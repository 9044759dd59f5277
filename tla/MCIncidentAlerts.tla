-------------------------- MODULE MCIncidentAlerts --------------------------
(***************************************************************************)
(* Instance of IncidentAlerts for TLC: two incidents, one browser tab with *)
(* a channel of one event, one failed delivery and one worker restart.     *)
(***************************************************************************)
EXTENDS IncidentAlerts
=============================================================================
