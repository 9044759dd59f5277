---------------------------- MODULE MCWorkerJobs ----------------------------
(* Instance of WorkerJobs for TLC: the alerts of MCIncidentAlerts; one     *)
(* schedule charged by the worker's ticker and the nightly CronJob, over   *)
(* three weeks; the reports of two months, two generations begun and one   *)
(* call failing.                                                           *)
EXTENDS MCIncidentAlerts, WorkerJobs

(* Periods of one and two weeks, and a frequency the schema refuses; a     *)
(* month differs from them only in its length.                             *)
MCFrequencies == {"one_time", "weekly", "biweekly"}
=============================================================================
