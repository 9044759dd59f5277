-------------------------- MODULE MCOrderExecution --------------------------
(* Instances of OrderExecution for TLC. *)
EXTENDS OrderExecution

CONSTANTS garfield, milo

(* Two felines, so that the one that decides matters. *)
MCFelines == {garfield, milo}
=============================================================================
