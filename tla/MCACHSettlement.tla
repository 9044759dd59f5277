--------------------------- MODULE MCACHSettlement ---------------------------
(* Instances of ACHSettlement for TLC. *)
EXTENDS ACHSettlement, TLC

CONSTANTS small, large, c1, c2

(* amount_usd > 0: two deposits of different amounts. *)
MCRequests == {small, large}
MCDelta == small :> 1 @@ large :> 3
==============================================================================
