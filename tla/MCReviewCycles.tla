--------------------------- MODULE MCReviewCycles ---------------------------
(***************************************************************************)
(* Instance of ReviewCycles for TLC: three overlapping requests, and PUTs  *)
(* that give one score, complete the review, reopen it or move its phase.  *)
(***************************************************************************)
EXTENDS ReviewCycles, TLC

Put(columns, phase, status) ==
  [columns |-> columns, phase |-> phase, status |-> status]

MCEdits ==
  {Put({"manager_score"}, None, None),
   Put({"wellness_audit_score"}, None, None),
   Put({"score"}, None, None),
   Put({"self"}, None, "overdue"),
   Put({}, None, "completed"),
   Put({}, "completed", None)}

Symmetry == Permutations(Requests)
=============================================================================
