---------------------------- MODULE ReviewCycles ----------------------------
(***************************************************************************)
(* A review cycle of workforce-api: a row that the employee, a peer, the   *)
(* manager and a veterinarian fill in, each with a request of their own.   *)
(* Every request reads the row, changes its copy and writes the whole copy *)
(* back, outside a transaction; the UPDATE keeps a column where the copy   *)
(* has no value.  Requests may overlap in any way.                         *)
(*                                                                         *)
(* A column holds the request that gave it its value.  Columns that are    *)
(* treated alike share a name: "self" is the self appraisal and its score  *)
(* (and the notes), "peer" the feedback, its score and author,             *)
(* "assessment" the manager's text, KPIs and identity, "audit" the auditor *)
(* and the recommendations, which an audit gives even if they are empty.   *)
(* The review period is left out: an edit may carry one, but the UPDATE    *)
(* statement does not store it.                                            *)
(***************************************************************************)
CONSTANTS Requests,  \* requests that may be made of this review cycle
          Edits      \* parameters of PUT requests

None == "none"
Creation == "creation"
Columns == {"self", "peer", "assessment", "audit", "manager_score",
            "wellness_audit_score", "score", "completed_at"}
Types == {"performance", "feline_health_assessment"}
Phases == {"self_appraisal", "peer_feedback", "manager_review", "completed"}
Statuses == {"scheduled", "in_progress", "completed", "overdue"}

(* What a request may change: columns it gives a value, and a phase and a  *)
(* status if it has them.  A PUT cannot set completed_at.                  *)
Params == [columns: SUBSET Columns,
           phase: Phases \cup {None}, status: Statuses \cup {None}]

ASSUME RequestAssumption ==
  /\ None \notin Requests
  /\ Creation \notin Requests
  /\ Edits \subseteq {p \in Params : "completed_at" \notin p.columns}

Writers == Requests \cup {Creation}
Rows == [type: Types, phase: Phases, status: Statuses,
         value: [Columns -> Writers \cup {None}]]

VARIABLES created,    \* the row exists
          row,        \* the row in the database
          progress,   \* of each request
          params,     \* what it asks for
          copy,       \* the row as it read it
          given,      \* history: the requests that gave a column a value
          overtaken   \* history: another request wrote since this one read

vars == <<created, row, progress, params, copy, given, overtaken>>

Nothing == [columns |-> {}, phase |-> None, status |-> None]
Blank == [type |-> "performance", phase |-> "self_appraisal",
          status |-> "scheduled", value |-> [c \in Columns |-> None]]

TypeOK ==
  /\ created \in BOOLEAN
  /\ row \in Rows
  /\ progress \in [Requests -> {"new", "editing", "done"}]
  /\ params \in [Requests -> Params]
  /\ copy \in [Requests -> Rows]
  /\ given \in [Columns -> SUBSET Writers]
  /\ overtaken \in [Requests -> BOOLEAN]

Init ==
  /\ created = FALSE
  /\ row = Blank
  /\ progress = [r \in Requests |-> "new"]
  /\ params = [r \in Requests |-> Nothing]
  /\ copy = [r \in Requests |-> Blank]
  /\ given = [c \in Columns |-> {}]
  /\ overtaken = [r \in Requests |-> FALSE]

-----------------------------------------------------------------------------
(* Creation.  The handler forwards texts but of the scores only the self   *)
(* score, and the service sets neither the overall score nor completed_at. *)
(* Mutant: the manager's score is forwarded as well.                       *)
MutantCreatable == {"self", "peer", "assessment", "audit", "manager_score"}
Creatable == {"self", "peer", "assessment", "audit"}

Inserted(type, phase, columns) ==
  [type |-> type, phase |-> phase, status |-> "scheduled",
   value |-> [c \in Columns |-> IF c \in columns THEN Creation ELSE None]]

CreateReviewCycle(type, phase, columns) ==
  /\ ~created
  /\ created' = TRUE
  /\ row' = Inserted(type, phase, columns)
  /\ given' = [c \in Columns |-> IF c \in columns THEN {Creation} ELSE {}]
  /\ UNCHANGED <<progress, params, copy, overtaken>>

-----------------------------------------------------------------------------
(* The changes of UpdateReviewCycle to the copy rc of request r.           *)

(* The overall score follows the manager's, or in a feline's assessment    *)
(* the auditor's, while there is none.                                     *)
(* Mutant: the overall score follows also when there is one.               *)
MutantScored(r, p, rc) ==
  IF \/ "manager_score" \in p.columns
     \/ "wellness_audit_score" \in p.columns
        /\ rc.type = "feline_health_assessment"
  THEN [rc EXCEPT !.value["score"] = r]
  ELSE rc
Scored(r, p, rc) ==
  IF /\ rc.value["score"] = None
     /\ \/ "manager_score" \in p.columns
        \/ "wellness_audit_score" \in p.columns
           /\ rc.type = "feline_health_assessment"
  THEN [rc EXCEPT !.value["score"] = r]
  ELSE rc

(* A review that is or becomes completed has a completion time.            *)
Stamped(r, p, rc) ==
  IF /\ rc.value["completed_at"] = None
     /\ rc.status = "completed" \/ rc.phase = "completed"
  THEN [rc EXCEPT !.value["completed_at"] = r]
  ELSE rc

Filled(r, p, rc) ==
  [rc EXCEPT !.status = IF p.status = None THEN @ ELSE p.status,
             !.phase = IF p.phase = None THEN @ ELSE p.phase,
             !.value = [c \in Columns |->
                          IF c \in p.columns THEN r ELSE rc.value[c]]]

Changed(r, p, rc) == Stamped(r, p, Scored(r, p, Filled(r, p, rc)))

(* The UPDATE statement: status and phase as in rc, a column as in rc only *)
(* if rc has a value for it.                                               *)
(* Mutant: the statement writes the columns of rc as they are.             *)
MutantMerge(old, rc) == [rc EXCEPT !.type = old.type]
Merge(old, rc) ==
  [old EXCEPT !.status = rc.status,
              !.phase = rc.phase,
              !.value = [c \in Columns |-> IF rc.value[c] = None
                                             THEN old.value[c]
                                             ELSE rc.value[c]]]

-----------------------------------------------------------------------------
(* A request reads the row first.                                          *)
Begin(r, p) ==
  /\ created
  /\ progress[r] = "new"
  /\ progress' = [progress EXCEPT ![r] = "editing"]
  /\ params' = [params EXCEPT ![r] = p]
  /\ copy' = [copy EXCEPT ![r] = row]
  /\ UNCHANGED <<created, row, given, overtaken>>

(* What the four submissions change; the service fixes phase and status.   *)
SelfAppraisal == [columns |-> {"self"},
                  phase |-> "peer_feedback", status |-> "in_progress"]
PeerFeedback == [columns |-> {"peer"},
                 phase |-> "manager_review", status |-> "in_progress"]
ManagerAssessment == [columns |-> {"assessment", "manager_score", "score",
                                   "completed_at"},
                      phase |-> "completed", status |-> "completed"]
VeterinaryAudit == [columns |-> {"audit", "wellness_audit_score"},
                    phase |-> None, status |-> None]

SubmitSelfAppraisal(r) == Begin(r, SelfAppraisal)
SubmitPeerFeedback(r) == Begin(r, PeerFeedback)
SubmitManagerAssessment(r) == Begin(r, ManagerAssessment)
SubmitVeterinaryAudit(r) == Begin(r, VeterinaryAudit)
UpdateReviewCycle(r) == \E p \in Edits : Begin(r, p)

(* Its parameters and its copy are gone when the handler returns.          *)
Forget(r) ==
  /\ params' = [params EXCEPT ![r] = Nothing]
  /\ copy' = [copy EXCEPT ![r] = Blank]

(* It writes its changed copy back.                                        *)
Write(r) ==
  LET rc == Changed(r, params[r], copy[r]) IN
  /\ progress[r] = "editing"
  /\ progress' = [progress EXCEPT ![r] = "done"]
  /\ row' = Merge(row, rc)
  /\ given' = [c \in Columns |-> IF rc.value[c] = r THEN given[c] \cup {r}
                                                    ELSE given[c]]
  /\ overtaken' = [q \in Requests |->
                     q # r /\ (overtaken[q] \/ progress[q] = "editing")]
  /\ Forget(r)
  /\ UNCHANGED created

(* A score out of range, a reference the database refuses, a cancelled     *)
(* request: it ends without a write.                                       *)
Fail(r) ==
  /\ progress[r] = "editing"
  /\ progress' = [progress EXCEPT ![r] = "done"]
  /\ overtaken' = [overtaken EXCEPT ![r] = FALSE]
  /\ Forget(r)
  /\ UNCHANGED <<created, row, given>>

Next ==
  \/ \E type \in Types, phase \in Phases, columns \in SUBSET Creatable :
       CreateReviewCycle(type, phase, columns)
  \/ \E r \in Requests :
       \/ SubmitSelfAppraisal(r)
       \/ SubmitPeerFeedback(r)
       \/ SubmitManagerAssessment(r)
       \/ SubmitVeterinaryAudit(r)
       \/ UpdateReviewCycle(r)
       \/ Write(r)
       \/ Fail(r)

Spec == Init /\ [][Next]_vars

-----------------------------------------------------------------------------
(* What was submitted is not erased: a column that some request filled in  *)
(* holds what one of the requests that filled it in gave.  In particular a *)
(* column that only one request gave keeps that value, whatever overlapped *)
(* with it: the UPDATE of pgxRepository keeps columns its copy lacks.      *)
NothingErased ==
  \A c \in Columns : given[c] # {} => row.value[c] \in given[c]

(* A completed review has a completion time, also when its status comes    *)
(* from a copy that was read earlier (UpdateReviewCycle).                  *)
CompletionDated ==
  row.status = "completed" => row.value["completed_at"] # None

(* A review that the manager scored, or a feline's that was audited, has   *)
(* an overall score, although the two columns may come from different      *)
(* requests.                                                               *)
ScoreOf(rc) ==
  \/ rc.value["manager_score"] # None
  \/ rc.value["wellness_audit_score"] # None
     /\ rc.type = "feline_health_assessment"
  => rc.value["score"] # None
ScoreFollows == ScoreOf(row)

(* Both: the columns UpdateReviewCycle derives are there when they should  *)
(* be.                                                                     *)
DerivedPresent == CompletionDated /\ ScoreFollows

(* A request that nobody overtook changes only what it asked for: values   *)
(* it did not give, the status and the phase stay.  So only a request that *)
(* says so, or one that read the row before, reopens a completed review or *)
(* replaces the overall score.                                             *)
Ends(r) == progress[r] = "editing" /\ progress'[r] = "done"
UnaskedKept ==
  [][\A r \in Requests :
       Ends(r) /\ ~overtaken[r] =>
         /\ \A c \in Columns \ params[r].columns :
              row.value[c] # None => row'.value[c] = row.value[c]
         /\ params[r].status = None => row'.status = row.status
         /\ params[r].phase = None => row'.phase = row.phase]_vars
=============================================================================
