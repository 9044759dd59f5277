--------------------------- MODULE WorkforceProofs --------------------------
(***************************************************************************)
(* Proofs about the workforce domain, for any requests, edits, keepers,    *)
(* sheets, reviewers and shifts, and any number of writes.  Of a review    *)
(* cycle nothing submitted is erased, a completed review is dated, a       *)
(* scored one has an overall score, and a request that was not overtaken   *)
(* keeps what it did not ask to change.  A cached care schedule that is    *)
(* out of date, a medical hold that is lifted, timesheets that overlap and *)
(* an approval that is withdrawn have the reasons the runs check.          *)
(***************************************************************************)
EXTENDS Workforce, FiniteSetTheorems, TLAPS

(***************************************************************************)
(* Review cycles.                                                          *)
(***************************************************************************)
(* What a request under way knows: the values of its copy were given, its  *)
(* copy is scored as the row is, and unless another request wrote since,   *)
(* its copy is the row.                                                    *)
CopiesGiven ==
  \A r \in Requests : progress[r] = "editing" =>
    \A c \in Columns : copy[r].value[c] # None => copy[r].value[c] \in given[c]
CopiesScored ==
  \A r \in Requests : progress[r] = "editing" =>
    copy[r].type = row.type /\ ScoreOf(copy[r])
CopiesCurrent ==
  \A r \in Requests : progress[r] = "editing" /\ ~overtaken[r] =>
    copy[r] = row

(* A column has a value exactly if some request gave it one.               *)
ValuesGiven ==
  \A c \in Columns : /\ given[c] = {} => row.value[c] = None
                     /\ given[c] # {} => row.value[c] \in given[c]

RowInv == ValuesGiven /\ CompletionDated /\ ScoreFollows
CopyInv == CopiesGiven /\ CopiesScored /\ CopiesCurrent
EditInv == created \/ \A r \in Requests : progress[r] # "editing"
IInv == TypeOK /\ RowInv /\ CopyInv /\ EditInv

-----------------------------------------------------------------------------
(* What Filled does to a copy.                                             *)
LEMMA FilledFacts ==
  ASSUME NEW r \in Requests, NEW p \in Params, NEW rc \in Rows
  PROVE  LET n == Filled(r, p, rc) IN
         /\ n \in Rows
         /\ n.type = rc.type
         /\ \A c \in Columns :
              n.value[c] = IF c \in p.columns THEN r ELSE rc.value[c]
         /\ n.status = IF p.status = None THEN rc.status ELSE p.status
         /\ n.phase = IF p.phase = None THEN rc.phase ELSE p.phase
  BY RequestAssumption DEF Filled, Params, Rows, Writers

(* What Scored does: at most the overall score changes, if there was none. *)
LEMMA ScoredFacts ==
  ASSUME NEW r \in Requests, NEW p \in Params, NEW rc \in Rows
  PROVE  LET n == Scored(r, p, rc) IN
         /\ n \in Rows
         /\ n.type = rc.type /\ n.status = rc.status /\ n.phase = rc.phase
         /\ \A c \in Columns : n.value[c] # rc.value[c] =>
              n.value[c] = r /\ rc.value[c] = None
         /\ \A c \in Columns : c # "score" => n.value[c] = rc.value[c]
         /\ \/ "manager_score" \in p.columns
            \/ /\ "wellness_audit_score" \in p.columns
               /\ rc.type = "feline_health_assessment"
            => n.value["score"] # None
  BY RequestAssumption DEF Scored, Rows, Writers, Columns

(* What Stamped does: at most the completion time changes, if there was    *)
(* none, and a completed review gets one.                                  *)
LEMMA StampedFacts ==
  ASSUME NEW r \in Requests, NEW p \in Params, NEW rc \in Rows
  PROVE  LET n == Stamped(r, p, rc) IN
         /\ n \in Rows
         /\ n.type = rc.type /\ n.status = rc.status /\ n.phase = rc.phase
         /\ \A c \in Columns : n.value[c] # rc.value[c] =>
              n.value[c] = r /\ rc.value[c] = None
         /\ \A c \in Columns : c # "completed_at" => n.value[c] = rc.value[c]
         /\ n.status = "completed" => n.value["completed_at"] # None
  BY RequestAssumption DEF Stamped, Rows, Writers, Columns

(* The three together: a value is kept or becomes the request's own, one   *)
(* that was there and not asked for is kept.                               *)
LEMMA ChangedFacts ==
  ASSUME NEW r \in Requests, NEW p \in Params, NEW rc \in Rows
  PROVE  LET n == Changed(r, p, rc) IN
         /\ n \in Rows
         /\ n.type = rc.type
         /\ \A c \in Columns : n.value[c] \in {r, rc.value[c]}
         /\ \A c \in Columns \ p.columns :
              rc.value[c] # None => n.value[c] = rc.value[c]
         /\ p.status = None => n.status = rc.status
         /\ p.phase = None => n.phase = rc.phase
         /\ n.status = "completed" => n.value["completed_at"] # None
         /\ ScoreOf(rc) => ScoreOf(n)
<1> DEFINE f == Filled(r, p, rc)
           s == Scored(r, p, f)
           n == Stamped(r, p, s)
<1>1. f \in Rows /\ s \in Rows /\ n \in Rows
  BY FilledFacts, ScoredFacts, StampedFacts
<1>2. n.type = rc.type
  BY <1>1, FilledFacts, ScoredFacts, StampedFacts
<1>3. \A c \in Columns : n.value[c] \in {r, rc.value[c]}
  <2> SUFFICES ASSUME NEW c \in Columns PROVE n.value[c] \in {r, rc.value[c]}
    OBVIOUS
  <2>1. f.value[c] \in {r, rc.value[c]}
    BY FilledFacts
  <2>2. s.value[c] \in {r, f.value[c]}
    BY <1>1, ScoredFacts
  <2>3. n.value[c] \in {r, s.value[c]}
    BY <1>1, StampedFacts
  <2> QED BY <2>1, <2>2, <2>3
<1>4. ASSUME NEW c \in Columns \ p.columns, rc.value[c] # None
      PROVE  n.value[c] = rc.value[c]
  <2>1. f.value[c] = rc.value[c]
    BY FilledFacts
  <2>2. s.value[c] = f.value[c]
    BY <1>1, <1>4, <2>1, ScoredFacts
  <2>3. n.value[c] = s.value[c]
    BY <1>1, <1>4, <2>1, <2>2, StampedFacts
  <2> QED BY <2>1, <2>2, <2>3
<1>5. (p.status = None => n.status = rc.status)
      /\ (p.phase = None => n.phase = rc.phase)
  BY <1>1, FilledFacts, ScoredFacts, StampedFacts
<1>6. n.status = "completed" => n.value["completed_at"] # None
  BY <1>1, StampedFacts
<1>7. ASSUME ScoreOf(rc) PROVE ScoreOf(n)
  <2>1. /\ n.value["manager_score"] = f.value["manager_score"]
        /\ n.value["wellness_audit_score"] = f.value["wellness_audit_score"]
        /\ n.value["score"] = s.value["score"]
    BY <1>1, ScoredFacts, StampedFacts DEF Columns
  <2>2. f.value["score"] # None => s.value["score"] # None
    BY <1>1, ScoredFacts DEF Columns
  <2>3. f.type = rc.type
    BY FilledFacts
  <2>4. CASE \/ "manager_score" \in p.columns
             \/ /\ "wellness_audit_score" \in p.columns
                /\ rc.type = "feline_health_assessment"
    BY <1>1, <2>1, <2>3, <2>4, ScoredFacts DEF ScoreOf
  <2>5. CASE ~ \/ "manager_score" \in p.columns
               \/ /\ "wellness_audit_score" \in p.columns
                  /\ rc.type = "feline_health_assessment"
    <3>1. f.value["manager_score"] = rc.value["manager_score"]
      BY <2>5, FilledFacts DEF Columns
    <3>2. rc.type = "feline_health_assessment" =>
            f.value["wellness_audit_score"] = rc.value["wellness_audit_score"]
      BY <2>5, FilledFacts DEF Columns
    <3>3. rc.value["score"] # None => f.value["score"] # None
      BY FilledFacts, RequestAssumption DEF Columns
    <3> QED BY <1>2, <1>7, <2>1, <2>2, <3>1, <3>2, <3>3 DEF ScoreOf
  <2> QED BY <2>4, <2>5
<1> HIDE DEF n
<1>8. n = Changed(r, p, rc)
  BY DEF n, Changed
<1> QED BY <1>1, <1>2, <1>3, <1>4, <1>5, <1>6, <1>7, <1>8

(* What the UPDATE statement leaves in the row.                            *)
LEMMA MergeFacts ==
  ASSUME NEW old \in Rows, NEW rc \in Rows
  PROVE  LET n == Merge(old, rc) IN
         /\ n \in Rows
         /\ n.type = old.type /\ n.status = rc.status /\ n.phase = rc.phase
         /\ \A c \in Columns : n.value[c] = IF rc.value[c] = None
                                              THEN old.value[c]
                                              ELSE rc.value[c]
  BY DEF Merge, Rows

-----------------------------------------------------------------------------
(* The parameters of every request are in Params.                          *)
LEMMA ParamsFacts ==
  /\ SelfAppraisal \in Params /\ PeerFeedback \in Params
  /\ ManagerAssessment \in Params /\ VeterinaryAudit \in Params
  /\ Nothing \in Params
  /\ \A p \in Edits : p \in Params
<1>1. Nothing \in Params /\ VeterinaryAudit \in Params
  BY DEF Nothing, VeterinaryAudit, Params, Columns
<1>2. SelfAppraisal \in Params /\ PeerFeedback \in Params
  BY DEF SelfAppraisal, PeerFeedback, Params, Columns, Phases, Statuses
<1>3. ManagerAssessment \in Params
  BY DEF ManagerAssessment, Params, Columns, Phases, Statuses
<1> QED BY <1>1, <1>2, <1>3, RequestAssumption

(* The row before creation is a row.                                       *)
LEMMA BlankRow == Blank \in Rows
  BY DEF Blank, Rows, Types, Phases, Statuses

(* Initially.                                                              *)
LEMMA InitIInv == Init => IInv
<1> SUFFICES ASSUME Init PROVE IInv
  OBVIOUS
<1>1. TypeOK
  BY BlankRow, ParamsFacts DEF Init, TypeOK
<1>2. RowInv
  BY DEF Init, RowInv, ValuesGiven, CompletionDated, ScoreFollows, ScoreOf,
         Blank, Columns
<1>3. CopyInv /\ EditInv
  BY DEF Init, CopyInv, CopiesGiven, CopiesScored, CopiesCurrent, EditInv
<1> QED BY <1>1, <1>2, <1>3 DEF IInv

(* A request that begins reads the row, so its copy is the row.            *)
LEMMA BeginIInv ==
  ASSUME IInv, NEW r \in Requests, NEW p \in Params, Begin(r, p)
  PROVE  IInv'
<1> USE DEF IInv, TypeOK
<1>1. TypeOK'
  BY DEF Begin
<1>2. RowInv'
  BY DEF Begin, RowInv, ValuesGiven, CompletionDated, ScoreFollows, ScoreOf
<1>3. CopiesGiven'
  <2>1. \A c \in Columns : row.value[c] # None => row.value[c] \in given[c]
    BY DEF RowInv, ValuesGiven
  <2> QED BY <2>1 DEF Begin, CopyInv, CopiesGiven
<1>4. CopiesScored'
  BY DEF Begin, RowInv, ScoreFollows, ScoreOf, CopyInv, CopiesScored
<1>5. CopiesCurrent'
  BY DEF Begin, CopyInv, CopiesCurrent
<1>6. EditInv'
  BY DEF Begin, EditInv
<1> QED BY <1>1, <1>2, <1>3, <1>4, <1>5, <1>6 DEF CopyInv

(* A request that ends without a write leaves the row alone.               *)
LEMMA FailIInv ==
  ASSUME IInv, NEW r \in Requests, Fail(r)
  PROVE  IInv'
<1> USE DEF IInv, TypeOK
<1>1. TypeOK'
  BY BlankRow, ParamsFacts DEF Fail, Forget
<1>2. RowInv'
  BY DEF Fail, RowInv, ValuesGiven, CompletionDated, ScoreFollows, ScoreOf
<1>3. CopyInv' /\ EditInv'
  BY DEF Fail, Forget, CopyInv, CopiesGiven, CopiesScored, CopiesCurrent,
         EditInv, ScoreOf
<1> QED BY <1>1, <1>2, <1>3

(* Creation: no request is under way, and no score is among the columns it *)
(* fills in.                                                               *)
LEMMA CreateIInv ==
  ASSUME IInv, NEW type \in Types, NEW phase \in Phases,
         NEW columns \in SUBSET Creatable,
         CreateReviewCycle(type, phase, columns)
  PROVE  IInv'
<1> USE DEF IInv, TypeOK
<1>1. TypeOK'
  <2>1. Inserted(type, phase, columns) \in Rows
    BY DEF Inserted, Rows, Statuses, Writers
  <2>2. given' \in [Columns -> SUBSET Writers]
    BY DEF CreateReviewCycle, Writers
  <2> QED BY <2>1, <2>2 DEF CreateReviewCycle
<1>2. ValuesGiven'
  BY DEF CreateReviewCycle, Inserted, ValuesGiven
<1>3. CompletionDated' /\ ScoreFollows'
  BY DEF CreateReviewCycle, Inserted, CompletionDated, ScoreFollows, ScoreOf,
         Creatable, Columns
<1>4. \A r \in Requests : progress'[r] # "editing"
  BY DEF CreateReviewCycle, EditInv
<1> QED BY <1>1, <1>2, <1>3, <1>4
        DEF RowInv, CopyInv, CopiesGiven, CopiesScored, CopiesCurrent, EditInv

(* A write: the values of the changed copy were given, by this request or  *)
(* before; a score that comes from either side brings an overall score.    *)
LEMMA WriteIInv ==
  ASSUME IInv, NEW r \in Requests, Write(r)
  PROVE  IInv'
<1> DEFINE rc == Changed(r, params[r], copy[r])
<1> USE DEF IInv, TypeOK
<1>1. params[r] \in Params /\ copy[r] \in Rows /\ progress[r] = "editing"
  BY DEF Write
<1>2. /\ rc \in Rows
      /\ rc.type = copy[r].type
      /\ \A c \in Columns : rc.value[c] \in {r, copy[r].value[c]}
      /\ rc.status = "completed" => rc.value["completed_at"] # None
      /\ ScoreOf(copy[r]) => ScoreOf(rc)
  BY <1>1, ChangedFacts
<1>3. /\ row' = Merge(row, rc)
      /\ given' = [c \in Columns |-> IF rc.value[c] = r
                                        THEN given[c] \cup {r} ELSE given[c]]
      /\ overtaken' = [q \in Requests |->
                         q # r /\ (overtaken[q] \/ progress[q] = "editing")]
      /\ progress' = [progress EXCEPT ![r] = "done"]
      /\ params' = [params EXCEPT ![r] = Nothing]
      /\ copy' = [copy EXCEPT ![r] = Blank]
      /\ created' = created
  BY DEF Write, Forget
<1> HIDE DEF rc
<1>4. /\ row' \in Rows
      /\ row'.type = row.type /\ row'.status = rc.status
      /\ \A c \in Columns : row'.value[c] = IF rc.value[c] = None
                                               THEN row.value[c]
                                               ELSE rc.value[c]
  BY <1>2, <1>3, MergeFacts
<1>5. TypeOK'
  <2>1. given' \in [Columns -> SUBSET Writers]
    BY <1>3 DEF Writers
  <2>2. overtaken' \in [Requests -> BOOLEAN]
    BY <1>3
  <2> QED BY <1>3, <1>4, <2>1, <2>2, BlankRow, ParamsFacts
<1>6. ValuesGiven'
  <2> SUFFICES ASSUME NEW c \in Columns
               PROVE  /\ given'[c] = {} => row'.value[c] = None
                      /\ given'[c] # {} => row'.value[c] \in given'[c]
    BY DEF ValuesGiven
  <2>1. given[c] = {} => row.value[c] = None
    BY DEF RowInv, ValuesGiven
  <2>2. given[c] # {} => row.value[c] \in given[c]
    BY DEF RowInv, ValuesGiven
  <2>3. copy[r].value[c] # None => copy[r].value[c] \in given[c]
    BY <1>1 DEF CopyInv, CopiesGiven
  <2>4. r # None
    BY RequestAssumption
  <2>5. CASE rc.value[c] = None
    BY <1>3, <1>4, <2>1, <2>2, <2>4, <2>5
  <2>6. CASE rc.value[c] = r
    BY <1>3, <1>4, <2>4, <2>6
  <2>7. CASE rc.value[c] # None /\ rc.value[c] # r
    BY <1>2, <1>3, <1>4, <2>3, <2>7
  <2> QED BY <2>5, <2>6, <2>7
<1>7. CompletionDated'
  BY <1>2, <1>4 DEF CompletionDated, Columns
<1>8. ScoreFollows'
  <2>1. ScoreOf(rc) /\ rc.type = row.type
    BY <1>1, <1>2 DEF CopyInv, CopiesScored
  <2>2. ScoreOf(row)
    BY DEF RowInv, ScoreFollows
  <2> QED BY <1>4, <2>1, <2>2 DEF ScoreFollows, ScoreOf, Columns
<1>9. CopiesGiven'
  <2>1. \A c \in Columns : given[c] \subseteq given'[c]
    BY <1>3
  <2>2. \A q \in Requests : progress'[q] = "editing" =>
          progress[q] = "editing" /\ copy'[q] = copy[q]
    BY <1>3
  <2> QED BY <2>1, <2>2 DEF CopyInv, CopiesGiven
<1>10. CopiesScored'
  BY <1>3, <1>4 DEF CopyInv, CopiesScored, ScoreOf
<1>11. CopiesCurrent'
  BY <1>3 DEF CopiesCurrent
<1>12. EditInv'
  BY <1>1, <1>3 DEF EditInv
<1> QED BY <1>5, <1>6, <1>7, <1>8, <1>9, <1>10, <1>11, <1>12
        DEF RowInv, CopyInv

(* Stuttering.                                                             *)
LEMMA StutterIInv == IInv /\ UNCHANGED vars => IInv'
  BY DEF vars, IInv, TypeOK, RowInv, ValuesGiven, CompletionDated,
         ScoreFollows, ScoreOf, CopyInv, CopiesGiven, CopiesScored,
         CopiesCurrent, EditInv

(* The invariant is inductive.                                             *)
LEMMA IInvInductive == IInv /\ [Next]_vars => IInv'
<1> SUFFICES ASSUME IInv, [Next]_vars PROVE IInv'
  OBVIOUS
<1>1. CASE \E type \in Types, phase \in Phases, columns \in SUBSET Creatable :
             CreateReviewCycle(type, phase, columns)
  BY <1>1, CreateIInv
<1>2. ASSUME NEW r \in Requests, NEW p \in Params, Begin(r, p) PROVE IInv'
  BY <1>2, BeginIInv
<1>3. ASSUME NEW r \in Requests,
             \/ SubmitSelfAppraisal(r)
             \/ SubmitPeerFeedback(r)
             \/ SubmitManagerAssessment(r)
             \/ SubmitVeterinaryAudit(r)
             \/ UpdateReviewCycle(r)
      PROVE  IInv'
  BY <1>2, <1>3, ParamsFacts
     DEF SubmitSelfAppraisal, SubmitPeerFeedback, SubmitManagerAssessment,
         SubmitVeterinaryAudit, UpdateReviewCycle
<1>4. ASSUME NEW r \in Requests, Write(r) PROVE IInv'
  BY <1>4, WriteIInv
<1>5. ASSUME NEW r \in Requests, Fail(r) PROVE IInv'
  BY <1>5, FailIInv
<1>6. CASE UNCHANGED vars
  BY <1>6, StutterIInv
<1> QED BY <1>1, <1>3, <1>4, <1>5, <1>6 DEF Next

(* The invariant holds throughout.                                         *)
LEMMA IInvHolds == Spec => []IInv
<1> QED BY InitIInv, IInvInductive, PTL DEF Spec

-----------------------------------------------------------------------------
(* The variables keep their types, whatever requests of UpdateReviewCycle  *)
(* overlap.                                                                *)
THEOREM TypeCorrect == Spec => []TypeOK
<1>1. IInv => TypeOK
  BY DEF IInv
<1> QED BY <1>1, IInvHolds, PTL

(* What a submission filled in is there or was replaced by what another    *)
(* request gave: the UPDATE statement erases nothing.                      *)
THEOREM SubmissionsSurvive == Spec => []NothingErased
<1>1. IInv => NothingErased
  BY DEF IInv, RowInv, ValuesGiven, NothingErased
<1> QED BY <1>1, IInvHolds, PTL

(* A completed review has its completion time, whichever copy the status   *)
(* came from; one with a manager's score, or a feline's with an audit, has *)
(* an overall score, also after two writes that each saw only half.        *)
THEOREM DerivedIsPresent == Spec => []DerivedPresent
<1>1. IInv => DerivedPresent
  BY DEF IInv, RowInv, DerivedPresent
<1> QED BY <1>1, IInvHolds, PTL

(* A request that was not overtaken between its read and its write changes *)
(* nothing else than what it asked for.                                    *)
THEOREM UnaskedIsKept == Spec => UnaskedKept
<1> DEFINE Kept ==
      \A r \in Requests :
        Ends(r) /\ ~overtaken[r] =>
          /\ \A c \in Columns \ params[r].columns :
               row.value[c] # None => row'.value[c] = row.value[c]
          /\ params[r].status = None => row'.status = row.status
          /\ params[r].phase = None => row'.phase = row.phase
<1>1. IInv /\ [Next]_vars => [Kept]_vars
  <2> SUFFICES ASSUME IInv, Next, NEW r \in Requests, Ends(r), ~overtaken[r]
               PROVE  /\ \A c \in Columns \ params[r].columns :
                           row.value[c] # None => row'.value[c] = row.value[c]
                      /\ params[r].status = None => row'.status = row.status
                      /\ params[r].phase = None => row'.phase = row.phase
    BY DEF Kept
  <2>1. Write(r) \/ Fail(r)
    BY DEF IInv, TypeOK, Ends, Next, CreateReviewCycle, Begin, Write, Fail,
           SubmitSelfAppraisal, SubmitPeerFeedback, SubmitManagerAssessment,
           SubmitVeterinaryAudit, UpdateReviewCycle
  <2>2. CASE Fail(r)
    BY <2>2 DEF Fail
  <2>3. CASE Write(r)
    <3>1. copy[r] = row /\ row \in Rows /\ params[r] \in Params
      BY DEF IInv, TypeOK, CopyInv, CopiesCurrent, Ends
    <3> DEFINE rc == Changed(r, params[r], row)
    <3>2. /\ rc \in Rows
          /\ \A c \in Columns \ params[r].columns :
               row.value[c] # None => rc.value[c] = row.value[c]
          /\ params[r].status = None => rc.status = row.status
          /\ params[r].phase = None => rc.phase = row.phase
      BY <3>1, ChangedFacts
    <3>3. row' = Merge(row, rc)
      BY <2>3, <3>1 DEF Write
    <3> HIDE DEF rc
    <3> QED BY <3>1, <3>2, <3>3, MergeFacts
  <2> QED BY <2>1, <2>2, <2>3
<1>2. Spec => [][Kept]_vars
  BY <1>1, IInvHolds, PTL DEF Spec
<1> QED BY <1>2 DEF UnaskedKept, Kept

-----------------------------------------------------------------------------
(***************************************************************************)
(* Care schedules.                                                         *)
(***************************************************************************)
Pcs == {"idle", "start", "read", "check", "fill", "write", "toggle", "bump", "count", "evict"}
ReadRequests == [pc: {"read"}, ver: 0 .. MaxSaves]
CopyRequests == [pc: {"check", "fill"}, ver: 0 .. MaxSaves, val: Care!Rows, overtaken: BOOLEAN]
CountRequests == [pc: {"count"}, ver: 0 .. MaxSaves]
CareRequests ==
  {Care!Idle} \cup [pc: {"start", "write", "toggle", "bump", "evict"}]
    \cup ReadRequests \cup CopyRequests \cup CountRequests

(* A save that has written the row and not evicted its copies yet. *)
Saving(k) == req[k].pc \in {"bump", "count", "evict"}

(* The saves that have not counted themselves. *)
Uncounted == {k \in Keepers : req[k].pc \in {"bump", "count"}}

(* Each count of the version stands for a write of the row. *)
WritesCounted ==
  /\ version + Cardinality(Uncounted) <= careRow.n
  /\ \A k \in Keepers : req[k].pc = "count" => req[k].ver + Cardinality(Uncounted) <= careRow.n

(* A copy of the row that is as new as the hold that is set shows it. *)
Shows(v) == v.n <= careRow.n /\ (careRow.hold /\ v.n >= heldAt => v.hold)
HoldShown ==
  /\ heldAt <= careRow.n
  /\ \A k \in Keepers : Shows(page[k])
  /\ \A k \in Keepers : req[k].pc \in {"check", "fill"} => Shows(req[k].val)
  /\ Care!Live => Shows(entry.val)

(* A reader began at no later count than the present one; a save that made *)
(* its copy out of date has counted since or will count beyond it.         *)
ReadersBehind ==
  \A k \in Keepers : req[k].pc \in {"read", "check"} => req[k].ver <= version
ChecksCaught ==
  \A k \in Keepers : req[k].pc = "check" /\ req[k].val # careRow =>
    \/ req[k].ver < version
    \/ \E j \in Keepers : \/ req[j].pc = "bump"
                          \/ req[j].pc = "count" /\ req[k].ver <= req[j].ver
FillsExplained ==
  \A k \in Keepers : req[k].pc = "fill" /\ req[k].val # careRow =>
    req[k].overtaken \/ \E j \in Keepers : Saving(j)
CopyStale ==
  Care!Live /\ entry.val # careRow => entry.overtaken \/ \E j \in Keepers : Saving(j)

CareFresh == ReadersBehind /\ ChecksCaught /\ FillsExplained /\ CopyStale

CareInv == Care!TypeOK /\ WritesCounted /\ HoldShown /\ (~faulty => CareFresh)

-----------------------------------------------------------------------------
(* What the phase of a request says of its other fields. *)
LEMMA RequestShape ==
  ASSUME Care!TypeOK, NEW k \in Keepers
  PROVE  /\ req[k] \in CareRequests
         /\ req[k].pc \in Pcs
         /\ req[k].pc = "read" => req[k] \in ReadRequests
         /\ req[k].pc \in {"check", "fill"} => req[k] \in CopyRequests
         /\ req[k].pc = "count" => req[k] \in CountRequests
<1>1. req[k] \in CareRequests
  BY DEF Care!TypeOK, CareRequests, ReadRequests, CopyRequests, CountRequests
<1>2. CASE req[k] \in {Care!Idle} \cup [pc: {"start", "write", "toggle", "bump", "evict"}]
  BY <1>1, <1>2 DEF Care!Idle, Pcs
<1>3. CASE req[k] \in ReadRequests
  BY <1>1, <1>3 DEF ReadRequests, Pcs
<1>4. CASE req[k] \in CopyRequests
  BY <1>1, <1>4 DEF CopyRequests, Pcs
<1>5. CASE req[k] \in CountRequests
  BY <1>1, <1>5 DEF CountRequests, Pcs
<1>6. QED  BY <1>1, <1>2, <1>3, <1>4, <1>5 DEF CareRequests

(* What is stored and shown has the types of TypeOK. *)
LEMMA CareTypes ==
  ASSUME Care!TypeOK
  PROVE  /\ careRow \in Care!Rows /\ heldAt \in 0 .. MaxSaves
         /\ careRow.n \in 0 .. MaxSaves /\ careRow.hold \in BOOLEAN
         /\ version \in 0 .. MaxSaves /\ MaxSaves \in Nat
         /\ req \in [Keepers -> CareRequests]
         /\ page \in [Keepers -> Care!Rows \cup {Care!NoPage}]
         /\ entry \in Care!Entries /\ faulty \in BOOLEAN
         /\ Care!Live => entry \in [left: 1 .. TTLCareSchedule, val: Care!Rows, overtaken: BOOLEAN]
<1>1. /\ careRow \in Care!Rows /\ heldAt \in 0 .. MaxSaves /\ version \in 0 .. MaxSaves
      /\ entry \in Care!Entries /\ faulty \in BOOLEAN
      /\ page \in [Keepers -> Care!Rows \cup {Care!NoPage}]
  BY DEF Care!TypeOK
<1>2. req \in [Keepers -> CareRequests]
  BY DEF Care!TypeOK, CareRequests, ReadRequests, CopyRequests, CountRequests
<1>3. careRow.n \in 0 .. MaxSaves /\ careRow.hold \in BOOLEAN
  BY <1>1 DEF Care!Rows
<1>4. Care!Live => entry \in [left: 1 .. TTLCareSchedule, val: Care!Rows, overtaken: BOOLEAN]
  BY <1>1 DEF Care!Live, Care!Entries, Care!NoEntry
<1>5. QED  BY <1>1, <1>2, <1>3, <1>4, WorkforceAssumption

(* The number of saves that have not counted themselves. *)
LEMMA UncountedType ==
  IsFiniteSet(Uncounted) /\ Cardinality(Uncounted) \in Nat
<1>1. Uncounted \subseteq Keepers
  BY DEF Uncounted
<1>2. IsFiniteSet(Uncounted)
  BY <1>1, WorkforceAssumption, FS_Subset
<1>3. QED  BY <1>2, FS_CardinalityType

(* The page is new, the cache empty and nothing is written. *)
LEMMA CareInitInv == Care!CareInit => CareInv
<1>1. SUFFICES ASSUME Care!CareInit PROVE CareInv
  OBVIOUS
<1>2. /\ careRow = [n |-> 0, hold |-> FALSE] /\ heldAt = 0 /\ version = 0
      /\ entry = Care!NoEntry /\ faulty = FALSE
      /\ page = [k \in Keepers |-> Care!NoPage] /\ req = [k \in Keepers |-> Care!Idle]
  BY <1>1 DEF Care!CareInit
<1>3. \A k \in Keepers : req[k].pc = "idle"
  BY <1>2 DEF Care!Idle
<1>4. Care!TypeOK
  <2>1. careRow \in Care!Rows /\ heldAt \in 0 .. MaxSaves /\ version \in 0 .. MaxSaves
    BY <1>2, WorkforceAssumption DEF Care!Rows
  <2>2. QED  BY <1>2, <2>1 DEF Care!TypeOK, Care!Entries
<1>5. Uncounted = {}
  BY <1>3 DEF Uncounted
<1>6. WritesCounted
  BY <1>2, <1>3, <1>5, FS_EmptySet DEF WritesCounted
<1>7. ~Care!Live
  BY <1>2 DEF Care!Live, Care!NoEntry
<1>8. HoldShown
  BY <1>2, <1>3, <1>7 DEF HoldShown, Shows, Care!NoPage
<1>9. CareFresh
  BY <1>3, <1>7 DEF CareFresh, ReadersBehind, ChecksCaught, FillsExplained, CopyStale
<1>10. QED  BY <1>4, <1>6, <1>8, <1>9 DEF CareInv

-----------------------------------------------------------------------------
(* What loading a page may do: requests stay away from saving, the row and *)
(* the version stay, and what is copied was read from the row or a copy.   *)
ReaderStep(k, v) ==
  /\ UNCHANGED <<careRow, heldAt, version>>
  /\ req' = [req EXCEPT ![k] = v]
  /\ v \in CareRequests /\ ~Saving(k) /\ v.pc \notin {"bump", "count", "evict"}
  /\ page' \in [Keepers -> Care!Rows \cup {Care!NoPage}]
  /\ \A j \in Keepers : \/ page'[j] = page[j]
                        \/ Care!Live /\ page'[j] = entry.val
                        \/ req[k].pc \in {"check", "fill"} /\ page'[j] = req[k].val
  /\ \/ v.pc \in {"idle", "start", "write", "toggle"}
     \/ v.pc = "read" /\ (~faulty' => v.ver = version)
     \/ v.pc = "check" /\ v.val = careRow /\ req[k].pc = "read" /\ v.ver = req[k].ver
     \/ /\ v.pc = "fill" /\ req[k].pc = "check" /\ v.val = req[k].val
        /\ ~faulty' => req[k].ver = version
  /\ \/ entry' = entry
     \/ /\ entry' \in Care!Entries /\ req[k].pc = "fill"
        /\ entry'.val = req[k].val /\ entry'.overtaken = req[k].overtaken
  /\ faulty' \in BOOLEAN /\ (faulty => faulty')

(* Every step of getCareSchedule is one of these, and so are asking for a  *)
(* save and a save that failed before it wrote.                            *)
LEMMA LoadIsReaderStep ==
  ASSUME Care!TypeOK, NEW k \in Keepers,
         Care!Load(k) \/ Care!SubmitForm(k) \/ Care!WriteFailed(k)
  PROVE  \E v : ReaderStep(k, v)
<1>1. /\ careRow \in Care!Rows /\ version \in 0 .. MaxSaves /\ MaxSaves \in Nat
      /\ req \in [Keepers -> CareRequests]
      /\ page \in [Keepers -> Care!Rows \cup {Care!NoPage}]
      /\ entry \in Care!Entries /\ faulty \in BOOLEAN
      /\ Care!Live => entry \in [left: 1 .. TTLCareSchedule, val: Care!Rows, overtaken: BOOLEAN]
  BY CareTypes
<1>2. /\ req[k].pc \in Pcs
      /\ req[k].pc = "read" => req[k] \in ReadRequests
      /\ req[k].pc \in {"check", "fill"} => req[k] \in CopyRequests
  BY RequestShape
<1>3. Care!Idle \in CareRequests /\ Care!Idle.pc = "idle" /\ req[k] \in CareRequests
  BY <1>1 DEF CareRequests, Care!Idle
<1>4. \A pc \in {"start", "write", "toggle"} : [pc |-> pc] \in CareRequests /\ [pc |-> pc].pc = pc
  BY DEF CareRequests
<1>5. CASE Care!GetCached(k)
  <2>1. req[k].pc = "idle" /\ UNCHANGED <<careRow, heldAt, entry, version>>
    BY <1>5 DEF Care!GetCached, Care!At
  <2>2. CASE Care!Live /\ page' = [page EXCEPT ![k] = entry.val] /\ UNCHANGED <<req, faulty>>
    <3>1. entry.val \in Care!Rows
      BY <1>1, <2>2
    <3>2. ReaderStep(k, req[k])
      BY <1>1, <1>3, <2>1, <2>2, <3>1 DEF ReaderStep, Saving
    <3>3. QED  BY <3>2
  <2>3. CASE /\ req' = [req EXCEPT ![k] = [pc |-> "start"]] /\ UNCHANGED page
             /\ faulty' \in BOOLEAN /\ (faulty => faulty')
    <3>1. ReaderStep(k, [pc |-> "start"])
      BY <1>1, <1>4, <2>1, <2>3 DEF ReaderStep, Saving
    <3>2. QED  BY <3>1
  <2>4. CASE Care!Fault /\ Care!Move(k, [pc |-> "start"]) /\ UNCHANGED page
    <3>1. faulty' \in BOOLEAN /\ (faulty => faulty')
      BY <2>4 DEF Care!Fault
    <3>2. req' = [req EXCEPT ![k] = [pc |-> "start"]] /\ UNCHANGED page
      BY <2>4 DEF Care!Move
    <3>3. QED  BY <2>3, <3>1, <3>2
  <2>5. CASE Care!Move(k, [pc |-> "start"]) /\ UNCHANGED <<page, faulty>>
    <3>1. faulty' \in BOOLEAN /\ (faulty => faulty')
      BY <1>1, <2>5
    <3>2. req' = [req EXCEPT ![k] = [pc |-> "start"]] /\ UNCHANGED page
      BY <2>5 DEF Care!Move
    <3>3. QED  BY <2>3, <3>1, <3>2
  <2>6. QED  BY <1>5, <2>2, <2>4, <2>5 DEF Care!GetCached
<1>6. CASE Care!GetStartVersion(k)
  <2>1. PICK ver \in 0 .. MaxSaves :
          /\ req' = [req EXCEPT ![k] = [pc |-> "read", ver |-> ver]]
          /\ ~faulty' => ver = version
          /\ faulty' \in BOOLEAN /\ (faulty => faulty')
    <3>1. CASE Care!Move(k, [pc |-> "read", ver |-> version]) /\ UNCHANGED faulty
      BY <1>1, <3>1 DEF Care!Move
    <3>2. CASE Care!Move(k, [pc |-> "read", ver |-> 0]) /\ Care!Fault
      <4>1. faulty' \in BOOLEAN /\ faulty' = TRUE
        BY <3>2 DEF Care!Fault
      <4>2. 0 \in 0 .. MaxSaves
        BY <1>1
      <4>3. QED  BY <3>2, <4>1, <4>2 DEF Care!Move
    <3>3. QED  BY <1>6, <3>1, <3>2 DEF Care!GetStartVersion
  <2>2. [pc |-> "read", ver |-> ver] \in CareRequests
    BY DEF CareRequests, ReadRequests
  <2>3. req[k].pc = "start" /\ UNCHANGED <<careRow, heldAt, entry, version, page>>
    BY <1>6 DEF Care!GetStartVersion, Care!At
  <2>4. ReaderStep(k, [pc |-> "read", ver |-> ver])
    BY <1>1, <2>1, <2>2, <2>3 DEF ReaderStep, Saving
  <2>5. QED  BY <2>4
<1>7. CASE Care!ReadSchedule(k)
  <2> DEFINE v == [pc |-> "check", ver |-> req[k].ver, val |-> careRow, overtaken |-> FALSE]
  <2>1. /\ req[k].pc = "read" /\ UNCHANGED <<careRow, heldAt, entry, version, page, faulty>>
        /\ req' = [req EXCEPT ![k] = v]
    BY <1>7 DEF Care!ReadSchedule, Care!At, Care!Move
  <2>2. v \in CopyRequests
    BY <1>1, <1>2, <2>1 DEF CopyRequests, ReadRequests
  <2>3. v \in CareRequests /\ v.pc = "check" /\ v.val = careRow /\ v.ver = req[k].ver
    BY <2>2 DEF CareRequests
  <2> HIDE DEF v
  <2>4. ReaderStep(k, v)
    BY <1>1, <2>1, <2>3 DEF ReaderStep, Saving
  <2>5. QED  BY <2>4
<1>8. CASE Care!ReadFailed(k) \/ Care!WriteFailed(k)
  <2>1. /\ req[k].pc \in {"read", "write", "toggle"}
        /\ UNCHANGED <<careRow, heldAt, entry, version, page, faulty>>
        /\ req' = [req EXCEPT ![k] = Care!Idle]
    BY <1>8 DEF Care!ReadFailed, Care!WriteFailed, Care!At, Care!Move
  <2>2. ReaderStep(k, Care!Idle)
    BY <1>1, <1>3, <2>1 DEF ReaderStep, Saving
  <2>3. QED  BY <2>2
<1>9. CASE Care!CheckVersion(k)
  <2>1. /\ req[k].pc = "check" /\ UNCHANGED <<careRow, heldAt, entry, version>>
        /\ req[k] \in CopyRequests
    BY <1>2, <1>9 DEF Care!CheckVersion, Care!At
  <2>2. PICK cur \in {version, 0} :
          /\ IF cur = version THEN UNCHANGED faulty ELSE Care!Fault
          /\ IF cur = req[k].ver
             THEN Care!Move(k, [req[k] EXCEPT !.pc = "fill"]) /\ UNCHANGED page
             ELSE Care!Move(k, Care!Idle) /\ page' = [page EXCEPT ![k] = req[k].val]
    BY <1>9 DEF Care!CheckVersion
  <2>3. /\ faulty' \in BOOLEAN /\ (faulty => faulty')
        /\ ~faulty' => cur = version
    BY <1>1, <2>2 DEF Care!Fault
  <2>4. CASE cur = req[k].ver
    <3> DEFINE v == [req[k] EXCEPT !.pc = "fill"]
    <3>1. v \in CopyRequests /\ v.pc = "fill" /\ v.val = req[k].val
      BY <2>1 DEF CopyRequests
    <3>2. v \in CareRequests /\ req' = [req EXCEPT ![k] = v] /\ UNCHANGED page
      BY <2>2, <2>4, <3>1 DEF CareRequests, Care!Move
    <3> HIDE DEF v
    <3>3. ReaderStep(k, v)
      BY <1>1, <2>1, <2>3, <2>4, <3>1, <3>2 DEF ReaderStep, Saving
    <3>4. QED  BY <3>3
  <2>5. CASE cur # req[k].ver
    <3>1. req' = [req EXCEPT ![k] = Care!Idle] /\ page' = [page EXCEPT ![k] = req[k].val]
      BY <2>2, <2>5 DEF Care!Move
    <3>2. req[k].val \in Care!Rows
      BY <2>1 DEF CopyRequests
    <3>3. ReaderStep(k, Care!Idle)
      BY <1>1, <1>3, <2>1, <2>3, <3>1, <3>2 DEF ReaderStep, Saving
    <3>4. QED  BY <3>3
  <2>6. QED  BY <2>4, <2>5
<1>10. CASE Care!FillSchedule(k)
  <2>1. /\ req[k].pc = "fill" /\ req[k] \in CopyRequests
        /\ UNCHANGED <<careRow, heldAt, version>>
        /\ req' = [req EXCEPT ![k] = Care!Idle] /\ page' = [page EXCEPT ![k] = req[k].val]
        /\ faulty' \in BOOLEAN /\ (faulty => faulty')
    BY <1>1, <1>2, <1>10 DEF Care!FillSchedule, Care!At, Care!Move, Care!Command, Care!Fault
  <2>2. req[k].val \in Care!Rows /\ req[k].overtaken \in BOOLEAN
    BY <2>1 DEF CopyRequests
  <2>3. \/ entry' = entry
        \/ entry' = [left |-> TTLCareSchedule, val |-> req[k].val, overtaken |-> req[k].overtaken]
    BY <1>10 DEF Care!FillSchedule, Care!Command
  <2>4. \/ entry' = entry
        \/ /\ entry' \in Care!Entries
           /\ entry'.val = req[k].val /\ entry'.overtaken = req[k].overtaken
    BY <2>2, <2>3, WorkforceAssumption DEF Care!Entries
  <2>5. ReaderStep(k, Care!Idle)
    BY <1>1, <1>3, <2>1, <2>2, <2>4 DEF ReaderStep, Saving
  <2>6. QED  BY <2>5
<1>11. CASE Care!SubmitForm(k)
  <2>1. PICK pc \in {"write", "toggle"} : req' = [req EXCEPT ![k] = [pc |-> pc]]
    BY <1>11 DEF Care!SubmitForm, Care!Move
  <2>2. req[k].pc = "idle" /\ UNCHANGED <<careRow, heldAt, entry, version, page, faulty>>
    BY <1>11 DEF Care!SubmitForm, Care!At
  <2>3. ReaderStep(k, [pc |-> pc])
    BY <1>1, <1>4, <2>1, <2>2 DEF ReaderStep, Saving
  <2>4. QED  BY <2>3
<1>12. QED  BY <1>5, <1>6, <1>7, <1>8, <1>9, <1>10, <1>11 DEF Care!Load

(* Loading a page keeps what a page, a copy and a count may be. *)
LEMMA ReaderInv ==
  ASSUME CareInv, NEW k \in Keepers, NEW v, ReaderStep(k, v)
  PROVE  CareInv'
<1>1. /\ Care!TypeOK /\ WritesCounted /\ HoldShown /\ (~faulty => CareFresh)
  BY DEF CareInv
<1>2. /\ req \in [Keepers -> CareRequests] /\ req[k].pc \in Pcs /\ version \in 0 .. MaxSaves
      /\ entry \in Care!Entries
  BY <1>1, CareTypes, RequestShape
<1>3. /\ UNCHANGED <<careRow, heldAt, version>>
      /\ req' = [req EXCEPT ![k] = v] /\ v \in CareRequests
      /\ ~Saving(k) /\ v.pc \notin {"bump", "count", "evict"}
      /\ page' \in [Keepers -> Care!Rows \cup {Care!NoPage}]
      /\ faulty' \in BOOLEAN /\ (faulty => faulty')
      /\ entry' \in Care!Entries
  BY <1>2 DEF ReaderStep
<1>4. /\ req'[k] = v /\ \A j \in Keepers \ {k} : req'[j] = req[j]
  BY <1>2, <1>3
<1>5. Care!TypeOK'
  <2>1. req' \in [Keepers -> CareRequests]
    BY <1>2, <1>3
  <2>2. QED
    BY <1>1, <1>3, <2>1 DEF Care!TypeOK, CareRequests, ReadRequests, CopyRequests, CountRequests
<1>6. /\ Uncounted' = Uncounted
      /\ \A j \in Keepers : req'[j].pc = "count" => req[j].pc = "count" /\ req'[j] = req[j]
      /\ \A j \in Keepers : Saving(j) => req'[j] = req[j]
      /\ \A j \in Keepers : Saving(j)' <=> Saving(j)
  BY <1>3, <1>4 DEF Uncounted, Saving
<1>7. WritesCounted'
  BY <1>1, <1>3, <1>6 DEF WritesCounted
<1>8. HoldShown'
  <2>1. \A w : Shows(w) => Shows(w)'
    BY <1>3 DEF Shows
  <2>2. \A j \in Keepers : Shows(page'[j])
    <3>1. SUFFICES ASSUME NEW j \in Keepers PROVE Shows(page'[j])
      OBVIOUS
    <3>2. CASE page'[j] = page[j]
      BY <1>1, <3>2 DEF HoldShown
    <3>3. CASE Care!Live /\ page'[j] = entry.val
      BY <1>1, <3>3 DEF HoldShown
    <3>4. CASE req[k].pc \in {"check", "fill"} /\ page'[j] = req[k].val
      BY <1>1, <3>4 DEF HoldShown
    <3>5. QED  BY <3>2, <3>3, <3>4 DEF ReaderStep
  <2>3. \A j \in Keepers : req'[j].pc \in {"check", "fill"} => Shows(req'[j].val)
    <3>1. SUFFICES ASSUME NEW j \in Keepers, req'[j].pc \in {"check", "fill"}
                   PROVE  Shows(req'[j].val)
      OBVIOUS
    <3>2. CASE j # k
      BY <1>1, <1>4, <3>1, <3>2 DEF HoldShown
    <3>3. CASE j = k /\ v.pc = "check"
      <4>1. v.val = careRow /\ careRow.n \in 0 .. MaxSaves /\ MaxSaves \in Nat
        BY <1>1, <3>3, CareTypes DEF ReaderStep
      <4>2. QED  BY <1>4, <3>3, <4>1 DEF Shows
    <3>4. CASE j = k /\ v.pc = "fill"
      <4>1. v.val = req[k].val /\ req[k].pc = "check"
        BY <3>4 DEF ReaderStep
      <4>2. QED  BY <1>1, <1>4, <3>4, <4>1 DEF HoldShown
    <3>5. QED  BY <1>4, <3>1, <3>2, <3>3, <3>4
  <2>4. Care!Live' => Shows(entry'.val)
    <3>1. CASE entry' = entry
      BY <1>1, <3>1 DEF HoldShown, Care!Live
    <3>2. CASE req[k].pc = "fill" /\ entry'.val = req[k].val
      BY <1>1, <3>2 DEF HoldShown
    <3>3. QED  BY <3>1, <3>2 DEF ReaderStep
  <2>5. QED  BY <1>1, <1>3, <2>2, <2>3, <2>4 DEF HoldShown, Shows
<1>9. ASSUME ~faulty' PROVE CareFresh'
  <2>1. ReadersBehind /\ ChecksCaught /\ FillsExplained /\ CopyStale
    BY <1>1, <1>3, <1>9 DEF CareFresh
  <2>2. ReadersBehind'
    <3>1. SUFFICES ASSUME NEW j \in Keepers, req'[j].pc \in {"read", "check"}
                   PROVE  req'[j].ver <= version
      BY <1>3 DEF ReadersBehind
    <3>2. CASE j # k
      BY <1>4, <2>1, <3>1, <3>2 DEF ReadersBehind
    <3>3. CASE j = k /\ v.pc = "read"
      <4>1. v.ver = version
        BY <1>9, <3>3 DEF ReaderStep
      <4>2. QED  BY <1>2, <1>4, <3>3, <4>1
    <3>4. CASE j = k /\ v.pc = "check"
      <4>1. v.ver = req[k].ver /\ req[k].pc = "read"
        BY <3>4 DEF ReaderStep
      <4>2. QED  BY <1>4, <2>1, <3>4, <4>1 DEF ReadersBehind
    <3>5. QED  BY <1>4, <3>1, <3>2, <3>3, <3>4
  <2>3. ChecksCaught'
    <3>1. SUFFICES ASSUME NEW j \in Keepers, req'[j].pc = "check", req'[j].val # careRow
                   PROVE  \/ req'[j].ver < version
                          \/ \E i \in Keepers : \/ req'[i].pc = "bump"
                                                \/ req'[i].pc = "count" /\ req'[j].ver <= req'[i].ver
      BY <1>3 DEF ChecksCaught
    <3>2. j # k
      BY <1>4, <3>1 DEF ReaderStep
    <3>3. req'[j] = req[j]
      BY <1>4, <3>2
    <3>4. \/ req[j].ver < version
          \/ \E i \in Keepers : \/ req[i].pc = "bump"
                                \/ req[i].pc = "count" /\ req[j].ver <= req[i].ver
      BY <2>1, <3>1, <3>3 DEF ChecksCaught
    <3>5. \A i \in Keepers : req[i].pc \in {"bump", "count"} => req'[i] = req[i]
      BY <1>6 DEF Saving
    <3>6. QED  BY <3>3, <3>4, <3>5
  <2>4. (\E j \in Keepers : Saving(j)) => \E j \in Keepers : Saving(j)'
    BY <1>6
  <2>5. FillsExplained'
    <3>1. SUFFICES ASSUME NEW j \in Keepers, req'[j].pc = "fill", req'[j].val # careRow
                   PROVE  req'[j].overtaken \/ \E i \in Keepers : Saving(i)
      BY <1>3, <2>4 DEF FillsExplained
    <3>2. CASE j # k
      BY <1>4, <2>1, <3>1, <3>2 DEF FillsExplained
    <3>3. CASE j = k
      <4>1. v.pc = "fill" /\ v.val # careRow
        BY <1>4, <3>1, <3>3
      <4>2. req[k].pc = "check" /\ v.val = req[k].val /\ req[k].ver = version
        BY <1>9, <4>1 DEF ReaderStep
      <4>3. \E i \in Keepers : req[i].pc = "bump" \/ req[i].pc = "count"
        BY <1>2, <2>1, <4>1, <4>2 DEF ChecksCaught
      <4>4. QED  BY <4>3 DEF Saving
    <3>4. QED  BY <3>2, <3>3
  <2>6. CopyStale'
    <3>1. CASE entry' = entry
      BY <1>3, <2>1, <2>4, <3>1 DEF CopyStale, Care!Live
    <3>2. CASE /\ req[k].pc = "fill" /\ entry'.val = req[k].val
               /\ entry'.overtaken = req[k].overtaken
      BY <1>3, <2>1, <2>4, <3>2 DEF CopyStale, FillsExplained
    <3>3. QED  BY <3>1, <3>2 DEF ReaderStep
  <2>7. QED  BY <2>2, <2>3, <2>5, <2>6 DEF CareFresh
<1>10. QED  BY <1>5, <1>7, <1>8, <1>9 DEF CareInv

(* A write of the row is one more to count, and what it makes out of date  *)
(* is explained by the save that wrote it.                                 *)
LEMMA WriteInv ==
  ASSUME CareInv, NEW k \in Keepers, Care!UpsertCareSchedule(k) \/ Care!SetEmergencyMedicalHold(k)
  PROVE  CareInv'
<1>1. /\ Care!TypeOK /\ WritesCounted /\ HoldShown
  BY DEF CareInv
<1>2. /\ careRow \in Care!Rows /\ heldAt \in 0 .. MaxSaves
      /\ careRow.n \in 0 .. MaxSaves /\ careRow.hold \in BOOLEAN
      /\ version \in 0 .. MaxSaves /\ MaxSaves \in Nat
      /\ req \in [Keepers -> CareRequests]
      /\ page \in [Keepers -> Care!Rows \cup {Care!NoPage}]
      /\ Care!Live => entry \in [left: 1 .. TTLCareSchedule, val: Care!Rows, overtaken: BOOLEAN]
  BY <1>1, CareTypes
<1>3. page[k].hold \in BOOLEAN
  <2>1. CASE page[k] \in Care!Rows
    BY <2>1 DEF Care!Rows
  <2>2. CASE page[k] = Care!NoPage
    BY <2>2 DEF Care!NoPage
  <2>3. QED  BY <1>2, <2>1, <2>2
<1>4. PICK h \in BOOLEAN :
        /\ careRow' = [n |-> careRow.n + 1, hold |-> h]
        /\ heldAt' = IF h /\ ~careRow.hold THEN careRow.n + 1 ELSE heldAt
  <2>1. CASE Care!UpsertCareSchedule(k)
    BY <1>3, <2>1 DEF Care!UpsertCareSchedule, Care!Written, Care!HeldSince
  <2>2. CASE Care!SetEmergencyMedicalHold(k)
    <3>1. (~page[k].hold) \in BOOLEAN
      BY <1>3
    <3>2. QED  BY <2>2, <3>1 DEF Care!SetEmergencyMedicalHold, Care!Written, Care!HeldSince
  <2>3. QED  BY <2>1, <2>2
<1>5. /\ req[k].pc \in {"write", "toggle"} /\ careRow.n < MaxSaves
      /\ req' = [req EXCEPT ![k] = [pc |-> "bump"]]
      /\ UNCHANGED <<entry, version, page, faulty>>
  BY DEF Care!UpsertCareSchedule, Care!SetEmergencyMedicalHold, Care!At, Care!Move
<1>6. /\ req'[k] = [pc |-> "bump"] /\ req'[k].pc = "bump"
      /\ \A j \in Keepers \ {k} : req'[j] = req[j]
  BY <1>2, <1>5
<1>7. careRow'.n = careRow.n + 1 /\ careRow'.hold = h /\ careRow.n + 1 \in 0 .. MaxSaves
  BY <1>2, <1>4, <1>5
<1>8. Care!TypeOK'
  <2>1. [pc |-> "bump"] \in CareRequests
    BY DEF CareRequests
  <2>2. req' \in [Keepers -> CareRequests]
    BY <1>2, <1>5, <2>1
  <2>3. careRow' \in Care!Rows /\ heldAt' \in 0 .. MaxSaves
    BY <1>2, <1>4, <1>7 DEF Care!Rows
  <2>4. QED
    BY <1>1, <1>5, <2>2, <2>3
    DEF Care!TypeOK, CareRequests, ReadRequests, CopyRequests, CountRequests
<1>9. WritesCounted'
  <2>1. Uncounted' = Uncounted \cup {k} /\ k \notin Uncounted
    BY <1>5, <1>6 DEF Uncounted
  <2>2. Cardinality(Uncounted') = Cardinality(Uncounted) + 1 /\ Cardinality(Uncounted) \in Nat
    <3>1. IsFiniteSet(Uncounted) /\ Cardinality(Uncounted) \in Nat
      BY UncountedType
    <3>2. QED  BY <2>1, <3>1, FS_AddElement
  <2>3. version' + Cardinality(Uncounted') <= careRow'.n
    BY <1>1, <1>2, <1>5, <1>7, <2>2 DEF WritesCounted
  <2>4. ASSUME NEW j \in Keepers, req'[j].pc = "count"
        PROVE  req'[j].ver + Cardinality(Uncounted') <= careRow'.n
    <3>1. req'[j] = req[j] /\ req[j].pc = "count"
      BY <1>6, <2>4
    <3>2. req[j].ver \in 0 .. MaxSaves
      BY <1>1, <3>1, RequestShape DEF CountRequests
    <3>3. req[j].ver + Cardinality(Uncounted) <= careRow.n
      BY <1>1, <3>1 DEF WritesCounted
    <3>4. QED  BY <1>2, <1>7, <2>2, <3>1, <3>2, <3>3
  <2>5. QED  BY <2>3, <2>4 DEF WritesCounted
<1>10. HoldShown'
  <2>1. ASSUME NEW w, w.n \in Int, Shows(w)
        PROVE  w.n <= careRow'.n /\ (careRow'.hold /\ w.n >= heldAt' => w.hold)
    BY <1>2, <1>4, <1>7, <2>1 DEF Shows
  <2>2. heldAt' <= careRow'.n
    BY <1>1, <1>2, <1>4, <1>7 DEF HoldShown
  <2>3. \A j \in Keepers : page[j].n \in Int /\ Shows(page[j])
    BY <1>1, <1>2 DEF HoldShown, Care!Rows, Care!NoPage
  <2>4. ASSUME NEW j \in Keepers, req'[j].pc \in {"check", "fill"}
        PROVE  req'[j].val = req[j].val /\ req[j].val.n \in Int /\ Shows(req[j].val)
    <3>1. req'[j] = req[j]
      BY <1>6, <2>4
    <3>2. req[j] \in CopyRequests
      BY <1>1, <2>4, <3>1, RequestShape
    <3>3. QED  BY <1>1, <2>4, <3>1, <3>2 DEF HoldShown, CopyRequests, Care!Rows
  <2>5. Care!Live' => entry'.val = entry.val /\ entry.val.n \in Int /\ Shows(entry.val)
    BY <1>1, <1>2, <1>5 DEF HoldShown, Care!Live, Care!Rows
  <2>6. QED  BY <1>5, <2>1, <2>2, <2>3, <2>4, <2>5 DEF HoldShown, Shows
<1>11. ASSUME ~faulty' PROVE CareFresh'
  <2>1. ReadersBehind
    BY <1>5, <1>11 DEF CareInv, CareFresh
  <2>2. ReadersBehind'
    BY <1>5, <1>6, <2>1 DEF ReadersBehind
  <2>3. ChecksCaught' /\ FillsExplained' /\ CopyStale'
    BY <1>6 DEF ChecksCaught, FillsExplained, CopyStale, Saving
  <2>4. QED  BY <2>2, <2>3 DEF CareFresh
<1>12. QED  BY <1>8, <1>9, <1>10, <1>11 DEF CareInv

(* The copies and the pages show the hold as before when neither they nor  *)
(* the row change.                                                         *)
LEMMA HoldStillShown ==
  ASSUME HoldShown, UNCHANGED <<careRow, heldAt>>,
         \A k \in Keepers : page'[k] = page[k] \/ page'[k] = careRow,
         \A k \in Keepers : req'[k].pc \in {"check", "fill"} =>
           req[k].pc \in {"check", "fill"} /\ req'[k].val = req[k].val,
         Care!Live' => Care!Live /\ entry'.val = entry.val,
         careRow.n \in Nat
  PROVE  HoldShown'
<1>1. Shows(careRow)
  BY DEF Shows
<1>2. heldAt' <= careRow'.n
  BY DEF HoldShown
<1>3. \A k \in Keepers : Shows(page'[k])
  BY <1>1 DEF HoldShown
<1>4. \A k \in Keepers : req'[k].pc \in {"check", "fill"} => Shows(req'[k].val)
  BY DEF HoldShown
<1>5. Care!Live' => Shows(entry'.val)
  BY DEF HoldShown
<1>6. QED  BY <1>2, <1>3, <1>4, <1>5 DEF HoldShown, Shows

(* A save reads the version, which is at least what any reader began at.   *)
LEMMA ReadVersionInv ==
  ASSUME CareInv, NEW k \in Keepers, Care!ReadVersion(k)
  PROVE  CareInv'
<1>1. /\ Care!TypeOK /\ WritesCounted /\ HoldShown
  BY DEF CareInv
<1>2. /\ careRow.n \in 0 .. MaxSaves /\ version \in 0 .. MaxSaves /\ MaxSaves \in Nat
      /\ req \in [Keepers -> CareRequests] /\ faulty \in BOOLEAN
  BY <1>1, CareTypes
<1>3. PICK ver \in 0 .. MaxSaves :
        /\ req' = [req EXCEPT ![k] = [pc |-> "count", ver |-> ver]]
        /\ ver <= version /\ (~faulty' => ver = version /\ ~faulty) /\ faulty' \in BOOLEAN
  <2>1. CASE Care!Move(k, [pc |-> "count", ver |-> version]) /\ UNCHANGED faulty
    <3>1. faulty' = faulty /\ faulty' \in BOOLEAN /\ version <= version
      BY <1>2, <2>1
    <3>2. req' = [req EXCEPT ![k] = [pc |-> "count", ver |-> version]]
      BY <2>1 DEF Care!Move
    <3>3. QED  BY <1>2, <3>1, <3>2, Zenon
  <2>2. CASE Care!Move(k, [pc |-> "count", ver |-> 0]) /\ Care!Fault
    <3>1. faulty' = TRUE /\ 0 \in 0 .. MaxSaves /\ 0 <= version
      BY <1>2, <2>2 DEF Care!Fault
    <3>2. QED  BY <2>2, <3>1 DEF Care!Move
  <2>3. QED  BY <2>1, <2>2 DEF Care!ReadVersion
<1>4. req[k].pc = "bump" /\ UNCHANGED <<careRow, heldAt, entry, version, page>>
  BY DEF Care!ReadVersion, Care!At
<1>5. /\ req'[k].pc = "count" /\ req'[k].ver = ver
      /\ \A j \in Keepers \ {k} : req'[j] = req[j]
  BY <1>2, <1>3
<1>6. Care!TypeOK'
  <2>1. [pc |-> "count", ver |-> ver] \in CareRequests
    BY DEF CareRequests, CountRequests
  <2>2. req' \in [Keepers -> CareRequests]
    BY <1>2, <1>3, <2>1
  <2>3. QED
    BY <1>1, <1>3, <1>4, <2>2
    DEF Care!TypeOK, CareRequests, ReadRequests, CopyRequests, CountRequests
<1>7. WritesCounted'
  <2>1. Uncounted' = Uncounted
    BY <1>4, <1>5 DEF Uncounted
  <2>2. Cardinality(Uncounted) \in Nat
    BY UncountedType
  <2>3. ver + Cardinality(Uncounted) <= careRow.n
    BY <1>1, <1>2, <1>3, <2>2 DEF WritesCounted
  <2>4. QED  BY <1>1, <1>4, <1>5, <2>1, <2>3 DEF WritesCounted
<1>8. HoldShown'
  <2>1. \A j \in Keepers : req'[j].pc \in {"check", "fill"} =>
          req[j].pc \in {"check", "fill"} /\ req'[j].val = req[j].val
    BY <1>5
  <2>2. QED  BY <1>1, <1>2, <1>4, <2>1, HoldStillShown DEF Care!Live
<1>9. ASSUME ~faulty' PROVE CareFresh'
  <2>1. ReadersBehind /\ ver = version
    BY <1>3, <1>9 DEF CareInv, CareFresh
  <2>2. ReadersBehind'
    BY <1>4, <1>5, <2>1 DEF ReadersBehind
  <2>3. ChecksCaught'
    <3>1. \A j \in Keepers : req'[j].pc = "check" => req'[j].ver <= req'[k].ver
      BY <1>5, <2>1 DEF ReadersBehind
    <3>2. QED  BY <1>5, <3>1 DEF ChecksCaught
  <2>4. FillsExplained' /\ CopyStale'
    BY <1>5 DEF FillsExplained, CopyStale, Saving
  <2>5. QED  BY <2>2, <2>3, <2>4 DEF CareFresh
<1>10. QED  BY <1>6, <1>7, <1>8, <1>9 DEF CareInv

(* A save counts itself: the version is beyond every copy the save made    *)
(* out of date, unless the count goes back.                                *)
LEMMA BumpInv ==
  ASSUME CareInv, NEW k \in Keepers, Care!BumpVersion(k)
  PROVE  CareInv'
<1>1. /\ Care!TypeOK /\ WritesCounted /\ HoldShown
  BY DEF CareInv
<1>2. /\ careRow.n \in 0 .. MaxSaves /\ version \in 0 .. MaxSaves /\ MaxSaves \in Nat
      /\ req \in [Keepers -> CareRequests] /\ faulty \in BOOLEAN
  BY <1>1, CareTypes
<1>3. /\ req[k].pc = "count" /\ req' = [req EXCEPT ![k] = [pc |-> "evict"]]
      /\ UNCHANGED <<careRow, heldAt, entry, page>>
  BY DEF Care!BumpVersion, Care!At, Care!Move
<1>4. /\ req'[k] = [pc |-> "evict"] /\ req'[k].pc = "evict"
      /\ \A j \in Keepers \ {k} : req'[j] = req[j]
  BY <1>2, <1>3
<1>5. req[k].ver \in 0 .. MaxSaves
  BY <1>1, <1>3, RequestShape DEF CountRequests
<1>6. /\ version' = req[k].ver + 1 \/ version' = version
      /\ faulty' \in BOOLEAN
      /\ ~faulty' => ~faulty /\ version' = req[k].ver + 1 /\ version <= version'
  <2>1. CASE version' = req[k].ver + 1 /\ faulty' = (faulty \/ version' < version)
    <3>1. CASE version' < version
      <4>1. faulty' = TRUE
        BY <2>1, <3>1
      <4>2. QED  BY <2>1, <4>1
    <3>2. CASE ~(version' < version)
      <4>1. faulty' = faulty
        BY <1>2, <2>1, <3>2, Zenon
      <4>2. version <= version'
        BY <1>2, <1>5, <2>1, <3>2
      <4>3. QED  BY <1>2, <2>1, <4>1, <4>2
    <3>3. QED  BY <3>1, <3>2
  <2>2. CASE Care!Fault /\ UNCHANGED version
    BY <2>2 DEF Care!Fault
  <2>3. QED  BY <2>1, <2>2 DEF Care!BumpVersion
<1>7. Uncounted' = Uncounted \ {k} /\ k \in Uncounted
  BY <1>3, <1>4 DEF Uncounted
<1>8. Cardinality(Uncounted') = Cardinality(Uncounted) - 1 /\ Cardinality(Uncounted) \in Nat
  <2>1. IsFiniteSet(Uncounted) /\ Cardinality(Uncounted) \in Nat
    BY UncountedType
  <2>2. QED  BY <1>7, <2>1, FS_RemoveElement
<1>9. Cardinality(Uncounted') \in Nat
  <2>1. IsFiniteSet(Uncounted) /\ IsFiniteSet(Uncounted')
    BY <1>7, UncountedType, FS_RemoveElement
  <2>2. QED  BY <2>1, FS_CardinalityType
<1>10. /\ req[k].ver + Cardinality(Uncounted) <= careRow.n
       /\ version + Cardinality(Uncounted) <= careRow.n
  BY <1>1, <1>3 DEF WritesCounted
<1>11. version' + Cardinality(Uncounted') <= careRow'.n /\ version' \in 0 .. MaxSaves
  BY <1>2, <1>3, <1>5, <1>6, <1>8, <1>9, <1>10
<1>12. Care!TypeOK'
  <2>1. [pc |-> "evict"] \in CareRequests
    BY DEF CareRequests
  <2>2. req' \in [Keepers -> CareRequests]
    BY <1>2, <1>3, <2>1
  <2>3. QED
    BY <1>1, <1>3, <1>6, <1>11, <2>2
    DEF Care!TypeOK, CareRequests, ReadRequests, CopyRequests, CountRequests
<1>13. WritesCounted'
  <2>1. ASSUME NEW j \in Keepers, req'[j].pc = "count"
        PROVE  req'[j].ver + Cardinality(Uncounted') <= careRow'.n
    <3>1. req'[j] = req[j] /\ req[j].pc = "count"
      BY <1>4, <2>1
    <3>2. req[j].ver \in 0 .. MaxSaves
      BY <1>1, <3>1, RequestShape DEF CountRequests
    <3>3. req[j].ver + Cardinality(Uncounted) <= careRow.n
      BY <1>1, <3>1 DEF WritesCounted
    <3>4. QED  BY <1>2, <1>3, <1>8, <3>1, <3>2, <3>3
  <2>2. QED  BY <1>11, <2>1 DEF WritesCounted
<1>14. HoldShown'
  <2>1. \A j \in Keepers : req'[j].pc \in {"check", "fill"} =>
          req[j].pc \in {"check", "fill"} /\ req'[j].val = req[j].val
    BY <1>4
  <2>2. QED  BY <1>1, <1>2, <1>3, <2>1, HoldStillShown DEF Care!Live
<1>15. ASSUME ~faulty' PROVE CareFresh'
  <2>1. ReadersBehind /\ ChecksCaught /\ FillsExplained /\ CopyStale
    BY <1>6, <1>15 DEF CareInv, CareFresh
  <2>2. version' = req[k].ver + 1 /\ version <= version'
    BY <1>6, <1>15
  <2>3. \A j \in Keepers : req[j].pc \in {"read", "check"} => req[j].ver \in 0 .. MaxSaves
    BY <1>1, RequestShape DEF ReadRequests, CopyRequests
  <2>4. ReadersBehind'
    BY <1>2, <1>4, <1>11, <2>1, <2>2, <2>3 DEF ReadersBehind
  <2>5. ChecksCaught'
    <3>1. SUFFICES ASSUME NEW j \in Keepers, req'[j].pc = "check", req'[j].val # careRow'
                   PROVE  \/ req'[j].ver < version'
                          \/ \E i \in Keepers : \/ req'[i].pc = "bump"
                                                \/ req'[i].pc = "count" /\ req'[j].ver <= req'[i].ver
      BY DEF ChecksCaught
    <3>2. req'[j] = req[j] /\ req[j].ver \in 0 .. MaxSaves
      BY <1>4, <2>3, <3>1
    <3>3. CASE req[j].ver < version
      BY <1>2, <1>11, <2>2, <3>2, <3>3
    <3>4. ASSUME NEW i \in Keepers,
                 req[i].pc = "bump" \/ (req[i].pc = "count" /\ req[j].ver <= req[i].ver)
          PROVE  \/ req'[j].ver < version'
                 \/ req'[i].pc = "bump"
                 \/ req'[i].pc = "count" /\ req'[j].ver <= req'[i].ver
      <4>1. CASE i # k
        BY <1>4, <3>2, <3>4, <4>1
      <4>2. CASE i = k
        BY <1>3, <1>5, <2>2, <3>2, <3>4, <4>2
      <4>3. QED  BY <4>1, <4>2
    <3>5. QED  BY <1>3, <2>1, <3>1, <3>2, <3>3, <3>4 DEF ChecksCaught
  <2>6. FillsExplained' /\ CopyStale'
    BY <1>4 DEF FillsExplained, CopyStale, Saving
  <2>7. QED  BY <2>4, <2>5, <2>6 DEF CareFresh
<1>16. QED  BY <1>12, <1>13, <1>14, <1>15 DEF CareInv

(* The copies are deleted, and readers past their check are noted. *)
LEMMA EvictInv ==
  ASSUME CareInv, NEW k \in Keepers, Care!EvictSchedule(k)
  PROVE  CareInv'
<1>1. /\ Care!TypeOK /\ WritesCounted /\ HoldShown
  BY DEF CareInv
<1>2. /\ careRow \in Care!Rows /\ careRow.n \in 0 .. MaxSaves /\ MaxSaves \in Nat
      /\ req \in [Keepers -> CareRequests] /\ faulty \in BOOLEAN
      /\ page \in [Keepers -> Care!Rows \cup {Care!NoPage}] /\ entry \in Care!Entries
  BY <1>1, CareTypes
<1>3. /\ req[k].pc = "evict" /\ UNCHANGED <<careRow, heldAt, version>>
      /\ page' = [page EXCEPT ![k] = careRow]
  <2>1. UNCHANGED version
    BY DEF Care!EvictSchedule, Care!Command
  <2>2. QED  BY <2>1 DEF Care!EvictSchedule, Care!At
<1>4. /\ entry' \in {entry, Care!NoEntry} /\ faulty' \in BOOLEAN
      /\ ~faulty' => ~faulty /\ entry' = Care!NoEntry
  <2>1. CASE entry' = Care!NoEntry /\ faulty' = faulty
    BY <1>2, <2>1
  <2>2. CASE Care!Fault /\ UNCHANGED <<entry, version>>
    <3>1. faulty' = TRUE
      BY <2>2 DEF Care!Fault
    <3>2. QED  BY <2>2, <3>1
  <2>3. QED  BY <2>1, <2>2 DEF Care!EvictSchedule, Care!Command
<1>5. req' = [j \in Keepers |-> IF j = k THEN Care!Idle
                 ELSE IF req[j].pc = "fill" THEN [req[j] EXCEPT !.overtaken = TRUE] ELSE req[j]]
  BY DEF Care!EvictSchedule, Care!At
<1>6. ASSUME NEW j \in Keepers
      PROVE  /\ req'[j] \in CareRequests
             /\ j = k => req'[j].pc = "idle"
             /\ j # k => req'[j].pc = req[j].pc
             /\ j # k /\ req[j].pc # "fill" => req'[j] = req[j]
             /\ j # k /\ req[j].pc = "fill" => req'[j].overtaken /\ req'[j].val = req[j].val
  <2>1. CASE j = k
    <3>1. req'[j] = Care!Idle
      BY <1>5, <2>1
    <3>2. QED  BY <2>1, <3>1 DEF Care!Idle, CareRequests
  <2>2. CASE j # k /\ req[j].pc = "fill"
    <3>1. req[j] \in CopyRequests
      BY <1>1, <2>2, RequestShape
    <3>2. req'[j] = [req[j] EXCEPT !.overtaken = TRUE]
      BY <1>5, <2>2
    <3>3. /\ req'[j] \in CopyRequests /\ req'[j].pc = "fill" /\ req'[j].overtaken = TRUE
          /\ req'[j].val = req[j].val
      BY <2>2, <3>1, <3>2 DEF CopyRequests
    <3>4. QED  BY <2>2, <3>3 DEF CareRequests
  <2>3. CASE j # k /\ req[j].pc # "fill"
    BY <1>2, <1>5, <2>3
  <2>4. QED  BY <2>1, <2>2, <2>3
<1>7. Care!TypeOK'
  <2>1. req' \in [Keepers -> CareRequests]
    BY <1>5, <1>6
  <2>2. page' \in [Keepers -> Care!Rows \cup {Care!NoPage}] /\ entry' \in Care!Entries
    BY <1>2, <1>3, <1>4 DEF Care!Entries
  <2>3. QED
    BY <1>1, <1>3, <1>4, <2>1, <2>2
    DEF Care!TypeOK, CareRequests, ReadRequests, CopyRequests, CountRequests
<1>8. WritesCounted'
  <2>1. Uncounted' = Uncounted
    BY <1>3, <1>6 DEF Uncounted
  <2>2. \A j \in Keepers : req'[j].pc = "count" => req'[j] = req[j]
    BY <1>6
  <2>3. QED  BY <1>1, <1>3, <2>1, <2>2 DEF WritesCounted
<1>9. HoldShown'
  <2>1. \A j \in Keepers : page'[j] = page[j] \/ page'[j] = careRow
    BY <1>2, <1>3
  <2>2. \A j \in Keepers : req'[j].pc \in {"check", "fill"} =>
          req[j].pc \in {"check", "fill"} /\ req'[j].val = req[j].val
    BY <1>6
  <2>3. Care!Live' => Care!Live /\ entry'.val = entry.val
    BY <1>4 DEF Care!Live, Care!NoEntry
  <2>4. QED  BY <1>1, <1>2, <1>3, <2>1, <2>2, <2>3, HoldStillShown
<1>10. ASSUME ~faulty' PROVE CareFresh'
  <2>1. ReadersBehind /\ ChecksCaught /\ entry' = Care!NoEntry
    BY <1>4, <1>10 DEF CareInv, CareFresh
  <2>2. ReadersBehind'
    BY <1>3, <1>6, <2>1 DEF ReadersBehind
  <2>3. ChecksCaught'
    <3>1. SUFFICES ASSUME NEW j \in Keepers, req'[j].pc = "check", req'[j].val # careRow
                   PROVE  \/ req'[j].ver < version
                          \/ \E i \in Keepers : \/ req'[i].pc = "bump"
                                                \/ req'[i].pc = "count" /\ req'[j].ver <= req'[i].ver
      BY <1>3 DEF ChecksCaught
    <3>2. req'[j] = req[j]
      BY <1>6, <3>1
    <3>3. \A i \in Keepers : req[i].pc \in {"bump", "count"} => req'[i] = req[i]
      BY <1>3, <1>6
    <3>4. \/ req[j].ver < version
          \/ \E i \in Keepers : \/ req[i].pc = "bump"
                                \/ req[i].pc = "count" /\ req[j].ver <= req[i].ver
      BY <2>1, <3>1, <3>2 DEF ChecksCaught
    <3>5. QED  BY <3>2, <3>3, <3>4
  <2>4. FillsExplained'
    BY <1>6 DEF FillsExplained
  <2>5. CopyStale'
    BY <2>1 DEF CopyStale, Care!Live, Care!NoEntry
  <2>6. QED  BY <2>2, <2>3, <2>4, <2>5 DEF CareFresh
<1>11. QED  BY <1>7, <1>8, <1>9, <1>10 DEF CareInv

(* A save that is given up, or a counter that expires, leaves only what    *)
(* holds whatever went wrong.                                              *)
LEMMA MishapInv ==
  ASSUME CareInv, Care!ExpireVersion \/ \E k \in Keepers : Care!Abandon(k)
  PROVE  CareInv'
<1>1. /\ Care!TypeOK /\ WritesCounted /\ HoldShown
  BY DEF CareInv
<1>2. /\ careRow.n \in 0 .. MaxSaves /\ version \in 0 .. MaxSaves /\ MaxSaves \in Nat
      /\ req \in [Keepers -> CareRequests]
  BY <1>1, CareTypes
<1>3. faulty' = TRUE /\ UNCHANGED <<careRow, heldAt, entry, page>>
  BY DEF Care!ExpireVersion, Care!Abandon, Care!Fault
<1>4. /\ req' \in [Keepers -> CareRequests] /\ version' \in 0 .. MaxSaves /\ version' <= version
      /\ \A j \in Keepers : req'[j] = req[j] \/ req'[j].pc = "idle"
  <2>1. CASE Care!ExpireVersion
    BY <1>2, <2>1 DEF Care!ExpireVersion
  <2>2. ASSUME NEW k \in Keepers, Care!Abandon(k)
        PROVE  /\ req' \in [Keepers -> CareRequests]
               /\ version' \in 0 .. MaxSaves /\ version' <= version
               /\ \A j \in Keepers : req'[j] = req[j] \/ req'[j].pc = "idle"
    <3>1. Care!Idle \in CareRequests /\ Care!Idle.pc = "idle"
      BY DEF CareRequests, Care!Idle
    <3>2. req' = [req EXCEPT ![k] = Care!Idle] /\ version' = version
      BY <2>2 DEF Care!Abandon, Care!Move
    <3>3. QED  BY <1>2, <3>1, <3>2
  <2>3. QED  BY <2>1, <2>2
<1>5. Care!TypeOK'
  BY <1>1, <1>3, <1>4 DEF Care!TypeOK, CareRequests, ReadRequests, CopyRequests, CountRequests
<1>6. WritesCounted'
  <2>1. Uncounted' \subseteq Uncounted
    BY <1>4 DEF Uncounted
  <2>2. /\ IsFiniteSet(Uncounted) /\ Cardinality(Uncounted) \in Nat
        /\ Cardinality(Uncounted') \in Nat /\ Cardinality(Uncounted') <= Cardinality(Uncounted)
    BY <2>1, UncountedType, FS_Subset, FS_CardinalityType
  <2>3. version' + Cardinality(Uncounted') <= careRow'.n
    BY <1>1, <1>2, <1>3, <1>4, <2>2 DEF WritesCounted
  <2>4. ASSUME NEW j \in Keepers, req'[j].pc = "count"
        PROVE  req'[j].ver + Cardinality(Uncounted') <= careRow'.n
    <3>1. req'[j] = req[j] /\ req[j].pc = "count"
      BY <1>4, <2>4
    <3>2. req[j].ver \in 0 .. MaxSaves
      BY <1>1, <3>1, RequestShape DEF CountRequests
    <3>3. req[j].ver + Cardinality(Uncounted) <= careRow.n
      BY <1>1, <3>1 DEF WritesCounted
    <3>4. QED  BY <1>2, <1>3, <2>2, <3>1, <3>2, <3>3
  <2>5. QED  BY <2>3, <2>4 DEF WritesCounted
<1>7. HoldShown'
  <2>1. \A j \in Keepers : req'[j].pc \in {"check", "fill"} =>
          req[j].pc \in {"check", "fill"} /\ req'[j].val = req[j].val
    BY <1>4
  <2>2. QED  BY <1>1, <1>2, <1>3, <2>1, HoldStillShown DEF Care!Live
<1>8. QED  BY <1>3, <1>5, <1>6, <1>7 DEF CareInv

(* Time passes: the copy keeps its contents until it is gone. *)
LEMMA CareTickInv ==
  ASSUME CareInv, Care!CareTick
  PROVE  CareInv'
<1>1. /\ Care!TypeOK /\ WritesCounted /\ HoldShown /\ (~faulty => CareFresh)
  BY DEF CareInv
<1>2. /\ careRow.n \in 0 .. MaxSaves /\ MaxSaves \in Nat
      /\ entry \in [left: 1 .. TTLCareSchedule, val: Care!Rows, overtaken: BOOLEAN]
  BY <1>1, CareTypes DEF Care!CareTick
<1>3. UNCHANGED <<careRow, heldAt, version, page, req, faulty>> /\ Care!Live
  BY DEF Care!CareTick
<1>4. \/ entry' = Care!NoEntry
      \/ /\ entry' \in [left: 1 .. TTLCareSchedule, val: Care!Rows, overtaken: BOOLEAN]
         /\ entry'.val = entry.val /\ entry'.overtaken = entry.overtaken
  <2>1. CASE entry.left = 1
    BY <2>1 DEF Care!CareTick
  <2>2. CASE entry.left # 1
    <3>1. entry' = [entry EXCEPT !.left = @ - 1]
      BY <2>2 DEF Care!CareTick
    <3>2. entry.left - 1 \in 1 .. TTLCareSchedule
      BY <1>2, <2>2, WorkforceAssumption
    <3>3. QED  BY <1>2, <3>1, <3>2
  <2>3. QED  BY <2>1, <2>2
<1>5. Care!TypeOK'
  BY <1>1, <1>3, <1>4 DEF Care!TypeOK, Care!Entries
<1>6. WritesCounted'
  BY <1>1, <1>3 DEF WritesCounted, Uncounted
<1>7. Care!Live' => entry'.val = entry.val /\ entry'.overtaken = entry.overtaken
  BY <1>4 DEF Care!Live, Care!NoEntry
<1>8. HoldShown'
  BY <1>1, <1>2, <1>3, <1>7, HoldStillShown
<1>9. ASSUME ~faulty' PROVE CareFresh'
  <2>1. CareFresh
    BY <1>1, <1>3, <1>9
  <2>2. ReadersBehind' /\ ChecksCaught' /\ FillsExplained'
    BY <1>3, <2>1 DEF CareFresh, ReadersBehind, ChecksCaught, FillsExplained, Saving
  <2>3. CopyStale'
    BY <1>3, <1>7, <2>1 DEF CareFresh, CopyStale, Saving
  <2>4. QED  BY <2>2, <2>3 DEF CareFresh
<1>10. QED  BY <1>5, <1>6, <1>8, <1>9 DEF CareInv

(* Every step of the care schedules, and every step that leaves them alone. *)
LEMMA CareStepInv == CareInv /\ [Care!CareNext]_careVars => CareInv'
<1>1. SUFFICES ASSUME CareInv, [Care!CareNext]_careVars PROVE CareInv'
  OBVIOUS
<1>2. CASE UNCHANGED careVars
  BY <1>1, <1>2 DEF careVars, CareInv, Care!TypeOK, WritesCounted, Uncounted, HoldShown, Shows,
     Care!Live, CareFresh, ReadersBehind, ChecksCaught, FillsExplained, CopyStale, Saving
<1>3. ASSUME NEW k \in Keepers, Care!Load(k) \/ Care!SubmitForm(k) \/ Care!WriteFailed(k)
      PROVE  CareInv'
  <2>1. PICK v : ReaderStep(k, v)
    BY <1>1, <1>3, LoadIsReaderStep DEF CareInv
  <2>2. QED  BY <1>1, <2>1, ReaderInv
<1>4. ASSUME NEW k \in Keepers, Care!Save(k)
      PROVE  CareInv'
  BY <1>1, <1>3, <1>4, WriteInv, ReadVersionInv, BumpInv, EvictInv, MishapInv DEF Care!Save
<1>5. CASE Care!CareNext
  BY <1>1, <1>3, <1>4, <1>5, CareTickInv, MishapInv DEF Care!CareNext
<1>6. QED  BY <1>1, <1>2, <1>5

(* The hold is lifted by a page that showed it or is older than it. *)
LEMMA HoldLiftStep ==
  ASSUME CareInv, [Care!CareNext]_careVars, careRow.hold, ~careRow'.hold
  PROVE  \E k \in Keepers :
           \/ Care!At(k, "toggle") /\ req'[k].pc = "bump" /\ page[k].hold
           \/ Care!At(k, "write") /\ req'[k].pc = "bump" /\ page[k].n < heldAt
<1>1. /\ Care!TypeOK /\ HoldShown
  BY DEF CareInv
<1>2. /\ req \in [Keepers -> CareRequests] /\ heldAt \in 0 .. MaxSaves /\ MaxSaves \in Nat
      /\ page \in [Keepers -> Care!Rows \cup {Care!NoPage}]
  BY <1>1, CareTypes
<1>3. careRow' # careRow
  OBVIOUS
<1>4. PICK k \in Keepers : Care!UpsertCareSchedule(k) \/ Care!SetEmergencyMedicalHold(k)
  BY <1>3 DEF Care!CareNext, Care!Load, Care!Save, Care!GetCached, Care!GetStartVersion,
     Care!ReadSchedule, Care!ReadFailed, Care!CheckVersion, Care!FillSchedule, Care!SubmitForm,
     Care!WriteFailed, Care!ReadVersion, Care!BumpVersion, Care!EvictSchedule, Care!Abandon,
     Care!CareTick, Care!ExpireVersion, careVars
<1>5. req'[k].pc = "bump"
  BY <1>2, <1>4 DEF Care!UpsertCareSchedule, Care!SetEmergencyMedicalHold, Care!Move
<1>6. CASE Care!SetEmergencyMedicalHold(k)
  BY <1>5, <1>6 DEF Care!SetEmergencyMedicalHold, Care!Written
<1>7. CASE Care!UpsertCareSchedule(k)
  <2>1. Care!At(k, "write") /\ ~page[k].hold
    BY <1>7 DEF Care!UpsertCareSchedule, Care!Written
  <2>2. page[k].n \in Int
    BY <1>2 DEF Care!Rows, Care!NoPage
  <2>3. page[k].n < heldAt
    BY <1>1, <1>2, <2>1, <2>2 DEF HoldShown, Shows
  <2>4. QED  BY <1>5, <2>1, <2>3
<1>8. QED  BY <1>4, <1>6, <1>7

-----------------------------------------------------------------------------
(***************************************************************************)
(* Timesheets.                                                             *)
(***************************************************************************)
(* A review is of a stored sheet, which was not approved when it was read. *)
ReviewsOpen ==
  \A r \in Reviewers : review[r] # Sheet!Idle =>
    /\ review[r] \in [pc: {"approve", "reject"}, sheet: Sheets, copy: Sheet!Statuses]
    /\ sheetStatus[review[r].sheet] # "none"
    /\ review[r].copy # "approved"

(* What a submission listed was stored; what was in its way then had been  *)
(* rejected, and still is unless it was approved after that.               *)
ListedStored ==
  \A a, b \in Sheets : b \in listed[a] => stage[b] = "stored"
ListedCleared ==
  \A a, b \in Sheets :
    /\ stage[a] \in {"checked", "stored"} /\ a \notin blind
    /\ b \in listed[a] /\ shift[b].date = shift[a].date
    /\ Sheet!Overlap(shift[a], shift[b])
    => sheetStatus[b] = "rejected" \/ b \in revived

SheetInv ==
  Sheet!TypeOK /\ ReviewsOpen /\ ListedStored /\ ListedCleared

(* Before anything is submitted there is nothing to explain. *)
LEMMA SheetInitInv == Sheet!SheetInit => SheetInv
<1>1. SUFFICES ASSUME Sheet!SheetInit PROVE SheetInv
  OBVIOUS
<1>2. Sheet!TypeOK
  BY <1>1 DEF Sheet!SheetInit, Sheet!TypeOK, Sheet!Stored, Sheet!Statuses
<1>3. ReviewsOpen /\ ListedStored /\ ListedCleared
  BY <1>1 DEF Sheet!SheetInit, ReviewsOpen, ListedStored, ListedCleared
<1>4. QED  BY <1>2, <1>3 DEF SheetInv

(* SubmitTimesheet up to its list. *)
LEMMA CheckShiftInv ==
  ASSUME SheetInv, NEW s \in Sheets, NEW sh \in Shifts, Sheet!CheckShift(s, sh)
  PROVE  SheetInv'
<1>1. /\ Sheet!TypeOK /\ ReviewsOpen /\ ListedStored /\ ListedCleared
  BY DEF SheetInv
<1>2. /\ stage[s] = "new" /\ sheetStatus[s] = "none"
      /\ shift' = [shift EXCEPT ![s] = sh]
      /\ listed' = [listed EXCEPT ![s] = {t \in Sheets : sheetStatus[t] # "none"}]
      /\ blind \subseteq blind' /\ blind' \subseteq Sheets
      /\ stage' \in {[stage EXCEPT ![s] = "refused"], [stage EXCEPT ![s] = "checked"]}
      /\ UNCHANGED <<hr, sheetStatus, review, approved, revived>>
  BY <1>1 DEF Sheet!CheckShift, Sheet!TypeOK, Sheet!Stored
<1>3. Sheet!TypeOK'
  BY <1>1, <1>2 DEF Sheet!TypeOK, Sheet!Stored
<1>4. ReviewsOpen'
  BY <1>1, <1>2 DEF ReviewsOpen
<1>5. ListedStored'
  BY <1>1, <1>2 DEF ListedStored, Sheet!TypeOK, Sheet!Stored
<1>6. ListedCleared'
  <2>1. SUFFICES ASSUME NEW a \in Sheets, NEW b \in Sheets,
                        stage'[a] \in {"checked", "stored"}, a \notin blind',
                        b \in listed'[a], shift'[b].date = shift'[a].date,
                        Sheet!Overlap(shift'[a], shift'[b])
                 PROVE  sheetStatus'[b] = "rejected" \/ b \in revived'
    BY DEF ListedCleared, Sheet!Overlap
  <2>2. stage[b] = "stored" /\ b # s
    <3>1. stage'[b] = "stored"
      BY <1>5, <2>1 DEF ListedStored
    <3>2. QED  BY <1>1, <1>2, <3>1 DEF Sheet!TypeOK
  <2>3. shift'[b] = shift[b]
    BY <1>1, <1>2, <2>2 DEF Sheet!TypeOK
  <2>4. CASE a = s
    <3>1. shift'[a] = sh /\ sheetStatus[b] # "none"
      BY <1>1, <1>2, <2>1, <2>4 DEF Sheet!TypeOK
    <3>2. Sheet!Conflicts(sh) = {}
      BY <1>1, <1>2, <2>1, <2>4 DEF Sheet!CheckShift, Sheet!TypeOK
    <3>3. b \in Sheet!ListTimesheets(sh.date)
      BY <2>1, <2>3, <3>1 DEF Sheet!ListTimesheets, Sheet!Stored
    <3>4. sheetStatus[b] = "rejected"
      BY <2>1, <2>3, <3>1, <3>2, <3>3 DEF Sheet!Conflicts
    <3>5. QED  BY <1>2, <3>4
  <2>5. CASE a # s
    <3>1. /\ stage[a] = stage'[a] /\ shift'[a] = shift[a] /\ listed'[a] = listed[a]
          /\ a \notin blind
      BY <1>1, <1>2, <2>1, <2>5 DEF Sheet!TypeOK
    <3>2. QED  BY <1>1, <1>2, <2>1, <2>3, <3>1 DEF ListedCleared
  <2>6. QED  BY <2>4, <2>5
<1>7. QED  BY <1>3, <1>4, <1>5, <1>6 DEF SheetInv

(* The sheet is stored, or its creation failed. *)
LEMMA StoreInv ==
  ASSUME SheetInv, NEW s \in Sheets, Sheet!StoreSheet(s) \/ Sheet!StoreFailed(s)
  PROVE  SheetInv'
<1>1. /\ Sheet!TypeOK /\ ReviewsOpen /\ ListedStored /\ ListedCleared
  BY DEF SheetInv
<1>2. /\ stage[s] = "checked" /\ sheetStatus[s] = "none"
      /\ UNCHANGED <<hr, shift, review, approved, listed, blind, revived>>
      /\ \/ /\ stage' = [stage EXCEPT ![s] = "stored"]
            /\ sheetStatus' = [sheetStatus EXCEPT ![s] = "submitted"]
         \/ /\ stage' = [stage EXCEPT ![s] = "refused"]
            /\ sheetStatus' = sheetStatus
  BY <1>1 DEF Sheet!StoreSheet, Sheet!StoreFailed, Sheet!TypeOK, Sheet!Stored
<1>3. Sheet!TypeOK'
  BY <1>1, <1>2 DEF Sheet!TypeOK, Sheet!Stored, Sheet!Statuses
<1>4. ReviewsOpen'
  BY <1>1, <1>2 DEF ReviewsOpen, Sheet!TypeOK
<1>5. ListedStored'
  BY <1>1, <1>2 DEF ListedStored, Sheet!TypeOK
<1>6. ListedCleared'
  <2>1. SUFFICES ASSUME NEW a \in Sheets, NEW b \in Sheets,
                        stage'[a] \in {"checked", "stored"}, a \notin blind,
                        b \in listed[a], shift[b].date = shift[a].date,
                        Sheet!Overlap(shift[a], shift[b])
                 PROVE  sheetStatus'[b] = "rejected" \/ b \in revived
    BY <1>2 DEF ListedCleared, Sheet!Overlap
  <2>2. stage[b] = "stored" /\ sheetStatus'[b] = sheetStatus[b]
    BY <1>1, <1>2, <2>1 DEF ListedStored, Sheet!TypeOK
  <2>3. stage[a] \in {"checked", "stored"}
    BY <1>1, <1>2, <2>1 DEF Sheet!TypeOK
  <2>4. QED  BY <1>1, <2>1, <2>2, <2>3 DEF ListedCleared
<1>7. QED  BY <1>3, <1>4, <1>5, <1>6 DEF SheetInv

(* updateTimesheetStatus reads a sheet, or gives up on it. *)
LEMMA ReviewBegunInv ==
  ASSUME SheetInv, NEW r \in Reviewers,
         \/ \E s \in Sheets, pc \in {"approve", "reject"} : Sheet!BeginReview(r, s, pc)
         \/ Sheet!ReviewFailed(r)
  PROVE  SheetInv'
<1>1. /\ Sheet!TypeOK /\ ReviewsOpen /\ ListedStored /\ ListedCleared
  BY DEF SheetInv
<1>2. UNCHANGED <<hr, shift, stage, sheetStatus, approved, listed, blind, revived>>
  BY DEF Sheet!BeginReview, Sheet!ReviewFailed
<1>3. PICK v : /\ review' = [review EXCEPT ![r] = v]
               /\ \/ v = Sheet!Idle
                  \/ /\ v \in [pc: {"approve", "reject"}, sheet: Sheets, copy: Sheet!Statuses]
                     /\ sheetStatus[v.sheet] # "none" /\ v.copy # "approved"
  <2>1. CASE Sheet!ReviewFailed(r)
    BY <2>1 DEF Sheet!ReviewFailed
  <2>2. ASSUME NEW s \in Sheets, NEW pc \in {"approve", "reject"}, Sheet!BeginReview(r, s, pc)
        PROVE  \E v : /\ review' = [review EXCEPT ![r] = v]
                      /\ v \in [pc: {"approve", "reject"}, sheet: Sheets, copy: Sheet!Statuses]
                      /\ sheetStatus[v.sheet] # "none" /\ v.copy # "approved"
    <3> DEFINE v == [pc |-> pc, sheet |-> s, copy |-> sheetStatus[s]]
    <3>1. review' = [review EXCEPT ![r] = v]
      BY <2>2 DEF Sheet!BeginReview
    <3>2. v \in [pc: {"approve", "reject"}, sheet: Sheets, copy: Sheet!Statuses]
      BY <1>1, <2>2 DEF Sheet!TypeOK
    <3>3. sheetStatus[v.sheet] # "none" /\ v.copy # "approved"
      BY <2>2 DEF Sheet!BeginReview, Sheet!Stored
    <3>4. QED  BY <3>1, <3>2, <3>3
  <2>3. QED  BY <2>1, <2>2
<1>4. Sheet!TypeOK'
  BY <1>1, <1>2, <1>3 DEF Sheet!TypeOK, Sheet!Stored
<1>5. ReviewsOpen'
  BY <1>1, <1>2, <1>3 DEF ReviewsOpen, Sheet!TypeOK
<1>6. ListedStored' /\ ListedCleared'
  BY <1>1, <1>2 DEF ListedStored, ListedCleared, Sheet!Overlap
<1>7. QED  BY <1>4, <1>5, <1>6 DEF SheetInv

(* The decision is written over whatever the sheet has become; a sheet     *)
(* that was rejected and counts again is remembered as revived.            *)
LEMMA DecisionInv ==
  ASSUME SheetInv, NEW r \in Reviewers,
         Sheet!ApproveTimesheet(r) \/ Sheet!RejectTimesheet(r)
  PROVE  SheetInv'
<1>1. /\ Sheet!TypeOK /\ ReviewsOpen /\ ListedStored /\ ListedCleared
  BY DEF SheetInv
<1>2. review[r] # Sheet!Idle
  BY DEF Sheet!ApproveTimesheet, Sheet!RejectTimesheet, Sheet!Idle
<1>3. PICK s \in Sheets : s = review[r].sheet /\ sheetStatus[s] # "none"
  BY <1>1, <1>2 DEF ReviewsOpen
<1>4. /\ review' = [review EXCEPT ![r] = Sheet!Idle]
      /\ UNCHANGED <<hr, shift, stage, listed, blind>>
      /\ approved' \subseteq Sheets /\ revived' \subseteq Sheets /\ revived \subseteq revived'
      /\ \/ /\ sheetStatus' = [sheetStatus EXCEPT ![s] = "approved"]
            /\ sheetStatus[s] = "rejected" => s \in revived'
         \/ /\ sheetStatus' = [sheetStatus EXCEPT ![s] = "rejected"]
  BY <1>1, <1>3 DEF Sheet!ApproveTimesheet, Sheet!RejectTimesheet, Sheet!Decide, Sheet!TypeOK
<1>5. Sheet!TypeOK'
  BY <1>1, <1>3, <1>4 DEF Sheet!TypeOK, Sheet!Stored, Sheet!Statuses
<1>6. ReviewsOpen'
  BY <1>1, <1>3, <1>4 DEF ReviewsOpen, Sheet!TypeOK
<1>7. ListedStored'
  BY <1>1, <1>4 DEF ListedStored
<1>8. ListedCleared'
  <2>1. SUFFICES ASSUME NEW a \in Sheets, NEW b \in Sheets,
                        stage[a] \in {"checked", "stored"}, a \notin blind,
                        b \in listed[a], shift[b].date = shift[a].date,
                        Sheet!Overlap(shift[a], shift[b])
                 PROVE  sheetStatus'[b] = "rejected" \/ b \in revived'
    BY <1>4 DEF ListedCleared, Sheet!Overlap
  <2>2. sheetStatus[b] = "rejected" \/ b \in revived
    BY <1>1, <2>1 DEF ListedCleared
  <2>3. QED  BY <1>1, <1>4, <2>2 DEF Sheet!TypeOK
<1>9. QED  BY <1>5, <1>6, <1>7, <1>8 DEF SheetInv

(* Every step of the timesheets, and every step that leaves them alone. *)
LEMMA SheetStepInv == SheetInv /\ [Sheet!SheetNext]_sheetVars => SheetInv'
<1>1. SUFFICES ASSUME SheetInv, [Sheet!SheetNext]_sheetVars PROVE SheetInv'
  OBVIOUS
<1>2. CASE UNCHANGED sheetVars
  BY <1>1, <1>2 DEF sheetVars, SheetInv, Sheet!TypeOK, Sheet!Stored, ReviewsOpen, ListedStored,
     ListedCleared, Sheet!Overlap
<1>3. CASE Sheet!SheetNext
  BY <1>1, <1>3, CheckShiftInv, StoreInv, ReviewBegunInv, DecisionInv DEF Sheet!SheetNext
<1>4. QED  BY <1>1, <1>2, <1>3

(* Overlapping sheets that count were not both in sight of the check. *)
LEMMA SheetsExplained == SheetInv => Sheet!OverlapExplained
<1>1. SUFFICES ASSUME SheetInv,
                      NEW a \in Sheets, NEW b \in Sheets,
                      sheetStatus[a] \in {"submitted", "approved"},
                      sheetStatus[b] \in {"submitted", "approved"},
                      Sheet!Overlap(shift[a], shift[b]),
                      shift[a].date = shift[b].date,
                      ~Sheet!Raced(a, b)
               PROVE  {a, b} \cap (blind \cup revived) # {}
  BY DEF Sheet!OverlapExplained
<1>2. stage[a] = "stored" /\ stage[b] = "stored"
  BY <1>1 DEF SheetInv, Sheet!TypeOK, Sheet!Stored
<1>3. Sheet!Overlap(shift[b], shift[a])
  BY <1>1 DEF Sheet!Overlap
<1>4. CASE b \in listed[a]
  BY <1>1, <1>2, <1>4 DEF SheetInv, ListedCleared
<1>5. CASE a \in listed[b]
  BY <1>1, <1>2, <1>3, <1>5 DEF SheetInv, ListedCleared
<1>6. QED  BY <1>1, <1>4, <1>5 DEF Sheet!Raced

(* An approved sheet is turned down by a reviewer's older copy only. *)
LEMMA ApprovalStep ==
  ASSUME SheetInv, [Sheet!SheetNext]_sheetVars,
         NEW s \in Sheets, sheetStatus[s] = "approved", sheetStatus'[s] # "approved"
  PROVE  \E r \in Reviewers : /\ review[r] # Sheet!Idle /\ review'[r] = Sheet!Idle
                              /\ review[r].sheet = s /\ review[r].copy # "approved"
<1>1. Sheet!TypeOK /\ ReviewsOpen
  BY DEF SheetInv
<1>2. sheetStatus' # sheetStatus
  OBVIOUS
<1>3. ASSUME NEW t \in Sheets, Sheet!StoreSheet(t)
      PROVE  FALSE
  BY <1>1, <1>3 DEF Sheet!StoreSheet, Sheet!TypeOK, Sheet!Stored
<1>4. PICK r \in Reviewers : Sheet!ApproveTimesheet(r) \/ Sheet!RejectTimesheet(r)
  BY <1>2, <1>3 DEF Sheet!SheetNext, Sheet!CheckShift, Sheet!StoreFailed, Sheet!BeginReview,
     Sheet!ReviewFailed, sheetVars
<1>5. review[r] # Sheet!Idle
  BY <1>4 DEF Sheet!ApproveTimesheet, Sheet!RejectTimesheet, Sheet!Idle
<1>6. review[r].sheet \in Sheets /\ review[r].copy # "approved"
  BY <1>1, <1>5 DEF ReviewsOpen
<1>7. review[r].sheet = s /\ review'[r] = Sheet!Idle
  BY <1>1, <1>4, <1>6 DEF Sheet!ApproveTimesheet, Sheet!RejectTimesheet, Sheet!Decide, Sheet!TypeOK
<1>8. QED  BY <1>5, <1>6, <1>7

-----------------------------------------------------------------------------
(***************************************************************************)
(* The domain: each part takes its own steps and leaves the others alone.  *)
(***************************************************************************)
(* The rows and copies of both parts keep their invariants. *)
LEMMA WorkforceInvariance == WorkforceSpec => [](CareInv /\ SheetInv)
<1>1. WorkforceInit => CareInv /\ SheetInv
  BY CareInitInv, SheetInitInv DEF WorkforceInit
<1>2. CareInv /\ SheetInv /\ [WorkforceNext]_workforceVars => (CareInv /\ SheetInv)'
  <2>1. [WorkforceNext]_workforceVars => [Care!CareNext]_careVars /\ [Sheet!SheetNext]_sheetVars
    BY DEF WorkforceNext, workforceVars
  <2>2. QED  BY <2>1, CareStepInv, SheetStepInv
<1>3. QED  BY <1>1, <1>2, PTL DEF WorkforceSpec

(* A cached care schedule that differs from its row, and two stored sheets *)
(* that overlap, have the reasons of CopyExplained and OverlapExplained,   *)
(* however many keepers, writes, sheets and reviewers there are            *)
(* (getCareSchedule, updateCareSchedule, SubmitTimesheet).                 *)
THEOREM StoredIsExplained == WorkforceSpec => []StoredExplained
<1>1. CareInv => Care!TypeOK /\ Care!CopyExplained
  BY DEF CareInv, CareFresh, CopyStale, Care!CopyExplained, Saving
<1>2. SheetInv => Sheet!TypeOK /\ Sheet!OverlapExplained
  BY SheetsExplained DEF SheetInv
<1>3. QED  BY <1>1, <1>2, WorkforceInvariance, PTL DEF StoredExplained

(* An emergency medical hold is lifted only by a page that showed it or is *)
(* older than it, and an approved timesheet is turned down only by a       *)
(* reviewer who read it before (UpsertCareSchedule,                        *)
(* SetEmergencyMedicalHold, RejectTimesheet).                              *)
THEOREM ChangesAreExplained == WorkforceSpec => ChangesExplained
<1>1. [WorkforceNext]_workforceVars => [Care!CareNext]_careVars /\ [Sheet!SheetNext]_sheetVars
  BY DEF WorkforceNext, workforceVars
<1>2. CareInv /\ [WorkforceNext]_workforceVars =>
        [careRow.hold /\ ~careRow'.hold =>
          \E k \in Keepers :
            \/ Care!At(k, "toggle") /\ req'[k].pc = "bump" /\ page[k].hold
            \/ Care!At(k, "write") /\ req'[k].pc = "bump" /\ page[k].n < heldAt]_(Care!careVars)
  BY <1>1, HoldLiftStep
<1>3. SheetInv /\ [WorkforceNext]_workforceVars =>
        [\A s \in Sheets : sheetStatus[s] = "approved" /\ sheetStatus'[s] # "approved" =>
          \E r \in Reviewers : /\ review[r] # Sheet!Idle /\ review'[r] = Sheet!Idle
                               /\ review[r].sheet = s /\ review[r].copy # "approved"]_(Sheet!sheetVars)
  BY <1>1, ApprovalStep
<1>4. QED
  BY <1>2, <1>3, WorkforceInvariance, PTL
  DEF WorkforceSpec, ChangesExplained, Care!HoldLiftExplained, Sheet!ApprovalKept
=============================================================================
