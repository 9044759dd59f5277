----------------------------- MODULE Timesheets -----------------------------
(* The timesheets of one employee, kept in Frappe HR or, without it, in a  *)
(* map of the process.  Submitting lists the sheets of the shift's date,   *)
(* then stores the new one; reviewing reads a sheet, then writes it: both  *)
(* are two steps that interleave with those of other requests.             *)
EXTENDS Integers

CONSTANTS Sheets, Reviewers,
          Day,      \* units of time in a day
          Shifts    \* the shifts submitted: [date, from, to], times in units

VARIABLES
    hr,       \* is Frappe HR configured?
    shift,    \* the shift of each sheet that was submitted
    stage,    \* of each submission
    status,   \* of each stored sheet
    review,   \* what each reviewer is doing
    approved, \* the sheets a timesheet_approved event was published for
    listed,   \* history: the sheets stored when a submission listed them
    blind,    \* history: submissions whose list failed
    revived   \* history: sheets approved after they were rejected

sheetVars == <<hr, shift, stage, status, review, approved, listed, blind, revived>>

Statuses == {"none", "submitted", "approved", "rejected"}
NoShift == [date |-> 0, from |-> 0, to |-> 0]
Idle == [pc |-> "idle"]
Stored(s) == status[s] # "none"

TypeOK ==
    /\ hr \in BOOLEAN
    /\ shift \in [Sheets -> Shifts \cup {NoShift}]
    /\ stage \in [Sheets -> {"new", "checked", "refused", "stored"}]
    /\ status \in [Sheets -> Statuses]
    /\ review \in [Reviewers -> {Idle} \cup [pc: {"approve", "reject"}, sheet: Sheets, copy: Statuses]]
    /\ approved \subseteq Sheets
    /\ listed \in [Sheets -> SUBSET Sheets]
    /\ blind \subseteq Sheets /\ revived \subseteq Sheets
    /\ \A s \in Sheets : Stored(s) <=> stage[s] = "stored"

SheetInit ==
    /\ hr \in BOOLEAN
    /\ shift = [s \in Sheets |-> NoShift]
    /\ stage = [s \in Sheets |-> "new"]
    /\ status = [s \in Sheets |-> "none"]
    /\ review = [r \in Reviewers |-> Idle]
    /\ approved = {}
    /\ listed = [s \in Sheets |-> {}]
    /\ blind = {} /\ revived = {}

(* The checks of SubmitTimesheet on the shift itself.  Its date is taken   *)
(* as given and not compared with its times.                               *)
ValidShift(sh) == sh.from < sh.to /\ sh.to - sh.from <= Day

Overlap(a, b) == a.from < b.to /\ b.from < a.to

(* ListTimesheets filtered to the date of the shift. *)
ListTimesheets(date) == {s \in Sheets : Stored(s) /\ shift[s].date = date}

(* Mutant: sheets that await their review are left out. *)
ApprovedConflicts(sh) == {s \in ListTimesheets(sh.date) : status[s] = "approved" /\ Overlap(sh, shift[s])}

(* Those of the listed sheets that stand in the way of sh. *)
Conflicts(sh) == {s \in ListTimesheets(sh.date) : status[s] # "rejected" /\ Overlap(sh, shift[s])}

(* SubmitTimesheet up to the list: refused, or on to the store.  A list    *)
(* that fails lets every shift pass.                                       *)
CheckShift(s, sh) ==
    /\ stage[s] = "new"
    /\ shift' = [shift EXCEPT ![s] = sh]
    /\ listed' = [listed EXCEPT ![s] = {t \in Sheets : Stored(t)}]
    /\ \/ /\ ~ValidShift(sh) \/ Conflicts(sh) # {}
          /\ stage' = [stage EXCEPT ![s] = "refused"]
          /\ UNCHANGED blind
       \/ /\ ValidShift(sh) /\ Conflicts(sh) = {}
          /\ stage' = [stage EXCEPT ![s] = "checked"]
          /\ UNCHANGED blind
       \/ /\ ValidShift(sh) /\ hr
          /\ stage' = [stage EXCEPT ![s] = "checked"]
          /\ blind' = blind \cup {s}
    /\ UNCHANGED <<hr, status, review, approved, revived>>

(* The sheet is created in Frappe as a draft, or put into the map. *)
StoreSheet(s) ==
    /\ stage[s] = "checked"
    /\ stage' = [stage EXCEPT ![s] = "stored"]
    /\ status' = [status EXCEPT ![s] = "submitted"]
    /\ UNCHANGED <<hr, shift, review, approved, listed, blind, revived>>

(* CreateTimesheet answered an error. *)
StoreFailed(s) ==
    /\ stage[s] = "checked" /\ hr
    /\ stage' = [stage EXCEPT ![s] = "refused"]
    /\ UNCHANGED <<hr, shift, status, review, approved, listed, blind, revived>>

-----------------------------------------------------------------------------
(* Mutant: an approved sheet can be reviewed again. *)
BeginAnyReview(r, s, pc) ==
    /\ review[r] = Idle /\ Stored(s)
    /\ review' = [review EXCEPT ![r] = [pc |-> pc, sheet |-> s, copy |-> status[s]]]
    /\ UNCHANGED <<hr, shift, stage, status, approved, listed, blind, revived>>

(* updateTimesheetStatus: the sheet is read; approving an approved one     *)
(* answers at once, rejecting it is an error.                              *)
BeginReview(r, s, pc) ==
    /\ review[r] = Idle /\ Stored(s)
    /\ status[s] # "approved"
    /\ review' = [review EXCEPT ![r] = [pc |-> pc, sheet |-> s, copy |-> status[s]]]
    /\ UNCHANGED <<hr, shift, stage, status, approved, listed, blind, revived>>

(* The write did not happen: Frappe refused it or could not be reached. *)
ReviewFailed(r) ==
    /\ review[r] # Idle /\ hr
    /\ review' = [review EXCEPT ![r] = Idle]
    /\ UNCHANGED <<hr, shift, stage, status, approved, listed, blind, revived>>

Decide(r, to) ==
    /\ status' = [status EXCEPT ![review[r].sheet] = to]
    /\ review' = [review EXCEPT ![r] = Idle]
    /\ UNCHANGED <<hr, shift, stage, listed, blind>>

(* ApproveTimesheet writes the copy back as approved, whatever the sheet   *)
(* has become, and publishes timesheet_approved.                           *)
ApproveTimesheet(r) ==
    /\ review[r].pc = "approve"
    /\ LET s == review[r].sheet IN
       /\ approved' = approved \cup {s}
       /\ revived' = IF "rejected" \in {status[s], review[r].copy} THEN revived \cup {s} ELSE revived
    /\ Decide(r, "approved")

(* RejectTimesheet writes it back as rejected. *)
RejectTimesheet(r) ==
    /\ review[r].pc = "reject"
    /\ UNCHANGED <<approved, revived>>
    /\ Decide(r, "rejected")

SheetNext ==
    \/ \E s \in Sheets : \/ \E sh \in Shifts : CheckShift(s, sh)
                         \/ StoreSheet(s)
                         \/ StoreFailed(s)
    \/ \E r \in Reviewers : \/ \E s \in Sheets, pc \in {"approve", "reject"} : BeginReview(r, s, pc)
                            \/ ReviewFailed(r)
                            \/ ApproveTimesheet(r)
                            \/ RejectTimesheet(r)

SheetSpec == SheetInit /\ [][SheetNext]_sheetVars

-----------------------------------------------------------------------------
Raced(a, b) == a \notin listed[b] /\ b \notin listed[a]

(* Two sheets that count and whose shifts overlap got past the check in    *)
(* one of four ways: they carry different dates (a night shift, or a date  *)
(* given by hand), each was checked before the other was stored, a list    *)
(* failed, or one of them was rejected and approved again later            *)
(* (SubmitTimesheet, ApproveTimesheet).                                    *)
OverlapExplained ==
    \A a, b \in {s \in Sheets : status[s] \in {"submitted", "approved"}} :
        a # b /\ Overlap(shift[a], shift[b]) =>
            \/ shift[a].date # shift[b].date
            \/ Raced(a, b)
            \/ {a, b} \cap (blind \cup revived) # {}

(* An approved sheet is turned down only by a reviewer who read it before  *)
(* it was approved (ApproveTimesheet, RejectTimesheet).                    *)
ApprovalKept ==
    [][\A s \in Sheets : status[s] = "approved" /\ status'[s] # "approved" =>
          \E r \in Reviewers : /\ review[r] # Idle /\ review'[r] = Idle
                               /\ review[r].sheet = s /\ review[r].copy # "approved"]_sheetVars
=============================================================================
