----------------------------- MODULE Workforce ------------------------------
(* The workforce domain: performance reviews, care schedules and their     *)
(* medical holds, and timesheets.  The parts share no rows, so a behaviour *)
(* moves one of them, chosen at the start.                                 *)
EXTENDS ReviewCycles, Integers, FiniteSets

CONSTANTS Keepers, TTLCareSchedule, MaxSaves,   \* of CareSchedules
          Sheets, Reviewers, Day, Shifts        \* of Timesheets

ASSUME WorkforceAssumption ==
    /\ IsFiniteSet(Keepers)
    /\ TTLCareSchedule \in Nat \ {0}
    /\ MaxSaves \in Nat
    /\ Day \in Nat
    /\ Shifts \subseteq [date: Nat, from: Nat, to: Nat]

VARIABLES part,
    careRow, heldAt, entry, version, page, req, faulty,
    hr, shift, stage, sheetStatus, review, approved, listed, blind, revived

careVars == <<careRow, heldAt, entry, version, page, req, faulty>>
sheetVars == <<hr, shift, stage, sheetStatus, review, approved, listed, blind, revived>>
workforceVars == <<part, vars, careVars, sheetVars>>

Care == INSTANCE CareSchedules WITH row <- careRow
Sheet == INSTANCE Timesheets WITH status <- sheetStatus

WorkforceInit ==
    /\ part \in {"reviews", "care", "timesheets"}
    /\ Init /\ Care!CareInit /\ Sheet!SheetInit
    /\ part # "timesheets" => ~hr

Moves(p) == part = p /\ UNCHANGED part
WorkforceNext ==
    \/ Moves("reviews") /\ Next /\ UNCHANGED <<careVars, sheetVars>>
    \/ Moves("care") /\ Care!CareNext /\ UNCHANGED <<vars, sheetVars>>
    \/ Moves("timesheets") /\ Sheet!SheetNext /\ UNCHANGED <<vars, careVars>>

WorkforceSpec == WorkforceInit /\ [][WorkforceNext]_workforceVars

(* See CareSchedules and Timesheets: a cached schedule that differs from   *)
(* its row, and two stored sheets that overlap.                            *)
StoredExplained ==
    /\ Care!TypeOK /\ Care!CopyExplained
    /\ Sheet!TypeOK /\ Sheet!OverlapExplained

(* See CareSchedules and Timesheets: a hold that is gone although nobody   *)
(* lifted it, and an approved sheet that stays approved.                   *)
ChangesExplained == Care!HoldLiftExplained /\ Sheet!ApprovalKept
=============================================================================
