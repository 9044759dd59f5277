------------------------------- MODULE Sagas -------------------------------
(* Joining and leaving the company.  The HR system calls a webhook, at     *)
(* least once and in any order, and staff call the same two operations:    *)
(* onboarding writes the employee's row, then provisions his accounts;     *)
(* offboarding updates the row, then takes the accounts away.  The steps   *)
(* of a call are calls of other systems, each of which may fail, and they  *)
(* interleave with those of other calls.  Two engines exist: the one of    *)
(* internal-bll, which only ever reaches the repository host, and the one  *)
(* of package saga, which reaches every system it is given a client for.   *)
EXTENDS Integers

CONSTANTS People, Cats,
          Name(_),   \* the user name derived from an employee's names
          Calls,     \* the calls of the two operations, each made once
          MaxFaults  \* how many calls of other systems fail

ASSUME SagaAssumption == MaxFaults \in Nat

VARIABLES
    engine,    \* "bll" or "saga"
    wired,     \* the systems the engine has a client for
    status,    \* workforce.employees
    tasks,     \* how many times each employee's checklist was written
    hold,      \* workforce.care_schedules, the hold of each cat
    grants,    \* <<system, key>>: what the other systems let in
    call,      \* what each call is doing
    report,    \* the systems the last offboarding reported as taken away
    told,      \* the systems the last onboarding reported as given
    faults,
    fate,      \* history: what offboarding did to each system
    bereft,    \* history: <<system, employee>> lost to another call
    asked,     \* history: cats whose last wanted hold is a hold
    rewritten  \* history: cats onboarded since their hold was asked for

sagaVars == <<engine, wired, status, tasks, hold, grants, call, report, told, faults,
              fate, bereft, asked, rewritten>>

Employees == People \cup Cats
Systems == {"vcs", "storage", "sessions"}
Statuses == {"none", "onboarding", "active", "separated"}
Key(s, e) == IF s = "sessions" THEN e ELSE Name(e)
Namesakes(s, e) == {x \in Employees : Key(s, x) = Key(s, e)}

Unused == [op |-> "unused"]
Over == [op |-> "done"]
Onboarding == [op: {"onboard"}, e: Employees, got: SUBSET Systems,
               pc: {"row", "extras", "vcs", "storage", "answer"}]
Offboarding == [op: {"offboard"}, e: Employees, got: SUBSET Systems,
                pc: {"fetch", "status", "sessions", "vcs", "storage", "hold"},
                to: {"separated", "active"}]

SagaTypes ==
    /\ engine \in {"bll", "saga"} /\ wired \subseteq Systems
    /\ status \in [Employees -> Statuses]
    /\ tasks \in [Employees -> Nat]
    /\ hold \in [Cats -> {"none", "off", "on"}]
    /\ grants \subseteq Systems \X (Employees \cup {Name(e) : e \in Employees})
    /\ call \in [Calls -> {Unused, Over} \cup Onboarding \cup Offboarding]
    /\ report \in [Employees -> SUBSET Systems] /\ told \in [Employees -> SUBSET Systems]
    /\ faults \in 0 .. MaxFaults
    /\ fate \in [Systems -> [Employees -> {"held", "revoked", "failed", "unwired", "regranted"}]]
    /\ bereft \subseteq Systems \X Employees
    /\ asked \subseteq Cats /\ rewritten \subseteq Cats

(* NewServer of internal-bll is given a client of the repository host or   *)
(* none; without one the adapter answers as if it had done its work.       *)
SagaInit ==
    /\ \/ engine = "bll" /\ wired \in SUBSET {"vcs"}
       \/ engine = "saga" /\ wired \in {{}, Systems}
    /\ \E staff \in {{}, Employees} :  \* hired before
         /\ status = [e \in Employees |-> IF e \in staff THEN "active" ELSE "none"]
         /\ tasks = [e \in Employees |-> IF e \in staff THEN 1 ELSE 0]
         /\ hold = [e \in Cats |-> IF e \in staff THEN "off" ELSE "none"]
         /\ grants = {<<s, Name(e)>> : s \in wired \ {"sessions"}, e \in staff \ Cats}
         /\ told = [e \in Employees |-> IF e \in staff \ Cats THEN {"vcs", "storage"} ELSE {}]
    /\ call = [c \in Calls |-> Unused]
    /\ report = [e \in Employees |-> {}]
    /\ faults = 0
    /\ fate = [s \in Systems |-> [e \in Employees |-> "held"]]
    /\ bereft = {} /\ asked = {} /\ rewritten = {}

Fault == faults < MaxFaults /\ faults' = faults + 1
NoFault == UNCHANGED faults
Move(c, pc) == call' = [call EXCEPT ![c].pc = pc]
Done(c) == call' = [call EXCEPT ![c] = Over]
At(c, op, pc) == call[c].op = op /\ call[c].pc = pc

(* What HandleHRWebhook does with an event; the HTTP handlers call the     *)
(* two operations directly, with a status to end in of the caller's choice.*)
Dispatch(event, st) ==
    IF event = "employee_created" \/ st = "onboarding" THEN "onboard"
    ELSE IF event = "employee_separated" \/ st = "separated" THEN "offboard"
    ELSE IF st # "" THEN "status" ELSE "ignored"

HandleHRWebhook(c, e, event, st) ==
    /\ call[c] = Unused
    /\ CASE Dispatch(event, st) = "onboard" ->
              /\ call' = [call EXCEPT ![c] = [op |-> "onboard", e |-> e, pc |-> "row", got |-> {}]]
              /\ UNCHANGED status
         [] Dispatch(event, st) = "offboard" ->
              /\ call' = [call EXCEPT ![c] = [op |-> "offboard", e |-> e, pc |-> "fetch", got |-> {},
                                              to |-> IF st = "" THEN "separated" ELSE st]]
              /\ UNCHANGED status
         [] Dispatch(event, st) = "status" ->
              /\ Done(c)
              /\ status' = IF status[e] = "none" THEN status ELSE [status EXCEPT ![e] = st]
         [] OTHER -> Done(c) /\ UNCHANGED status
    /\ UNCHANGED <<engine, wired, tasks, hold, grants, report, told, faults, fate, bereft,
                   asked, rewritten>>

(* CreateEmployee of the workforce service: an insert that overwrites the  *)
(* row, its status included, when the employee exists already.             *)
CreateEmployee(c) ==
    LET e == call[c].e
        leaving == \E d \in Calls : call[d].op = "offboard" /\ call[d].e = e IN
    /\ At(c, "onboard", "row")
    /\ NoFault
    /\ status' = [status EXCEPT ![e] = "onboarding"]
    /\ fate' = [s \in Systems |-> [fate[s] EXCEPT ![e] = IF leaving THEN "regranted" ELSE "held"]]
    /\ report' = [report EXCEPT ![e] = {}]
    /\ Move(c, "extras")
    /\ UNCHANGED <<engine, wired, tasks, hold, grants, told, bereft, asked, rewritten>>

CreateFails(c) ==
    /\ At(c, "onboard", "row")
    /\ Fault
    /\ Done(c)
    /\ UNCHANGED <<engine, wired, status, tasks, hold, grants, report, told, fate, bereft,
                   asked, rewritten>>

(* The rest of the service's OnboardEmployee: the tasks and a cat's care   *)
(* schedule, whose hold is off.  The errors of both writes are dropped.    *)
OnboardExtras(c) ==
    LET e == call[c].e IN
    /\ At(c, "onboard", "extras")
    /\ \E wroteTasks, wroteCare \in BOOLEAN :
         /\ IF wroteTasks /\ wroteCare THEN NoFault ELSE Fault
         /\ tasks' = IF wroteTasks THEN [tasks EXCEPT ![e] = @ + 1] ELSE tasks
         /\ IF e \in Cats /\ wroteCare
            THEN hold' = [hold EXCEPT ![e] = "off"] /\ rewritten' = rewritten \cup {e}
            ELSE UNCHANGED <<hold, rewritten>>
    /\ Move(c, IF e \in Cats THEN "answer" ELSE "vcs")
    /\ UNCHANGED <<engine, wired, status, grants, report, told, fate, bereft, asked>>

Give(s, e) ==
    /\ grants' = grants \cup {<<s, Key(s, e)>>}
    /\ fate' = [fate EXCEPT ![s] = [x \in Employees |->
                  IF x \in Namesakes(s, e) /\ @[x] = "revoked" THEN "regranted" ELSE @[x]]]
    /\ bereft' = bereft \ ({s} \X Namesakes(s, e))

Got(c, s, pc) == call' = [call EXCEPT ![c].pc = pc, ![c].got = @ \cup {s}]

(* ProvisionAccount: the account is created, or taken over from whoever    *)
(* has the same user name; a failure is dropped by both engines.           *)
ProvisionAccount(c) ==
    /\ At(c, "onboard", "vcs")
    /\ \/ "vcs" \in wired /\ Give("vcs", call[c].e) /\ Got(c, "vcs", "storage") /\ NoFault
       \/ "vcs" \notin wired /\ Got(c, "vcs", "storage") /\ NoFault /\ UNCHANGED <<grants, fate, bereft>>
       \/ "vcs" \in wired /\ Fault /\ Move(c, "storage") /\ UNCHANGED <<grants, fate, bereft>>
    /\ UNCHANGED <<engine, wired, status, tasks, hold, report, told, asked, rewritten>>

(* ProvisionWorkspace: internal-bll answers an active workspace without    *)
(* asking anyone.  Nextcloud refuses a user that exists.                   *)
ProvisionWorkspace(c) ==
    LET e == call[c].e IN
    /\ At(c, "onboard", "storage")
    /\ \/ /\ "storage" \in wired /\ <<"storage", Key("storage", e)>> \notin grants
          /\ Give("storage", e) /\ Got(c, "storage", "answer") /\ NoFault
       \/ "storage" \notin wired /\ Got(c, "storage", "answer") /\ NoFault /\ UNCHANGED <<grants, fate, bereft>>
       \/ /\ "storage" \in wired /\ Move(c, "answer") /\ UNCHANGED <<grants, fate, bereft>>
          /\ IF <<"storage", Key("storage", e)>> \in grants THEN NoFault ELSE Fault
    /\ UNCHANGED <<engine, wired, status, tasks, hold, report, told, asked, rewritten>>

(* The result, and the employee_onboarded event, which nobody consumes. *)
AnswerOnboard(c) ==
    /\ At(c, "onboard", "answer")
    /\ told' = [told EXCEPT ![call[c].e] = call[c].got]
    /\ Done(c)
    /\ UNCHANGED <<engine, wired, status, tasks, hold, grants, report, faults, fate, bereft,
                   asked, rewritten>>

(* GetEmployee, then UpdateEmployeeStatus: the errors of these two end the *)
(* call, and nothing was taken away.                                       *)
FetchEmployee(c) ==
    /\ At(c, "offboard", "fetch")
    /\ IF status[call[c].e] # "none" THEN Move(c, "status") /\ UNCHANGED faults
       ELSE Done(c) /\ UNCHANGED faults
    /\ UNCHANGED <<engine, wired, status, tasks, hold, grants, report, told, fate, bereft,
                   asked, rewritten>>

UpdateEmployeeStatus(c) ==
    /\ At(c, "offboard", "status")
    /\ \/ NoFault /\ status' = [status EXCEPT ![call[c].e] = call[c].to] /\ Move(c, "sessions")
       \/ Fault /\ Done(c) /\ UNCHANGED status
    /\ UNCHANGED <<engine, wired, tasks, hold, grants, report, told, fate, bereft, asked, rewritten>>

(* Mutant: the account is looked up by the employee's id. *)
RevokedKeyById(s, e) == e

(* The key an offboarding takes away: the user name is derived again from  *)
(* the names in the row.                                                   *)
RevokedKey(s, e) == Key(s, e)

Joining(e) == \E d \in Calls : call[d].op = "onboard" /\ call[d].e = e

Take(s, e) ==
    /\ grants' = grants \ {<<s, RevokedKey(s, e)>>}
    /\ fate' = [fate EXCEPT ![s][e] = "revoked"]
    /\ bereft' = bereft \cup ({s} \X {x \in Namesakes(s, e) : x # e \/ Joining(x)})

Kept(s, e, why) == UNCHANGED <<grants, bereft>> /\ fate' = [fate EXCEPT ![s][e] = why]

(* One system after the other.  The error of each is dropped, and only the *)
(* saga engine remembers whether the storage was archived.                 *)
NextSystem == [sessions |-> "vcs", vcs |-> "storage", storage |-> "hold"]

TakeAway(c, s) ==
    LET e == call[c].e IN
    /\ At(c, "offboard", s)
    /\ told' = [told EXCEPT ![e] = @ \ {s}]
    /\ \/ s \in wired /\ Take(s, e) /\ Got(c, s, NextSystem[s]) /\ NoFault
       \/ s \notin wired /\ Kept(s, e, "unwired") /\ Got(c, s, NextSystem[s]) /\ NoFault
       \/ /\ s \in wired /\ Fault /\ Kept(s, e, "failed")
          /\ IF s = "storage" THEN Move(c, NextSystem[s]) ELSE Got(c, s, NextSystem[s])
    /\ UNCHANGED <<engine, wired, status, tasks, hold, report, asked, rewritten>>

(* A cat that leaves is put on a medical hold, then the result is sent.    *)
AnswerOffboard(c) ==
    LET e == call[c].e IN
    /\ At(c, "offboard", "hold")
    /\ \/ /\ e \in Cats /\ NoFault
          /\ hold' = [hold EXCEPT ![e] = "on"]
          /\ asked' = asked \cup {e} /\ rewritten' = rewritten \ {e}
       \/ /\ IF e \in Cats THEN Fault ELSE NoFault
          /\ UNCHANGED <<hold, asked, rewritten>>
    /\ report' = [report EXCEPT ![e] = call[c].got]
    /\ Done(c)
    /\ UNCHANGED <<engine, wired, status, tasks, grants, told, fate, bereft>>

(* A portal login of a person, whatever his status in the HR system. *)
LogIn(e) ==
    /\ status[e] # "none"
    /\ <<"sessions", e>> \notin grants
    /\ Give("sessions", e)
    /\ UNCHANGED <<engine, wired, status, tasks, hold, call, report, told, faults, asked, rewritten>>

(* SetMedicalHold by the veterinary staff. *)
SetMedicalHold(e, on) ==
    /\ hold[e] # IF on THEN "on" ELSE "off"
    /\ hold' = [hold EXCEPT ![e] = IF on THEN "on" ELSE "off"]
    /\ asked' = IF on THEN asked \cup {e} ELSE asked \ {e}
    /\ rewritten' = rewritten \ {e}
    /\ UNCHANGED <<engine, wired, status, tasks, grants, call, report, told, faults, fate, bereft>>

SagaNext ==
    \/ \E c \in Calls :
         \/ \E e \in Employees, event \in {"employee_created", "employee_separated", "updated"},
               st \in {"", "active"} : HandleHRWebhook(c, e, event, st)
         \/ CreateEmployee(c) \/ CreateFails(c) \/ OnboardExtras(c)
         \/ ProvisionAccount(c) \/ ProvisionWorkspace(c) \/ AnswerOnboard(c)
         \/ FetchEmployee(c) \/ UpdateEmployeeStatus(c)
         \/ \E s \in Systems : TakeAway(c, s)
         \/ AnswerOffboard(c)
    \/ \E e \in People : LogIn(e)
    \/ \E e \in Cats, on \in BOOLEAN : SetMedicalHold(e, on)

SagaSpec == SagaInit /\ [][SagaNext]_sagaVars

(* What an offboarding reported as taken away is gone, unless the other    *)
(* system failed, was never reached, or the access was given again, to     *)
(* the same employee or to one whose user name is the same.                *)
LeaversExplained ==
    \A e \in Employees : \A s \in report[e] :
        <<s, Key(s, e)>> \in grants => fate[s][e] \in {"failed", "unwired", "regranted"}

(* What an onboarding reported as given is there, unless nobody was asked, *)
(* or somebody with the same user name, or he himself in the meantime, was *)
(* offboarded.                                                             *)
JoinersExplained ==
    \A e \in Employees : \A s \in told[e] :
        s \notin wired \/ <<s, Key(s, e)>> \in grants \/ <<s, e>> \in bereft

(* A hold that staff or an offboarding placed is in place until staff lift *)
(* it, except that onboarding the cat again, as a repeated webhook does,   *)
(* writes a care schedule without it.                                      *)
HoldsExplained == \A e \in asked : hold[e] = "on" \/ e \in rewritten

(* Who may come in, and which cats are held, after any sequence of webhook *)
(* calls, staff calls and failures of the systems behind them.             *)
AccessExplained == SagaTypes /\ LeaversExplained /\ JoinersExplained /\ HoldsExplained
=============================================================================
