-------------------------- MODULE RecurringDeposits --------------------------
(***************************************************************************)
(* Deposit schedules and the batch that charges them.  A schedule row holds *)
(* a frequency and the next charge date.  A runner (the worker's hourly    *)
(* ticker, and the one-shot CronJob that runs the same code) asks          *)
(* customer-bll to claim the due schedules: it lists the rows, moves each  *)
(* due row's date forward with a separate call whose error it ignores, and *)
(* returns the claimed ones; the runner then publishes a transfer request  *)
(* for each.  Nothing excludes two runners.                                *)
(*                                                                         *)
(* Time is in weeks.  The transfer a new deposit causes at once is the     *)
(* business of ACHSettlement; only charges of the schedule are counted.    *)
(***************************************************************************)
EXTENDS Integers, FiniteSets

CONSTANTS Deposits,
          Runners,      \* processes that run RunACHRecurringBatch
          Frequencies,  \* frequencies customers ask for
          MaxTime,      \* bound: weeks
          MaxFailures,  \* bound: per deposit, failed date updates and publishes
          MaxCrashes    \* bound: batches cut off before their end

VARIABLES now,
          request,      \* what became of the customer's request, see Active
          frequency,    \* of the schedule row
          next,         \* next_charge_at of the schedule row
          batch,        \* per runner: phase, the time it took, rows to claim
          due,          \* per runner: claimed deposits not yet published
          dueCount,     \* history: times a schedule became due
          claims,       \* history: times a schedule was claimed
          charges,      \* history: transfer requests published
          lost,         \* history: claims that led to no request
          failures,     \* history: date updates that failed
          crashes       \* history: batches cut off

scheduleVars == <<request, frequency, next>>
batchVars == <<batch, due>>
chargeVars == <<claims, charges, lost>>
vars == <<now, scheduleVars, batchVars, dueCount, chargeVars, failures, crashes>>

(* The CHECK constraint of core_invest.recurring_deposits. *)
SchemaFrequencies == {"weekly", "biweekly", "monthly"}

(* AddDate of CreateRecurringDeposit and ClaimDueRecurringDeposits. *)
Period(f) ==
  CASE f = "weekly" -> 1
    [] f = "biweekly" -> 2
    [] OTHER -> 4

TypeOK ==
  /\ now \in 0 .. MaxTime
  /\ request \in [Deposits -> {"none", "refused", "accepted", "unpublished", "erased"}]
  /\ frequency \in [Deposits -> Frequencies]
  /\ next \in [Deposits -> Nat]
  /\ batch \in [Runners -> [phase: {"idle", "claiming", "publishing"},
                            time: 0 .. MaxTime, rows: SUBSET Deposits]]
  /\ \A r \in Runners : batch[r].phase # "claiming" => batch[r].rows = {}
  /\ due \in [Runners -> SUBSET Deposits]
  /\ \A r \in Runners : due[r] \cap batch[r].rows = {}
  /\ dueCount \in [Deposits -> Nat]
  /\ claims \in [Deposits -> Nat]
  /\ charges \in [Deposits -> Nat]
  /\ lost \in [Deposits -> Nat]
  /\ failures \in [Deposits -> Nat]
  /\ crashes \in 0 .. MaxCrashes

Zero == [d \in Deposits |-> 0]
Idle == [phase |-> "idle", time |-> 0, rows |-> {}]

Init ==
  /\ now = 0
  /\ request = [d \in Deposits |-> "none"]
  /\ frequency \in [Deposits -> Frequencies]
  /\ next = Zero
  /\ batch = [r \in Runners |-> Idle]
  /\ due = [r \in Runners |-> {}]
  /\ dueCount = Zero
  /\ claims = Zero
  /\ charges = Zero
  /\ lost = Zero
  /\ failures = Zero
  /\ crashes = 0

(* A schedule row exists, and the batch finds it.  It does so also when    *)
(* the customer was told that the request failed ("unpublished").          *)
Active(d) == request[d] \in {"accepted", "unpublished"}
Due(d) == Active(d) /\ next[d] <= now

(* Of the deposits in S, one more each. *)
Count(f, S) == [d \in Deposits |-> IF d \in S THEN f[d] + 1 ELSE f[d]]

-----------------------------------------------------------------------------
(* A customer's deposit becomes a schedule row, whatever its frequency, if *)
(* the database takes it.  When the event that follows cannot be published *)
(* the customer gets an error, and the row stays.                          *)
CreateRecurringDeposit(d) ==
  /\ request[d] = "none"
  /\ IF frequency[d] \in SchemaFrequencies
       THEN /\ \E outcome \in {"accepted", "unpublished"} :
                 request' = [request EXCEPT ![d] = outcome]
            /\ next' = [next EXCEPT ![d] = now + Period(frequency[d])]
       ELSE /\ request' = [request EXCEPT ![d] = "refused"]
            /\ UNCHANGED next
  /\ UNCHANGED <<now, frequency, batchVars, dueCount, chargeVars, failures, crashes>>

(* GDPR erasure deletes the customer's rows, whatever a batch has listed. *)
ExecuteGDPRErasure(d) ==
  /\ Active(d)
  /\ request' = [request EXCEPT ![d] = "erased"]
  /\ UNCHANGED <<now, frequency, next, batchVars, dueCount, chargeVars, failures, crashes>>

Tick ==
  /\ now < MaxTime
  /\ now' = now + 1
  /\ dueCount' = Count(dueCount, {d \in Deposits : Active(d) /\ next[d] = now + 1})
  /\ UNCHANGED <<scheduleVars, batchVars, chargeVars, failures, crashes>>

-----------------------------------------------------------------------------
(* Mutant: only the schedules that became due in the current period. *)
ListDueToday(r) ==
  /\ batch[r].phase = "idle"
  /\ batch' = [batch EXCEPT ![r] = [phase |-> "claiming", time |-> now,
                                    rows |-> {d \in Deposits : Active(d) /\ next[d] = now}]]
  /\ UNCHANGED <<now, scheduleVars, due, dueCount, chargeVars, failures, crashes>>

(* ClaimDueRecurringDeposits: the active rows whose date has come. *)
ListDue(r) ==
  /\ batch[r].phase = "idle"
  /\ batch' = [batch EXCEPT ![r] = [phase |-> "claiming", time |-> now,
                                    rows |-> {d \in Deposits : Due(d)}]]
  /\ UNCHANGED <<now, scheduleVars, due, dueCount, chargeVars, failures, crashes>>

(* One due row is moved forward from the batch's own time and claimed.  A  *)
(* batch that stalled may move the date back into the past.  When the      *)
(* update fails, or finds no row, the deposit is claimed all the same.     *)
Advance(r, d) ==
  LET date == batch[r].time + Period(frequency[d])
  IN  /\ d \in batch[r].rows
      /\ batch' = [batch EXCEPT ![r].rows = @ \ {d}]
      /\ due' = [due EXCEPT ![r] = @ \cup {d}]
      /\ claims' = Count(claims, {d})
      /\ \/ /\ Active(d)
            /\ next' = [next EXCEPT ![d] = date]
            /\ dueCount' = Count(dueCount, IF date <= now THEN {d} ELSE {})
            /\ UNCHANGED failures
         \/ ~Active(d) /\ UNCHANGED <<next, dueCount, failures>>
         \/ /\ Active(d)
            /\ failures[d] < MaxFailures
            /\ failures' = Count(failures, {d})
            /\ UNCHANGED <<next, dueCount>>
      /\ UNCHANGED <<now, request, frequency, charges, lost, crashes>>

ClaimReturns(r) ==
  /\ batch[r].phase = "claiming"
  /\ batch[r].rows = {}
  /\ batch' = [batch EXCEPT ![r].phase = "publishing"]
  /\ UNCHANGED <<now, scheduleVars, due, dueCount, chargeVars, failures, crashes>>

(* Mutant: a claim whose publish failed is published again, and counted lost. *)
PublishTwice(r, d) ==
  /\ batch[r].phase = "publishing"
  /\ d \in due[r]
  /\ due' = [due EXCEPT ![r] = @ \ {d}]
  /\ charges' = Count(charges, {d})
  /\ lost' = Count(lost, {d})
  /\ UNCHANGED <<now, scheduleVars, batch, dueCount, claims, failures, crashes>>

(* RunACHRecurringBatch publishes a request per claimed deposit; an error  *)
(* is logged and the claim is gone.                                        *)
Publish(r, d) ==
  /\ batch[r].phase = "publishing"
  /\ d \in due[r]
  /\ due' = [due EXCEPT ![r] = @ \ {d}]
  /\ \/ charges' = Count(charges, {d}) /\ UNCHANGED lost
     \/ lost[d] < MaxFailures /\ lost' = Count(lost, {d}) /\ UNCHANGED charges
  /\ UNCHANGED <<now, scheduleVars, batch, dueCount, claims, failures, crashes>>

BatchEnds(r) ==
  /\ batch[r].phase = "publishing"
  /\ due[r] = {}
  /\ batch' = [batch EXCEPT ![r] = Idle]
  /\ UNCHANGED <<now, scheduleVars, due, dueCount, chargeVars, failures, crashes>>

(* The runner dies, or the answer to its claim is lost: what was claimed   *)
(* is never published.                                                     *)
BatchCutOff(r) ==
  /\ crashes < MaxCrashes
  /\ crashes' = crashes + 1
  /\ batch[r].phase # "idle"
  /\ lost' = Count(lost, due[r])
  /\ batch' = [batch EXCEPT ![r] = Idle]
  /\ due' = [due EXCEPT ![r] = {}]
  /\ UNCHANGED <<now, scheduleVars, dueCount, claims, charges, failures>>

-----------------------------------------------------------------------------
RunACHRecurringBatch(r) ==
  \/ ListDue(r) \/ ClaimReturns(r) \/ BatchEnds(r)
  \/ \E d \in Deposits : Advance(r, d) \/ Publish(r, d)

Next ==
  \/ Tick
  \/ \E d \in Deposits : CreateRecurringDeposit(d) \/ ExecuteGDPRErasure(d)
  \/ \E r \in Runners : RunACHRecurringBatch(r) \/ BatchCutOff(r)

Spec == Init /\ [][Next]_vars

(* The ticker fires every hour and a batch runs to its end. *)
FairSpec == Spec /\ \A r \in Runners : WF_vars(RunACHRecurringBatch(r))

-----------------------------------------------------------------------------
(* A claim is worth one transfer request: it is published, waiting to be   *)
(* published by exactly one runner, or was dropped by a failed publish or  *)
(* a batch cut off between claiming and publishing -- the schedule has     *)
(* moved on and nothing charges that date again.                           *)
ClaimsAccounted ==
  \A d \in Deposits :
    claims[d] = charges[d] + lost[d] + Cardinality({r \in Runners : d \in due[r]})

(* Listing and moving the date are separate calls, so two runners may both *)
(* charge a date; but each of them does so at most once, unless moving the *)
(* date failed.  In particular an erased schedule is charged no more than  *)
(* by the batches that had listed it.                                      *)
ChargesBounded ==
  \A d \in Deposits : charges[d] <= Cardinality(Runners) * dueCount[d] + failures[d]

(* Every schedule that comes due is moved on by some batch. *)
DueIsClaimed == \A d \in Deposits : Due(d) ~> ~Due(d)

(* customerbff: the frequency of a deposit is "one_time", "weekly",        *)
(* "biweekly" or "monthly" -- no valid request is refused.                 *)
FrequenciesAccepted == \A d \in Deposits : request[d] # "refused"
=============================================================================
