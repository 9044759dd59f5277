----------------------------- MODULE WorkerJobs -----------------------------
(* The jobs of the worker: the events of incidents it delivers, the        *)
(* schedules it and the nightly CronJob charge, and the monthly reports it *)
(* has made.  They share no state, so a behaviour runs one of them, chosen *)
(* at the start.                                                           *)
EXTENDS IncidentAlerts, Integers

CONSTANTS Deposits, Runners, Frequencies,     \* of RecurringDeposits
          MaxTime, MaxMissed, MaxCutOff,
          Months, MaxFigures, MaxFaults, MaxMade   \* of MonthlyReports

ASSUME JobsAssumption ==
  /\ IsFiniteSet(Runners)
  /\ MaxTime \in Nat /\ MaxMissed \in Nat /\ MaxCutOff \in Nat
  /\ 1 \in Months /\ Months \subseteq Nat
  /\ MaxFigures \in Nat /\ MaxFaults \in Nat /\ MaxMade \in Nat

VARIABLES job, now, request, frequency, next, batch, due, dueCount, claims,
          charges, dropped, missed, cutOff,
          db, month, figures, asked, maker, row, files, announced, tale, faults, made

scheduleVars == <<now, request, frequency, next, batch, due, dueCount, claims,
                  charges, dropped, missed, cutOff>>
reportVars == <<db, month, figures, asked, maker, row, files, announced, tale, faults,
                made>>
jobsVars == <<job, vars, scheduleVars, reportVars>>

Schedule == INSTANCE RecurringDeposits WITH
    MaxFailures <- MaxMissed, MaxCrashes <- MaxCutOff,
    lost <- dropped, failures <- missed, crashes <- cutOff
Reports == INSTANCE MonthlyReports

(* The frequencies and the database matter to one job each. *)
JobsInit ==
  /\ job \in {"alerts", "schedules", "reports"}
  /\ Init /\ Schedule!Init /\ Reports!ReportInit
  /\ job # "schedules" =>
        frequency = [d \in Deposits |-> CHOOSE f \in Frequencies : TRUE]
  /\ job # "reports" => db = "memory"

Runs(j) == job = j /\ UNCHANGED job
Alerts(A) == Runs("alerts") /\ A /\ UNCHANGED <<scheduleVars, reportVars>>
Schedules(A) == Runs("schedules") /\ A /\ UNCHANGED <<vars, reportVars>>
MakesReports == Runs("reports") /\ Reports!ReportNext /\ UNCHANGED <<vars, scheduleVars>>

JobsNext == Alerts(Next) \/ Schedules(Schedule!Next) \/ MakesReports

JobsSpec == JobsInit /\ [][JobsNext]_jobsVars

(* The fairness of the first two jobs: see IncidentAlerts and RecurringDeposits. *)
FairJobsSpec ==
  /\ JobsSpec
  /\ WF_jobsVars(Alerts(WorkerStep))
  /\ \A r \in Runners : WF_jobsVars(Schedules(Schedule!RunACHRecurringBatch(r)))

(* What the claims of a schedule account for (RecurringDeposits), and how  *)
(* far the row, the files and the announcements of a monthly report can    *)
(* disagree (MonthlyReports).                                              *)
JobsAccounted ==
  /\ Schedule!TypeOK /\ Schedule!ClaimsAccounted /\ Schedule!ChargesBounded
  /\ Reports!ReportsExplained

(* Every schedule that comes due is moved on by some batch. *)
DueIsClaimed == Schedule!DueIsClaimed
=============================================================================
