---------------------------- MODULE ACHSettlement ----------------------------
(***************************************************************************)
(* The path of a customer's ACH transfer: customer-bll persists a deposit  *)
(* schedule and publishes a request; RabbitMQ keeps it in a durable queue; *)
(* oci-worker takes one request at a time and calls customer-bll, which    *)
(* orders the bank transfer and then asks core-invest-api to change the    *)
(* portfolio balance by reading the row and writing it back.  An error     *)
(* anywhere makes the worker negatively acknowledge the message, which     *)
(* goes back to the queue; a worker that dies leaves its call running.     *)
(* Meanwhile the customer may close the account, which reads and rewrites  *)
(* the same row.                                                           *)
(*                                                                         *)
(* One customer, hence one portfolio row.  The queue, the bank and the     *)
(* database are seen through how the code uses them.                       *)
(***************************************************************************)
EXTENDS Integers, FiniteSets, Sums

CONSTANTS Requests,     \* transfer requests the customer may make
          Calls,        \* concurrent SettleACHTransfer handlers in customer-bll
          Delta,        \* balance change of a request
          OpeningCash,  \* cash balance of the portfolio at the start
          None,         \* no request, no call
          MaxFailures,  \* bound: failed calls, lost answers, failed publishes
          MaxCrashes,   \* bound: worker crashes
          MaxCloses     \* bound: account closures

ASSUME PipelineAssumption ==
  /\ None \notin Requests
  /\ None \notin Calls
  /\ IsFiniteSet(Requests)
  /\ IsFiniteSet(Calls)
  /\ Delta \in [Requests -> Int]
  /\ OpeningCash \in Int
  /\ MaxFailures \in Nat
  /\ MaxCrashes \in Nat
  /\ MaxCloses \in Nat

VARIABLES stage,         \* what InitiateACHDeposit has done for a request
          schedule,      \* requests whose deposit schedule row exists
          messages,      \* where the request's message is
          handling,      \* the request the worker holds
          workerCall,    \* the call the worker waits for
          announced,     \* the worker published ach_settled, not yet acked
          calls,         \* customer-bll handlers in flight
          portfolio,     \* the row: cash balance and status
          closing,       \* CloseAndLiquidateAccount is between read and write
          bankTransfers, \* history: transfers ordered at the bank
          credits,       \* history: balance updates written
          dropped,       \* history: balance updates whose error was ignored
          settledEvents, \* history: ach_settled events published
          failures,      \* history: abnormal ends per request
          crashes,       \* history: worker crashes
          closes         \* history: account closures

requestVars == <<stage, schedule>>
workerVars == <<handling, workerCall, announced>>
ledgerVars == <<bankTransfers, credits, dropped>>
vars == <<requestVars, messages, workerVars, calls, portfolio, closing,
          ledgerVars, settledEvents, failures, crashes, closes>>

Row == [cash: Int, status: {"active", "closed"}]
CallStates == {"free", "bank", "read", "write", "ok", "error"}
FreeCall == [pc |-> "free", request |-> None,
             row |-> [cash |-> 0, status |-> "active"]]

TypeOK ==
  /\ stage \in [Requests -> {"new", "persisted", "accepted", "refused"}]
  /\ schedule \subseteq Requests
  /\ messages \in [Requests -> {"none", "queued", "delivered", "acked"}]
  /\ handling \in Requests \cup {None}
  /\ workerCall \in Calls \cup {None}
  /\ handling = None <=> workerCall = None
  /\ announced \in BOOLEAN
  /\ calls \in [Calls -> [pc: CallStates, request: Requests \cup {None}, row: Row]]
  /\ portfolio \in Row
  /\ closing \in BOOLEAN
  /\ bankTransfers \in [Requests -> Nat]
  /\ credits \in [Requests -> Nat]
  /\ dropped \in [Requests -> Nat]
  /\ settledEvents \in [Requests -> Nat]
  /\ failures \in [Requests -> Nat]
  /\ crashes \in 0 .. MaxCrashes
  /\ closes \in 0 .. MaxCloses

Zero == [r \in Requests |-> 0]
OpeningRow == [cash |-> OpeningCash, status |-> "active"]

Init ==
  /\ stage = [r \in Requests |-> "new"]
  /\ schedule = {}
  /\ messages = [r \in Requests |-> "none"]
  /\ handling = None
  /\ workerCall = None
  /\ announced = FALSE
  /\ calls = [c \in Calls |-> FreeCall]
  /\ portfolio = OpeningRow
  /\ closing = FALSE
  /\ bankTransfers = Zero
  /\ credits = Zero
  /\ dropped = Zero
  /\ settledEvents = Zero
  /\ failures = Zero
  /\ crashes = 0
  /\ closes = 0

(* One more abnormal end for r, while some request has budget left.  The   *)
(* bound is per request.                                                   *)
Failure(r) ==
  /\ failures[r] < MaxFailures
  /\ failures' = [failures EXCEPT ![r] = @ + 1]

-----------------------------------------------------------------------------
(* customer-bll: InitiateACHDeposit.                                       *)

(* The schedule row is created first; an invalid request or an error from  *)
(* core-invest-api ends the call.                                          *)
CreateRecurringDeposit(r) ==
  /\ stage[r] = "new"
  /\ \/ /\ stage' = [stage EXCEPT ![r] = "persisted"]
        /\ schedule' = schedule \cup {r}
     \/ /\ stage' = [stage EXCEPT ![r] = "refused"]
        /\ UNCHANGED schedule
  /\ UNCHANGED <<messages, workerVars, calls, portfolio, closing, ledgerVars,
                 settledEvents, failures, crashes, closes>>

(* The request is published, and only then accepted; a publish error is    *)
(* reported to the customer, the schedule row stays.                       *)
PublishRequest(r) ==
  /\ stage[r] = "persisted"
  /\ \/ /\ stage' = [stage EXCEPT ![r] = "accepted"]
        /\ messages' = [messages EXCEPT ![r] = "queued"]
     \/ /\ stage' = [stage EXCEPT ![r] = "refused"]
        /\ UNCHANGED messages
  /\ UNCHANGED <<schedule, workerVars, calls, portfolio, closing, ledgerVars,
                 settledEvents, failures, crashes, closes>>

-----------------------------------------------------------------------------
(* Mutant: the worker takes a message while it handles another. *)
HandleWhileBusy(r, c) ==
  /\ messages[r] = "queued"
  /\ calls[c].pc = "free"
  /\ messages' = [messages EXCEPT ![r] = "delivered"]
  /\ handling' = r
  /\ workerCall' = c
  /\ calls' = [calls EXCEPT ![c].pc = "bank", ![c].request = r]
  /\ UNCHANGED <<requestVars, announced, portfolio, closing, ledgerVars,
                 settledEvents, failures, crashes, closes>>

(* oci-worker: the router hands one message at a time to the handler, which *)
(* calls SettleACHTransfer.                                                 *)
HandleACHTransferRequested(r, c) ==
  /\ handling = None
  /\ messages[r] = "queued"
  /\ calls[c].pc = "free"
  /\ messages' = [messages EXCEPT ![r] = "delivered"]
  /\ handling' = r
  /\ workerCall' = c
  /\ calls' = [calls EXCEPT ![c].pc = "bank", ![c].request = r]
  /\ UNCHANGED <<requestVars, announced, portfolio, closing, ledgerVars,
                 settledEvents, failures, crashes, closes>>

(* Mutant: an error is acknowledged like a success. *)
NackAcks ==
  /\ handling # None
  /\ ~announced
  /\ calls[workerCall].pc = "error"
  /\ messages' = [messages EXCEPT ![handling] = "acked"]
  /\ handling' = None
  /\ workerCall' = None
  /\ calls' = [calls EXCEPT ![workerCall] = FreeCall]
  /\ UNCHANGED <<requestVars, announced, portfolio, closing, ledgerVars,
                 settledEvents, failures, crashes, closes>>

(* Mutant: the message is rejected without being queued again. *)
NackRejects ==
  /\ handling # None
  /\ ~announced
  /\ calls[workerCall].pc = "error"
  /\ messages' = [messages EXCEPT ![handling] = "delivered"]
  /\ handling' = None
  /\ workerCall' = None
  /\ calls' = [calls EXCEPT ![workerCall] = FreeCall]
  /\ UNCHANGED <<requestVars, announced, portfolio, closing, ledgerVars,
                 settledEvents, failures, crashes, closes>>

(* An error return: the message is not acknowledged and is queued again.   *)
Nack ==
  /\ handling # None
  /\ ~announced
  /\ calls[workerCall].pc = "error"
  /\ messages' = [messages EXCEPT ![handling] = "queued"]
  /\ handling' = None
  /\ workerCall' = None
  /\ calls' = [calls EXCEPT ![workerCall] = FreeCall]
  /\ UNCHANGED <<requestVars, announced, portfolio, closing, ledgerVars,
                 settledEvents, failures, crashes, closes>>

(* Success: the router publishes the settled event the handler returned... *)
PublishSettled ==
  /\ handling # None
  /\ ~announced
  /\ calls[workerCall].pc = "ok"
  /\ announced' = TRUE
  /\ settledEvents' = [settledEvents EXCEPT ![handling] = @ + 1]
  /\ UNCHANGED <<requestVars, messages, handling, workerCall, calls, portfolio,
                 closing, ledgerVars, failures, crashes, closes>>

(* ... and when that publish fails the request goes back to the queue. *)
PublishSettledFails ==
  /\ handling # None
  /\ ~announced
  /\ calls[workerCall].pc = "ok"
  /\ Failure(handling)
  /\ messages' = [messages EXCEPT ![handling] = "queued"]
  /\ handling' = None
  /\ workerCall' = None
  /\ calls' = [calls EXCEPT ![workerCall] = FreeCall]
  /\ UNCHANGED <<requestVars, announced, portfolio, closing, ledgerVars,
                 settledEvents, crashes, closes>>

Ack ==
  /\ announced
  /\ messages' = [messages EXCEPT ![handling] = "acked"]
  /\ handling' = None
  /\ workerCall' = None
  /\ announced' = FALSE
  /\ calls' = [calls EXCEPT ![workerCall] = FreeCall]
  /\ UNCHANGED <<requestVars, portfolio, closing, ledgerVars, settledEvents,
                 failures, crashes, closes>>

(* The worker dies holding a message: the broker requeues it, the handler  *)
(* in customer-bll is left to finish by itself.                            *)
WorkerCrash ==
  /\ crashes < MaxCrashes
  /\ handling # None
  /\ crashes' = crashes + 1
  /\ failures' = [failures EXCEPT ![handling] = @ + 1]
  /\ messages' = [messages EXCEPT ![handling] = "queued"]
  /\ handling' = None
  /\ workerCall' = None
  /\ announced' = FALSE
  /\ UNCHANGED <<requestVars, calls, portfolio, closing, ledgerVars,
                 settledEvents, closes>>

-----------------------------------------------------------------------------
(* customer-bll: SettleACHTransfer, in the order of its calls.             *)

(* Mutant: the bank is skipped and the balance changed all the same. *)
BankTransferSkipped(c) ==
  /\ calls[c].pc = "bank"
  /\ calls' = [calls EXCEPT ![c].pc = "read"]
  /\ UNCHANGED <<requestVars, messages, workerVars, portfolio, closing,
                 ledgerVars, settledEvents, failures, crashes, closes>>

(* Mutant: the bank client repeats an order that was answered. *)
BankTransferTwice(c) ==
  /\ calls[c].pc = "bank"
  /\ calls' = [calls EXCEPT ![c].pc = "read"]
  /\ bankTransfers' = [bankTransfers EXCEPT ![calls[c].request] = @ + 2]
  /\ UNCHANGED <<requestVars, messages, workerVars, portfolio, closing, credits,
                 dropped, settledEvents, failures, crashes, closes>>

(* 1. The bank transfer, without an idempotency key. *)
BankTransfer(c) ==
  /\ calls[c].pc = "bank"
  /\ calls' = [calls EXCEPT ![c].pc = "read"]
  /\ bankTransfers' = [bankTransfers EXCEPT ![calls[c].request] = @ + 1]
  /\ UNCHANGED <<requestVars, messages, workerVars, portfolio, closing, credits,
                 dropped, settledEvents, failures, crashes, closes>>

(* 2. core-invest-api, UpdatePortfolioBalance: read the row... *)
ReadPortfolio(c) ==
  /\ calls[c].pc = "read"
  /\ calls' = [calls EXCEPT ![c].pc = "write", ![c].row = portfolio]
  /\ UNCHANGED <<requestVars, messages, workerVars, portfolio, closing,
                 ledgerVars, settledEvents, failures, crashes, closes>>

(* ... and write the whole row back: the new balance with the status read. *)
(* An error of this statement is ignored and success is reported.          *)
WritePortfolio(c) ==
  LET r == calls[c].request
  IN  /\ calls[c].pc = "write"
      /\ calls' = [calls EXCEPT ![c].pc = "ok"]
      /\ \/ /\ portfolio' = [cash |-> calls[c].row.cash + Delta[r],
                             status |-> calls[c].row.status]
            /\ credits' = [credits EXCEPT ![r] = @ + 1]
            /\ UNCHANGED <<dropped, failures>>
         \/ /\ Failure(r)
            /\ dropped' = [dropped EXCEPT ![r] = @ + 1]
            /\ UNCHANGED <<portfolio, credits>>
      /\ UNCHANGED <<requestVars, messages, workerVars, closing, bankTransfers,
                     settledEvents, crashes, closes>>

(* The bank declines, a service is unreachable or restarts, or an answer   *)
(* is lost after its effect: the caller sees an error.                     *)
CallFails(c) ==
  /\ calls[c].pc \in {"bank", "read", "write", "ok"}
  /\ c = workerCall => ~announced
  /\ Failure(calls[c].request)
  /\ calls' = [calls EXCEPT ![c].pc = "error"]
  /\ UNCHANGED <<requestVars, messages, workerVars, portfolio, closing,
                 ledgerVars, settledEvents, crashes, closes>>

(* A handler whose worker died returns to nobody. *)
OrphanReturns(c) ==
  /\ c # workerCall
  /\ calls[c].pc \in {"ok", "error"}
  /\ calls' = [calls EXCEPT ![c] = FreeCall]
  /\ UNCHANGED <<requestVars, messages, workerVars, portfolio, closing,
                 ledgerVars, settledEvents, failures, crashes, closes>>

-----------------------------------------------------------------------------
(* core-invest-api: CloseAndLiquidateAccount reads the row, pays the       *)
(* holdings out, and writes the row back with zero balances; an error of   *)
(* the write is ignored.                                                   *)
CloseReads ==
  /\ closes < MaxCloses
  /\ ~closing
  /\ closing' = TRUE
  /\ closes' = closes + 1
  /\ UNCHANGED <<requestVars, messages, workerVars, calls, portfolio,
                 ledgerVars, settledEvents, failures, crashes>>

CloseWrites ==
  /\ closing
  /\ closing' = FALSE
  /\ portfolio' \in {portfolio, [cash |-> 0, status |-> "closed"]}
  /\ UNCHANGED <<requestVars, messages, workerVars, calls, ledgerVars,
                 settledEvents, failures, crashes, closes>>

-----------------------------------------------------------------------------
Initiate == \E r \in Requests : CreateRecurringDeposit(r) \/ PublishRequest(r)

Deliver == \E r \in Requests, c \in Calls : HandleACHTransferRequested(r, c)

WorkerStep == Nack \/ PublishSettled \/ Ack

CallStep(c) == BankTransfer(c) \/ ReadPortfolio(c) \/ WritePortfolio(c) \/ OrphanReturns(c)

Fail == (\E c \in Calls : CallFails(c)) \/ PublishSettledFails \/ WorkerCrash

Close == CloseReads \/ CloseWrites

Next == Initiate \/ Deliver \/ WorkerStep \/ (\E c \in Calls : CallStep(c)) \/ Fail \/ Close

Spec == Init /\ [][Next]_vars

(* The router keeps taking messages, handlers run to their end; failures,  *)
(* crashes and closures happen or not, and are finitely many.              *)
Fairness ==
  /\ \A r \in Requests : SF_vars(\E c \in Calls : HandleACHTransferRequested(r, c))
  /\ WF_vars(WorkerStep)
  /\ \A c \in Calls : WF_vars(CallStep(c))

FairSpec == Spec /\ Fairness

-----------------------------------------------------------------------------
(* InitiateACHDeposit answered "pending_settlement": the request is in the *)
(* queue, in the worker's hands, or was announced as settled, whatever     *)
(* failed or crashed since.  A refused request is never charged.           *)
AcceptedNotLost ==
  \A r \in Requests :
    IF stage[r] = "accepted"
      THEN \/ messages[r] = "queued"
           \/ messages[r] = "delivered" /\ handling = r
           \/ messages[r] = "acked" /\ settledEvents[r] > 0
      ELSE messages[r] = "none" /\ bankTransfers[r] = 0

(* The order of SettleACHTransfer: the portfolio is never changed more     *)
(* often than the bank was asked to move the money, whatever calls of the  *)
(* same request overlap.                                                   *)
CreditsBacked == \A r \in Requests : credits[r] <= bankTransfers[r]

(* Without an idempotency key a retry orders the transfer again; but every *)
(* transfer beyond the first is the price of an abnormal end: no request   *)
(* is charged twice when nothing failed.                                   *)
ChargesExplained == \A r \in Requests : bankTransfers[r] <= 1 + failures[r]

(* ach_settled is published only after the bank was asked and the balance  *)
(* update returned; each event stands for a different attempt, and the     *)
(* only other way a balance update returns is UpdatePortfolioBalance's     *)
(* ignored database error.                                                 *)
SettledBacked ==
  \A r \in Requests : settledEvents[r] <= credits[r] + dropped[r]

(* Both: no effect of a settlement runs ahead of the step before it.       *)
EffectsBacked == CreditsBacked /\ SettledBacked

(* UpdatePortfolioBalance reads and rewrites the row without a lock; while *)
(* the worker does not crash and the account is not closed, the one        *)
(* message the worker handles at a time is what keeps updates from being   *)
(* lost: the cash balance is the opening balance plus every update written.*)
BalanceIsSumOfCredits ==
  crashes = 0 /\ closes = 0 =>
    portfolio.cash = OpeningCash + SumOver([r \in Requests |-> credits[r] * Delta[r]], Requests)

(* Every accepted transfer is announced as settled in the end: requeueing  *)
(* without a limit outlasts any finite number of failures and crashes.     *)
AcceptedSettles ==
  \A r \in Requests : (stage[r] = "accepted") ~> (messages[r] = "acked")
=============================================================================
