------------------------ MODULE ACHSettlementProofs -------------------------
(***************************************************************************)
(* Theorems about ACHSettlement for every set of requests, any number of   *)
(* concurrent handlers, failures, crashes and closures.                    *)
(***************************************************************************)
EXTENDS ACHSettlement, SumTheorems, FiniteSetTheorems, TLAPS

Call == [pc: CallStates, request: Requests \cup {None}, row: Row]

(* What AcceptedNotLost needs to be inductive: the worker holds an         *)
(* accepted, delivered request together with the call made for it; it has  *)
(* announced only what was settled; calls are of accepted requests.        *)
Holding ==
  /\ handling # None => /\ messages[handling] = "delivered"
                        /\ stage[handling] = "accepted"
                        /\ calls[workerCall].pc # "free"
                        /\ calls[workerCall].request = handling
  /\ announced => /\ handling # None
                  /\ settledEvents[handling] > 0
                  /\ calls[workerCall].pc = "ok"
  /\ \A c \in Calls :
       calls[c].pc # "free" => /\ calls[c].request \in Requests
                               /\ stage[calls[c].request] = "accepted"

IInv == TypeOK /\ Holding /\ AcceptedNotLost

(* The steps that end a call leave a free one behind. *)
LEMMA FreeCallType == FreeCall \in Call
  BY DEF FreeCall, Call, CallStates, Row

(* One more of anything counted per request. *)
LEMMA Bumped ==
  ASSUME NEW f \in [Requests -> Nat], NEW r \in Requests
  PROVE  [f EXCEPT ![r] = @ + 1] \in [Requests -> Nat]
  OBVIOUS

(* The initial states satisfy the inductive invariant. *)
LEMMA InitEstablishes == Init => IInv
  <1> SUFFICES ASSUME Init PROVE IInv
    OBVIOUS
  <1>1. calls \in [Calls -> Call]
    BY FreeCallType DEF Init
  <1>2. TypeOK
    <2>1. Zero \in [Requests -> Nat]
      BY DEF Zero
    <2>2. portfolio \in Row
      BY PipelineAssumption DEF Init, OpeningRow, Row
    <2>3. 0 \in 0 .. MaxCrashes /\ 0 \in 0 .. MaxCloses
      BY PipelineAssumption
    <2>4. QED
      BY <1>1, <2>1, <2>2, <2>3 DEF Init, TypeOK, Call
  <1>3. Holding
    BY DEF Init, Holding, FreeCall
  <1>4. AcceptedNotLost
    BY DEF Init, AcceptedNotLost, Zero
  <1>5. QED
    BY <1>2, <1>3, <1>4 DEF IInv

(* One lemma per action. *)
LEMMA CreateRecurringDepositPreserves ==
  ASSUME IInv, NEW r \in Requests, CreateRecurringDeposit(r)
  PROVE  IInv'
  <1>1. TypeOK'
    <2>1. stage' \in [Requests -> {"new", "persisted", "accepted", "refused"}]
      BY DEF CreateRecurringDeposit, IInv, TypeOK, requestVars, workerVars, ledgerVars, Holding
    <2>2. schedule' \in SUBSET Requests
      BY DEF CreateRecurringDeposit, IInv, TypeOK, requestVars, workerVars, ledgerVars, Holding
    <2>3. QED
      BY <2>1, <2>2, PipelineAssumption DEF CreateRecurringDeposit, IInv, TypeOK, Call, requestVars, workerVars, ledgerVars
  <1>2. Holding'
    BY PipelineAssumption DEF CreateRecurringDeposit, IInv, TypeOK, Holding, AcceptedNotLost, FreeCall, requestVars, workerVars, ledgerVars
  <1>3. AcceptedNotLost'
    BY PipelineAssumption DEF CreateRecurringDeposit, IInv, TypeOK, Holding, AcceptedNotLost, requestVars, workerVars, ledgerVars
  <1>4. QED
    BY <1>1, <1>2, <1>3 DEF IInv

(* PublishRequest keeps the inductive invariant. *)
LEMMA PublishRequestPreserves ==
  ASSUME IInv, NEW r \in Requests, PublishRequest(r)
  PROVE  IInv'
  <1>1. TypeOK'
    <2>1. stage' \in [Requests -> {"new", "persisted", "accepted", "refused"}]
      BY DEF PublishRequest, IInv, TypeOK, requestVars, workerVars, ledgerVars, Holding
    <2>2. messages' \in [Requests -> {"none", "queued", "delivered", "acked"}]
      BY DEF PublishRequest, IInv, TypeOK, requestVars, workerVars, ledgerVars, Holding
    <2>3. QED
      BY <2>1, <2>2, PipelineAssumption DEF PublishRequest, IInv, TypeOK, Call, requestVars, workerVars, ledgerVars
  <1>2. Holding'
    BY PipelineAssumption DEF PublishRequest, IInv, TypeOK, Holding, AcceptedNotLost, FreeCall, requestVars, workerVars, ledgerVars
  <1>3. AcceptedNotLost'
    BY PipelineAssumption DEF PublishRequest, IInv, TypeOK, Holding, AcceptedNotLost, requestVars, workerVars, ledgerVars
  <1>4. QED
    BY <1>1, <1>2, <1>3 DEF IInv

(* HandleACHTransferRequested keeps the inductive invariant. *)
LEMMA HandleACHTransferRequestedPreserves ==
  ASSUME IInv, NEW r \in Requests, NEW c \in Calls, HandleACHTransferRequested(r, c)
  PROVE  IInv'
  <1>1. TypeOK'
    <2>1. messages' \in [Requests -> {"none", "queued", "delivered", "acked"}]
      BY DEF HandleACHTransferRequested, IInv, TypeOK, requestVars, workerVars, ledgerVars, Holding
    <2>2. calls' \in [Calls -> Call]
      <3>1. calls' = [calls EXCEPT ![c] = [calls[c] EXCEPT !.pc = "bank", !.request = r]]
        BY DEF HandleACHTransferRequested, IInv, TypeOK
      <3>2. [calls[c] EXCEPT !.pc = "bank", !.request = r] \in Call
        BY DEF IInv, TypeOK, Call, CallStates
      <3>3. QED
        BY <3>1, <3>2 DEF IInv, TypeOK, Call
    <2>3. QED
      BY <2>1, <2>2, PipelineAssumption DEF HandleACHTransferRequested, IInv, TypeOK, Call, requestVars, workerVars, ledgerVars
  <1>2. Holding'
    BY PipelineAssumption DEF HandleACHTransferRequested, IInv, TypeOK, Holding, AcceptedNotLost, FreeCall, requestVars, workerVars, ledgerVars
  <1>3. AcceptedNotLost'
    BY PipelineAssumption DEF HandleACHTransferRequested, IInv, TypeOK, Holding, AcceptedNotLost, requestVars, workerVars, ledgerVars
  <1>4. QED
    BY <1>1, <1>2, <1>3 DEF IInv

(* Nack keeps the inductive invariant. *)
LEMMA NackPreserves ==
  ASSUME IInv, Nack
  PROVE  IInv'
  <1>1. TypeOK'
    <2>1. messages' \in [Requests -> {"none", "queued", "delivered", "acked"}]
      BY DEF Nack, IInv, TypeOK, requestVars, workerVars, ledgerVars, Holding
    <2>2. calls' \in [Calls -> Call]
      BY FreeCallType, PipelineAssumption DEF Nack, IInv, TypeOK, Call, CallStates, Row, requestVars, workerVars, ledgerVars, Holding
    <2>3. QED
      BY <2>1, <2>2, PipelineAssumption DEF Nack, IInv, TypeOK, Call, requestVars, workerVars, ledgerVars
  <1>2. Holding'
    BY PipelineAssumption DEF Nack, IInv, TypeOK, Holding, AcceptedNotLost, FreeCall, requestVars, workerVars, ledgerVars
  <1>3. AcceptedNotLost'
    BY PipelineAssumption DEF Nack, IInv, TypeOK, Holding, AcceptedNotLost, requestVars, workerVars, ledgerVars
  <1>4. QED
    BY <1>1, <1>2, <1>3 DEF IInv

(* PublishSettled keeps the inductive invariant. *)
LEMMA PublishSettledPreserves ==
  ASSUME IInv, PublishSettled
  PROVE  IInv'
  <1>1. TypeOK'
    <2>1. settledEvents' \in [Requests -> Nat]
      BY DEF PublishSettled, IInv, TypeOK, requestVars, workerVars, ledgerVars, Holding
    <2>2. QED
      BY <2>1, PipelineAssumption DEF PublishSettled, IInv, TypeOK, Call, requestVars, workerVars, ledgerVars
  <1>2. Holding'
    BY PipelineAssumption DEF PublishSettled, IInv, TypeOK, Holding, AcceptedNotLost, FreeCall, requestVars, workerVars, ledgerVars
  <1>3. AcceptedNotLost'
    BY PipelineAssumption DEF PublishSettled, IInv, TypeOK, Holding, AcceptedNotLost, requestVars, workerVars, ledgerVars
  <1>4. QED
    BY <1>1, <1>2, <1>3 DEF IInv

(* PublishSettledFails keeps the inductive invariant. *)
LEMMA PublishSettledFailsPreserves ==
  ASSUME IInv, PublishSettledFails
  PROVE  IInv'
  <1>1. TypeOK'
    <2>1. messages' \in [Requests -> {"none", "queued", "delivered", "acked"}]
      BY DEF PublishSettledFails, Failure, IInv, TypeOK, requestVars, workerVars, ledgerVars, Holding
    <2>2. calls' \in [Calls -> Call]
      BY FreeCallType, PipelineAssumption DEF PublishSettledFails, Failure, IInv, TypeOK, Call, CallStates, Row, requestVars, workerVars, ledgerVars, Holding
    <2>3. failures' \in [Requests -> Nat]
      BY DEF PublishSettledFails, Failure, IInv, TypeOK, requestVars, workerVars, ledgerVars, Holding
    <2>4. QED
      BY <2>1, <2>2, <2>3, PipelineAssumption DEF PublishSettledFails, Failure, IInv, TypeOK, Call, requestVars, workerVars, ledgerVars
  <1>2. Holding'
    BY PipelineAssumption DEF PublishSettledFails, Failure, IInv, TypeOK, Holding, AcceptedNotLost, FreeCall, requestVars, workerVars, ledgerVars
  <1>3. AcceptedNotLost'
    BY PipelineAssumption DEF PublishSettledFails, Failure, IInv, TypeOK, Holding, AcceptedNotLost, requestVars, workerVars, ledgerVars
  <1>4. QED
    BY <1>1, <1>2, <1>3 DEF IInv

(* Ack keeps the inductive invariant. *)
LEMMA AckPreserves ==
  ASSUME IInv, Ack
  PROVE  IInv'
  <1>1. TypeOK'
    <2>1. messages' \in [Requests -> {"none", "queued", "delivered", "acked"}]
      BY DEF Ack, IInv, TypeOK, requestVars, workerVars, ledgerVars, Holding
    <2>2. calls' \in [Calls -> Call]
      BY FreeCallType, PipelineAssumption DEF Ack, IInv, TypeOK, Call, CallStates, Row, requestVars, workerVars, ledgerVars, Holding
    <2>3. QED
      BY <2>1, <2>2, PipelineAssumption DEF Ack, IInv, TypeOK, Call, requestVars, workerVars, ledgerVars
  <1>2. Holding'
    BY PipelineAssumption DEF Ack, IInv, TypeOK, Holding, AcceptedNotLost, FreeCall, requestVars, workerVars, ledgerVars
  <1>3. AcceptedNotLost'
    BY PipelineAssumption DEF Ack, IInv, TypeOK, Holding, AcceptedNotLost, requestVars, workerVars, ledgerVars
  <1>4. QED
    BY <1>1, <1>2, <1>3 DEF IInv

(* WorkerCrash keeps the inductive invariant. *)
LEMMA WorkerCrashPreserves ==
  ASSUME IInv, WorkerCrash
  PROVE  IInv'
  <1>1. TypeOK'
    <2>1. messages' \in [Requests -> {"none", "queued", "delivered", "acked"}]
      BY DEF WorkerCrash, IInv, TypeOK, requestVars, workerVars, ledgerVars, Holding
    <2>2. failures' \in [Requests -> Nat]
      BY DEF WorkerCrash, IInv, TypeOK, requestVars, workerVars, ledgerVars, Holding
    <2>3. crashes' \in 0 .. MaxCrashes
      BY PipelineAssumption DEF WorkerCrash, IInv, TypeOK, requestVars, workerVars, ledgerVars, Holding
    <2>4. QED
      BY <2>1, <2>2, <2>3, PipelineAssumption DEF WorkerCrash, IInv, TypeOK, Call, requestVars, workerVars, ledgerVars
  <1>2. Holding'
    BY PipelineAssumption DEF WorkerCrash, IInv, TypeOK, Holding, AcceptedNotLost, FreeCall, requestVars, workerVars, ledgerVars
  <1>3. AcceptedNotLost'
    BY PipelineAssumption DEF WorkerCrash, IInv, TypeOK, Holding, AcceptedNotLost, requestVars, workerVars, ledgerVars
  <1>4. QED
    BY <1>1, <1>2, <1>3 DEF IInv

(* BankTransfer keeps the inductive invariant. *)
LEMMA BankTransferPreserves ==
  ASSUME IInv, NEW c \in Calls, BankTransfer(c)
  PROVE  IInv'
  <1>1. TypeOK'
    <2>1. calls' \in [Calls -> Call]
      BY FreeCallType, PipelineAssumption DEF BankTransfer, IInv, TypeOK, Call, CallStates, Row, requestVars, workerVars, ledgerVars, Holding
    <2>2. bankTransfers' \in [Requests -> Nat]
      BY DEF BankTransfer, IInv, TypeOK, requestVars, workerVars, ledgerVars, Holding
    <2>3. QED
      BY <2>1, <2>2, PipelineAssumption DEF BankTransfer, IInv, TypeOK, Call, requestVars, workerVars, ledgerVars
  <1>2. Holding'
    BY PipelineAssumption DEF BankTransfer, IInv, TypeOK, Holding, AcceptedNotLost, FreeCall, requestVars, workerVars, ledgerVars
  <1>3. AcceptedNotLost'
    BY PipelineAssumption DEF BankTransfer, IInv, TypeOK, Holding, AcceptedNotLost, requestVars, workerVars, ledgerVars
  <1>4. QED
    BY <1>1, <1>2, <1>3 DEF IInv

(* ReadPortfolio keeps the inductive invariant. *)
LEMMA ReadPortfolioPreserves ==
  ASSUME IInv, NEW c \in Calls, ReadPortfolio(c)
  PROVE  IInv'
  <1>1. TypeOK'
    <2>1. calls' \in [Calls -> Call]
      <3>1. calls' = [calls EXCEPT ![c] = [calls[c] EXCEPT !.pc = "write", !.row = portfolio]]
        BY DEF ReadPortfolio, IInv, TypeOK
      <3>2. [calls[c] EXCEPT !.pc = "write", !.row = portfolio] \in Call
        BY DEF IInv, TypeOK, Call, CallStates
      <3>3. QED
        BY <3>1, <3>2 DEF IInv, TypeOK, Call
    <2>2. QED
      BY <2>1, PipelineAssumption DEF ReadPortfolio, IInv, TypeOK, Call, requestVars, workerVars, ledgerVars
  <1>2. Holding'
    BY PipelineAssumption DEF ReadPortfolio, IInv, TypeOK, Holding, AcceptedNotLost, FreeCall, requestVars, workerVars, ledgerVars
  <1>3. AcceptedNotLost'
    BY PipelineAssumption DEF ReadPortfolio, IInv, TypeOK, Holding, AcceptedNotLost, requestVars, workerVars, ledgerVars
  <1>4. QED
    BY <1>1, <1>2, <1>3 DEF IInv

(* WritePortfolio keeps the inductive invariant. *)
LEMMA WritePortfolioPreserves ==
  ASSUME IInv, NEW c \in Calls, WritePortfolio(c)
  PROVE  IInv'
  <1>1. TypeOK'
    <2>1. calls' \in [Calls -> Call]
      BY FreeCallType, PipelineAssumption DEF WritePortfolio, Failure, IInv, TypeOK, Call, CallStates, Row, requestVars, workerVars, ledgerVars, Holding
    <2>2. portfolio' \in Row
      BY PipelineAssumption DEF WritePortfolio, Failure, IInv, TypeOK, Row, CallStates, requestVars, workerVars, ledgerVars, Holding
    <2>3. credits' \in [Requests -> Nat]
      <3>1. credits' = credits \/ credits' = [credits EXCEPT ![calls[c].request] = @ + 1]
        BY DEF WritePortfolio
      <3>2. calls[c].request \in Requests
        BY DEF WritePortfolio, IInv, Holding
      <3>3. QED
        BY <3>1, <3>2, Bumped DEF IInv, TypeOK
    <2>4. dropped' \in [Requests -> Nat]
      <3>1. dropped' = dropped \/ dropped' = [dropped EXCEPT ![calls[c].request] = @ + 1]
        BY DEF WritePortfolio
      <3>2. calls[c].request \in Requests
        BY DEF WritePortfolio, IInv, Holding
      <3>3. QED
        BY <3>1, <3>2, Bumped DEF IInv, TypeOK
    <2>5. failures' \in [Requests -> Nat]
      <3>1. failures' = failures \/ failures' = [failures EXCEPT ![calls[c].request] = @ + 1]
        BY DEF WritePortfolio, Failure
      <3>2. calls[c].request \in Requests
        BY DEF WritePortfolio, IInv, Holding
      <3>3. QED
        BY <3>1, <3>2, Bumped DEF IInv, TypeOK
    <2>6. QED
      BY <2>1, <2>2, <2>3, <2>4, <2>5, PipelineAssumption DEF WritePortfolio, Failure, IInv, TypeOK, Call, requestVars, workerVars, ledgerVars
  <1>2. Holding'
    BY PipelineAssumption DEF WritePortfolio, Failure, IInv, TypeOK, Holding, AcceptedNotLost, FreeCall, requestVars, workerVars, ledgerVars
  <1>3. AcceptedNotLost'
    BY PipelineAssumption DEF WritePortfolio, Failure, IInv, TypeOK, Holding, AcceptedNotLost, requestVars, workerVars, ledgerVars
  <1>4. QED
    BY <1>1, <1>2, <1>3 DEF IInv

(* CallFails keeps the inductive invariant. *)
LEMMA CallFailsPreserves ==
  ASSUME IInv, NEW c \in Calls, CallFails(c)
  PROVE  IInv'
  <1>1. TypeOK'
    <2>1. calls' \in [Calls -> Call]
      BY FreeCallType, PipelineAssumption DEF CallFails, Failure, IInv, TypeOK, Call, CallStates, Row, requestVars, workerVars, ledgerVars, Holding
    <2>2. failures' \in [Requests -> Nat]
      <3>1. failures' = [failures EXCEPT ![calls[c].request] = @ + 1]
        BY DEF CallFails, Failure
      <3>2. calls[c].request \in Requests
        BY DEF CallFails, IInv, Holding
      <3>3. QED
        BY <3>1, <3>2, Bumped DEF IInv, TypeOK
    <2>3. QED
      BY <2>1, <2>2, PipelineAssumption DEF CallFails, Failure, IInv, TypeOK, Call, requestVars, workerVars, ledgerVars
  <1>2. Holding'
    BY PipelineAssumption DEF CallFails, Failure, IInv, TypeOK, Holding, AcceptedNotLost, FreeCall, requestVars, workerVars, ledgerVars
  <1>3. AcceptedNotLost'
    BY PipelineAssumption DEF CallFails, Failure, IInv, TypeOK, Holding, AcceptedNotLost, requestVars, workerVars, ledgerVars
  <1>4. QED
    BY <1>1, <1>2, <1>3 DEF IInv

(* OrphanReturns keeps the inductive invariant. *)
LEMMA OrphanReturnsPreserves ==
  ASSUME IInv, NEW c \in Calls, OrphanReturns(c)
  PROVE  IInv'
  <1>1. TypeOK'
    <2>1. calls' \in [Calls -> Call]
      BY FreeCallType, PipelineAssumption DEF OrphanReturns, IInv, TypeOK, Call, CallStates, Row, requestVars, workerVars, ledgerVars, Holding
    <2>2. QED
      BY <2>1, PipelineAssumption DEF OrphanReturns, IInv, TypeOK, Call, requestVars, workerVars, ledgerVars
  <1>2. Holding'
    BY PipelineAssumption DEF OrphanReturns, IInv, TypeOK, Holding, AcceptedNotLost, FreeCall, requestVars, workerVars, ledgerVars
  <1>3. AcceptedNotLost'
    BY PipelineAssumption DEF OrphanReturns, IInv, TypeOK, Holding, AcceptedNotLost, requestVars, workerVars, ledgerVars
  <1>4. QED
    BY <1>1, <1>2, <1>3 DEF IInv

(* CloseReads keeps the inductive invariant. *)
LEMMA CloseReadsPreserves ==
  ASSUME IInv, CloseReads
  PROVE  IInv'
  <1>1. TypeOK'
    <2>1. closes' \in 0 .. MaxCloses
      BY PipelineAssumption DEF CloseReads, IInv, TypeOK, requestVars, workerVars, ledgerVars, Holding
    <2>2. QED
      BY <2>1, PipelineAssumption DEF CloseReads, IInv, TypeOK, Call, requestVars, workerVars, ledgerVars
  <1>2. Holding'
    BY PipelineAssumption DEF CloseReads, IInv, TypeOK, Holding, AcceptedNotLost, FreeCall, requestVars, workerVars, ledgerVars
  <1>3. AcceptedNotLost'
    BY PipelineAssumption DEF CloseReads, IInv, TypeOK, Holding, AcceptedNotLost, requestVars, workerVars, ledgerVars
  <1>4. QED
    BY <1>1, <1>2, <1>3 DEF IInv

(* CloseWrites keeps the inductive invariant. *)
LEMMA CloseWritesPreserves ==
  ASSUME IInv, CloseWrites
  PROVE  IInv'
  <1>1. TypeOK'
    <2>1. portfolio' \in Row
      BY PipelineAssumption DEF CloseWrites, IInv, TypeOK, Row, CallStates, requestVars, workerVars, ledgerVars, Holding
    <2>2. QED
      BY <2>1, PipelineAssumption DEF CloseWrites, IInv, TypeOK, Call, requestVars, workerVars, ledgerVars
  <1>2. Holding'
    BY PipelineAssumption DEF CloseWrites, IInv, TypeOK, Holding, AcceptedNotLost, FreeCall, requestVars, workerVars, ledgerVars
  <1>3. AcceptedNotLost'
    BY PipelineAssumption DEF CloseWrites, IInv, TypeOK, Holding, AcceptedNotLost, requestVars, workerVars, ledgerVars
  <1>4. QED
    BY <1>1, <1>2, <1>3 DEF IInv

(* AcceptedNotLost holds in every reachable state. *)
LEMMA StepPreserves == IInv /\ [Next]_vars => IInv'
  <1> SUFFICES ASSUME IInv, [Next]_vars PROVE IInv'
    OBVIOUS
  <1>1. CASE Initiate
    BY <1>1, CreateRecurringDepositPreserves, PublishRequestPreserves DEF Initiate
  <1>2. CASE Deliver
    BY <1>2, HandleACHTransferRequestedPreserves DEF Deliver
  <1>3. CASE WorkerStep
    BY <1>3, NackPreserves, PublishSettledPreserves, AckPreserves DEF WorkerStep
  <1>4. ASSUME NEW c \in Calls, CallStep(c) PROVE IInv'
    BY <1>4, BankTransferPreserves, ReadPortfolioPreserves, WritePortfolioPreserves,
       OrphanReturnsPreserves DEF CallStep
  <1>5. CASE Fail
    BY <1>5, CallFailsPreserves, PublishSettledFailsPreserves, WorkerCrashPreserves DEF Fail
  <1>6. CASE Close
    BY <1>6, CloseReadsPreserves, CloseWritesPreserves DEF Close
  <1>7. CASE UNCHANGED vars
    BY <1>7 DEF vars, requestVars, workerVars, ledgerVars, IInv, TypeOK, Holding, AcceptedNotLost
  <1>8. QED
    BY <1>1, <1>2, <1>3, <1>4, <1>5, <1>6, <1>7 DEF Next

(* The inductive invariant holds in every reachable state. *)
LEMMA Inductive == Spec => []IInv
  BY InitEstablishes, StepPreserves, PTL DEF Spec

(* The types are kept, and the worker holds a request exactly while it     *)
(* waits for a call.                                                       *)
THEOREM TypeCorrect == Spec => []TypeOK
  <1>1. IInv => TypeOK
    BY DEF IInv
  <1>2. QED
    BY <1>1, Inductive, PTL

(* HandleACHTransferRequested and the router: an accepted transfer is      *)
(* queued, held or settled, however often calls fail and workers die.      *)
THEOREM NoTransferLost == Spec => []AcceptedNotLost
  <1>1. IInv => AcceptedNotLost
    BY DEF IInv
  <1>2. QED
    BY <1>1, Inductive, PTL

-----------------------------------------------------------------------------
(* The calls of a request that have yet to ask the bank, and those that    *)
(* have asked it and not yet come to the balance.                          *)
AtBank(r) == {c \in Calls : calls[c].pc = "bank" /\ calls[c].request = r}
Charged(r) == {c \in Calls : calls[c].pc \in {"read", "write"} /\ calls[c].request = r}

(* The worker can announce r. *)
Announceable(r) == handling = r /\ ~announced /\ calls[workerCall].pc = "ok"

(* The attempt at r that goes on has not failed. *)
Unfailed(r) ==
  /\ messages[r] \in {"delivered", "acked"}
  /\ handling = r => calls[workerCall].pc # "error"

(* Strengthenings: what is under way is counted too. *)
CreditsOwed ==
  \A r \in Requests : credits[r] + dropped[r] + Cardinality(Charged(r)) <= bankTransfers[r]

EventsOwed ==
  \A r \in Requests :
    settledEvents[r] + (IF Announceable(r) THEN 1 ELSE 0) <= credits[r] + dropped[r]

ChargesOwed ==
  \A r \in Requests :
    bankTransfers[r] + Cardinality(AtBank(r)) <= failures[r] + (IF Unfailed(r) THEN 1 ELSE 0)

(* Counting calls. *)
LEMMA OneCall ==
  ASSUME NEW S \in SUBSET Calls, NEW c \in Calls
  PROVE  /\ Cardinality(S) \in Nat
         /\ Cardinality(S \ {c}) \in Nat
         /\ Cardinality(S \ {c}) = IF c \in S THEN Cardinality(S) - 1 ELSE Cardinality(S)
         /\ Cardinality(S \cup {c}) = IF c \in S THEN Cardinality(S) ELSE Cardinality(S) + 1
  <1>1. IsFiniteSet(S) /\ IsFiniteSet(S \ {c})
    BY FS_Subset, FS_RemoveElement, PipelineAssumption
  <1>2. QED
    BY <1>1, FS_CardinalityType, FS_AddElement, FS_RemoveElement

(* Facts about set sizes the counting steps use. *)
LEMMA Sizes ==
  ASSUME NEW r \in Requests
  PROVE  /\ AtBank(r) \in SUBSET Calls /\ Cardinality(AtBank(r)) \in Nat
         /\ Charged(r) \in SUBSET Calls /\ Cardinality(Charged(r)) \in Nat
  <1>1. AtBank(r) \in SUBSET Calls /\ Charged(r) \in SUBSET Calls
    BY DEF AtBank, Charged
  <1>2. QED
    BY <1>1, FS_Subset, FS_CardinalityType, PipelineAssumption

(* One lemma per action: which sets of calls it changes, then the counts. *)
LEMMA CreateRecurringDepositCounts ==
  ASSUME IInv, CreditsOwed, EventsOwed, ChargesOwed, NEW r \in Requests, CreateRecurringDeposit(r)
  PROVE  CreditsOwed' /\ EventsOwed' /\ ChargesOwed'
  <1> SUFFICES ASSUME NEW q \in Requests
               PROVE  /\ (credits[q] + dropped[q] + Cardinality(Charged(q)) <= bankTransfers[q])'
                      /\ (settledEvents[q] + (IF Announceable(q) THEN 1 ELSE 0) <= credits[q] + dropped[q])'
                      /\ (bankTransfers[q] + Cardinality(AtBank(q)) <= failures[q] + (IF Unfailed(q) THEN 1 ELSE 0))'
    BY DEF CreditsOwed, EventsOwed, ChargesOwed
  <1> USE PipelineAssumption, Sizes DEF IInv, TypeOK, Holding, requestVars, workerVars, ledgerVars
  <1>1. AtBank(q)' = AtBank(q)
    BY DEF CreateRecurringDeposit, AtBank, FreeCall
  <1>2. Charged(q)' = Charged(q)
    BY DEF CreateRecurringDeposit, Charged, FreeCall
  <1>4. (credits[q] + dropped[q] + Cardinality(Charged(q)) <= bankTransfers[q])'
    BY <1>2 DEF CreateRecurringDeposit, CreditsOwed, Charged
  <1>5. (settledEvents[q] + (IF Announceable(q) THEN 1 ELSE 0) <= credits[q] + dropped[q])'
    BY DEF CreateRecurringDeposit, EventsOwed, Announceable, FreeCall
  <1>6. (bankTransfers[q] + Cardinality(AtBank(q)) <= failures[q] + (IF Unfailed(q) THEN 1 ELSE 0))'
    BY <1>1 DEF CreateRecurringDeposit, ChargesOwed, AtBank, Unfailed, AcceptedNotLost, FreeCall
  <1>7. QED
    BY <1>4, <1>5, <1>6

(* PublishRequest keeps what the calls under way owe. *)
LEMMA PublishRequestCounts ==
  ASSUME IInv, CreditsOwed, EventsOwed, ChargesOwed, NEW r \in Requests, PublishRequest(r)
  PROVE  CreditsOwed' /\ EventsOwed' /\ ChargesOwed'
  <1> SUFFICES ASSUME NEW q \in Requests
               PROVE  /\ (credits[q] + dropped[q] + Cardinality(Charged(q)) <= bankTransfers[q])'
                      /\ (settledEvents[q] + (IF Announceable(q) THEN 1 ELSE 0) <= credits[q] + dropped[q])'
                      /\ (bankTransfers[q] + Cardinality(AtBank(q)) <= failures[q] + (IF Unfailed(q) THEN 1 ELSE 0))'
    BY DEF CreditsOwed, EventsOwed, ChargesOwed
  <1> USE PipelineAssumption, Sizes DEF IInv, TypeOK, Holding, requestVars, workerVars, ledgerVars
  <1>1. AtBank(q)' = AtBank(q)
    BY DEF PublishRequest, AtBank, FreeCall
  <1>2. Charged(q)' = Charged(q)
    BY DEF PublishRequest, Charged, FreeCall
  <1>4. (credits[q] + dropped[q] + Cardinality(Charged(q)) <= bankTransfers[q])'
    BY <1>2 DEF PublishRequest, CreditsOwed, Charged
  <1>5. (settledEvents[q] + (IF Announceable(q) THEN 1 ELSE 0) <= credits[q] + dropped[q])'
    BY DEF PublishRequest, EventsOwed, Announceable, FreeCall
  <1>6. (bankTransfers[q] + Cardinality(AtBank(q)) <= failures[q] + (IF Unfailed(q) THEN 1 ELSE 0))'
    BY <1>1 DEF PublishRequest, ChargesOwed, AtBank, Unfailed, AcceptedNotLost, FreeCall
  <1>7. QED
    BY <1>4, <1>5, <1>6

(* HandleACHTransferRequested keeps what the calls under way owe. *)
LEMMA HandleACHTransferRequestedCounts ==
  ASSUME IInv, CreditsOwed, EventsOwed, ChargesOwed, NEW r \in Requests, NEW c \in Calls, HandleACHTransferRequested(r, c)
  PROVE  CreditsOwed' /\ EventsOwed' /\ ChargesOwed'
  <1> SUFFICES ASSUME NEW q \in Requests
               PROVE  /\ (credits[q] + dropped[q] + Cardinality(Charged(q)) <= bankTransfers[q])'
                      /\ (settledEvents[q] + (IF Announceable(q) THEN 1 ELSE 0) <= credits[q] + dropped[q])'
                      /\ (bankTransfers[q] + Cardinality(AtBank(q)) <= failures[q] + (IF Unfailed(q) THEN 1 ELSE 0))'
    BY DEF CreditsOwed, EventsOwed, ChargesOwed
  <1> USE PipelineAssumption, Sizes DEF IInv, TypeOK, Holding, requestVars, workerVars, ledgerVars
  <1>1. AtBank(q)' = IF q = r THEN AtBank(q) \cup {c} ELSE AtBank(q)
    BY DEF HandleACHTransferRequested, AtBank, FreeCall
  <1>2. Charged(q)' = Charged(q)
    BY DEF HandleACHTransferRequested, Charged, FreeCall
  <1>3. /\ Cardinality(AtBank(q) \ {c}) = IF c \in AtBank(q) THEN Cardinality(AtBank(q)) - 1 ELSE Cardinality(AtBank(q))
        /\ Cardinality(AtBank(q) \cup {c}) = IF c \in AtBank(q) THEN Cardinality(AtBank(q)) ELSE Cardinality(AtBank(q)) + 1
        /\ Cardinality(Charged(q) \ {c}) = IF c \in Charged(q) THEN Cardinality(Charged(q)) - 1 ELSE Cardinality(Charged(q))
        /\ Cardinality(Charged(q) \cup {c}) = IF c \in Charged(q) THEN Cardinality(Charged(q)) ELSE Cardinality(Charged(q)) + 1
    BY OneCall
  <1>4. (credits[q] + dropped[q] + Cardinality(Charged(q)) <= bankTransfers[q])'
    BY <1>2, <1>3 DEF HandleACHTransferRequested, CreditsOwed, Charged
  <1>5. (settledEvents[q] + (IF Announceable(q) THEN 1 ELSE 0) <= credits[q] + dropped[q])'
    BY DEF HandleACHTransferRequested, EventsOwed, Announceable, FreeCall
  <1>6. (bankTransfers[q] + Cardinality(AtBank(q)) <= failures[q] + (IF Unfailed(q) THEN 1 ELSE 0))'
    <2>1. Cardinality(AtBank(q))' = IF q = r THEN Cardinality(AtBank(q)) + 1 ELSE Cardinality(AtBank(q))
      <3>1. c \notin AtBank(q)
        BY DEF HandleACHTransferRequested, AtBank
      <3>2. QED
        BY <1>1, <1>3, <3>1
    <2>2. q = r => ~Unfailed(q)
      BY DEF HandleACHTransferRequested, Unfailed
    <2>3. q = r => Unfailed(q)'
      BY DEF HandleACHTransferRequested, Unfailed
    <2>4. q # r => (Unfailed(q)' <=> Unfailed(q))
      BY DEF HandleACHTransferRequested, Unfailed
    <2>5. bankTransfers' = bankTransfers /\ failures' = failures
      BY DEF HandleACHTransferRequested
    <2>6. QED
      BY <2>1, <2>2, <2>3, <2>4, <2>5 DEF ChargesOwed
  <1>7. QED
    BY <1>4, <1>5, <1>6

(* Nack keeps what the calls under way owe. *)
LEMMA NackCounts ==
  ASSUME IInv, CreditsOwed, EventsOwed, ChargesOwed, Nack
  PROVE  CreditsOwed' /\ EventsOwed' /\ ChargesOwed'
  <1> SUFFICES ASSUME NEW q \in Requests
               PROVE  /\ (credits[q] + dropped[q] + Cardinality(Charged(q)) <= bankTransfers[q])'
                      /\ (settledEvents[q] + (IF Announceable(q) THEN 1 ELSE 0) <= credits[q] + dropped[q])'
                      /\ (bankTransfers[q] + Cardinality(AtBank(q)) <= failures[q] + (IF Unfailed(q) THEN 1 ELSE 0))'
    BY DEF CreditsOwed, EventsOwed, ChargesOwed
  <1> USE PipelineAssumption, Sizes DEF IInv, TypeOK, Holding, requestVars, workerVars, ledgerVars
  <1>1. AtBank(q)' = AtBank(q)
    BY DEF Nack, AtBank, FreeCall
  <1>2. Charged(q)' = Charged(q)
    BY DEF Nack, Charged, FreeCall
  <1>4. (credits[q] + dropped[q] + Cardinality(Charged(q)) <= bankTransfers[q])'
    BY <1>2 DEF Nack, CreditsOwed, Charged
  <1>5. (settledEvents[q] + (IF Announceable(q) THEN 1 ELSE 0) <= credits[q] + dropped[q])'
    BY DEF Nack, EventsOwed, Announceable, FreeCall
  <1>6. (bankTransfers[q] + Cardinality(AtBank(q)) <= failures[q] + (IF Unfailed(q) THEN 1 ELSE 0))'
    BY <1>1 DEF Nack, ChargesOwed, AtBank, Unfailed, AcceptedNotLost, FreeCall
  <1>7. QED
    BY <1>4, <1>5, <1>6

(* PublishSettled keeps what the calls under way owe. *)
LEMMA PublishSettledCounts ==
  ASSUME IInv, CreditsOwed, EventsOwed, ChargesOwed, PublishSettled
  PROVE  CreditsOwed' /\ EventsOwed' /\ ChargesOwed'
  <1> SUFFICES ASSUME NEW q \in Requests
               PROVE  /\ (credits[q] + dropped[q] + Cardinality(Charged(q)) <= bankTransfers[q])'
                      /\ (settledEvents[q] + (IF Announceable(q) THEN 1 ELSE 0) <= credits[q] + dropped[q])'
                      /\ (bankTransfers[q] + Cardinality(AtBank(q)) <= failures[q] + (IF Unfailed(q) THEN 1 ELSE 0))'
    BY DEF CreditsOwed, EventsOwed, ChargesOwed
  <1> USE PipelineAssumption, Sizes DEF IInv, TypeOK, Holding, requestVars, workerVars, ledgerVars
  <1>1. AtBank(q)' = AtBank(q)
    BY DEF PublishSettled, AtBank, FreeCall
  <1>2. Charged(q)' = Charged(q)
    BY DEF PublishSettled, Charged, FreeCall
  <1>4. (credits[q] + dropped[q] + Cardinality(Charged(q)) <= bankTransfers[q])'
    BY <1>2 DEF PublishSettled, CreditsOwed, Charged
  <1>5. (settledEvents[q] + (IF Announceable(q) THEN 1 ELSE 0) <= credits[q] + dropped[q])'
    BY DEF PublishSettled, EventsOwed, Announceable, FreeCall
  <1>6. (bankTransfers[q] + Cardinality(AtBank(q)) <= failures[q] + (IF Unfailed(q) THEN 1 ELSE 0))'
    BY <1>1 DEF PublishSettled, ChargesOwed, AtBank, Unfailed, AcceptedNotLost, FreeCall
  <1>7. QED
    BY <1>4, <1>5, <1>6

(* PublishSettledFails keeps what the calls under way owe. *)
LEMMA PublishSettledFailsCounts ==
  ASSUME IInv, CreditsOwed, EventsOwed, ChargesOwed, PublishSettledFails
  PROVE  CreditsOwed' /\ EventsOwed' /\ ChargesOwed'
  <1> SUFFICES ASSUME NEW q \in Requests
               PROVE  /\ (credits[q] + dropped[q] + Cardinality(Charged(q)) <= bankTransfers[q])'
                      /\ (settledEvents[q] + (IF Announceable(q) THEN 1 ELSE 0) <= credits[q] + dropped[q])'
                      /\ (bankTransfers[q] + Cardinality(AtBank(q)) <= failures[q] + (IF Unfailed(q) THEN 1 ELSE 0))'
    BY DEF CreditsOwed, EventsOwed, ChargesOwed
  <1> USE PipelineAssumption, Sizes DEF IInv, TypeOK, Holding, requestVars, workerVars, ledgerVars
  <1>1. AtBank(q)' = AtBank(q)
    BY DEF PublishSettledFails, Failure, AtBank, FreeCall
  <1>2. Charged(q)' = Charged(q)
    BY DEF PublishSettledFails, Failure, Charged, FreeCall
  <1>4. (credits[q] + dropped[q] + Cardinality(Charged(q)) <= bankTransfers[q])'
    BY <1>2 DEF PublishSettledFails, Failure, CreditsOwed, Charged
  <1>5. (settledEvents[q] + (IF Announceable(q) THEN 1 ELSE 0) <= credits[q] + dropped[q])'
    BY DEF PublishSettledFails, Failure, EventsOwed, Announceable, FreeCall
  <1>6. (bankTransfers[q] + Cardinality(AtBank(q)) <= failures[q] + (IF Unfailed(q) THEN 1 ELSE 0))'
    BY <1>1 DEF PublishSettledFails, Failure, ChargesOwed, AtBank, Unfailed, AcceptedNotLost, FreeCall
  <1>7. QED
    BY <1>4, <1>5, <1>6

(* Ack keeps what the calls under way owe. *)
LEMMA AckCounts ==
  ASSUME IInv, CreditsOwed, EventsOwed, ChargesOwed, Ack
  PROVE  CreditsOwed' /\ EventsOwed' /\ ChargesOwed'
  <1> SUFFICES ASSUME NEW q \in Requests
               PROVE  /\ (credits[q] + dropped[q] + Cardinality(Charged(q)) <= bankTransfers[q])'
                      /\ (settledEvents[q] + (IF Announceable(q) THEN 1 ELSE 0) <= credits[q] + dropped[q])'
                      /\ (bankTransfers[q] + Cardinality(AtBank(q)) <= failures[q] + (IF Unfailed(q) THEN 1 ELSE 0))'
    BY DEF CreditsOwed, EventsOwed, ChargesOwed
  <1> USE PipelineAssumption, Sizes DEF IInv, TypeOK, Holding, requestVars, workerVars, ledgerVars
  <1>1. AtBank(q)' = AtBank(q)
    BY DEF Ack, AtBank, FreeCall
  <1>2. Charged(q)' = Charged(q)
    BY DEF Ack, Charged, FreeCall
  <1>4. (credits[q] + dropped[q] + Cardinality(Charged(q)) <= bankTransfers[q])'
    BY <1>2 DEF Ack, CreditsOwed, Charged
  <1>5. (settledEvents[q] + (IF Announceable(q) THEN 1 ELSE 0) <= credits[q] + dropped[q])'
    BY DEF Ack, EventsOwed, Announceable, FreeCall
  <1>6. (bankTransfers[q] + Cardinality(AtBank(q)) <= failures[q] + (IF Unfailed(q) THEN 1 ELSE 0))'
    BY <1>1 DEF Ack, ChargesOwed, AtBank, Unfailed, AcceptedNotLost, FreeCall
  <1>7. QED
    BY <1>4, <1>5, <1>6

(* WorkerCrash keeps what the calls under way owe. *)
LEMMA WorkerCrashCounts ==
  ASSUME IInv, CreditsOwed, EventsOwed, ChargesOwed, WorkerCrash
  PROVE  CreditsOwed' /\ EventsOwed' /\ ChargesOwed'
  <1> SUFFICES ASSUME NEW q \in Requests
               PROVE  /\ (credits[q] + dropped[q] + Cardinality(Charged(q)) <= bankTransfers[q])'
                      /\ (settledEvents[q] + (IF Announceable(q) THEN 1 ELSE 0) <= credits[q] + dropped[q])'
                      /\ (bankTransfers[q] + Cardinality(AtBank(q)) <= failures[q] + (IF Unfailed(q) THEN 1 ELSE 0))'
    BY DEF CreditsOwed, EventsOwed, ChargesOwed
  <1> USE PipelineAssumption, Sizes DEF IInv, TypeOK, Holding, requestVars, workerVars, ledgerVars
  <1>1. AtBank(q)' = AtBank(q)
    BY DEF WorkerCrash, AtBank, FreeCall
  <1>2. Charged(q)' = Charged(q)
    BY DEF WorkerCrash, Charged, FreeCall
  <1>4. (credits[q] + dropped[q] + Cardinality(Charged(q)) <= bankTransfers[q])'
    BY <1>2 DEF WorkerCrash, CreditsOwed, Charged
  <1>5. (settledEvents[q] + (IF Announceable(q) THEN 1 ELSE 0) <= credits[q] + dropped[q])'
    BY DEF WorkerCrash, EventsOwed, Announceable, FreeCall
  <1>6. (bankTransfers[q] + Cardinality(AtBank(q)) <= failures[q] + (IF Unfailed(q) THEN 1 ELSE 0))'
    <2>1. Cardinality(AtBank(q))' = Cardinality(AtBank(q))
      BY <1>1
    <2>2. q = handling => ~Unfailed(q)'
      BY DEF WorkerCrash, Unfailed
    <2>3. q # handling => (Unfailed(q)' <=> Unfailed(q))
      BY DEF WorkerCrash, Unfailed
    <2>4. bankTransfers' = bankTransfers
      BY DEF WorkerCrash
    <2>5. failures'[q] = IF q = handling THEN failures[q] + 1 ELSE failures[q]
      BY DEF WorkerCrash
    <2>6. QED
      BY <2>1, <2>2, <2>3, <2>4, <2>5 DEF ChargesOwed
  <1>7. QED
    BY <1>4, <1>5, <1>6

(* BankTransfer keeps what the calls under way owe. *)
LEMMA BankTransferCounts ==
  ASSUME IInv, CreditsOwed, EventsOwed, ChargesOwed, NEW c \in Calls, BankTransfer(c)
  PROVE  CreditsOwed' /\ EventsOwed' /\ ChargesOwed'
  <1> SUFFICES ASSUME NEW q \in Requests
               PROVE  /\ (credits[q] + dropped[q] + Cardinality(Charged(q)) <= bankTransfers[q])'
                      /\ (settledEvents[q] + (IF Announceable(q) THEN 1 ELSE 0) <= credits[q] + dropped[q])'
                      /\ (bankTransfers[q] + Cardinality(AtBank(q)) <= failures[q] + (IF Unfailed(q) THEN 1 ELSE 0))'
    BY DEF CreditsOwed, EventsOwed, ChargesOwed
  <1> USE PipelineAssumption, Sizes DEF IInv, TypeOK, Holding, requestVars, workerVars, ledgerVars
  <1>1. AtBank(q)' = AtBank(q) \ {c}
    BY DEF BankTransfer, AtBank, FreeCall
  <1>2. Charged(q)' = IF q = calls[c].request THEN Charged(q) \cup {c} ELSE Charged(q)
    BY DEF BankTransfer, Charged, FreeCall
  <1>3. /\ Cardinality(AtBank(q) \ {c}) = IF c \in AtBank(q) THEN Cardinality(AtBank(q)) - 1 ELSE Cardinality(AtBank(q))
        /\ Cardinality(AtBank(q) \cup {c}) = IF c \in AtBank(q) THEN Cardinality(AtBank(q)) ELSE Cardinality(AtBank(q)) + 1
        /\ Cardinality(Charged(q) \ {c}) = IF c \in Charged(q) THEN Cardinality(Charged(q)) - 1 ELSE Cardinality(Charged(q))
        /\ Cardinality(Charged(q) \cup {c}) = IF c \in Charged(q) THEN Cardinality(Charged(q)) ELSE Cardinality(Charged(q)) + 1
    BY OneCall
  <1>4. (credits[q] + dropped[q] + Cardinality(Charged(q)) <= bankTransfers[q])'
    <2>1. Cardinality(Charged(q))' = IF q = calls[c].request THEN Cardinality(Charged(q)) + 1 ELSE Cardinality(Charged(q))
      <3>1. c \notin Charged(q)
        BY DEF BankTransfer, Charged
      <3>2. QED
        BY <1>2, <1>3, <3>1
    <2>2. bankTransfers'[q] = IF q = calls[c].request THEN bankTransfers[q] + 1 ELSE bankTransfers[q]
      BY DEF BankTransfer
    <2>3. credits' = credits /\ dropped' = dropped
      BY DEF BankTransfer
    <2>4. QED
      BY <2>1, <2>2, <2>3 DEF CreditsOwed
  <1>5. (settledEvents[q] + (IF Announceable(q) THEN 1 ELSE 0) <= credits[q] + dropped[q])'
    BY DEF BankTransfer, EventsOwed, Announceable, FreeCall
  <1>6. (bankTransfers[q] + Cardinality(AtBank(q)) <= failures[q] + (IF Unfailed(q) THEN 1 ELSE 0))'
    <2>1. Cardinality(AtBank(q))' = IF q = calls[c].request THEN Cardinality(AtBank(q)) - 1 ELSE Cardinality(AtBank(q))
      <3>1. c \in AtBank(q) <=> q = calls[c].request
        BY DEF BankTransfer, AtBank
      <3>2. QED
        BY <1>1, <1>3, <3>1
    <2>2. bankTransfers'[q] = IF q = calls[c].request THEN bankTransfers[q] + 1 ELSE bankTransfers[q]
      BY DEF BankTransfer
    <2>3. Unfailed(q)' <=> Unfailed(q)
      BY DEF BankTransfer, Unfailed
    <2>4. failures' = failures
      BY DEF BankTransfer
    <2>5. QED
      BY <2>1, <2>2, <2>3, <2>4 DEF ChargesOwed
  <1>7. QED
    BY <1>4, <1>5, <1>6

(* ReadPortfolio keeps what the calls under way owe. *)
LEMMA ReadPortfolioCounts ==
  ASSUME IInv, CreditsOwed, EventsOwed, ChargesOwed, NEW c \in Calls, ReadPortfolio(c)
  PROVE  CreditsOwed' /\ EventsOwed' /\ ChargesOwed'
  <1> SUFFICES ASSUME NEW q \in Requests
               PROVE  /\ (credits[q] + dropped[q] + Cardinality(Charged(q)) <= bankTransfers[q])'
                      /\ (settledEvents[q] + (IF Announceable(q) THEN 1 ELSE 0) <= credits[q] + dropped[q])'
                      /\ (bankTransfers[q] + Cardinality(AtBank(q)) <= failures[q] + (IF Unfailed(q) THEN 1 ELSE 0))'
    BY DEF CreditsOwed, EventsOwed, ChargesOwed
  <1> USE PipelineAssumption, Sizes DEF IInv, TypeOK, Holding, requestVars, workerVars, ledgerVars
  <1>1. AtBank(q)' = AtBank(q)
    BY DEF ReadPortfolio, AtBank, FreeCall
  <1>2. Charged(q)' = Charged(q)
    BY DEF ReadPortfolio, Charged, FreeCall
  <1>4. (credits[q] + dropped[q] + Cardinality(Charged(q)) <= bankTransfers[q])'
    BY <1>2 DEF ReadPortfolio, CreditsOwed, Charged
  <1>5. (settledEvents[q] + (IF Announceable(q) THEN 1 ELSE 0) <= credits[q] + dropped[q])'
    BY DEF ReadPortfolio, EventsOwed, Announceable, FreeCall
  <1>6. (bankTransfers[q] + Cardinality(AtBank(q)) <= failures[q] + (IF Unfailed(q) THEN 1 ELSE 0))'
    BY <1>1 DEF ReadPortfolio, ChargesOwed, AtBank, Unfailed, AcceptedNotLost, FreeCall
  <1>7. QED
    BY <1>4, <1>5, <1>6

(* WritePortfolio keeps what the calls under way owe. *)
LEMMA WritePortfolioCounts ==
  ASSUME IInv, CreditsOwed, EventsOwed, ChargesOwed, NEW c \in Calls, WritePortfolio(c)
  PROVE  CreditsOwed' /\ EventsOwed' /\ ChargesOwed'
  <1> SUFFICES ASSUME NEW q \in Requests
               PROVE  /\ (credits[q] + dropped[q] + Cardinality(Charged(q)) <= bankTransfers[q])'
                      /\ (settledEvents[q] + (IF Announceable(q) THEN 1 ELSE 0) <= credits[q] + dropped[q])'
                      /\ (bankTransfers[q] + Cardinality(AtBank(q)) <= failures[q] + (IF Unfailed(q) THEN 1 ELSE 0))'
    BY DEF CreditsOwed, EventsOwed, ChargesOwed
  <1> USE PipelineAssumption, Sizes DEF IInv, TypeOK, Holding, requestVars, workerVars, ledgerVars
  <1>1. AtBank(q)' = AtBank(q)
    BY DEF WritePortfolio, Failure, AtBank, FreeCall
  <1>2. Charged(q)' = Charged(q) \ {c}
    BY DEF WritePortfolio, Failure, Charged, FreeCall
  <1>3. /\ Cardinality(AtBank(q) \ {c}) = IF c \in AtBank(q) THEN Cardinality(AtBank(q)) - 1 ELSE Cardinality(AtBank(q))
        /\ Cardinality(AtBank(q) \cup {c}) = IF c \in AtBank(q) THEN Cardinality(AtBank(q)) ELSE Cardinality(AtBank(q)) + 1
        /\ Cardinality(Charged(q) \ {c}) = IF c \in Charged(q) THEN Cardinality(Charged(q)) - 1 ELSE Cardinality(Charged(q))
        /\ Cardinality(Charged(q) \cup {c}) = IF c \in Charged(q) THEN Cardinality(Charged(q)) ELSE Cardinality(Charged(q)) + 1
    BY OneCall
  <1>4. (credits[q] + dropped[q] + Cardinality(Charged(q)) <= bankTransfers[q])'
    <2>1. Cardinality(Charged(q))' = IF q = calls[c].request THEN Cardinality(Charged(q)) - 1 ELSE Cardinality(Charged(q))
      <3>1. c \in Charged(q) <=> q = calls[c].request
        BY DEF WritePortfolio, Charged
      <3>2. QED
        BY <1>2, <1>3, <3>1
    <2>2. credits'[q] + dropped'[q] = IF q = calls[c].request THEN credits[q] + dropped[q] + 1 ELSE credits[q] + dropped[q]
      <3>1. \/ /\ credits' = [credits EXCEPT ![calls[c].request] = @ + 1]
               /\ dropped' = dropped /\ failures' = failures
            \/ /\ dropped' = [dropped EXCEPT ![calls[c].request] = @ + 1]
               /\ failures' = [failures EXCEPT ![calls[c].request] = @ + 1]
               /\ credits' = credits
        BY DEF WritePortfolio, Failure
      <3>2. QED
        BY <3>1
    <2>3. credits'[q] \in Nat /\ dropped'[q] \in Nat
      BY WritePortfolioPreserves
    <2>4. bankTransfers' = bankTransfers
      BY DEF WritePortfolio
    <2>5. QED
      BY <2>1, <2>2, <2>3, <2>4 DEF CreditsOwed
  <1>5. (settledEvents[q] + (IF Announceable(q) THEN 1 ELSE 0) <= credits[q] + dropped[q])'
    BY DEF WritePortfolio, Failure, EventsOwed, Announceable, FreeCall
  <1>6. (bankTransfers[q] + Cardinality(AtBank(q)) <= failures[q] + (IF Unfailed(q) THEN 1 ELSE 0))'
    <2>1. Cardinality(AtBank(q))' = Cardinality(AtBank(q))
      BY <1>1
    <2>2. Unfailed(q)' <=> Unfailed(q)
      BY DEF WritePortfolio, Failure, Unfailed
    <2>3. bankTransfers' = bankTransfers
      BY DEF WritePortfolio
    <2>4. failures'[q] \in Nat /\ failures'[q] >= failures[q]
      <3>1. \/ /\ credits' = [credits EXCEPT ![calls[c].request] = @ + 1]
               /\ dropped' = dropped /\ failures' = failures
            \/ /\ dropped' = [dropped EXCEPT ![calls[c].request] = @ + 1]
               /\ failures' = [failures EXCEPT ![calls[c].request] = @ + 1]
               /\ credits' = credits
        BY DEF WritePortfolio, Failure
      <3>2. QED
        BY <3>1
    <2>5. QED
      BY <2>1, <2>2, <2>3, <2>4 DEF ChargesOwed
  <1>7. QED
    BY <1>4, <1>5, <1>6

(* CallFails keeps what the calls under way owe. *)
LEMMA CallFailsCounts ==
  ASSUME IInv, CreditsOwed, EventsOwed, ChargesOwed, NEW c \in Calls, CallFails(c)
  PROVE  CreditsOwed' /\ EventsOwed' /\ ChargesOwed'
  <1> SUFFICES ASSUME NEW q \in Requests
               PROVE  /\ (credits[q] + dropped[q] + Cardinality(Charged(q)) <= bankTransfers[q])'
                      /\ (settledEvents[q] + (IF Announceable(q) THEN 1 ELSE 0) <= credits[q] + dropped[q])'
                      /\ (bankTransfers[q] + Cardinality(AtBank(q)) <= failures[q] + (IF Unfailed(q) THEN 1 ELSE 0))'
    BY DEF CreditsOwed, EventsOwed, ChargesOwed
  <1> USE PipelineAssumption, Sizes DEF IInv, TypeOK, Holding, requestVars, workerVars, ledgerVars
  <1>1. AtBank(q)' = AtBank(q) \ {c}
    BY DEF CallFails, Failure, AtBank, FreeCall
  <1>2. Charged(q)' = Charged(q) \ {c}
    BY DEF CallFails, Failure, Charged, FreeCall
  <1>3. /\ Cardinality(AtBank(q) \ {c}) = IF c \in AtBank(q) THEN Cardinality(AtBank(q)) - 1 ELSE Cardinality(AtBank(q))
        /\ Cardinality(AtBank(q) \cup {c}) = IF c \in AtBank(q) THEN Cardinality(AtBank(q)) ELSE Cardinality(AtBank(q)) + 1
        /\ Cardinality(Charged(q) \ {c}) = IF c \in Charged(q) THEN Cardinality(Charged(q)) - 1 ELSE Cardinality(Charged(q))
        /\ Cardinality(Charged(q) \cup {c}) = IF c \in Charged(q) THEN Cardinality(Charged(q)) ELSE Cardinality(Charged(q)) + 1
    BY OneCall
  <1>4. (credits[q] + dropped[q] + Cardinality(Charged(q)) <= bankTransfers[q])'
    <2>1. Cardinality(Charged(q))' \in Nat /\ Cardinality(Charged(q))' <= Cardinality(Charged(q))
      <3>1. Cardinality(Charged(q) \ {c}) \in Nat
        BY OneCall
      <3>2. QED
        BY <1>2, <1>3, <3>1
    <2>2. bankTransfers' = bankTransfers /\ credits' = credits /\ dropped' = dropped
      BY DEF CallFails
    <2>3. QED
      BY <2>1, <2>2 DEF CreditsOwed
  <1>5. (settledEvents[q] + (IF Announceable(q) THEN 1 ELSE 0) <= credits[q] + dropped[q])'
    BY DEF CallFails, Failure, EventsOwed, Announceable, FreeCall
  <1>6. (bankTransfers[q] + Cardinality(AtBank(q)) <= failures[q] + (IF Unfailed(q) THEN 1 ELSE 0))'
    <2>1. Cardinality(AtBank(q))' \in Nat /\ Cardinality(AtBank(q))' <= Cardinality(AtBank(q))
      <3>1. Cardinality(AtBank(q) \ {c}) \in Nat
        BY OneCall
      <3>2. QED
        BY <1>1, <1>3, <3>1
    <2>2. bankTransfers' = bankTransfers
      BY DEF CallFails
    <2>3. failures'[q] = IF q = calls[c].request THEN failures[q] + 1 ELSE failures[q]
      BY DEF CallFails, Failure
    <2>4. q # calls[c].request => (Unfailed(q)' <=> Unfailed(q))
      BY DEF CallFails, Failure, Unfailed
    <2>5. QED
      BY <2>1, <2>2, <2>3, <2>4 DEF ChargesOwed
  <1>7. QED
    BY <1>4, <1>5, <1>6

(* OrphanReturns keeps what the calls under way owe. *)
LEMMA OrphanReturnsCounts ==
  ASSUME IInv, CreditsOwed, EventsOwed, ChargesOwed, NEW c \in Calls, OrphanReturns(c)
  PROVE  CreditsOwed' /\ EventsOwed' /\ ChargesOwed'
  <1> SUFFICES ASSUME NEW q \in Requests
               PROVE  /\ (credits[q] + dropped[q] + Cardinality(Charged(q)) <= bankTransfers[q])'
                      /\ (settledEvents[q] + (IF Announceable(q) THEN 1 ELSE 0) <= credits[q] + dropped[q])'
                      /\ (bankTransfers[q] + Cardinality(AtBank(q)) <= failures[q] + (IF Unfailed(q) THEN 1 ELSE 0))'
    BY DEF CreditsOwed, EventsOwed, ChargesOwed
  <1> USE PipelineAssumption, Sizes DEF IInv, TypeOK, Holding, requestVars, workerVars, ledgerVars
  <1>1. AtBank(q)' = AtBank(q)
    BY DEF OrphanReturns, AtBank, FreeCall
  <1>2. Charged(q)' = Charged(q)
    BY DEF OrphanReturns, Charged, FreeCall
  <1>4. (credits[q] + dropped[q] + Cardinality(Charged(q)) <= bankTransfers[q])'
    BY <1>2 DEF OrphanReturns, CreditsOwed, Charged
  <1>5. (settledEvents[q] + (IF Announceable(q) THEN 1 ELSE 0) <= credits[q] + dropped[q])'
    BY DEF OrphanReturns, EventsOwed, Announceable, FreeCall
  <1>6. (bankTransfers[q] + Cardinality(AtBank(q)) <= failures[q] + (IF Unfailed(q) THEN 1 ELSE 0))'
    BY <1>1 DEF OrphanReturns, ChargesOwed, AtBank, Unfailed, AcceptedNotLost, FreeCall
  <1>7. QED
    BY <1>4, <1>5, <1>6

(* CloseReads keeps what the calls under way owe. *)
LEMMA CloseReadsCounts ==
  ASSUME IInv, CreditsOwed, EventsOwed, ChargesOwed, CloseReads
  PROVE  CreditsOwed' /\ EventsOwed' /\ ChargesOwed'
  <1> SUFFICES ASSUME NEW q \in Requests
               PROVE  /\ (credits[q] + dropped[q] + Cardinality(Charged(q)) <= bankTransfers[q])'
                      /\ (settledEvents[q] + (IF Announceable(q) THEN 1 ELSE 0) <= credits[q] + dropped[q])'
                      /\ (bankTransfers[q] + Cardinality(AtBank(q)) <= failures[q] + (IF Unfailed(q) THEN 1 ELSE 0))'
    BY DEF CreditsOwed, EventsOwed, ChargesOwed
  <1> USE PipelineAssumption, Sizes DEF IInv, TypeOK, Holding, requestVars, workerVars, ledgerVars
  <1>1. AtBank(q)' = AtBank(q)
    BY DEF CloseReads, AtBank, FreeCall
  <1>2. Charged(q)' = Charged(q)
    BY DEF CloseReads, Charged, FreeCall
  <1>4. (credits[q] + dropped[q] + Cardinality(Charged(q)) <= bankTransfers[q])'
    BY <1>2 DEF CloseReads, CreditsOwed, Charged
  <1>5. (settledEvents[q] + (IF Announceable(q) THEN 1 ELSE 0) <= credits[q] + dropped[q])'
    BY DEF CloseReads, EventsOwed, Announceable, FreeCall
  <1>6. (bankTransfers[q] + Cardinality(AtBank(q)) <= failures[q] + (IF Unfailed(q) THEN 1 ELSE 0))'
    BY <1>1 DEF CloseReads, ChargesOwed, AtBank, Unfailed, AcceptedNotLost, FreeCall
  <1>7. QED
    BY <1>4, <1>5, <1>6

(* CloseWrites keeps what the calls under way owe. *)
LEMMA CloseWritesCounts ==
  ASSUME IInv, CreditsOwed, EventsOwed, ChargesOwed, CloseWrites
  PROVE  CreditsOwed' /\ EventsOwed' /\ ChargesOwed'
  <1> SUFFICES ASSUME NEW q \in Requests
               PROVE  /\ (credits[q] + dropped[q] + Cardinality(Charged(q)) <= bankTransfers[q])'
                      /\ (settledEvents[q] + (IF Announceable(q) THEN 1 ELSE 0) <= credits[q] + dropped[q])'
                      /\ (bankTransfers[q] + Cardinality(AtBank(q)) <= failures[q] + (IF Unfailed(q) THEN 1 ELSE 0))'
    BY DEF CreditsOwed, EventsOwed, ChargesOwed
  <1> USE PipelineAssumption, Sizes DEF IInv, TypeOK, Holding, requestVars, workerVars, ledgerVars
  <1>1. AtBank(q)' = AtBank(q)
    BY DEF CloseWrites, AtBank, FreeCall
  <1>2. Charged(q)' = Charged(q)
    BY DEF CloseWrites, Charged, FreeCall
  <1>4. (credits[q] + dropped[q] + Cardinality(Charged(q)) <= bankTransfers[q])'
    BY <1>2 DEF CloseWrites, CreditsOwed, Charged
  <1>5. (settledEvents[q] + (IF Announceable(q) THEN 1 ELSE 0) <= credits[q] + dropped[q])'
    BY DEF CloseWrites, EventsOwed, Announceable, FreeCall
  <1>6. (bankTransfers[q] + Cardinality(AtBank(q)) <= failures[q] + (IF Unfailed(q) THEN 1 ELSE 0))'
    BY <1>1 DEF CloseWrites, ChargesOwed, AtBank, Unfailed, AcceptedNotLost, FreeCall
  <1>7. QED
    BY <1>4, <1>5, <1>6

(* Everything counted at the start is zero. *)
LEMMA InitCounts == Init => CreditsOwed /\ EventsOwed /\ ChargesOwed
  <1> SUFFICES ASSUME Init, NEW r \in Requests
               PROVE  /\ credits[r] + dropped[r] + Cardinality(Charged(r)) <= bankTransfers[r]
                      /\ settledEvents[r] + (IF Announceable(r) THEN 1 ELSE 0) <= credits[r] + dropped[r]
                      /\ bankTransfers[r] + Cardinality(AtBank(r)) <= failures[r] + (IF Unfailed(r) THEN 1 ELSE 0)
    BY DEF CreditsOwed, EventsOwed, ChargesOwed
  <1>1. AtBank(r) = {} /\ Charged(r) = {}
    BY DEF Init, FreeCall, AtBank, Charged
  <1>2. Cardinality(AtBank(r)) = 0 /\ Cardinality(Charged(r)) = 0
    BY <1>1, FS_EmptySet
  <1>3. ~Announceable(r) /\ ~Unfailed(r)
    BY PipelineAssumption DEF Init, Announceable, Unfailed
  <1>4. QED
    BY <1>2, <1>3 DEF Init, Zero

(* Every step keeps the three counting invariants: the actions together. *)
LEMMA StepCounts ==
  IInv /\ CreditsOwed /\ EventsOwed /\ ChargesOwed /\ [Next]_vars
    => CreditsOwed' /\ EventsOwed' /\ ChargesOwed'
  <1> DEFINE Counts == CreditsOwed /\ EventsOwed /\ ChargesOwed
  <1> SUFFICES ASSUME IInv, Counts, [Next]_vars PROVE Counts'
    OBVIOUS
  <1>1. CASE Initiate
    BY <1>1, CreateRecurringDepositCounts, PublishRequestCounts DEF Initiate
  <1>2. CASE Deliver
    BY <1>2, HandleACHTransferRequestedCounts DEF Deliver
  <1>3. CASE WorkerStep
    BY <1>3, NackCounts, PublishSettledCounts, AckCounts DEF WorkerStep
  <1>4. ASSUME NEW c \in Calls, CallStep(c) PROVE Counts'
    BY <1>4, BankTransferCounts, ReadPortfolioCounts, WritePortfolioCounts, OrphanReturnsCounts DEF CallStep
  <1>5. CASE Fail
    BY <1>5, CallFailsCounts, PublishSettledFailsCounts, WorkerCrashCounts DEF Fail
  <1>6. CASE Close
    BY <1>6, CloseReadsCounts, CloseWritesCounts DEF Close
  <1>7. CASE UNCHANGED vars
    BY <1>7 DEF vars, requestVars, workerVars, ledgerVars, CreditsOwed, EventsOwed, ChargesOwed,
                AtBank, Charged, Announceable, Unfailed
  <1>8. QED
    BY <1>1, <1>2, <1>3, <1>4, <1>5, <1>6, <1>7 DEF Next

(* The counting invariants hold in every reachable state. *)
LEMMA CountsInvariant == Spec => [](IInv /\ CreditsOwed /\ EventsOwed /\ ChargesOwed)
  BY InitEstablishes, StepPreserves, InitCounts, StepCounts, PTL DEF Spec

(* SettleACHTransfer: however handlers of a request overlap, the balance is *)
(* never changed more often than the bank was asked.                        *)
LEMMA CreditsAreBacked == Spec => []CreditsBacked
  <1>1. IInv /\ CreditsOwed => CreditsBacked
    BY Sizes DEF IInv, TypeOK, CreditsOwed, CreditsBacked
  <1>2. QED
    BY <1>1, CountsInvariant, PTL

(* SettleACHTransfer and the requeueing of Nack: every transfer ordered     *)
(* beyond the first is the price of a failure or a crash.                   *)
THEOREM ChargesAreExplained == Spec => []ChargesExplained
  <1>1. IInv /\ ChargesOwed => ChargesExplained
    BY Sizes DEF IInv, TypeOK, ChargesOwed, ChargesExplained
  <1>2. QED
    BY <1>1, CountsInvariant, PTL

(* HandleACHTransferRequested: each ach_settled event stands for a balance  *)
(* update of its own that returned.                                         *)
LEMMA SettledIsBacked == Spec => []SettledBacked
  <1>1. IInv /\ EventsOwed => SettledBacked
    BY Sizes DEF IInv, TypeOK, EventsOwed, SettledBacked
  <1>2. QED
    BY <1>1, CountsInvariant, PTL

(* Of every settlement: the bank before the balance, the balance before the *)
(* event, whatever handlers overlap or are orphaned.                        *)
THEOREM EffectsAreBacked == Spec => []EffectsBacked
  <1>1. CreditsBacked /\ SettledBacked => EffectsBacked
    BY DEF EffectsBacked
  <1>2. QED
    BY <1>1, CreditsAreBacked, SettledIsBacked, PTL
-----------------------------------------------------------------------------
(* The balance.  What has been written for a request, as the sum counts it. *)
Written(r) == credits[r] * Delta[r]
AllWritten == SumOver([r \in Requests |-> Written(r)], Requests)

(* No handler but the one the worker waits for runs, the row it is about   *)
(* to write back is the one that is stored, and nobody is closing.         *)
Alone ==
  /\ ~closing
  /\ \A c \in Calls : calls[c].pc # "free" => c = workerCall
  /\ \A c \in Calls : calls[c].pc = "write" => calls[c].row = portfolio

BalanceInv ==
  /\ IInv
  /\ crashes = 0 /\ closes = 0 =>
       Alone /\ portfolio.cash = OpeningCash + AllWritten

(* What was written is an integer. *)
LEMMA WrittenType ==
  ASSUME TypeOK
  PROVE  AllWritten \in Int /\ \A r \in Requests : Written(r) \in Int
  <1>1. \A r \in Requests : Written(r) \in Int
    BY PipelineAssumption DEF Written, TypeOK
  <1>2. \A r \in Requests : [q \in Requests |-> Written(q)][r] \in Int
    BY <1>1
  <1>3. AllWritten \in Int
    BY <1>2, SumType, PipelineAssumption DEF AllWritten
  <1>4. QED
    BY <1>1, <1>3

(* One more update of a request adds its amount to the sum. *)
LEMMA WrittenOnceMore ==
  ASSUME TypeOK, NEW r \in Requests, credits' = [credits EXCEPT ![r] = @ + 1]
  PROVE  AllWritten' = AllWritten + Delta[r]
  <1> DEFINE f == [q \in Requests |-> Written(q)]
             g == [q \in Requests |-> Written(q)']
  <1>1. /\ credits \in [Requests -> Nat] /\ Delta \in [Requests -> Int]
        /\ IsFiniteSet(Requests)
    BY PipelineAssumption DEF TypeOK
  <1>2. Written(r)' = Written(r) + Delta[r]
    <2>1. (credits[r] + 1) * Delta[r] = credits[r] * Delta[r] + Delta[r]
      BY <1>1
    <2>2. credits'[r] = credits[r] + 1
      BY <1>1
    <2>3. QED
      BY <2>1, <2>2 DEF Written
  <1>3. \A q \in Requests \ {r} : Written(q)' = Written(q)
    BY <1>1 DEF Written
  <1>4. \A q \in Requests : Written(q) \in Int
    BY WrittenType
  <1>5. Written(r)' \in Int
    BY <1>1, <1>2, <1>4
  <1>6. \A q \in Requests : f[q] \in Int /\ g[q] \in Int
    BY <1>3, <1>4, <1>5
  <1>7. \A q \in Requests \ {r} : g[q] = f[q]
    BY <1>3
  <1>8. g[r] - f[r] = Delta[r]
    BY <1>1, <1>2, <1>4
  <1>9. AllWritten = SumOver(f, Requests) /\ AllWritten' = SumOver(g, Requests)
    BY DEF AllWritten
  <1> HIDE DEF f, g
  <1>10. SumOver(g, Requests) = SumOver(f, Requests) + (g[r] - f[r])
    <2>1. IsFiniteSet(Requests)
      BY PipelineAssumption
    <2>2. QED
      BY <2>1, <1>6, <1>7, SumPoint
  <1>11. QED
    BY <1>8, <1>9, <1>10

(* Steps that write neither the row nor the credits leave the sum alone. *)
LEMMA WrittenUnchanged ==
  ASSUME credits' = credits
  PROVE  AllWritten' = AllWritten
  BY DEF AllWritten, Written

(* Every step keeps the handler alone until a worker crashes or an account *)
(* is closed: the worker takes a message only when it holds none.          *)
LEMMA StepKeepsBalance == BalanceInv /\ [Next]_vars => BalanceInv'
  <1> SUFFICES ASSUME BalanceInv, [Next]_vars PROVE BalanceInv'
    OBVIOUS
  <1>1. IInv /\ IInv' /\ TypeOK /\ TypeOK'
    BY StepPreserves DEF BalanceInv, IInv
  <1>2. SUFFICES ASSUME crashes' = 0, closes' = 0
                 PROVE  Alone' /\ portfolio'.cash = OpeningCash + AllWritten'
    BY <1>1 DEF BalanceInv
  <1>3. crashes = 0 /\ closes = 0
    <2>1. crashes' \in {crashes, crashes + 1} /\ closes' \in {closes, closes + 1}
      BY DEF Next, Initiate, CreateRecurringDeposit, PublishRequest, Deliver,
             HandleACHTransferRequested, WorkerStep, Nack, PublishSettled, Ack, CallStep,
             BankTransfer, ReadPortfolio, WritePortfolio, OrphanReturns, Fail, CallFails,
             PublishSettledFails, WorkerCrash, Close, CloseReads, CloseWrites, vars
    <2>2. crashes \in Nat /\ closes \in Nat
      BY <1>1, PipelineAssumption DEF TypeOK
    <2>3. QED
      BY <1>2, <2>1, <2>2
  <1>4. Alone /\ portfolio.cash = OpeningCash + AllWritten
    BY <1>3 DEF BalanceInv
  <1>5. calls \in [Calls -> Call] /\ None \notin Calls /\ (handling = None <=> workerCall = None)
    BY <1>1, PipelineAssumption DEF TypeOK, Call
  <1>6. CASE Initiate \/ UNCHANGED vars \/ PublishSettled
    <2>1. UNCHANGED <<calls, workerCall, portfolio, closing, credits>>
      BY <1>6 DEF Initiate, CreateRecurringDeposit, PublishRequest, PublishSettled,
                  vars, workerVars, ledgerVars
    <2>2. QED
      BY <1>4, <2>1, WrittenUnchanged DEF Alone
  <1>7. ASSUME NEW r \in Requests, NEW c \in Calls, HandleACHTransferRequested(r, c)
        PROVE  Alone' /\ portfolio'.cash = OpeningCash + AllWritten'
    <2>1. /\ handling = None /\ workerCall' = c
          /\ calls' = [calls EXCEPT ![c].pc = "bank", ![c].request = r]
          /\ UNCHANGED <<portfolio, closing, credits>>
      BY <1>7 DEF HandleACHTransferRequested, ledgerVars
    <2>2. \A d \in Calls : calls[d].pc = "free"
      BY <1>4, <1>5, <2>1 DEF Alone
    <2>3. Alone'
      BY <1>4, <1>5, <2>1, <2>2 DEF Alone, Call
    <2>4. QED
      BY <1>4, <2>1, <2>3, WrittenUnchanged
  <1>8. CASE Nack \/ Ack \/ PublishSettledFails
    <2>1. /\ handling # None
          /\ calls' = [calls EXCEPT ![workerCall] = FreeCall]
          /\ UNCHANGED <<portfolio, closing, credits>>
      BY <1>1, <1>8 DEF Nack, Ack, PublishSettledFails, IInv, Holding, ledgerVars
    <2>2. \A d \in Calls : calls'[d].pc = "free"
      BY <1>4, <1>5, <2>1 DEF Alone, FreeCall
    <2>3. Alone'
      BY <1>4, <2>1, <2>2 DEF Alone
    <2>4. QED
      BY <1>4, <2>1, <2>3, WrittenUnchanged
  <1>9. ASSUME NEW c \in Calls, BankTransfer(c) \/ CallFails(c) \/ OrphanReturns(c)
        PROVE  Alone' /\ portfolio'.cash = OpeningCash + AllWritten'
    <2>1. /\ calls[c].pc # "free"
          /\ UNCHANGED <<workerCall, portfolio, closing, credits>>
          /\ \/ calls' = [calls EXCEPT ![c].pc = "read"]
             \/ calls' = [calls EXCEPT ![c].pc = "error"]
             \/ calls' = [calls EXCEPT ![c] = FreeCall]
      BY <1>9 DEF BankTransfer, CallFails, OrphanReturns, workerVars, ledgerVars
    <2>2. Alone'
      BY <1>4, <1>5, <2>1 DEF Alone, FreeCall, Call
    <2>3. QED
      BY <1>4, <2>1, <2>2, WrittenUnchanged
  <1>10. ASSUME NEW c \in Calls, ReadPortfolio(c)
         PROVE  Alone' /\ portfolio'.cash = OpeningCash + AllWritten'
    <2>1. /\ calls[c].pc = "read"
          /\ calls' = [calls EXCEPT ![c].pc = "write", ![c].row = portfolio]
          /\ UNCHANGED <<workerCall, portfolio, closing, credits>>
      BY <1>10 DEF ReadPortfolio, workerVars, ledgerVars
    <2>2. Alone'
      BY <1>4, <1>5, <2>1 DEF Alone, Call
    <2>3. QED
      BY <1>4, <2>1, <2>2, WrittenUnchanged
  <1>11. ASSUME NEW c \in Calls, WritePortfolio(c)
         PROVE  Alone' /\ portfolio'.cash = OpeningCash + AllWritten'
    <2> DEFINE r == calls[c].request
    <2>1. /\ calls[c].pc = "write"
          /\ calls' = [calls EXCEPT ![c].pc = "ok"]
          /\ UNCHANGED <<workerCall, closing>>
      BY <1>11 DEF WritePortfolio, workerVars
    <2>2. c = workerCall /\ calls[c].row = portfolio /\ r \in Requests
      BY <1>1, <1>4, <2>1 DEF Alone, IInv, Holding
    <2>3. \A d \in Calls : calls'[d].pc # "write"
      BY <1>4, <1>5, <2>1, <2>2 DEF Alone, Call
    <2>4. Alone'
      BY <1>4, <1>5, <2>1, <2>2, <2>3 DEF Alone, Call
    <2>5. CASE /\ portfolio' = [cash |-> calls[c].row.cash + Delta[r],
                                status |-> calls[c].row.status]
               /\ credits' = [credits EXCEPT ![r] = @ + 1]
      <3>1. AllWritten' = AllWritten + Delta[r]
        BY <1>1, <2>2, <2>5, WrittenOnceMore
      <3>2. portfolio'.cash = portfolio.cash + Delta[r]
        BY <2>2, <2>5
      <3>3. AllWritten \in Int /\ Delta[r] \in Int /\ OpeningCash \in Int
        BY <1>1, <2>2, WrittenType, PipelineAssumption
      <3> HIDE DEF r
      <3>4. QED
        BY <1>4, <2>4, <3>1, <3>2, <3>3
    <2>6. CASE UNCHANGED <<portfolio, credits>>
      BY <1>4, <2>4, <2>6, WrittenUnchanged
    <2>7. QED
      BY <1>11, <2>5, <2>6 DEF WritePortfolio
  <1>12. CASE WorkerCrash
    BY <1>1, <1>2, <1>3, <1>12 DEF WorkerCrash
  <1>13. CASE CloseReads
    BY <1>1, <1>2, <1>3, <1>13 DEF CloseReads
  <1>14. CASE CloseWrites
    BY <1>4, <1>14 DEF CloseWrites, Alone
  <1>15. QED
    BY <1>6, <1>7, <1>8, <1>9, <1>10, <1>11, <1>12, <1>13, <1>14
       DEF Next, Deliver, WorkerStep, CallStep, Fail, Close

(* UpdatePortfolioBalance loses no update although it reads and rewrites   *)
(* the row without a lock, as long as no worker crashes and no account is  *)
(* closed: the router's one message at a time is enough, for any number of *)
(* requests, handlers and failed calls.                                    *)
THEOREM NoUpdateLost == Spec => []BalanceIsSumOfCredits
  <1>1. Init => BalanceInv
    <2> SUFFICES ASSUME Init PROVE BalanceInv
      OBVIOUS
    <2>1. \A r \in Requests : [q \in Requests |-> Written(q)][r] = 0
      BY PipelineAssumption DEF Init, Written, Zero
    <2>2. AllWritten = 0
      BY <2>1, SumZero, PipelineAssumption DEF AllWritten
    <2>3. Alone
      BY DEF Init, Alone, FreeCall
    <2>4. portfolio.cash = OpeningCash + AllWritten
      BY <2>2, PipelineAssumption DEF Init, OpeningRow
    <2>5. QED
      BY <2>3, <2>4, InitEstablishes DEF BalanceInv
  <1>2. BalanceInv => BalanceIsSumOfCredits
    BY DEF BalanceInv, BalanceIsSumOfCredits, AllWritten, Written
  <1>3. QED
    BY <1>1, <1>2, StepKeepsBalance, PTL DEF Spec
=============================================================================
