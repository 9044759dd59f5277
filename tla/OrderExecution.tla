--------------------------- MODULE OrderExecution ---------------------------
(***************************************************************************)
(* A customer's order on its way through the services.  customer-bll       *)
(* resolves the feline executive in charge, asks workforce-api whether an  *)
(* emergency medical hold is active, sends the order to the broker, has    *)
(* core-invest-api record it, publishes order_placed and answers.  Every   *)
(* one of these is a call of its own that may fail, while holds are put on *)
(* and lifted and the broker fills and cancels orders.                     *)
(*                                                                         *)
(* A slot is one of the requests customer-bll handles at the same time; it *)
(* keeps the traces of its last request until the next one takes it.  The  *)
(* deployed wiring is modelled: customer-bll has a broker client,          *)
(* core-invest-api has none.                                               *)
(***************************************************************************)
EXTENDS FiniteSets

CONSTANTS Slots, Felines

(* Without a feline executive no order is ever sent. *)
ASSUME FelineAssumption == Felines # {}

VARIABLES hold,      \* emergency_medical_hold of the care schedules
          phase,     \* per slot: the call that is next, or idle
          kind,      \* market or limit
          target,    \* the feline whose hold decides
          broker,    \* the order at the broker
          rows,      \* rows of core_invest.brokerage_orders
          placed,    \* slots whose order_placed event was published
          answer,    \* what the customer was told
          offSeen,   \* history: felines not on hold at some moment of the request
          unheard    \* history: slots whose request was cut off, or the broker's answer lost

orderVars == <<kind, target, broker, rows, placed, answer>>
vars == <<hold, phase, orderVars, offSeen, unheard>>

Phases == {"idle", "arrived", "resolved", "cleared", "sent", "pending row", "executed row", "event"}
BrokerStatus == {"none", "accepted", "filled", "canceled"}
RowStatus == {"pending", "executed"}

TypeOK ==
  /\ hold \in [Felines -> BOOLEAN]
  /\ phase \in [Slots -> Phases]
  /\ kind \in [Slots -> {"market", "limit"}]
  /\ target \in [Slots -> Felines]
  /\ broker \in [Slots -> BrokerStatus]
  /\ rows \in [Slots -> SUBSET RowStatus]
  /\ placed \subseteq Slots
  /\ answer \in [Slots -> {"none", "error", "accepted", "filled"}]
  /\ \A s \in Slots : answer[s] # "none" => phase[s] = "idle"
  /\ offSeen \in [Slots -> SUBSET Felines]
  /\ unheard \subseteq Slots

Init ==
  /\ hold \in [Felines -> BOOLEAN]
  /\ phase = [s \in Slots |-> "idle"]
  /\ kind \in [Slots -> {"market"}]
  /\ target \in [Slots -> {CHOOSE f \in Felines : TRUE}]
  /\ broker = [s \in Slots |-> "none"]
  /\ rows = [s \in Slots |-> {}]
  /\ placed = {}
  /\ answer = [s \in Slots |-> "none"]
  /\ offSeen = [s \in Slots |-> {}]
  /\ unheard = {}

Goto(s, p) == phase' = [phase EXCEPT ![s] = p]

(* The request ends and the customer is told a. *)
Answer(s, a) ==
  /\ Goto(s, "idle")
  /\ answer' = [answer EXCEPT ![s] = a]

-----------------------------------------------------------------------------
(* toggleEmergencyMedicalHold, and saving a care schedule, which carries   *)
(* the same flag.                                                          *)
SetEmergencyMedicalHold(f, on) ==
  /\ hold' = [hold EXCEPT ![f] = on]
  /\ offSeen' = [s \in Slots |-> IF on THEN offSeen[s] ELSE offSeen[s] \cup {f}]
  /\ UNCHANGED <<phase, orderVars, unheard>>

(* handleCreateOrder: a well-formed request. *)
HandleCreateOrder(s, k) ==
  /\ phase[s] = "idle"
  /\ Goto(s, "arrived")
  /\ kind' = [kind EXCEPT ![s] = k]
  /\ broker' = [broker EXCEPT ![s] = "none"]
  /\ rows' = [rows EXCEPT ![s] = {}]
  /\ placed' = placed \ {s}
  /\ answer' = [answer EXCEPT ![s] = "none"]
  /\ offSeen' = [offSeen EXCEPT ![s] = {f \in Felines : ~hold[f]}]
  /\ unheard' = unheard \ {s}
  /\ UNCHANGED <<hold, target>>

(* The portal names no feline: the configured one, or the first active one *)
(* of workforce-api, decides.                                              *)
ResolveTargetFeline(s) ==
  /\ phase[s] = "arrived"
  /\ \/ \E f \in Felines : target' = [target EXCEPT ![s] = f] /\ Goto(s, "resolved") /\ UNCHANGED answer
     \/ Answer(s, "error") /\ UNCHANGED target
  /\ UNCHANGED <<hold, kind, broker, rows, placed, offSeen, unheard>>

(* Mutant: an order passes when workforce-api cannot be asked. *)
CheckFailsOpen(s) ==
  /\ phase[s] = "resolved"
  /\ \/ Goto(s, "cleared") /\ UNCHANGED answer
     \/ hold[target[s]] /\ Answer(s, "error")
  /\ UNCHANGED <<hold, kind, target, broker, rows, placed, offSeen, unheard>>

(* checkFelineMedicalHold fails closed. *)
CheckFelineMedicalHold(s) ==
  /\ phase[s] = "resolved"
  /\ \/ ~hold[target[s]] /\ Goto(s, "cleared") /\ UNCHANGED answer
     \/ Answer(s, "error")
  /\ UNCHANGED <<hold, kind, target, broker, rows, placed, offSeen, unheard>>

(* Mutant: a refusal of the broker is taken for an acceptance. *)
RefusalIgnored(s) ==
  /\ phase[s] = "cleared"
  /\ Goto(s, "pending row")
  /\ UNCHANGED <<hold, orderVars, offSeen, unheard>>

(* The broker executes a market order at once and keeps a limit order, or  *)
(* refuses, or is not reached.                                             *)
BrokerCreateOrder(s) ==
  /\ phase[s] = "cleared"
  /\ \/ /\ broker' = [broker EXCEPT ![s] = IF kind[s] = "market" THEN "filled" ELSE "accepted"]
        /\ Goto(s, "sent")
        /\ UNCHANGED answer
     \/ Answer(s, "error") /\ UNCHANGED broker
  /\ UNCHANGED <<hold, kind, target, rows, placed, offSeen, unheard>>

(* The broker's answer arrives, or does not within the client's timeout:   *)
(* the order is then reported as rejected.                                 *)
BrokerAnswers(s) ==
  /\ phase[s] = "sent"
  /\ \/ Goto(s, "pending row") /\ UNCHANGED <<answer, unheard>>
     \/ Answer(s, "error") /\ unheard' = unheard \cup {s}
  /\ UNCHANGED <<hold, kind, target, broker, rows, placed, offSeen>>

-----------------------------------------------------------------------------
(* A row is inserted, or not; customer-bll goes on either way. *)
Insert(s, status) ==
  \/ rows' = [rows EXCEPT ![s] = @ \cup {status}]
  \/ UNCHANGED rows

(* core-invest-api first tries to execute the order itself: it inserts a   *)
(* pending row and finds that it has no broker.                            *)
ExecuteBrokerageOrder(s) ==
  /\ phase[s] = "pending row"
  /\ Insert(s, "pending")
  /\ Goto(s, "executed row")
  /\ UNCHANGED <<hold, kind, target, broker, placed, answer, offSeen, unheard>>

(* Mutant: an order that cannot be recorded is answered with an error. *)
RecordOrFail(s) ==
  /\ phase[s] = "executed row"
  /\ \/ rows' = [rows EXCEPT ![s] = @ \cup {"executed"}] /\ Goto(s, "event") /\ UNCHANGED answer
     \/ Answer(s, "error") /\ UNCHANGED rows
  /\ UNCHANGED <<hold, kind, target, broker, placed, offSeen, unheard>>

(* Then it inserts a second row, already executed. *)
CreateBrokerageOrder(s) ==
  /\ phase[s] = "executed row"
  /\ Insert(s, "executed")
  /\ Goto(s, "event")
  /\ UNCHANGED <<hold, kind, target, broker, placed, answer, offSeen, unheard>>

(* The event is published, or lost; the customer is told the status the    *)
(* broker answered with.                                                   *)
PublishOrderPlaced(s) ==
  /\ phase[s] = "event"
  /\ placed' \in {placed, placed \cup {s}}
  /\ Answer(s, IF kind[s] = "market" THEN "filled" ELSE "accepted")
  /\ UNCHANGED <<hold, kind, target, broker, rows, offSeen, unheard>>

(* customer-bll dies or the request's context is canceled. *)
CutOff(s) ==
  /\ phase[s] # "idle"
  /\ Answer(s, "error")
  /\ unheard' = unheard \cup {s}
  /\ UNCHANGED <<hold, kind, target, broker, rows, placed, offSeen>>

-----------------------------------------------------------------------------
(* MockBroker fills or cancels a resting order. *)
BrokerSettles(s) ==
  /\ broker[s] = "accepted"
  /\ \E b \in {"filled", "canceled"} : broker' = [broker EXCEPT ![s] = b]
  /\ UNCHANGED <<hold, phase, kind, target, rows, placed, answer, offSeen, unheard>>

ValidateAndExecuteOrder(s) ==
  \/ ResolveTargetFeline(s) \/ CheckFelineMedicalHold(s)
  \/ BrokerCreateOrder(s) \/ BrokerAnswers(s)
  \/ ExecuteBrokerageOrder(s) \/ CreateBrokerageOrder(s) \/ PublishOrderPlaced(s)

Next ==
  \/ \E f \in Felines, on \in BOOLEAN : SetEmergencyMedicalHold(f, on)
  \/ \E s \in Slots :
       \/ \E k \in {"market", "limit"} : HandleCreateOrder(s, k)
       \/ ValidateAndExecuteOrder(s) \/ CutOff(s) \/ BrokerSettles(s)

Spec == Init /\ [][Next]_vars

(* Every call of the chain returns, if only by its timeout. *)
FairSpec == Spec /\ \A s \in Slots : WF_vars(ValidateAndExecuteOrder(s))

-----------------------------------------------------------------------------
(* An order reaches the broker only if its feline was off hold at some     *)
(* moment between the request's arrival and the check; a hold that was on  *)
(* all that time stops it, whatever fails.                                 *)
HoldRespected == \A s \in Slots : broker[s] # "none" => target[s] \in offSeen[s]

(* Nothing tells of an order that the broker does not have: no success     *)
(* answer, event or row, and an order answered as filled is filled.        *)
OrdersReal ==
  \A s \in Slots :
    /\ (s \in placed \/ rows[s] # {} \/ answer[s] \in {"accepted", "filled"}) => broker[s] # "none"
    /\ answer[s] = "filled" => broker[s] = "filled"

(* An order the customer was told has failed may still trade only if the   *)
(* request was cut off or the broker's answer was lost: a failure to       *)
(* record or announce an order is not reported as a failure to place it.   *)
ErrorsExplained ==
  \A s \in Slots : answer[s] = "error" /\ broker[s] # "none" => s \in unheard

(* A hold that stays on eventually stops trading under that feline, the    *)
(* requests that had passed the check before included.                     *)
HoldTakesEffect ==
  \A f \in Felines :
    <>[]hold[f] => <>[](\A s \in Slots : target[s] = f => phase[s] \notin {"cleared", "sent"})

(* CreateOrder of core-invest-api: "customer-bll has already executed the  *)
(* order against the broker and calls CreateOrder to persist it" -- a row  *)
(* that says executed is of an executed order.                             *)
RecordedIsExecuted == \A s \in Slots : "executed" \in rows[s] => broker[s] = "filled"
=============================================================================
