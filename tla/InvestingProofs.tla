--------------------------- MODULE InvestingProofs ---------------------------
(***************************************************************************)
(* Theorems about a customer's orders, the two cached answers, and the     *)
(* broker that fills the orders.                                           *)
(*                                                                         *)
(* Orders, for any number of concurrent requests and felines: none of the  *)
(* three properties is inductive.  A request past the hold check must be   *)
(* known to have seen its feline off hold, and one past the broker call to *)
(* have its order there; IInv adds both.                                   *)
(*                                                                         *)
(* The cached portfolio, for any customers, portfolios and readers: the    *)
(* property is inductive as soon as the counters are known to stay in      *)
(* their types, which takes that no eviction is owed for more changes than *)
(* there were.                                                             *)
(*                                                                         *)
(* The page about the cats, for any cats, viewers, times to live and slow  *)
(* requests: a page cannot be told stale from itself, so the invariant     *)
(* follows an answer of workforce through the three places it is kept --   *)
(* the request, customer-bll's list, the portal's cache -- and bounds in   *)
(* each how late it may be.  The bounds add up to the lag of the property. *)
(*                                                                         *)
(* The broker, for every set of accounts and orders, every range of        *)
(* quantities, limits and quotes, and any number of ticks.                 *)
(***************************************************************************)
EXTENDS Investing, MockBroker, SumTheorems, TLAPS

-----------------------------------------------------------------------------
(***************************************************************************)
(* The orders.                                                             *)
(***************************************************************************)

(* The phases after the broker took the order. *)
Taken == {"sent", "pending row", "executed row", "event"}

(* A request past the check has seen its feline off hold; one past the     *)
(* broker call has its order at the broker, filled if it is a market one;  *)
(* before, there is no order; one off hold now has been seen so.           *)
Progress ==
  \A s \in Slots :
    /\ phase[s] \in {"cleared"} \cup Taken => target[s] \in offSeen[s]
    /\ phase[s] \in Taken => /\ broker[s] # "none"
                             /\ kind[s] = "market" => broker[s] = "filled"
    /\ phase[s] \in {"arrived", "resolved", "cleared"} => broker[s] = "none"
    /\ phase[s] # "idle" => \A f \in Felines : ~hold[f] => f \in offSeen[s]

IInv == TypeOK /\ Progress /\ HoldRespected /\ OrdersReal /\ ErrorsExplained

(* The initial states satisfy the inductive invariant. *)
LEMMA InitEstablishes == Init => IInv
  <1>1. (CHOOSE f \in Felines : TRUE) \in Felines
    BY FelineAssumption
  <1>2. QED
    BY <1>1 DEF Init, IInv, TypeOK, Progress, Taken, HoldRespected, OrdersReal, ErrorsExplained, Phases, BrokerStatus, RowStatus

(* Putting a hold on or off moves no request; lifting one is seen by all. *)
LEMMA SetEmergencyMedicalHoldPreserves ==
  ASSUME IInv, NEW f \in Felines, NEW on \in BOOLEAN, SetEmergencyMedicalHold(f, on)
  PROVE  IInv'
  <1>1. TypeOK'
    <2>1. hold' \in [Felines -> BOOLEAN]
      BY DEF SetEmergencyMedicalHold, orderVars, IInv, TypeOK
    <2>2. offSeen' \in [Slots -> SUBSET Felines]
      BY DEF SetEmergencyMedicalHold, orderVars, IInv, TypeOK
    <2>3. UNCHANGED <<phase, kind, target, broker, rows, placed, answer, unheard>>
      BY DEF SetEmergencyMedicalHold, orderVars
    <2>4. QED
      BY <2>1, <2>2, <2>3 DEF SetEmergencyMedicalHold, orderVars, IInv, TypeOK
  <1>2. Progress'
    BY DEF SetEmergencyMedicalHold, orderVars, IInv, TypeOK, Progress, Taken
  <1>3. HoldRespected'
    BY DEF SetEmergencyMedicalHold, orderVars, IInv, TypeOK, Progress, Taken, HoldRespected
  <1>4. OrdersReal'
    BY DEF SetEmergencyMedicalHold, orderVars, IInv, TypeOK, Progress, Taken, OrdersReal
  <1>5. ErrorsExplained'
    BY DEF SetEmergencyMedicalHold, orderVars, IInv, TypeOK, Progress, Taken, ErrorsExplained
  <1>6. QED
    BY <1>1, <1>2, <1>3, <1>4, <1>5 DEF IInv

(* A new request clears the slot. *)
LEMMA HandleCreateOrderPreserves ==
  ASSUME IInv, NEW s \in Slots, NEW k \in {"market", "limit"}, HandleCreateOrder(s, k)
  PROVE  IInv'
  <1>1. TypeOK'
    BY DEF HandleCreateOrder, Goto, IInv, TypeOK, Phases, BrokerStatus, RowStatus
  <1>2. Progress'
    BY DEF HandleCreateOrder, Goto, IInv, TypeOK, Progress, Taken
  <1>3. HoldRespected'
    BY DEF HandleCreateOrder, Goto, IInv, TypeOK, Progress, Taken, HoldRespected
  <1>4. OrdersReal'
    BY DEF HandleCreateOrder, Goto, IInv, TypeOK, Progress, Taken, OrdersReal
  <1>5. ErrorsExplained'
    BY DEF HandleCreateOrder, Goto, IInv, TypeOK, Progress, Taken, ErrorsExplained
  <1>6. QED
    BY <1>1, <1>2, <1>3, <1>4, <1>5 DEF IInv

(* The steps of ValidateAndExecuteOrder. *)
LEMMA ResolveTargetFelinePreserves ==
  ASSUME IInv, NEW s \in Slots, ResolveTargetFeline(s)
  PROVE  IInv'
  <1>1. TypeOK'
    <2>1. target' \in [Slots -> Felines]
      <3>1. CASE UNCHANGED target
        BY <3>1 DEF IInv, TypeOK
      <3>2. CASE \E f \in Felines : target' = [target EXCEPT ![s] = f]
        BY <3>2 DEF IInv, TypeOK
      <3>3. QED
        BY <3>1, <3>2 DEF ResolveTargetFeline, Goto, Answer
    <2>2. phase' \in [Slots -> Phases]
      <3>1. \E p \in {"resolved", "idle"} : phase' = [phase EXCEPT ![s] = p]
        BY DEF ResolveTargetFeline, Goto, Answer
      <3>2. QED
        BY <3>1 DEF IInv, TypeOK, Phases
    <2>3. answer' \in [Slots -> {"none", "error", "accepted", "filled"}]
      BY DEF ResolveTargetFeline, Goto, Answer, IInv, TypeOK
    <2>4. \A t \in Slots : answer'[t] # "none" => phase'[t] = "idle"
      BY DEF ResolveTargetFeline, Goto, Answer, IInv, TypeOK
    <2>5. QED
      BY <2>1, <2>2, <2>3, <2>4 DEF ResolveTargetFeline, Goto, Answer, IInv, TypeOK
  <1>2. Progress'
    BY DEF ResolveTargetFeline, Goto, Answer, IInv, TypeOK, Progress, Taken
  <1>3. HoldRespected'
    BY DEF ResolveTargetFeline, Goto, Answer, IInv, TypeOK, Progress, Taken, HoldRespected
  <1>4. OrdersReal'
    BY DEF ResolveTargetFeline, Goto, Answer, IInv, TypeOK, Progress, Taken, OrdersReal
  <1>5. ErrorsExplained'
    BY DEF ResolveTargetFeline, Goto, Answer, IInv, TypeOK, Progress, Taken, ErrorsExplained
  <1>6. QED
    BY <1>1, <1>2, <1>3, <1>4, <1>5 DEF IInv

(* CheckFelineMedicalHold keeps the inductive invariant. *)
LEMMA CheckFelineMedicalHoldPreserves ==
  ASSUME IInv, NEW s \in Slots, CheckFelineMedicalHold(s)
  PROVE  IInv'
  <1>1. TypeOK'
    BY DEF CheckFelineMedicalHold, Goto, Answer, IInv, TypeOK, Phases, BrokerStatus, RowStatus
  <1>2. Progress'
    BY DEF CheckFelineMedicalHold, Goto, Answer, IInv, TypeOK, Progress, Taken
  <1>3. HoldRespected'
    BY DEF CheckFelineMedicalHold, Goto, Answer, IInv, TypeOK, Progress, Taken, HoldRespected
  <1>4. OrdersReal'
    BY DEF CheckFelineMedicalHold, Goto, Answer, IInv, TypeOK, Progress, Taken, OrdersReal
  <1>5. ErrorsExplained'
    BY DEF CheckFelineMedicalHold, Goto, Answer, IInv, TypeOK, Progress, Taken, ErrorsExplained
  <1>6. QED
    BY <1>1, <1>2, <1>3, <1>4, <1>5 DEF IInv

(* BrokerCreateOrder keeps the inductive invariant. *)
LEMMA BrokerCreateOrderPreserves ==
  ASSUME IInv, NEW s \in Slots, BrokerCreateOrder(s)
  PROVE  IInv'
  <1>1. TypeOK'
    <2>1. broker' \in [Slots -> BrokerStatus]
      BY DEF BrokerCreateOrder, IInv, TypeOK, BrokerStatus
    <2>2. phase' \in [Slots -> Phases]
      <3>1. \E p \in Phases : phase' = [phase EXCEPT ![s] = p]
        BY DEF BrokerCreateOrder, Goto, Answer, Phases
      <3>2. phase \in [Slots -> Phases]
        BY DEF IInv, TypeOK
      <3>3. QED
        BY <3>1, <3>2
    <2>3. answer' \in [Slots -> {"none", "error", "accepted", "filled"}]
      BY DEF BrokerCreateOrder, Goto, Answer, IInv, TypeOK
    <2>4. \A t \in Slots : answer'[t] # "none" => phase'[t] = "idle"
      BY DEF BrokerCreateOrder, Goto, Answer, IInv, TypeOK
    <2>5. UNCHANGED <<hold, kind, target, rows, placed, offSeen, unheard>>
      BY DEF BrokerCreateOrder
    <2>6. QED
      BY <2>1, <2>2, <2>3, <2>4, <2>5 DEF IInv, TypeOK
  <1>2. Progress'
    BY DEF BrokerCreateOrder, Goto, Answer, IInv, TypeOK, Progress, Taken
  <1>3. HoldRespected'
    BY DEF BrokerCreateOrder, Goto, Answer, IInv, TypeOK, Progress, Taken, HoldRespected
  <1>4. OrdersReal'
    BY DEF BrokerCreateOrder, Goto, Answer, IInv, TypeOK, Progress, Taken, OrdersReal
  <1>5. ErrorsExplained'
    BY DEF BrokerCreateOrder, Goto, Answer, IInv, TypeOK, Progress, Taken, ErrorsExplained
  <1>6. QED
    BY <1>1, <1>2, <1>3, <1>4, <1>5 DEF IInv

(* BrokerAnswers keeps the inductive invariant. *)
LEMMA BrokerAnswersPreserves ==
  ASSUME IInv, NEW s \in Slots, BrokerAnswers(s)
  PROVE  IInv'
  <1>1. TypeOK'
    BY DEF BrokerAnswers, Goto, Answer, IInv, TypeOK, Phases, BrokerStatus, RowStatus
  <1>2. Progress'
    BY DEF BrokerAnswers, Goto, Answer, IInv, TypeOK, Progress, Taken
  <1>3. HoldRespected'
    BY DEF BrokerAnswers, Goto, Answer, IInv, TypeOK, Progress, Taken, HoldRespected
  <1>4. OrdersReal'
    BY DEF BrokerAnswers, Goto, Answer, IInv, TypeOK, Progress, Taken, OrdersReal
  <1>5. ErrorsExplained'
    BY DEF BrokerAnswers, Goto, Answer, IInv, TypeOK, Progress, Taken, ErrorsExplained
  <1>6. QED
    BY <1>1, <1>2, <1>3, <1>4, <1>5 DEF IInv

(* ExecuteBrokerageOrder keeps the inductive invariant. *)
LEMMA ExecuteBrokerageOrderPreserves ==
  ASSUME IInv, NEW s \in Slots, ExecuteBrokerageOrder(s)
  PROVE  IInv'
  <1>1. TypeOK'
    <2>1. rows' \in [Slots -> SUBSET RowStatus]
      <3>1. \A r \in SUBSET RowStatus : r \cup {"pending"} \in SUBSET RowStatus
        BY DEF RowStatus
      <3>2. QED
        BY <3>1 DEF ExecuteBrokerageOrder, Goto, Insert, IInv, TypeOK
    <2>2. phase' \in [Slots -> Phases]
      BY DEF ExecuteBrokerageOrder, Goto, Insert, IInv, TypeOK, Phases
    <2>3. \A t \in Slots : answer'[t] # "none" => phase'[t] = "idle"
      BY DEF ExecuteBrokerageOrder, Goto, Insert, IInv, TypeOK
    <2>4. QED
      BY <2>1, <2>2, <2>3 DEF ExecuteBrokerageOrder, Goto, Insert, IInv, TypeOK
  <1>2. Progress'
    BY DEF ExecuteBrokerageOrder, Goto, Insert, IInv, TypeOK, Progress, Taken
  <1>3. HoldRespected'
    BY DEF ExecuteBrokerageOrder, Goto, Insert, IInv, TypeOK, Progress, Taken, HoldRespected
  <1>4. OrdersReal'
    BY DEF ExecuteBrokerageOrder, Goto, Insert, IInv, TypeOK, Progress, Taken, OrdersReal
  <1>5. ErrorsExplained'
    BY DEF ExecuteBrokerageOrder, Goto, Insert, IInv, TypeOK, Progress, Taken, ErrorsExplained
  <1>6. QED
    BY <1>1, <1>2, <1>3, <1>4, <1>5 DEF IInv

(* CreateBrokerageOrder keeps the inductive invariant. *)
LEMMA CreateBrokerageOrderPreserves ==
  ASSUME IInv, NEW s \in Slots, CreateBrokerageOrder(s)
  PROVE  IInv'
  <1>1. TypeOK'
    <2>1. rows' \in [Slots -> SUBSET RowStatus]
      <3>1. \A r \in SUBSET RowStatus : r \cup {"executed"} \in SUBSET RowStatus
        BY DEF RowStatus
      <3>2. QED
        BY <3>1 DEF CreateBrokerageOrder, Goto, Insert, IInv, TypeOK
    <2>2. phase' \in [Slots -> Phases]
      BY DEF CreateBrokerageOrder, Goto, Insert, IInv, TypeOK, Phases
    <2>3. \A t \in Slots : answer'[t] # "none" => phase'[t] = "idle"
      BY DEF CreateBrokerageOrder, Goto, Insert, IInv, TypeOK
    <2>4. QED
      BY <2>1, <2>2, <2>3 DEF CreateBrokerageOrder, Goto, Insert, IInv, TypeOK
  <1>2. Progress'
    BY DEF CreateBrokerageOrder, Goto, Insert, IInv, TypeOK, Progress, Taken
  <1>3. HoldRespected'
    BY DEF CreateBrokerageOrder, Goto, Insert, IInv, TypeOK, Progress, Taken, HoldRespected
  <1>4. OrdersReal'
    BY DEF CreateBrokerageOrder, Goto, Insert, IInv, TypeOK, Progress, Taken, OrdersReal
  <1>5. ErrorsExplained'
    BY DEF CreateBrokerageOrder, Goto, Insert, IInv, TypeOK, Progress, Taken, ErrorsExplained
  <1>6. QED
    BY <1>1, <1>2, <1>3, <1>4, <1>5 DEF IInv

(* PublishOrderPlaced keeps the inductive invariant. *)
LEMMA PublishOrderPlacedPreserves ==
  ASSUME IInv, NEW s \in Slots, PublishOrderPlaced(s)
  PROVE  IInv'
  <1>1. TypeOK'
    BY DEF PublishOrderPlaced, Goto, Answer, IInv, TypeOK, Phases, BrokerStatus, RowStatus
  <1>2. Progress'
    BY DEF PublishOrderPlaced, Goto, Answer, IInv, TypeOK, Progress, Taken
  <1>3. HoldRespected'
    BY DEF PublishOrderPlaced, Goto, Answer, IInv, TypeOK, Progress, Taken, HoldRespected
  <1>4. OrdersReal'
    BY DEF PublishOrderPlaced, Goto, Answer, IInv, TypeOK, Progress, Taken, OrdersReal
  <1>5. ErrorsExplained'
    BY DEF PublishOrderPlaced, Goto, Answer, IInv, TypeOK, Progress, Taken, ErrorsExplained
  <1>6. QED
    BY <1>1, <1>2, <1>3, <1>4, <1>5 DEF IInv

(* What happens around a request. *)
LEMMA CutOffPreserves ==
  ASSUME IInv, NEW s \in Slots, CutOff(s)
  PROVE  IInv'
  <1>1. TypeOK'
    BY DEF CutOff, Goto, Answer, IInv, TypeOK, Phases, BrokerStatus, RowStatus
  <1>2. Progress'
    BY DEF CutOff, Goto, Answer, IInv, TypeOK, Progress, Taken
  <1>3. HoldRespected'
    BY DEF CutOff, Goto, Answer, IInv, TypeOK, Progress, Taken, HoldRespected
  <1>4. OrdersReal'
    BY DEF CutOff, Goto, Answer, IInv, TypeOK, Progress, Taken, OrdersReal
  <1>5. ErrorsExplained'
    BY DEF CutOff, Goto, Answer, IInv, TypeOK, Progress, Taken, ErrorsExplained
  <1>6. QED
    BY <1>1, <1>2, <1>3, <1>4, <1>5 DEF IInv

(* BrokerSettles keeps the inductive invariant. *)
LEMMA BrokerSettlesPreserves ==
  ASSUME IInv, NEW s \in Slots, BrokerSettles(s)
  PROVE  IInv'
  <1>1. TypeOK'
    <2>1. broker' \in [Slots -> BrokerStatus]
      BY DEF BrokerSettles, IInv, TypeOK, BrokerStatus
    <2>2. QED
      BY <2>1 DEF BrokerSettles, IInv, TypeOK
  <1>2. Progress'
    BY DEF BrokerSettles, IInv, TypeOK, Progress, Taken
  <1>3. HoldRespected'
    BY DEF BrokerSettles, IInv, TypeOK, Progress, Taken, HoldRespected
  <1>4. OrdersReal'
    BY DEF BrokerSettles, IInv, TypeOK, Progress, Taken, OrdersReal
  <1>5. ErrorsExplained'
    BY DEF BrokerSettles, IInv, TypeOK, Progress, Taken, ErrorsExplained
  <1>6. QED
    BY <1>1, <1>2, <1>3, <1>4, <1>5 DEF IInv

(* The invariant holds in every reachable state. *)
LEMMA Inductive == Spec => []IInv
  <1>1. Init => IInv
    BY InitEstablishes
  <1>2. IInv /\ [Next]_vars => IInv'
    <2> SUFFICES ASSUME IInv, [Next]_vars PROVE IInv'
      OBVIOUS
    <2>1. ASSUME NEW f \in Felines, NEW on \in BOOLEAN, SetEmergencyMedicalHold(f, on) PROVE IInv'
      BY <2>1, SetEmergencyMedicalHoldPreserves
    <2>2. ASSUME NEW s \in Slots, NEW k \in {"market", "limit"}, HandleCreateOrder(s, k) PROVE IInv'
      BY <2>2, HandleCreateOrderPreserves
    <2>3. ASSUME NEW s \in Slots, ValidateAndExecuteOrder(s) PROVE IInv'
      BY <2>3, ResolveTargetFelinePreserves, CheckFelineMedicalHoldPreserves, BrokerCreateOrderPreserves,
         BrokerAnswersPreserves, ExecuteBrokerageOrderPreserves, CreateBrokerageOrderPreserves,
         PublishOrderPlacedPreserves DEF ValidateAndExecuteOrder
    <2>4. ASSUME NEW s \in Slots, CutOff(s) \/ BrokerSettles(s) PROVE IInv'
      BY <2>4, CutOffPreserves, BrokerSettlesPreserves
    <2>5. CASE UNCHANGED vars
      BY <2>5 DEF vars, orderVars, IInv, TypeOK, Progress, HoldRespected, OrdersReal, ErrorsExplained
    <2>6. QED
      BY <2>1, <2>2, <2>3, <2>4, <2>5 DEF Next
  <1>3. QED
    BY <1>1, <1>2, PTL DEF Spec

(* The types are kept, and a request is answered only when it is over. *)
THEOREM TypeCorrect == Spec => []TypeOK
  <1>1. IInv => TypeOK
    BY DEF IInv
  <1>2. QED
    BY <1>1, Inductive, PTL

(* ValidateAndExecuteOrder: however requests and holds interleave and      *)
(* whatever call fails, an order reaches the broker only if its feline was *)
(* off hold at some moment of the request.                                 *)
THEOREM HoldIsRespected == Spec => []HoldRespected
  <1>1. IInv => HoldRespected
    BY DEF IInv
  <1>2. QED
    BY <1>1, Inductive, PTL

(* ValidateAndExecuteOrder, CreateOrder: rows, events and success answers  *)
(* are of orders the broker has.                                           *)
THEOREM OrdersAreReal == Spec => []OrdersReal
  <1>1. IInv => OrdersReal
    BY DEF IInv
  <1>2. QED
    BY <1>1, Inductive, PTL

(* ValidateAndExecuteOrder: an order reported as failed trades only if the *)
(* request was cut off or the broker's answer was lost.                    *)
THEOREM ErrorsAreExplained == Spec => []ErrorsExplained
  <1>1. IInv => ErrorsExplained
    BY DEF IInv
  <1>2. QED
    BY <1>1, Inductive, PTL

-----------------------------------------------------------------------------
(***************************************************************************)
(* The portfolio cache.                                                    *)
(***************************************************************************)

(* What is owed and announced of a customer's books was changed before. *)
EvictionsCaused ==
  \A c \in Customers : owed[c] <= truth[c] /\ events[c] <= truth[c]

CacheInv == Cache!TypeOK /\ EvictionsCaused /\ Cache!StaleExplained

(* PortfolioCache adds as this module does. *)
LEMMA SameSum ==
  ASSUME NEW f, NEW S
  PROVE  Cache!SumOver(f, S) = SumOver(f, S)
BY DEF SumOver, Cache!SumOver

(* While changes are left each customer has one left. *)
LEMMA ChangeLeft ==
  ASSUME Cache!TypeOK, Cache!MoreChanges, NEW c \in Customers
  PROVE  truth[c] < MaxChanges
<1>1. IsFiniteSet(Customers) /\ MaxChanges \in Nat
  BY InvestingAssumption
<1>2. \A d \in Customers : truth[d] \in Nat
  BY <1>1 DEF Cache!TypeOK
<1>3. PICK n \in Nat : n = SumOver(truth, Customers)
  BY <1>1, <1>2, SumNat
<1>4. n < MaxChanges
  BY <1>3, SameSum DEF Cache!MoreChanges
<1>5. truth[c] <= n
  BY <1>1, <1>2, <1>3, SumBounds
<1> QED BY <1>1, <1>2, <1>4, <1>5

(* The entries after a deletion are entries; one that is live afterwards   *)
(* was so before and was not deleted, and is marked if it was to be.       *)
LEMMA DeletedEntries ==
  ASSUME Cache!TypeOK, NEW gone, NEW kept
  PROVE  /\ Cache!Deleted(gone, kept) \in [Cache!Keys -> Cache!Entry]
         /\ \A k \in Cache!Keys :
              LET after == Cache!Deleted(gone, kept)[k] IN
              /\ after.left > 0 => /\ k \notin gone
                                   /\ Cache!Live(k)
                                   /\ after.val = entries[k].val
                                   /\ entries[k].why \subseteq after.why
                                   /\ k \in kept => after.why # {}
<1>1. TTLPortfolioValuation \in Nat /\ MaxChanges \in Nat
  BY InvestingAssumption
<1>2. Cache!None \in Cache!Entry /\ Cache!None.left = 0
  BY <1>1 DEF Cache!None, Cache!Entry, Cache!Zero
<1>3. ASSUME NEW k \in Cache!Keys
      PROVE  /\ entries[k] \in Cache!Entry
             /\ [entries[k] EXCEPT !.why = @ \cup {"lost"}] \in Cache!Entry
             /\ [entries[k] EXCEPT !.why = @ \cup {"lost"}].why = entries[k].why \cup {"lost"}
             /\ [entries[k] EXCEPT !.why = @ \cup {"lost"}].val = entries[k].val
             /\ [entries[k] EXCEPT !.why = @ \cup {"lost"}].left = entries[k].left
  <2>1. entries[k] \in Cache!Entry
    BY DEF Cache!TypeOK
  <2> QED BY <2>1 DEF Cache!Entry, Cache!Reasons
<1>4. Cache!Deleted(gone, kept) \in [Cache!Keys -> Cache!Entry]
  BY <1>2, <1>3 DEF Cache!Deleted
<1>5. ASSUME NEW k \in Cache!Keys, Cache!Deleted(gone, kept)[k].left > 0
      PROVE  LET after == Cache!Deleted(gone, kept)[k] IN
              /\ k \notin gone
              /\ Cache!Live(k)
              /\ after.val = entries[k].val
              /\ entries[k].why \subseteq after.why
              /\ k \in kept => after.why # {}
  <2>1. k \notin gone
    BY <1>2, <1>5 DEF Cache!Deleted
  <2>2. CASE k \in kept /\ Cache!Live(k)
    <3>1. Cache!Deleted(gone, kept)[k] = [entries[k] EXCEPT !.why = @ \cup {"lost"}]
      BY <2>1, <2>2 DEF Cache!Deleted
    <3> QED BY <1>3, <2>1, <2>2, <3>1
  <2>3. CASE ~(k \in kept /\ Cache!Live(k))
    <3>1. Cache!Deleted(gone, kept)[k] = entries[k]
      BY <2>1, <2>3 DEF Cache!Deleted
    <3> QED BY <1>5, <2>1, <2>3, <3>1 DEF Cache!Live
  <2> QED BY <2>2, <2>3
<1> QED BY <1>4, <1>5

(* The reader's steps. *)
LEMMA ReaderPreserves ==
  ASSUME CacheInv, NEW r \in Readers,
         \/ \E c \in Customers, p \in Portfolios : Cache!GetPortfolio(r, c, p)
         \/ Cache!ReadPortfolio(r)
         \/ Cache!ReadFailed(r)
  PROVE  CacheInv'
<1> DEFINE Reader == {Cache!Idle} \cup [pc: {"read"}, key: Cache!Keys]
                     \cup [pc: {"fill"}, key: Cache!Keys, val: {Cache!Zero} \cup (0..MaxChanges)]
<1>1. readers \in [Readers -> Reader]
  BY DEF CacheInv, Cache!TypeOK
<1>2. UNCHANGED <<mode, truth, entries, owed, events>>
  BY DEF Cache!GetPortfolio, Cache!ReadPortfolio, Cache!ReadFailed
<1>3. readers' \in [Readers -> Reader]
  <2>1. CASE \E c \in Customers, p \in Portfolios : Cache!GetPortfolio(r, c, p)
    <3>1. PICK c \in Customers, p \in Portfolios : Cache!GetPortfolio(r, c, p)
      BY <2>1
    <3>2. Cache!KeyPortfolioWithID(c, p) \in Cache!Keys
      BY DEF Cache!KeyPortfolioWithID, Cache!Keys
    <3>3. [pc |-> "read", key |-> Cache!KeyPortfolioWithID(c, p)] \in Reader
      BY <3>2
    <3> HIDE DEF Reader
    <3> QED BY <1>1, <3>1, <3>3 DEF Cache!GetPortfolio
  <2>2. CASE Cache!ReadPortfolio(r)
    <3>1. readers[r] \in Reader /\ readers[r].pc = "read"
      BY <1>1, <2>2 DEF Cache!ReadPortfolio
    <3>2. readers[r].key \in Cache!Keys
      BY <3>1 DEF Cache!Idle
    <3>3. truth[readers[r].key.cust] \in 0..MaxChanges
      BY <3>2 DEF CacheInv, Cache!TypeOK, Cache!Keys
    <3>4. \A v \in {truth[readers[r].key.cust], Cache!Zero} :
            [pc |-> "fill", key |-> readers[r].key, val |-> v] \in Reader
      BY <3>2, <3>3
    <3> HIDE DEF Reader
    <3> QED BY <1>1, <2>2, <3>4 DEF Cache!ReadPortfolio
  <2>3. CASE Cache!ReadFailed(r)
    BY <1>1, <2>3 DEF Cache!ReadFailed
  <2> QED BY <2>1, <2>2, <2>3
<1>4. Cache!TypeOK'
  BY <1>2, <1>3 DEF CacheInv, Cache!TypeOK
<1>5. EvictionsCaused' /\ Cache!StaleExplained'
  BY <1>2 DEF CacheInv, EvictionsCaused, Cache!StaleExplained, Cache!Live
<1> QED BY <1>4, <1>5 DEF CacheInv

(* An answer is cached with the reason why it is out of date, if it is. *)
LEMMA FillPortfolioPreserves ==
  ASSUME CacheInv, NEW r \in Readers, Cache!FillPortfolio(r)
  PROVE  CacheInv'
<1> DEFINE k == readers[r].key
           v == readers[r].val
           why == IF v = Cache!Zero THEN {"outage"}
                  ELSE IF v # truth[k.cust] THEN {"raced"} ELSE {}
           new == [val |-> v, left |-> TTLPortfolioValuation, why |-> why]
<1>1. k \in Cache!Keys /\ v \in {Cache!Zero} \cup (0..MaxChanges)
  BY DEF CacheInv, Cache!TypeOK, Cache!FillPortfolio, Cache!Idle
<1>2. TTLPortfolioValuation \in Nat
  BY InvestingAssumption
<1>3. why \in SUBSET Cache!Reasons
  BY DEF Cache!Reasons
<1>4. new \in Cache!Entry
  <2> HIDE DEF k, v, why
  <2> QED BY <1>1, <1>2, <1>3 DEF Cache!Entry
<1>5. entries' = [entries EXCEPT ![k] = new] \/ entries' = entries
  BY DEF Cache!FillPortfolio, Cache!SetRaw
<1>6. UNCHANGED <<mode, truth, owed, events>>
  BY DEF Cache!FillPortfolio
<1>7. v # truth[k.cust] => why # {}
  OBVIOUS
<1>8. new.val = v /\ new.why = why
  OBVIOUS
<1>9. Cache!TypeOK'
  <2>1. entries' \in [Cache!Keys -> Cache!Entry]
    <3> HIDE DEF k, new
    <3> QED BY <1>1, <1>4, <1>5 DEF CacheInv, Cache!TypeOK
  <2>2. readers' = [readers EXCEPT ![r] = Cache!Idle]
    BY DEF Cache!FillPortfolio
  <2> QED BY <1>6, <2>1, <2>2 DEF CacheInv, Cache!TypeOK
<1>10. EvictionsCaused'
  BY <1>6 DEF CacheInv, EvictionsCaused
<1>11. Cache!StaleExplained'
  <2> HIDE DEF k, v, why, new
  <2>1. entries \in [Cache!Keys -> Cache!Entry]
    BY DEF CacheInv, Cache!TypeOK
  <2> SUFFICES ASSUME NEW j \in Cache!Keys, Cache!Live(j)', entries'[j].val # truth'[j.cust]
               PROVE  \/ entries'[j].why # {}
                      \/ owed'[j.cust] > 0
                      \/ mode' = "valkey" /\ events'[j.cust] > 0
    BY DEF Cache!StaleExplained
  <2>2. CASE entries'[j] = entries[j]
    BY <1>6, <2>2 DEF CacheInv, Cache!StaleExplained, Cache!Live
  <2>3. CASE j = k /\ entries'[j] = new
    BY <1>6, <1>7, <1>8, <2>3
  <2> QED BY <1>1, <1>5, <2>1, <2>2, <2>3
<1> QED BY <1>9, <1>10, <1>11 DEF CacheInv

(* An order owes the eviction of what it makes stale. *)
LEMMA CreateOrderPreserves ==
  ASSUME CacheInv, NEW c \in Customers, Cache!CreateOrder(c)
  PROVE  CacheInv'
<1>1. truth[c] < MaxChanges /\ MaxChanges \in Nat
  BY ChangeLeft, InvestingAssumption DEF CacheInv, Cache!CreateOrder
<1>2. /\ truth \in [Customers -> 0..MaxChanges]
      /\ owed \in [Customers -> 0..MaxChanges]
      /\ events \in [Customers -> 0..MaxChanges]
  BY DEF CacheInv, Cache!TypeOK
<1>3. PICK n \in {0, 1} : events' = [events EXCEPT ![c] = @ + n]
  BY DEF Cache!CreateOrder
<1>4. /\ truth' = [truth EXCEPT ![c] = @ + 1]
      /\ owed' = [owed EXCEPT ![c] = @ + 1]
      /\ UNCHANGED <<mode, entries, readers>>
  BY DEF Cache!CreateOrder
<1>5. EvictionsCaused'
  BY <1>1, <1>2, <1>3, <1>4 DEF CacheInv, EvictionsCaused
<1>6. /\ truth' \in [Customers -> 0..MaxChanges]
      /\ owed' \in [Customers -> 0..MaxChanges]
      /\ events' \in [Customers -> 0..MaxChanges]
  BY <1>1, <1>2, <1>3, <1>4 DEF CacheInv, EvictionsCaused
<1>7. Cache!TypeOK'
  BY <1>4, <1>6 DEF CacheInv, Cache!TypeOK
<1>8. ASSUME NEW k \in Cache!Keys, Cache!Live(k)', entries'[k].val # truth'[k.cust]
      PROVE  \/ entries'[k].why # {}
             \/ owed'[k.cust] > 0
             \/ mode' = "valkey" /\ events'[k.cust] > 0
  <2>0. k.cust \in Customers
    BY DEF Cache!Keys
  <2>1. CASE k.cust = c
    BY <1>2, <1>4, <2>1
  <2>2. CASE k.cust # c
    <3>1. truth'[k.cust] = truth[k.cust] /\ owed'[k.cust] = owed[k.cust] /\ events'[k.cust] = events[k.cust]
      BY <1>2, <1>3, <1>4, <2>0, <2>2
    <3> QED BY <1>4, <1>8, <3>1 DEF CacheInv, Cache!StaleExplained, Cache!Live
  <2> QED BY <2>1, <2>2
<1>9. Cache!StaleExplained'
  BY <1>8 DEF Cache!StaleExplained
<1> QED BY <1>5, <1>7, <1>9 DEF CacheInv

(* An eviction that is done, or marks what it left behind, settles what    *)
(* its customer was owed.                                                  *)
LEMMA EvictionSettles ==
  ASSUME CacheInv, NEW c \in Customers, NEW all,
         entries' = Cache!Deleted(all, {k \in Cache!Keys : k.cust = c} \ all),
         UNCHANGED <<mode, truth>>,
         \A d \in Customers \ {c} : owed'[d] = owed[d] /\ events'[d] = events[d]
  PROVE  entries' \in [Cache!Keys -> Cache!Entry] /\ Cache!StaleExplained'
<1> DEFINE kept == {k \in Cache!Keys : k.cust = c} \ all
<1>1. Cache!TypeOK
  BY DEF CacheInv
<1>2. /\ entries' \in [Cache!Keys -> Cache!Entry]
      /\ \A k \in Cache!Keys : entries'[k].left > 0 =>
           /\ k \notin all
           /\ Cache!Live(k)
           /\ entries'[k].val = entries[k].val
           /\ entries[k].why \subseteq entries'[k].why
           /\ k \in kept => entries'[k].why # {}
  <2> DEFINE after == Cache!Deleted(all, kept)
  <2>1. entries' = after
    OBVIOUS
  <2>2. /\ after \in [Cache!Keys -> Cache!Entry]
        /\ \A k \in Cache!Keys : after[k].left > 0 =>
             /\ k \notin all
             /\ Cache!Live(k)
             /\ after[k].val = entries[k].val
             /\ entries[k].why \subseteq after[k].why
             /\ k \in kept => after[k].why # {}
    <3> HIDE DEF kept
    <3> QED BY <1>1, DeletedEntries
  <2> HIDE DEF kept, after
  <2> QED BY <2>1, <2>2
<1>3. ASSUME NEW k \in Cache!Keys, Cache!Live(k)', entries'[k].val # truth'[k.cust]
      PROVE  \/ entries'[k].why # {}
             \/ owed'[k.cust] > 0
             \/ mode' = "valkey" /\ events'[k.cust] > 0
  <2>1. entries'[k].left > 0 /\ k.cust \in Customers
    BY <1>3 DEF Cache!Live, Cache!Keys
  <2>2. CASE k.cust = c
    BY <1>2, <2>1, <2>2
  <2>3. CASE k.cust # c
    BY <1>2, <1>3, <2>1, <2>3 DEF CacheInv, Cache!StaleExplained
  <2> QED BY <2>2, <2>3
<1> QED BY <1>2, <1>3 DEF Cache!StaleExplained

LEMMA EvictAfterOrderPreserves ==
  ASSUME CacheInv, NEW c \in Customers, Cache!EvictAfterOrder(c)
  PROVE  CacheInv'
<1>1. PICK all : entries' = Cache!Deleted(all, {k \in Cache!Keys : k.cust = c} \ all)
  BY DEF Cache!EvictAfterOrder
<1>2. UNCHANGED <<mode, truth, readers, events>> /\ owed' = [owed EXCEPT ![c] = @ - 1] /\ owed[c] > 0
  BY DEF Cache!EvictAfterOrder
<1>3. MaxChanges \in Nat /\ owed \in [Customers -> 0..MaxChanges] /\ truth \in [Customers -> 0..MaxChanges]
  BY InvestingAssumption DEF CacheInv, Cache!TypeOK
<1>4. entries' \in [Cache!Keys -> Cache!Entry] /\ Cache!StaleExplained'
  BY <1>1, <1>2, <1>3, EvictionSettles
<1>5. owed' \in [Customers -> 0..MaxChanges]
  BY <1>2, <1>3
<1>6. Cache!TypeOK'
  BY <1>2, <1>4, <1>5 DEF CacheInv, Cache!TypeOK
<1>7. EvictionsCaused'
  BY <1>2, <1>3 DEF CacheInv, EvictionsCaused
<1> QED BY <1>4, <1>6, <1>7 DEF CacheInv

LEMMA ConsumeOrderPlacedPreserves ==
  ASSUME CacheInv, NEW c \in Customers, Cache!ConsumeOrderPlaced(c)
  PROVE  CacheInv'
<1>2. UNCHANGED <<mode, truth, readers, owed>> /\ events' = [events EXCEPT ![c] = @ - 1] /\ events[c] > 0
  BY DEF Cache!ConsumeOrderPlaced
<1>3. MaxChanges \in Nat /\ events \in [Customers -> 0..MaxChanges] /\ truth \in [Customers -> 0..MaxChanges]
  BY InvestingAssumption DEF CacheInv, Cache!TypeOK
<1>4. entries' \in [Cache!Keys -> Cache!Entry] /\ Cache!StaleExplained'
  <2>1. CASE mode = "memory"
    <3>1. entries' = entries
      BY <2>1 DEF Cache!ConsumeOrderPlaced
    <3> QED BY <1>2, <2>1, <3>1 DEF CacheInv, Cache!TypeOK, Cache!StaleExplained, Cache!Live
  <2>2. CASE mode # "memory"
    <3>1. PICK all : entries' = Cache!Deleted(all, {k \in Cache!Keys : k.cust = c} \ all)
      BY <2>2 DEF Cache!ConsumeOrderPlaced
    <3> QED BY <1>2, <1>3, <3>1, EvictionSettles
  <2> QED BY <2>1, <2>2
<1>5. events' \in [Customers -> 0..MaxChanges]
  BY <1>2, <1>3
<1>6. Cache!TypeOK'
  BY <1>2, <1>4, <1>5 DEF CacheInv, Cache!TypeOK
<1>7. EvictionsCaused'
  BY <1>2, <1>3 DEF CacheInv, EvictionsCaused
<1> QED BY <1>4, <1>6, <1>7 DEF CacheInv

(* A change nobody evicts for marks every entry of its customer. *)
LEMMA SilentChangePreserves ==
  ASSUME CacheInv, NEW c \in Customers, Cache!SilentChange(c)
  PROVE  CacheInv'
<1>1. truth[c] < MaxChanges /\ MaxChanges \in Nat
  BY ChangeLeft, InvestingAssumption DEF CacheInv, Cache!SilentChange
<1>2. truth \in [Customers -> 0..MaxChanges] /\ owed \in [Customers -> 0..MaxChanges]
      /\ events \in [Customers -> 0..MaxChanges]
  BY DEF CacheInv, Cache!TypeOK
<1>3. truth' = [truth EXCEPT ![c] = @ + 1] /\ UNCHANGED <<mode, readers, owed, events>>
  BY DEF Cache!SilentChange
<1>4. PICK gone : entries' = [k \in Cache!Keys |->
          IF k.cust = c /\ Cache!Deleted(gone, {})[k].left > 0
          THEN [Cache!Deleted(gone, {})[k] EXCEPT !.why = @ \cup {"silent"}]
          ELSE Cache!Deleted(gone, {})[k]]
  BY DEF Cache!SilentChange
<1> DEFINE after == Cache!Deleted(gone, {})
<1>5. /\ after \in [Cache!Keys -> Cache!Entry]
      /\ \A k \in Cache!Keys : after[k].left > 0 =>
           /\ Cache!Live(k)
           /\ after[k].val = entries[k].val
           /\ entries[k].why \subseteq after[k].why
  BY DeletedEntries DEF CacheInv
<1> HIDE DEF after
<1>6. ASSUME NEW k \in Cache!Keys
      PROVE  LET new == [after[k] EXCEPT !.why = @ \cup {"silent"}] IN
             new \in Cache!Entry /\ new.why # {} /\ new.left = after[k].left /\ new.val = after[k].val
  BY <1>5 DEF Cache!Entry, Cache!Reasons
<1>7. /\ entries' \in [Cache!Keys -> Cache!Entry]
      /\ \A k \in Cache!Keys : entries'[k].left > 0 =>
           /\ k.cust = c => entries'[k].why # {}
           /\ k.cust # c => entries'[k] = after[k]
  <2>1. entries' = [k \in Cache!Keys |->
          IF k.cust = c /\ after[k].left > 0
          THEN [after[k] EXCEPT !.why = @ \cup {"silent"}] ELSE after[k]]
    BY <1>4 DEF after
  <2>2. entries' \in [Cache!Keys -> Cache!Entry]
    BY <1>5, <1>6, <2>1
  <2>3. ASSUME NEW k \in Cache!Keys, entries'[k].left > 0
        PROVE  /\ k.cust = c => entries'[k].why # {}
               /\ k.cust # c => entries'[k] = after[k]
    <3>1. CASE k.cust = c /\ after[k].left > 0
      BY <1>6, <2>1, <3>1
    <3>2. CASE ~(k.cust = c /\ after[k].left > 0)
      BY <2>1, <2>3, <3>2
    <3> QED BY <3>1, <3>2
  <2> QED BY <2>2, <2>3
<1>8. truth' \in [Customers -> 0..MaxChanges]
  BY <1>1, <1>2, <1>3
<1>9. Cache!TypeOK'
  BY <1>3, <1>7, <1>8 DEF CacheInv, Cache!TypeOK
<1>10. EvictionsCaused'
  BY <1>1, <1>2, <1>3 DEF CacheInv, EvictionsCaused
<1>11. ASSUME NEW k \in Cache!Keys, Cache!Live(k)', entries'[k].val # truth'[k.cust]
       PROVE  \/ entries'[k].why # {}
              \/ owed'[k.cust] > 0
              \/ mode' = "valkey" /\ events'[k.cust] > 0
  <2>1. entries'[k].left > 0 /\ k.cust \in Customers
    BY <1>11 DEF Cache!Live, Cache!Keys
  <2>2. CASE k.cust = c
    BY <1>7, <2>1, <2>2
  <2>3. CASE k.cust # c
    <3>1. truth'[k.cust] = truth[k.cust] /\ entries'[k] = after[k]
      BY <1>2, <1>3, <1>7, <2>1, <2>3
    <3> QED BY <1>3, <1>5, <1>11, <2>1, <3>1 DEF CacheInv, Cache!StaleExplained
  <2> QED BY <2>2, <2>3
<1>12. Cache!StaleExplained'
  BY <1>11 DEF Cache!StaleExplained
<1> QED BY <1>9, <1>10, <1>12 DEF CacheInv

(* A restart forgets what was owed: nothing is left in memory, and what is *)
(* left in Valkey is marked unless an event will still evict it.           *)
LEMMA RestartPreserves ==
  ASSUME CacheInv, Cache!Restart
  PROVE  CacheInv'
<1>1. /\ readers' = [r \in Readers |-> Cache!Idle]
      /\ owed' = [c \in Customers |-> 0]
      /\ UNCHANGED <<mode, truth, events>>
  BY DEF Cache!Restart
<1>2. TTLPortfolioValuation \in Nat /\ MaxChanges \in Nat
  BY InvestingAssumption
<1>3. Cache!None \in Cache!Entry /\ Cache!None.left = 0
  BY <1>2 DEF Cache!None, Cache!Entry, Cache!Zero
<1>4. ASSUME NEW k \in Cache!Keys
      PROVE  /\ entries[k] \in Cache!Entry
             /\ LET new == [entries[k] EXCEPT !.why = @ \cup {"lost"}]
                IN  new \in Cache!Entry /\ new.why # {}
  <2>1. entries[k] \in Cache!Entry
    BY DEF CacheInv, Cache!TypeOK
  <2> QED BY <2>1 DEF Cache!Entry, Cache!Reasons
<1>5. entries' \in [Cache!Keys -> Cache!Entry]
  BY <1>3, <1>4 DEF Cache!Restart
<1>6. ASSUME NEW k \in Cache!Keys, Cache!Live(k)', entries'[k].val # truth'[k.cust]
      PROVE  \/ entries'[k].why # {}
             \/ owed'[k.cust] > 0
             \/ mode' = "valkey" /\ events'[k.cust] > 0
  <2>1. CASE mode = "memory"
    <3>1. entries'[k] = Cache!None
      BY <2>1 DEF Cache!Restart
    <3> QED BY <1>3, <1>6, <3>1 DEF Cache!Live
  <2>2. CASE mode # "memory" /\ owed[k.cust] > 0 /\ events[k.cust] = 0 /\ Cache!Live(k)
    <3>1. entries'[k] = [entries[k] EXCEPT !.why = @ \cup {"lost"}]
      BY <2>2 DEF Cache!Restart
    <3> QED BY <1>4, <3>1
  <2>3. CASE mode # "memory" /\ ~(owed[k.cust] > 0 /\ events[k.cust] = 0 /\ Cache!Live(k))
    <3>1. entries'[k] = entries[k]
      BY <2>3 DEF Cache!Restart
    <3>2. mode = "valkey"
      BY <2>3 DEF CacheInv, Cache!TypeOK
    <3>3. k.cust \in Customers /\ owed[k.cust] \in Nat /\ events[k.cust] \in Nat
      BY <1>2 DEF CacheInv, Cache!TypeOK, Cache!Keys
    <3>4. Cache!Live(k) /\ entries[k].val # truth[k.cust]
      BY <1>1, <1>6, <3>1 DEF Cache!Live
    <3>5. entries[k].why # {} \/ owed[k.cust] > 0 \/ events[k.cust] > 0
      BY <3>4 DEF CacheInv, Cache!StaleExplained
    <3> QED BY <1>1, <2>3, <3>1, <3>2, <3>3, <3>4, <3>5
  <2> QED BY <2>1, <2>2, <2>3
<1>7. Cache!StaleExplained'
  BY <1>6 DEF Cache!StaleExplained
<1>8. Cache!TypeOK'
  BY <1>1, <1>2, <1>5 DEF CacheInv, Cache!TypeOK
<1>9. EvictionsCaused'
  BY <1>1, <1>2 DEF CacheInv, EvictionsCaused, Cache!TypeOK
<1> QED BY <1>7, <1>8, <1>9 DEF CacheInv

(* Time ends entries and makes none stale. *)
LEMMA CacheTickPreserves ==
  ASSUME CacheInv, Cache!CacheTick
  PROVE  CacheInv'
<1>1. UNCHANGED <<mode, truth, readers, owed, events>>
  BY DEF Cache!CacheTick
<1>2. TTLPortfolioValuation \in Nat /\ MaxChanges \in Nat
  BY InvestingAssumption
<1>3. Cache!None \in Cache!Entry /\ Cache!None.left = 0
  BY <1>2 DEF Cache!None, Cache!Entry, Cache!Zero
<1>4. ASSUME NEW k \in Cache!Keys
      PROVE  /\ entries'[k] \in Cache!Entry
             /\ entries'[k].left > 0 => /\ Cache!Live(k)
                                        /\ entries'[k].val = entries[k].val
                                        /\ entries'[k].why = entries[k].why
  <2>1. entries[k] \in Cache!Entry
    BY DEF CacheInv, Cache!TypeOK
  <2>2. CASE entries[k].left <= 1
    <3>1. entries'[k] = Cache!None
      BY <2>2 DEF Cache!CacheTick
    <3> QED BY <1>3, <3>1
  <2>3. CASE ~(entries[k].left <= 1)
    <3>1. entries'[k] = [entries[k] EXCEPT !.left = @ - 1]
      BY <2>3 DEF Cache!CacheTick
    <3> QED BY <1>2, <2>1, <2>3, <3>1 DEF Cache!Entry, Cache!Live
  <2> QED BY <2>2, <2>3
<1>5. entries' \in [Cache!Keys -> Cache!Entry]
  BY <1>4 DEF Cache!CacheTick
<1>6. Cache!TypeOK'
  BY <1>1, <1>5 DEF CacheInv, Cache!TypeOK
<1>7. EvictionsCaused'
  BY <1>1 DEF CacheInv, EvictionsCaused
<1>8. Cache!StaleExplained'
  BY <1>1, <1>4 DEF CacheInv, Cache!StaleExplained, Cache!Live
<1> QED BY <1>6, <1>7, <1>8 DEF CacheInv

LEMMA CacheInitEstablishes == Cache!CacheInit => CacheInv
<1> SUFFICES ASSUME Cache!CacheInit PROVE CacheInv
  OBVIOUS
<1>1. TTLPortfolioValuation \in Nat /\ MaxChanges \in Nat
  BY InvestingAssumption
<1>2. Cache!None \in Cache!Entry /\ Cache!None.left = 0
  BY <1>1 DEF Cache!None, Cache!Entry, Cache!Zero
<1>3. Cache!TypeOK
  BY <1>1, <1>2 DEF Cache!CacheInit, Cache!NewCache, Cache!TypeOK
<1>4. EvictionsCaused
  BY DEF Cache!CacheInit, EvictionsCaused
<1>5. Cache!StaleExplained
  BY <1>2 DEF Cache!CacheInit, Cache!StaleExplained, Cache!Live
<1> QED BY <1>3, <1>4, <1>5 DEF CacheInv

LEMMA CacheNextPreserves ==
  ASSUME CacheInv, Cache!CacheNext
  PROVE  CacheInv'
<1>1. CASE \E r \in Readers : \/ \E c \in Customers, p \in Portfolios : Cache!GetPortfolio(r, c, p)
                              \/ Cache!ReadPortfolio(r)
                              \/ Cache!ReadFailed(r)
                              \/ Cache!FillPortfolio(r)
  BY <1>1, ReaderPreserves, FillPortfolioPreserves
<1>2. CASE \E c \in Customers : \/ Cache!CreateOrder(c)
                                \/ Cache!EvictAfterOrder(c)
                                \/ Cache!CreateDeposit(c)
                                \/ Cache!CloseAccount(c)
                                \/ Cache!ConsumeOrderPlaced(c)
  BY <1>2, CreateOrderPreserves, EvictAfterOrderPreserves, SilentChangePreserves,
     ConsumeOrderPlacedPreserves DEF Cache!CreateDeposit, Cache!CloseAccount
<1>3. CASE Cache!Restart
  BY <1>3, RestartPreserves
<1>4. CASE Cache!CacheTick
  BY <1>4, CacheTickPreserves
<1> QED BY <1>1, <1>2, <1>3, <1>4 DEF Cache!CacheNext

-----------------------------------------------------------------------------
(***************************************************************************)
(* The page about the cats.                                                *)
(***************************************************************************)

(* How late customer-bll's lists can be.                                   *)
ListLag == ListTTL - 1 + MaxSlow

(* What a page is about, and what its records say of a cat. *)
Work == [cats |-> active, visits |-> visits, incidents |-> incidents]
LatestOf(all) ==
  IF all = {} THEN {"none"}
  ELSE {IF w.score >= 4 THEN "good" ELSE "poor" :
          w \in {v \in all : \A u \in all : u.day <= v.day}}

(* The three parts of a page are as they are at work, but for what changed *)
(* at most lag ago.                                                        *)
CatsRight(w, cats, lag) ==
  \A c \in Cats : w.cats[c].since > lag => (c \in cats <=> w.cats[c].now)
HealthRight(w, health, lag) ==
  \A c \in Cats : w.visits[c].since > lag => health[c] \in LatestOf(w.visits[c].all)
ScoreRight(w, score, lag) ==
  w.incidents.since > lag => score = w.incidents.count

(* A call that failed is noted on the page. *)
Failed(why, k) == \E r \in why : r[2] = k

(* A request has an answer no older than itself, and a page that is late   *)
(* by what customer-bll's lists may lag and by the request's own time.     *)
RequestRight(w, u) ==
  /\ u.step = "answered" /\ u.at = "cats" => CatsRight(w, u.got.cats, u.slow)
  /\ u.step = "answered" /\ u.at = "records" => HealthRight(w, u.got.health, u.slow)
  /\ u.at \in {"records", "incidents", "fill"} /\ ~Failed(u.page.why, "cats") =>
        CatsRight(w, u.page.cats, ListLag + u.slow)
  /\ u.at \in {"incidents", "fill"} /\ ~Failed(u.page.why, "records") =>
        HealthRight(w, u.page.health, ListLag + u.slow)
  /\ u.at = "fill" /\ ~Failed(u.page.why, "incidents") => ScoreRight(w, u.page.score, u.slow)
  /\ u.page.score <= w.incidents.count

(* A fresh list is late by its age and the request that made it. *)
CatsListRight(w, l) ==
  l.known /\ l.age < ListTTL => CatsRight(w, l.cats, l.age + MaxSlow)
RecordsListRight(w, l) ==
  l.known /\ l.age < ListTTL => HealthRight(w, l.health, l.age + MaxSlow)

(* The page in the portal's cache is late by its own age too. *)
Late(p) == MaxSlow + (PageTTL - p.left)
PortalPageRight(w, p) ==
  /\ p.left > 0 =>
       /\ ~Failed(p.why, "cats") => CatsRight(w, p.cats, ListLag + Late(p))
       /\ ~Failed(p.why, "records") =>
             \A c \in p.cats : w.visits[c].since > ListLag + Late(p) =>
                p.health[c] \in LatestOf(w.visits[c].all)
       /\ ~Failed(p.why, "incidents") => ScoreRight(w, p.score, Late(p))
  /\ p.score <= w.incidents.count

PageInv ==
  /\ Page!PageTypeOK /\ Page!LocksHeld
  /\ incidents.count <= happened
  /\ \A v \in Viewers : RequestRight(Work, viewer[v])
  /\ CatsListRight(Work, lists["cats"]) /\ RecordsListRight(Work, lists["records"])
  /\ PortalPageRight(Work, welfare)

(* The types of what is at work, of a page and of a request. *)
WorkRec == [cats: [Cats -> [now: BOOLEAN, since: 0..Page!Old]],
            visits: [Cats -> [all: SUBSET Page!Visit, since: 0..Page!Old]],
            incidents: [count: 0..MaxEvents, since: 0..Page!Old]]
WelfareRec == [left: 0..PageTTL, cats: SUBSET Cats, health: [Cats -> Page!Health],
               score: 0..MaxEvents, why: SUBSET Page!Reasons]
PageRec == [left: {0}, cats: SUBSET Cats, health: [Cats -> Page!Health],
            score: 0..MaxEvents, why: SUBSET Page!Reasons]
ViewerRec == [at: {"idle", "cats", "records", "incidents", "fill"},
              step: {"want", "called", "answered"}, got: Page!Copy,
              page: PageRec, slow: 0..MaxSlow]

(* The numbers are natural, and the time since a change is cut off where   *)
(* the page has to show it.                                                *)
LEMMA PageNumbers ==
  /\ ListTTL \in Nat \ {0} /\ PageTTL \in Nat \ {0} /\ MaxSlow \in Nat /\ MaxEvents \in Nat
  /\ ListLag \in Nat /\ Page!Old \in Nat
  /\ Page!Old = ListLag + MaxSlow + PageTTL
BY InvestingAssumption DEF ListLag, Page!Old, Page!Lag

LEMMA EmptyTyped ==
  /\ Page!NoCopy \in Page!Copy
  /\ Page!NoPage \in PageRec /\ Page!NoPage.left = 0 /\ Page!NoPage.score = 0
  /\ Page!Idle \in ViewerRec
<1>1. Page!NoCopy \in Page!Copy
  BY PageNumbers DEF Page!NoCopy, Page!Copy, Page!Health
<1>2. Page!NoPage \in PageRec /\ Page!NoPage.left = 0 /\ Page!NoPage.score = 0
  BY PageNumbers DEF Page!NoPage, PageRec, Page!Health
<1>3. Page!Idle \in ViewerRec
  BY <1>1, <1>2, PageNumbers DEF Page!Idle, ViewerRec
<1> QED BY <1>1, <1>2, <1>3

(* The parts of the type invariant. *)
LEMMA PageTypes ==
  Page!PageTypeOK <=>
    /\ Work \in WorkRec
    /\ lists \in [Page!Kinds -> Page!Copy]
    /\ holder \in [Page!Kinds -> Viewers \cup {Page!Nobody}]
    /\ viewer \in [Viewers -> ViewerRec]
    /\ welfare \in WelfareRec
    /\ happened \in 0..MaxEvents
BY DEF Page!PageTypeOK, ViewerRec, PageRec, WelfareRec, WorkRec, Work

LEMMA PageTypesKept ==
  ASSUME Work' \in WorkRec,
         lists' \in [Page!Kinds -> Page!Copy],
         holder' \in [Page!Kinds -> Viewers \cup {Page!Nobody}],
         viewer' \in [Viewers -> ViewerRec],
         welfare' \in WelfareRec,
         happened' \in 0..MaxEvents
  PROVE  Page!PageTypeOK'
BY DEF Page!PageTypeOK, ViewerRec, PageRec, WelfareRec, WorkRec, Work

LEMMA PageInitEstablishes == Page!PageInit => PageInv
<1> SUFFICES ASSUME Page!PageInit PROVE PageInv
  OBVIOUS
<1>1. Page!PageTypeOK
  <2>1. welfare \in WelfareRec
    BY PageNumbers DEF WelfareRec, Page!PageInit, Page!NoPage, Page!Health
  <2>2. happened \in 0..MaxEvents
    BY PageNumbers DEF Page!PageInit
  <2>3. Work \in WorkRec
    BY PageNumbers DEF Page!PageInit, Work, WorkRec
  <2>5. lists \in [Page!Kinds -> Page!Copy] /\ viewer \in [Viewers -> ViewerRec]
        /\ holder \in [Page!Kinds -> Viewers \cup {Page!Nobody}]
    BY EmptyTyped DEF Page!PageInit
  <2> QED BY <2>1, <2>2, <2>3, <2>5, PageTypes
<1>2. Page!LocksHeld
  BY DEF Page!PageInit, Page!LocksHeld
<1>3. incidents.count <= happened
  BY DEF Page!PageInit
<1>4. \A v \in Viewers : RequestRight(Work, viewer[v])
  BY EmptyTyped DEF Page!PageInit, Page!Idle, RequestRight, Work
<1>5. CatsListRight(Work, lists["cats"]) /\ RecordsListRight(Work, lists["records"])
  BY DEF Page!PageInit, Page!Kinds, Page!NoCopy, CatsListRight, RecordsListRight
<1>6. PortalPageRight(Work, welfare)
  BY EmptyTyped DEF Page!PageInit, PortalPageRight, Work
<1> QED BY <1>1, <1>2, <1>3, <1>4, <1>5, <1>6 DEF PageInv

(* What the page promises follows: the time since a change is at its cap   *)
(* only when it exceeds every lag the page can have.                       *)
LEMMA PageExplained == PageInv => Page!WelfareExplained
<1> SUFFICES ASSUME PageInv PROVE Page!WelfareExplained
  OBVIOUS
<1>1. Page!PageTypeOK /\ Page!LocksHeld
  BY DEF PageInv
<1>2. welfare.left \in 0..PageTTL /\ welfare.cats \subseteq Cats
  BY <1>1, PageTypes DEF WelfareRec
<1>3. PortalPageRight(Work, welfare)
  BY DEF PageInv
<1>4. \A k : Page!Excused(k) <=> Failed(welfare.why, k)
  BY DEF Page!Excused, Failed
<1>5. Page!Shown => /\ Late(welfare) \in Nat
                    /\ Late(welfare) <= PageTTL - 1 + MaxSlow
                    /\ ListLag + Late(welfare) < Page!Old
  BY <1>2, PageNumbers DEF Page!Shown, Late
<1>6. Page!CatsShown
  BY <1>3, <1>4, <1>5, PageNumbers DEF Page!CatsShown, Page!Shown, PortalPageRight, CatsRight, Work
<1>7. Page!HealthShown
  BY <1>2, <1>3, <1>4, <1>5, PageNumbers DEF Page!HealthShown, Page!Shown, PortalPageRight, Page!Latest, LatestOf, Work
<1>8. Page!ScoreShown
  <2>1. incidents.since \in Nat
    BY <1>1, PageTypes, PageNumbers DEF Work, WorkRec
  <2> QED
    BY <1>3, <1>4, <1>5, <2>1, PageNumbers DEF Page!ScoreShown, Page!Shown, PortalPageRight, ScoreRight, Work
<1> QED BY <1>1, <1>6, <1>7, <1>8 DEF Page!WelfareExplained

-----------------------------------------------------------------------------
(* Work x comes after work w by d units of time: what changed in between   *)
(* has just changed, and everything else is older by no more than d.       *)
Later(w, x, d) ==
  /\ \A c \in Cats :
       /\ \/ x.cats[c].since = 0
          \/ x.cats[c].now = w.cats[c].now /\ x.cats[c].since <= w.cats[c].since + d
       /\ \/ x.visits[c].since = 0
          \/ x.visits[c].all = w.visits[c].all /\ x.visits[c].since <= w.visits[c].since + d
  /\ \/ x.incidents.since = 0
     \/ x.incidents.count = w.incidents.count /\ x.incidents.since <= w.incidents.since + d
  /\ w.incidents.count <= x.incidents.count

(* What was right with some lag is right with a lag longer by that time.   *)
LEMMA RightLater ==
  ASSUME NEW w \in WorkRec, NEW x \in WorkRec, NEW d \in Nat, Later(w, x, d),
         NEW lag \in Nat, NEW longer \in Nat, lag + d <= longer
  PROVE  /\ \A cats : CatsRight(w, cats, lag) => CatsRight(x, cats, longer)
         /\ \A health : HealthRight(w, health, lag) => HealthRight(x, health, longer)
         /\ \A score : ScoreRight(w, score, lag) => ScoreRight(x, score, longer)
         /\ \A c \in Cats : \A h :
              (w.visits[c].since > lag => h \in LatestOf(w.visits[c].all)) =>
              (x.visits[c].since > longer => h \in LatestOf(x.visits[c].all))
<1>1. /\ \A c \in Cats : w.cats[c].since \in Nat /\ x.cats[c].since \in Nat
                         /\ w.visits[c].since \in Nat /\ x.visits[c].since \in Nat
      /\ w.incidents.since \in Nat /\ x.incidents.since \in Nat
  BY PageNumbers DEF WorkRec
<1>2. ASSUME NEW c \in Cats, x.cats[c].since > longer
      PROVE  x.cats[c].now = w.cats[c].now /\ w.cats[c].since > lag
  BY <1>1, <1>2 DEF Later
<1>3. ASSUME NEW c \in Cats, x.visits[c].since > longer
      PROVE  x.visits[c].all = w.visits[c].all /\ w.visits[c].since > lag
  BY <1>1, <1>3 DEF Later
<1>4. ASSUME x.incidents.since > longer
      PROVE  x.incidents.count = w.incidents.count /\ w.incidents.since > lag
  BY <1>1, <1>4 DEF Later
<1>5. \A cats : CatsRight(w, cats, lag) => CatsRight(x, cats, longer)
  BY <1>2 DEF CatsRight
<1>6. \A health : HealthRight(w, health, lag) => HealthRight(x, health, longer)
  BY <1>3 DEF HealthRight
<1>7. \A score : ScoreRight(w, score, lag) => ScoreRight(x, score, longer)
  BY <1>4 DEF ScoreRight
<1> QED BY <1>3, <1>5, <1>6, <1>7

(* Hence for a request, if its own time keeps up... *)
LEMMA RequestLater ==
  ASSUME NEW w \in WorkRec, NEW x \in WorkRec, NEW d \in Nat, Later(w, x, d),
         NEW u \in ViewerRec, NEW t \in ViewerRec, RequestRight(w, u),
         t.at = u.at, t.step = u.step, t.got = u.got, t.page = u.page,
         t.at # "idle" => t.slow = u.slow + d
  PROVE  RequestRight(x, t)
<1>1. u.slow \in Nat /\ t.slow \in Nat /\ ListLag \in Nat /\ u.page.score \in Nat
      /\ w.incidents.count \in Nat /\ x.incidents.count \in Nat
  BY PageNumbers DEF ViewerRec, PageRec, WorkRec
<1>2. t.page.score <= x.incidents.count
  BY <1>1 DEF Later, RequestRight
<1>3. CASE t.at = "idle"
  BY <1>2, <1>3 DEF RequestRight
<1>4. CASE t.at # "idle"
  <2>1. /\ u.slow + d <= t.slow
        /\ ListLag + u.slow \in Nat /\ ListLag + t.slow \in Nat
        /\ (ListLag + u.slow) + d <= ListLag + t.slow
    BY <1>1, <1>4
  <2>2. /\ \A cats : CatsRight(w, cats, u.slow) => CatsRight(x, cats, t.slow)
        /\ \A health : HealthRight(w, health, u.slow) => HealthRight(x, health, t.slow)
        /\ \A score : ScoreRight(w, score, u.slow) => ScoreRight(x, score, t.slow)
    BY <1>1, <2>1, RightLater
  <2>3. /\ \A cats : CatsRight(w, cats, ListLag + u.slow) => CatsRight(x, cats, ListLag + t.slow)
        /\ \A health : HealthRight(w, health, ListLag + u.slow) => HealthRight(x, health, ListLag + t.slow)
    BY <1>1, <2>1, RightLater
  <2> QED BY <1>2, <2>2, <2>3 DEF RequestRight
<1> QED BY <1>3, <1>4

(* ... for a list, if its age does ... *)
LEMMA ListLater ==
  ASSUME NEW w \in WorkRec, NEW x \in WorkRec, NEW d \in Nat, Later(w, x, d),
         NEW l \in Page!Copy, NEW m \in Page!Copy,
         m.known = l.known, m.cats = l.cats, m.health = l.health,
         m.age < ListTTL => m.age = l.age + d
  PROVE  /\ CatsListRight(w, l) => CatsListRight(x, m)
         /\ RecordsListRight(w, l) => RecordsListRight(x, m)
<1>1. l.age \in Nat /\ m.age \in Nat /\ MaxSlow \in Nat /\ ListTTL \in Nat
  BY PageNumbers DEF Page!Copy
<1>2. CASE m.age < ListTTL
  <2>1. l.age < ListTTL /\ l.age + MaxSlow \in Nat /\ m.age + MaxSlow \in Nat
        /\ (l.age + MaxSlow) + d <= m.age + MaxSlow
    BY <1>1, <1>2
  <2>2. /\ \A cats : CatsRight(w, cats, l.age + MaxSlow) => CatsRight(x, cats, m.age + MaxSlow)
        /\ \A health : HealthRight(w, health, l.age + MaxSlow) => HealthRight(x, health, m.age + MaxSlow)
    BY <2>1, RightLater
  <2> QED BY <1>2, <2>1, <2>2 DEF CatsListRight, RecordsListRight
<1>3. CASE ~(m.age < ListTTL)
  BY <1>3 DEF CatsListRight, RecordsListRight
<1> QED BY <1>2, <1>3

(* ... and for the portal's page, if its time runs down. *)
LEMMA PortalPageLater ==
  ASSUME NEW w \in WorkRec, NEW x \in WorkRec, NEW d \in Nat, Later(w, x, d),
         NEW p \in WelfareRec, NEW q \in WelfareRec, PortalPageRight(w, p),
         q.cats = p.cats, q.health = p.health, q.score = p.score, q.why = p.why,
         q.left = p.left - d
  PROVE  PortalPageRight(x, q)
<1>1. p.left \in 0..PageTTL /\ q.left \in 0..PageTTL /\ PageTTL \in Nat /\ MaxSlow \in Nat
      /\ ListLag \in Nat /\ p.score \in Nat
      /\ w.incidents.count \in Nat /\ x.incidents.count \in Nat
  BY PageNumbers DEF WelfareRec, WorkRec
<1>2. q.score <= x.incidents.count
  BY <1>1 DEF Later, PortalPageRight
<1>3. /\ Late(p) \in Nat /\ Late(q) \in Nat /\ Late(p) + d <= Late(q)
      /\ ListLag + Late(p) \in Nat /\ ListLag + Late(q) \in Nat
      /\ (ListLag + Late(p)) + d <= ListLag + Late(q)
  BY <1>1 DEF Late
<1>4. q.left > 0 => p.left > 0
  BY <1>1
<1>5. \A cats : CatsRight(w, cats, ListLag + Late(p)) => CatsRight(x, cats, ListLag + Late(q))
  BY <1>3, RightLater
<1>6. \A c \in Cats : \A h :
        (w.visits[c].since > ListLag + Late(p) => h \in LatestOf(w.visits[c].all)) =>
        (x.visits[c].since > ListLag + Late(q) => h \in LatestOf(x.visits[c].all))
  BY <1>3, RightLater
<1>7. \A score : ScoreRight(w, score, Late(p)) => ScoreRight(x, score, Late(q))
  BY <1>3, RightLater
<1>8. p.cats \subseteq Cats
  BY DEF WelfareRec
<1> QED BY <1>2, <1>4, <1>5, <1>6, <1>7, <1>8 DEF PortalPageRight

-----------------------------------------------------------------------------
(* A change at work leaves what the services hold alone. *)
LEMMA ChangePreserves ==
  ASSUME PageInv, Work' \in WorkRec, Later(Work, Work', 0), Page!Happens,
         incidents'.count <= happened',
         UNCHANGED <<lists, holder, viewer, welfare>>
  PROVE  PageInv'
<1>1. /\ Work \in WorkRec /\ lists \in [Page!Kinds -> Page!Copy] /\ viewer \in [Viewers -> ViewerRec]
      /\ welfare \in WelfareRec /\ holder \in [Page!Kinds -> Viewers \cup {Page!Nobody}]
      /\ happened \in 0..MaxEvents
  BY PageTypes DEF PageInv
<1>2. happened' \in 0..MaxEvents
  BY <1>1, PageNumbers DEF Page!Happens
<1>3. Page!PageTypeOK'
  BY <1>1, <1>2, PageTypesKept
<1>4. Page!LocksHeld'
  BY DEF PageInv, Page!LocksHeld
<1>5. ASSUME NEW v \in Viewers
      PROVE  RequestRight(Work', viewer'[v])
  <2> DEFINE u == viewer[v]
  <2>1. u \in ViewerRec /\ RequestRight(Work, u)
    BY <1>1 DEF PageInv
  <2>2. u.slow = u.slow + 0
    BY <2>1 DEF ViewerRec
  <2>3. viewer'[v] = u
    OBVIOUS
  <2> HIDE DEF u
  <2> QED BY <1>1, <2>1, <2>2, <2>3, RequestLater
<1>6. CatsListRight(Work', lists'["cats"]) /\ RecordsListRight(Work', lists'["records"])
  <2>1. lists["cats"] \in Page!Copy /\ lists["records"] \in Page!Copy
    BY <1>1 DEF Page!Kinds
  <2>2. \A l \in Page!Copy : l.age = l.age + 0
    BY DEF Page!Copy
  <2>3. \A l \in Page!Copy : /\ CatsListRight(Work, l) => CatsListRight(Work', l)
                             /\ RecordsListRight(Work, l) => RecordsListRight(Work', l)
    BY <1>1, <2>2, ListLater
  <2> QED BY <2>1, <2>3 DEF PageInv
<1>7. PortalPageRight(Work', welfare')
  <2>1. welfare.left = welfare.left - 0
    BY <1>1 DEF WelfareRec
  <2>2. PortalPageRight(Work, welfare)
    BY DEF PageInv
  <2>3. PortalPageRight(Work', welfare)
    BY <1>1, <2>1, <2>2, PortalPageLater
  <2> QED BY <2>3
<1> QED BY <1>3, <1>4, <1>5, <1>6, <1>7 DEF PageInv

(* A cat goes on or off the payroll. *)
LEMMA UpdateEmployeeStatusPreserves ==
  ASSUME PageInv, NEW c \in Cats, Page!UpdateEmployeeStatus(c)
  PROVE  PageInv'
<1>1. Work \in WorkRec /\ happened \in Nat
  BY PageTypes, PageNumbers DEF PageInv
<1>2. active \in [Cats -> [now: BOOLEAN, since: 0..Page!Old]]
  BY <1>1 DEF WorkRec, Work
<1>3. PICK o \in BOOLEAN : active' = [active EXCEPT ![c] = [now |-> o, since |-> 0]]
  <2> DEFINE o == ~active[c].now
  <2>1. o \in BOOLEAN
    OBVIOUS
  <2>2. active' = [active EXCEPT ![c] = [now |-> o, since |-> 0]]
    BY <1>2 DEF Page!UpdateEmployeeStatus
  <2> HIDE DEF o
  <2> QED BY <2>1, <2>2
<1>4. active' \in [Cats -> [now: BOOLEAN, since: 0..Page!Old]]
  BY <1>2, <1>3, PageNumbers
<1>5. UNCHANGED <<visits, incidents, lists, holder, viewer, welfare>> /\ Page!Happens
  BY DEF Page!UpdateEmployeeStatus
<1>6. Work' \in WorkRec
  BY <1>1, <1>4, <1>5 DEF WorkRec, Work
<1>7. Later(Work, Work', 0)
  BY <1>1, <1>2, <1>3, <1>5, PageNumbers DEF Later, Work, WorkRec
<1>8. incidents'.count <= happened'
  BY <1>1, <1>5, PageNumbers DEF PageInv, Page!Happens, Work, WorkRec
<1> QED BY <1>5, <1>6, <1>7, <1>8, ChangePreserves

(* A veterinary record is stored. *)
LEMMA CreateVHRRecordPreserves ==
  ASSUME PageInv, NEW c \in Cats, NEW day \in Page!Days, NEW form \in Page!Forms,
         Page!createVHRRecord(c, day, form)
  PROVE  PageInv'
<1>1. Work \in WorkRec /\ happened \in Nat
  BY PageTypes, PageNumbers DEF PageInv
<1>2. visits \in [Cats -> [all: SUBSET Page!Visit, since: 0..Page!Old]]
  BY <1>1 DEF WorkRec, Work
<1>3. PICK score \in Page!Scores : Page!CreateVHRRecord(c, day, score)
  <2> DEFINE n == IF form = {} THEN 0 ELSE CHOOSE s \in form : TRUE
  <2>1. n \in Page!Scores
    BY DEF Page!Forms, Page!Scores
  <2>2. Page!CreateVHRRecord(c, day, n)
    BY DEF Page!createVHRRecord
  <2> HIDE DEF n
  <2> QED BY <2>1, <2>2
<1>4. [day |-> day, score |-> score] \in Page!Visit
  BY <1>3 DEF Page!CreateVHRRecord, Page!ValidScore, Page!Visit, Page!Scores
<1>5. visits' \in [Cats -> [all: SUBSET Page!Visit, since: 0..Page!Old]]
      /\ \A d \in Cats : visits'[d] = visits[d] \/ visits'[d].since = 0
  BY <1>2, <1>3, <1>4, PageNumbers DEF Page!CreateVHRRecord, Page!StoreVisit
<1>6. UNCHANGED <<active, incidents, lists, holder, viewer, welfare>> /\ Page!Happens
  BY <1>3 DEF Page!CreateVHRRecord
<1>7. Work' \in WorkRec
  BY <1>1, <1>5, <1>6 DEF WorkRec, Work
<1>8. Later(Work, Work', 0)
  BY <1>1, <1>2, <1>5, <1>6, PageNumbers DEF Later, Work, WorkRec
<1>9. incidents'.count <= happened'
  BY <1>1, <1>6, PageNumbers DEF PageInv, Page!Happens, Work, WorkRec
<1> QED BY <1>6, <1>7, <1>8, <1>9, ChangePreserves

(* An incident is reported: there are no more of them than events. *)
LEMMA CreateIncidentPreserves ==
  ASSUME PageInv, Page!createIncident
  PROVE  PageInv'
<1>1. Work \in WorkRec /\ happened \in 0..MaxEvents
  BY PageTypes DEF PageInv
<1>2. incidents.count \in Nat /\ incidents.count <= happened
  BY <1>1, PageNumbers DEF PageInv, WorkRec, Work
<1>3. incidents' = [count |-> incidents.count + 1, since |-> 0]
  BY DEF Page!createIncident, Page!CreateWorkplaceIncident, Page!StoreIncident
<1>4. UNCHANGED <<active, visits, lists, holder, viewer, welfare>> /\ Page!Happens
  BY DEF Page!createIncident, Page!CreateWorkplaceIncident
<1>5. Work' \in WorkRec
  BY <1>1, <1>2, <1>3, <1>4, PageNumbers DEF WorkRec, Work, Page!Happens
<1>6. Later(Work, Work', 0)
  BY <1>1, <1>2, <1>3, <1>4, PageNumbers DEF Later, Work, WorkRec
<1>7. incidents'.count <= happened'
  BY <1>1, <1>2, <1>3, <1>4, PageNumbers DEF Page!Happens
<1> QED BY <1>4, <1>5, <1>6, <1>7, ChangePreserves

(* Time passes for everything at once. *)
LEMMA TickPreserves ==
  ASSUME PageInv, Page!Tick
  PROVE  PageInv'
<1>1. /\ Work \in WorkRec /\ lists \in [Page!Kinds -> Page!Copy] /\ viewer \in [Viewers -> ViewerRec]
      /\ welfare \in WelfareRec /\ holder \in [Page!Kinds -> Viewers \cup {Page!Nobody}]
      /\ happened \in 0..MaxEvents
  BY PageTypes DEF PageInv
<1>2. /\ active \in [Cats -> [now: BOOLEAN, since: 0..Page!Old]]
      /\ visits \in [Cats -> [all: SUBSET Page!Visit, since: 0..Page!Old]]
      /\ incidents \in [count: 0..MaxEvents, since: 0..Page!Old]
  BY <1>1 DEF WorkRec, Work
<1>3. UNCHANGED <<holder, happened>>
  BY DEF Page!Tick
<1>4. \A n \in 0..Page!Old : Page!Older(n) \in 0..Page!Old /\ Page!Older(n) <= n + 1
  BY PageNumbers DEF Page!Older
<1>5. ASSUME NEW c \in Cats
      PROVE  /\ active'[c] \in [now: BOOLEAN, since: 0..Page!Old]
             /\ active'[c].now = active[c].now /\ active'[c].since <= active[c].since + 1
  <2>1. active'[c] = [active[c] EXCEPT !.since = Page!Older(@)]
    BY DEF Page!Tick
  <2> QED BY <1>2, <1>4, <2>1
<1>6. ASSUME NEW c \in Cats
      PROVE  /\ visits'[c] \in [all: SUBSET Page!Visit, since: 0..Page!Old]
             /\ visits'[c].all = visits[c].all /\ visits'[c].since <= visits[c].since + 1
  <2>1. visits'[c] = [visits[c] EXCEPT !.since = Page!Older(@)]
    BY DEF Page!Tick
  <2> QED BY <1>2, <1>4, <2>1
<1>7. /\ incidents' \in [count: 0..MaxEvents, since: 0..Page!Old]
      /\ incidents'.count = incidents.count /\ incidents'.since <= incidents.since + 1
  <2>1. incidents' = [incidents EXCEPT !.since = Page!Older(@)]
    BY DEF Page!Tick
  <2> QED BY <1>2, <1>4, <2>1
<1>8. Work' \in WorkRec
  <2>1. /\ active' \in [Cats -> [now: BOOLEAN, since: 0..Page!Old]]
        /\ visits' \in [Cats -> [all: SUBSET Page!Visit, since: 0..Page!Old]]
    BY <1>5, <1>6 DEF Page!Tick
  <2> QED BY <1>7, <2>1 DEF WorkRec, Work
<1>9. Later(Work, Work', 1)
  <2>1. incidents.count <= incidents'.count
    BY <1>2, <1>7, PageNumbers
  <2> QED BY <1>5, <1>6, <1>7, <2>1 DEF Later, Work
<1>10. ASSUME NEW v \in Viewers
       PROVE  viewer'[v] \in ViewerRec /\ viewer'[v].at = viewer[v].at
              /\ viewer'[v].step = viewer[v].step /\ RequestRight(Work', viewer'[v])
  <2> DEFINE u == viewer[v]
             t == viewer'[v]
  <2>1. u \in ViewerRec /\ RequestRight(Work, u)
    BY <1>1 DEF PageInv
  <2>2. t = IF u.at = "idle" THEN u ELSE [u EXCEPT !.slow = @ + 1]
    BY DEF Page!Tick
  <2>3. u.at # "idle" => u.slow < MaxSlow
    BY DEF Page!Tick
  <2> HIDE DEF u, t
  <2>4. /\ t \in ViewerRec /\ t.at = u.at /\ t.step = u.step /\ t.got = u.got /\ t.page = u.page
        /\ t.at # "idle" => t.slow = u.slow + 1
    BY <2>1, <2>2, <2>3, PageNumbers DEF ViewerRec
  <2>5. RequestRight(Work', t)
    BY <1>1, <1>8, <1>9, <2>1, <2>4, RequestLater
  <2> QED BY <2>4, <2>5 DEF u, t
<1>11. viewer' \in [Viewers -> ViewerRec]
  BY <1>10 DEF Page!Tick
<1>12. Page!LocksHeld'
  <2> SUFFICES ASSUME NEW k \in Page!Kinds, holder'[k] # Page!Nobody
               PROVE  viewer'[holder'[k]].at = k /\ viewer'[holder'[k]].step \in {"called", "answered"}
    BY DEF Page!LocksHeld
  <2>1. holder[k] \in Viewers /\ holder'[k] = holder[k]
    BY <1>1, <1>3
  <2>2. viewer[holder[k]].at = k /\ viewer[holder[k]].step \in {"called", "answered"}
    BY <1>3 DEF PageInv, Page!LocksHeld
  <2> QED BY <1>10, <2>1, <2>2
<1>13. ASSUME NEW k \in Page!Kinds
       PROVE  /\ lists'[k] \in Page!Copy
              /\ CatsListRight(Work, lists[k]) => CatsListRight(Work', lists'[k])
              /\ RecordsListRight(Work, lists[k]) => RecordsListRight(Work', lists'[k])
  <2> DEFINE l == lists[k]
             m == lists'[k]
  <2>1. l \in Page!Copy
    BY <1>1
  <2>2. m = [l EXCEPT !.age = IF @ < ListTTL THEN @ + 1 ELSE @]
    BY DEF Page!Tick
  <2> HIDE DEF l, m
  <2>3. /\ m \in Page!Copy /\ m.known = l.known /\ m.cats = l.cats /\ m.health = l.health
        /\ m.age < ListTTL => m.age = l.age + 1
    BY <2>1, <2>2, PageNumbers DEF Page!Copy
  <2>4. /\ CatsListRight(Work, l) => CatsListRight(Work', m)
        /\ RecordsListRight(Work, l) => RecordsListRight(Work', m)
    BY <1>1, <1>8, <1>9, <2>1, <2>3, ListLater
  <2> QED BY <2>3, <2>4 DEF l, m
<1>14. lists' \in [Page!Kinds -> Page!Copy]
  BY <1>13 DEF Page!Tick
<1>15. CatsListRight(Work', lists'["cats"]) /\ RecordsListRight(Work', lists'["records"])
  BY <1>13 DEF PageInv, Page!Kinds
<1>16. welfare' \in WelfareRec /\ PortalPageRight(Work', welfare')
  <2>1. CASE welfare.left > 1
    <3>1. welfare' = [welfare EXCEPT !.left = @ - 1]
      BY <2>1 DEF Page!Tick
    <3>2. /\ welfare' \in WelfareRec /\ welfare'.cats = welfare.cats
          /\ welfare'.health = welfare.health /\ welfare'.score = welfare.score
          /\ welfare'.why = welfare.why /\ welfare'.left = welfare.left - 1
      BY <1>1, <2>1, <3>1, PageNumbers DEF WelfareRec
    <3>3. PortalPageRight(Work, welfare)
      BY DEF PageInv
    <3> QED BY <1>1, <1>8, <1>9, <3>2, <3>3, PortalPageLater
  <2>2. CASE ~(welfare.left > 1)
    <3>1. welfare' = Page!NoPage
      BY <2>2 DEF Page!Tick
    <3>2. Page!NoPage \in WelfareRec
      BY EmptyTyped, PageNumbers DEF PageRec, WelfareRec
    <3>3. Work'.incidents.count \in Nat
      BY <1>8, PageNumbers DEF WorkRec
    <3> QED BY <3>1, <3>2, <3>3, EmptyTyped DEF PortalPageRight
  <2> QED BY <2>1, <2>2
<1>17. Page!PageTypeOK'
  BY <1>1, <1>3, <1>8, <1>11, <1>14, <1>16, PageTypesKept
<1>18. incidents'.count <= happened'
  BY <1>3, <1>7 DEF PageInv
<1> QED BY <1>10, <1>12, <1>15, <1>16, <1>17, <1>18 DEF PageInv

-----------------------------------------------------------------------------
(* A step of one request, while nothing changes at work. *)
LEMMA RequestPreserves ==
  ASSUME PageInv, NEW v \in Viewers, NEW n \in ViewerRec,
         viewer' = [viewer EXCEPT ![v] = n], RequestRight(Work, n),
         UNCHANGED <<active, visits, incidents>>,
         lists' \in [Page!Kinds -> Page!Copy],
         CatsListRight(Work, lists'["cats"]), RecordsListRight(Work, lists'["records"]),
         welfare' \in WelfareRec, PortalPageRight(Work, welfare'),
         \/ happened' = happened
         \/ Page!Happens,
         holder' \in [Page!Kinds -> Viewers \cup {Page!Nobody}],
         \A k \in Page!Kinds : \/ holder'[k] = holder[k] /\ viewer[v].at # k
                               \/ holder'[k] = Page!Nobody
                               \/ /\ holder'[k] \in {holder[k], v}
                                  /\ n.at = k /\ n.step \in {"called", "answered"}
  PROVE  PageInv'
<1>1. /\ Work \in WorkRec /\ viewer \in [Viewers -> ViewerRec] /\ happened \in 0..MaxEvents
      /\ holder \in [Page!Kinds -> Viewers \cup {Page!Nobody}]
  BY PageTypes DEF PageInv
<1>2. Work' = Work
  BY DEF Work
<1>3. happened' \in 0..MaxEvents /\ happened <= happened'
  BY <1>1, PageNumbers DEF Page!Happens
<1>4. viewer' \in [Viewers -> ViewerRec]
  BY <1>1
<1>5. Page!PageTypeOK'
  BY <1>1, <1>2, <1>3, <1>4, PageTypesKept
<1>6. Page!LocksHeld'
  <2> SUFFICES ASSUME NEW k \in Page!Kinds, holder'[k] # Page!Nobody
               PROVE  viewer'[holder'[k]].at = k /\ viewer'[holder'[k]].step \in {"called", "answered"}
    BY DEF Page!LocksHeld
  <2>1. CASE holder'[k] = holder[k] /\ viewer[v].at # k
    <3>1. holder[k] \in Viewers
      BY <1>1, <2>1
    <3>2. viewer[holder[k]].at = k /\ viewer[holder[k]].step \in {"called", "answered"}
      BY <2>1 DEF PageInv, Page!LocksHeld
    <3>3. viewer'[holder[k]] = viewer[holder[k]]
      BY <1>1, <2>1, <3>1, <3>2
    <3> QED BY <2>1, <3>2, <3>3
  <2>2. CASE holder'[k] \in {holder[k], v} /\ n.at = k /\ n.step \in {"called", "answered"}
    <3>1. CASE holder'[k] = v
      BY <1>1, <2>2, <3>1
    <3>2. CASE holder'[k] = holder[k] /\ holder[k] # v
      <4>1. holder[k] \in Viewers
        BY <1>1, <3>2
      <4> QED BY <1>1, <3>2, <4>1 DEF PageInv, Page!LocksHeld
    <3> QED BY <2>2, <3>1, <3>2
  <2> QED BY <2>1, <2>2
<1>7. \A u \in Viewers : RequestRight(Work', viewer'[u])
  BY <1>1, <1>2 DEF PageInv
<1>8. incidents'.count <= happened'
  BY <1>1, <1>3, PageNumbers DEF PageInv, Work, WorkRec
<1>9. CatsListRight(Work', lists'["cats"]) /\ RecordsListRight(Work', lists'["records"])
      /\ PortalPageRight(Work', welfare')
  BY <1>2
<1> QED BY <1>5, <1>6, <1>7, <1>8, <1>9 DEF PageInv

(* A request takes a list, right or noted as failed, into its page. *)
LEMMA GoesOnRight ==
  ASSUME PageInv, NEW v \in Viewers, NEW k \in Page!Kinds, viewer[v].at = k,
         NEW copy \in Page!Copy, NEW why \in SUBSET Page!Reasons,
         Page!GoesOn(v, k, copy, why),
         k = "cats" /\ ~Failed(why, k) => CatsRight(Work, copy.cats, ListLag + viewer[v].slow),
         k = "records" /\ ~Failed(why, k) => HealthRight(Work, copy.health, ListLag + viewer[v].slow)
  PROVE  \E n \in ViewerRec : viewer' = [viewer EXCEPT ![v] = n] /\ RequestRight(Work, n)
<1> DEFINE u == viewer[v]
           page == Page!Noted(u.page, k, copy, why)
           n == [at |-> Page!After(k), step |-> "want", got |-> Page!NoCopy,
                 page |-> page, slow |-> u.slow]
<1>1. viewer \in [Viewers -> ViewerRec] /\ RequestRight(Work, u)
  BY PageTypes DEF PageInv
<1>2. u \in ViewerRec
  BY <1>1
<1>3. viewer' = [viewer EXCEPT ![v] = n]
  <2>1. viewer' = [viewer EXCEPT ![v] = [[[[viewer[v] EXCEPT !.at = Page!After(k)]
                     EXCEPT !.step = "want"] EXCEPT !.got = Page!NoCopy] EXCEPT !.page = page]]
    BY <1>1, <1>2 DEF Page!GoesOn, ViewerRec
  <2>2. [[[[u EXCEPT !.at = Page!After(k)] EXCEPT !.step = "want"]
            EXCEPT !.got = Page!NoCopy] EXCEPT !.page = page] = n
    <3> DEFINE there == Page!After(k)
               nothing == Page!NoCopy
    <3> HIDE DEF u, page, there, nothing
    <3> DEFINE u1 == [u EXCEPT !.at = there]
               u2 == [u1 EXCEPT !.step = "want"]
               u3 == [u2 EXCEPT !.got = nothing]
    <3>1. u = [at |-> u.at, step |-> u.step, got |-> u.got, page |-> u.page, slow |-> u.slow]
      BY <1>2 DEF ViewerRec
    <3>2. u1 = [at |-> there, step |-> u.step, got |-> u.got, page |-> u.page, slow |-> u.slow]
      BY <3>1
    <3>3. u2 = [at |-> there, step |-> "want", got |-> u.got, page |-> u.page, slow |-> u.slow]
      <4> HIDE DEF u1
      <4> QED BY <3>2
    <3>4. u3 = [at |-> there, step |-> "want", got |-> nothing, page |-> u.page, slow |-> u.slow]
      <4> HIDE DEF u2
      <4> QED BY <3>3
    <3>5. [u3 EXCEPT !.page = page] =
          [at |-> there, step |-> "want", got |-> nothing, page |-> page, slow |-> u.slow]
      <4> HIDE DEF u3
      <4> QED BY <3>4
    <3> QED BY <3>5 DEF there, nothing
  <2> QED BY <2>1, <2>2
<1>4. u.page \in PageRec
  BY <1>2 DEF ViewerRec
<1>5. /\ page \in PageRec /\ page.score = u.page.score /\ page.why = u.page.why \cup why
      /\ page.cats = IF k = "cats" THEN copy.cats ELSE u.page.cats
      /\ page.health = IF k = "records" THEN copy.health ELSE u.page.health
  <2> HIDE DEF u
  <2> QED BY <1>4 DEF Page!Noted, PageRec, Page!Copy
<1> HIDE DEF u, page
<1>6. n \in ViewerRec
  BY <1>2, <1>5, EmptyTyped DEF ViewerRec, Page!After, Page!Kinds
<1>7. n.at = Page!After(k) /\ n.step = "want" /\ n.page = page /\ n.slow = u.slow
  OBVIOUS
<1>8. \A j : ~Failed(page.why, j) => ~Failed(u.page.why, j) /\ ~Failed(why, j)
  BY <1>5 DEF Failed
<1> HIDE DEF n
<1>9. RequestRight(Work, n)
  <2>1. CASE k = "cats"
    <3>1. n.at = "records" /\ page.cats = copy.cats
      BY <1>5, <1>7, <2>1 DEF Page!After
    <3>2. ~Failed(page.why, "cats") => CatsRight(Work, page.cats, ListLag + u.slow)
      BY <1>8, <2>1, <3>1 DEF u
    <3> QED BY <1>1, <1>5, <1>7, <3>1, <3>2 DEF RequestRight
  <2>2. CASE k = "records"
    <3>1. n.at = "incidents" /\ page.health = copy.health /\ page.cats = u.page.cats
      BY <1>5, <1>7, <2>2 DEF Page!After
    <3>2. ~Failed(page.why, "records") => HealthRight(Work, page.health, ListLag + u.slow)
      BY <1>8, <2>2, <3>1 DEF u
    <3>3. ~Failed(page.why, "cats") => CatsRight(Work, page.cats, ListLag + u.slow)
      <4>1. u.at = "records"
        BY <2>2 DEF u
      <4> QED BY <1>1, <1>8, <3>1, <4>1 DEF RequestRight
    <3> QED BY <1>1, <1>5, <1>7, <3>1, <3>2, <3>3 DEF RequestRight
  <2> QED BY <2>1, <2>2 DEF Page!Kinds
<1> QED BY <1>3, <1>6, <1>9

(* Right with some lag is right with a longer one. *)
LEMMA RightLonger ==
  ASSUME NEW w \in WorkRec, NEW lag \in Nat, NEW longer \in Nat, lag <= longer
  PROVE  /\ \A cats : CatsRight(w, cats, lag) => CatsRight(w, cats, longer)
         /\ \A health : HealthRight(w, health, lag) => HealthRight(w, health, longer)
         /\ \A score : ScoreRight(w, score, lag) => ScoreRight(w, score, longer)
<1>1. Later(w, w, 0)
  BY PageNumbers DEF Later, WorkRec
<1>2. lag + 0 <= longer
  OBVIOUS
<1> QED BY <1>1, <1>2, RightLater

(* What workforce answers is right when it does. *)
LEMMA AnswersRight ==
  ASSUME PageInv, NEW k \in Page!Kinds, NEW a \in Page!Answers(k)
  PROVE  /\ a \in Page!Copy
         /\ k = "cats" => \A lag : CatsRight(Work, a.cats, lag)
         /\ k = "records" => \A lag : HealthRight(Work, a.health, lag)
<1>1. Page!NoCopy \in Page!Copy
  BY EmptyTyped
<1>2. CASE k = "cats"
  <2> DEFINE some == (Page!ListEmployees # {})
             cats == Page!ListEmployees
  <2>1. a = [Page!NoCopy EXCEPT !.known = some, !.cats = cats]
    BY <1>2 DEF Page!Answers
  <2>2. some \in BOOLEAN /\ cats \subseteq Cats
    BY DEF Page!ListEmployees
  <2>3. a \in Page!Copy /\ a.cats = cats
    <3> HIDE DEF some, cats
    <3> QED BY <1>1, <2>1, <2>2 DEF Page!Copy
  <2> QED BY <1>2, <2>3 DEF CatsRight, Work, Page!ListEmployees
<1>3. CASE k = "records"
  <2>1. PICK h \in Page!ListVHRRecords : a = [Page!NoCopy EXCEPT !.known = TRUE, !.health = h]
    BY <1>3 DEF Page!Answers
  <2>2. h \in [Cats -> Page!Health] /\ \A c \in Cats : h[c] \in LatestOf(Work.visits[c].all)
    BY <2>1 DEF Page!ListVHRRecords, Page!Latest, LatestOf, Work
  <2>3. a \in Page!Copy /\ a.health = h
    BY <1>1, <2>1, <2>2 DEF Page!Copy
  <2> QED BY <1>3, <2>2, <2>3 DEF HealthRight
<1> QED BY <1>2, <1>3 DEF Page!Kinds

(* A list from the cache, from workforce, or an old one. *)
LEMMA FetchPreserves ==
  ASSUME PageInv, NEW v \in Viewers, NEW k \in Page!Kinds, Page!Fetch(v, k)
  PROVE  PageInv'
<1> DEFINE u == viewer[v]
<1>1. /\ Work \in WorkRec /\ lists \in [Page!Kinds -> Page!Copy] /\ viewer \in [Viewers -> ViewerRec]
      /\ welfare \in WelfareRec /\ holder \in [Page!Kinds -> Viewers \cup {Page!Nobody}]
  BY PageTypes DEF PageInv
<1>2. /\ u \in ViewerRec /\ RequestRight(Work, u) /\ u.at = k
      /\ CatsListRight(Work, lists["cats"]) /\ RecordsListRight(Work, lists["records"])
      /\ PortalPageRight(Work, welfare)
      /\ UNCHANGED <<active, visits, incidents, welfare>>
  BY <1>1 DEF PageInv, Page!Fetch
<1>3. u.slow \in 0..MaxSlow /\ u.slow \in Nat /\ ListLag + u.slow \in Nat /\ u.slow <= ListLag + u.slow
  BY <1>2, PageNumbers DEF ViewerRec
<1>4. CASE /\ u.step = "want" /\ holder[k] = Page!Nobody /\ Page!FreshCopy(k)
           /\ Page!GoesOn(v, k, lists[k], {}) /\ UNCHANGED holder /\ UNCHANGED <<lists, happened>>
  <2>1. lists[k] \in Page!Copy /\ lists[k].known /\ lists[k].age < ListTTL
    BY <1>1, <1>4 DEF Page!FreshCopy
  <2>2. lists[k].age + MaxSlow \in Nat /\ lists[k].age + MaxSlow <= ListLag + u.slow
    BY <1>3, <2>1, PageNumbers DEF Page!Copy, ListLag
  <2>3. /\ k = "cats" => CatsRight(Work, lists[k].cats, ListLag + u.slow)
        /\ k = "records" => HealthRight(Work, lists[k].health, ListLag + u.slow)
    BY <1>1, <1>2, <1>3, <2>1, <2>2, RightLonger DEF CatsListRight, RecordsListRight
  <2>4. PICK n \in ViewerRec : viewer' = [viewer EXCEPT ![v] = n] /\ RequestRight(Work, n)
    <3>1. Page!GoesOn(v, k, lists[k], {})
      BY <1>4
    <3>2. {} \in SUBSET Page!Reasons
      OBVIOUS
    <3> QED BY <1>2, <2>1, <2>3, <3>1, <3>2, GoesOnRight
  <2>5. \A j \in Page!Kinds : (holder'[j] = holder[j] /\ viewer[v].at # j) \/ holder'[j] = Page!Nobody
    BY <1>2, <1>4
  <2> QED BY <1>1, <1>2, <1>4, <2>4, <2>5, RequestPreserves
<1>5. CASE /\ u.step = "want" /\ holder[k] = Page!Nobody
           /\ holder' = [holder EXCEPT ![k] = v]
           /\ viewer' = [viewer EXCEPT ![v].step = "called"]
           /\ UNCHANGED <<lists, happened>>
  <2> DEFINE n == [u EXCEPT !.step = "called"]
  <2>1. viewer' = [viewer EXCEPT ![v] = n]
    BY <1>1, <1>5
  <2>2. /\ n \in ViewerRec /\ n.at = u.at /\ n.step = "called" /\ n.page = u.page /\ n.slow = u.slow
    BY <1>2 DEF ViewerRec
  <2> HIDE DEF n
  <2>3. RequestRight(Work, n)
    BY <1>2, <2>2 DEF RequestRight
  <2>4. /\ holder' \in [Page!Kinds -> Viewers \cup {Page!Nobody}]
        /\ \A j \in Page!Kinds : \/ holder'[j] = holder[j] /\ viewer[v].at # j
                                 \/ holder'[j] \in {holder[j], v} /\ n.at = j /\ n.step \in {"called", "answered"}
    BY <1>1, <1>2, <1>5, <2>2
  <2> QED BY <1>1, <1>2, <1>5, <2>1, <2>2, <2>3, <2>4, RequestPreserves
<1>6. CASE /\ u.step = "called"
           /\ \E a \in Page!Answers(k) :
                 viewer' = [viewer EXCEPT ![v].step = "answered", ![v].got = a]
           /\ UNCHANGED <<lists, holder, happened>>
  <2>1. PICK a \in Page!Answers(k) : viewer' = [viewer EXCEPT ![v].step = "answered", ![v].got = a]
    BY <1>6
  <2>2. /\ a \in Page!Copy
        /\ k = "cats" => \A lag : CatsRight(Work, a.cats, lag)
        /\ k = "records" => \A lag : HealthRight(Work, a.health, lag)
    BY AnswersRight
  <2> DEFINE n == [[u EXCEPT !.step = "answered"] EXCEPT !.got = a]
  <2>3. viewer' = [viewer EXCEPT ![v] = n]
    BY <1>1, <1>2, <2>1 DEF ViewerRec
  <2>4. /\ n \in ViewerRec /\ n.at = u.at /\ n.step = "answered" /\ n.got = a
        /\ n.page = u.page /\ n.slow = u.slow
    <3> HIDE DEF u
    <3> QED BY <1>2, <2>2 DEF ViewerRec
  <2> HIDE DEF n
  <2>5. RequestRight(Work, n)
    BY <1>2, <2>2, <2>4 DEF RequestRight
  <2>6. \A j \in Page!Kinds : \/ holder'[j] = holder[j] /\ viewer[v].at # j
                              \/ holder'[j] \in {holder[j], v} /\ n.at = j /\ n.step \in {"called", "answered"}
    BY <1>2, <1>6, <2>4
  <2> QED BY <1>1, <1>2, <1>6, <2>3, <2>4, <2>5, <2>6, RequestPreserves
<1>7. CASE /\ u.step = "called" /\ Page!Happens
           /\ holder' = [holder EXCEPT ![k] = Page!Nobody]
           /\ Page!GoesOn(v, k, IF lists[k].known THEN lists[k] ELSE Page!NoCopy,
                          {<<IF lists[k].known THEN "old" ELSE "no", k>>})
           /\ UNCHANGED lists
  <2> DEFINE copy == IF lists[k].known THEN lists[k] ELSE Page!NoCopy
             why == {<<IF lists[k].known THEN "old" ELSE "no", k>>}
  <2>1. copy \in Page!Copy
    BY <1>1, EmptyTyped
  <2>2. why \in SUBSET Page!Reasons /\ Failed(why, k)
    BY DEF Page!Reasons, Failed
  <2>3. Page!GoesOn(v, k, copy, why)
    BY <1>7
  <2>4. PICK n \in ViewerRec : viewer' = [viewer EXCEPT ![v] = n] /\ RequestRight(Work, n)
    <3> HIDE DEF copy, why
    <3> QED BY <1>2, <2>1, <2>2, <2>3, GoesOnRight
  <2>5. /\ holder' \in [Page!Kinds -> Viewers \cup {Page!Nobody}]
        /\ \A j \in Page!Kinds : (holder'[j] = holder[j] /\ viewer[v].at # j) \/ holder'[j] = Page!Nobody
    BY <1>1, <1>2, <1>7
  <2> QED BY <1>1, <1>2, <1>7, <2>4, <2>5, RequestPreserves
<1>8. CASE /\ u.step = "answered"
           /\ lists' = [lists EXCEPT ![k] = u.got]
           /\ holder' = [holder EXCEPT ![k] = Page!Nobody]
           /\ Page!GoesOn(v, k, u.got, {})
           /\ UNCHANGED happened
  <2>1. u.got \in Page!Copy /\ u.got.age \in Nat
    BY <1>2, PageNumbers DEF ViewerRec, Page!Copy
  <2>2. /\ k = "cats" => CatsRight(Work, u.got.cats, u.slow)
        /\ k = "records" => HealthRight(Work, u.got.health, u.slow)
    BY <1>2, <1>8 DEF RequestRight
  <2>3. /\ k = "cats" => CatsRight(Work, u.got.cats, ListLag + u.slow)
        /\ k = "records" => HealthRight(Work, u.got.health, ListLag + u.slow)
    BY <1>1, <1>3, <2>2, RightLonger
  <2>4. u.got.age + MaxSlow \in Nat /\ u.slow <= u.got.age + MaxSlow
    BY <1>3, <2>1, PageNumbers
  <2>5. /\ k = "cats" => CatsRight(Work, u.got.cats, u.got.age + MaxSlow)
        /\ k = "records" => HealthRight(Work, u.got.health, u.got.age + MaxSlow)
    BY <1>1, <1>3, <2>2, <2>4, RightLonger
  <2>6. PICK n \in ViewerRec : viewer' = [viewer EXCEPT ![v] = n] /\ RequestRight(Work, n)
    <3>1. Page!GoesOn(v, k, u.got, {})
      BY <1>8
    <3>2. {} \in SUBSET Page!Reasons
      OBVIOUS
    <3> QED BY <1>2, <2>1, <2>3, <3>1, <3>2, GoesOnRight
  <2>7. lists' \in [Page!Kinds -> Page!Copy]
    BY <1>1, <1>8, <2>1
  <2>8. CatsListRight(Work, lists'["cats"]) /\ RecordsListRight(Work, lists'["records"])
    <3>1. CASE k = "cats"
      <4>1. lists'["cats"] = u.got /\ lists'["records"] = lists["records"]
        BY <1>1, <1>8, <3>1 DEF Page!Kinds
      <4> QED BY <1>2, <2>5, <3>1, <4>1 DEF CatsListRight
    <3>2. CASE k = "records"
      <4>1. lists'["records"] = u.got /\ lists'["cats"] = lists["cats"]
        BY <1>1, <1>8, <3>2 DEF Page!Kinds
      <4> QED BY <1>2, <2>5, <3>2, <4>1 DEF RecordsListRight
    <3> QED BY <3>1, <3>2 DEF Page!Kinds
  <2>9. /\ holder' \in [Page!Kinds -> Viewers \cup {Page!Nobody}]
        /\ \A j \in Page!Kinds : (holder'[j] = holder[j] /\ viewer[v].at # j) \/ holder'[j] = Page!Nobody
    BY <1>1, <1>2, <1>8
  <2> QED BY <1>1, <1>2, <1>8, <2>6, <2>7, <2>8, <2>9, RequestPreserves
<1>9. QED
  BY <1>4, <1>5, <1>6, <1>7, <1>8 DEF Page!Fetch

(* The incidents are counted, or the failed call is noted. *)
LEMMA GetESGTransparencyPreserves ==
  ASSUME PageInv, NEW v \in Viewers, Page!GetESGTransparency(v)
  PROVE  PageInv'
<1> DEFINE u == viewer[v]
<1>1. /\ Work \in WorkRec /\ lists \in [Page!Kinds -> Page!Copy] /\ viewer \in [Viewers -> ViewerRec]
      /\ welfare \in WelfareRec /\ holder \in [Page!Kinds -> Viewers \cup {Page!Nobody}]
  BY PageTypes DEF PageInv
<1>2. /\ u \in ViewerRec /\ u.page \in PageRec /\ RequestRight(Work, u) /\ u.at = "incidents"
      /\ CatsListRight(Work, lists["cats"]) /\ RecordsListRight(Work, lists["records"])
      /\ PortalPageRight(Work, welfare)
      /\ UNCHANGED <<active, visits, incidents, lists, holder, welfare>>
  BY <1>1 DEF PageInv, Page!GetESGTransparency, ViewerRec
<1>3. \A j \in Page!Kinds : holder'[j] = holder[j] /\ viewer[v].at # j
  BY <1>2 DEF Page!Kinds
<1>4. ASSUME NEW page \in PageRec, viewer' = [viewer EXCEPT ![v] = [[u EXCEPT !.at = "fill"] EXCEPT !.page = page]],
             page.cats = u.page.cats, page.health = u.page.health, u.page.why \subseteq page.why,
             ~Failed(page.why, "incidents") => page.score = incidents.count,
             page.score <= incidents.count, happened' = happened \/ Page!Happens
      PROVE  PageInv'
  <2> DEFINE n == [[u EXCEPT !.at = "fill"] EXCEPT !.page = page]
  <2>1. n \in ViewerRec /\ n.at = "fill" /\ n.step = u.step /\ n.page = page /\ n.slow = u.slow
    <3> HIDE DEF u
    <3> QED BY <1>2 DEF ViewerRec
  <2>2. viewer' = [viewer EXCEPT ![v] = n]
    BY <1>4
  <2> HIDE DEF n
  <2>3. \A k : ~Failed(page.why, k) => ~Failed(u.page.why, k)
    BY <1>4 DEF Failed
  <2>4. ~Failed(page.why, "cats") => CatsRight(Work, page.cats, ListLag + u.slow)
    BY <1>2, <1>4, <2>3 DEF RequestRight
  <2>5. ~Failed(page.why, "records") => HealthRight(Work, page.health, ListLag + u.slow)
    BY <1>2, <1>4, <2>3 DEF RequestRight
  <2>6. ~Failed(page.why, "incidents") => ScoreRight(Work, page.score, u.slow)
    BY <1>4 DEF ScoreRight, Work
  <2>7. page.score <= Work.incidents.count
    BY <1>4 DEF Work
  <2>8. RequestRight(Work, n)
    BY <2>1, <2>4, <2>5, <2>6, <2>7 DEF RequestRight
  <2> QED BY <1>1, <1>2, <1>3, <1>4, <2>1, <2>2, <2>8, RequestPreserves
<1>5. CASE /\ viewer' = [viewer EXCEPT ![v].at = "fill", ![v].page.score = Page!ListWorkplaceIncidents]
           /\ UNCHANGED happened
  <2> DEFINE page == [u.page EXCEPT !.score = incidents.count]
  <2>1. viewer' = [viewer EXCEPT ![v] = [[u EXCEPT !.at = "fill"] EXCEPT !.page = page]]
    BY <1>1, <1>2, <1>5 DEF Page!ListWorkplaceIncidents, ViewerRec
  <2>2. incidents.count \in 0..MaxEvents
    BY <1>1 DEF Work, WorkRec
  <2>3. /\ page \in PageRec /\ page.cats = u.page.cats /\ page.health = u.page.health
        /\ page.why = u.page.why /\ page.score = incidents.count
    <3> HIDE DEF u
    <3> QED BY <1>2, <2>2 DEF PageRec
  <2>4. page.score <= incidents.count
    BY <2>2, <2>3, PageNumbers
  <2> HIDE DEF page
  <2> QED BY <1>4, <1>5, <2>1, <2>3, <2>4
<1>6. CASE /\ Page!Happens
           /\ viewer' = [viewer EXCEPT ![v].at = "fill",
                                       ![v].page.why = @ \cup {<<"no", "incidents">>}]
  <2> DEFINE page == [u.page EXCEPT !.why = @ \cup {<<"no", "incidents">>}]
  <2>1. viewer' = [viewer EXCEPT ![v] = [[u EXCEPT !.at = "fill"] EXCEPT !.page = page]]
    BY <1>1, <1>2, <1>6 DEF ViewerRec
  <2>2. <<"no", "incidents">> \in Page!Reasons
    BY DEF Page!Reasons
  <2>3. /\ page \in PageRec /\ page.cats = u.page.cats /\ page.health = u.page.health
        /\ page.why = u.page.why \cup {<<"no", "incidents">>} /\ page.score = u.page.score
    <3> HIDE DEF u
    <3> QED BY <1>2, <2>2 DEF PageRec
  <2>4. Failed(page.why, "incidents")
    <3> DEFINE why == <<"no", "incidents">>
    <3>1. why[2] = "incidents"
      OBVIOUS
    <3>2. why \in page.why
      <4> HIDE DEF page
      <4> QED BY <2>3
    <3> HIDE DEF page, why
    <3> QED BY <3>1, <3>2 DEF Failed
  <2>5. page.score <= incidents.count
    BY <1>2, <2>3 DEF RequestRight, Work
  <2> HIDE DEF page
  <2> QED BY <1>4, <1>6, <2>1, <2>3, <2>4, <2>5
<1> QED BY <1>5, <1>6 DEF Page!GetESGTransparency

(* A request comes in. *)
LEMMA AskPreserves ==
  ASSUME PageInv, NEW v \in Viewers, Page!Ask(v)
  PROVE  PageInv'
<1> DEFINE u == viewer[v]
<1>1. /\ Work \in WorkRec /\ lists \in [Page!Kinds -> Page!Copy] /\ viewer \in [Viewers -> ViewerRec]
      /\ welfare \in WelfareRec /\ holder \in [Page!Kinds -> Viewers \cup {Page!Nobody}]
  BY PageTypes DEF PageInv
<1>2. /\ u \in ViewerRec /\ RequestRight(Work, u) /\ u = Page!Idle
      /\ CatsListRight(Work, lists["cats"]) /\ RecordsListRight(Work, lists["records"])
      /\ PortalPageRight(Work, welfare)
      /\ UNCHANGED <<active, visits, incidents, lists, holder, welfare>>
  BY <1>1 DEF PageInv, Page!Ask
<1>3. u.at = "idle" /\ u.step = "want"
  BY <1>2 DEF Page!Idle
<1>4. PICK n \in {u, [u EXCEPT !.at = "cats"]} : viewer' = [viewer EXCEPT ![v] = n]
  <2>1. CASE viewer' = viewer
    <3>1. viewer' = [viewer EXCEPT ![v] = u]
      BY <1>1, <2>1
    <3> QED BY <3>1
  <2>2. CASE viewer' = [viewer EXCEPT ![v].at = "cats"]
    <3>1. viewer' = [viewer EXCEPT ![v] = [u EXCEPT !.at = "cats"]]
      BY <1>1, <2>2
    <3> QED BY <3>1
  <2> QED BY <2>1, <2>2 DEF Page!Ask
<1>5. n \in ViewerRec /\ n.at \in {"idle", "cats"} /\ n.step = "want" /\ n.page = u.page
  <2> HIDE DEF u
  <2> QED BY <1>2, <1>3, <1>4 DEF ViewerRec
<1>6. RequestRight(Work, n)
  BY <1>2, <1>5 DEF RequestRight
<1>7. happened' = happened \/ Page!Happens
  BY DEF Page!Ask
<1>8. \A j \in Page!Kinds : holder'[j] = holder[j] /\ viewer[v].at # j
  BY <1>2, <1>3 DEF Page!Kinds
<1> QED BY <1>1, <1>2, <1>4, <1>5, <1>6, <1>7, <1>8, RequestPreserves

(* The page goes into the portal's cache. *)
LEMMA FillPreserves ==
  ASSUME PageInv, NEW v \in Viewers, Page!Fill(v)
  PROVE  PageInv'
<1> DEFINE u == viewer[v]
           p == u.page
<1>1. /\ Work \in WorkRec /\ lists \in [Page!Kinds -> Page!Copy] /\ viewer \in [Viewers -> ViewerRec]
      /\ welfare \in WelfareRec /\ holder \in [Page!Kinds -> Viewers \cup {Page!Nobody}]
  BY PageTypes DEF PageInv
<1>2. /\ u \in ViewerRec /\ p \in PageRec /\ RequestRight(Work, u) /\ u.at = "fill"
      /\ CatsListRight(Work, lists["cats"]) /\ RecordsListRight(Work, lists["records"])
      /\ PortalPageRight(Work, welfare)
      /\ UNCHANGED <<active, visits, incidents, lists, holder>>
      /\ viewer' = [viewer EXCEPT ![v] = Page!Idle]
      /\ happened' = happened \/ Page!Happens
  BY <1>1 DEF PageInv, Page!Fill, ViewerRec
<1>3. \A j \in Page!Kinds : holder'[j] = holder[j] /\ viewer[v].at # j
  BY <1>2 DEF Page!Kinds
<1>4. Page!Idle \in ViewerRec /\ RequestRight(Work, Page!Idle)
  <2>1. Work.incidents.count \in Nat
    BY <1>1, PageNumbers DEF WorkRec
  <2> QED BY <2>1, EmptyTyped DEF Page!Idle, RequestRight
<1>5. welfare' \in WelfareRec /\ PortalPageRight(Work, welfare')
  <2>1. CASE welfare' = welfare
    BY <1>1, <1>2, <2>1
  <2>2. CASE welfare' = [p EXCEPT !.left = PageTTL, !.health = [c \in Cats |-> Page!Summary(p, c)]]
    <3> DEFINE h == [c \in Cats |-> Page!Summary(p, c)]
               q == [[p EXCEPT !.left = PageTTL] EXCEPT !.health = h]
    <3>1. welfare' = q
      BY <1>2, <2>2 DEF PageRec
    <3>2. h \in [Cats -> Page!Health] /\ \A c \in Cats : c \in p.cats => h[c] = p.health[c]
      <4> HIDE DEF p
      <4> QED BY <1>2 DEF Page!Summary, Page!Health, PageRec
    <3>3. /\ q \in WelfareRec /\ q.left = PageTTL /\ q.cats = p.cats /\ q.health = h
          /\ q.score = p.score /\ q.why = p.why
      <4> DEFINE p1 == [p EXCEPT !.left = PageTTL]
      <4> HIDE DEF p, h
      <4>1. p1 \in WelfareRec /\ p1.left = PageTTL /\ p1.cats = p.cats
            /\ p1.score = p.score /\ p1.why = p.why
        BY <1>2, PageNumbers DEF PageRec, WelfareRec
      <4> HIDE DEF p1
      <4>2. q = [p1 EXCEPT !.health = h]
        BY DEF p1
      <4> QED BY <3>2, <4>1, <4>2 DEF WelfareRec
    <3> HIDE DEF q
    <3>4. Late(q) = MaxSlow
      BY <3>3, PageNumbers DEF Late
    <3>5. /\ u.slow \in Nat /\ u.slow <= MaxSlow
          /\ ListLag + u.slow \in Nat /\ ListLag + MaxSlow \in Nat
          /\ ListLag + u.slow <= ListLag + MaxSlow
      BY <1>2, PageNumbers DEF ViewerRec
    <3>6. ~Failed(q.why, "cats") => CatsRight(Work, q.cats, ListLag + MaxSlow)
      <4>1. ~Failed(q.why, "cats") => CatsRight(Work, q.cats, ListLag + u.slow)
        BY <1>2, <3>3 DEF RequestRight
      <4> QED BY <1>1, <3>5, <4>1, RightLonger
    <3>7. ~Failed(q.why, "records") => HealthRight(Work, p.health, ListLag + MaxSlow)
      <4>1. ~Failed(q.why, "records") => HealthRight(Work, p.health, ListLag + u.slow)
        BY <1>2, <3>3 DEF RequestRight
      <4> QED BY <1>1, <3>5, <4>1, RightLonger
    <3>8. ~Failed(q.why, "incidents") => ScoreRight(Work, q.score, MaxSlow)
      <4>1. ~Failed(q.why, "incidents") => ScoreRight(Work, q.score, u.slow)
        BY <1>2, <3>3 DEF RequestRight
      <4>2. MaxSlow \in Nat
        BY PageNumbers
      <4> QED BY <1>1, <3>5, <4>1, <4>2, RightLonger
    <3>9. q.score <= Work.incidents.count
      BY <1>2, <3>3 DEF RequestRight
    <3>10. ~Failed(q.why, "records") =>
             \A c \in q.cats : Work.visits[c].since > ListLag + MaxSlow =>
                q.health[c] \in LatestOf(Work.visits[c].all)
      <4>1. q.cats \subseteq Cats
        BY <3>3 DEF WelfareRec
      <4> HIDE DEF p, h
      <4> QED BY <3>2, <3>3, <3>7, <4>1 DEF HealthRight
    <3>11. PortalPageRight(Work, q)
      BY <3>4, <3>6, <3>8, <3>9, <3>10 DEF PortalPageRight
    <3> QED BY <3>1, <3>3, <3>11
  <2> QED BY <2>1, <2>2 DEF Page!Fill
<1> QED BY <1>1, <1>2, <1>3, <1>4, <1>5, RequestPreserves

LEMMA PageNextPreserves ==
  ASSUME PageInv, Page!PageNext
  PROVE  PageInv'
<1>1. CASE \E c \in Cats : \/ Page!UpdateEmployeeStatus(c)
                           \/ \E d \in Page!Days, form \in Page!Forms : Page!createVHRRecord(c, d, form)
  BY <1>1, UpdateEmployeeStatusPreserves, CreateVHRRecordPreserves
<1>2. CASE Page!createIncident
  BY <1>2, CreateIncidentPreserves
<1>3. CASE \E v \in Viewers : \/ Page!Ask(v) \/ Page!getActiveFelines(v) \/ Page!getVHRRecordsByFeline(v)
                              \/ Page!GetESGTransparency(v) \/ Page!Fill(v)
  <2>1. "cats" \in Page!Kinds /\ "records" \in Page!Kinds
    BY DEF Page!Kinds
  <2> QED BY <1>3, <2>1, AskPreserves, FetchPreserves, GetESGTransparencyPreserves, FillPreserves
          DEF Page!getActiveFelines, Page!getVHRRecordsByFeline
<1>4. CASE Page!Tick
  BY <1>4, TickPreserves
<1> QED BY <1>1, <1>2, <1>3, <1>4 DEF Page!PageNext

-----------------------------------------------------------------------------
(* Both cached answers, together with the orders: whatever interleaves and *)
(* fails, an entry of the portfolio cache that differs from the books is   *)
(* owed an eviction or carries one of the four reasons the code accepts,   *)
(* and the page about the cats is stale by no more than its two layers of  *)
(* caches may lag, unless a call failed (handleGetPortfolio,               *)
(* handleCreateOrder, handleMessage; GetESGTransparency,                   *)
(* handleGetESGTransparency).                                              *)
THEOREM StaleIsExplained == InvestingSpec => []StaleExplained
<1> DEFINE Inv == CacheInv /\ PageInv
<1>1. InvestingInit => Inv
  BY CacheInitEstablishes, PageInitEstablishes DEF InvestingInit
<1>2. Inv /\ [InvestingNext]_investingVars => Inv'
  <2> SUFFICES ASSUME CacheInv, PageInv, [InvestingNext]_investingVars
               PROVE  CacheInv' /\ PageInv'
    OBVIOUS
  <2>1. UNCHANGED cacheVars => CacheInv'
    <3> SUFFICES ASSUME UNCHANGED cacheVars PROVE CacheInv'
      OBVIOUS
    <3>1. UNCHANGED <<mode, truth, entries, readers, owed, events>>
      BY DEF cacheVars
    <3> QED BY <3>1 DEF CacheInv, Cache!TypeOK, EvictionsCaused, Cache!StaleExplained, Cache!Live
  <2>2. UNCHANGED pageVars => PageInv'
    <3> SUFFICES ASSUME UNCHANGED pageVars PROVE PageInv'
      OBVIOUS
    <3>1. UNCHANGED <<active, visits, incidents, lists, holder, viewer, welfare, happened>>
      BY DEF pageVars
    <3>2. Work' = Work
      BY <3>1 DEF Work
    <3> QED BY <3>1, <3>2 DEF PageInv, Page!PageTypeOK, Page!LocksHeld
  <2>3. CASE Moves("cache") /\ Cache!CacheNext /\ UNCHANGED <<vars, pageVars>>
    BY <2>2, <2>3, CacheNextPreserves
  <2>4. CASE Moves("page") /\ Page!PageNext /\ UNCHANGED <<vars, cacheVars>>
    BY <2>1, <2>4, PageNextPreserves
  <2>5. CASE UNCHANGED <<cacheVars, pageVars>>
    BY <2>1, <2>2, <2>5
  <2> QED BY <2>3, <2>4, <2>5 DEF InvestingNext, investingVars
<1>3. Inv => StaleExplained
  BY PageExplained DEF CacheInv, StaleExplained
<1> QED BY <1>1, <1>2, <1>3, PTL DEF InvestingSpec

(* The orders are one part of it: what is proved of them alone holds here. *)
THEOREM OrdersAreAPart == InvestingSpec => Spec
<1>1. InvestingInit => Init
  BY DEF InvestingInit
<1>2. [InvestingNext]_investingVars => [Next]_vars
  BY DEF InvestingNext, investingVars
<1> QED BY <1>1, <1>2, PTL DEF InvestingSpec, Spec

-----------------------------------------------------------------------------
(***************************************************************************)
(* The broker.                                                             *)
(***************************************************************************)
Position == [qty: Int, price: Int]

(* A request can be made at all. *)
LEMMA RequestExists == (CHOOSE r \in Request : TRUE) \in Request
<1>1. PICK a \in Accounts, q \in Quantities : TRUE
  BY BrokerAssumption
<1>2. [account |-> a, side |-> "buy", type |-> "market", qty |-> q, limit |-> NoLimit] \in Request
  BY DEF Request
<1> QED
  BY <1>2

(* What a request is made of... *)
LEMMA RequestParts ==
  ASSUME NEW r \in Request
  PROVE  /\ r.account \in Accounts
         /\ r.side \in {"buy", "sell"}
         /\ r.qty \in Nat /\ r.qty > 0
         /\ r.limit # NoLimit => r.limit \in Int
<1>1. /\ r.account \in Accounts
      /\ r.side \in {"buy", "sell"}
      /\ r.qty \in Quantities
      /\ r.limit \in Limits \cup {NoLimit}
  BY DEF Request
<1>2. Quantities \subseteq Nat \ {0} /\ Limits \subseteq Int
  BY BrokerAssumption
<1>3. r.qty \in Nat /\ r.qty # 0
  BY <1>1, <1>2
<1>4. r.limit # NoLimit => r.limit \in Int
  BY <1>1, <1>2
<1> QED
  BY <1>1, <1>3, <1>4

(* ... and an order, ... *)
LEMMA OrderParts ==
  ASSUME BrokerTypeOK, NEW o \in Orders
  PROVE  /\ order[o].request \in Request
         /\ order[o].status \in Statuses
         /\ order[o].fill \in Int /\ order[o].credit \in Int
BY DEF BrokerTypeOK, OrderRecord

(* ... and a quote. *)
LEMMA QuoteParts ==
  ASSUME NEW q \in Quotes
  PROVE  /\ q.bid \in Nat /\ q.bid > 0
         /\ q.ask \in Nat /\ q.ask > 0
         /\ q.price \in Nat
BY BrokerAssumption

(* A product of naturals is one. *)
LEMMA Product == \A m, n \in Nat : m * n \in Nat
OBVIOUS

-----------------------------------------------------------------------------
(* Order o is filled at a price and with a credit that the customer's cash *)
(* or shares cover, and not beyond its limit; it was waiting for that.     *)
Fills(o, price, credit) ==
  LET r == order[o].request
  IN  /\ order[o].status \in {"quoted", "accepted"}
      /\ Execute(o, price, credit)
      /\ IF r.side = "buy" THEN cash[r.account] + credit >= r.qty * price
         ELSE credit = 0 /\ position[r.account].qty >= r.qty
      /\ r.type = "limit" =>
           /\ r.limit # NoLimit
           /\ IF r.side = "buy" THEN price <= r.limit ELSE price >= r.limit

(* Order o goes on, or ends unfilled. *)
BrokerMoves(o) ==
  /\ order[o].status \in {"none", "quoted", "new", "accepted"}
  /\ order' \in [Orders -> OrderRecord]
  /\ \A p \in Orders \ {o} : order'[p] = order[p]
  /\ order'[o].status # "filled"
  /\ order'[o].status = "quoted" => order'[o].quoted \in Quotes
  /\ UNCHANGED accountVars

(* What CreateOrder and CheckLimitOrders rely on: the mutex keeps the      *)
(* orders a tick has yet to visit as it found them, and a handler that has *)
(* read a quote still holds it.                                            *)
UncheckedWait == \A o \in unchecked : Waiting(o)
QuoteHeld == \A o \in Orders : order[o].status = "quoted" => order[o].quoted \in Quotes

Held == BrokerTypeOK /\ UncheckedWait /\ QuoteHeld

(* SetStatus is a move. *)
LEMMA SetStatusMoves ==
  ASSUME BrokerTypeOK, NEW o \in Orders, NEW s \in Statuses \ {"filled", "quoted"},
         order[o].status \in {"none", "quoted", "new", "accepted"}, SetStatus(o, s)
  PROVE  BrokerMoves(o)
<1>1. order' = [order EXCEPT ![o].status = s, ![o].quoted = NoQuote]
  BY DEF SetStatus
<1>2. order' \in [Orders -> OrderRecord]
  BY <1>1 DEF BrokerTypeOK, OrderRecord
<1>3. order'[o].status = s /\ \A p \in Orders \ {o} : order'[p] = order[p]
  BY <1>1 DEF BrokerTypeOK, OrderRecord
<1> QED
  BY <1>2, <1>3 DEF BrokerMoves, SetStatus

(* CreateOrder fills the order or moves it. *)
LEMMA CreateOrderStep ==
  ASSUME Held, NEW o \in Orders, CreateOrder(o)
  PROVE  BrokerMoves(o) \/ \E price \in Nat, credit \in Int : Fills(o, price, credit)
<1> DEFINE r == order[o].request
           q == order[o].quoted
           price == FillPrice(r.side, q)
<1>1. order[o].status = "quoted" /\ q \in Quotes /\ BrokerTypeOK
  BY DEF CreateOrder, Held, QuoteHeld
<1>2. r \in Request
  BY <1>1, OrderParts
<1>3. price \in Nat
  BY <1>1, QuoteParts DEF FillPrice
<1>4. /\ r.qty \in Nat /\ r.account \in Accounts /\ r.side \in {"buy", "sell"}
      /\ cash[r.account] \in Int /\ position[r.account].qty \in Int
  BY <1>1, <1>2, RequestParts DEF BrokerTypeOK
<1>5. r.qty * price \in Int
  BY <1>3, <1>4
<1>6. CASE ExecuteMarketOrder(o)
  <2>1. r.type = "market"
    BY <1>6 DEF ExecuteMarketOrder
  <2>2. CASE Affordable(r, price) /\ Execute(o, price, 0)
    <3> HIDE DEF price
    <3>1. Fills(o, price, 0)
      BY <1>1, <1>4, <1>5, <2>1, <2>2 DEF Fills, Affordable
    <3> QED
      BY <1>3, <3>1
  <2>3. CASE /\ r.side = "buy"
             /\ Execute(o, price, r.qty * price - cash[r.account] + ReplenishCredit)
    <3> DEFINE credit == r.qty * price - cash[r.account] + ReplenishCredit
    <3> HIDE DEF price
    <3>1. credit \in Int /\ cash[r.account] + credit >= r.qty * price
      BY <1>4, <1>5, BrokerAssumption
    <3>2. Execute(o, price, credit)
      BY <2>3
    <3> HIDE DEF credit
    <3>3. Fills(o, price, credit)
      BY <1>1, <2>1, <2>3, <3>1, <3>2 DEF Fills
    <3> QED
      BY <1>3, <3>1, <3>3
  <2>4. CASE SetStatus(o, "rejected")
    BY <1>1, <2>4, SetStatusMoves DEF Statuses
  <2> QED
    BY <1>6, <2>2, <2>3, <2>4 DEF ExecuteMarketOrder
<1>7. CASE SetStatus(o, "accepted")
  BY <1>1, <1>7, SetStatusMoves DEF Statuses
<1>8. CASE SetStatus(o, "new")
  BY <1>1, <1>8, SetStatusMoves DEF Statuses
<1> QED
  BY <1>6, <1>7, <1>8 DEF CreateOrder

(* One visit of CheckLimitOrders fills the order within its limit or does  *)
(* nothing.                                                                *)
LEMMA CheckLimitOrderStep ==
  ASSUME Held, NEW o \in Orders, CheckLimitOrder(o)
  PROVE  \/ \E price \in Nat, credit \in Int : Fills(o, price, credit)
         \/ UNCHANGED <<accountVars, order>>
<1> DEFINE r == order[o].request
           price == IF r.side = "buy" THEN quote.ask ELSE quote.bid
<1>1. BrokerTypeOK /\ Waiting(o) /\ quote \in Quotes
  BY DEF CheckLimitOrder, Held, UncheckedWait, BrokerTypeOK
<1>2. r \in Request
  BY <1>1, OrderParts
<1>3. price \in Nat
  BY <1>1, QuoteParts
<1>4. /\ r.qty \in Nat /\ r.account \in Accounts /\ r.side \in {"buy", "sell"}
      /\ r.limit # NoLimit => r.limit \in Int
      /\ cash[r.account] \in Int /\ position[r.account].qty \in Int
  BY <1>1, <1>2, RequestParts DEF BrokerTypeOK
<1>5. CASE Crosses(r, quote) /\ Affordable(r, price) /\ Execute(o, price, 0)
  <2>1. /\ r.limit # NoLimit
        /\ IF r.side = "buy" THEN price <= r.limit ELSE price >= r.limit
    BY <1>4, <1>5 DEF Crosses
  <2>2. r.qty * price \in Int
    BY <1>3, <1>4
  <2> HIDE DEF price
  <2>3. Fills(o, price, 0)
    BY <1>1, <1>4, <1>5, <2>1, <2>2 DEF Fills, Affordable, Waiting
  <2> QED
    BY <1>3, <2>3
<1> QED
  BY <1>5 DEF CheckLimitOrder

(* A request is a move. *)
LEMMA GetQuoteMoves ==
  ASSUME BrokerTypeOK, NEW o \in Orders, NEW r \in Request, GetQuote(o, r)
  PROVE  BrokerMoves(o)
<1>1. order' = [order EXCEPT ![o].status = "quoted", ![o].request = r, ![o].quoted = quote]
  BY DEF GetQuote
<1>2. quote \in Quotes
  BY DEF BrokerTypeOK
<1>3. order' \in [Orders -> OrderRecord]
  BY <1>1, <1>2 DEF BrokerTypeOK, OrderRecord, Statuses
<1>4. order'[o].quoted = quote /\ order'[o].status = "quoted"
  BY <1>1 DEF BrokerTypeOK, OrderRecord
<1>5. \A p \in Orders \ {o} : order'[p] = order[p]
  BY <1>1 DEF BrokerTypeOK
<1> QED
  BY <1>2, <1>3, <1>4, <1>5 DEF GetQuote, BrokerMoves

(* Every step fills one order, moves one order, revalues the accounts, or  *)
(* leaves accounts and orders alone.                                       *)
LEMMA StepForms ==
  ASSUME Held, [BrokerNext]_brokerVars
  PROVE  \/ \E o \in Orders, price \in Nat, credit \in Int : Fills(o, price, credit)
         \/ \E o \in Orders : BrokerMoves(o)
         \/ UpdateAccountValuations
         \/ UNCHANGED <<accountVars, order>>
<1>1. CASE Tick
  <2>1. CASE \E q \in Quotes : PublishQuote(q)
    BY <2>1 DEF PublishQuote
  <2>2. CASE CheckLimitOrders
    BY <2>2 DEF CheckLimitOrders
  <2>3. CASE \E o \in Orders : CheckLimitOrder(o)
    BY <2>3, CheckLimitOrderStep
  <2> QED
    BY <1>1, <2>1, <2>2, <2>3 DEF Tick
<1>2. CASE Trade
  <2>1. PICK o \in Orders : (\E r \in Request : GetQuote(o, r)) \/ CreateOrder(o) \/ CancelOrder(o)
    BY <1>2 DEF Trade
  <2>2. CASE \E r \in Request : GetQuote(o, r)
    BY <2>2, GetQuoteMoves DEF Held
  <2>3. CASE CreateOrder(o)
    BY <2>3, CreateOrderStep
  <2>4. CASE CancelOrder(o)
    BY <2>4, SetStatusMoves DEF CancelOrder, Held, Statuses
  <2> QED
    BY <2>1, <2>2, <2>3, <2>4
<1>3. CASE UNCHANGED brokerVars
  BY <1>3 DEF brokerVars
<1> QED
  BY <1>1, <1>2, <1>3 DEF BrokerNext

-----------------------------------------------------------------------------
Sign(r) == IF r.side = "buy" THEN 1 ELSE -1

(* What a fill writes. *)
LEMMA FillEffect ==
  ASSUME BrokerTypeOK, NEW o \in Orders, NEW price \in Nat, NEW credit \in Int,
         Fills(o, price, credit)
  PROVE  LET r == order[o].request
             a == r.account
         IN  /\ order' \in [Orders -> OrderRecord]
             /\ \A p \in Orders \ {o} : order'[p] = order[p]
             /\ order'[o].status = "filled"
             /\ order'[o].request = r
             /\ order'[o].fill = price
             /\ order'[o].credit = credit
             /\ cash' \in [Accounts -> Int]
             /\ equity' \in [Accounts -> Int]
             /\ position' \in [Accounts -> Position]
             /\ a \in Accounts
             /\ \A b \in Accounts \ {a} : /\ cash'[b] = cash[b]
                                          /\ equity'[b] = equity[b]
                                          /\ position'[b] = position[b]
             /\ cash'[a] = cash[a] + credit - Sign(r) * r.qty * price
             /\ position'[a].qty = position[a].qty + Sign(r) * r.qty
             /\ position'[a].price = price
             /\ equity'[a] = cash'[a] + position'[a].qty * price
<1> DEFINE r == order[o].request
           a == r.account
           newCash == cash[a] + credit - Sign(r) * r.qty * price
           newQty == position[a].qty + Sign(r) * r.qty
<1>1. Execute(o, price, credit)
  BY DEF Fills
<1>2. /\ cash' = [cash EXCEPT ![a] = newCash]
      /\ position' = [position EXCEPT ![a] = [qty |-> newQty, price |-> price]]
      /\ equity' = [equity EXCEPT ![a] = newCash + newQty * price]
      /\ order' = [order EXCEPT ![o].status = "filled", ![o].quoted = NoQuote,
                                ![o].fill = price, ![o].credit = credit]
  BY <1>1 DEF Execute, Sign
<1>3. /\ a \in Accounts /\ r.qty \in Int /\ Sign(r) \in Int
      /\ cash \in [Accounts -> Int] /\ equity \in [Accounts -> Int]
      /\ position \in [Accounts -> Position]
  BY OrderParts, RequestParts DEF Sign, BrokerTypeOK, Position
<1>4. cash[a] \in Int /\ position[a].qty \in Int
  BY <1>3 DEF Position
<1>5. newCash \in Int /\ newQty \in Int
  BY <1>3, <1>4
<1>6. newQty * price \in Int
  BY <1>5
<1>7. newCash + newQty * price \in Int
  BY <1>5, <1>6
<1>8. order' \in [Orders -> OrderRecord]
  <2>1. order' = [order EXCEPT ![o].status = "filled", ![o].quoted = NoQuote,
                               ![o].fill = price, ![o].credit = credit]
    BY <1>2
  <2> DEFINE new == [order[o] EXCEPT !.status = "filled", !.quoted = NoQuote,
                                     !.fill = price, !.credit = credit]
  <2>2. price \in Int /\ "filled" \in Statuses
    BY DEF Statuses
  <2>3. new \in OrderRecord
    BY <2>2 DEF BrokerTypeOK, OrderRecord
  <2>4. order'[o] = new /\ \A p \in Orders \ {o} : order'[p] = order[p]
    BY <2>1 DEF BrokerTypeOK
  <2>5. DOMAIN order' = Orders /\ order' = [p \in Orders |-> order'[p]]
    BY <2>1 DEF BrokerTypeOK
  <2> HIDE DEF new
  <2> QED
    BY <2>3, <2>4, <2>5 DEF BrokerTypeOK
<1>9. /\ order'[o].status = "filled" /\ order'[o].request = r
      /\ order'[o].fill = price /\ order'[o].credit = credit
  BY <1>2 DEF BrokerTypeOK, OrderRecord
<1>10. \A p \in Orders \ {o} : order'[p] = order[p]
  BY <1>2 DEF BrokerTypeOK
<1> HIDE DEF r, a, newCash, newQty
<1>11. cash' \in [Accounts -> Int] /\ equity' \in [Accounts -> Int]
  BY <1>2, <1>3, <1>5, <1>7
<1>12. position' \in [Accounts -> Position]
  BY <1>2, <1>3, <1>5 DEF Position
<1>13. /\ \A b \in Accounts \ {a} : /\ cash'[b] = cash[b]
                                    /\ equity'[b] = equity[b]
                                    /\ position'[b] = position[b]
       /\ cash'[a] = newCash
       /\ position'[a].qty = newQty
       /\ position'[a].price = price
       /\ equity'[a] = newCash + newQty * price
  BY <1>2, <1>3
<1> QED
  BY <1>3, <1>8, <1>9, <1>10, <1>11, <1>12, <1>13 DEF r, a, newCash, newQty

(* The tick's revaluation writes equities and prices only. *)
LEMMA ValuationEffect ==
  ASSUME BrokerTypeOK, UpdateAccountValuations
  PROVE  /\ order' = order /\ cash' = cash
         /\ equity' \in [Accounts -> Int]
         /\ position' \in [Accounts -> Position]
         /\ \A a \in Accounts : /\ position'[a].qty = position[a].qty
                                /\ equity'[a] = cash[a] + position'[a].qty * position'[a].price
<1>1. /\ position' = [a \in Accounts |-> [position[a] EXCEPT !.price = quote.price]]
      /\ equity' = [a \in Accounts |-> cash[a] + position[a].qty * quote.price]
      /\ order' = order /\ cash' = cash
  BY DEF UpdateAccountValuations
<1>2. quote.price \in Int
  BY QuoteParts DEF BrokerTypeOK
<1>3. /\ cash \in [Accounts -> Int] /\ position \in [Accounts -> Position]
      /\ \A a \in Accounts : position[a].qty \in Int
  BY DEF BrokerTypeOK, Position
<1>4. position' \in [Accounts -> Position]
  BY <1>1, <1>2, <1>3 DEF Position
<1>5. \A a \in Accounts : position'[a].qty = position[a].qty /\ position'[a].price = quote.price
  BY <1>1, <1>3 DEF Position
<1>6. \A a \in Accounts : position[a].qty * quote.price \in Int
  BY <1>2, <1>3
<1>7. equity' \in [Accounts -> Int]
  BY <1>1, <1>3, <1>6
<1>8. \A a \in Accounts : equity'[a] = cash[a] + position'[a].qty * position'[a].price
  BY <1>1, <1>5
<1> QED
  BY <1>1, <1>4, <1>5, <1>7, <1>8

(* The engine's variables keep their types, and a tick that is visiting    *)
(* orders has orders left to visit.                                        *)
LEMMA TickTypes ==
  ASSUME BrokerTypeOK, [BrokerNext]_brokerVars
  PROVE  /\ autoReplenish' \in BOOLEAN
         /\ quote' \in Quotes
         /\ tick' \in {"idle", "valuate", "limits", "checking"}
         /\ unchecked' \subseteq Orders
         /\ tick' = "checking" <=> unchecked' # {}
<1>1. CASE UNCHANGED <<autoReplenish, tickVars>>
  BY <1>1 DEF tickVars, BrokerTypeOK
<1>2. CASE \E q \in Quotes : PublishQuote(q)
  BY <1>2 DEF PublishQuote, BrokerTypeOK
<1>3. CASE UpdateAccountValuations
  BY <1>3 DEF UpdateAccountValuations, BrokerTypeOK
<1>4. CASE CheckLimitOrders
  BY <1>4 DEF CheckLimitOrders, BrokerTypeOK
<1>5. CASE \E o \in Orders : CheckLimitOrder(o)
  BY <1>5 DEF CheckLimitOrder, BrokerTypeOK
<1> QED
  BY <1>1, <1>2, <1>3, <1>4, <1>5
     DEF BrokerNext, Tick, Trade, GetQuote, CreateOrder, CancelOrder, brokerVars

(* The orders a tick has yet to visit are not touched meanwhile. *)
LEMMA UncheckedStep ==
  ASSUME Held, [BrokerNext]_brokerVars
  PROVE  UncheckedWait'
<1>1. BrokerTypeOK /\ UncheckedWait
  BY DEF Held
<1>2. CASE tickVars' = tickVars
  <2>1. unchecked' = unchecked /\ tick' = tick
    BY <1>2 DEF tickVars
  <2>2. CASE tick # "checking"
    BY <1>1, <2>1, <2>2 DEF BrokerTypeOK, UncheckedWait
  <2>3. CASE tick = "checking"
    <3>1. \/ \E o \in Orders, r \in Request : GetQuote(o, r)
          \/ UNCHANGED order
      BY <2>1, <2>3 DEF BrokerNext, Tick, Trade, CreateOrder, CancelOrder, MutexFree, PublishQuote,
         UpdateAccountValuations, CheckLimitOrders, CheckLimitOrder, BrokerTypeOK, brokerVars, Execute
    <3>2. CASE UNCHANGED order
      BY <1>1, <2>1, <3>2 DEF UncheckedWait, Waiting
    <3>3. CASE \E o \in Orders, r \in Request : GetQuote(o, r)
      <4>1. PICK o \in Orders, r \in Request : GetQuote(o, r)
        BY <3>3
      <4>2. o \notin unchecked
        BY <1>1, <4>1 DEF GetQuote, UncheckedWait, Waiting
      <4>3. \A p \in Orders \ {o} : order'[p] = order[p]
        BY <1>1, <4>1 DEF GetQuote, BrokerTypeOK
      <4> QED
        BY <1>1, <2>1, <4>2, <4>3 DEF UncheckedWait, Waiting, BrokerTypeOK
    <3> QED
      BY <3>1, <3>2, <3>3
  <2> QED
    BY <2>2, <2>3
<1>3. CASE (\E q \in Quotes : PublishQuote(q)) \/ UpdateAccountValuations
  BY <1>1, <1>3 DEF PublishQuote, UpdateAccountValuations, UncheckedWait, Waiting
<1>4. CASE CheckLimitOrders
  BY <1>4 DEF CheckLimitOrders, UncheckedWait, Waiting
<1>5. CASE \E o \in Orders : CheckLimitOrder(o)
  <2>1. PICK o \in Orders : CheckLimitOrder(o)
    BY <1>5
  <2>2. unchecked' = unchecked \ {o}
    BY <2>1 DEF CheckLimitOrder
  <2>3. \A p \in Orders \ {o} : order'[p] = order[p]
    BY <1>1, <2>1 DEF CheckLimitOrder, Execute, BrokerTypeOK
  <2> QED
    BY <1>1, <2>2, <2>3 DEF UncheckedWait, Waiting, BrokerTypeOK
<1> QED
  BY <1>2, <1>3, <1>4, <1>5 DEF BrokerNext, Tick, Trade, GetQuote, CreateOrder, CancelOrder, brokerVars

(* Every step keeps the types, the visited orders and the quotes held. *)
LEMMA HeldInductive == Held /\ [BrokerNext]_brokerVars => Held'
<1> SUFFICES ASSUME Held, [BrokerNext]_brokerVars
             PROVE  Held'
  OBVIOUS
<1>1. BrokerTypeOK /\ QuoteHeld
  BY DEF Held
<1>2. /\ order' \in [Orders -> OrderRecord] /\ QuoteHeld'
      /\ cash' \in [Accounts -> Int] /\ equity' \in [Accounts -> Int]
      /\ position' \in [Accounts -> Position]
  <2>1. CASE \E o \in Orders, price \in Nat, credit \in Int : Fills(o, price, credit)
    <3>1. PICK o \in Orders, price \in Nat, credit \in Int : Fills(o, price, credit)
      BY <2>1
    <3> QED
      BY <1>1, <3>1, FillEffect DEF QuoteHeld
  <2>2. CASE \E o \in Orders : BrokerMoves(o)
    <3>1. PICK o \in Orders : BrokerMoves(o)
      BY <2>2
    <3> QED
      BY <1>1, <3>1 DEF BrokerMoves, QuoteHeld, accountVars, BrokerTypeOK, Position
  <2>3. CASE UpdateAccountValuations
    BY <1>1, <2>3, ValuationEffect DEF QuoteHeld, BrokerTypeOK
  <2>4. CASE UNCHANGED <<accountVars, order>>
    BY <1>1, <2>4 DEF QuoteHeld, accountVars, BrokerTypeOK, Position
  <2> QED
    BY <2>1, <2>2, <2>3, <2>4, StepForms
<1>3. BrokerTypeOK'
  BY <1>1, <1>2, TickTypes DEF BrokerTypeOK, Position
<1> QED
  BY <1>2, <1>3, UncheckedStep DEF Held

(* The initial states are well typed. *)
LEMMA HeldInitial == BrokerInit => Held
<1> SUFFICES ASSUME BrokerInit
             PROVE  Held
  OBVIOUS
<1> USE BrokerAssumption
<1>1. quote \in Quotes /\ quote.price \in Int
  BY QuoteParts DEF BrokerInit
<1>2. OpeningQty * quote.price \in Int
  BY <1>1
<1>3. cash \in [Accounts -> Int] /\ equity \in [Accounts -> Int]
  BY <1>2 DEF BrokerInit
<1>4. position \in [Accounts -> Position]
  BY <1>1 DEF BrokerInit, Position
<1>5. order \in [Orders -> OrderRecord]
  BY RequestExists DEF BrokerInit, OrderRecord, Statuses
<1>6. BrokerTypeOK
  BY <1>1, <1>3, <1>4, <1>5 DEF BrokerInit, BrokerTypeOK, Position
<1> QED
  BY <1>6 DEF BrokerInit, Held, UncheckedWait, QuoteHeld

(* The broker's types hold in every reachable state, and a tick holds the  *)
(* store's mutex exactly while it has orders left to visit.                *)
THEOREM BrokerTypeCorrect == BrokerSpec => []BrokerTypeOK
<1>1. Held => BrokerTypeOK
  BY DEF Held
<1> QED
  BY <1>1, HeldInitial, HeldInductive, PTL DEF BrokerSpec

-----------------------------------------------------------------------------
BoundsInv == Held /\ TradesInBounds

(* A fill leaves nothing owed: a buy pays what the cash and the credit     *)
(* cover, a sale hands over shares that are there.                         *)
LEMMA FillCovered ==
  ASSUME BrokerTypeOK, NeverOverdrawn, NEW o \in Orders, NEW price \in Nat, NEW credit \in Int,
         Fills(o, price, credit)
  PROVE  NeverOverdrawn'
<1> DEFINE r == order[o].request
           a == r.account
<1>1. /\ r.qty \in Nat /\ r.side \in {"buy", "sell"}
      /\ a \in Accounts /\ cash[a] \in Int /\ position[a].qty \in Int
      /\ cash[a] >= 0 /\ position[a].qty >= 0
  BY OrderParts, RequestParts DEF BrokerTypeOK, NeverOverdrawn
<1>2. PICK amount \in Nat : amount = r.qty * price
  BY <1>1, Product
<1>3. /\ \A b \in Accounts \ {a} : cash'[b] = cash[b] /\ position'[b] = position[b]
      /\ cash'[a] = cash[a] + credit - Sign(r) * r.qty * price
      /\ position'[a].qty = position[a].qty + Sign(r) * r.qty
  <2>1. \A b \in Accounts \ {a} : cash'[b] = cash[b] /\ position'[b] = position[b]
    BY FillEffect
  <2>2. cash'[a] = cash[a] + credit - Sign(r) * r.qty * price
    BY FillEffect
  <2>3. position'[a].qty = position[a].qty + Sign(r) * r.qty
    BY FillEffect
  <2> QED BY <2>1, <2>2, <2>3
<1>4. CASE r.side = "buy"
  <2>1. cash[a] + credit >= amount
    BY <1>2, <1>4 DEF Fills
  <2>2. cash'[a] = cash[a] + credit - amount /\ position'[a].qty = position[a].qty + r.qty
    BY <1>1, <1>2, <1>3, <1>4 DEF Sign
  <2>3. cash'[a] >= 0 /\ position'[a].qty >= 0
    BY <1>1, <2>1, <2>2
  <2> QED
    BY <1>3, <2>3 DEF NeverOverdrawn
<1>5. CASE r.side = "sell"
  <2>1. credit = 0 /\ position[a].qty >= r.qty
    BY <1>5 DEF Fills
  <2>2. cash'[a] = cash[a] + amount /\ position'[a].qty = position[a].qty - r.qty
    BY <1>1, <1>2, <1>3, <1>5, <2>1 DEF Sign
  <2>3. cash'[a] >= 0 /\ position'[a].qty >= 0
    BY <1>1, <2>1, <2>2
  <2> QED
    BY <1>3, <2>3 DEF NeverOverdrawn
<1> QED
  BY <1>1, <1>4, <1>5

(* Every step keeps the accounts in credit and the fills within limits. *)
LEMMA BoundsInductive == BoundsInv /\ [BrokerNext]_brokerVars => BoundsInv'
<1> SUFFICES ASSUME BoundsInv, [BrokerNext]_brokerVars
             PROVE  BoundsInv'
  OBVIOUS
<1>1. Held /\ Held' /\ BrokerTypeOK /\ NeverOverdrawn /\ LimitRespected
  BY HeldInductive DEF BoundsInv, Held, TradesInBounds
<1>2. CASE \E o \in Orders, price \in Nat, credit \in Int : Fills(o, price, credit)
  <2>1. PICK o \in Orders, price \in Nat, credit \in Int : Fills(o, price, credit)
    BY <1>2
  <2>2. NeverOverdrawn'
    BY <1>1, <2>1, FillCovered
  <2>3. /\ \A p \in Orders \ {o} : order'[p] = order[p]
        /\ order'[o].request = order[o].request
        /\ order'[o].fill = price
    BY <1>1, <2>1, FillEffect
  <2>4. LimitRespected'
    BY <1>1, <2>1, <2>3 DEF Fills, LimitRespected
  <2> QED
    BY <1>1, <2>2, <2>4 DEF BoundsInv, TradesInBounds
<1>3. CASE \E o \in Orders : BrokerMoves(o)
  BY <1>1, <1>3 DEF BrokerMoves, accountVars, BoundsInv, TradesInBounds, NeverOverdrawn, LimitRespected
<1>4. CASE UpdateAccountValuations
  BY <1>1, <1>4, ValuationEffect DEF BoundsInv, TradesInBounds, NeverOverdrawn, LimitRespected
<1>5. CASE UNCHANGED <<accountVars, order>>
  BY <1>1, <1>5 DEF accountVars, BoundsInv, TradesInBounds, NeverOverdrawn, LimitRespected
<1> QED
  BY <1>1, <1>2, <1>3, <1>4, <1>5, StepForms

(* The order in which CheckLimitOrders happens to visit the waiting orders *)
(* and the market orders executed in between never make an account owe     *)
(* cash or shares, and no limit order fills beyond its limit.              *)
THEOREM TradesStayInBounds == BrokerSpec => []TradesInBounds
<1>1. BrokerInit => BoundsInv
  BY HeldInitial, BrokerAssumption
     DEF BrokerInit, BoundsInv, TradesInBounds, NeverOverdrawn, LimitRespected
<1>2. BoundsInv => TradesInBounds
  BY DEF BoundsInv
<1> QED
  BY <1>1, <1>2, BoundsInductive, PTL DEF BrokerSpec

(* A final order is out of reach of every handler and every tick: a cancel *)
(* and a fill of the same order cannot both happen.                        *)
THEOREM FatesAreFinal == BrokerSpec => FateIsFinal
<1> DEFINE Final == \A o \in Orders : order[o].status \in {"filled", "canceled", "rejected"}
                                        => order'[o] = order[o]
<1>1. Held /\ [BrokerNext]_brokerVars => [Final]_brokerVars
  <2> SUFFICES ASSUME Held, [BrokerNext]_brokerVars
               PROVE  Final
    OBVIOUS
  <2>1. CASE \E o \in Orders, price \in Nat, credit \in Int : Fills(o, price, credit)
    <3>1. PICK o \in Orders, price \in Nat, credit \in Int : Fills(o, price, credit)
      BY <2>1
    <3> QED
      BY <3>1, FillEffect DEF Fills, Held
  <2>2. CASE \E o \in Orders : BrokerMoves(o)
    BY <2>2 DEF BrokerMoves
  <2>3. CASE UpdateAccountValuations \/ UNCHANGED <<accountVars, order>>
    BY <2>3 DEF UpdateAccountValuations
  <2> QED
    BY <2>1, <2>2, <2>3, StepForms
<1> QED
  BY <1>1, HeldInitial, HeldInductive, PTL DEF BrokerSpec, FateIsFinal

-----------------------------------------------------------------------------
AllShares(a) == SumOver([o \in Orders |-> SharesIn(o, a)], Orders)
AllCash(a) == SumOver([o \in Orders |-> CashIn(o, a)], Orders)

(* What an order added is an integer. *)
LEMMA InType ==
  ASSUME BrokerTypeOK, NEW a \in Accounts
  PROVE  \A o \in Orders : SharesIn(o, a) \in Int /\ CashIn(o, a) \in Int
<1> SUFFICES ASSUME NEW o \in Orders
             PROVE  SharesIn(o, a) \in Int /\ CashIn(o, a) \in Int
  OBVIOUS
<1>1. order[o].request.qty \in Int /\ order[o].fill \in Int /\ order[o].credit \in Int
  BY OrderParts, RequestParts
<1>2. order[o].request.qty * order[o].fill \in Int
  BY <1>1
<1> QED
  BY <1>1, <1>2 DEF SharesIn, CashIn

(* When one order changes, the sums change by what it adds. *)
LEMMA InPoint ==
  ASSUME BrokerTypeOK, BrokerTypeOK', NEW a \in Accounts, NEW o \in Orders,
         \A p \in Orders \ {o} : order'[p] = order[p]
  PROVE  /\ AllShares(a) \in Int /\ AllCash(a) \in Int
         /\ AllShares(a)' = AllShares(a) + (SharesIn(o, a)' - SharesIn(o, a))
         /\ AllCash(a)' = AllCash(a) + (CashIn(o, a)' - CashIn(o, a))
<1> DEFINE f == [p \in Orders |-> SharesIn(p, a)]
           g == [p \in Orders |-> SharesIn(p, a)']
           h == [p \in Orders |-> CashIn(p, a)]
           k == [p \in Orders |-> CashIn(p, a)']
<1>1. IsFiniteSet(Orders)
  BY BrokerAssumption
<1>2. \A p \in Orders : SharesIn(p, a) \in Int /\ CashIn(p, a) \in Int
  BY InType
<1>3. \A p \in Orders : SharesIn(p, a)' \in Int /\ CashIn(p, a)' \in Int
  <2> SUFFICES ASSUME NEW p \in Orders
               PROVE  SharesIn(p, a)' \in Int /\ CashIn(p, a)' \in Int
    OBVIOUS
  <2>1. /\ order'[p].request \in Request
        /\ order'[p].fill \in Int /\ order'[p].credit \in Int
    BY DEF BrokerTypeOK, OrderRecord
  <2>2. order'[p].request.qty \in Int
    BY <2>1, RequestParts
  <2>3. order'[p].request.qty * order'[p].fill \in Int
    BY <2>1, <2>2
  <2> QED
    BY <2>1, <2>2, <2>3 DEF SharesIn, CashIn, FilledFor
<1>4. \A p \in Orders \ {o} : SharesIn(p, a)' = SharesIn(p, a) /\ CashIn(p, a)' = CashIn(p, a)
  BY DEF SharesIn, CashIn, FilledFor
<1>5. /\ \A p \in Orders : f[p] \in Int /\ g[p] \in Int
      /\ \A p \in Orders : h[p] \in Int /\ k[p] \in Int
      /\ \A p \in Orders \ {o} : g[p] = f[p]
      /\ \A p \in Orders \ {o} : k[p] = h[p]
  BY <1>2, <1>3, <1>4
<1>6. /\ AllShares(a) = SumOver(f, Orders) /\ AllShares(a)' = SumOver(g, Orders)
      /\ AllCash(a) = SumOver(h, Orders) /\ AllCash(a)' = SumOver(k, Orders)
  BY DEF AllShares, AllCash
<1>7. /\ g[o] = SharesIn(o, a)' /\ f[o] = SharesIn(o, a)
      /\ k[o] = CashIn(o, a)' /\ h[o] = CashIn(o, a)
  OBVIOUS
<1> HIDE DEF f, g, h, k
<1>8. SumOver(f, Orders) \in Int /\ SumOver(h, Orders) \in Int
  BY <1>1, <1>5, SumType
<1>9. SumOver(g, Orders) = SumOver(f, Orders) + (g[o] - f[o])
  BY <1>1, <1>5, SumPoint
<1>10. SumOver(k, Orders) = SumOver(h, Orders) + (k[o] - h[o])
  BY <1>1, <1>5, SumPoint
<1> QED
  BY <1>6, <1>7, <1>8, <1>9, <1>10

BookOf(a) ==
  /\ position[a].qty = OpeningQty + AllShares(a)
  /\ cash[a] = OpeningCash + AllCash(a)
  /\ equity[a] = cash[a] + position[a].qty * position[a].price

BooksInv == Held /\ \A a \in Accounts : BookOf(a)

(* Every step keeps the books: a fill enters its own order once, and no    *)
(* other step changes an account's shares or cash, or a filled order.      *)
LEMMA BooksInductive == BooksInv /\ [BrokerNext]_brokerVars => BooksInv'
<1> SUFFICES ASSUME BooksInv, [BrokerNext]_brokerVars
             PROVE  BooksInv'
  OBVIOUS
<1>1. Held /\ Held' /\ BrokerTypeOK /\ BrokerTypeOK'
  BY HeldInductive DEF BooksInv, Held
<1>2. SUFFICES ASSUME NEW a \in Accounts
               PROVE  BookOf(a)'
  BY <1>1 DEF BooksInv
<1>3. BookOf(a) /\ OpeningQty \in Int /\ OpeningCash \in Int
  BY BrokerAssumption DEF BooksInv
<1>4. CASE \E o \in Orders, price \in Nat, credit \in Int : Fills(o, price, credit)
  <2>1. PICK o \in Orders, price \in Nat, credit \in Int : Fills(o, price, credit)
    BY <1>4
  <2> DEFINE r == order[o].request
  <2>2. r.qty \in Nat /\ r.side \in {"buy", "sell"} /\ r.account \in Accounts
    BY <1>1, OrderParts, RequestParts
  <2>3. PICK amount \in Nat : amount = r.qty * price
    BY <2>2, Product
  <2>4. /\ \A p \in Orders \ {o} : order'[p] = order[p]
        /\ order'[o].status = "filled" /\ order'[o].request = r
        /\ order'[o].fill = price /\ order'[o].credit = credit
    BY <1>1, <2>1, FillEffect
  <2>5. SharesIn(o, a) = 0 /\ CashIn(o, a) = 0
    BY <2>1 DEF Fills, SharesIn, CashIn, FilledFor
  <2>6. /\ AllShares(a) \in Int /\ AllCash(a) \in Int
        /\ AllShares(a)' = AllShares(a) + (SharesIn(o, a)' - SharesIn(o, a))
        /\ AllCash(a)' = AllCash(a) + (CashIn(o, a)' - CashIn(o, a))
    BY <1>1, <2>4, InPoint
  <2>7. CASE a # r.account
    <3>1. cash'[a] = cash[a] /\ position'[a] = position[a] /\ equity'[a] = equity[a]
      <4>1. \A b \in Accounts \ {r.account} : /\ cash'[b] = cash[b]
                                             /\ equity'[b] = equity[b]
                                             /\ position'[b] = position[b]
        BY <1>1, <2>1, FillEffect
      <4> QED
        BY <2>7, <4>1
    <3>2. SharesIn(o, a)' = 0 /\ CashIn(o, a)' = 0
      BY <2>4, <2>7 DEF SharesIn, CashIn, FilledFor
    <3>3. AllShares(a)' = AllShares(a) /\ AllCash(a)' = AllCash(a)
      BY <2>5, <2>6, <3>2
    <3> QED
      BY <1>3, <3>1, <3>3 DEF BookOf
  <2>8. CASE a = r.account
    <3>1. /\ cash'[a] = cash[a] + credit - Sign(r) * r.qty * price
          /\ position'[a].qty = position[a].qty + Sign(r) * r.qty
          /\ position'[a].price = price
          /\ equity'[a] = cash'[a] + position'[a].qty * price
      BY <1>1, <2>1, <2>8, FillEffect
    <3>2. cash[a] \in Int /\ position[a].qty \in Int
      BY <1>1 DEF BrokerTypeOK
    <3>3. CASE r.side = "buy"
      <4>1. SharesIn(o, a)' = r.qty /\ CashIn(o, a)' = credit - amount
        BY <2>3, <2>4, <2>8, <3>3 DEF SharesIn, CashIn, FilledFor
      <4>2. cash'[a] = cash[a] + credit - amount /\ position'[a].qty = position[a].qty + r.qty
        BY <2>2, <2>3, <3>1, <3>2, <3>3 DEF Sign
      <4>3. position'[a].qty = OpeningQty + AllShares(a)'
        BY <1>3, <2>2, <2>5, <2>6, <3>2, <4>1, <4>2 DEF BookOf
      <4>4. cash'[a] = OpeningCash + AllCash(a)'
        BY <1>3, <2>2, <2>5, <2>6, <3>2, <4>1, <4>2 DEF BookOf
      <4> QED
        BY <3>1, <4>3, <4>4 DEF BookOf
    <3>4. CASE r.side = "sell"
      <4>1. credit = 0
        BY <2>1, <3>4 DEF Fills
      <4>2. SharesIn(o, a)' = -r.qty /\ CashIn(o, a)' = amount
        BY <2>3, <2>4, <2>8, <3>4 DEF SharesIn, CashIn, FilledFor
      <4>3. cash'[a] = cash[a] + amount /\ position'[a].qty = position[a].qty - r.qty
        BY <2>2, <2>3, <3>1, <3>2, <3>4, <4>1 DEF Sign
      <4>4. position'[a].qty = OpeningQty + AllShares(a)' /\ cash'[a] = OpeningCash + AllCash(a)'
        BY <1>3, <2>2, <2>5, <2>6, <3>2, <4>2, <4>3 DEF BookOf
      <4> QED
        BY <3>1, <4>4 DEF BookOf
    <3> QED
      BY <2>2, <3>3, <3>4
  <2> QED
    BY <2>7, <2>8
<1>5. CASE \E o \in Orders : BrokerMoves(o)
  <2>1. PICK o \in Orders : BrokerMoves(o)
    BY <1>5
  <2>2. SharesIn(o, a) = 0 /\ CashIn(o, a) = 0 /\ SharesIn(o, a)' = 0 /\ CashIn(o, a)' = 0
    BY <2>1 DEF BrokerMoves, SharesIn, CashIn, FilledFor
  <2>3. \A p \in Orders \ {o} : order'[p] = order[p]
    BY <2>1 DEF BrokerMoves
  <2>4. AllShares(a)' = AllShares(a) /\ AllCash(a)' = AllCash(a)
    BY <1>1, <2>2, <2>3, InPoint
  <2> QED
    BY <1>3, <2>1, <2>4 DEF BrokerMoves, accountVars, BookOf
<1>6. CASE UpdateAccountValuations
  <2>1. AllShares(a)' = AllShares(a) /\ AllCash(a)' = AllCash(a)
    BY <1>6 DEF UpdateAccountValuations, AllShares, AllCash, SharesIn, CashIn, FilledFor
  <2> QED
    BY <1>1, <1>3, <1>6, <2>1, ValuationEffect DEF BookOf
<1>7. CASE UNCHANGED <<accountVars, order>>
  BY <1>3, <1>7 DEF accountVars, BookOf, AllShares, AllCash, SharesIn, CashIn, FilledFor
<1> QED
  BY <1>1, <1>4, <1>5, <1>6, <1>7, StepForms

(* The store's account figures are exactly what its filled orders say, for *)
(* any number of orders, and every account is valued at the price of its   *)
(* last fill or valuation.                                                 *)
THEOREM BooksAlwaysAgree == BrokerSpec => []BooksAgree
<1>1. BrokerInit => BooksInv
  <2> SUFFICES ASSUME BrokerInit
               PROVE  BooksInv
    OBVIOUS
  <2>1. SUFFICES ASSUME NEW a \in Accounts
                 PROVE  BookOf(a)
    BY HeldInitial DEF BooksInv
  <2>2. \A o \in Orders : /\ [p \in Orders |-> SharesIn(p, a)][o] = 0
                          /\ [p \in Orders |-> CashIn(p, a)][o] = 0
    BY DEF BrokerInit, SharesIn, CashIn, FilledFor
  <2>3. AllShares(a) = 0 /\ AllCash(a) = 0
    BY <2>2, SumZero, BrokerAssumption DEF AllShares, AllCash
  <2> QED
    BY <2>3, BrokerAssumption DEF BrokerInit, BookOf
<1>2. BooksInv => BooksAgree
  BY DEF BooksInv, BookOf, BooksAgree, Held, AllShares, AllCash
<1> QED
  BY <1>1, <1>2, BooksInductive, PTL DEF BrokerSpec
=============================================================================
