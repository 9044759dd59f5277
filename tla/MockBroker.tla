----------------------------- MODULE MockBroker -----------------------------
(***************************************************************************)
(* The brokerage simulator (cmd/mock-broker): accounts, positions and      *)
(* orders in one store behind one mutex, and a market engine whose tick    *)
(* publishes a new quote, then revalues every account, then tries to fill  *)
(* the waiting limit orders.  These are three separate critical sections,  *)
(* and an order handler reads the quote before it takes the store's mutex, *)
(* so orders are placed, executed and canceled between them.               *)
(*                                                                         *)
(* CheckLimitOrders visits the orders in the order of a Go map, that is in *)
(* any order, and earlier fills use up the cash of later ones.  It is one  *)
(* step per order here, during which the mutex is held.                    *)
(*                                                                         *)
(* There is one tradable symbol: positions of different symbols meet only  *)
(* in the cash they compete for, as orders of one symbol do.  Cost basis,  *)
(* profit and trade-update broadcasts are reporting and are left out.      *)
(***************************************************************************)
EXTENDS Integers, Sums

CONSTANTS Accounts, Orders,
          Quantities,      \* share quantities of a request
          Limits,          \* limit prices of a request
          NoLimit,         \* the request has no limit price
          Quotes,          \* quotes the market engine may publish
          NoQuote,         \* the handler holds no quote
          OpeningCash, OpeningQty,
          ReplenishCredit  \* extra cash of an automatic replenishment

ASSUME BrokerAssumption ==
  /\ Accounts # {}
  /\ IsFiniteSet(Orders)
  /\ Quantities \subseteq Nat \ {0}
  /\ Quantities # {}
  /\ Limits \subseteq Int
  /\ NoLimit \notin Int
  /\ NoQuote \notin Quotes
  /\ Quotes \subseteq [bid: Nat \ {0}, ask: Nat \ {0}, price: Nat \ {0}]
  /\ OpeningCash \in Nat
  /\ OpeningQty \in Nat
  /\ ReplenishCredit \in Nat

VARIABLES autoReplenish,  \* SIM_AUTO_REPLENISH, read at start
          quote,          \* the latest quote
          tick,           \* how far the engine's tick got
          unchecked,      \* orders CheckLimitOrders has yet to visit
          cash, equity,   \* per account
          position,       \* per account: quantity and current price
          order           \* per order: the request and its fate

tickVars == <<quote, tick, unchecked>>
accountVars == <<cash, equity, position>>
brokerVars == <<autoReplenish, tickVars, accountVars, order>>

Statuses == {"none", "quoted", "rejected", "new", "accepted", "filled", "canceled"}

(* The limit price matters to limit orders only, which may lack one. *)
Request == {r \in [account: Accounts, side: {"buy", "sell"},
                   type: {"market", "limit", "stop"},
                   qty: Quantities, limit: Limits \cup {NoLimit}] :
              r.type # "limit" => r.limit = NoLimit}

OrderRecord == [status: Statuses, request: Request, quoted: Quotes \cup {NoQuote},
                fill: Int, credit: Int]

BrokerTypeOK ==
  /\ autoReplenish \in BOOLEAN
  /\ quote \in Quotes
  /\ tick \in {"idle", "valuate", "limits", "checking"}
  /\ unchecked \subseteq Orders
  /\ tick = "checking" <=> unchecked # {}
  /\ cash \in [Accounts -> Int]
  /\ equity \in [Accounts -> Int]
  /\ position \in [Accounts -> [qty: Int, price: Int]]
  /\ order \in [Orders -> OrderRecord]

(* CheckLimitOrders holds the store's mutex from the first to the last order. *)
MutexFree == tick # "checking"

BrokerInit ==
  /\ autoReplenish \in BOOLEAN
  /\ quote \in Quotes
  /\ tick = "idle"
  /\ unchecked = {}
  /\ cash = [a \in Accounts |-> OpeningCash]
  /\ position = [a \in Accounts |-> [qty |-> OpeningQty, price |-> quote.price]]
  /\ equity = [a \in Accounts |-> OpeningCash + OpeningQty * quote.price]
  /\ order = [o \in Orders |-> [status |-> "none", request |-> CHOOSE r \in Request : TRUE,
                                quoted |-> NoQuote, fill |-> 0, credit |-> 0]]

-----------------------------------------------------------------------------
(* A market order is filled at the other side of the book. *)
FillPrice(side, q) ==
  IF side = "buy" THEN IF q.ask > 0 THEN q.ask ELSE q.bid
  ELSE IF q.bid > 0 THEN q.bid ELSE q.ask

(* Mutant: compares the limit with the customer's own side of the book. *)
CrossesOwnSide(r, q) ==
  /\ r.type = "limit"
  /\ r.limit # NoLimit
  /\ \/ r.side = "buy" /\ q.bid <= r.limit
     \/ r.side = "sell" /\ q.ask >= r.limit

(* A limit order is due when the book reaches its limit. *)
Crosses(r, q) ==
  /\ r.type = "limit"
  /\ r.limit # NoLimit
  /\ \/ r.side = "buy" /\ q.ask <= r.limit
     \/ r.side = "sell" /\ q.bid >= r.limit

Affordable(r, price) ==
  \/ r.side = "buy" /\ cash[r.account] >= r.qty * price
  \/ r.side = "sell" /\ position[r.account].qty >= r.qty

(* Mutant: charges the market price, reports the fill price. *)
ExecuteAtMarketPrice(o, price, credit) ==
  LET r == order[o].request
      sign == IF r.side = "buy" THEN 1 ELSE -1
      newCash == cash[r.account] + credit - sign * r.qty * quote.price
      newQty == position[r.account].qty + sign * r.qty
  IN  /\ cash' = [cash EXCEPT ![r.account] = newCash]
      /\ position' = [position EXCEPT ![r.account] = [qty |-> newQty, price |-> price]]
      /\ equity' = [equity EXCEPT ![r.account] = newCash + newQty * price]
      /\ order' = [order EXCEPT ![o].status = "filled", ![o].quoted = NoQuote,
                                ![o].fill = price, ![o].credit = credit]

(* Cash and shares change hands, with a credit that executeMarketBuy may   *)
(* add; the position is marked at the fill price and the account revalued. *)
Execute(o, price, credit) ==
  LET r == order[o].request
      sign == IF r.side = "buy" THEN 1 ELSE -1
      newCash == cash[r.account] + credit - sign * r.qty * price
      newQty == position[r.account].qty + sign * r.qty
  IN  /\ cash' = [cash EXCEPT ![r.account] = newCash]
      /\ position' = [position EXCEPT ![r.account] = [qty |-> newQty, price |-> price]]
      /\ equity' = [equity EXCEPT ![r.account] = newCash + newQty * price]
      /\ order' = [order EXCEPT ![o].status = "filled", ![o].quoted = NoQuote,
                                ![o].fill = price, ![o].credit = credit]

SetStatus(o, status) ==
  /\ order' = [order EXCEPT ![o].status = status, ![o].quoted = NoQuote]
  /\ UNCHANGED accountVars

-----------------------------------------------------------------------------
(* handleCreateOrder reads the quote... *)
GetQuote(o, r) ==
  /\ order[o].status = "none"
  /\ order' = [order EXCEPT ![o].status = "quoted", ![o].request = r, ![o].quoted = quote]
  /\ UNCHANGED <<autoReplenish, tickVars, accountVars>>

(* ... and CreateOrder executes a market order at that quote.  A buy that  *)
(* the cash does not cover is topped up or refused.                        *)
ExecuteMarketOrder(o) ==
  LET r == order[o].request
      price == FillPrice(r.side, order[o].quoted)
  IN  /\ r.type = "market"
      /\ \/ Affordable(r, price) /\ Execute(o, price, 0)
         \/ /\ ~Affordable(r, price)
            /\ r.side = "buy" /\ autoReplenish
            /\ Execute(o, price, r.qty * price - cash[r.account] + ReplenishCredit)
         \/ /\ ~Affordable(r, price)
            /\ r.side = "sell" \/ ~autoReplenish
            /\ SetStatus(o, "rejected")

(* A limit order waits; any other type is stored and never looked at. *)
CreateOrder(o) ==
  /\ MutexFree
  /\ order[o].status = "quoted"
  /\ \/ ExecuteMarketOrder(o)
     \/ order[o].request.type = "limit" /\ SetStatus(o, "accepted")
     \/ order[o].request.type = "stop" /\ SetStatus(o, "new")
  /\ UNCHANGED <<autoReplenish, tickVars>>

(* Mutant: the status is not looked at. *)
CancelOrderAnytime(o) ==
  /\ MutexFree
  /\ order[o].status \notin {"none", "quoted", "rejected"}
  /\ SetStatus(o, "canceled")
  /\ UNCHANGED <<autoReplenish, tickVars>>

(* Whatever account the caller names. *)
CancelOrder(o) ==
  /\ MutexFree
  /\ order[o].status \in {"new", "accepted"}
  /\ SetStatus(o, "canceled")
  /\ UNCHANGED <<autoReplenish, tickVars>>

-----------------------------------------------------------------------------
(* MarketEngine.tick: a new quote under the engine's own lock... *)
PublishQuote(q) ==
  /\ tick = "idle"
  /\ tick' = "valuate"
  /\ quote' = q
  /\ UNCHANGED <<autoReplenish, unchecked, accountVars, order>>

(* ... then every account is revalued... *)
UpdateAccountValuations ==
  /\ tick = "valuate"
  /\ tick' = "limits"
  /\ position' = [a \in Accounts |-> [position[a] EXCEPT !.price = quote.price]]
  /\ equity' = [a \in Accounts |-> cash[a] + position[a].qty * quote.price]
  /\ UNCHANGED <<autoReplenish, quote, unchecked, cash, order>>

(* ... then the waiting limit orders are visited, under the store's mutex. *)
Waiting(o) == order[o].status = "accepted" /\ order[o].request.type = "limit"

(* Mutant: looks for the status an order has before it is accepted. *)
CheckLimitOrdersNew ==
  /\ tick = "limits"
  /\ unchecked' = {o \in Orders : order[o].status = "new" /\ order[o].request.type = "limit"}
  /\ tick' = IF unchecked' = {} THEN "idle" ELSE "checking"
  /\ UNCHANGED <<autoReplenish, quote, accountVars, order>>

CheckLimitOrders ==
  /\ tick = "limits"
  /\ unchecked' = {o \in Orders : Waiting(o)}
  /\ tick' = IF unchecked' = {} THEN "idle" ELSE "checking"
  /\ UNCHANGED <<autoReplenish, quote, accountVars, order>>

(* Mutant: a due order is filled whether it is covered or not. *)
CheckLimitOrderUncovered(o) ==
  LET r == order[o].request
      price == IF r.side = "buy" THEN quote.ask ELSE quote.bid
  IN  /\ o \in unchecked
      /\ unchecked' = unchecked \ {o}
      /\ tick' = IF unchecked' = {} THEN "idle" ELSE "checking"
      /\ IF Crosses(r, quote)
           THEN Execute(o, price, 0)
           ELSE UNCHANGED <<accountVars, order>>
      /\ UNCHANGED <<autoReplenish, quote>>

(* An order that is due but not covered stays. *)
CheckLimitOrder(o) ==
  LET r == order[o].request
      price == IF r.side = "buy" THEN quote.ask ELSE quote.bid
  IN  /\ o \in unchecked
      /\ unchecked' = unchecked \ {o}
      /\ tick' = IF unchecked' = {} THEN "idle" ELSE "checking"
      /\ IF Crosses(r, quote) /\ Affordable(r, price)
           THEN Execute(o, price, 0)
           ELSE UNCHANGED <<accountVars, order>>
      /\ UNCHANGED <<autoReplenish, quote>>

-----------------------------------------------------------------------------
Tick == \/ \E q \in Quotes : PublishQuote(q)
        \/ UpdateAccountValuations
        \/ CheckLimitOrders
        \/ \E o \in Orders : CheckLimitOrder(o)

Trade == \E o \in Orders : (\E r \in Request : GetQuote(o, r)) \/ CreateOrder(o) \/ CancelOrder(o)

BrokerNext == Tick \/ Trade

BrokerSpec == BrokerInit /\ [][BrokerNext]_brokerVars

(* The engine's goroutine keeps ticking; customers need not do anything. *)
FairBrokerSpec == BrokerSpec /\ WF_brokerVars(Tick)

-----------------------------------------------------------------------------
(* No account owes cash or shares, although a limit order reserves neither *)
(* and is paid for whenever the book reaches it, in any order and after    *)
(* whatever market orders came in between.                                 *)
NeverOverdrawn == \A a \in Accounts : cash[a] >= 0 /\ position[a].qty >= 0

(* A limit order is never filled beyond its limit, however many quotes     *)
(* passed since it was placed.                                             *)
LimitRespected ==
  \A o \in Orders :
    LET r == order[o].request
    IN  order[o].status = "filled" /\ r.type = "limit" =>
          /\ r.limit # NoLimit
          /\ IF r.side = "buy" THEN order[o].fill <= r.limit ELSE order[o].fill >= r.limit

(* No account owes cash or shares, and no order fills beyond its limit. *)
TradesInBounds == NeverOverdrawn /\ LimitRespected

(* What a filled order added to the shares and to the cash of an account. *)
FilledFor(o, a) == order[o].status = "filled" /\ order[o].request.account = a

SharesIn(o, a) ==
  IF ~FilledFor(o, a) THEN 0
  ELSE IF order[o].request.side = "buy" THEN order[o].request.qty ELSE -order[o].request.qty

CashIn(o, a) ==
  IF ~FilledFor(o, a) THEN 0
  ELSE IF order[o].request.side = "buy"
         THEN order[o].credit - order[o].request.qty * order[o].fill
         ELSE order[o].request.qty * order[o].fill

(* The books agree with the orders: what an account holds is what it had   *)
(* plus every filled order, once, at the price the order says it was       *)
(* filled at, plus the replenishments, and its equity is its cash and its  *)
(* shares at the price of the last fill or valuation.                      *)
BooksAgree ==
  BrokerTypeOK /\ \A a \in Accounts :
    /\ position[a].qty = OpeningQty + SumOver([o \in Orders |-> SharesIn(o, a)], Orders)
    /\ cash[a] = OpeningCash + SumOver([o \in Orders |-> CashIn(o, a)], Orders)
    /\ equity[a] = cash[a] + position[a].qty * position[a].price

(* A filled, canceled or refused order never changes again: a cancel that  *)
(* lost the race against a fill has no effect, and neither has the check   *)
(* of an order canceled since the last tick.                               *)
FateIsFinal ==
  [][\A o \in Orders : order[o].status \in {"filled", "canceled", "rejected"}
                          => order'[o] = order[o]]_brokerVars

(* No limit order stays due and covered for ever: some tick fills it       *)
(* unless it is canceled or the market or the account moves away.          *)
DueIsFilled ==
  \A o \in Orders : []<>~(LET r == order[o].request
                          IN  /\ Waiting(o)
                              /\ Crosses(r, quote)
                              /\ Affordable(r, IF r.side = "buy" THEN quote.ask ELSE quote.bid))
=============================================================================
