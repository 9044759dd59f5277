-------------------------- MODULE BankLedgerProofs --------------------------
(***************************************************************************)
(* Theorems about BankLedger for every set of accounts, every seed and     *)
(* every number of transfers.                                              *)
(***************************************************************************)
EXTENDS BankLedger, SumTheorems, TLAPS

(* Adding to one balance gives an integer balance again, and touches no    *)
(* other account.                                                          *)
LEMMA AddType ==
  ASSUME NEW b \in [Accounts -> Int], NEW a \in Accounts, NEW m \in Int
  PROVE  /\ Add(b, a, m) \in [Accounts -> Int]
         /\ Add(b, a, m)[a] = b[a] + m
         /\ \A c \in Accounts \ {a} : Add(b, a, m)[c] = b[c]
BY DEF Add

(* A movement keeps balances integers; it changes no third account, and    *)
(* the receiver of a positive amount, when it is not also the sender, is   *)
(* not left with less.                                                     *)
LEMMA MoveType ==
  ASSUME NEW b \in [Accounts -> Int], NEW f \in Accounts, NEW t \in Accounts,
         NEW m \in Int
  PROVE  /\ Move(b, f, t, m) \in [Accounts -> Int]
         /\ \A c \in Accounts \ {f, t} : Move(b, f, t, m)[c] = b[c]
         /\ f # t => Move(b, f, t, m)[t] = b[t] + m
<1>1. Move(b, f, t, m) \in [Accounts -> Int]
  BY DEF Move, Add
<1>2. \A c \in Accounts \ {f, t} : Move(b, f, t, m)[c] = b[c]
  BY DEF Move, Add
<1>3. f # t => Move(b, f, t, m)[t] = b[t] + m
  BY DEF Move, Add
<1> QED
  BY <1>1, <1>2, <1>3

(* Type correctness is inductive by itself. *)
LEMMA TypeInductive ==
  TypeOK /\ [Next]_vars => TypeOK'
<1> SUFFICES ASSUME TypeOK, [Next]_vars
             PROVE  TypeOK'
  OBVIOUS
<1> USE LedgerAssumption
<1>1. CASE Create
  <2>1. PICK a \in Accounts, m \in Amounts, d \in Directions : CreateTransfer(a, m, d)
    BY <1>1 DEF Create
  <2>2. m \in Int /\ -m \in Int
    OBVIOUS
  <2>3. Add(available, a, -m) \in [Accounts -> Int]
    BY <2>2, AddType DEF TypeOK
  <2>4. available' \in [Accounts -> Int]
    BY <2>1, <2>3 DEF CreateTransfer, TypeOK
  <2>5. transfers' \in [Ids -> Transfer]
    BY <2>1, <2>2 DEF CreateTransfer, TypeOK, Transfer, Statuses, Open
  <2>6. age' \in [Ids -> 0 .. DueAge]
    <3>1. 0 \in 0 .. DueAge
      BY DEF DueAge
    <3>2. age' = [age EXCEPT ![nextID] = 0]
      BY <2>1 DEF CreateTransfer
    <3> QED
      BY <3>1, <3>2 DEF TypeOK
  <2>7. nextID' \in 1 .. (MaxTransfers + 1)
    <3>1. nextID \in Int /\ nextID >= 1 /\ nextID <= MaxTransfers /\ nextID' = nextID + 1
      BY <2>1 DEF CreateTransfer, TypeOK
    <3> QED
      BY <3>1
  <2> QED
    BY <2>1, <2>4, <2>5, <2>6, <2>7 DEF CreateTransfer, TypeOK
<1>2. ASSUME NEW id \in Ids, ApplySettled(id)
      PROVE  /\ current' \in [Accounts -> Int]
             /\ available' \in [Accounts -> Int]
             /\ transfers' \in [Ids -> Transfer]
             /\ settlements' \in [Ids -> Nat]
  <2> DEFINE t == transfers[id]
  <2>1. t.account \in Accounts /\ t.amount \in Int /\ t.direction \in Directions
    BY DEF TypeOK, Transfer
  <2>2. /\ Move(current, t.account, Custody, t.amount) \in [Accounts -> Int]
        /\ Move(current, Custody, t.account, t.amount) \in [Accounts -> Int]
        /\ Move(available, Custody, t.account, t.amount) \in [Accounts -> Int]
    BY <2>1, MoveType DEF TypeOK
  <2>3. Add(available, Custody, t.amount) \in [Accounts -> Int]
    BY <2>1, AddType DEF TypeOK
  <2>4. current' \in [Accounts -> Int] /\ available' \in [Accounts -> Int]
    BY <1>2, <2>2, <2>3 DEF ApplySettled, TypeOK
  <2> QED
    BY <1>2, <2>4 DEF ApplySettled, TypeOK, Transfer, Statuses
<1>3. CASE TickSnapshot
  BY <1>3 DEF TickSnapshot, TypeOK, Open
<1>4. CASE \E id \in Ids : TickTransfer(id)
  <2>1. PICK id \in Ids : TickTransfer(id)
    BY <1>4
  <2>2. pending' \in [Ids -> Open \cup {"none"}]
    BY <2>1 DEF TickTransfer, TypeOK
  <2>3. /\ current' \in [Accounts -> Int]
        /\ available' \in [Accounts -> Int]
        /\ transfers' \in [Ids -> Transfer]
        /\ settlements' \in [Ids -> Nat]
    <3>1. CASE ApplySettled(id)
      BY <3>1, <1>2
    <3>2. CASE ApplyPosted(id)
      BY <3>2 DEF ApplyPosted, TypeOK, Transfer, Statuses, Open
    <3>3. CASE UNCHANGED <<current, available, transfers, settlements>>
      BY <3>3 DEF TypeOK
    <3> QED
      BY <2>1, <3>1, <3>2, <3>3 DEF TickTransfer
  <2> QED
    BY <2>1, <2>2, <2>3 DEF TickTransfer, TypeOK
<1>5. CASE Elapse
  BY <1>5 DEF Elapse, TypeOK, DueAge
<1>6. CASE Seed
  BY <1>6 DEF Seed, TypeOK, NoTransfer, Transfer, Directions
<1>7. CASE Simulate
  <2>1. PICK id \in Ids : SimulateSettlement(id) \/ SimulateReturn(id)
    BY <1>7 DEF Simulate
  <2>2. CASE SimulateSettlement(id)
    BY <2>2, <1>2 DEF SimulateSettlement, TypeOK
  <2>3. CASE SimulateReturn(id)
    <3> DEFINE t == transfers[id]
    <3>1. t.account \in Accounts /\ t.amount \in Int
      BY DEF TypeOK, Transfer
    <3>2. Add(available, t.account, t.amount) \in [Accounts -> Int]
      BY <3>1, AddType DEF TypeOK
    <3>3. available' \in [Accounts -> Int]
      BY <2>3, <3>2 DEF SimulateReturn, ApplyReturned, TypeOK
    <3> QED
      BY <2>3, <3>3 DEF SimulateReturn, ApplyReturned, TypeOK, Transfer, Statuses
  <2> QED
    BY <2>1, <2>2, <2>3
<1>8. CASE UNCHANGED vars
  BY <1>8 DEF vars, TypeOK
<1> QED
  BY <1>1, <1>3, <1>4, <1>5, <1>6, <1>7, <1>8 DEF Next, EngineNext, Tick

(* The initial states are well typed. *)
LEMMA TypeInitial == Init => TypeOK
BY LedgerAssumption
   DEF Init, TypeOK, NoTransfer, NothingPending, Transfer, DueAge, Directions

(* The ledger of cmd/mock-bank is well typed in every reachable state. *)
THEOREM TypeCorrect == Spec => []TypeOK
BY TypeInitial, TypeInductive, PTL DEF Spec
-----------------------------------------------------------------------------
(* Held amounts are never negative: what a return gives back, or a credit  *)
(* brings, can only raise a customer's available balance.                  *)
AmountsNatural == \A id \in Ids : transfers[id].amount >= 0

NonNegativeInv == TypeOK /\ AmountsNatural /\ AvailableNeverNegative

(* Every step keeps the amounts natural and the customers in credit. *)
LEMMA NonNegativeInductive ==
  NonNegativeInv /\ [Next]_vars => NonNegativeInv'
<1> SUFFICES ASSUME NonNegativeInv, [Next]_vars
             PROVE  NonNegativeInv'
  OBVIOUS
<1> USE LedgerAssumption
<1>1. TypeOK /\ TypeOK'
  BY TypeInductive DEF NonNegativeInv
<1>2. CASE Create
  <2>1. PICK a \in Accounts, m \in Amounts, d \in Directions : CreateTransfer(a, m, d)
    BY <1>2 DEF Create
  <2>2. m \in Int /\ m > 0
    BY <2>1 DEF CreateTransfer
  <2>3. AmountsNatural'
    BY <1>1, <2>1, <2>2 DEF CreateTransfer, NonNegativeInv, AmountsNatural, TypeOK, Transfer
  <2>4. CASE d = "debit" /\ available[a] >= m
    <3>1. available' = Add(available, a, -m)
      BY <2>1, <2>4 DEF CreateTransfer
    <3>2. AvailableNeverNegative'
      BY <1>1, <2>2, <2>4, <3>1 DEF Add, NonNegativeInv, AvailableNeverNegative, TypeOK
    <3> QED
      BY <1>1, <2>3, <3>2 DEF NonNegativeInv
  <2>5. CASE ~(d = "debit" /\ available[a] >= m)
    <3>1. available' = available
      BY <2>1, <2>5 DEF CreateTransfer
    <3> QED
      BY <1>1, <2>3, <3>1 DEF NonNegativeInv, AvailableNeverNegative
  <2> QED
    BY <2>4, <2>5
<1>3. ASSUME NEW id \in Ids, ApplySettled(id)
      PROVE  AmountsNatural' /\ AvailableNeverNegative'
  <2> DEFINE t == transfers[id]
  <2>1. t.account \in Accounts /\ t.amount \in Int /\ t.amount >= 0
    BY <1>1 DEF TypeOK, Transfer, NonNegativeInv, AmountsNatural
  <2>2. AmountsNatural'
    BY <1>1, <1>3 DEF ApplySettled, NonNegativeInv, AmountsNatural, TypeOK, Transfer
  <2>3. CASE available' = Add(available, Custody, t.amount)
    BY <1>1, <2>1, <2>2, <2>3 DEF Add, NonNegativeInv, AvailableNeverNegative, TypeOK
  <2>4. CASE available' = Move(available, Custody, t.account, t.amount)
    BY <1>1, <2>1, <2>2, <2>4 DEF Add, Move, NonNegativeInv, AvailableNeverNegative, TypeOK
  <2>5. CASE available' = available
    BY <2>2, <2>5 DEF NonNegativeInv, AvailableNeverNegative
  <2> QED
    BY <1>3, <2>3, <2>4, <2>5 DEF ApplySettled
<1>4. CASE TickSnapshot \/ Elapse \/ UNCHANGED vars
  BY <1>1, <1>4 DEF TickSnapshot, Elapse, vars, NonNegativeInv, AmountsNatural, AvailableNeverNegative
<1>5. CASE \E id \in Ids : TickTransfer(id)
  <2>1. PICK id \in Ids : TickTransfer(id)
    BY <1>5
  <2>2. CASE ApplySettled(id)
    BY <1>1, <1>3, <2>2 DEF NonNegativeInv
  <2>3. CASE ApplyPosted(id)
    BY <1>1, <2>3 DEF ApplyPosted, NonNegativeInv, AmountsNatural, AvailableNeverNegative, TypeOK, Transfer
  <2>4. CASE UNCHANGED <<current, available, transfers, settlements>>
    BY <1>1, <2>4 DEF NonNegativeInv, AmountsNatural, AvailableNeverNegative
  <2> QED
    BY <2>1, <2>2, <2>3, <2>4 DEF TickTransfer
<1>6. CASE Seed
  BY <1>1, <1>6 DEF Seed, NoTransfer, NonNegativeInv, AmountsNatural, AvailableNeverNegative
<1>7. CASE Simulate
  <2>1. PICK id \in Ids : SimulateSettlement(id) \/ SimulateReturn(id)
    BY <1>7 DEF Simulate
  <2>2. CASE SimulateSettlement(id)
    BY <1>1, <1>3, <2>2 DEF SimulateSettlement, NonNegativeInv
  <2>3. CASE SimulateReturn(id)
    <3> DEFINE t == transfers[id]
    <3>1. t.account \in Accounts /\ t.amount \in Int /\ t.amount >= 0
      BY <1>1 DEF TypeOK, Transfer, NonNegativeInv, AmountsNatural
    <3>2. AmountsNatural'
      BY <1>1, <2>3 DEF SimulateReturn, ApplyReturned, NonNegativeInv, AmountsNatural, TypeOK, Transfer
    <3>3. CASE available' = Add(available, t.account, t.amount)
      BY <1>1, <3>1, <3>2, <3>3 DEF Add, NonNegativeInv, AvailableNeverNegative, TypeOK
    <3>4. CASE available' = available
      BY <1>1, <3>2, <3>4 DEF NonNegativeInv, AvailableNeverNegative
    <3> QED
      BY <2>3, <3>3, <3>4 DEF SimulateReturn, ApplyReturned
  <2> QED
    BY <2>1, <2>2, <2>3
<1> QED
  BY <1>2, <1>4, <1>5, <1>6, <1>7 DEF Next, EngineNext, Tick

(* CreateTransfer's check of the available balance is enough: whatever     *)
(* ticks, forced outcomes and resets interleave with it, no customer's     *)
(* available balance goes below zero.                                      *)
THEOREM NeverOverdrawn == Spec => []AvailableNeverNegative
<1>1. Init => NonNegativeInv
  BY TypeInitial, LedgerAssumption
     DEF Init, NonNegativeInv, AmountsNatural, AvailableNeverNegative, NoTransfer
<1>2. NonNegativeInv => AvailableNeverNegative
  BY DEF NonNegativeInv
<1> QED
  BY <1>1, <1>2, NonNegativeInductive, PTL DEF Spec

-----------------------------------------------------------------------------
(* The engine alone.  The copy a tick holds agrees with the stored         *)
(* transfer until the tick handles it, unless a reset removed it.          *)
CopiesAgree ==
  \A id \in Ids : pending[id] # "none" =>
                    transfers[id].status \in {pending[id], "none"}

(* Money moves only on the way into "settled". *)
UnsettledUnmoved ==
  \A id \in Ids : transfers[id].status \in {"pending", "posted", "failed"} =>
                    settlements[id] = 0

(* Slots not yet used are blank. *)
UnusedBlank ==
  \A id \in Ids : id >= nextID => /\ transfers[id].status = "none"
                                   /\ settlements[id] = 0
                                   /\ pending[id] = "none"

ClearedOnce == \A id \in Ids : settlements[id] <= 1

ClearingInv ==
  TypeOK /\ CopiesAgree /\ UnsettledUnmoved /\ UnusedBlank /\ ClearedOnce

(* Every step of the engine alone keeps tick copies and store in agreement. *)
LEMMA ClearingInductive ==
  ClearingInv /\ [EngineNext]_vars => ClearingInv'
<1> SUFFICES ASSUME ClearingInv, [EngineNext]_vars
             PROVE  ClearingInv'
  OBVIOUS
<1> USE LedgerAssumption
<1>1. TypeOK /\ TypeOK'
  BY TypeInductive DEF ClearingInv, Next
<1>2. CASE Create
  <2>1. PICK a \in Accounts, m \in Amounts, d \in Directions : CreateTransfer(a, m, d)
    BY <1>2 DEF Create
  <2>2. nextID \in Ids /\ transfers' = [transfers EXCEPT ![nextID] = transfers'[nextID]]
    BY <1>1, <2>1 DEF CreateTransfer, TypeOK, Ids
  <2>3. pending[nextID] = "none" /\ settlements[nextID] = 0
    BY <1>1, <2>2 DEF ClearingInv, UnusedBlank, TypeOK
  <2>4. CopiesAgree'
    BY <1>1, <2>1, <2>2, <2>3 DEF CreateTransfer, ClearingInv, CopiesAgree, TypeOK
  <2>5. UnsettledUnmoved'
    BY <1>1, <2>1, <2>2, <2>3 DEF CreateTransfer, ClearingInv, UnsettledUnmoved, TypeOK
  <2>6. UnusedBlank'
    BY <1>1, <2>1, <2>2 DEF CreateTransfer, ClearingInv, UnusedBlank, TypeOK, Ids
  <2> QED
    BY <1>1, <2>1, <2>4, <2>5, <2>6 DEF CreateTransfer, ClearingInv, ClearedOnce
<1>3. CASE TickSnapshot
  BY <1>1, <1>3 DEF TickSnapshot, ClearingInv, CopiesAgree, UnsettledUnmoved,
                    UnusedBlank, ClearedOnce, TypeOK, Open
<1>4. CASE \E id \in Ids : TickTransfer(id)
  <2>1. PICK id \in Ids : TickTransfer(id)
    BY <1>4
  <2>2. pending[id] # "none" /\ pending' = [pending EXCEPT ![id] = "none"] /\ nextID' = nextID
    BY <2>1 DEF TickTransfer
  <2>3. CASE TickTarget(id) = "posted" /\ transfers[id].status # "none" /\ ApplyPosted(id)
    <3>1. transfers[id].status = "pending"
      BY <1>1, <2>2, <2>3 DEF TickTarget, ClearingInv, CopiesAgree
    <3> QED
      BY <1>1, <2>2, <2>3, <3>1 DEF ApplyPosted, ClearingInv, CopiesAgree,
         UnsettledUnmoved, UnusedBlank, ClearedOnce, TypeOK, Transfer
  <2>4. CASE TickTarget(id) = "settled" /\ transfers[id].status # "none" /\ ApplySettled(id)
    <3>1. transfers[id].status = "posted"
      BY <1>1, <2>2, <2>4 DEF TickTarget, ClearingInv, CopiesAgree
    <3>2. settlements[id] = 0 /\ ~(id >= nextID)
      BY <1>1, <3>1 DEF ClearingInv, UnsettledUnmoved, UnusedBlank
    <3>3. /\ transfers' = [transfers EXCEPT ![id].status = "settled"]
          /\ settlements' = [settlements EXCEPT ![id] = @ + 1]
      BY <2>4 DEF ApplySettled
    <3> QED
      BY <1>1, <2>2, <3>1, <3>2, <3>3 DEF ClearingInv, CopiesAgree,
         UnsettledUnmoved, UnusedBlank, ClearedOnce, TypeOK, Transfer
  <2>5. CASE UNCHANGED <<current, available, transfers, settlements>>
    BY <1>1, <2>2, <2>5 DEF ClearingInv, CopiesAgree,
       UnsettledUnmoved, UnusedBlank, ClearedOnce, TypeOK
  <2> QED
    BY <2>1, <2>3, <2>4, <2>5 DEF TickTransfer
<1>5. CASE Elapse \/ UNCHANGED vars
  BY <1>1, <1>5 DEF Elapse, vars, ClearingInv, CopiesAgree, UnsettledUnmoved,
                    UnusedBlank, ClearedOnce
<1>6. CASE Seed
  BY <1>1, <1>6 DEF Seed, NoTransfer, ClearingInv, CopiesAgree, UnsettledUnmoved,
                    UnusedBlank, ClearedOnce
<1> QED
  BY <1>2, <1>3, <1>4, <1>5, <1>6 DEF EngineNext, Tick

(* The initial states satisfy the clearing invariant. *)
LEMMA ClearingInitial == Init => ClearingInv
BY TypeInitial, LedgerAssumption
   DEF Init, ClearingInv, CopiesAgree, UnsettledUnmoved, UnusedBlank,
       ClearedOnce, NoTransfer, NothingPending

(* The same while no outcome has been forced: a forced outcome ends the    *)
(* claim, and no other step forgets that there was one.                    *)
UnforcedInv == TypeOK /\ (simulations = 0 => ClearingInv)

(* Every step keeps the clearing invariant until an outcome is forced. *)
LEMMA UnforcedInductive ==
  UnforcedInv /\ [Next]_vars => UnforcedInv'
<1> SUFFICES ASSUME UnforcedInv, [Next]_vars
             PROVE  UnforcedInv'
  OBVIOUS
<1>1. TypeOK /\ TypeOK'
  BY TypeInductive DEF UnforcedInv
<1>2. CASE Simulate
  <2>1. simulations' = simulations + 1
    BY <1>2 DEF Simulate, SimulateSettlement, SimulateReturn
  <2>2. simulations \in Nat
    BY <1>1, LedgerAssumption DEF TypeOK
  <2>3. simulations' # 0
    BY <2>1, <2>2
  <2> QED
    BY <1>1, <2>3 DEF UnforcedInv
<1>3. CASE [EngineNext]_vars
  <2>1. simulations' = simulations
    BY <1>3 DEF EngineNext, Create, CreateTransfer, Tick, TickSnapshot, TickTransfer,
                Elapse, Seed, vars
  <2> QED
    BY <1>1, <1>3, <2>1, ClearingInductive DEF UnforcedInv
<1> QED
  BY <1>2, <1>3 DEF Next

(* The clearing invariant holds until an outcome is forced. *)
LEMMA Unforced == Spec => []UnforcedInv
<1>1. Init => UnforcedInv
  BY ClearingInitial, TypeInitial DEF UnforcedInv
<1> QED
  BY <1>1, UnforcedInductive, PTL DEF Spec

(* A transfer the engine clears moves money once, although every tick works *)
(* on copies and UpdateTransferStatus never looks at the old status.        *)
THEOREM EngineSettlesOnce == Spec => []SettledAtMostOnce
<1>1. UnforcedInv => SettledAtMostOnce
  BY DEF UnforcedInv, ClearingInv, ClearedOnce, SettledAtMostOnce
<1> QED
  BY <1>1, Unforced, PTL

(* The engine alone only moves a transfer forward through its statuses. *)
THEOREM EngineForwardOnly == Spec => ForwardOnly
<1> DEFINE Forward ==
      \A id \in Ids :
        LET old == transfers[id].status
            new == transfers'[id].status
        IN  \/ old = new
            \/ old = "none"
            \/ new = "none"
            \/ old = "pending" /\ new = "posted"
            \/ old = "posted" /\ new = "settled"
<1>1. ClearingInv /\ EngineNext => Forward
  <2> SUFFICES ASSUME ClearingInv, EngineNext
               PROVE  Forward
    OBVIOUS
  <2> USE LedgerAssumption
  <2>1. CASE Create
    <3>1. PICK a \in Accounts, m \in Amounts, d \in Directions : CreateTransfer(a, m, d)
      BY <2>1 DEF Create
    <3>2. nextID \in Ids /\ transfers[nextID].status = "none"
      BY <3>1 DEF CreateTransfer, ClearingInv, TypeOK, UnusedBlank, Ids
    <3>3. \A id \in Ids \ {nextID} : transfers'[id] = transfers[id]
      BY <3>1 DEF CreateTransfer, ClearingInv, TypeOK
    <3> QED
      BY <3>2, <3>3
  <2>2. CASE \E id \in Ids : TickTransfer(id)
    <3>1. PICK id \in Ids : TickTransfer(id)
      BY <2>2
    <3>2. CASE TickTarget(id) = "posted" /\ transfers[id].status # "none" /\ ApplyPosted(id)
      BY <3>1, <3>2 DEF TickTransfer, TickTarget, ApplyPosted, ClearingInv, CopiesAgree, TypeOK, Transfer
    <3>3. CASE TickTarget(id) = "settled" /\ transfers[id].status # "none" /\ ApplySettled(id)
      <4>1. transfers[id].status = "posted"
        BY <3>1, <3>3 DEF TickTransfer, TickTarget, ClearingInv, CopiesAgree
      <4>2. transfers' = [transfers EXCEPT ![id].status = "settled"]
        BY <3>3 DEF ApplySettled
      <4> QED
        BY <4>1, <4>2 DEF ClearingInv, TypeOK, Transfer
    <3>4. CASE UNCHANGED <<current, available, transfers, settlements>>
      BY <3>4
    <3> QED
      BY <3>1, <3>2, <3>3, <3>4 DEF TickTransfer
  <2>3. CASE TickSnapshot \/ Elapse
    BY <2>3 DEF TickSnapshot, Elapse
  <2>4. CASE Seed
    BY <2>4 DEF Seed, NoTransfer
  <2> QED
    BY <2>1, <2>2, <2>3, <2>4 DEF EngineNext, Tick
<1>2. UnforcedInv /\ [Next]_vars => [simulations' = 0 => Forward]_vars
  <2> SUFFICES ASSUME UnforcedInv, Next, simulations' = 0
               PROVE  Forward
    OBVIOUS
  <2>1. CASE Simulate
    <3>1. simulations' = simulations + 1
      BY <2>1 DEF Simulate, SimulateSettlement, SimulateReturn
    <3>2. simulations \in Nat
      BY LedgerAssumption DEF UnforcedInv, TypeOK
    <3> QED
      BY <3>1, <3>2
  <2>2. CASE EngineNext
    <3>1. simulations' = simulations
      BY <2>2 DEF EngineNext, Create, CreateTransfer, Tick, TickSnapshot, TickTransfer,
                  Elapse, Seed
    <3> QED
      BY <1>1, <2>2, <3>1 DEF UnforcedInv
  <2> QED
    BY <2>1, <2>2 DEF Next
<1> QED
  BY <1>2, Unforced, PTL DEF Spec, ForwardOnly

-----------------------------------------------------------------------------
(* Refinement of the clearing house. *)

(* The blank ledger is a clearing house nobody has used. *)
LEMMA HouseInitial == Init => House!HouseInit
<1> SUFFICES ASSUME Init
             PROVE  House!HouseInit
  OBVIOUS
<1>1. \A id \in Ids : FateOf(id) = "unused"
  BY LedgerAssumption DEF Init, FateOf, NoTransfer, Open, Ids
<1>2. \A id \in Ids : OrderOf(id) = House!Blank
  BY DEF Init, OrderOf, NoTransfer, House!Blank
<1> QED
  BY <1>1, <1>2 DEF Init, House!HouseInit

(* A client's request, whether it is accepted or recorded as failed, is    *)
(* taken into a slot that was never used.                                  *)
LEMMA CreateTakes ==
  ASSUME ClearingInv, Create
  PROVE  \E s \in Ids : House!Take(s)
<1> USE LedgerAssumption
<1>1. PICK a \in Accounts, m \in Amounts, d \in Directions : CreateTransfer(a, m, d)
  BY DEF Create
<1>2. nextID \in Ids /\ nextID' = nextID + 1 /\ nextID \in Nat
  BY <1>1 DEF CreateTransfer, ClearingInv, TypeOK, Ids
<1>3. transfers[nextID].status = "none"
  BY <1>2 DEF ClearingInv, UnusedBlank
<1>4. FateOf(nextID) = "unused"
  BY <1>2, <1>3 DEF FateOf, Open
<1>5. PICK st \in {"pending", "failed"} :
        transfers' = [transfers EXCEPT ![nextID] =
           [account |-> a, amount |-> m, direction |-> d, status |-> st]]
  BY <1>1 DEF CreateTransfer
<1>6. \A id \in Ids \ {nextID} : transfers'[id] = transfers[id] /\ (id < nextID' <=> id < nextID)
  BY <1>2, <1>5 DEF ClearingInv, TypeOK, Ids
<1>7. \A id \in Ids \ {nextID} : FateOf(id)' = FateOf(id) /\ OrderOf(id)' = OrderOf(id)
  BY <1>6 DEF FateOf, OrderOf
<1>8. transfers'[nextID] = [account |-> a, amount |-> m, direction |-> d, status |-> st]
  BY <1>2, <1>5 DEF ClearingInv, TypeOK
<1>9. House!Take(nextID)
  <2>1. [id \in Ids |-> FateOf(id)]' =
          [[id \in Ids |-> FateOf(id)] EXCEPT ![nextID] = IF st = "pending" THEN "open" ELSE "refused"]
    <3>1. [id \in Ids |-> FateOf(id)]'[nextID] = IF st = "pending" THEN "open" ELSE "refused"
      BY <1>2, <1>8 DEF FateOf, Open
    <3> QED
      BY <1>2, <1>7, <3>1
  <2>2. [id \in Ids |-> OrderOf(id)]' =
          [[id \in Ids |-> OrderOf(id)] EXCEPT ![nextID] = [id \in Ids |-> OrderOf(id)]'[nextID]]
    BY <1>2, <1>7
  <2>3. [id \in Ids |-> OrderOf(id)]'[nextID].amount > 0
    BY <1>1, <1>2, <1>8 DEF OrderOf, CreateTransfer
  <2>4. UNCHANGED <<current, simulations>>
    BY <1>1 DEF CreateTransfer
  <2> QED
    BY <1>2, <1>4, <2>1, <2>2, <2>3, <2>4 DEF House!Take
<1> QED
  BY <1>2, <1>9

(* The balances after a clearing are those the clearing house writes. *)
LEMMA SettledEffect ==
  ASSUME TypeOK, NEW id \in Ids, ApplySettled(id)
  PROVE  current' = [a \in Accounts |-> current[a] + House!Effect(OrderOf(id), a)]
<1> USE LedgerAssumption
<1>1. /\ current \in [Accounts -> Int] /\ Custody \in Accounts
      /\ transfers[id].account \in Accounts /\ transfers[id].amount \in Int
      /\ transfers[id].direction \in Directions
  BY DEF TypeOK, Transfer
<1>2. CASE transfers[id].direction = "debit"
  <2>1. current' = Move(current, transfers[id].account, Custody, transfers[id].amount)
    BY <1>2 DEF ApplySettled
  <2>2. \A a \in Accounts : House!Effect(OrderOf(id), a) =
          (IF a = transfers[id].account THEN -transfers[id].amount ELSE 0)
            - (IF a = Custody THEN -transfers[id].amount ELSE 0)
    BY <1>2 DEF House!Effect, OrderOf
  <2> QED
    BY <1>1, <2>1, <2>2 DEF Move, Add
<1>3. CASE transfers[id].direction = "credit"
  <2>1. current' = Move(current, Custody, transfers[id].account, transfers[id].amount)
    BY <1>3 DEF ApplySettled
  <2>2. \A a \in Accounts : House!Effect(OrderOf(id), a) =
          (IF a = transfers[id].account THEN transfers[id].amount ELSE 0)
            - (IF a = Custody THEN transfers[id].amount ELSE 0)
    BY <1>3 DEF House!Effect, OrderOf
  <2> QED
    BY <1>1, <2>1, <2>2 DEF Move, Add
<1>4. CASE transfers[id].direction = "other"
  <2>1. current' = current
    BY <1>4 DEF ApplySettled
  <2>2. \A a \in Accounts : House!Effect(OrderOf(id), a) = 0
    BY <1>4 DEF House!Effect, OrderOf
  <2> QED
    BY <1>1, <2>1, <2>2
<1> QED
  BY <1>1, <1>2, <1>3, <1>4 DEF Directions

(* One update of a tick clears an open transfer, or shows the clients      *)
(* nothing: the copy it acts on is of the status that is stored.           *)
LEMMA TickClears ==
  ASSUME ClearingInv, NEW id \in Ids, TickTransfer(id)
  PROVE  House!Clear(id) \/ UNCHANGED House!houseVars
<1> USE LedgerAssumption
<1>1. nextID' = nextID /\ simulations' = simulations /\ pending[id] # "none"
  BY DEF TickTransfer
<1>2. CASE TickTarget(id) = "posted" /\ transfers[id].status # "none" /\ ApplyPosted(id)
  <2>1. transfers[id].status = "pending"
    BY <1>1, <1>2 DEF TickTarget, ClearingInv, CopiesAgree
  <2>2. transfers' = [transfers EXCEPT ![id].status = "posted"] /\ current' = current
    BY <1>2 DEF ApplyPosted
  <2>3. \A i \in Ids : FateOf(i)' = FateOf(i) /\ OrderOf(i)' = OrderOf(i)
    BY <1>1, <2>1, <2>2 DEF FateOf, OrderOf, Open, ClearingInv, TypeOK, Transfer
  <2> QED
    BY <1>1, <2>2, <2>3 DEF House!houseVars
<1>3. CASE TickTarget(id) = "settled" /\ transfers[id].status # "none" /\ ApplySettled(id)
  <2>1. transfers[id].status = "posted"
    BY <1>1, <1>3 DEF TickTarget, ClearingInv, CopiesAgree
  <2>2. transfers' = [transfers EXCEPT ![id].status = "settled"]
    BY <1>3 DEF ApplySettled
  <2>3. /\ FateOf(id) = "open" /\ FateOf(id)' = "cleared"
        /\ \A i \in Ids \ {id} : FateOf(i)' = FateOf(i)
        /\ \A i \in Ids : OrderOf(i)' = OrderOf(i)
    BY <1>1, <2>1, <2>2 DEF FateOf, OrderOf, Open, ClearingInv, TypeOK, Transfer
  <2>4. current' = [a \in Accounts |-> current[a] + House!Effect(OrderOf(id), a)]
    BY <1>3, SettledEffect DEF ClearingInv
  <2> QED
    BY <1>1, <2>3, <2>4 DEF House!Clear
<1>4. CASE UNCHANGED <<current, available, transfers, settlements>>
  BY <1>1, <1>4 DEF House!houseVars, FateOf, OrderOf
<1> QED
  BY <1>2, <1>3, <1>4 DEF TickTransfer

(* A reset forgets every order and restores the books. *)
LEMMA SeedWipes ==
  ASSUME ClearingInv, Seed
  PROVE  House!Wipe
<1> USE LedgerAssumption
<1>1. /\ transfers' = [i \in Ids |-> NoTransfer] /\ nextID' = nextID
      /\ current' = SeedCurrent /\ simulations' = simulations
  BY DEF Seed
<1>2. \A id \in Ids : OrderOf(id)' = House!Blank
  BY <1>1 DEF OrderOf, NoTransfer, House!Blank
<1>3. \A id \in Ids : FateOf(id)' = IF id < nextID THEN "gone" ELSE "unused"
  BY <1>1 DEF FateOf, NoTransfer, Open
<1>4. \A id \in Ids : FateOf(id) = "unused" <=> ~(id < nextID)
  <2>1. \A id \in Ids : ~(id < nextID) => transfers[id].status = "none"
    BY DEF ClearingInv, UnusedBlank, TypeOK, Ids
  <2>2. \A id \in Ids : transfers[id].status \in Statuses \cup {"none"}
    BY DEF ClearingInv, TypeOK, Transfer
  <2> QED
    BY <2>1, <2>2 DEF FateOf, Open, Statuses
<1> QED
  BY <1>1, <1>2, <1>3, <1>4 DEF House!Wipe

(* Every step of the ledger is a step of the clearing house or shows its   *)
(* clients nothing.                                                        *)
LEMMA StepRefines ==
  UnforcedInv /\ UnforcedInv' /\ [Next]_vars => [House!HouseNext]_House!houseVars
<1> SUFFICES ASSUME UnforcedInv, UnforcedInv', [Next]_vars
             PROVE  [House!HouseNext]_House!houseVars
  OBVIOUS
<1>1. CASE simulations' # 0
  <2>1. simulations' > 0
    BY <1>1, LedgerAssumption DEF UnforcedInv, TypeOK
  <2> QED
    BY <2>1 DEF House!HouseNext, House!Override
<1>2. CASE simulations' = 0
  <2>1. simulations = 0 /\ [EngineNext]_vars
    <3>1. CASE Simulate
      BY <1>2, <3>1, LedgerAssumption
         DEF Simulate, SimulateSettlement, SimulateReturn, UnforcedInv, TypeOK
    <3>2. CASE [EngineNext]_vars
      BY <1>2, <3>2 DEF EngineNext, Create, CreateTransfer, Tick, TickSnapshot,
                        TickTransfer, Elapse, Seed, vars
    <3> QED
      BY <3>1, <3>2 DEF Next
  <2>2. ClearingInv
    BY <2>1 DEF UnforcedInv
  <2>3. CASE Create
    BY <2>2, <2>3, CreateTakes DEF House!HouseNext
  <2>4. CASE \E id \in Ids : TickTransfer(id)
    BY <2>2, <2>4, TickClears DEF House!HouseNext
  <2>5. CASE TickSnapshot \/ Elapse \/ UNCHANGED vars
    <3>1. UNCHANGED <<transfers, nextID, current, simulations>>
      BY <2>5 DEF TickSnapshot, Elapse, vars
    <3> QED
      BY <3>1 DEF House!houseVars, FateOf, OrderOf
  <2>6. CASE Seed
    BY <2>2, <2>6, SeedWipes DEF House!HouseNext
  <2> QED
    BY <2>1, <2>3, <2>4, <2>5, <2>6 DEF EngineNext, Tick
<1> QED
  BY <1>1, <1>2

(* The ledger with its engine implements the clearing house: what clients  *)
(* see of ticks, copies and resets is a sequence of single clearings.      *)
THEOREM LedgerIsAClearingHouse == Spec => ClearsAsPromised
  BY HouseInitial, StepRefines, Unforced, PTL DEF Spec, ClearsAsPromised, House!HouseSpec
-----------------------------------------------------------------------------
(* Money.  Adding to one account adds to the total. *)
LEMMA AddTotal ==
  ASSUME NEW b \in [Accounts -> Int], NEW a \in Accounts, NEW m \in Int
  PROVE  SumOver(Add(b, a, m), Accounts) = SumOver(b, Accounts) + m
<1>1. IsFiniteSet(Accounts)
  BY LedgerAssumption
<1>2. \A c \in Accounts : b[c] \in Int /\ Add(b, a, m)[c] \in Int
  BY AddType
<1>3. \A c \in Accounts \ {a} : Add(b, a, m)[c] = b[c]
  BY AddType
<1>4. SumOver(Add(b, a, m), Accounts) = SumOver(b, Accounts) + (Add(b, a, m)[a] - b[a])
  <2> DEFINE g == Add(b, a, m)
  <2>1. /\ \A c \in Accounts : b[c] \in Int /\ g[c] \in Int
        /\ \A c \in Accounts \ {a} : g[c] = b[c]
    BY <1>2, <1>3
  <2> HIDE DEF g
  <2>2. SumOver(g, Accounts) = SumOver(b, Accounts) + (g[a] - b[a])
    BY <1>1, <2>1, SumPoint
  <2> QED
    BY <2>2 DEF g
<1>5. Add(b, a, m)[a] = b[a] + m
  BY AddType
<1>. QED
  BY <1>2, <1>4, <1>5

(* A movement leaves the total alone, also from an account to itself. *)
LEMMA MoveTotal ==
  ASSUME NEW b \in [Accounts -> Int], NEW f \in Accounts, NEW t \in Accounts,
         NEW m \in Int
  PROVE  SumOver(Move(b, f, t, m), Accounts) = SumOver(b, Accounts)
<1>1. Add(b, f, -m) \in [Accounts -> Int] /\ -m \in Int
  BY AddType
<1>2. SumOver(Add(b, f, -m), Accounts) = SumOver(b, Accounts) + (-m)
  BY <1>1, AddTotal
<1>3. SumOver(Move(b, f, t, m), Accounts) = SumOver(Add(b, f, -m), Accounts) + m
  BY <1>1, AddTotal DEF Move
<1>4. SumOver(b, Accounts) \in Int
  BY SumType, LedgerAssumption
<1>. QED
  BY <1>2, <1>3, <1>4

FundsInv == TypeOK /\ FundsConserved

(* Every step keeps the total: only ApplySettled and Seed write current    *)
(* balances at all.                                                        *)
LEMMA FundsInductive == FundsInv /\ [Next]_vars => FundsInv'
<1> SUFFICES ASSUME FundsInv, [Next]_vars
             PROVE  FundsInv'
  OBVIOUS
<1> USE LedgerAssumption
<1>1. TypeOK /\ TypeOK'
  BY TypeInductive DEF FundsInv
<1>2. ASSUME NEW id \in Ids, ApplySettled(id)
      PROVE  SumOver(current', Accounts) = SumOver(current, Accounts)
  <2> DEFINE t == transfers[id]
  <2>1. t.account \in Accounts /\ t.amount \in Int
    BY <1>1 DEF TypeOK, Transfer
  <2>2. current \in [Accounts -> Int] /\ Custody \in Accounts
    BY <1>1 DEF TypeOK
  <2>3. CASE current' = Move(current, t.account, Custody, t.amount)
    BY <2>1, <2>2, <2>3, MoveTotal
  <2>4. CASE current' = Move(current, Custody, t.account, t.amount)
    BY <2>1, <2>2, <2>4, MoveTotal
  <2>5. CASE current' = current
    BY <2>5
  <2> QED
    BY <1>2, <2>3, <2>4, <2>5 DEF ApplySettled
<1>3. CASE Seed
  BY <1>1, <1>3 DEF Seed, FundsInv, FundsConserved
<1>4. CASE \E id \in Ids : ApplySettled(id)
  BY <1>1, <1>2, <1>4 DEF FundsInv, FundsConserved
<1>5. CASE current' = current
  BY <1>1, <1>5 DEF FundsInv, FundsConserved
<1>6. \/ Seed
      \/ \E id \in Ids : ApplySettled(id)
      \/ current' = current
  BY DEF Next, EngineNext, Create, CreateTransfer, Tick, TickSnapshot, TickTransfer,
         ApplyPosted, Elapse, Simulate, SimulateSettlement, SimulateReturn,
         ApplyReturned, vars
<1> QED
  BY <1>3, <1>4, <1>5, <1>6

(* There are finitely many slots. *)
LEMMA IdsFinite == IsFiniteSet(Ids)
<1>1. 1 \in Int /\ MaxTransfers \in Int
  BY LedgerAssumption
<1> QED
  BY <1>1, FS_Interval DEF Ids

(* What a slot holds is an integer. *)
LEMMA HoldType ==
  ASSUME TypeOK, NEW a \in Accounts
  PROVE  /\ IsFiniteSet(Ids)
         /\ \A id \in Ids : Hold(id, a) \in Int
<1>1. IsFiniteSet(Ids)
  BY IdsFinite
<1>2. \A id \in Ids : Hold(id, a) \in Int
  BY DEF Hold, TypeOK, Transfer
<1>. QED
  BY <1>1, <1>2

(* When one slot changes, what is held of an account changes by what that  *)
(* slot holds.                                                             *)
LEMMA HeldPoint ==
  ASSUME TypeOK, TypeOK', NEW a \in Accounts, NEW id \in Ids,
         \A i \in Ids \ {id} : transfers'[i] = transfers[i]
  PROVE  HeldBy(a)' = HeldBy(a) + (Hold(id, a)' - Hold(id, a))
<1> DEFINE f == [i \in Ids |-> Hold(i, a)]
           g == [i \in Ids |-> Hold(i, a)']
<1>1. IsFiniteSet(Ids) /\ \A i \in Ids : Hold(i, a) \in Int
  BY HoldType
<1>2. \A i \in Ids : Hold(i, a)' \in Int
  BY DEF Hold, TypeOK, Transfer
<1>3. \A i \in Ids \ {id} : Hold(i, a)' = Hold(i, a)
  BY DEF Hold
<1>4. \A i \in Ids : f[i] \in Int /\ g[i] \in Int
  BY <1>1, <1>2
<1>5. \A i \in Ids \ {id} : g[i] = f[i]
  BY <1>3
<1>6. HeldBy(a) = SumOver(f, Ids) /\ HeldBy(a)' = SumOver(g, Ids)
  BY DEF HeldBy
<1>7. f[id] = Hold(id, a) /\ g[id] = Hold(id, a)'
  OBVIOUS
<1> HIDE DEF f, g
<1> QED
  BY <1>1, <1>4, <1>5, <1>6, <1>7, SumPoint

(* An empty ledger holds nothing. *)
LEMMA HeldNothing ==
  ASSUME transfers = [id \in Ids |-> NoTransfer]
  PROVE  \A a : HeldBy(a) = 0
<1>1. IsFiniteSet(Ids)
  BY IdsFinite
<1>2. ASSUME NEW a
      PROVE  HeldBy(a) = 0
  <2>1. \A id \in Ids : [i \in Ids |-> Hold(i, a)][id] = 0
    BY DEF Hold, NoTransfer, Open
  <2> QED
    BY <1>1, <2>1, SumZero DEF HeldBy
<1> QED
  BY <1>2

HeldInv == UnforcedInv /\ HoldsAccountForGap

(* Every step keeps the gap accounted for until an outcome is forced.  It  *)
(* takes UnforcedInv: a tick must not settle, from an old copy, a transfer *)
(* whose hold is gone.                                                     *)
LEMMA HeldInductive == HeldInv /\ [Next]_vars => HeldInv'
<1> SUFFICES ASSUME HeldInv, [Next]_vars
             PROVE  HeldInv'
  OBVIOUS
<1> USE LedgerAssumption
<1>1. UnforcedInv /\ UnforcedInv' /\ TypeOK /\ TypeOK'
  BY UnforcedInductive DEF HeldInv, UnforcedInv
<1>2. CASE simulations' # 0
  BY <1>1, <1>2 DEF HeldInv, HoldsAccountForGap
<1>3. CASE simulations' = 0
  <2>1. simulations = 0 /\ [EngineNext]_vars
    <3>1. CASE Simulate
      BY <1>1, <1>3, <3>1 DEF Simulate, SimulateSettlement, SimulateReturn, TypeOK
    <3>2. CASE [EngineNext]_vars
      BY <1>3, <3>2 DEF EngineNext, Create, CreateTransfer, Tick, TickSnapshot,
                        TickTransfer, Elapse, Seed, vars
    <3> QED
      BY <3>1, <3>2 DEF Next
  <2>2. ClearingInv
    BY <1>1, <2>1 DEF UnforcedInv
  <2>3. \A a \in Accounts :
          current[a] - available[a] = (SeedCurrent[a] - SeedAvailable[a]) + HeldBy(a)
    BY <2>1 DEF HeldInv, HoldsAccountForGap
  <2>4. SUFFICES ASSUME NEW a \in Accounts
                 PROVE  current'[a] - available'[a] =
                          (SeedCurrent[a] - SeedAvailable[a]) + HeldBy(a)'
    BY <1>1 DEF HeldInv, HoldsAccountForGap
  <2>5. /\ current[a] \in Int /\ available[a] \in Int
        /\ SeedCurrent[a] \in Int /\ SeedAvailable[a] \in Int
        /\ HeldBy(a) \in Int
    <3>1. \A i \in Ids : [id \in Ids |-> Hold(id, a)][i] \in Int
      BY <1>1, HoldType
    <3>2. HeldBy(a) \in Int
      BY <3>1, IdsFinite, SumType DEF HeldBy
    <3> QED
      BY <1>1, <3>2 DEF TypeOK
  <2>6. ASSUME NEW id \in Ids, \A i \in Ids \ {id} : transfers'[i] = transfers[i]
        PROVE  HeldBy(a)' = HeldBy(a) + (Hold(id, a)' - Hold(id, a))
    BY <1>1, <2>6, HeldPoint
  <2>7. CASE Create
    <3>1. PICK c \in Accounts, m \in Amounts, d \in Directions : CreateTransfer(c, m, d)
      BY <2>7 DEF Create
    <3>2. PICK n \in Ids : n = nextID /\ m \in Int
      BY <1>1, <3>1 DEF CreateTransfer, TypeOK, Ids
    <3>3. \A i \in Ids \ {n} : transfers'[i] = transfers[i]
      BY <1>1, <3>1, <3>2 DEF CreateTransfer, TypeOK
    <3>4. transfers[n].status = "none"
      BY <1>1, <2>2, <3>2 DEF ClearingInv, UnusedBlank, TypeOK
    <3>5. Hold(n, a) = 0
      BY <3>4 DEF Hold, Open
    <3>6. transfers'[n] = [account |-> c, amount |-> m, direction |-> d,
            status |-> IF d # "debit" \/ available[c] >= m THEN "pending" ELSE "failed"]
      BY <1>1, <3>1, <3>2 DEF CreateTransfer, TypeOK
    <3>7. Hold(n, a)' = IF c = a /\ d = "debit" /\ available[c] >= m THEN m ELSE 0
      BY <3>6 DEF Hold, Open
    <3>8. available'[a] = IF c = a /\ d = "debit" /\ available[c] >= m
                            THEN available[a] - m ELSE available[a]
      BY <1>1, <3>1, <3>2 DEF CreateTransfer, Add, TypeOK
    <3>9. current' = current
      BY <3>1 DEF CreateTransfer
    <3>10. HeldBy(a)' = HeldBy(a) + (Hold(n, a)' - Hold(n, a))
      BY <2>6, <3>2, <3>3
    <3>11. CASE c = a /\ d = "debit" /\ available[c] >= m
      BY <2>3, <2>5, <3>2, <3>5, <3>7, <3>8, <3>9, <3>10, <3>11
    <3>12. CASE ~(c = a /\ d = "debit" /\ available[c] >= m)
      BY <2>3, <2>5, <3>2, <3>5, <3>7, <3>8, <3>9, <3>10, <3>12
    <3> QED
      BY <3>11, <3>12
  <2>8. CASE \E id \in Ids : TickTransfer(id)
    <3>1. PICK id \in Ids : TickTransfer(id)
      BY <2>8
    <3> DEFINE t == transfers[id]
    <3>2. t.account \in Accounts /\ t.amount \in Int /\ t.direction \in Directions
      BY <1>1 DEF TypeOK, Transfer
    <3>3. CASE TickTarget(id) = "posted" /\ transfers[id].status # "none" /\ ApplyPosted(id)
      <4>1. transfers[id].status = "pending"
        BY <2>2, <3>1, <3>3 DEF TickTransfer, TickTarget, ClearingInv, CopiesAgree
      <4>2. transfers' = [transfers EXCEPT ![id].status = "posted"]
        BY <3>3 DEF ApplyPosted
      <4>3. Hold(id, a)' = Hold(id, a) /\ Hold(id, a) \in Int
        BY <1>1, <4>1, <4>2 DEF Hold, Open, TypeOK, Transfer
      <4>4. \A i \in Ids \ {id} : transfers'[i] = transfers[i]
        BY <1>1, <4>2 DEF TypeOK
      <4>5. UNCHANGED <<current, available>>
        BY <3>3 DEF ApplyPosted
      <4>6. HeldBy(a)' = HeldBy(a)
        BY <2>5, <2>6, <4>3, <4>4
      <4> QED
        BY <2>3, <4>5, <4>6
    <3>4. CASE TickTarget(id) = "settled" /\ transfers[id].status # "none" /\ ApplySettled(id)
      <4>1. transfers[id].status = "posted"
        BY <2>2, <3>1, <3>4 DEF TickTransfer, TickTarget, ClearingInv, CopiesAgree
      <4>2. transfers' = [transfers EXCEPT ![id].status = "settled"]
        BY <3>4 DEF ApplySettled
      <4>3. \A i \in Ids \ {id} : transfers'[i] = transfers[i]
        BY <1>1, <4>2 DEF TypeOK
      <4>4. Hold(id, a)' = 0
        BY <1>1, <4>2 DEF Hold, Open, TypeOK, Transfer
      <4>5. Hold(id, a) = IF t.account = a /\ t.direction = "debit" THEN t.amount ELSE 0
        BY <4>1 DEF Hold, Open
      <4>6. HeldBy(a)' = HeldBy(a) - Hold(id, a)
        BY <2>5, <2>6, <3>2, <4>3, <4>4, <4>5
      <4>7. current'[a] - available'[a] = (current[a] - available[a]) - Hold(id, a)
        <5>1. CASE t.direction = "debit"
          <6>1. /\ current' = Move(current, t.account, Custody, t.amount)
                /\ available' = Add(available, Custody, t.amount)
            BY <3>4, <5>1 DEF ApplySettled
          <6> QED
            BY <1>1, <2>5, <3>2, <4>5, <5>1, <6>1 DEF Move, Add, TypeOK
        <5>2. CASE t.direction = "credit"
          <6>1. /\ current' = Move(current, Custody, t.account, t.amount)
                /\ available' = Move(available, Custody, t.account, t.amount)
            BY <3>4, <5>2 DEF ApplySettled
          <6> QED
            BY <1>1, <2>5, <3>2, <4>5, <5>2, <6>1 DEF Move, Add, TypeOK
        <5>3. CASE t.direction = "other"
          BY <2>5, <3>4, <4>5, <5>3 DEF ApplySettled
        <5> QED
          BY <3>2, <5>1, <5>2, <5>3 DEF Directions
      <4>8. Hold(id, a) \in Int
        BY <3>2, <4>5
      <4> QED
        BY <2>3, <2>5, <4>6, <4>7, <4>8
    <3>5. CASE UNCHANGED <<current, available, transfers, settlements>>
      BY <2>3, <3>5 DEF HeldBy, Hold
    <3> QED
      BY <3>1, <3>3, <3>4, <3>5 DEF TickTransfer
  <2>9. CASE TickSnapshot \/ Elapse \/ UNCHANGED vars
    BY <2>3, <2>9 DEF TickSnapshot, Elapse, vars, HeldBy, Hold
  <2>10. CASE Seed
    <3>1. transfers' = [id \in Ids |-> NoTransfer]
      BY <2>10 DEF Seed
    <3>2. HeldBy(a)' = 0
      <4>1. \A id \in Ids : [i \in Ids |-> Hold(i, a)'][id] = 0
        BY <3>1 DEF Hold, NoTransfer, Open
      <4>2. HeldBy(a)' = SumOver([i \in Ids |-> Hold(i, a)'], Ids)
        BY DEF HeldBy
      <4> QED
        BY <4>1, <4>2, IdsFinite, SumZero
    <3> QED
      BY <2>5, <2>10, <3>2 DEF Seed
  <2> QED
    BY <2>1, <2>7, <2>8, <2>9, <2>10 DEF EngineNext, Tick
<1> QED
  BY <1>2, <1>3

(* The ledger accounts for its money, for every set of accounts and every  *)
(* number of transfers: settling moves the current balances and makes      *)
(* none, and until an outcome is forced the holds of the open debits are   *)
(* the whole difference between the two balances of every account.         *)
THEOREM LedgerAccountsForMoney == Spec => []MoneyAccounted
<1>1. Init => FundsInv
  BY TypeInitial DEF Init, FundsInv, FundsConserved
<1>2. Init => HeldInv
  <2> SUFFICES ASSUME Init
               PROVE  HeldInv
    OBVIOUS
  <2>1. \A a \in Accounts : HeldBy(a) = 0
    BY HeldNothing DEF Init
  <2>2. HoldsAccountForGap
    BY <2>1, LedgerAssumption DEF Init, HoldsAccountForGap
  <2> QED
    BY <2>2, ClearingInitial, TypeInitial DEF HeldInv, UnforcedInv
<1>3. FundsInv /\ HeldInv => MoneyAccounted
  BY DEF FundsInv, HeldInv, MoneyAccounted
<1> QED
  BY <1>1, <1>2, <1>3, FundsInductive, HeldInductive, PTL DEF Spec
=============================================================================
