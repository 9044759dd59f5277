----------------------------- MODULE BankLedger -----------------------------
(***************************************************************************)
(* The simulated clearing bank (cmd/mock-bank): the in-memory ledger of    *)
(* ledger/store.go, guarded by one mutex, and the settlement engine of     *)
(* engine/engine.go, whose tick copies the open transfers under the lock,  *)
(* releases it, and then updates the transfers one by one from the copies. *)
(* HTTP handlers create transfers, force their outcome (/sim/transfer) and *)
(* reset the ledger between any two of those updates.                      *)
(*                                                                         *)
(* Balances are integers (cents), a transfer is its slot in 1..MaxTransfers*)
(* (the code numbers transfers by creation time).  Time is the age of each *)
(* transfer, counted in ticks up to the age at which it is due to settle.  *)
(***************************************************************************)
EXTENDS Integers, Sums

CONSTANTS Accounts,        \* every bank account, the custody account included
          Custody,         \* the omnibus account (custodyAccountID)
          Amounts,         \* amounts a client may ask for
          SeedCurrent,     \* CurrentBalance written by Seed
          SeedAvailable,   \* AvailableBalance written by Seed
          PostDelay,       \* age at which a pending transfer posts
          SettleDelay,     \* further age at which a posted one settles
          MaxTransfers,    \* bound: transfers ever created
          MaxSimulations,  \* bound: forced outcomes
          MaxResets        \* bound: ledger resets

ASSUME LedgerAssumption ==
  /\ IsFiniteSet(Accounts)
  /\ Custody \in Accounts
  /\ Amounts \subseteq Int
  /\ SeedCurrent \in [Accounts -> Int]
  /\ SeedAvailable \in [Accounts -> Nat]
  /\ PostDelay \in Nat
  /\ SettleDelay \in Nat
  /\ MaxTransfers \in Nat
  /\ MaxSimulations \in Nat
  /\ MaxResets \in Nat

Ids == 1 .. MaxTransfers
Directions == {"debit", "credit", "other"}  \* the handler accepts any word
Open == {"pending", "posted"}
Statuses == Open \cup {"settled", "failed", "returned"}
DueAge == PostDelay + SettleDelay

VARIABLES current,      \* CurrentBalance of every account
          available,    \* AvailableBalance of every account
          transfers,    \* the transfer in each slot; status "none" when absent
          nextID,       \* first slot never used
          age,          \* ticks since the transfer in a slot was created
          pending,      \* the tick's copies not yet handled: status, or "none"
          elapsed,      \* ages at the instant the tick read the clock
          settlements,  \* history: how often a transfer was settled
          simulations,  \* history: forced outcomes so far
          resets        \* history: resets so far

vars == <<current, available, transfers, nextID, age, pending, elapsed,
          settlements, simulations, resets>>

Transfer == [account: Accounts, amount: Int, direction: Directions,
             status: Statuses \cup {"none"}]

NoTransfer == [account |-> Custody, amount |-> 0, direction |-> "debit",
               status |-> "none"]

NothingPending == [id \in Ids |-> "none"]

TypeOK ==
  /\ current \in [Accounts -> Int]
  /\ available \in [Accounts -> Int]
  /\ transfers \in [Ids -> Transfer]
  /\ nextID \in 1 .. (MaxTransfers + 1)
  /\ age \in [Ids -> 0 .. DueAge]
  /\ pending \in [Ids -> Open \cup {"none"}]
  /\ elapsed \in [Ids -> 0 .. DueAge]
  /\ settlements \in [Ids -> Nat]
  /\ simulations \in 0 .. MaxSimulations
  /\ resets \in 0 .. MaxResets

Init ==
  /\ current = SeedCurrent
  /\ available = SeedAvailable
  /\ transfers = [id \in Ids |-> NoTransfer]
  /\ nextID = 1
  /\ age = [id \in Ids |-> 0]
  /\ pending = NothingPending
  /\ elapsed = [id \in Ids |-> 0]
  /\ settlements = [id \in Ids |-> 0]
  /\ simulations = 0
  /\ resets = 0

-----------------------------------------------------------------------------
(* Balance arithmetic.  An account may be its own custody account, so both *)
(* sides of a movement apply to every account.                             *)

Add(balance, account, amount) ==
  [a \in Accounts |-> IF a = account THEN balance[a] + amount ELSE balance[a]]

Move(balance, from, to, amount) ==
  Add(Add(balance, from, -amount), to, amount)

-----------------------------------------------------------------------------
(* Mutant: a debit is checked against the current balance. *)
CreateTransferChecksCurrent(account, amount, direction) ==
  LET covered == direction # "debit" \/ current[account] >= amount
  IN  /\ nextID <= MaxTransfers
      /\ amount > 0
      /\ transfers' = [transfers EXCEPT ![nextID] =
           [account |-> account, amount |-> amount, direction |-> direction,
            status |-> IF covered THEN "pending" ELSE "failed"]]
      /\ available' = IF direction = "debit" /\ covered
                        THEN Add(available, account, -amount)
                        ELSE available
      /\ age' = [age EXCEPT ![nextID] = 0]
      /\ nextID' = nextID + 1
      /\ UNCHANGED <<current, pending, elapsed, settlements, simulations, resets>>

(* A client asks for a transfer.  Amounts that are not positive are        *)
(* refused; a debit the available balance cannot cover is recorded as      *)
(* failed (R01); a covered debit holds the amount at once.                 *)
CreateTransfer(account, amount, direction) ==
  LET covered == direction # "debit" \/ available[account] >= amount
  IN  /\ nextID <= MaxTransfers
      /\ amount > 0
      /\ transfers' = [transfers EXCEPT ![nextID] =
           [account |-> account, amount |-> amount, direction |-> direction,
            status |-> IF covered THEN "pending" ELSE "failed"]]
      /\ available' = IF direction = "debit" /\ covered
                        THEN Add(available, account, -amount)
                        ELSE available
      /\ age' = [age EXCEPT ![nextID] = 0]
      /\ nextID' = nextID + 1
      /\ UNCHANGED <<current, pending, elapsed, settlements, simulations, resets>>

(* Mutant: the custody side of a clearing is forgotten. *)
ApplySettledOneSided(id) ==
  LET t == transfers[id]
  IN  /\ transfers' = [transfers EXCEPT ![id].status = "settled"]
      /\ settlements' = [settlements EXCEPT ![id] = @ + 1]
      /\ current' = Add(current, t.account,
                        IF t.direction = "debit" THEN -t.amount ELSE t.amount)
      /\ UNCHANGED available

(* Mutant: the balances move but the status is not stored. *)
ApplySettledKeepsStatus(id) ==
  LET t == transfers[id]
  IN  /\ settlements' = [settlements EXCEPT ![id] = @ + 1]
      /\ current' = Move(current, t.account, Custody, t.amount)
      /\ available' = Add(available, Custody, t.amount)
      /\ UNCHANGED transfers

(* Clearing: the money moves and a debit's hold becomes final. *)
ApplySettled(id) ==
  LET t == transfers[id]
  IN  /\ transfers' = [transfers EXCEPT ![id].status = "settled"]
      /\ settlements' = [settlements EXCEPT ![id] = @ + 1]
      /\ \/ /\ t.direction = "debit"
            /\ current' = Move(current, t.account, Custody, t.amount)
            /\ available' = Add(available, Custody, t.amount)
         \/ /\ t.direction = "credit"
            /\ current' = Move(current, Custody, t.account, t.amount)
            /\ available' = Move(available, Custody, t.account, t.amount)
         \/ /\ t.direction = "other"
            /\ UNCHANGED <<current, available>>

(* The switch has no case for "posted": only the status changes. *)
ApplyPosted(id) ==
  /\ transfers' = [transfers EXCEPT ![id].status = "posted"]
  /\ UNCHANGED <<current, available, settlements>>

(* A return gives a debit's hold back only while the transfer was open. *)
ApplyReturned(id) ==
  LET t == transfers[id]
  IN  /\ transfers' = [transfers EXCEPT ![id].status = "returned"]
      /\ available' = IF t.direction = "debit" /\ t.status \in Open
                        THEN Add(available, t.account, t.amount)
                        ELSE available
      /\ UNCHANGED <<current, settlements>>

-----------------------------------------------------------------------------
(* The settlement engine: one goroutine, one tick at a time.               *)

(* Mutant: the filter keeps pending transfers only. *)
TickSnapshotPendingOnly ==
  /\ pending = NothingPending
  /\ pending' = [id \in Ids |-> IF transfers[id].status = "pending"
                                  THEN "pending" ELSE "none"]
  /\ elapsed' = age
  /\ UNCHANGED <<current, available, transfers, nextID, age, settlements,
                 simulations, resets>>

(* GetPendingTransfers copies the open transfers; the clock is read once.  *)
TickSnapshot ==
  /\ pending = NothingPending
  /\ pending' = [id \in Ids |-> IF transfers[id].status \in Open
                                  THEN transfers[id].status ELSE "none"]
  /\ elapsed' = age
  /\ UNCHANGED <<current, available, transfers, nextID, age, settlements,
                 simulations, resets>>

(* Mutant: a transfer old enough settles without having been posted. *)
TickTargetSkipsPosting(id) ==
  CASE pending[id] # "none" /\ elapsed[id] >= DueAge         -> "settled"
    [] pending[id] = "pending" /\ elapsed[id] >= PostDelay -> "posted"
    [] OTHER                                                -> "none"

(* The status the tick wants for a copy, "none" when it is not yet due. *)
TickTarget(id) ==
  CASE pending[id] = "pending" /\ elapsed[id] >= PostDelay -> "posted"
    [] pending[id] = "posted" /\ elapsed[id] >= DueAge     -> "settled"
    [] OTHER                                                -> "none"

(* Mutant: the update does not look the transfer up again. *)
TickTransferRevives(id) ==
  /\ pending[id] # "none"
  /\ pending' = [pending EXCEPT ![id] = "none"]
  /\ \/ TickTarget(id) = "posted" /\ ApplyPosted(id)
     \/ TickTarget(id) = "settled" /\ ApplySettled(id)
     \/ /\ TickTarget(id) = "none"
        /\ UNCHANGED <<current, available, transfers, settlements>>
  /\ UNCHANGED <<nextID, age, elapsed, simulations, resets>>

(* One iteration of the tick's loop, in any order (the copies come from a  *)
(* map).  The update looks the transfer up again but not its status; a     *)
(* transfer that a reset removed is skipped.                               *)
TickTransfer(id) ==
  /\ pending[id] # "none"
  /\ pending' = [pending EXCEPT ![id] = "none"]
  /\ \/ /\ TickTarget(id) = "posted"
        /\ transfers[id].status # "none"
        /\ ApplyPosted(id)
     \/ /\ TickTarget(id) = "settled"
        /\ transfers[id].status # "none"
        /\ ApplySettled(id)
     \/ /\ TickTarget(id) = "none" \/ transfers[id].status = "none"
        /\ UNCHANGED <<current, available, transfers, settlements>>
  /\ UNCHANGED <<nextID, age, elapsed, simulations, resets>>

(* A tick interval passes: every recorded transfer grows older. *)
Elapse ==
  /\ age' = [id \in Ids |-> IF id < nextID /\ age[id] < DueAge
                              THEN age[id] + 1 ELSE age[id]]
  /\ UNCHANGED <<current, available, transfers, nextID, pending, elapsed,
                 settlements, simulations, resets>>

-----------------------------------------------------------------------------
(* POST /sim/transfer: force the outcome of any recorded transfer. *)

SimulateSettlement(id) ==
  /\ simulations < MaxSimulations
  /\ transfers[id].status # "none"
  /\ ApplySettled(id)
  /\ simulations' = simulations + 1
  /\ UNCHANGED <<nextID, age, pending, elapsed, resets>>

SimulateReturn(id) ==
  /\ simulations < MaxSimulations
  /\ transfers[id].status # "none"
  /\ ApplyReturned(id)
  /\ simulations' = simulations + 1
  /\ UNCHANGED <<nextID, age, pending, elapsed, resets>>

(* POST /sim/reset: Seed replaces accounts and transfers.  A tick in       *)
(* progress keeps its copies.                                              *)
Seed ==
  /\ resets < MaxResets
  /\ current' = SeedCurrent
  /\ available' = SeedAvailable
  /\ transfers' = [id \in Ids |-> NoTransfer]
  /\ resets' = resets + 1
  /\ UNCHANGED <<nextID, age, pending, elapsed, settlements, simulations>>

-----------------------------------------------------------------------------
Create == \E a \in Accounts, m \in Amounts, d \in Directions :
            CreateTransfer(a, m, d)

Tick == TickSnapshot \/ (\E id \in Ids : TickTransfer(id))

Simulate == \E id \in Ids : SimulateSettlement(id) \/ SimulateReturn(id)

(* Clients and the engine alone: nobody forces an outcome. *)
EngineNext == Create \/ Tick \/ Elapse \/ Seed

Next == EngineNext \/ Simulate

Spec == Init /\ [][Next]_vars

(* The engine's goroutine keeps ticking and time passes; clients, resets   *)
(* and forced outcomes are under no obligation.                            *)
Fairness ==
  /\ WF_vars(Elapse)
  /\ WF_vars(TickSnapshot)
  /\ \A id \in Ids : WF_vars(TickTransfer(id))

FairSpec == Spec /\ Fairness

-----------------------------------------------------------------------------
(* The hold rule of CreateTransfer: no interleaving of clients, ticks,     *)
(* forced outcomes and resets spends a customer's available balance below  *)
(* zero.  (Credits are not checked against the custody account.)           *)
AvailableNeverNegative ==
  \A a \in Accounts \ {Custody} : available[a] >= 0

(* As long as no outcome was forced a transfer clears at most once,        *)
(* although each tick acts on copies taken before the lock was released:   *)
(* UpdateTransferStatus has no guard of its own against settling twice.    *)
SettledAtMostOnce == simulations = 0 => \A id \in Ids : settlements[id] <= 1

(* As long as no outcome was forced a recorded transfer only moves         *)
(* forward: pending, posted, settled; failed and settled ones never        *)
(* change.  A reset may remove it.                                         *)
ForwardOnly ==
  [][simulations' = 0 => \A id \in Ids :
        LET old == transfers[id].status
            new == transfers'[id].status
        IN  \/ old = new
            \/ old = "none"
            \/ new = "none"
            \/ old = "pending" /\ new = "posted"
            \/ old = "posted" /\ new = "settled"]_vars

(* Every accepted transfer clears, unless it is returned by force or the   *)
(* ledger is reset: the ticks visit each open transfer often enough,       *)
(* whatever clients and forced outcomes do meanwhile.                      *)
AcceptedClears ==
  \A id \in Ids : (transfers[id].status = "pending")
                     ~> (transfers[id].status \in {"settled", "returned", "none"})

(* UpdateTransferStatus moves money between two accounts and never makes   *)
(* any: the current balances of all accounts together stay what Seed       *)
(* wrote, through double settlements, late returns and resets in mid-tick, *)
(* and also when the custody account itself is the transfer's account.     *)
FundsConserved == SumOver(current, Accounts) = SumOver(SeedCurrent, Accounts)

(* What the transfer in a slot holds of an account's available balance. *)
Hold(id, a) ==
  IF /\ transfers[id].account = a
     /\ transfers[id].direction = "debit"
     /\ transfers[id].status \in Open
    THEN transfers[id].amount ELSE 0

HeldBy(a) == SumOver([id \in Ids |-> Hold(id, a)], Ids)

(* While no outcome was forced the gap between the two balances of an      *)
(* account is exactly what Seed left plus the debits still open: every     *)
(* hold CreateTransfer took becomes a withdrawal exactly once.             *)
HoldsAccountForGap ==
  simulations = 0 => \A a \in Accounts :
    current[a] - available[a] = (SeedCurrent[a] - SeedAvailable[a]) + HeldBy(a)

(* Both: no money is made, and what is held is what is still open. *)
MoneyAccounted == FundsConserved /\ HoldsAccountForGap

-----------------------------------------------------------------------------
(* The clearing house behind the ledger: a posted transfer is still open,  *)
(* and a slot that was used and is blank was emptied by a reset.           *)
FateOf(id) ==
  LET st == transfers[id].status IN
  IF st \in Open THEN "open"
  ELSE IF st = "failed" THEN "refused"
  ELSE IF st = "settled" THEN "cleared"
  ELSE IF st = "returned" THEN "returned"
  ELSE IF id < nextID THEN "gone" ELSE "unused"

OrderOf(id) == [account |-> transfers[id].account, amount |-> transfers[id].amount,
                direction |-> transfers[id].direction]

House == INSTANCE ClearingHouse WITH
  SeedBook <- SeedCurrent, Slots <- Ids,
  order <- [id \in Ids |-> OrderOf(id)], fate <- [id \in Ids |-> FateOf(id)],
  book <- current, overrides <- simulations

(* Ticks, copies, holds and posting are invisible to the clients of the    *)
(* bank: until an outcome is forced the ledger does what a clearing house  *)
(* does in single steps.  A tick that runs through a reset neither clears  *)
(* nor revives the transfers it has copies of.                             *)
ClearsAsPromised == House!HouseSpec
=============================================================================
