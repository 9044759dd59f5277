--------------------------- MODULE ClearingHouse ----------------------------
(***************************************************************************)
(* What a clearing bank promises its clients, without the engine, the      *)
(* holds, the copies and the clock of BankLedger: an order is taken or     *)
(* refused, it clears at most once and then by exactly its amount, and the *)
(* books change in no other way than by clearing or by a reset, which      *)
(* forgets every order for good.  The promise ends when somebody forces    *)
(* the outcome of an order by hand.                                        *)
(***************************************************************************)
EXTENDS Integers

CONSTANTS Accounts, Custody, SeedBook, Slots

VARIABLES order,      \* account, amount and direction of each order
          fate,
          book,       \* the balance of every account
          overrides   \* outcomes forced by hand so far

houseVars == <<order, fate, book, overrides>>

Blank == [account |-> Custody, amount |-> 0, direction |-> "debit"]

HouseInit ==
  /\ order = [s \in Slots |-> Blank]
  /\ fate = [s \in Slots |-> "unused"]
  /\ book = SeedBook
  /\ overrides = 0

(* What account a gains when o clears. *)
Effect(o, a) ==
  LET paid == IF o.direction = "debit" THEN -o.amount
              ELSE IF o.direction = "credit" THEN o.amount
              ELSE 0
  IN  (IF a = o.account THEN paid ELSE 0) - (IF a = Custody THEN paid ELSE 0)

Take(s) ==
  /\ fate[s] = "unused"
  /\ \E f \in {"open", "refused"} : fate' = [fate EXCEPT ![s] = f]
  /\ order' = [order EXCEPT ![s] = order'[s]]
  /\ order'[s].amount > 0
  /\ UNCHANGED <<book, overrides>>

Clear(s) ==
  /\ fate[s] = "open"
  /\ fate' = [fate EXCEPT ![s] = "cleared"]
  /\ book' = [a \in Accounts |-> book[a] + Effect(order[s], a)]
  /\ UNCHANGED <<order, overrides>>

Wipe ==
  /\ fate' = [s \in Slots |-> IF fate[s] = "unused" THEN "unused" ELSE "gone"]
  /\ order' = [s \in Slots |-> Blank]
  /\ book' = SeedBook
  /\ UNCHANGED overrides

(* The first override, or anything after it. *)
Override == overrides' > 0

HouseNext ==
  \/ \E s \in Slots : Take(s) \/ Clear(s)
  \/ Wipe
  \/ Override

HouseSpec == HouseInit /\ [][HouseNext]_houseVars
=============================================================================
