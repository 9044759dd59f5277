--------------------------- MODULE PortfolioCache ---------------------------
(* The portfolio answers the customer portal keeps in its query cache, and *)
(* what evicts them: the order handler, the deposit and closure handlers,  *)
(* the listener of order events, and the time to live.  The cache is the   *)
(* shared Valkey server or, when that cannot be reached at start, a map in *)
(* the process; the listener opens a cache of its own, so in the second    *)
(* case it evicts from a map nobody reads.                                 *)
EXTENDS Sums

CONSTANTS Customers, Portfolios, NoPortfolio, Readers,
          Extends(_, _),      \* is the second customer's id an extension of the first's?
          TTLPortfolioValuation,
          MaxChanges          \* bound on the changes of the books

VARIABLES
    mode,     \* "valkey" or "memory": what NewCache returned
    truth,    \* version of each customer's books at broker and core-invest
    entries,  \* the cache: Keys -> an entry, or None
    readers,  \* the requests for a portfolio under way
    owed,     \* order handlers that got their answer and have not evicted yet
    events    \* order_placed events waiting in the listener's queue

cacheVars == <<mode, truth, entries, readers, owed, events>>

Zero == -1                  \* the empty portfolio answered when both backends fail
Keys == [cust: Customers, port: Portfolios \cup {NoPortfolio}]
None == [val |-> Zero, left |-> 0, why |-> {}]
Idle == [pc |-> "idle"]
Live(k) == entries[k].left > 0

(* why records how a stale entry came to stay: filled from a read that was *)
(* already out of date, filled while the backends were down, a change that *)
(* evicts another key, an eviction that failed.                            *)
Reasons == {"raced", "outage", "silent", "lost"}
Entry == [val: {Zero} \cup (0..MaxChanges), left: 0..TTLPortfolioValuation,
          why: SUBSET Reasons]

TypeOK ==
    /\ mode \in {"valkey", "memory"}
    /\ truth \in [Customers -> 0..MaxChanges]
    /\ entries \in [Keys -> Entry]
    /\ readers \in [Readers -> {Idle}
                               \cup [pc: {"read"}, key: Keys]
                               \cup [pc: {"fill"}, key: Keys, val: {Zero} \cup (0..MaxChanges)]]
    /\ owed \in [Customers -> 0..MaxChanges]
    /\ events \in [Customers -> 0..MaxChanges]

(* KeyPortfolioWithID: without a portfolio it is the customer's own key. *)
KeyPortfolioWithID(c, p) == [cust |-> c, port |-> p]
KeyPortfolio(c) == KeyPortfolioWithID(c, NoPortfolio)

NewCache == mode \in {"valkey", "memory"}

CacheInit ==
    /\ NewCache
    /\ truth = [c \in Customers |-> 0]
    /\ entries = [k \in Keys |-> None]
    /\ readers = [r \in Readers |-> Idle]
    /\ owed = [c \in Customers |-> 0]
    /\ events = [c \in Customers |-> 0]

MoreChanges == SumOver(truth, Customers) < MaxChanges

(* A command to Valkey may fail; the map in the process always answers. *)
Outcomes == IF mode = "valkey" THEN {TRUE, FALSE} ELSE {TRUE}

(* SetRaw stores the value and its deadline. *)
SetRaw(k, v, ttl, why) == [entries EXCEPT ![k] = [val |-> v, left |-> ttl, why |-> why]]

(* The entries after the keys in gone were deleted, and those in kept that *)
(* a failed command should have deleted were marked.                       *)
Deleted(gone, kept) ==
    [k \in Keys |-> IF k \in gone THEN None
                    ELSE IF k \in kept /\ Live(k)
                         THEN [entries[k] EXCEPT !.why = @ \cup {"lost"}]
                         ELSE entries[k]]

(* Delete of a list of keys: one command, done or failed.  DeletePrefix    *)
(* scans and deletes page by page: when it fails part of the keys is gone. *)
DeleteKeys(keys, ok) == IF ok THEN keys ELSE {}
DeletePrefix(keys, ok) == IF ok THEN {keys} ELSE SUBSET keys
PrefixWithoutColon(c) == {k \in Keys : k.cust = c \/ Extends(c, k.cust)}
PrefixWithColon(c) == {k \in Keys : k.cust = c /\ k.port # NoPortfolio}

(* handleGetPortfolio, the cache hit: answered from the entry, an expired  *)
(* one counts as absent.  A failed Get is a miss.                          *)
GetPortfolio(r, c, p) ==
    /\ readers[r] = Idle
    /\ \E ok \in Outcomes :
          LET k == KeyPortfolioWithID(c, p) IN
          readers' = IF ok /\ Live(k) THEN readers
                     ELSE [readers EXCEPT ![r] = [pc |-> "read", key |-> k]]
    /\ UNCHANGED <<mode, truth, entries, owed, events>>

(* customer-bll's GetPortfolio: broker and positions, else core-invest,     *)
(* else a portfolio of zeroes that looks like any other answer.            *)
ReadPortfolio(r) ==
    /\ readers[r].pc = "read"
    /\ \E v \in {truth[readers[r].key.cust], Zero} :
          readers' = [readers EXCEPT ![r] = [pc |-> "fill", key |-> readers[r].key, val |-> v]]
    /\ UNCHANGED <<mode, truth, entries, owed, events>>

(* The call to customer-bll itself failed: 404, nothing is cached. *)
ReadFailed(r) ==
    /\ readers[r].pc = "read"
    /\ readers' = [readers EXCEPT ![r] = Idle]
    /\ UNCHANGED <<mode, truth, entries, owed, events>>

(* The answer is cached as it was read, whatever happened since. *)
FillPortfolio(r) ==
    /\ readers[r].pc = "fill"
    /\ \E ok \in Outcomes :
          LET k == readers[r].key
              v == readers[r].val
              why == IF v = Zero THEN {"outage"}
                     ELSE IF v # truth[k.cust] THEN {"raced"} ELSE {}
          IN entries' = IF ok THEN SetRaw(k, v, TTLPortfolioValuation, why) ELSE entries
    /\ readers' = [readers EXCEPT ![r] = Idle]
    /\ UNCHANGED <<mode, truth, owed, events>>

(* handleCreateOrder up to the answer of customer-bll, which changes the   *)
(* books and publishes order_placed, the latter at best effort.            *)
CreateOrder(c) ==
    /\ MoreChanges
    /\ truth' = [truth EXCEPT ![c] = @ + 1]
    /\ owed' = [owed EXCEPT ![c] = @ + 1]
    /\ \E n \in {0, 1} : events' = [events EXCEPT ![c] = @ + n]
    /\ UNCHANGED <<mode, entries, readers>>

(* Mutant: only the key without a portfolio is evicted. *)
EvictOwnKeyOnly(c) ==
    /\ owed[c] > 0
    /\ \E ok \in Outcomes : entries' = Deleted(DeleteKeys({KeyPortfolio(c)}, ok), {})
    /\ owed' = [owed EXCEPT ![c] = @ - 1]
    /\ UNCHANGED <<mode, truth, readers, events>>

(* ... and its eviction: the customer's two keys, then everything that     *)
(* begins with the customer's id.                                          *)
EvictAfterOrder(c) ==
    /\ owed[c] > 0
    /\ \E ok1, ok2 \in Outcomes :
          \E gone \in DeletePrefix(PrefixWithoutColon(c), ok2) :
             LET all == gone \cup DeleteKeys({KeyPortfolio(c)}, ok1)
             IN entries' = Deleted(all, {k \in Keys : k.cust = c} \ all)
    /\ owed' = [owed EXCEPT ![c] = @ - 1]
    /\ UNCHANGED <<mode, truth, readers, events>>

(* A change whose handler evicts only KeyPortfolio(c), a key no reader     *)
(* fills: every entry of the customer keeps the old value.                 *)
SilentChange(c) ==
    /\ MoreChanges
    /\ truth' = [truth EXCEPT ![c] = @ + 1]
    /\ \E ok \in Outcomes :
          LET after == Deleted(DeleteKeys({KeyPortfolio(c)}, ok), {})
          IN entries' = [k \in Keys |-> IF k.cust = c /\ after[k].left > 0
                                        THEN [after[k] EXCEPT !.why = @ \cup {"silent"}]
                                        ELSE after[k]]
    /\ UNCHANGED <<mode, readers, owed, events>>

CreateDeposit(c) == SilentChange(c)
CloseAccount(c) == SilentChange(c)

(* handleMessage for order_placed: the customer's keys, then those with a  *)
(* portfolio.  consumeTopic acknowledges whatever happened.  The portal's  *)
(* entries are reached only when both share the Valkey server.             *)
ConsumeOrderPlaced(c) ==
    /\ events[c] > 0
    /\ events' = [events EXCEPT ![c] = @ - 1]
    /\ IF mode = "memory" THEN entries' = entries
       ELSE \E ok1, ok2 \in Outcomes :
              \E gone \in DeletePrefix(PrefixWithColon(c), ok2) :
                 LET all == gone \cup DeleteKeys({KeyPortfolio(c)}, ok1)
                 IN entries' = Deleted(all, {k \in Keys : k.cust = c} \ all)
    /\ UNCHANGED <<mode, truth, readers, owed>>

(* The portal's process ends: its requests, the evictions its handlers     *)
(* owed and the map in memory go with it.                                  *)
Restart ==
    /\ readers' = [r \in Readers |-> Idle]
    /\ owed' = [c \in Customers |-> 0]
    /\ entries' = IF mode = "memory" THEN [k \in Keys |-> None]
                  ELSE [k \in Keys |-> IF owed[k.cust] > 0 /\ events[k.cust] = 0 /\ Live(k)
                                       THEN [entries[k] EXCEPT !.why = @ \cup {"lost"}]
                                       ELSE entries[k]]
    /\ UNCHANGED <<mode, truth, events>>

(* Time passes: an entry whose time to live is over is gone. *)
CacheTick ==
    /\ \E k \in Keys : Live(k)
    /\ entries' = [k \in Keys |-> IF entries[k].left <= 1 THEN None
                                  ELSE [entries[k] EXCEPT !.left = @ - 1]]
    /\ UNCHANGED <<mode, truth, readers, owed, events>>

CacheNext ==
    \/ \E r \in Readers : \/ \E c \in Customers, p \in Portfolios : GetPortfolio(r, c, p)
                          \/ ReadPortfolio(r)
                          \/ ReadFailed(r)
                          \/ FillPortfolio(r)
    \/ \E c \in Customers : \/ CreateOrder(c)
                            \/ EvictAfterOrder(c)
                            \/ CreateDeposit(c)
                            \/ CloseAccount(c)
                            \/ ConsumeOrderPlaced(c)
    \/ Restart
    \/ CacheTick

CacheSpec == CacheInit /\ [][CacheNext]_cacheVars

-----------------------------------------------------------------------------
(* A cached portfolio differs from the customer's books only while an      *)
(* order's eviction is still owed (by its handler, or by an event of a     *)
(* shared cache), or for one of the four reasons the code accepts: no      *)
(* interleaving of reads, orders and events leaves a stale entry that      *)
(* every eviction was done for (handleGetPortfolio, handleCreateOrder,     *)
(* handleMessage).                                                         *)
StaleExplained ==
    \A k \in Keys : Live(k) /\ entries[k].val # truth[k.cust] =>
        \/ entries[k].why # {}
        \/ owed[k.cust] > 0
        \/ mode = "valkey" /\ events[k.cust] > 0
=============================================================================
