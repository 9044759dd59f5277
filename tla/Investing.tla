------------------------------ MODULE Investing ------------------------------
(* A customer's orders, the cached portfolio they make stale, and the      *)
(* cached page about the cats that place them.  The three share no state,  *)
(* so a behaviour moves one of them, chosen at the start.                  *)
EXTENDS OrderExecution, Integers, FiniteSets

CONSTANTS Customers, Portfolios, NoPortfolio, Readers, Extends(_, _),
          TTLPortfolioValuation, MaxChanges,             \* of PortfolioCache
          Cats, Viewers, ListTTL, PageTTL, MaxSlow, MaxEvents   \* of Transparency

ASSUME InvestingAssumption ==
    /\ IsFiniteSet(Customers)
    /\ NoPortfolio \notin Portfolios
    /\ TTLPortfolioValuation \in Nat /\ MaxChanges \in Nat
    /\ "nobody" \notin Viewers
    /\ ListTTL \in Nat \ {0} /\ PageTTL \in Nat \ {0}
    /\ MaxSlow \in Nat /\ MaxEvents \in Nat

VARIABLES part, mode, truth, entries, readers, owed, events,
          active, visits, incidents, lists, holder, viewer, welfare, happened

cacheVars == <<mode, truth, entries, readers, owed, events>>
pageVars == <<active, visits, incidents, lists, holder, viewer, welfare, happened>>
investingVars == <<part, vars, cacheVars, pageVars>>

Cache == INSTANCE PortfolioCache
Page == INSTANCE Transparency

(* The holds and the kind of cache matter to one part each. *)
InvestingInit ==
    /\ part \in {"orders", "cache", "page"}
    /\ Init /\ Cache!CacheInit /\ Page!PageInit
    /\ part # "orders" => \A f \in Felines : ~hold[f]
    /\ part # "cache" => mode = "memory"

Moves(p) == part = p /\ UNCHANGED part
InvestingNext ==
    \/ Moves("orders") /\ Next /\ UNCHANGED <<cacheVars, pageVars>>
    \/ Moves("cache") /\ Cache!CacheNext /\ UNCHANGED <<vars, pageVars>>
    \/ Moves("page") /\ Page!PageNext /\ UNCHANGED <<vars, cacheVars>>

InvestingSpec == InvestingInit /\ [][InvestingNext]_investingVars

(* The fairness of the orders: see OrderExecution. *)
FairInvestingSpec ==
    InvestingSpec /\ \A s \in Slots : WF_vars(ValidateAndExecuteOrder(s))

(* See PortfolioCache and Transparency: a stale cached portfolio is owed   *)
(* an eviction or has one of the four accepted reasons, and a stale page   *)
(* about the cats is no older than its two layers of caches allow, or      *)
(* comes from a call that failed.                                          *)
StaleExplained ==
    /\ Cache!TypeOK /\ Cache!StaleExplained
    /\ Page!WelfareExplained
=============================================================================
