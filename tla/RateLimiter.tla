---------------------------- MODULE RateLimiter -----------------------------
(* The sliding-window limiter of the portals for one key (a login address, *)
(* a customer's orders): a sorted set in Valkey shared by all pods and     *)
(* scored with the clock of the pod that asks, and a list in each pod for  *)
(* when Valkey does not answer.                                            *)
EXTENDS Integers, FiniteSets

CONSTANTS Pods,
          Skew,        \* Pods -> how far each pod's clock runs ahead
          MaxSkew,
          Limit, Window,
          MaxAdmitted  \* how many requests are admitted

ASSUME LimitAssumption ==
    /\ MaxSkew \in Nat /\ Skew \in [Pods -> 0..MaxSkew] 
    /\ Pods # {} /\ "valkey" \notin Pods
    /\ Limit \in Nat /\ Window \in Nat \ {0} /\ MaxAdmitted \in Nat

(* Admitted requests are numbered.  A timestamp is known by its request,   *)
(* and kept as the time that passed since.                                 *)
VARIABLES
    granted,   \* how many requests were admitted
    since,     \* how long ago each was admitted
    clock,     \* the pod that admitted it, whose clock made its timestamp
    window,    \* the members of the sorted set
    idle,      \* time since the set's expiry was renewed
    memLimits, \* the timestamps in each pod's own list
    admitted   \* by what each request was admitted

limitVars == <<granted, since, clock, window, idle, memLimits, admitted>>

Numbered == 1..MaxAdmitted
Limiters == Pods \cup {"valkey"}
expireSec == Window + 1

(* Older than any pod looks back. *)
Oldest == Window + MaxSkew

LimitTypes ==
    /\ granted \in 0..MaxAdmitted
    /\ since \in [Numbered -> 0..Oldest]
    /\ clock \in [Numbered -> Pods]
    /\ window \subseteq 1..granted /\ Cardinality(window) <= Limit
    /\ idle \in 0..Window
    /\ memLimits \in [Pods -> SUBSET (1..granted)]
    /\ \A p \in Pods : Cardinality(memLimits[p]) <= Limit
    /\ admitted \in [Limiters -> SUBSET (1..granted)]

LimitInit ==
    /\ granted = 0 /\ since = [r \in Numbered |-> 0]
    /\ clock = [r \in Numbered |-> CHOOSE p \in Pods : TRUE]
    /\ window = {} /\ idle = 0
    /\ memLimits = [p \in Pods |-> {}]
    /\ admitted = [b \in Limiters |-> {}]

(* What pod p leaves of the timestamps in log: those after its clock less  *)
(* the window.                                                             *)
Valid(log, p) == {r \in log : since[r] + Skew[p] - Skew[clock[r]] < Window}

(* The next request is admitted by b, with the time of pod p. *)
Stamped(p, b) ==
    /\ granted < MaxAdmitted
    /\ granted' = granted + 1
    /\ clock' = [clock EXCEPT ![granted + 1] = p]
    /\ admitted' = [admitted EXCEPT ![b] = @ \cup {granted + 1}]
    /\ UNCHANGED since
NotStamped == UNCHANGED <<granted, clock, admitted, since>>

(* Mutant: the request that fills the window is not counted. *)
SlidingWindowOneMore(p) ==
    LET pruned == Valid(window, p) IN
    /\ \/ /\ Cardinality(pruned) > Limit
          /\ window' = pruned
          /\ UNCHANGED idle /\ NotStamped
       \/ /\ Cardinality(pruned) <= Limit
          /\ window' = pruned \cup {granted + 1}
          /\ idle' = 0 /\ Stamped(p, "valkey")
    /\ UNCHANGED memLimits

(* The script: prune, count, admit, all in one command of the server; the  *)
(* expiry of the set is renewed by an admission only.                      *)
SlidingWindow(p) ==
    LET pruned == Valid(window, p) IN
    /\ \/ /\ Cardinality(pruned) >= Limit
          /\ window' = pruned
          /\ UNCHANGED idle /\ NotStamped
       \/ /\ Cardinality(pruned) < Limit
          /\ window' = pruned \cup {granted + 1}
          /\ idle' = 0 /\ Stamped(p, "valkey")
    /\ UNCHANGED memLimits

(* allowMemory, under the pod's lock. *)
AllowMemory(p) ==
    LET valid == Valid(memLimits[p], p) IN
    /\ \/ /\ Cardinality(valid) >= Limit
          /\ memLimits' = [memLimits EXCEPT ![p] = valid]
          /\ NotStamped
       \/ /\ Cardinality(valid) < Limit
          /\ memLimits' = [memLimits EXCEPT ![p] = valid \cup {granted + 1}]
          /\ Stamped(p, p)
    /\ UNCHANGED <<window, idle>>

(* Allow: the script, or the pod's own list when it fails. *)
Allow(p) == SlidingWindow(p) \/ AllowMemory(p)

(* Time passes. *)
LimitTick ==
    /\ LET dropped == idle + 1 >= expireSec IN
       /\ window' = IF dropped THEN {} ELSE window
       /\ idle' = IF dropped THEN 0 ELSE idle + 1
    /\ since' = [r \in Numbered |-> IF r <= granted /\ since[r] < Oldest THEN since[r] + 1 ELSE since[r]]
    /\ UNCHANGED <<granted, clock, memLimits, admitted>>

LimitNext == (\E p \in Pods : Allow(p)) \/ LimitTick

LimitSpec == LimitInit /\ [][LimitNext]_limitVars

-----------------------------------------------------------------------------
Within(b, width) == Cardinality({r \in admitted[b] : since[r] < width})

(* Whatever the pods' clocks, the shared set admits at most Limit requests *)
(* in any stretch of Window less the largest skew, and each pod's own list *)
(* at most Limit in a full window: an outage multiplies the limit by the   *)
(* number of pods plus one and never lifts it (slidingWindowLuaScript,     *)
(* allowMemory).                                                           *)
WindowHeld ==
    /\ LimitTypes
    /\ Within("valkey", Window - MaxSkew) <= Limit
    /\ \A p \in Pods : Within(p, Window) <= Limit
=============================================================================
