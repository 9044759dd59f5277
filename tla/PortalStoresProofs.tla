------------------------- MODULE PortalStoresProofs -------------------------
(***************************************************************************)
(* Theorems about the stores behind the portals: SessionStore for every    *)
(* set of users and tokens and every pair of lifetimes of which the        *)
(* index's is the longer, RateLimiter for every set of pods, every limit,  *)
(* window and bound on the skew of the clocks, Sagas for every set of      *)
(* people and cats, every way of deriving user names and any number of     *)
(* calls under way, and PortalAccess for every set of pages and any number *)
(* of logins, requests and mishaps.                                        *)
(***************************************************************************)
EXTENDS SessionStore, RateLimiter, Sagas, PortalAccess, FiniteSetTheorems, TLAPS

(* A token is drawn once: one that is indexed, listed, found stale, leaving *)
(* or revoked was logged in with, and one that was used has an owner.       *)
UsedTokens ==
  /\ \A t \in Tokens : login[t] # "unused" => owner[t] \in Users
  /\ \A t \in live : login[t] # "unused"
  /\ \A t \in Tokens : logout[t] # "none" => login[t] = "acked"
  /\ \A u \in Users : \A t \in index[u] \cup listed[u] \cup stale[u] : login[t] = "acked"
  /\ \A t \in revoked : login[t] = "acked"

(* A prune takes out dead tokens only, and a logout deletes the key before *)
(* it takes the token out of the index.                                    *)
GoneBeforeUnindexed ==
  /\ \A u \in Users : stale[u] \cap live = {}
  /\ \A t \in Tokens : logout[t] \in {"unindex", "erasing", "purge", "done", "erased"} => t \notin live

(* The index of a user is younger than every session it must know of. *)
IndexOutlives ==
  \A t \in live : /\ age[t] < SessionTTL
                  /\ login[t] = "acked" => indexAge[owner[t]] <= age[t]

SessionInv ==
  /\ TypeOK /\ UsedTokens /\ GoneBeforeUnindexed /\ IndexOutlives
  /\ IndexCoversLive /\ RevokedStaysDead

USE SessionAssumption

(* The empty store satisfies the invariant. *)
LEMMA SessionInitial == Init => SessionInv
BY DEF Init, SessionInv, TypeOK, UsedTokens, GoneBeforeUnindexed, IndexOutlives,
       IndexCoversLive, RevokedStaysDead, LogoutSteps

(* Login: the key of a fresh token is set, ... *)
LEMMA SetSessionKeyKeeps ==
  ASSUME SessionInv, NEW u \in Users, NEW t \in Tokens, SetSessionKey(u, t)
  PROVE  SessionInv'
<1> USE DEF SessionInv, SetSessionKey, indexVars, logoutVars, pruneVars
<1>1. /\ t \notin live /\ logout[t] = "none" /\ t \notin revoked
      /\ \A v \in Users : t \notin index[v] \cup listed[v] \cup stale[v]
  BY DEF UsedTokens, TypeOK
<1>2. /\ login'[t] = "set" /\ owner'[t] = u /\ age'[t] = 0
      /\ \A s \in Tokens \ {t} : login'[s] = login[s] /\ owner'[s] = owner[s] /\ age'[s] = age[s]
  BY DEF TypeOK
<1>3. TypeOK'
  BY <1>1, <1>2 DEF TypeOK
<1>4. UsedTokens'
  BY <1>1, <1>2 DEF UsedTokens, TypeOK
<1>5. GoneBeforeUnindexed'
  BY <1>1, <1>2 DEF GoneBeforeUnindexed, TypeOK
<1>6. IndexOutlives'
  BY <1>1, <1>2 DEF IndexOutlives, TypeOK
<1>7. IndexCoversLive' /\ RevokedStaysDead'
  BY <1>1, <1>2 DEF IndexCoversLive, RevokedStaysDead, TypeOK
<1> QED
  BY <1>3, <1>4, <1>5, <1>6, <1>7

(* ... the token is indexed and the index renewed, ... *)
LEMMA SetSessionIndexKeeps ==
  ASSUME SessionInv, NEW t \in Tokens, SetSessionIndex(t)
  PROVE  SessionInv'
<1> USE DEF SessionInv, SetSessionIndex, keyVars, logoutVars, pruneVars
<1> DEFINE u == owner[t]
<1>1. u \in Users /\ logout[t] = "none"
  BY DEF UsedTokens
<1>2. /\ login'[t] = "acked" /\ index'[u] = index[u] \cup {t} /\ indexAge'[u] = 0
      /\ \A s \in Tokens \ {t} : login'[s] = login[s]
      /\ \A v \in Users \ {u} : index'[v] = index[v] /\ indexAge'[v] = indexAge[v]
  BY <1>1 DEF TypeOK
<1>3. TypeOK'
  BY <1>1, <1>2 DEF TypeOK
<1>4. UsedTokens'
  BY <1>1, <1>2 DEF UsedTokens, TypeOK
<1>5. GoneBeforeUnindexed'
  BY DEF GoneBeforeUnindexed
<1>6. IndexOutlives'
  <2>1. \A s \in Tokens : age[s] \in Nat
    BY DEF TypeOK
  <2>2. \A s \in live \ {t} : login[s] = "acked" => owner[s] \in Users
    BY DEF UsedTokens, TypeOK
  <2> QED
    BY <1>1, <1>2, <2>1, <2>2 DEF IndexOutlives, TypeOK
<1>7. IndexCoversLive' /\ RevokedStaysDead'
  BY <1>1, <1>2 DEF IndexCoversLive, RevokedStaysDead, TypeOK, UsedTokens
<1> QED
  BY <1>3, <1>4, <1>5, <1>6, <1>7

(* ... or the pipeline breaks and nobody gets the token. *)
LEMMA SetSessionFailsKeeps ==
  ASSUME SessionInv, NEW t \in Tokens, SetSessionFails(t)
  PROVE  SessionInv'
<1> USE DEF SessionInv, SetSessionFails, keyVars, indexVars, logoutVars, pruneVars
<1>1. /\ login'[t] = "failed" /\ login[t] = "set"
      /\ \A s \in Tokens \ {t} : login'[s] = login[s]
  BY DEF TypeOK
<1>2. TypeOK'
  BY DEF TypeOK
<1>3. UsedTokens'
  BY <1>1 DEF UsedTokens, TypeOK
<1>4. GoneBeforeUnindexed' /\ IndexOutlives' /\ IndexCoversLive' /\ RevokedStaysDead'
  BY <1>1 DEF GoneBeforeUnindexed, IndexOutlives, IndexCoversLive, RevokedStaysDead, TypeOK
<1> QED
  BY <1>2, <1>3, <1>4

(* Leaving: a logout or an erasure begins, ... *)
LEMMA LeaveKeeps ==
  ASSUME SessionInv, NEW t \in Tokens, (\E all \in BOOLEAN : Logout(t, all)) \/ Erase(t)
  PROVE  SessionInv'
<1>1. /\ login[t] = "acked" /\ logout[t] = "none"
      /\ \E step \in {"delete", "erase"} : logout' = [logout EXCEPT ![t] = step]
      /\ UNCHANGED <<loginVars, keyVars, indexVars, pruneVars, revoked>>
  BY DEF Logout, Erase
<1>2. /\ logout'[t] \in {"delete", "erase"}
      /\ \A s \in Tokens \ {t} : logout'[s] = logout[s]
      /\ logout' \in [Tokens -> LogoutSteps]
  BY <1>1 DEF SessionInv, TypeOK, LogoutSteps
<1>3. purgeAll' \in [Tokens -> BOOLEAN] /\ erased' \subseteq Tokens
  BY DEF Logout, Erase, SessionInv, TypeOK
<1> USE DEF SessionInv, loginVars, keyVars, indexVars, pruneVars
<1>4. TypeOK'
  BY <1>1, <1>2, <1>3 DEF TypeOK
<1>5. UsedTokens'
  BY <1>1, <1>2 DEF UsedTokens
<1>6. GoneBeforeUnindexed' /\ IndexOutlives' /\ IndexCoversLive' /\ RevokedStaysDead'
  BY <1>1, <1>2 DEF GoneBeforeUnindexed, IndexOutlives, IndexCoversLive, RevokedStaysDead, TypeOK
<1> QED
  BY <1>4, <1>5, <1>6

(* ... the key is deleted, ... *)
LEMMA DeleteKeyKeeps ==
  ASSUME SessionInv, NEW t \in Tokens, DeleteKey(t)
  PROVE  SessionInv'
<1> USE DEF SessionInv, DeleteKey, loginVars, indexVars, pruneVars
<1>1. login[t] = "acked"
  BY DEF UsedTokens
<1>2. /\ logout'[t] \in {"unindex", "erasing"}
      /\ \A s \in Tokens \ {t} : logout'[s] = logout[s]
      /\ logout' \in [Tokens -> LogoutSteps]
  BY DEF TypeOK, LogoutSteps
<1>3. TypeOK'
  BY <1>2 DEF TypeOK
<1>4. UsedTokens'
  BY <1>1, <1>2 DEF UsedTokens
<1>5. GoneBeforeUnindexed' /\ IndexOutlives' /\ IndexCoversLive' /\ RevokedStaysDead'
  BY <1>2 DEF GoneBeforeUnindexed, IndexOutlives, IndexCoversLive, RevokedStaysDead, TypeOK
<1> QED
  BY <1>3, <1>4, <1>5

(* ... the token is taken out of the index, ... *)
LEMMA DeleteIndexKeeps ==
  ASSUME SessionInv, NEW t \in Tokens, DeleteIndex(t)
  PROVE  SessionInv'
<1> USE DEF SessionInv, DeleteIndex, loginVars, keyVars, pruneVars
<1> DEFINE u == owner[t]
<1>1. login[t] = "acked" /\ u \in Users /\ t \notin live
  BY DEF UsedTokens, GoneBeforeUnindexed
<1>2. /\ logout'[t] \in {"erased", "purge", "done"}
      /\ \A s \in Tokens \ {t} : logout'[s] = logout[s]
      /\ logout' \in [Tokens -> LogoutSteps]
  BY DEF TypeOK, LogoutSteps
<1>3. /\ index'[u] = index[u] \ {t}
      /\ \A v \in Users \ {u} : index'[v] = index[v]
      /\ index' \in [Users -> SUBSET Tokens]
  BY <1>1 DEF TypeOK
<1>4. TypeOK'
  BY <1>2, <1>3 DEF TypeOK
<1>5. UsedTokens'
  BY <1>1, <1>2, <1>3 DEF UsedTokens
<1>6. GoneBeforeUnindexed' /\ IndexOutlives' /\ RevokedStaysDead'
  BY <1>1, <1>2 DEF GoneBeforeUnindexed, IndexOutlives, RevokedStaysDead
<1>7. IndexCoversLive'
  BY <1>1, <1>2, <1>3 DEF IndexCoversLive, TypeOK, UsedTokens
<1> QED
  BY <1>4, <1>5, <1>6, <1>7

(* ... and the purge script revokes what the index knows. *)
LEMMA PurgeSessionsKeeps ==
  ASSUME SessionInv, NEW t \in Tokens, PurgeSessions(t)
  PROVE  SessionInv'
<1> USE DEF SessionInv, PurgeSessions, loginVars, pruneVars
<1> DEFINE u == owner[t]
<1>1. login[t] = "acked" /\ u \in Users /\ t \notin live
  BY DEF UsedTokens, GoneBeforeUnindexed
<1>2. /\ logout'[t] = "done"
      /\ \A s \in Tokens \ {t} : logout'[s] = logout[s]
      /\ logout' \in [Tokens -> LogoutSteps]
  BY DEF TypeOK, LogoutSteps
<1>3. /\ index'[u] = {}
      /\ \A v \in Users \ {u} : index'[v] = index[v]
      /\ index' \in [Users -> SUBSET Tokens]
  BY <1>1 DEF TypeOK
<1>4. live' = live \ index[u]
  OBVIOUS
<1>5. TypeOK'
  BY <1>2, <1>3, <1>4 DEF TypeOK
<1>6. UsedTokens'
  BY <1>1, <1>2, <1>3, <1>4 DEF UsedTokens
<1>7. GoneBeforeUnindexed' /\ IndexOutlives'
  BY <1>1, <1>2, <1>4 DEF GoneBeforeUnindexed, IndexOutlives
<1>8. \A s \in live : owner[s] = u /\ login[s] = "acked" => s \in index[u]
  BY DEF IndexCoversLive, GoneBeforeUnindexed, TypeOK
<1>9. RevokedStaysDead'
  BY <1>4, <1>8 DEF RevokedStaysDead
<1>10. IndexCoversLive'
  BY <1>1, <1>2, <1>3, <1>4, <1>8 DEF IndexCoversLive, TypeOK, UsedTokens
<1> QED
  BY <1>5, <1>6, <1>7, <1>9, <1>10

(* Pruning removes only what was dead when it looked, and a dead token     *)
(* stays dead.                                                             *)
LEMMA PruneKeeps ==
  ASSUME SessionInv, NEW u \in Users, PruneList(u) \/ PruneFetch(u) \/ PruneRemove(u)
  PROVE  SessionInv'
<1>1. UNCHANGED <<loginVars, keyVars, indexAge, logoutVars, revoked, erased>>
  BY DEF PruneList, PruneFetch, PruneRemove, indexVars
<1> USE DEF SessionInv, loginVars, keyVars, logoutVars
<1>2. CASE PruneList(u)
  <2>1. /\ index' = index /\ stale' = stale /\ listed' = [listed EXCEPT ![u] = index[u]]
        /\ indexAge' = indexAge /\ pruning' = [pruning EXCEPT ![u] = "listed"]
    BY <1>2 DEF PruneList, indexVars
  <2>2. TypeOK'
    BY <1>1, <2>1 DEF TypeOK
  <2>3. UsedTokens'
    BY <1>1, <2>1 DEF UsedTokens, TypeOK
  <2> QED
    BY <1>1, <2>1, <2>2, <2>3
       DEF GoneBeforeUnindexed, IndexOutlives, IndexCoversLive, RevokedStaysDead
<1>3. CASE PruneFetch(u)
  <2>1. /\ index' = index /\ listed' = listed /\ stale' = [stale EXCEPT ![u] = listed[u] \ live]
        /\ indexAge' = indexAge /\ pruning' = [pruning EXCEPT ![u] = "fetched"]
    BY <1>3 DEF PruneFetch, indexVars
  <2>2. TypeOK'
    BY <1>1, <2>1 DEF TypeOK
  <2>3. UsedTokens' /\ GoneBeforeUnindexed'
    BY <1>1, <2>1 DEF UsedTokens, GoneBeforeUnindexed, TypeOK
  <2> QED
    BY <1>1, <2>1, <2>2, <2>3 DEF IndexOutlives, IndexCoversLive, RevokedStaysDead
<1>4. CASE PruneRemove(u)
  <2>1. /\ index' = [index EXCEPT ![u] = @ \ stale[u]]
        /\ listed' = [listed EXCEPT ![u] = {}] /\ stale' = [stale EXCEPT ![u] = {}]
        /\ indexAge' = indexAge /\ pruning' = [pruning EXCEPT ![u] = "idle"]
    BY <1>4 DEF PruneRemove
  <2>2. TypeOK'
    BY <1>1, <2>1 DEF TypeOK
  <2>3. UsedTokens' /\ GoneBeforeUnindexed'
    BY <1>1, <2>1 DEF UsedTokens, GoneBeforeUnindexed, TypeOK
  <2>4. IndexCoversLive'
    BY <1>1, <2>1 DEF IndexCoversLive, GoneBeforeUnindexed, UsedTokens, TypeOK
  <2> QED
    BY <1>1, <2>1, <2>2, <2>3, <2>4 DEF IndexOutlives, RevokedStaysDead
<1> QED
  BY <1>2, <1>3, <1>4

(* Time: an index goes only when every session it knows of has gone. *)
LEMMA TickKeeps ==
  ASSUME SessionInv, Tick
  PROVE  SessionInv'
<1> USE DEF SessionInv, loginVars, logoutVars, pruneVars
<1>1. /\ age' = [t \in Tokens |-> IF t \in live /\ age[t] + 1 < SessionTTL THEN age[t] + 1 ELSE 0]
      /\ live' = {t \in live : age[t] + 1 < SessionTTL}
      /\ indexAge' = [u \in Users |-> IF index[u] # {} /\ indexAge[u] + 1 < IndexTTL
                                        THEN indexAge[u] + 1 ELSE 0]
      /\ index' = [u \in Users |-> IF indexAge[u] + 1 < IndexTTL THEN index[u] ELSE {}]
      /\ UNCHANGED <<owner, login, logout, purgeAll, pruning, listed, stale, revoked, erased>>
  BY DEF Tick
<1>2. /\ \A t \in Tokens : age[t] \in Nat /\ age[t] <= SessionTTL
      /\ \A u \in Users : indexAge[u] \in Nat /\ indexAge[u] <= IndexTTL
  BY DEF TypeOK
<1>3. age' \in [Tokens -> 0 .. SessionTTL] /\ indexAge' \in [Users -> 0 .. IndexTTL]
  BY <1>1, <1>2
<1>4. live' \subseteq live /\ \A u \in Users : index'[u] \subseteq index[u]
  BY <1>1
<1>5. index' \in [Users -> SUBSET Tokens]
  BY <1>1 DEF TypeOK
<1>6. TypeOK'
  BY <1>1, <1>3, <1>4, <1>5 DEF TypeOK
<1>7. UsedTokens' /\ GoneBeforeUnindexed' /\ RevokedStaysDead'
  BY <1>1, <1>4 DEF UsedTokens, GoneBeforeUnindexed, RevokedStaysDead
<1>8. ASSUME NEW t \in live', login[t] = "acked"
      PROVE  /\ age'[t] < SessionTTL
             /\ indexAge'[owner[t]] <= age'[t]
             /\ index'[owner[t]] = index[owner[t]]
  <2>1. t \in live /\ t \in Tokens /\ age[t] + 1 < SessionTTL /\ owner[t] \in Users
    BY <1>1, <1>8 DEF TypeOK, UsedTokens
  <2>2. indexAge[owner[t]] <= age[t]
    BY <1>8, <2>1 DEF IndexOutlives
  <2>3. age'[t] = age[t] + 1
    BY <1>1, <1>2, <2>1
  <2>4. indexAge'[owner[t]] <= indexAge[owner[t]] + 1
    BY <1>1, <1>2, <2>1
  <2>5. indexAge[owner[t]] + 1 < IndexTTL
    BY <1>2, <2>1, <2>2
  <2>6. indexAge'[owner[t]] \in Nat
    BY <1>3, <2>1
  <2> QED
    BY <1>1, <1>2, <2>1, <2>2, <2>3, <2>4, <2>5, <2>6
<1>9. \A t \in live' : age'[t] < SessionTTL
  BY <1>1, <1>2 DEF TypeOK
<1>10. IndexOutlives'
  BY <1>1, <1>8, <1>9 DEF IndexOutlives
<1>11. IndexCoversLive'
  BY <1>1, <1>4, <1>8 DEF IndexCoversLive
<1> QED
  BY <1>6, <1>7, <1>10, <1>11

(* Every step keeps the invariant. *)
LEMMA SessionInductive == SessionInv /\ [Next]_vars => SessionInv'
<1> SUFFICES ASSUME SessionInv, [Next]_vars
             PROVE  SessionInv'
  OBVIOUS
<1>1. CASE Create
  BY <1>1, SetSessionKeyKeeps, SetSessionIndexKeeps, SetSessionFailsKeeps DEF Create
<1>2. CASE Leave \/ \E t \in Tokens : Erase(t)
  BY <1>2, LeaveKeeps, DeleteKeyKeeps, DeleteIndexKeeps, PurgeSessionsKeeps DEF Leave
<1>3. CASE PruneStaleSessions
  BY <1>3, PruneKeeps DEF PruneStaleSessions
<1>4. CASE Tick
  BY <1>4, TickKeeps
<1>5. CASE UNCHANGED vars
  BY <1>5 DEF vars, loginVars, keyVars, indexVars, logoutVars, pruneVars, SessionInv, TypeOK,
     UsedTokens, GoneBeforeUnindexed, IndexOutlives, IndexCoversLive, RevokedStaysDead
<1> QED
  BY <1>1, <1>2, <1>3, <1>4, <1>5 DEF Next

(* The store of pkg/session/valkey keeps every working session of a user   *)
(* in his index, for any number of devices: a prune that raced a login, an *)
(* expiring index and another device's logout never hide one.              *)
THEOREM SessionsAreIndexed == Spec => []SessionsIndexed
<1>1. SessionInv => SessionsIndexed
  BY DEF SessionInv, SessionsIndexed
<1> QED
  BY <1>1, SessionInitial, SessionInductive, PTL DEF Spec

(* A session that was deleted or purged stays dead, whatever commands of   *)
(* other clients fall between those of the store's pipelines.              *)
THEOREM RevokedAreDead == Spec => []RevokedStaysDead
<1>1. SessionInv => RevokedStaysDead
  BY DEF SessionInv
<1> QED
  BY <1>1, SessionInitial, SessionInductive, PTL DEF Spec

-----------------------------------------------------------------------------
(* A list holds only requests that its limiter admitted, and a pod's own   *)
(* list only timestamps of that pod.                                       *)
LogsAreAdmitted ==
  /\ window \subseteq admitted["valkey"]
  /\ \A p \in Pods : memLimits[p] \subseteq admitted[p]
  /\ \A p \in Pods : \A r \in admitted[p] : clock[r] = p

(* What a pod with any clock must still count is in the list, and the set  *)
(* expires only when its last admission is a window ago.                   *)
RecentAreKept ==
  /\ \A r \in admitted["valkey"] : since[r] < Window - MaxSkew => r \in window
  /\ \A r \in admitted["valkey"] : idle <= since[r]
  /\ \A p \in Pods : \A r \in admitted[p] : since[r] < Window => r \in memLimits[p]

LimitInv == LimitTypes /\ LogsAreAdmitted /\ RecentAreKept

HIDE SessionAssumption
USE LimitAssumption

(* What is left of a list is no longer than the list; with the next        *)
(* request it is one longer.                                               *)
LEMMA ValidIsShorter ==
  ASSUME LimitTypes, NEW log \in SUBSET (1..granted), Cardinality(log) <= Limit, NEW p \in Pods
  PROVE  /\ Valid(log, p) \subseteq log
         /\ Cardinality(Valid(log, p)) \in Nat /\ Cardinality(Valid(log, p)) <= Limit
         /\ Cardinality(Valid(log, p) \cup {granted + 1}) = Cardinality(Valid(log, p)) + 1
<1>1. IsFiniteSet(1..granted)
  BY FS_Interval DEF LimitTypes
<1>2. Valid(log, p) \subseteq log /\ granted + 1 \notin Valid(log, p)
  BY DEF Valid, LimitTypes
<1>3. IsFiniteSet(log)
  BY <1>1, FS_Subset
<1>4. /\ IsFiniteSet(Valid(log, p)) /\ Cardinality(Valid(log, p)) <= Cardinality(log)
  BY <1>2, <1>3, FS_Subset
<1>5. Cardinality(Valid(log, p)) \in Nat /\ Cardinality(log) \in Nat
  BY <1>3, <1>4, FS_CardinalityType
<1>6. Cardinality(Valid(log, p) \cup {granted + 1}) = Cardinality(Valid(log, p)) + 1
  BY <1>2, <1>4, FS_AddElement
<1> QED
  BY <1>2, <1>4, <1>5, <1>6

(* Nothing is admitted yet. *)
LEMMA LimitInitial == LimitInit => LimitInv
<1> SUFFICES ASSUME LimitInit PROVE LimitInv
  OBVIOUS
<1>1. Cardinality({}) = 0
  BY FS_EmptySet
<1>2. (CHOOSE p \in Pods : TRUE) \in Pods
  OBVIOUS
<1>3. LimitTypes
  BY <1>1, <1>2 DEF LimitInit, LimitTypes, Oldest
<1>4. LogsAreAdmitted /\ RecentAreKept
  BY DEF LimitInit, LogsAreAdmitted, RecentAreKept, Limiters
<1> QED
  BY <1>3, <1>4 DEF LimitInv

(* What an admission does to the requests. *)
LEMMA StampedChanges ==
  ASSUME LimitTypes, NEW p \in Pods, NEW b \in Limiters, Stamped(p, b)
  PROVE  /\ granted + 1 \in Numbered /\ since' = since
         /\ granted' = granted + 1 /\ granted' \in 0..MaxAdmitted
         /\ 1..granted \subseteq 1..granted' /\ granted + 1 \in 1..granted'
         /\ clock' \in [Numbered -> Pods] /\ clock'[granted + 1] = p
         /\ \A r \in 1..granted : clock'[r] = clock[r]
         /\ admitted' \in [Limiters -> SUBSET (1..granted')]
         /\ admitted'[b] = admitted[b] \cup {granted + 1}
         /\ \A a \in Limiters \ {b} : admitted'[a] = admitted[a]
<1>1. /\ granted \in 0..MaxAdmitted /\ granted < MaxAdmitted /\ granted' = granted + 1
      /\ since' = since
      /\ clock' = [clock EXCEPT ![granted + 1] = p]
      /\ admitted' = [admitted EXCEPT ![b] = @ \cup {granted + 1}]
  BY DEF Stamped, LimitTypes
<1>2. /\ granted + 1 \in Numbered /\ granted' \in 0..MaxAdmitted
      /\ 1..granted \subseteq 1..granted' /\ granted + 1 \in 1..granted'
      /\ granted + 1 \notin 1..granted
  BY <1>1 DEF Numbered
<1>3. clock \in [Numbered -> Pods] /\ admitted \in [Limiters -> SUBSET (1..granted)]
  BY DEF LimitTypes
<1>4. 1..granted \subseteq Numbered
  BY <1>1 DEF Numbered
<1>5. /\ clock' \in [Numbered -> Pods] /\ clock'[granted + 1] = p
      /\ \A r \in 1..granted : clock'[r] = clock[r]
  BY <1>1, <1>2, <1>3, <1>4
<1>6. /\ admitted' \in [Limiters -> SUBSET (1..granted')]
      /\ admitted'[b] = admitted[b] \cup {granted + 1}
      /\ \A a \in Limiters \ {b} : admitted'[a] = admitted[a]
  BY <1>1, <1>2, <1>3
<1> QED
  BY <1>1, <1>2, <1>5, <1>6

(* The script on the shared set: however far ahead the pod's clock is, it  *)
(* prunes nothing that is younger than the window less the largest skew.   *)
LEMMA SlidingWindowKeeps ==
  ASSUME LimitInv, NEW p \in Pods, SlidingWindow(p)
  PROVE  LimitInv'
<1> USE DEF LimitInv
<1> DEFINE pruned == Valid(window, p)
<1>1. /\ pruned \subseteq window /\ Cardinality(pruned) \in Nat /\ Cardinality(pruned) <= Limit
      /\ Cardinality(pruned \cup {granted + 1}) = Cardinality(pruned) + 1
  BY ValidIsShorter DEF LimitTypes
<1>2. \A r \in window : since[r] < Window - MaxSkew => r \in pruned
  <2> SUFFICES ASSUME NEW r \in window, since[r] < Window - MaxSkew PROVE r \in pruned
    OBVIOUS
  <2>1. r \in Numbered
    BY DEF LimitTypes, Numbered
  <2>2. since[r] \in Nat /\ Skew[p] \in 0..MaxSkew /\ Skew[clock[r]] \in 0..MaxSkew
    BY <2>1 DEF LimitTypes, Oldest
  <2> QED
    BY <2>2 DEF Valid
<1>3. memLimits' = memLimits
  BY DEF SlidingWindow
<1>4. CASE window' = pruned /\ UNCHANGED idle /\ NotStamped
  <2>1. UNCHANGED <<granted, clock, admitted, since, idle, memLimits>> /\ window' \subseteq window
    BY <1>1, <1>3, <1>4 DEF NotStamped
  <2>2. Cardinality(window') <= Limit
    BY <1>1, <1>4
  <2>3. LimitTypes'
    BY <2>1, <2>2 DEF LimitTypes
  <2>4. LogsAreAdmitted'
    BY <2>1 DEF LogsAreAdmitted
  <2>5. RecentAreKept'
    BY <1>2, <1>4, <2>1 DEF RecentAreKept
  <2> QED
    BY <2>3, <2>4, <2>5
<1>5. CASE Cardinality(pruned) < Limit /\ window' = pruned \cup {granted + 1} /\ idle' = 0 /\ Stamped(p, "valkey")
  <2> DEFINE r0 == granted + 1
  <2>1. /\ r0 \in Numbered /\ since' = since
        /\ granted' = r0 /\ granted' \in 0..MaxAdmitted
        /\ 1..granted \subseteq 1..granted' /\ r0 \in 1..granted'
        /\ clock' \in [Numbered -> Pods] /\ clock'[r0] = p
        /\ \A r \in 1..granted : clock'[r] = clock[r]
        /\ admitted' \in [Limiters -> SUBSET (1..granted')]
        /\ admitted'["valkey"] = admitted["valkey"] \cup {r0}
        /\ \A a \in Limiters \ {"valkey"} : admitted'[a] = admitted[a]
    BY <1>5, StampedChanges DEF Limiters
  <2>2. /\ window' = pruned \cup {r0} /\ Cardinality(window') <= Limit
        /\ window' \subseteq 1..granted'
    <3>1. window' = pruned \cup {r0}
      BY <1>5
    <3>2. Cardinality(window') <= Limit
      <4> HIDE DEF pruned
      <4> QED
        BY <1>1, <1>5
    <3>3. pruned \subseteq 1..granted
      BY <1>1 DEF LimitTypes
    <3> HIDE DEF pruned, r0
    <3> QED
      BY <2>1, <3>1, <3>2, <3>3
  <2>3. \A q \in Pods : q \in Limiters /\ admitted'[q] = admitted[q] /\ admitted[q] \subseteq 1..granted
    BY <2>1 DEF Limiters, LimitTypes
  <2> HIDE DEF r0
  <2>4. memLimits' \in [Pods -> SUBSET (1..granted')]
    BY <1>3, <2>1 DEF LimitTypes
  <2>5. LimitTypes'
    BY <1>3, <1>5, <2>1, <2>2, <2>4 DEF LimitTypes
  <2>6. LogsAreAdmitted'
    BY <1>1, <1>3, <2>1, <2>2, <2>3 DEF LogsAreAdmitted
  <2>7. \A r \in admitted'["valkey"] : 0 <= since[r]
    BY <2>1, <2>5 DEF LimitTypes, Numbered, Oldest, Limiters
  <2>8. RecentAreKept'
    BY <1>2, <1>3, <1>5, <2>1, <2>2, <2>3, <2>7 DEF RecentAreKept
  <2> QED
    BY <2>5, <2>6, <2>8
<1> QED
  BY <1>4, <1>5 DEF SlidingWindow

(* The pod's own list: its timestamps are by the clock that prunes them. *)
LEMMA AllowMemoryKeeps ==
  ASSUME LimitInv, NEW p \in Pods, AllowMemory(p)
  PROVE  LimitInv'
<1> USE DEF LimitInv
<1> DEFINE valid == Valid(memLimits[p], p)
<1>1. /\ valid \subseteq memLimits[p] /\ Cardinality(valid) \in Nat /\ Cardinality(valid) <= Limit
      /\ Cardinality(valid \cup {granted + 1}) = Cardinality(valid) + 1
  BY ValidIsShorter DEF LimitTypes
<1>2. \A r \in memLimits[p] : since[r] < Window => r \in valid
  <2> SUFFICES ASSUME NEW r \in memLimits[p], since[r] < Window PROVE r \in valid
    OBVIOUS
  <2>1. r \in Numbered /\ clock[r] = p
    BY DEF LimitTypes, Numbered, LogsAreAdmitted
  <2>2. since[r] \in Nat /\ Skew[p] \in 0..MaxSkew
    BY <2>1 DEF LimitTypes, Oldest
  <2> QED
    BY <2>1, <2>2 DEF Valid
<1>3. window' = window /\ idle' = idle
  BY DEF AllowMemory
<1>4. CASE memLimits' = [memLimits EXCEPT ![p] = valid] /\ NotStamped
  <2>1. UNCHANGED <<granted, clock, admitted, since, idle, window>>
    BY <1>3, <1>4 DEF NotStamped
  <2>2. /\ memLimits' \in [Pods -> SUBSET (1..granted)] /\ memLimits'[p] = valid
        /\ \A q \in Pods \ {p} : memLimits'[q] = memLimits[q]
    BY <1>1, <1>4 DEF LimitTypes
  <2>3. LimitTypes'
    BY <1>1, <2>1, <2>2 DEF LimitTypes
  <2>4. LogsAreAdmitted'
    BY <1>1, <2>1, <2>2 DEF LogsAreAdmitted
  <2>5. RecentAreKept'
    BY <1>2, <2>1, <2>2 DEF RecentAreKept
  <2> QED
    BY <2>3, <2>4, <2>5
<1>5. CASE /\ Cardinality(valid) < Limit /\ memLimits' = [memLimits EXCEPT ![p] = valid \cup {granted + 1}]
           /\ Stamped(p, p)
  <2> DEFINE r0 == granted + 1
  <2>1. /\ r0 \in Numbered /\ since' = since
        /\ granted' = r0 /\ granted' \in 0..MaxAdmitted
        /\ 1..granted \subseteq 1..granted' /\ r0 \in 1..granted'
        /\ clock' \in [Numbered -> Pods] /\ clock'[r0] = p
        /\ \A r \in 1..granted : clock'[r] = clock[r]
        /\ admitted' \in [Limiters -> SUBSET (1..granted')]
        /\ admitted'[p] = admitted[p] \cup {r0}
        /\ \A a \in Limiters \ {p} : admitted'[a] = admitted[a]
    BY <1>5, StampedChanges DEF Limiters
  <2>2. /\ memLimits \in [Pods -> SUBSET (1..granted)] /\ valid \cup {r0} \subseteq 1..granted'
        /\ window \subseteq 1..granted'
    BY <1>1, <2>1 DEF LimitTypes
  <2>3. /\ memLimits'[p] = valid \cup {r0} /\ Cardinality(memLimits'[p]) <= Limit
        /\ \A q \in Pods \ {p} : memLimits'[q] = memLimits[q]
        /\ memLimits' \in [Pods -> SUBSET (1..granted')]
    BY <1>1, <1>5, <2>1, <2>2
  <2>4. /\ "valkey" \in Limiters \ {p} /\ \A q \in Pods : q \in Limiters /\ admitted[q] \subseteq 1..granted
    BY DEF Limiters, LimitTypes
  <2> HIDE DEF r0, valid
  <2>5. LimitTypes'
    BY <1>3, <2>1, <2>2, <2>3 DEF LimitTypes
  <2>6. LogsAreAdmitted'
    BY <1>1, <1>3, <2>1, <2>3, <2>4 DEF LogsAreAdmitted
  <2>7. RecentAreKept'
    BY <1>2, <1>3, <2>1, <2>3, <2>4 DEF RecentAreKept
  <2> QED
    BY <2>5, <2>6, <2>7
<1> QED
  BY <1>4, <1>5 DEF AllowMemory

(* Time passes; a set that expires holds nothing of the last window. *)
LEMMA LimitTickKeeps ==
  ASSUME LimitInv, LimitTick
  PROVE  LimitInv'
<1> USE DEF LimitInv
<1>1. UNCHANGED <<granted, clock, memLimits, admitted>>
  BY DEF LimitTick
<1>2. /\ since' \in [Numbered -> 0..Oldest]
      /\ \A r \in Numbered : since[r] <= since'[r]
      /\ \A r \in 1..granted : since'[r] = since[r] + 1 \/ since'[r] = Window + MaxSkew
  <2>1. granted \in Nat /\ Oldest \in Nat /\ Oldest = Window + MaxSkew
    BY DEF LimitTypes, Oldest
  <2>2. ASSUME NEW r \in Numbered
        PROVE  /\ since[r] \in 0..Oldest /\ since'[r] \in 0..Oldest /\ since[r] <= since'[r]
               /\ r <= granted => since'[r] = since[r] + 1 \/ since'[r] = Oldest
    <3>1. since'[r] = IF r <= granted /\ since[r] < Oldest THEN since[r] + 1 ELSE since[r]
      BY DEF LimitTick
    <3>2. since[r] \in 0..Oldest
      BY DEF LimitTypes
    <3>3. CASE r <= granted /\ since[r] < Oldest
      BY <2>1, <3>1, <3>2, <3>3
    <3>4. CASE ~(r <= granted /\ since[r] < Oldest)
      <4>1. since'[r] = since[r]
        BY <3>1, <3>4
      <4>2. r <= granted => since[r] = Oldest
        BY <2>1, <3>2, <3>4
      <4> QED
        BY <2>1, <3>2, <4>1, <4>2
    <3> QED
      BY <3>3, <3>4
  <2>3. since' = [r \in Numbered |-> since'[r]]
    BY DEF LimitTick
  <2>4. since' \in [Numbered -> 0..Oldest]
    BY <2>2, <2>3
  <2>5. \A r \in 1..granted : r \in Numbered /\ r <= granted
    BY <2>1 DEF LimitTypes, Numbered
  <2> QED
    BY <2>1, <2>2, <2>4, <2>5
<1>3. \/ idle < Window /\ idle' = idle + 1 /\ window' = window
      \/ idle = Window /\ idle' = 0 /\ window' = {}
  BY DEF LimitTick, LimitTypes, expireSec
<1>4. window' \subseteq window /\ Cardinality(window') <= Limit /\ idle' \in 0..Window
  <2>1. Cardinality({}) = 0
    BY FS_EmptySet
  <2>2. CASE window' = window /\ idle < Window /\ idle' = idle + 1
    BY <2>2 DEF LimitTypes
  <2>3. CASE window' = {} /\ idle' = 0
    <3>1. Cardinality(window') = 0
      BY <2>1, <2>3
    <3> QED
      BY <2>3, <3>1
  <2> QED
    BY <1>3, <2>2, <2>3
<1>5. LimitTypes'
  BY <1>1, <1>2, <1>4 DEF LimitTypes
<1>6. LogsAreAdmitted'
  BY <1>1, <1>4 DEF LogsAreAdmitted
<1>7. \A b \in Limiters : \A r \in admitted[b] :
        /\ r \in Numbered /\ r \in 1..granted /\ since[r] \in Nat /\ since'[r] \in Nat
  BY <1>2 DEF LimitTypes, Numbered, Oldest
<1>8. RecentAreKept'
  <2>1. \A r \in admitted["valkey"] : since'[r] < Window - MaxSkew => r \in window'
    <3> SUFFICES ASSUME NEW r \in admitted["valkey"], since'[r] < Window - MaxSkew PROVE r \in window'
      OBVIOUS
    <3>1. r \in Numbered /\ since[r] \in Nat /\ since'[r] \in Nat /\ since[r] <= since'[r]
      BY <1>2, <1>7 DEF Limiters
    <3>2. r \in window /\ idle <= since[r]
      BY <3>1 DEF RecentAreKept
    <3>3. idle # Window
      BY <3>1, <3>2
    <3> QED
      BY <1>3, <3>2, <3>3
  <2>2. \A r \in admitted["valkey"] : idle' <= since'[r]
    <3> SUFFICES ASSUME NEW r \in admitted["valkey"] PROVE idle' <= since'[r]
      OBVIOUS
    <3>1. /\ r \in 1..granted /\ since[r] \in Nat /\ since'[r] \in Nat /\ idle \in Nat
          /\ since'[r] = since[r] + 1 \/ since'[r] = Window + MaxSkew
      BY <1>2, <1>7 DEF Limiters, LimitTypes
    <3>2. idle <= since[r]
      BY DEF RecentAreKept
    <3> QED
      BY <1>3, <3>1, <3>2
  <2>3. \A p \in Pods : \A r \in admitted[p] : since'[r] < Window => r \in memLimits[p]
    <3> SUFFICES ASSUME NEW p \in Pods, NEW r \in admitted[p], since'[r] < Window
                 PROVE  r \in memLimits[p]
      OBVIOUS
    <3>1. r \in Numbered /\ since[r] \in Nat /\ since'[r] \in Nat /\ since[r] <= since'[r]
      BY <1>2, <1>7 DEF Limiters
    <3> QED
      BY <3>1 DEF RecentAreKept
  <2> QED
    BY <1>1, <2>1, <2>2, <2>3 DEF RecentAreKept
<1> QED
  BY <1>5, <1>6, <1>8

(* The recent admissions are members of a list that is short enough. *)
LEMMA LimitInvHolds == LimitInv => WindowHeld
<1> SUFFICES ASSUME LimitInv PROVE WindowHeld
  OBVIOUS
<1> USE DEF LimitInv
<1>1. ASSUME NEW S, NEW L \in SUBSET (1..granted), S \subseteq L, Cardinality(L) <= Limit
      PROVE  Cardinality(S) <= Limit
  <2>1. IsFiniteSet(L)
    <3>1. IsFiniteSet(1..granted)
      BY FS_Interval DEF LimitTypes
    <3> QED
      BY <1>1, <3>1, FS_Subset
  <2>2. IsFiniteSet(S) /\ Cardinality(S) <= Cardinality(L)
    BY <1>1, <2>1, FS_Subset
  <2> QED
    BY <1>1, <2>1, <2>2, FS_CardinalityType
<1>2. Within("valkey", Window - MaxSkew) <= Limit
  <2>1. {r \in admitted["valkey"] : since[r] < Window - MaxSkew} \subseteq window
    BY DEF RecentAreKept
  <2> QED
    BY <1>1, <2>1 DEF Within, LimitTypes
<1>3. \A p \in Pods : Within(p, Window) <= Limit
  <2> SUFFICES ASSUME NEW p \in Pods PROVE Within(p, Window) <= Limit
    OBVIOUS
  <2>1. {r \in admitted[p] : since[r] < Window} \subseteq memLimits[p]
    BY DEF RecentAreKept
  <2> QED
    BY <1>1, <2>1 DEF Within, LimitTypes
<1> QED
  BY <1>2, <1>3 DEF WindowHeld

(* For any number of pods, any clocks no further apart than MaxSkew, any   *)
(* limit and any window: no interleaving of requests, outages of Valkey    *)
(* and the expiry of the set admits more than Limit requests through the   *)
(* shared set in a window less that skew, or through one pod's own list in *)
(* a window.                                                               *)
THEOREM WindowIsHeld == LimitSpec => []WindowHeld
<1>1. LimitInit => LimitInv
  BY LimitInitial
<1>2. LimitInv /\ [LimitNext]_limitVars => LimitInv'
  <2> SUFFICES ASSUME LimitInv, [LimitNext]_limitVars PROVE LimitInv'
    OBVIOUS
  <2>1. CASE UNCHANGED limitVars
    BY <2>1 DEF LimitInv, LimitTypes, LogsAreAdmitted, RecentAreKept, limitVars
  <2>2. CASE \E p \in Pods : Allow(p)
    BY <2>2, SlidingWindowKeeps, AllowMemoryKeeps DEF Allow
  <2>3. CASE LimitTick
    BY <2>3, LimitTickKeeps
  <2> QED
    BY <2>1, <2>2, <2>3 DEF LimitNext
<1> QED
  BY <1>1, <1>2, LimitInvHolds, PTL DEF LimitSpec

-----------------------------------------------------------------------------
(* What was taken away is gone, until it is given to somebody of that key. *)
Has(s, e) == <<s, Key(s, e)>> \in grants
TakenIsGone == \A s \in Systems, e \in Employees : Has(s, e) => fate[s][e] # "revoked"

(* What an offboarding of e has dealt with, or has reported, is no longer  *)
(* as an onboarding left it.                                               *)
ReportedNotHeld ==
  \A s \in Systems, e \in Employees : fate[s][e] = "held" =>
    /\ s \notin report[e]
    /\ \A c \in Calls : call[c] \in Offboarding /\ call[c].e = e => s \notin call[c].got

(* What an onboarding of e was given, or has reported, is there, or was    *)
(* taken by another call.                                                  *)
GivenIsThere ==
  \A s \in wired, e \in Employees : ~Has(s, e) /\ <<s, e>> \notin bereft =>
    /\ s \notin told[e]
    /\ \A c \in Calls : call[c] \in Onboarding /\ call[c].e = e => s \notin call[c].got

SagaInv == SagaTypes /\ TakenIsGone /\ ReportedNotHeld /\ GivenIsThere /\ HoldsExplained

HIDE LimitAssumption
USE SagaAssumption

(* The four kinds of call are told apart by what they do. *)
LEMMA CallKinds ==
  ASSUME SagaTypes, NEW c \in Calls
  PROVE  /\ call[c] \in {Unused, Over} \cup Onboarding \cup Offboarding
         /\ call[c].op = "onboard" <=> call[c] \in Onboarding
         /\ call[c].op = "offboard" <=> call[c] \in Offboarding
<1>1. call[c] \in {Unused, Over} \cup Onboarding \cup Offboarding
  BY DEF SagaTypes
<1>2. CASE call[c] \in {Unused, Over}
  BY <1>2 DEF Unused, Over, Onboarding, Offboarding
<1>3. CASE call[c] \in Onboarding
  BY <1>3 DEF Onboarding, Offboarding
<1>4. CASE call[c] \in Offboarding
  BY <1>4 DEF Onboarding, Offboarding
<1> QED
  BY <1>1, <1>2, <1>3, <1>4

(* What a call that ends, or moves on, leaves of the calls. *)
LEMMA DoneChanges ==
  ASSUME SagaTypes, NEW c \in Calls, Done(c)
  PROVE  /\ call' \in [Calls -> {Unused, Over} \cup Onboarding \cup Offboarding]
         /\ call'[c] \notin Onboarding \cup Offboarding
         /\ \A d \in Calls \ {c} : call'[d] = call[d]
BY DEF SagaTypes, Done, Over, Onboarding, Offboarding

LEMMA OnboardMoves ==
  ASSUME SagaTypes, NEW c \in Calls, call[c] \in Onboarding,
         NEW pc \in {"row", "extras", "vcs", "storage", "answer"},
         NEW s \in Systems,
         Move(c, pc) \/ Got(c, s, pc)
  PROVE  /\ call' \in [Calls -> {Unused, Over} \cup Onboarding \cup Offboarding]
         /\ call'[c] \in Onboarding /\ call'[c].e = call[c].e
         /\ call'[c].got = IF Move(c, pc) THEN call[c].got ELSE call[c].got \cup {s}
         /\ \A d \in Calls \ {c} : call'[d] = call[d]
<1>1. CASE Move(c, pc)
  BY <1>1 DEF SagaTypes, Move, Onboarding
<1>2. CASE ~Move(c, pc) /\ Got(c, s, pc)
  <2> DEFINE r == [call[c] EXCEPT !.pc = pc]
             q == [r EXCEPT !.got = @ \cup {s}]
  <2>1. r \in Onboarding /\ r.e = call[c].e /\ r.got = call[c].got
    BY DEF Onboarding
  <2>2. q \in Onboarding /\ q.e = call[c].e /\ q.got = call[c].got \cup {s}
    BY <2>1 DEF Onboarding
  <2>3. call' = [call EXCEPT ![c] = q]
    BY <1>2 DEF Got, SagaTypes
  <2> HIDE DEF r, q
  <2> QED
    BY <1>2, <2>2, <2>3 DEF SagaTypes
<1> QED
  BY <1>1, <1>2

LEMMA OffboardMoves ==
  ASSUME SagaTypes, NEW c \in Calls, call[c] \in Offboarding,
         NEW pc \in {"fetch", "status", "sessions", "vcs", "storage", "hold"},
         NEW s \in Systems,
         Move(c, pc) \/ Got(c, s, pc)
  PROVE  /\ call' \in [Calls -> {Unused, Over} \cup Onboarding \cup Offboarding]
         /\ call'[c] \in Offboarding /\ call'[c].e = call[c].e
         /\ call'[c].got = IF Move(c, pc) THEN call[c].got ELSE call[c].got \cup {s}
         /\ \A d \in Calls \ {c} : call'[d] = call[d]
<1>1. CASE Move(c, pc)
  BY <1>1 DEF SagaTypes, Move, Offboarding
<1>2. CASE ~Move(c, pc) /\ Got(c, s, pc)
  <2> DEFINE r == [call[c] EXCEPT !.pc = pc]
             q == [r EXCEPT !.got = @ \cup {s}]
  <2>1. r \in Offboarding /\ r.e = call[c].e /\ r.got = call[c].got
    BY DEF Offboarding
  <2>2. q \in Offboarding /\ q.e = call[c].e /\ q.got = call[c].got \cup {s}
    BY <2>1 DEF Offboarding
  <2>3. call' = [call EXCEPT ![c] = q]
    BY <1>2 DEF Got, SagaTypes
  <2> HIDE DEF r, q
  <2> QED
    BY <1>2, <2>2, <2>3 DEF SagaTypes
<1> QED
  BY <1>1, <1>2

(* A step after which every call under way has got what it had, or nothing *)
(* yet, and which touches no access, leaves the promises alone.            *)
Carried ==
  \A d \in Calls :
    /\ call'[d] \in Onboarding =>
         call'[d].got = {} \/ (call[d] \in Onboarding /\ call'[d].e = call[d].e /\ call'[d].got = call[d].got)
    /\ call'[d] \in Offboarding =>
         call'[d].got = {} \/ (call[d] \in Offboarding /\ call'[d].e = call[d].e /\ call'[d].got = call[d].got)

LEMMA CarriedKeeps ==
  ASSUME SagaInv, Carried, UNCHANGED <<wired, grants, fate, bereft, report, told>>
  PROVE  TakenIsGone' /\ ReportedNotHeld' /\ GivenIsThere'
<1>1. TakenIsGone'
  BY DEF SagaInv, TakenIsGone, Has, Key
<1>2. ReportedNotHeld'
  BY DEF SagaInv, ReportedNotHeld, Carried
<1>3. GivenIsThere'
  BY DEF SagaInv, GivenIsThere, Carried, Has, Key
<1> QED
  BY <1>1, <1>2, <1>3

(* The company as it is found satisfies the invariant. *)
LEMMA SagaInitial == SagaInit => SagaInv
<1> SUFFICES ASSUME SagaInit PROVE SagaInv
  OBVIOUS
<1> PICK staff \in {{}, Employees} :
      /\ status = [e \in Employees |-> IF e \in staff THEN "active" ELSE "none"]
      /\ tasks = [e \in Employees |-> IF e \in staff THEN 1 ELSE 0]
      /\ hold = [e \in Cats |-> IF e \in staff THEN "off" ELSE "none"]
      /\ grants = {<<s, Name(e)>> : s \in wired \ {"sessions"}, e \in staff \ Cats}
      /\ told = [e \in Employees |-> IF e \in staff \ Cats THEN {"vcs", "storage"} ELSE {}]
  BY DEF SagaInit
<1>1. wired \subseteq Systems /\ engine \in {"bll", "saga"}
  BY DEF SagaInit, Systems
<1>2. SagaTypes
  <2>1. grants \subseteq Systems \X (Employees \cup {Name(e) : e \in Employees})
    BY <1>1
  <2>2. told \in [Employees -> SUBSET Systems] /\ report \in [Employees -> SUBSET Systems]
    BY DEF SagaInit, Systems
  <2>3. /\ call \in [Calls -> {Unused, Over} \cup Onboarding \cup Offboarding]
        /\ fate \in [Systems -> [Employees -> {"held", "revoked", "failed", "unwired", "regranted"}]]
        /\ faults \in 0 .. MaxFaults
    BY DEF SagaInit
  <2>4. /\ status \in [Employees -> Statuses] /\ tasks \in [Employees -> Nat]
        /\ hold \in [Cats -> {"none", "off", "on"}]
    BY DEF Statuses
  <2> QED
    BY <1>1, <2>1, <2>2, <2>3, <2>4 DEF SagaInit, SagaTypes
<1>3. TakenIsGone
  BY DEF TakenIsGone, SagaInit
<1>4. \A c \in Calls : call[c] \notin Onboarding \cup Offboarding
  BY DEF SagaInit, Unused, Onboarding, Offboarding
<1>5. ReportedNotHeld
  BY <1>4 DEF ReportedNotHeld, SagaInit
<1>6. GivenIsThere
  <2> SUFFICES ASSUME NEW s \in wired, NEW e \in Employees, s \in told[e]
               PROVE  Has(s, e)
    BY <1>4 DEF GivenIsThere
  <2>1. e \in staff \ Cats /\ s # "sessions"
    OBVIOUS
  <2> QED
    BY <2>1 DEF Has, Key
<1>7. HoldsExplained
  BY DEF SagaInit, HoldsExplained
<1> QED
  BY <1>2, <1>3, <1>5, <1>6, <1>7 DEF SagaInv

(* A webhook that starts a call, sets a status or is ignored. *)
LEMMA HandleHRWebhookKeeps ==
  ASSUME SagaInv, NEW c \in Calls, NEW e \in Employees,
         NEW event \in {"employee_created", "employee_separated", "updated"},
         NEW st \in {"", "active"}, HandleHRWebhook(c, e, event, st)
  PROVE  SagaInv'
<1> USE DEF SagaInv
<1>1. /\ call' \in [Calls -> {Unused, Over} \cup Onboarding \cup Offboarding]
      /\ call'[c] \in Onboarding \cup Offboarding => call'[c].got = {}
      /\ \A d \in Calls \ {c} : call'[d] = call[d]
      /\ status' \in [Employees -> Statuses]
  <2>1. CASE Dispatch(event, st) = "onboard"
    <3> DEFINE r == [op |-> "onboard", e |-> e, pc |-> "row", got |-> {}]
    <3>1. r \in Onboarding /\ r.got = {}
      BY DEF Onboarding
    <3>2. call' = [call EXCEPT ![c] = r] /\ status' = status
      BY <2>1 DEF HandleHRWebhook
    <3> QED
      BY <3>1, <3>2 DEF SagaTypes
  <2>2. CASE Dispatch(event, st) = "offboard"
    <3> DEFINE r == [op |-> "offboard", e |-> e, pc |-> "fetch", got |-> {},
                     to |-> IF st = "" THEN "separated" ELSE st]
    <3>1. r \in Offboarding /\ r.got = {}
      BY DEF Offboarding
    <3>2. call' = [call EXCEPT ![c] = r] /\ status' = status
      BY <2>2 DEF HandleHRWebhook
    <3> QED
      BY <3>1, <3>2 DEF SagaTypes
  <2>3. CASE Dispatch(event, st) = "status"
    <3>1. Done(c) /\ status' = IF status[e] = "none" THEN status ELSE [status EXCEPT ![e] = st]
      BY <2>3 DEF HandleHRWebhook
    <3>2. st \in Statuses
      BY <2>3 DEF Dispatch, Statuses
    <3> QED
      BY <3>1, <3>2, DoneChanges DEF SagaTypes
  <2>4. CASE Dispatch(event, st) = "ignored"
    <3>1. Done(c) /\ status' = status
      BY <2>4 DEF HandleHRWebhook
    <3> QED
      BY <3>1, DoneChanges DEF SagaTypes
  <2> QED
    BY <2>1, <2>2, <2>3, <2>4 DEF Dispatch
<1>2. UNCHANGED <<engine, wired, tasks, hold, grants, report, told, faults, fate, bereft, asked, rewritten>>
  BY DEF HandleHRWebhook
<1>3. SagaTypes' /\ HoldsExplained'
  BY <1>1, <1>2 DEF SagaTypes, HoldsExplained
<1>4. Carried
  BY <1>1 DEF Carried
<1> QED
  BY <1>2, <1>3, <1>4, CarriedKeeps

(* The row of an employee is written: nothing of it was taken away since,  *)
(* and an offboarding that is under way has given way.                     *)
LEMMA CreateEmployeeKeeps ==
  ASSUME SagaInv, NEW c \in Calls, CreateEmployee(c)
  PROVE  SagaInv'
<1> USE DEF SagaInv
<1> DEFINE e == call[c].e
           leaving == \E d \in Calls : call[d].op = "offboard" /\ call[d].e = e
<1>1. call[c] \in Onboarding /\ e \in Employees
  BY CallKinds DEF CreateEmployee, At, Onboarding
<1>2. /\ status' = [status EXCEPT ![e] = "onboarding"]
      /\ fate' = [s \in Systems |-> [fate[s] EXCEPT ![e] = IF leaving THEN "regranted" ELSE "held"]]
      /\ report' = [report EXCEPT ![e] = {}]
      /\ Move(c, "extras")
      /\ UNCHANGED <<engine, wired, tasks, hold, grants, told, bereft, asked, rewritten, faults>>
  BY DEF CreateEmployee, NoFault
<1>3. /\ call' \in [Calls -> {Unused, Over} \cup Onboarding \cup Offboarding]
      /\ call'[c] \in Onboarding /\ call'[c].e = e /\ call'[c].got = call[c].got
      /\ \A d \in Calls \ {c} : call'[d] = call[d]
  BY <1>1, <1>2, OnboardMoves DEF Systems
<1>4. \A s \in Systems, x \in Employees :
        fate'[s][x] = IF x = e THEN IF leaving THEN "regranted" ELSE "held" ELSE fate[s][x]
  BY <1>1, <1>2 DEF SagaTypes
<1>5. leaving <=> \E d \in Calls : call[d] \in Offboarding /\ call[d].e = e
  BY CallKinds
<1>6. fate' \in [Systems -> [Employees -> {"held", "revoked", "failed", "unwired", "regranted"}]]
  BY <1>1, <1>2 DEF SagaTypes
<1>7. call'[c] \notin Offboarding
  BY <1>3 DEF Onboarding, Offboarding
<1> HIDE DEF leaving, e
<1>8. SagaTypes'
  BY <1>1, <1>2, <1>3, <1>6 DEF SagaTypes, Statuses
<1>9. TakenIsGone'
  <2> SUFFICES ASSUME NEW s \in Systems, NEW x \in Employees, <<s, Key(s, x)>> \in grants
               PROVE  fate'[s][x] # "revoked"
    BY <1>2 DEF TakenIsGone, Has, Key
  <2>1. fate[s][x] # "revoked"
    BY DEF TakenIsGone, Has
  <2>2. fate'[s][x] = fate[s][x] \/ fate'[s][x] \in {"regranted", "held"}
    BY <1>4
  <2> QED
    BY <2>1, <2>2
<1>10. ReportedNotHeld'
  <2>1. /\ report'[e] = {}
        /\ \A x \in Employees \ {e} : report'[x] = report[x]
    BY <1>1, <1>2 DEF SagaTypes
  <2>2. \A d \in Calls : call'[d] \in Offboarding => d # c /\ call'[d] = call[d]
    BY <1>3, <1>7
  <2> QED
    BY <1>4, <1>5, <2>1, <2>2 DEF ReportedNotHeld
<1>11. GivenIsThere'
  <2>1. \A d \in Calls : call'[d] \in Onboarding =>
          call[d] \in Onboarding /\ call'[d].e = call[d].e /\ call'[d].got = call[d].got
    BY <1>1, <1>3 DEF e
  <2> SUFFICES ASSUME NEW s \in wired, NEW x \in Employees,
                      <<s, Key(s, x)>> \notin grants, <<s, x>> \notin bereft
               PROVE  /\ s \notin told[x]
                      /\ \A d \in Calls : call'[d] \in Onboarding /\ call'[d].e = x => s \notin call'[d].got
    BY <1>2 DEF GivenIsThere, Has, Key
  <2> QED
    BY <2>1 DEF GivenIsThere, Has
<1>12. HoldsExplained'
  BY <1>2 DEF HoldsExplained
<1> QED
  BY <1>8, <1>9, <1>10, <1>11, <1>12

(* A call that ends without anything having been done. *)
LEMMA CreateFailsKeeps ==
  ASSUME SagaInv, NEW c \in Calls, CreateFails(c)
  PROVE  SagaInv'
<1> USE DEF SagaInv
<1>1. /\ Done(c) /\ faults' \in 0 .. MaxFaults
      /\ UNCHANGED <<engine, wired, status, tasks, hold, grants, report, told, fate, bereft,
                     asked, rewritten>>
  BY DEF CreateFails, Fault, SagaTypes
<1>2. SagaTypes' /\ HoldsExplained'
  BY <1>1, DoneChanges DEF SagaTypes, HoldsExplained
<1>3. Carried
  BY <1>1, DoneChanges DEF Carried
<1> QED
  BY <1>1, <1>2, <1>3, CarriedKeeps

(* The checklist, and the care schedule of a cat. *)
LEMMA OnboardExtrasKeeps ==
  ASSUME SagaInv, NEW c \in Calls, OnboardExtras(c)
  PROVE  SagaInv'
<1> USE DEF SagaInv
<1> DEFINE e == call[c].e
           pc == IF e \in Cats THEN "answer" ELSE "vcs"
<1>1. call[c] \in Onboarding /\ e \in Employees
  BY CallKinds DEF OnboardExtras, At, Onboarding
<1>2. /\ Move(c, pc)
      /\ UNCHANGED <<engine, wired, status, grants, report, told, fate, bereft, asked>>
  BY DEF OnboardExtras
<1>3. PICK wroteTasks \in BOOLEAN, wroteCare \in BOOLEAN :
         /\ IF wroteTasks /\ wroteCare THEN NoFault ELSE Fault
         /\ tasks' = IF wroteTasks THEN [tasks EXCEPT ![e] = @ + 1] ELSE tasks
         /\ IF e \in Cats /\ wroteCare
            THEN hold' = [hold EXCEPT ![e] = "off"] /\ rewritten' = rewritten \cup {e}
            ELSE UNCHANGED <<hold, rewritten>>
  BY DEF OnboardExtras
<1>4. /\ call' \in [Calls -> {Unused, Over} \cup Onboarding \cup Offboarding]
      /\ call'[c] \in Onboarding /\ call'[c].e = e /\ call'[c].got = call[c].got
      /\ \A d \in Calls \ {c} : call'[d] = call[d]
  <2>1. pc \in {"row", "extras", "vcs", "storage", "answer"} /\ "vcs" \in Systems
    BY DEF Systems
  <2> HIDE DEF pc
  <2> QED
    BY <1>1, <1>2, <2>1, OnboardMoves
<1>5. call'[c] \notin Offboarding
  BY <1>4 DEF Onboarding, Offboarding
<1> HIDE DEF e
<1>6. faults' \in 0 .. MaxFaults
  BY <1>3 DEF Fault, NoFault, SagaTypes
<1>7. tasks' \in [Employees -> Nat]
  BY <1>1, <1>3 DEF SagaTypes
<1>8. /\ hold' \in [Cats -> {"none", "off", "on"}] /\ rewritten' \subseteq Cats
      /\ HoldsExplained'
  <2>1. CASE e \in Cats /\ wroteCare
    BY <2>1, <1>2, <1>3 DEF SagaTypes, HoldsExplained
  <2>2. CASE ~(e \in Cats /\ wroteCare)
    <3>1. hold' = hold /\ rewritten' = rewritten
      BY <2>2, <1>3
    <3> QED
      BY <3>1, <1>2 DEF SagaTypes, HoldsExplained
  <2> QED
    BY <2>1, <2>2
<1>9. SagaTypes'
  BY <1>2, <1>4, <1>6, <1>7, <1>8 DEF SagaTypes
<1>10. Carried
  BY <1>1, <1>4, <1>5 DEF Carried, e
<1> QED
  BY <1>2, <1>8, <1>9, <1>10, CarriedKeeps

(* Access that is given to e is given to everybody of the same key: what   *)
(* was taken from them is theirs again, and a call of e may report it.     *)
LEMMA GiveKeeps ==
  ASSUME SagaInv, NEW s \in Systems, NEW e \in Employees, Give(s, e),
         UNCHANGED <<wired, report, told>>,
         \A d \in Calls :
           /\ call'[d] \in Onboarding =>
                /\ call[d] \in Onboarding /\ call'[d].e = call[d].e
                /\ call'[d].got = call[d].got \/ (call[d].e = e /\ call'[d].got = call[d].got \cup {s})
           /\ call'[d] \in Offboarding =>
                call[d] \in Offboarding /\ call'[d].e = call[d].e /\ call'[d].got = call[d].got
  PROVE  /\ grants' \subseteq Systems \X (Employees \cup {Name(x) : x \in Employees})
         /\ fate' \in [Systems -> [Employees -> {"held", "revoked", "failed", "unwired", "regranted"}]]
         /\ bereft' \subseteq Systems \X Employees
         /\ TakenIsGone' /\ ReportedNotHeld' /\ GivenIsThere'
<1> USE DEF SagaInv
<1>1. Key(s, e) \in Employees \cup {Name(x) : x \in Employees}
  BY DEF Key
<1>2. /\ grants' \subseteq Systems \X (Employees \cup {Name(x) : x \in Employees})
      /\ bereft' \subseteq Systems \X Employees
  BY <1>1 DEF Give, SagaTypes
<1>3. /\ fate' \in [Systems -> [Employees -> {"held", "revoked", "failed", "unwired", "regranted"}]]
      /\ \A x \in Employees :
           fate'[s][x] = IF x \in Namesakes(s, e) /\ fate[s][x] = "revoked" THEN "regranted" ELSE fate[s][x]
      /\ \A r \in Systems \ {s} : fate'[r] = fate[r]
  BY DEF Give, SagaTypes
<1>4. \A r \in Systems, x \in Employees :
        <<r, Key(r, x)>> \in grants' <=> Has(r, x) \/ (r = s /\ x \in Namesakes(s, e))
  BY DEF Give, Has, Namesakes
<1>5. \A r \in Systems, x \in Employees :
        <<r, x>> \in bereft' <=> <<r, x>> \in bereft /\ ~(r = s /\ x \in Namesakes(s, e))
  BY DEF Give
<1>6. e \in Namesakes(s, e)
  BY DEF Namesakes
<1>7. TakenIsGone'
  <2> SUFFICES ASSUME NEW r \in Systems, NEW x \in Employees, <<r, Key(r, x)>> \in grants'
               PROVE  fate'[r][x] # "revoked"
    BY DEF TakenIsGone, Has, Key
  <2> QED
    BY <1>3, <1>4 DEF TakenIsGone
<1>8. ReportedNotHeld'
  BY <1>3 DEF ReportedNotHeld
<1>9. GivenIsThere'
  <2> SUFFICES ASSUME NEW r \in wired, NEW x \in Employees,
                      <<r, Key(r, x)>> \notin grants', <<r, x>> \notin bereft'
               PROVE  /\ r \notin told[x]
                      /\ \A d \in Calls : call'[d] \in Onboarding /\ call'[d].e = x => r \notin call'[d].got
    BY DEF GivenIsThere, Has, Key
  <2>1. r \in Systems /\ ~Has(r, x) /\ <<r, x>> \notin bereft /\ ~(r = s /\ x = e)
    BY <1>4, <1>5, <1>6 DEF SagaTypes
  <2> QED
    BY <2>1 DEF GivenIsThere
<1> QED
  BY <1>2, <1>3, <1>7, <1>8, <1>9

(* An onboarding moves on without access having been given: it reports as  *)
(* given what nobody was asked for, and nothing else.                      *)
LEMMA UngivenKeeps ==
  ASSUME SagaInv, NEW c \in Calls, NEW s \in Systems, NEW pc,
         UNCHANGED <<engine, wired, status, tasks, hold, report, told, asked, rewritten,
                     grants, fate, bereft>>,
         faults' \in 0 .. MaxFaults,
         call[c] \in Onboarding,
         call' \in [Calls -> {Unused, Over} \cup Onboarding \cup Offboarding],
         call'[c] \in Onboarding, call'[c] \notin Offboarding, call'[c].e = call[c].e,
         call'[c].got = IF Move(c, pc) THEN call[c].got ELSE call[c].got \cup {s},
         \A d \in Calls \ {c} : call'[d] = call[d],
         s \in wired => Move(c, pc)
  PROVE  SagaInv'
<1> USE DEF SagaInv
<1>1. SagaTypes' /\ HoldsExplained'
  BY DEF SagaTypes, HoldsExplained
<1>2. TakenIsGone'
  BY DEF TakenIsGone, Has, Key
<1>3. ReportedNotHeld'
  BY DEF ReportedNotHeld
<1>4. \A d \in Calls : call'[d] \in Onboarding =>
         call[d] \in Onboarding /\ call'[d].e = call[d].e /\ call'[d].got \cap wired = call[d].got \cap wired
  OBVIOUS
<1>5. GivenIsThere'
  <2> SUFFICES ASSUME NEW r \in wired, NEW x \in Employees,
                      <<r, Key(r, x)>> \notin grants, <<r, x>> \notin bereft
               PROVE  /\ r \notin told[x]
                      /\ \A d \in Calls : call'[d] \in Onboarding /\ call'[d].e = x => r \notin call'[d].got
    BY DEF GivenIsThere, Has, Key
  <2> QED
    BY <1>4 DEF GivenIsThere, Has
<1> QED
  BY <1>1, <1>2, <1>3, <1>5

(* An onboarding asks one system, and gives access there or does not. *)
LEMMA ProvisionKeeps ==
  ASSUME SagaInv, NEW c \in Calls, NEW s \in Systems,
         NEW pc \in {"row", "extras", "vcs", "storage", "answer"},
         call[c] \in Onboarding, Move(c, pc) \/ Got(c, s, pc),
         Fault \/ NoFault,
         \/ Give(s, call[c].e)
         \/ UNCHANGED <<grants, fate, bereft>> /\ (s \in wired => Move(c, pc)),
         UNCHANGED <<engine, wired, status, tasks, hold, report, told, asked, rewritten>>
  PROVE  SagaInv'
<1> USE DEF SagaInv
<1> DEFINE e == call[c].e
<1>1. e \in Employees
  BY DEF Onboarding
<1>2. /\ call' \in [Calls -> {Unused, Over} \cup Onboarding \cup Offboarding]
      /\ call'[c] \in Onboarding /\ call'[c].e = e
      /\ call'[c].got = IF Move(c, pc) THEN call[c].got ELSE call[c].got \cup {s}
      /\ \A d \in Calls \ {c} : call'[d] = call[d]
  BY OnboardMoves
<1>3. call'[c] \notin Offboarding
  BY <1>2 DEF Onboarding, Offboarding
<1>4. faults' \in 0 .. MaxFaults
  BY DEF Fault, NoFault, SagaTypes
<1>5. HoldsExplained'
  BY DEF HoldsExplained
<1>6. ASSUME Give(s, e)
      PROVE  SagaInv'
  <2>1. \A d \in Calls :
           /\ call'[d] \in Onboarding =>
                /\ call[d] \in Onboarding /\ call'[d].e = call[d].e
                /\ call'[d].got = call[d].got \/ (call[d].e = e /\ call'[d].got = call[d].got \cup {s})
           /\ call'[d] \in Offboarding =>
                call[d] \in Offboarding /\ call'[d].e = call[d].e /\ call'[d].got = call[d].got
    BY <1>1, <1>2, <1>3
  <2> HIDE DEF e
  <2>2. /\ grants' \subseteq Systems \X (Employees \cup {Name(x) : x \in Employees})
        /\ fate' \in [Systems -> [Employees -> {"held", "revoked", "failed", "unwired", "regranted"}]]
        /\ bereft' \subseteq Systems \X Employees
        /\ TakenIsGone' /\ ReportedNotHeld' /\ GivenIsThere'
    BY <1>1, <1>6, <2>1, GiveKeeps
  <2>3. SagaTypes'
    BY <1>2, <1>4, <2>2 DEF SagaTypes
  <2> QED
    BY <1>5, <2>2, <2>3
<1>7. ASSUME UNCHANGED <<grants, fate, bereft>>, s \in wired => Move(c, pc)
      PROVE  SagaInv'
  BY <1>1, <1>2, <1>3, <1>4, <1>5, <1>7, UngivenKeeps
<1> QED
  BY <1>6, <1>7

(* The account at the repository host, ... *)
LEMMA ProvisionAccountKeeps ==
  ASSUME SagaInv, NEW c \in Calls, ProvisionAccount(c)
  PROVE  SagaInv'
<1>1. call[c] \in Onboarding /\ "vcs" \in Systems
  BY CallKinds DEF SagaInv, ProvisionAccount, At, Systems
<1>2. /\ UNCHANGED <<engine, wired, status, tasks, hold, report, told, asked, rewritten>>
      /\ Move(c, "storage") \/ Got(c, "vcs", "storage")
      /\ Fault \/ NoFault
      /\ \/ Give("vcs", call[c].e)
         \/ UNCHANGED <<grants, fate, bereft>> /\ ("vcs" \in wired => Move(c, "storage"))
  BY DEF ProvisionAccount
<1> QED
  BY <1>1, <1>2, ProvisionKeeps

(* ... and the workspace, which another user of that name may have. *)
LEMMA ProvisionWorkspaceKeeps ==
  ASSUME SagaInv, NEW c \in Calls, ProvisionWorkspace(c)
  PROVE  SagaInv'
<1>1. call[c] \in Onboarding /\ "storage" \in Systems
  BY CallKinds DEF SagaInv, ProvisionWorkspace, At, Systems
<1>2. /\ UNCHANGED <<engine, wired, status, tasks, hold, report, told, asked, rewritten>>
      /\ Move(c, "answer") \/ Got(c, "storage", "answer")
      /\ Fault \/ NoFault
      /\ \/ Give("storage", call[c].e)
         \/ UNCHANGED <<grants, fate, bereft>> /\ ("storage" \in wired => Move(c, "answer"))
  BY DEF ProvisionWorkspace
<1> QED
  BY <1>1, <1>2, ProvisionKeeps

(* The result of an onboarding is what it was given. *)
LEMMA AnswerOnboardKeeps ==
  ASSUME SagaInv, NEW c \in Calls, AnswerOnboard(c)
  PROVE  SagaInv'
<1> USE DEF SagaInv
<1> DEFINE e == call[c].e
<1>1. call[c] \in Onboarding /\ e \in Employees /\ call[c].got \subseteq Systems
  BY CallKinds DEF AnswerOnboard, At, Onboarding
<1>2. /\ told' = [told EXCEPT ![e] = call[c].got] /\ Done(c)
      /\ UNCHANGED <<engine, wired, status, tasks, hold, grants, report, faults, fate, bereft,
                     asked, rewritten>>
  BY DEF AnswerOnboard
<1>3. \A d \in Calls : call'[d] \in Onboarding \cup Offboarding => call'[d] = call[d]
  BY <1>2, DoneChanges
<1>4. \A x \in Employees : told'[x] = IF x = e THEN call[c].got ELSE told[x]
  BY <1>1, <1>2 DEF SagaTypes
<1>5. SagaTypes' /\ HoldsExplained'
  BY <1>1, <1>2, DoneChanges DEF SagaTypes, HoldsExplained
<1>6. TakenIsGone'
  BY <1>2 DEF TakenIsGone, Has, Key
<1>7. ReportedNotHeld'
  BY <1>2, <1>3 DEF ReportedNotHeld
<1>8. GivenIsThere'
  <2> SUFFICES ASSUME NEW s \in wired, NEW x \in Employees,
                      <<s, Key(s, x)>> \notin grants, <<s, x>> \notin bereft
               PROVE  /\ s \notin told'[x]
                      /\ \A d \in Calls : call'[d] \in Onboarding /\ call'[d].e = x => s \notin call'[d].got
    BY <1>2 DEF GivenIsThere, Has, Key
  <2> QED
    BY <1>1, <1>3, <1>4 DEF GivenIsThere, Has
<1> QED
  BY <1>5, <1>6, <1>7, <1>8

(* Leaving: an employee nobody knows ends the call, ... *)
LEMMA FetchEmployeeKeeps ==
  ASSUME SagaInv, NEW c \in Calls, FetchEmployee(c)
  PROVE  SagaInv'
<1> USE DEF SagaInv
<1>1. call[c] \in Offboarding /\ "vcs" \in Systems
  BY CallKinds DEF FetchEmployee, At, Systems
<1>2. /\ Move(c, "status") \/ Done(c)
      /\ UNCHANGED <<faults, engine, wired, status, tasks, hold, grants, report, told, fate, bereft,
                     asked, rewritten>>
  BY DEF FetchEmployee
<1>3. /\ call' \in [Calls -> {Unused, Over} \cup Onboarding \cup Offboarding]
      /\ Carried
  <2>1. CASE Move(c, "status")
    <3>1. /\ call' \in [Calls -> {Unused, Over} \cup Onboarding \cup Offboarding]
          /\ call'[c] \in Offboarding /\ call'[c].e = call[c].e /\ call'[c].got = call[c].got
          /\ \A d \in Calls \ {c} : call'[d] = call[d]
      BY <1>1, <2>1, OffboardMoves
    <3>2. call'[c] \notin Onboarding
      BY <3>1 DEF Onboarding, Offboarding
    <3> QED
      BY <1>1, <3>1, <3>2 DEF Carried
  <2>2. CASE Done(c)
    BY <2>2, DoneChanges DEF Carried
  <2> QED
    BY <1>2, <2>1, <2>2
<1>4. SagaTypes' /\ HoldsExplained'
  BY <1>2, <1>3 DEF SagaTypes, HoldsExplained
<1> QED
  BY <1>2, <1>3, <1>4, CarriedKeeps

(* ... and so does a status that cannot be written. *)
LEMMA UpdateEmployeeStatusKeeps ==
  ASSUME SagaInv, NEW c \in Calls, UpdateEmployeeStatus(c)
  PROVE  SagaInv'
<1> USE DEF SagaInv
<1>1. /\ call[c] \in Offboarding /\ "vcs" \in Systems
      /\ call[c].e \in Employees /\ call[c].to \in Statuses
  BY CallKinds DEF UpdateEmployeeStatus, At, Systems, Offboarding, Statuses
<1>2. /\ UNCHANGED <<engine, wired, tasks, hold, grants, report, told, fate, bereft, asked, rewritten>>
      /\ Move(c, "sessions") \/ Done(c)
      /\ status' = [status EXCEPT ![call[c].e] = call[c].to] \/ UNCHANGED status
      /\ Fault \/ NoFault
  BY DEF UpdateEmployeeStatus
<1>3. status' \in [Employees -> Statuses] /\ faults' \in 0 .. MaxFaults
  BY <1>1, <1>2 DEF SagaTypes, Fault, NoFault
<1>4. /\ call' \in [Calls -> {Unused, Over} \cup Onboarding \cup Offboarding]
      /\ Carried
  <2>1. CASE Move(c, "sessions")
    <3>1. /\ call' \in [Calls -> {Unused, Over} \cup Onboarding \cup Offboarding]
          /\ call'[c] \in Offboarding /\ call'[c].e = call[c].e /\ call'[c].got = call[c].got
          /\ \A d \in Calls \ {c} : call'[d] = call[d]
      BY <1>1, <2>1, OffboardMoves
    <3>2. call'[c] \notin Onboarding
      BY <3>1 DEF Onboarding, Offboarding
    <3> QED
      BY <1>1, <3>1, <3>2 DEF Carried
  <2>2. CASE Done(c)
    BY <2>2, DoneChanges DEF Carried
  <2> QED
    BY <1>2, <2>1, <2>2
<1>5. SagaTypes' /\ HoldsExplained'
  BY <1>2, <1>3, <1>4 DEF SagaTypes, HoldsExplained
<1> QED
  BY <1>2, <1>4, <1>5, CarriedKeeps

(* One system is asked to shut e out.  Whoever has the same key loses it   *)
(* too, and so does an onboarding of e that is under way.                  *)
LEMMA TakeAwayKeeps ==
  ASSUME SagaInv, NEW c \in Calls, NEW s \in Systems, TakeAway(c, s)
  PROVE  SagaInv'
<1> USE DEF SagaInv
<1> DEFINE e == call[c].e
           lost == {x \in Namesakes(s, e) : x # e \/ Joining(x)}
<1>1. call[c] \in Offboarding /\ e \in Employees
  BY CallKinds DEF TakeAway, At, Offboarding
<1>2. /\ told' = [told EXCEPT ![e] = @ \ {s}]
      /\ UNCHANGED <<engine, wired, status, tasks, hold, report, asked, rewritten>>
      /\ Fault \/ NoFault
      /\ Move(c, NextSystem[s]) \/ Got(c, s, NextSystem[s])
  BY DEF TakeAway
<1>3. PICK why \in {"revoked", "unwired", "failed"} : fate' = [fate EXCEPT ![s][e] = why]
  BY DEF TakeAway, Take, Kept
<1>4. \/ why = "revoked" /\ Take(s, e)
      \/ why # "revoked" /\ UNCHANGED <<grants, bereft>>
  BY <1>1, <1>3 DEF TakeAway, Take, Kept, SagaTypes
<1>5. NextSystem[s] \in {"fetch", "status", "sessions", "vcs", "storage", "hold"}
  BY DEF NextSystem, Systems
<1>6. /\ call' \in [Calls -> {Unused, Over} \cup Onboarding \cup Offboarding]
      /\ call'[c] \in Offboarding /\ call'[c].e = e
      /\ call'[c].got \subseteq call[c].got \cup {s}
      /\ \A d \in Calls \ {c} : call'[d] = call[d]
  <2> HIDE DEF e
  <2>1. /\ call' \in [Calls -> {Unused, Over} \cup Onboarding \cup Offboarding]
        /\ call'[c] \in Offboarding /\ call'[c].e = call[c].e
        /\ call'[c].got = IF Move(c, NextSystem[s]) THEN call[c].got ELSE call[c].got \cup {s}
        /\ \A d \in Calls \ {c} : call'[d] = call[d]
    BY <1>1, <1>2, <1>5, OffboardMoves
  <2> QED
    BY <2>1 DEF e
<1>7. call'[c] \notin Onboarding
  BY <1>6 DEF Onboarding, Offboarding
<1>8. /\ fate' \in [Systems -> [Employees -> {"held", "revoked", "failed", "unwired", "regranted"}]]
      /\ fate'[s][e] = why
      /\ \A r \in Systems, x \in Employees : r # s \/ x # e => fate'[r][x] = fate[r][x]
  BY <1>1, <1>3 DEF SagaTypes
<1>9. /\ told' \in [Employees -> SUBSET Systems] /\ s \notin told'[e]
      /\ \A x \in Employees : told'[x] \subseteq told[x]
  BY <1>1, <1>2 DEF SagaTypes
<1>10. \A r \in Systems, x \in Employees :
         /\ <<r, Key(r, x)>> \in grants' => Has(r, x) /\ (why = "revoked" => r # s \/ x \notin Namesakes(s, e))
         /\ <<r, Key(r, x)>> \notin grants' => ~Has(r, x) \/ (r = s /\ x \in Namesakes(s, e))
         /\ <<r, Key(r, x)>> \notin grants' => ~Has(r, x) \/ why = "revoked"
         /\ <<r, x>> \notin bereft' => <<r, x>> \notin bereft /\ (why = "revoked" => r # s \/ x \notin lost)
  BY <1>4 DEF Take, Has, Namesakes, RevokedKey
<1>11. grants' \subseteq grants /\ bereft' \subseteq Systems \X Employees
  BY <1>4 DEF Take, SagaTypes, Namesakes
<1>12. e \in Namesakes(s, e)
  BY <1>1 DEF Namesakes
<1>13. Joining(e) <=> \E d \in Calls : call[d] \in Onboarding /\ call[d].e = e
  BY CallKinds DEF Joining
<1>14. \A x \in Namesakes(s, e) : x \notin lost => x = e /\ ~Joining(e)
  OBVIOUS
<1> HIDE DEF e, lost
<1>15. SagaTypes' /\ HoldsExplained'
  <2>1. faults' \in 0 .. MaxFaults
    BY <1>2 DEF Fault, NoFault, SagaTypes
  <2> QED
    BY <1>2, <1>6, <1>8, <1>9, <1>11, <2>1 DEF SagaTypes, HoldsExplained
<1>16. TakenIsGone'
  <2> SUFFICES ASSUME NEW r \in Systems, NEW x \in Employees, <<r, Key(r, x)>> \in grants'
               PROVE  fate'[r][x] # "revoked"
    BY DEF TakenIsGone, Has, Key
  <2>1. Has(r, x) /\ (why = "revoked" => r # s \/ x # e)
    BY <1>10, <1>12
  <2> QED
    BY <1>8, <2>1 DEF TakenIsGone
<1>17. ReportedNotHeld'
  <2> SUFFICES ASSUME NEW r \in Systems, NEW x \in Employees, fate'[r][x] = "held"
               PROVE  /\ r \notin report[x]
                      /\ \A d \in Calls : call'[d] \in Offboarding /\ call'[d].e = x => r \notin call'[d].got
    BY <1>2 DEF ReportedNotHeld
  <2>1. (r # s \/ x # e) /\ fate[r][x] = "held"
    BY <1>8
  <2> QED
    BY <1>1, <1>6, <2>1 DEF ReportedNotHeld, e
<1>18. GivenIsThere'
  <2> SUFFICES ASSUME NEW r \in wired, NEW x \in Employees,
                      <<r, Key(r, x)>> \notin grants', <<r, x>> \notin bereft'
               PROVE  /\ r \notin told'[x]
                      /\ \A d \in Calls : call'[d] \in Onboarding /\ call'[d].e = x => r \notin call'[d].got
    BY <1>2 DEF GivenIsThere, Has, Key
  <2>1. r \in Systems /\ <<r, x>> \notin bereft
    BY <1>10 DEF SagaTypes
  <2>2. \A d \in Calls : call'[d] \in Onboarding => call'[d] = call[d]
    BY <1>6, <1>7
  <2>3. CASE ~Has(r, x)
    BY <1>9, <2>1, <2>2, <2>3 DEF GivenIsThere
  <2>4. CASE Has(r, x)
    <3>1. r = s /\ x = e /\ ~Joining(e)
      BY <1>10, <1>14, <2>1, <2>4
    <3> QED
      BY <1>9, <1>13, <2>2, <3>1
  <2> QED
    BY <2>3, <2>4
<1> QED
  BY <1>15, <1>16, <1>17, <1>18

(* The result of an offboarding; a cat that leaves is put on hold. *)
LEMMA AnswerOffboardKeeps ==
  ASSUME SagaInv, NEW c \in Calls, AnswerOffboard(c)
  PROVE  SagaInv'
<1> USE DEF SagaInv
<1> DEFINE e == call[c].e
<1>1. call[c] \in Offboarding /\ e \in Employees /\ call[c].got \subseteq Systems
  BY CallKinds DEF AnswerOffboard, At, Offboarding
<1>2. /\ report' = [report EXCEPT ![e] = call[c].got] /\ Done(c)
      /\ UNCHANGED <<engine, wired, status, tasks, grants, told, fate, bereft>>
      /\ Fault \/ NoFault
  BY DEF AnswerOffboard
<1>3. \/ /\ e \in Cats /\ hold' = [hold EXCEPT ![e] = "on"]
         /\ asked' = asked \cup {e} /\ rewritten' = rewritten \ {e}
      \/ UNCHANGED <<hold, asked, rewritten>>
  BY DEF AnswerOffboard
<1>4. \A d \in Calls : call'[d] \in Onboarding \cup Offboarding => call'[d] = call[d]
  BY <1>2, DoneChanges
<1>5. \A x \in Employees : report'[x] = IF x = e THEN call[c].got ELSE report[x]
  BY <1>1, <1>2 DEF SagaTypes
<1>6. /\ hold' \in [Cats -> {"none", "off", "on"}] /\ asked' \subseteq Cats
      /\ rewritten' \subseteq Cats /\ HoldsExplained'
  BY <1>3 DEF SagaTypes, HoldsExplained
<1>7. SagaTypes'
  <2>1. faults' \in 0 .. MaxFaults
    BY <1>2 DEF Fault, NoFault, SagaTypes
  <2> QED
    BY <1>1, <1>2, <1>6, <2>1, DoneChanges DEF SagaTypes
<1>8. TakenIsGone'
  BY <1>2 DEF TakenIsGone, Has, Key
<1>9. ReportedNotHeld'
  BY <1>1, <1>2, <1>4, <1>5 DEF ReportedNotHeld
<1>10. GivenIsThere'
  <2> SUFFICES ASSUME NEW s \in wired, NEW x \in Employees,
                      <<s, Key(s, x)>> \notin grants, <<s, x>> \notin bereft
               PROVE  /\ s \notin told[x]
                      /\ \A d \in Calls : call'[d] \in Onboarding /\ call'[d].e = x => s \notin call'[d].got
    BY <1>2 DEF GivenIsThere, Has, Key
  <2> QED
    BY <1>4 DEF GivenIsThere, Has
<1> QED
  BY <1>6, <1>7, <1>8, <1>9, <1>10

(* A login to a portal gives a session. *)
LEMMA LogInKeeps ==
  ASSUME SagaInv, NEW e \in People, LogIn(e)
  PROVE  SagaInv'
<1> USE DEF SagaInv
<1>1. /\ e \in Employees /\ "sessions" \in Systems /\ Give("sessions", e)
      /\ UNCHANGED <<engine, wired, status, tasks, hold, call, report, told, faults, asked, rewritten>>
  BY DEF LogIn, Employees, Systems
<1>2. /\ grants' \subseteq Systems \X (Employees \cup {Name(x) : x \in Employees})
      /\ fate' \in [Systems -> [Employees -> {"held", "revoked", "failed", "unwired", "regranted"}]]
      /\ bereft' \subseteq Systems \X Employees
      /\ TakenIsGone' /\ ReportedNotHeld' /\ GivenIsThere'
  BY <1>1, GiveKeeps
<1>3. SagaTypes' /\ HoldsExplained'
  BY <1>1, <1>2 DEF SagaTypes, HoldsExplained
<1> QED
  BY <1>2, <1>3

(* The veterinary staff place a hold or lift it. *)
LEMMA SetMedicalHoldKeeps ==
  ASSUME SagaInv, NEW e \in Cats, NEW on \in BOOLEAN, SetMedicalHold(e, on)
  PROVE  SagaInv'
<1> USE DEF SagaInv
<1>1. /\ hold' = [hold EXCEPT ![e] = IF on THEN "on" ELSE "off"]
      /\ asked' = IF on THEN asked \cup {e} ELSE asked \ {e}
      /\ rewritten' = rewritten \ {e}
      /\ UNCHANGED <<engine, wired, status, tasks, grants, call, report, told, faults, fate, bereft>>
  BY DEF SetMedicalHold
<1>2. SagaTypes'
  BY <1>1 DEF SagaTypes
<1>3. HoldsExplained'
  <2>1. CASE on
    BY <1>1, <2>1 DEF HoldsExplained, SagaTypes
  <2>2. CASE ~on
    BY <1>1, <2>2 DEF HoldsExplained, SagaTypes
  <2> QED
    BY <2>1, <2>2
<1>4. Carried
  BY <1>1 DEF Carried
<1> QED
  BY <1>1, <1>2, <1>3, <1>4, CarriedKeeps

(* The invariant explains who may come in. *)
LEMMA SagaInvExplains == SagaInv => AccessExplained
<1> SUFFICES ASSUME SagaInv PROVE AccessExplained
  OBVIOUS
<1> USE DEF SagaInv
<1>1. LeaversExplained
  <2> SUFFICES ASSUME NEW e \in Employees, NEW s \in report[e], <<s, Key(s, e)>> \in grants
               PROVE  fate[s][e] \in {"failed", "unwired", "regranted"}
    BY DEF LeaversExplained
  <2>1. s \in Systems /\ fate[s][e] \in {"held", "revoked", "failed", "unwired", "regranted"}
    BY DEF SagaTypes
  <2> QED
    BY <2>1 DEF TakenIsGone, ReportedNotHeld, Has
<1>2. JoinersExplained
  BY DEF JoinersExplained, GivenIsThere, Has
<1> QED
  BY <1>1, <1>2 DEF AccessExplained

(* Every sequence of webhook calls, staff calls, logins and failures, with *)
(* any number of calls under way at once, leaves access that its history   *)
(* explains: what an offboarding reported as taken away is gone unless a   *)
(* system failed, was not wired or gave it again, what an onboarding       *)
(* reported as given is there unless another call took it, and a hold that *)
(* was placed stays until it is lifted or the cat is onboarded again.      *)
THEOREM AccessIsExplained == SagaSpec => []AccessExplained
<1>1. SagaInit => SagaInv
  BY SagaInitial
<1>2. SagaInv /\ [SagaNext]_sagaVars => SagaInv'
  <2> SUFFICES ASSUME SagaInv, [SagaNext]_sagaVars PROVE SagaInv'
    OBVIOUS
  <2>1. CASE UNCHANGED sagaVars
    <3>1. UNCHANGED <<engine, wired, status, tasks, hold, grants, call, report, told, faults,
                      fate, bereft, asked, rewritten>>
      BY <2>1 DEF sagaVars
    <3>2. SagaTypes' /\ HoldsExplained' /\ Carried
      BY <3>1 DEF SagaInv, SagaTypes, HoldsExplained, Carried
    <3> QED
      BY <3>1, <3>2, CarriedKeeps DEF SagaInv
  <2>2. CASE \E c \in Calls : \E e \in Employees, event \in {"employee_created", "employee_separated", "updated"},
                  st \in {"", "active"} : HandleHRWebhook(c, e, event, st)
    BY <2>2, HandleHRWebhookKeeps
  <2>3. CASE \E c \in Calls :
               \/ CreateEmployee(c) \/ CreateFails(c) \/ OnboardExtras(c)
               \/ ProvisionAccount(c) \/ ProvisionWorkspace(c) \/ AnswerOnboard(c)
    BY <2>3, CreateEmployeeKeeps, CreateFailsKeeps, OnboardExtrasKeeps, ProvisionAccountKeeps,
       ProvisionWorkspaceKeeps, AnswerOnboardKeeps
  <2>4. CASE \E c \in Calls :
               \/ FetchEmployee(c) \/ UpdateEmployeeStatus(c)
               \/ \E s \in Systems : TakeAway(c, s)
               \/ AnswerOffboard(c)
    BY <2>4, FetchEmployeeKeeps, UpdateEmployeeStatusKeeps, TakeAwayKeeps, AnswerOffboardKeeps
  <2>5. CASE \E e \in People : LogIn(e)
    BY <2>5, LogInKeeps
  <2>6. CASE \E e \in Cats, on \in BOOLEAN : SetMedicalHold(e, on)
    BY <2>6, SetMedicalHoldKeeps
  <2> QED
    BY <2>1, <2>2, <2>3, <2>4, <2>5, <2>6 DEF SagaNext
<1> QED
  BY <1>1, <1>2, SagaInvExplains, PTL DEF SagaSpec

-----------------------------------------------------------------------------
(* Access to the portals.                                                  *)
HIDE SagaAssumption
USE AccessAssumption

(* A number that stands for a session: it was made by a login or by a      *)
(* registration.                                                           *)
IsSession(n) == n \in Numbers /\ made[n].by \notin {Nobody, "auth"}
IsMade(n) == n \in Numbers /\ made[n].by # Nobody

(* Who makes the token an answer brings. *)
Maker(c, q) == CASE q.op = "login" -> c
                 [] q.op = "register" -> "register"
                 [] OTHER -> "auth"

(* A write of a page whose login came back: the header is the token of     *)
(* that login, and unless the session cookie is gone it is the one that    *)
(* came with the CSRF cookie.                                              *)
WriteFits(c, q) ==
    /\ IsMade(q.header) /\ made[q.header].by = c /\ made[q.header].owner = q.as
    /\ q.csrf # 0
    /\ q.csrf = q.header \/ made[q.csrf].by # c \/ "body" \in mishaps
    /\ made[q.csrf].by # "auth" => q.session \in {0, q.csrf}
    /\ q.session # 0 \/ expired # {}
    /\ q.status = "ok" => q.session # 0 /\ made[q.session].owner = q.as
    /\ q.status = "csrf" => "body" \in mishaps \/ made[q.csrf].by # c
    /\ q.status = "unauthorized" =>
           \/ q.session \in expired \cup ended
           \/ q.session = 0 /\ expired # {}
           \/ mishaps \cap {"restart", "valkey"} # {}

(* What a call carries, at each of its steps. *)
CallFits(c, s, q) ==
    /\ q \in Call
    /\ q.op = "login" <=> s # "act"
    /\ q.session # 0 => IsSession(q.session)
    /\ q.csrf # 0 => IsMade(q.csrf)
    /\ q.setCSRF # 0
    /\ q.setCSRF # Keep => IsMade(q.setCSRF) /\ made[q.setCSRF].by = Maker(c, q)
    /\ q.setSession \notin {Keep, 0} => q.op \in {"login", "register"}
    /\ q.op \in {"login", "register"} => q.setSession = q.setCSRF
    /\ q.step = "sent" => q.setCSRF = Keep
    /\ q.op = "login" => (q.status = "ok" <=> q.setCSRF # Keep)
    /\ q.op = "register" /\ q.step = "served" => registered
    /\ setting = "portal" =>
          /\ c \in Tabs /\ q.op # "logout" /\ q.setSession # 0
          /\ q.op = "login" /\ q.setCSRF # Keep => made[q.setCSRF].owner = q.as
          /\ q.op = "write" /\ q.settled => WriteFits(c, q)
    /\ setting = "driver" =>
          /\ c = Driver /\ q.op # "register" /\ q.route \in DOMAIN Allowed \cup {Nobody}
          /\ q.op = "write" => q.status # "csrf"
          /\ q.op = "write" /\ q.session # 0 => q.header = q.csrf /\ q.csrf # 0

CallsFit ==
    /\ exchange \in [Clients -> [Slots -> Call \cup {Idle}]]
    /\ \A c \in Clients, s \in Slots :
           exchange[c][s] # Idle => CallFits(c, s, exchange[c][s])

(* The cookies of a login or a registration come together, and a session   *)
(* cookie goes only when its session has expired.                          *)
CookiesFit ==
    /\ cookies \in [session: 0..MaxTokens, csrf: 0..MaxTokens]
    /\ cookies.session # 0 => IsSession(cookies.session)
    /\ cookies.csrf # 0 => IsMade(cookies.csrf)
    /\ setting = "portal" /\ cookies.csrf # 0 /\ made[cookies.csrf].by # "auth" =>
           cookies.session \in {0, cookies.csrf}

(* A page whose login came back has the token of that login, for the       *)
(* customer it shows, and the cookie is that token or another page's.      *)
PageFits(t) ==
    page[t].settled =>
        /\ setting = "portal"
        /\ IsMade(page[t].token) /\ made[page[t].token].by = t
        /\ made[page[t].token].owner = page[t].shown
        /\ cookies.csrf # 0
        /\ \/ cookies.csrf = page[t].token \/ made[cookies.csrf].by # t
           \/ "body" \in mishaps
        /\ cookies.session # 0 \/ expired # {}
PagesFit ==
    /\ page \in [Clients -> [shown: Customers \cup Roles \cup {Nobody, "new"},
                             token: Keep..MaxTokens, settled: BOOLEAN]]
    /\ \A t \in Tabs : PageFits(t)

(* As long as nothing went wrong, a page that is not settled waits for     *)
(* the login of the customer it shows.                                     *)
Untroubled == mishaps = {} /\ ~overlapped /\ ~registered
LoginsPending ==
    Untroubled =>
        \A t \in Tabs :
            /\ exchange[t]["again"] = Idle
            /\ page[t].shown # Nobody /\ ~page[t].settled => exchange[t]["login"] # Idle
            /\ exchange[t]["login"] # Idle =>
                   /\ exchange[t]["login"].as = page[t].shown
                   /\ exchange[t]["login"].step = "served" => exchange[t]["login"].status = "ok"

(* Sessions are kept until they are over, in the one store there is as     *)
(* long as Valkey answers.                                                 *)
SessionsKept ==
    /\ kept \in [{"valkey", "memory"} -> SUBSET Numbers]
    /\ backing \in {"valkey", "memory"} /\ address \in BOOLEAN
    /\ expired \subseteq Numbers /\ ended \subseteq Numbers
    /\ made \in [Numbers -> [owner: Customers \cup Roles \cup {Nobody, "new"},
                             by: Clients \cup {Nobody, "register", "auth"}]]
    /\ \A n \in ended : made[n].by # Nobody
    /\ \A n \in Numbers : IsSession(n) =>
           \/ n \in kept[backing] \/ n \in expired \cup ended
           \/ mishaps \cap {"restart", "valkey"} # {}
    /\ "valkey" \notin mishaps =>
           /\ backing = (IF address THEN "valkey" ELSE "memory")
           /\ \A b \in {"valkey", "memory"} : /\ b # backing => kept[b] = {}
                                              /\ ended \cap kept[b] = {}

(* The driver: it remembers a token whenever it has a session, and repeats *)
(* an action with the session of its second login.                         *)
DriverFits ==
    /\ setting \in {"portal", "driver"}
    /\ setting = "portal" => driving = "start"
    /\ page[Driver].shown \in Roles /\ page[Driver].token \in 0..MaxTokens
    /\ page[Driver].token # 0 => IsMade(page[Driver].token)
    /\ setting = "driver" /\ cookies.session # 0 => page[Driver].token # 0
    /\ driving = "retry" => cookies.session # 0 \/ expired # {}
    /\ driving = "retried" =>
          /\ exchange[Driver]["act"] # Idle
          /\ exchange[Driver]["act"].session # 0 \/ expired # {}
          /\ exchange[Driver]["act"].status = "unauthorized" =>
                 \/ exchange[Driver]["act"].session \in expired \cup ended \/ expired # {}
                 \/ mishaps \cap {"restart", "valkey"} # {}

(* In production the role is never what a request says. *)
RolesGiven ==
    setting = "driver" /\ prod =>
        \A n \in Numbers : made[n].owner \in {Nobody, HandleForgejoLogin}

AccessInv ==
    /\ CallsFit /\ CookiesFit /\ PagesFit /\ LoginsPending /\ SessionsKept /\ DriverFits
    /\ RolesGiven

(* What no step takes back: numbers stay what they are, and what went      *)
(* wrong or is over stays so.                                              *)
Grows ==
    /\ setting' = setting
    /\ \A n \in Numbers : made[n].by # Nobody => made'[n] = made[n]
    /\ mishaps \subseteq mishaps' /\ expired \subseteq expired' /\ ended \subseteq ended'
    /\ registered => registered'
    /\ overlapped => overlapped'

(* No page has a name that stands for something else. *)
LEMMA ClientNames ==
  /\ Driver \notin Tabs /\ Driver \in Clients
  /\ \A c \in Clients : c # Nobody /\ c # "register" /\ c # "auth"
  /\ \A t \in Tabs : t \in Clients /\ t # Driver
BY DEF Clients, Driver, Nobody

(* Numbers are neither of the two that stand for no cookie. *)
LEMMA NumbersAre ==
  /\ 0 \notin Numbers /\ Keep \notin Numbers /\ Keep # 0
  /\ \A n \in Numbers : n \in 0..MaxTokens /\ n \in Keep..MaxTokens /\ n # 0 /\ n # Keep
  /\ \A n \in 0..MaxTokens : n # 0 => n \in Numbers
  /\ \A n \in Keep..MaxTokens : n # 0 /\ n # Keep => n \in Numbers
  /\ \A n \in 0..MaxTokens : n \in Keep..MaxTokens /\ n # Keep
  /\ 0 \in 0..MaxTokens /\ 0 \in Keep..MaxTokens /\ Keep \in Keep..MaxTokens
  /\ \A n \in Keep..MaxTokens : n # Keep => n \in 0..MaxTokens
BY DEF Numbers, Keep

LEMMA IdleIsNoCall == Idle \notin Call /\ \A q \in Call : q.step \in {"sent", "served"}
<1>1. \A q \in Call : q.step \in {"sent", "served"}
  BY DEF Call
<1>2. Idle.step = "idle"
  BY DEF Idle
<1> QED BY <1>1, <1>2

(* What a number stands for, it stands for later. *)
LEMMA MadeStays ==
  ASSUME Grows, NEW n
  PROVE  /\ IsMade(n) => IsMade(n)' /\ made'[n] = made[n]
         /\ IsSession(n) => IsSession(n)' /\ IsMade(n)
<1>1. n \in Numbers /\ made[n].by # Nobody => made'[n] = made[n]
  BY DEF Grows
<1> QED BY <1>1 DEF IsMade, IsSession

(* A call that fits goes on to fit. *)
LEMMA WriteStays ==
  ASSUME Grows, NEW c, NEW q, WriteFits(c, q), q.csrf # 0 => IsMade(q.csrf),
         q.session # 0 => IsSession(q.session)
  PROVE  WriteFits(c, q)'
<1>1. /\ IsMade(q.header)' /\ made'[q.header] = made[q.header]
      /\ made'[q.csrf] = made[q.csrf]
      /\ q.session # 0 => made'[q.session] = made[q.session]
  BY MadeStays DEF WriteFits
<1>2. mishaps \subseteq mishaps' /\ expired \subseteq expired' /\ ended \subseteq ended'
  BY DEF Grows
<1> QED BY <1>1, <1>2 DEF WriteFits

LEMMA CallStays ==
  ASSUME Grows, NEW c, NEW s, NEW q, CallFits(c, s, q)
  PROVE  CallFits(c, s, q)'
<1>1. q.session # 0 => IsSession(q.session)'
  BY MadeStays DEF CallFits
<1>2. q.csrf # 0 => IsMade(q.csrf)'
  BY MadeStays DEF CallFits
<1>3. q.setCSRF # Keep => IsMade(q.setCSRF)' /\ made'[q.setCSRF] = made[q.setCSRF]
  BY MadeStays DEF CallFits
<1>4. Maker(c, q)' = Maker(c, q)
  BY DEF Maker
<1>5. setting = "portal" /\ q.op = "write" /\ q.settled => WriteFits(c, q)'
  BY WriteStays DEF CallFits
<1>6. setting' = setting /\ (registered => registered')
  BY DEF Grows
<1> QED BY <1>1, <1>2, <1>3, <1>4, <1>5, <1>6 DEF CallFits

(* One call moves, ... *)
LEMMA CallsMove ==
  ASSUME CallsFit, Grows, NEW c \in Clients, NEW s \in Slots, NEW a,
         exchange' = [exchange EXCEPT ![c][s] = a],
         a = Idle \/ CallFits(c, s, a)'
  PROVE  /\ CallsFit' /\ exchange'[c][s] = a
         /\ \A d \in Clients, r \in Slots : d # c \/ r # s => exchange'[d][r] = exchange[d][r]
<1>1. a \in Call \cup {Idle}
  BY DEF CallFits
<1>2. exchange' \in [Clients -> [Slots -> Call \cup {Idle}]]
  BY <1>1 DEF CallsFit
<1>3. /\ exchange'[c][s] = a
      /\ \A d \in Clients, r \in Slots : d # c \/ r # s => exchange'[d][r] = exchange[d][r]
  BY DEF CallsFit
<1>4. ASSUME NEW d \in Clients, NEW r \in Slots, exchange'[d][r] # Idle
      PROVE  CallFits(d, r, exchange[d][r])'
  <2>1. CASE d = c /\ r = s
    BY <1>3, <1>4, <2>1
  <2>2. CASE d # c \/ r # s
    <3>1. PICK q : q = exchange[d][r]
      OBVIOUS
    <3>2. exchange'[d][r] = q /\ CallFits(d, r, q)
      BY <1>3, <1>4, <2>2, <3>1 DEF CallsFit
    <3>3. CallFits(d, r, q)'
      BY <3>2, CallStays
    <3> QED BY <3>2, <3>3
  <2> QED BY <2>1, <2>2
<1> QED BY <1>2, <1>3, <1>4 DEF CallsFit

(* ... or none, or some are over. *)
LEMMA CallsFade ==
  ASSUME CallsFit, Grows, exchange' \in [Clients -> [Slots -> Call \cup {Idle}]],
         \A d \in Clients, r \in Slots : exchange'[d][r] \in {Idle, exchange[d][r]}
  PROVE  CallsFit'
<1>1. ASSUME NEW d \in Clients, NEW r \in Slots, exchange'[d][r] # Idle
      PROVE  CallFits(d, r, exchange[d][r])'
  <2>1. PICK q : q = exchange[d][r]
    OBVIOUS
  <2>2. exchange'[d][r] = q /\ CallFits(d, r, q)
    BY <1>1, <2>1 DEF CallsFit
  <2> QED BY <2>2, CallStays
<1> QED BY <1>1 DEF CallsFit

(* What an action leaves alone goes on to fit. *)
LEMMA CookiesStay ==
  ASSUME CookiesFit, Grows, UNCHANGED cookies PROVE CookiesFit'
<1>1. /\ cookies.session # 0 => IsSession(cookies.session)'
      /\ cookies.csrf # 0 => IsMade(cookies.csrf)' /\ made'[cookies.csrf] = made[cookies.csrf]
  <2>1. PICK n, m : n = cookies.session /\ m = cookies.csrf
    OBVIOUS
  <2>2. (n # 0 => IsSession(n)') /\ (m # 0 => IsMade(m)' /\ made'[m] = made[m])
    BY <2>1, MadeStays DEF CookiesFit
  <2> QED BY <2>1, <2>2
<1> QED BY <1>1 DEF CookiesFit, Grows

LEMMA PagesStay ==
  ASSUME CookiesFit, PagesFit, Grows, UNCHANGED cookies,
         page' \in [Clients -> [shown: Customers \cup Roles \cup {Nobody, "new"},
                                token: Keep..MaxTokens, settled: BOOLEAN]],
         \A t \in Tabs : page'[t] = page[t] \/ ~page'[t].settled
  PROVE  PagesFit'
<1>1. ASSUME NEW t \in Tabs, page'[t].settled PROVE PageFits(t)'
  <2>1. PICK n, m : n = page[t].token /\ m = cookies.csrf
    OBVIOUS
  <2>2. /\ page'[t] = page[t] /\ setting = "portal"
        /\ IsMade(n) /\ made[n].by = t /\ made[n].owner = page[t].shown
        /\ m # 0 /\ IsMade(m) /\ (m = n \/ made[m].by # t \/ "body" \in mishaps)
        /\ cookies.session # 0 \/ expired # {}
    BY <1>1, <2>1 DEF PagesFit, PageFits, CookiesFit
  <2>3. IsMade(n)' /\ made'[n] = made[n] /\ made'[m] = made[m]
    BY <2>2, MadeStays
  <2> QED BY <2>1, <2>2, <2>3 DEF PageFits, Grows
<1> QED BY <1>1 DEF PagesFit, PageFits

LEMMA LoginsStay ==
  ASSUME LoginsPending, Grows,
         \A t \in Tabs : /\ page'[t] = page[t]
                         /\ exchange'[t]["login"] = exchange[t]["login"]
                         /\ exchange'[t]["again"] = exchange[t]["again"]
  PROVE  LoginsPending'
BY DEF LoginsPending, Untroubled, Grows

LEMMA SessionsStay ==
  ASSUME SessionsKept, Grows, UNCHANGED <<kept, backing, address, expired, ended, made>>
  PROVE  SessionsKept'
BY DEF SessionsKept, Grows, IsSession

LEMMA DriverStays ==
  ASSUME DriverFits, Grows, UNCHANGED <<cookies, driving>>, page'[Driver] = page[Driver],
         exchange'[Driver]["act"] = exchange[Driver]["act"]
  PROVE  DriverFits'
<1>1. PICK n : n = page[Driver].token
  OBVIOUS
<1>2. n # 0 => IsMade(n)'
  BY <1>1, MadeStays DEF DriverFits
<1> QED BY <1>1, <1>2 DEF DriverFits, Grows

LEMMA RolesStay ==
  ASSUME RolesGiven, UNCHANGED <<setting, prod, forgejo, made>> PROVE RolesGiven'
BY DEF RolesGiven, HandleForgejoLogin

LEMMA AccessInitial == AccessInit => AccessInv
<1> SUFFICES ASSUME AccessInit PROVE AccessInv
  OBVIOUS
<1>1. CallsFit
  BY DEF AccessInit, CallsFit
<1>2. CookiesFit
  BY NumbersAre DEF AccessInit, CookiesFit
<1>3. PagesFit
  <2>1. PICK r \in Roles : page = [c \in Clients |-> [shown |-> IF c = Driver THEN r ELSE Nobody,
                                                     token |-> 0, settled |-> FALSE]]
    BY DEF AccessInit
  <2> QED BY <2>1, NumbersAre, ClientNames DEF PagesFit, PageFits
<1>4. LoginsPending
  <2>1. \A t \in Tabs : page[t].shown = Nobody
    BY ClientNames DEF AccessInit
  <2> QED BY <2>1, ClientNames DEF AccessInit, LoginsPending, Slots
<1>5. SessionsKept
  BY DEF AccessInit, SessionsKept, IsSession
<1>6. DriverFits
  <2>1. page[Driver].shown \in Roles /\ page[Driver].token = 0
    BY ClientNames DEF AccessInit
  <2> QED BY <2>1, NumbersAre DEF AccessInit, DriverFits
<1>7. RolesGiven
  BY DEF AccessInit, RolesGiven
<1> QED BY <1>1, <1>2, <1>3, <1>4, <1>5, <1>6, <1>7 DEF AccessInv

(* What is sent. *)
LEMMA SentFields ==
  ASSUME NEW op \in {"login", "register", "read", "write", "logout"},
         NEW x \in Customers \cup Roles \cup {"new"}
  PROVE  /\ Sent(op, x) \in Call /\ Sent(op, x).step = "sent" /\ Sent(op, x).op = op
         /\ Sent(op, x).as = x
         /\ Sent(op, x).session = 0 /\ Sent(op, x).csrf = 0 /\ Sent(op, x).header = 0
         /\ Sent(op, x).status = Nobody /\ Sent(op, x).route = Nobody
         /\ Sent(op, x).setSession = Keep /\ Sent(op, x).setCSRF = Keep
BY NumbersAre DEF Sent, Call

LEMMA RequestFields ==
  ASSUME CookiesFit, PagesFit, NEW c \in Clients,
         NEW op \in {"login", "register", "read", "write", "logout"},
         NEW x \in Customers \cup Roles \cup {"new"}, NEW a, a = Request(c, op, x)
  PROVE  /\ a \in Call /\ a.step = "sent" /\ a.op = op /\ a.as = x
         /\ a.settled = page[c].settled
         /\ a.session = cookies.session /\ a.csrf = cookies.csrf
         /\ a.header = (IF op = "write" THEN page[c].token ELSE 0) /\ a.status = Nobody
         /\ a.setSession = Keep /\ a.setCSRF = Keep /\ a.route = Nobody
<1>1. /\ page[c].settled \in BOOLEAN /\ page[c].token \in Keep..MaxTokens
      /\ cookies.session \in 0..MaxTokens /\ cookies.csrf \in 0..MaxTokens
  BY DEF CookiesFit, PagesFit
<1>2. PICK h, p, m, n : /\ h = (IF op = "write" THEN page[c].token ELSE 0)
                        /\ p = page[c].settled /\ m = cookies.session /\ n = cookies.csrf
  OBVIOUS
<1>3. h \in Keep..MaxTokens /\ p \in BOOLEAN /\ m \in 0..MaxTokens /\ n \in 0..MaxTokens
  BY <1>1, <1>2, NumbersAre
<1>4. a = [Sent(op, x) EXCEPT !.settled = p, !.session = m, !.csrf = n, !.header = h]
  BY <1>2 DEF Request
<1>5. a = [step |-> "sent", op |-> op, as |-> x, settled |-> p, route |-> Nobody,
           session |-> m, csrf |-> n, header |-> h, status |-> Nobody,
           setSession |-> Keep, setCSRF |-> Keep]
  BY <1>4 DEF Sent
<1>6. a \in Call
  <2>1. CASE p = TRUE
    BY <1>3, <1>5, <2>1, NumbersAre DEF Call
  <2>2. CASE p = FALSE
    BY <1>3, <1>5, <2>2, NumbersAre DEF Call
  <2> QED BY <1>3, <2>1, <2>2
<1> QED BY <1>2, <1>5, <1>6

(* A login that is sent carries nothing. *)
LEMMA LoginSent ==
  ASSUME Grows, NEW c \in Clients, NEW s \in {"login", "again"},
         NEW x \in Customers \cup Roles \cup {"new"},
         setting \in {"portal", "driver"},
         setting = "portal" => c \in Tabs, setting = "driver" => c = Driver
  PROVE  CallFits(c, s, Sent("login", x))'
<1>1. PICK a : a = Sent("login", x)
  OBVIOUS
<1>2. /\ a \in Call /\ a.step = "sent" /\ a.op = "login"
      /\ a.session = 0 /\ a.csrf = 0 /\ a.status = Nobody
      /\ a.setSession = Keep /\ a.setCSRF = Keep /\ a.route = Nobody
  BY <1>1, SentFields
<1>3. CallFits(c, s, a)'
  BY <1>2, NumbersAre DEF CallFits, Grows, Nobody
<1> QED BY <1>1, <1>3

(* Pages and clients: a page is loaded, ... *)
LEMMA MountKeeps ==
  ASSUME AccessInv, NEW t \in Tabs, Mount(t) PROVE AccessInv'
<1> USE DEF AccessInv
<1>1. /\ UNCHANGED <<setting, prod, forgejo, cookies, address, backing, kept, made,
                     expired, ended, driving, overlapped, registered, requests, mishaps>>
      /\ setting = "portal" /\ page[t].shown = Nobody
  BY DEF Mount
<1>2. Grows
  BY <1>1 DEF Grows
<1>3. PICK a : a = Sent("login", "arthur")
  OBVIOUS
<1>4. a \in Call /\ a.op = "login" /\ a.as = "arthur" /\ a.step = "sent"
  BY <1>3, SentFields DEF Customers
<1>5. CallFits(t, "login", a)'
  BY <1>1, <1>2, <1>3, LoginSent, ClientNames DEF Customers
<1>6. exchange' = [exchange EXCEPT ![t]["login"] = a]
  BY <1>3 DEF Mount
<1>7. /\ CallsFit' /\ exchange'[t]["login"] = a
      /\ \A d \in Clients, r \in Slots : d # t \/ r # "login" => exchange'[d][r] = exchange[d][r]
  BY <1>2, <1>5, <1>6, CallsMove, ClientNames DEF Slots
<1>8. /\ page' \in [Clients -> [shown: Customers \cup Roles \cup {Nobody, "new"},
                                token: Keep..MaxTokens, settled: BOOLEAN]]
      /\ page'[t].shown = "arthur" /\ ~page'[t].settled
      /\ \A d \in Clients : d # t => page'[d] = page[d]
  BY ClientNames, NumbersAre DEF Mount, PagesFit, Customers
<1>9. PagesFit'
  BY <1>1, <1>2, <1>8, PagesStay, ClientNames
<1>10. LoginsPending'
  <2> SUFFICES ASSUME Untroubled', NEW u \in Tabs
               PROVE  /\ exchange'[u]["again"] = Idle
                      /\ page'[u].shown # Nobody /\ ~page'[u].settled =>
                             exchange'[u]["login"] # Idle
                      /\ exchange'[u]["login"] # Idle =>
                             /\ exchange'[u]["login"].as = page'[u].shown
                             /\ exchange'[u]["login"].step = "served" =>
                                    exchange'[u]["login"].status = "ok"
    BY DEF LoginsPending
  <2>1. Untroubled
    BY <1>1 DEF Untroubled
  <2>2. exchange'[u]["again"] = Idle
    BY <1>7, <2>1, ClientNames DEF LoginsPending, Slots
  <2>3. CASE u = t
    BY <1>4, <1>7, <1>8, <2>2, <2>3, IdleIsNoCall
  <2>4. CASE u # t
    BY <1>7, <1>8, <2>1, <2>2, <2>4, ClientNames DEF LoginsPending, Slots
  <2> QED BY <2>3, <2>4
<1>11. DriverFits'
  BY <1>1, <1>2, <1>7, <1>8, DriverStays, ClientNames DEF Slots
<1> QED BY <1>1, <1>2, <1>7, <1>9, <1>10, <1>11, CookiesStay, SessionsStay, RolesStay

(* ... changes the customer it shows, ... *)
LEMMA TogglePersonaKeeps ==
  ASSUME AccessInv, NEW t \in Tabs, TogglePersona(t) PROVE AccessInv'
<1> USE DEF AccessInv
<1>1. /\ UNCHANGED <<setting, prod, forgejo, cookies, address, backing, kept, made,
                     expired, ended, driving, registered, mishaps>>
      /\ setting = "portal"
  BY DEF TogglePersona
<1>2. Grows
  <2>1. overlapped => overlapped'
    BY DEF TogglePersona
  <2> QED BY <1>1, <2>1 DEF Grows
<1>3. PICK who, s : /\ who = (IF page[t].shown = "arthur" THEN "chloe" ELSE "arthur")
                    /\ s = (IF exchange[t]["login"] = Idle THEN "login" ELSE "again")
  OBVIOUS
<1>4. PICK a : a = Sent("login", who)
  OBVIOUS
<1>5. who \in Customers /\ who # Nobody /\ s \in {"login", "again"} /\ s \in Slots
  BY <1>3 DEF Customers, Slots, Nobody
<1>6. a \in Call /\ a.op = "login" /\ a.as = who /\ a.step = "sent"
  BY <1>4, <1>5, SentFields
<1>7. CallFits(t, s, a)'
  BY <1>1, <1>2, <1>4, <1>5, LoginSent, ClientNames
<1>8. /\ exchange' = [exchange EXCEPT ![t][s] = a]
      /\ page' = [page EXCEPT ![t].shown = who, ![t].settled = FALSE]
      /\ ~overlapped' => exchange[t]["login"] = Idle /\ exchange[t]["again"] = Idle
  BY <1>3, <1>4 DEF TogglePersona
<1>9. /\ CallsFit' /\ exchange'[t][s] = a
      /\ \A d \in Clients, r \in Slots : d # t \/ r # s => exchange'[d][r] = exchange[d][r]
  <2>1. t \in Clients /\ s \in Slots /\ exchange' = [exchange EXCEPT ![t][s] = a]
    BY <1>5, <1>8, ClientNames
  <2> QED BY <1>2, <1>7, <2>1, CallsMove
<1>10. /\ page' \in [Clients -> [shown: Customers \cup Roles \cup {Nobody, "new"},
                                 token: Keep..MaxTokens, settled: BOOLEAN]]
       /\ page'[t].shown = who /\ ~page'[t].settled
       /\ \A d \in Clients : d # t => page'[d] = page[d]
  <2>1. t \in Clients /\ page[t] \in [shown: Customers \cup Roles \cup {Nobody, "new"},
                                      token: Keep..MaxTokens, settled: BOOLEAN]
    BY ClientNames DEF PagesFit
  <2> QED BY <1>5, <1>8, <2>1 DEF PagesFit
<1>11. PagesFit'
  BY <1>1, <1>2, <1>10, PagesStay, ClientNames
<1>12. LoginsPending'
  <2> SUFFICES ASSUME Untroubled', NEW u \in Tabs
               PROVE  /\ exchange'[u]["again"] = Idle
                      /\ page'[u].shown # Nobody /\ ~page'[u].settled =>
                             exchange'[u]["login"] # Idle
                      /\ exchange'[u]["login"] # Idle =>
                             /\ exchange'[u]["login"].as = page'[u].shown
                             /\ exchange'[u]["login"].step = "served" =>
                                    exchange'[u]["login"].status = "ok"
    BY DEF LoginsPending
  <2>1. Untroubled /\ s = "login"
    BY <1>1, <1>2, <1>3, <1>8 DEF Untroubled, Grows
  <2>2. exchange'[u]["again"] = Idle
    BY <1>9, <2>1, ClientNames DEF LoginsPending, Slots
  <2>3. CASE u = t
    BY <1>6, <1>9, <1>10, <2>1, <2>2, <2>3, IdleIsNoCall
  <2>4. CASE u # t
    BY <1>9, <1>10, <2>1, <2>2, <2>4, ClientNames DEF LoginsPending, Slots
  <2> QED BY <2>3, <2>4
<1>13. DriverFits'
  BY <1>1, <1>2, <1>9, <1>10, DriverStays, ClientNames DEF Slots
<1> QED BY <1>1, <1>2, <1>9, <1>11, <1>12, <1>13, CookiesStay, SessionsStay, RolesStay

(* ... and registers, reads or writes: what it writes once it is settled   *)
(* carries the token of its login.                                         *)
LEMMA PageAsksKeeps ==
  ASSUME AccessInv, NEW t \in Tabs, NEW op \in {"register", "read", "write"}, PageAsks(t, op)
  PROVE  AccessInv'
<1> USE DEF AccessInv
<1>1. /\ UNCHANGED <<setting, prod, forgejo, cookies, page, address, backing, kept, made,
                     expired, ended, driving, overlapped, registered, mishaps>>
      /\ setting = "portal" /\ page[t].shown # Nobody
  BY DEF PageAsks
<1>2. Grows
  BY <1>1 DEF Grows
<1>3. PICK a : a = (IF op = "register" THEN Sent(op, "new") ELSE Request(t, op, page[t].shown))
  OBVIOUS
<1>4. page[t].shown \in Customers \cup Roles \cup {"new"} /\ t \in Clients
  BY <1>1, ClientNames DEF PagesFit
<1>5. ASSUME op = "register" PROVE CallFits(t, "act", a)'
  <2>1. /\ a \in Call /\ a.step = "sent" /\ a.op = "register"
        /\ a.session = 0 /\ a.csrf = 0 /\ a.setSession = Keep /\ a.setCSRF = Keep
    BY <1>3, <1>5, SentFields
  <2> QED BY <1>1, <2>1, NumbersAre DEF CallFits
<1>6. ASSUME op # "register" PROVE CallFits(t, "act", a)'
  <2>1. /\ a \in Call /\ a.step = "sent" /\ a.op = op /\ a.as = page[t].shown
        /\ a.settled = page[t].settled /\ a.session = cookies.session /\ a.csrf = cookies.csrf
        /\ a.header = (IF op = "write" THEN page[t].token ELSE 0) /\ a.status = Nobody
        /\ a.setSession = Keep /\ a.setCSRF = Keep
    BY <1>3, <1>4, <1>6, RequestFields
  <2>2. (a.session # 0 => IsSession(a.session)) /\ (a.csrf # 0 => IsMade(a.csrf))
    BY <2>1 DEF CookiesFit
  <2>3. op = "write" /\ a.settled => WriteFits(t, a)
    BY <1>1, <2>1 DEF CookiesFit, PagesFit, PageFits, WriteFits, Nobody
  <2>4. CallFits(t, "act", a)
    BY <1>1, <1>6, <2>1, <2>2, <2>3, NumbersAre DEF CallFits
  <2> QED BY <1>2, <2>4, CallStays
<1>7. exchange' = [exchange EXCEPT ![t]["act"] = a]
  BY <1>3 DEF PageAsks
<1>8. CallFits(t, "act", a)'
  BY <1>5, <1>6
<1>9. /\ CallsFit'
      /\ \A d \in Clients, r \in Slots : d # t \/ r # "act" => exchange'[d][r] = exchange[d][r]
  BY <1>2, <1>4, <1>7, <1>8, CallsMove DEF Slots
<1>10. PagesFit'
  BY <1>1, <1>2, PagesStay DEF PagesFit
<1>11. LoginsPending'
  BY <1>1, <1>2, <1>9, LoginsStay, ClientNames DEF Slots
<1>12. DriverFits'
  BY <1>1, <1>2, <1>9, DriverStays, ClientNames DEF Slots
<1> QED BY <1>1, <1>2, <1>9, <1>10, <1>11, <1>12, CookiesStay, SessionsStay, RolesStay

(* The driver logs in, ... *)
LEMMA AuthenticatePersonaKeeps ==
  ASSUME AccessInv, AuthenticatePersona PROVE AccessInv'
<1> USE DEF AccessInv
<1>1. /\ UNCHANGED <<setting, prod, forgejo, cookies, page, address, backing, kept, made,
                     expired, ended, driving, overlapped, registered, requests, mishaps>>
      /\ setting = "driver" /\ driving # "retried"
  BY DEF AuthenticatePersona
<1>2. Grows
  BY <1>1 DEF Grows
<1>3. PICK x : x = page[Driver].shown
  OBVIOUS
<1>4. PICK a : a = Sent("login", x)
  OBVIOUS
<1>5. x \in Customers \cup Roles \cup {"new"}
  BY <1>3 DEF DriverFits
<1>6. CallFits(Driver, "login", a)'
  BY <1>1, <1>2, <1>4, <1>5, LoginSent, ClientNames
<1>7. exchange' = [exchange EXCEPT ![Driver]["login"] = a]
  BY <1>3, <1>4 DEF AuthenticatePersona
<1>8. /\ CallsFit'
      /\ \A d \in Clients, r \in Slots : d # Driver \/ r # "login" => exchange'[d][r] = exchange[d][r]
  BY <1>2, <1>6, <1>7, CallsMove, ClientNames DEF Slots
<1>9. PagesFit'
  BY <1>1, <1>2, PagesStay DEF PagesFit
<1>10. LoginsPending'
  BY <1>1, <1>2, <1>8, LoginsStay, ClientNames DEF Slots
<1>11. DriverFits'
  BY <1>1, <1>2, <1>8, DriverStays, ClientNames DEF Slots
<1> QED BY <1>1, <1>2, <1>8, <1>9, <1>10, <1>11, CookiesStay, SessionsStay, RolesStay

(* ... and asks, with the cookie's token in the header. *)
LEMMA DriverRequest ==
  ASSUME CookiesFit, PagesFit, DriverFits, setting = "driver",
         NEW op \in {"read", "write", "logout"}, NEW route \in DOMAIN Allowed \cup {Nobody},
         NEW a, a = DoRequest(op, route)
  PROVE  /\ CallFits(Driver, "act", a) /\ a.session = cookies.session /\ a.status = Nobody
         /\ a.step = "sent"
         /\ Header \in 0..MaxTokens /\ (Header # 0 => IsMade(Header))
<1>1. PICK x : x = page[Driver].shown
  OBVIOUS
<1>2. PICK q : q = Request(Driver, op, x)
  OBVIOUS
<1>3. x \in Customers \cup Roles \cup {"new"} /\ Driver \in Clients
  BY <1>1, ClientNames DEF DriverFits
<1>4. /\ q \in Call /\ q.step = "sent" /\ q.op = op
      /\ q.session = cookies.session /\ q.status = Nobody
      /\ q.setSession = Keep /\ q.setCSRF = Keep
  BY <1>2, <1>3, RequestFields
<1>5. PICK h, m : h = (IF op = "write" THEN Header ELSE 0)
                  /\ m = (IF op = "write" THEN Header ELSE cookies.csrf)
  OBVIOUS
<1>6. /\ Header \in 0..MaxTokens /\ (cookies.session # 0 => Header # 0)
      /\ Header # 0 => IsMade(Header)
  BY DEF Header, CookiesFit, DriverFits
<1>7. h \in Keep..MaxTokens /\ m \in 0..MaxTokens
  BY <1>5, <1>6, NumbersAre DEF CookiesFit
<1>8. a = [q EXCEPT !.route = route, !.csrf = m, !.header = h]
  BY <1>1, <1>2, <1>5 DEF DoRequest
<1>9. route \in {Nobody, "tickets", "push", "quant"}
  BY DEF Allowed
<1>10. a \in Call
  BY <1>4, <1>7, <1>8, <1>9, NumbersAre DEF Call
<1>11. /\ a.step = "sent" /\ a.op = op /\ a.session = cookies.session /\ a.csrf = m /\ a.header = h
       /\ a.status = Nobody /\ a.setSession = Keep /\ a.setCSRF = Keep /\ a.route = route
  BY <1>4, <1>8 DEF Call
<1>12. a.session # 0 => IsSession(a.session)
  BY <1>11 DEF CookiesFit
<1>13. op = "write" /\ a.session # 0 => h = m /\ m # 0
  BY <1>5, <1>6, <1>11
<1>14. m # 0 => IsMade(m)
  BY <1>5, <1>6 DEF CookiesFit
<1> QED BY <1>6, <1>10, <1>11, <1>12, <1>13, <1>14, NumbersAre DEF CallFits, Nobody

(* Its token becomes the cookie; no page has a cookie of its own then. *)
LEMMA DriverAsks ==
  ASSUME AccessInv, setting = "driver",
         NEW op \in {"read", "write", "logout"}, NEW route \in DOMAIN Allowed \cup {Nobody},
         exchange' = [exchange EXCEPT ![Driver]["act"] = DoRequest(op, route)],
         cookies' = [cookies EXCEPT !.csrf = IF op = "write" THEN Header ELSE @],
         UNCHANGED <<setting, prod, forgejo, page, address, backing, kept, made,
                     expired, ended, overlapped, registered, mishaps>>,
         \/ driving' = driving /\ driving = "ready"
         \/ driving' = "retried" /\ driving = "retry"
  PROVE  AccessInv'
<1> USE DEF AccessInv
<1>1. Grows
  BY DEF Grows
<1>2. PICK a : a = DoRequest(op, route)
  OBVIOUS
<1>3. /\ CallFits(Driver, "act", a) /\ a.session = cookies.session /\ a.status = Nobody
      /\ a.step = "sent" /\ Header \in 0..MaxTokens /\ (Header # 0 => IsMade(Header))
  BY <1>2, DriverRequest
<1>4. /\ CallsFit' /\ exchange'[Driver]["act"] = a
      /\ \A d \in Clients, r \in Slots : d # Driver \/ r # "act" => exchange'[d][r] = exchange[d][r]
  <2>1. CallFits(Driver, "act", a)'
    BY <1>1, <1>3, CallStays
  <2>2. Driver \in Clients /\ "act" \in Slots /\ exchange' = [exchange EXCEPT ![Driver]["act"] = a]
    BY <1>2, ClientNames DEF Slots
  <2> QED BY <1>1, <2>1, <2>2, CallsMove
<1>5. CookiesFit'
  <2>1. /\ cookies' \in [session: 0..MaxTokens, csrf: 0..MaxTokens]
        /\ cookies'.session = cookies.session
        /\ cookies'.csrf = (IF op = "write" THEN Header ELSE cookies.csrf)
    BY <1>3 DEF CookiesFit
  <2>2. PICK m, n : m = cookies'.session /\ n = cookies'.csrf
    OBVIOUS
  <2>3. (m # 0 => IsSession(m)) /\ (n # 0 => IsMade(n))
    BY <1>3, <2>1, <2>2 DEF CookiesFit
  <2>4. (m # 0 => IsSession(m)') /\ (n # 0 => IsMade(n)')
    BY <1>1, <2>3, MadeStays
  <2> QED BY <1>1, <2>1, <2>2, <2>4 DEF CookiesFit, Grows
<1>6. PagesFit'
  BY DEF PagesFit, PageFits
<1>7. LoginsPending'
  BY <1>1, <1>4, LoginsStay, ClientNames DEF Slots
<1>8. DriverFits'
  <2>1. a # Idle /\ a.status # "unauthorized"
    BY <1>3, IdleIsNoCall DEF CallFits, Nobody
  <2>2. cookies'.session = cookies.session
    BY DEF CookiesFit
  <2>3. PICK n : n = page[Driver].token
    OBVIOUS
  <2>4. n # 0 => IsMade(n)'
    BY <1>1, <2>3, MadeStays DEF DriverFits
  <2> QED BY <1>3, <1>4, <2>1, <2>2, <2>3, <2>4 DEF DriverFits
<1> QED BY <1>1, <1>4, <1>5, <1>6, <1>7, <1>8, SessionsStay, RolesStay

LEMMA ExecuteKeeps ==
  ASSUME AccessInv, NEW op \in {"read", "write", "logout"}, NEW r \in DOMAIN Allowed,
         Execute(op, r)
  PROVE  AccessInv'
<1>1. /\ setting = "driver" /\ driving' = driving /\ driving = "ready"
      /\ exchange' = [exchange EXCEPT ![Driver]["act"] = DoRequest(op, r)]
      /\ cookies' = [cookies EXCEPT !.csrf = IF op = "write" THEN Header ELSE @]
      /\ UNCHANGED <<setting, prod, forgejo, page, address, backing, kept, made,
                     expired, ended, overlapped, registered, mishaps>>
  BY DEF Execute
<1> QED BY <1>1, DriverAsks

LEMMA RetryKeeps == ASSUME AccessInv, Retry PROVE AccessInv'
<1>1. PICK q : q = exchange[Driver]["act"]
  OBVIOUS
<1>2. driving = "retry" /\ setting = "driver" /\ q # Idle /\ q.step = "served"
  <2>1. Idle.step = "idle"
    BY DEF Idle
  <2> QED BY <1>1, <2>1 DEF Retry, AccessInv, DriverFits
<1>3. q.op \in {"read", "write", "logout"} /\ q.route \in DOMAIN Allowed \cup {Nobody}
  <2>1. CallFits(Driver, "act", q)
    BY <1>1, <1>2, ClientNames DEF AccessInv, CallsFit, Slots
  <2>2. q.op \in {"login", "register", "read", "write", "logout"}
    BY <2>1 DEF CallFits, Call
  <2> QED BY <1>2, <2>1, <2>2 DEF CallFits
<1>4. /\ exchange' = [exchange EXCEPT ![Driver]["act"] = DoRequest(q.op, q.route)]
      /\ cookies' = [cookies EXCEPT !.csrf = IF q.op = "write" THEN Header ELSE @]
      /\ driving' = "retried"
      /\ UNCHANGED <<setting, prod, forgejo, page, address, backing, kept, made,
                     expired, ended, overlapped, registered, mishaps>>
  BY <1>1 DEF Retry
<1> QED BY <1>2, <1>3, <1>4, DriverAsks

(* The driver starts again without cookies. *)
LEMMA LoadTokensFileKeeps == ASSUME AccessInv, LoadTokensFile PROVE AccessInv'
<1> USE DEF AccessInv
<1>1. /\ UNCHANGED <<setting, prod, forgejo, page, exchange, address, backing, kept, made,
                     expired, ended, overlapped, registered>>
      /\ setting = "driver" /\ mishaps \subseteq mishaps'
      /\ cookies' = [session |-> 0, csrf |-> 0] /\ driving' = "start"
  BY DEF LoadTokensFile, Mishap
<1>2. Grows
  BY <1>1 DEF Grows
<1>3. CallsFit'
  BY <1>1, <1>2, CallsFade DEF CallsFit
<1>4. CookiesFit'
  BY <1>1, NumbersAre DEF CookiesFit
<1>5. PagesFit'
  BY <1>1 DEF PagesFit, PageFits
<1>6. DriverFits'
  <2>1. PICK n : n = page[Driver].token
    OBVIOUS
  <2>2. n # 0 => IsMade(n)'
    BY <1>2, <2>1, MadeStays DEF DriverFits
  <2> QED BY <1>1, <2>1, <2>2 DEF DriverFits
<1>7. LoginsPending'
  BY <1>1, <1>2, LoginsStay
<1> QED BY <1>1, <1>2, <1>3, <1>4, <1>5, <1>6, <1>7, SessionsStay, RolesStay

(* A session expires, and its cookie with it. *)
LEMMA ExpireKeeps == ASSUME AccessInv, NEW n \in Numbers, Expire(n) PROVE AccessInv'
<1> USE DEF AccessInv
<1>1. /\ UNCHANGED <<setting, prod, forgejo, page, exchange, address, backing, made, ended,
                     driving, overlapped, registered>>
      /\ mishaps \subseteq mishaps' /\ expired' = expired \cup {n}
      /\ kept' = [b \in DOMAIN kept |-> kept[b] \ {n}]
      /\ cookies' = [cookies EXCEPT !.session = IF @ = n THEN 0 ELSE @]
  BY DEF Expire, Mishap
<1>2. Grows
  BY <1>1 DEF Grows
<1>3. CallsFit'
  BY <1>1, <1>2, CallsFade DEF CallsFit
<1>4. /\ cookies' \in [session: 0..MaxTokens, csrf: 0..MaxTokens]
      /\ cookies'.session \in {0, cookies.session} /\ cookies'.csrf = cookies.csrf
  BY <1>1, NumbersAre DEF CookiesFit
<1>5. CookiesFit'
  BY <1>1, <1>4 DEF CookiesFit, IsMade, IsSession
<1>6. PagesFit'
  BY <1>1, <1>4 DEF PagesFit, PageFits, IsMade
<1>7. SessionsKept'
  <2>1. /\ kept' \in [{"valkey", "memory"} -> SUBSET Numbers]
        /\ \A b \in {"valkey", "memory"} : kept'[b] = kept[b] \ {n}
    BY <1>1 DEF SessionsKept
  <2> QED BY <1>1, <2>1 DEF SessionsKept, IsSession
<1>8. DriverFits'
  BY <1>1, <1>4 DEF DriverFits, IsMade
<1>9. LoginsPending'
  BY <1>1, <1>2, LoginsStay
<1> QED BY <1>1, <1>3, <1>5, <1>6, <1>7, <1>8, <1>9, RolesStay

(* The portal starts again and chooses its store. *)
LEMMA NewSessionStoreKeeps == ASSUME AccessInv, NewSessionStore PROVE AccessInv'
<1> USE DEF AccessInv
<1>1. /\ UNCHANGED <<setting, prod, forgejo, cookies, page, exchange, address, made, expired,
                     ended, driving, overlapped, registered>>
      /\ mishaps \subseteq mishaps' /\ kept' = [kept EXCEPT !["memory"] = {}]
      /\ \/ backing' = (IF address THEN "valkey" ELSE "memory") /\ "restart" \in mishaps'
         \/ backing' = "memory" /\ "valkey" \in mishaps'
  BY DEF NewSessionStore, Mishap
<1>2. Grows
  BY <1>1 DEF Grows
<1>3. CallsFit'
  BY <1>1, <1>2, CallsFade DEF CallsFit
<1>4. SessionsKept'
  <2>1. /\ kept' \in [{"valkey", "memory"} -> SUBSET Numbers]
        /\ kept'["memory"] = {} /\ kept'["valkey"] = kept["valkey"]
    BY <1>1 DEF SessionsKept
  <2>2. backing' \in {"valkey", "memory"} /\ mishaps' \cap {"restart", "valkey"} # {}
    BY <1>1 DEF SessionsKept
  <2>3. "valkey" \notin mishaps' =>
           /\ backing' = (IF address THEN "valkey" ELSE "memory")
           /\ \A b \in {"valkey", "memory"} : /\ b # backing' => kept'[b] = {}
                                              /\ ended \cap kept'[b] = {}
    BY <1>1, <2>1 DEF SessionsKept
  <2> QED BY <1>1, <2>1, <2>2, <2>3 DEF SessionsKept
<1>5. PagesFit'
  BY <1>1, <1>2, PagesStay DEF PagesFit
<1>6. LoginsPending'
  BY <1>1, <1>2, LoginsStay
<1>7. DriverFits'
  BY <1>1, <1>2, DriverStays
<1> QED BY <1>1, <1>2, <1>3, <1>4, <1>5, <1>6, <1>7, CookiesStay, RolesStay

(* The browser is closed. *)
LEMMA CloseBrowserKeeps == ASSUME AccessInv, CloseBrowser PROVE AccessInv'
<1> USE DEF AccessInv
<1>1. /\ UNCHANGED <<setting, prod, forgejo, address, backing, kept, made, expired, ended,
                     driving, overlapped, registered>>
      /\ mishaps \subseteq mishaps' /\ "closed" \in mishaps' /\ setting = "portal"
      /\ cookies' = [cookies EXCEPT !.csrf = 0]
      /\ exchange' = [c \in Clients |-> Quiet]
  BY DEF CloseBrowser, Mishap
<1>2. Grows
  BY <1>1 DEF Grows
<1>3. CallsFit'
  <2>1. \A c \in Clients, s \in Slots : exchange'[c][s] = Idle
    BY <1>1 DEF Quiet
  <2>2. exchange' \in [Clients -> [Slots -> Call \cup {Idle}]]
    BY <1>1 DEF Quiet
  <2> QED BY <1>2, <2>1, <2>2, CallsFade
<1>4. /\ cookies' \in [session: 0..MaxTokens, csrf: 0..MaxTokens]
      /\ cookies'.session = cookies.session /\ cookies'.csrf = 0
  BY <1>1, NumbersAre DEF CookiesFit
<1>5. CookiesFit'
  BY <1>1, <1>4 DEF CookiesFit, IsSession
<1>6. /\ page' \in [Clients -> [shown: Customers \cup Roles \cup {Nobody, "new"},
                                token: Keep..MaxTokens, settled: BOOLEAN]]
      /\ \A t \in Tabs : ~page'[t].settled
      /\ page'[Driver] = page[Driver]
  BY NumbersAre, ClientNames DEF CloseBrowser, PagesFit
<1>7. PagesFit'
  BY <1>6 DEF PagesFit, PageFits
<1>8. DriverFits'
  BY <1>1, <1>6 DEF DriverFits, IsMade
<1>9. LoginsPending'
  BY <1>1 DEF LoginsPending, Untroubled
<1> QED BY <1>1, <1>2, <1>3, <1>5, <1>7, <1>8, <1>9, SessionsStay, RolesStay

(* Answers keep what was asked. *)
AnswerStatuses == {Nobody, "ok", "unauthorized", "csrf", "role", "limited", "error"}
SameQuestion(a, q) ==
    /\ a.op = q.op /\ a.as = q.as /\ a.settled = q.settled /\ a.route = q.route
    /\ a.session = q.session /\ a.csrf = q.csrf /\ a.header = q.header

LEMMA AnswerFields ==
  ASSUME NEW q \in Call, NEW st \in AnswerStatuses
  PROVE  /\ Answer(q, st) \in Call /\ SameQuestion(Answer(q, st), q)
         /\ Answer(q, st).step = "served" /\ Answer(q, st).status = st
         /\ Answer(q, st).setSession = q.setSession /\ Answer(q, st).setCSRF = q.setCSRF
<1>1. Answer(q, st) \in Call
  BY DEF Answer, Call, AnswerStatuses
<1> QED BY <1>1 DEF Answer, Call, SameQuestion

LEMMA SetCSRFFields ==
  ASSUME NEW q \in Call, NEW n \in Keep..MaxTokens
  PROVE  /\ SetCSRFCookie(q, n) \in Call /\ SameQuestion(SetCSRFCookie(q, n), q)
         /\ SetCSRFCookie(q, n).step = q.step /\ SetCSRFCookie(q, n).status = q.status
         /\ SetCSRFCookie(q, n).setSession = q.setSession /\ SetCSRFCookie(q, n).setCSRF = n
<1>1. SetCSRFCookie(q, n) \in Call
  BY DEF SetCSRFCookie, Call
<1> QED BY <1>1 DEF SetCSRFCookie, Call, SameQuestion

LEMMA SetSessionFields ==
  ASSUME NEW q \in Call, NEW n \in Keep..MaxTokens, NEW a, a = [q EXCEPT !.setSession = n]
  PROVE  /\ a \in Call /\ SameQuestion(a, q) /\ a.step = q.step /\ a.status = q.status
         /\ a.setSession = n /\ a.setCSRF = q.setCSRF
<1>1. a \in Call
  BY DEF Call
<1> QED BY <1>1 DEF Call, SameQuestion

(* What a handler does to the rest: an answer for a call that is there.    *)
(* The login of a page is answered well unless something went wrong, and   *)
(* the driver's second attempt is refused a session for a reason.          *)
LEMMA ServeFrame ==
  ASSUME AccessInv, Grows, NEW c \in Clients, NEW s \in Slots, NEW q, q = exchange[c][s],
         q # Idle, NEW a, exchange' = [exchange EXCEPT ![c][s] = a], CallFits(c, s, a)',
         SameQuestion(a, q), SessionsKept', RolesGiven',
         UNCHANGED <<cookies, page, driving>>,
         c \in Tabs /\ s # "act" /\ Untroubled' => a.status = "ok",
         a.status = "unauthorized" /\ s = "act" =>
             \/ a.session = 0 \/ a.session \in expired' \cup ended'
             \/ mishaps' \cap {"restart", "valkey"} # {}
  PROVE  AccessInv'
<1>1. /\ CallsFit' /\ exchange'[c][s] = a
      /\ \A d \in Clients, r \in Slots : d # c \/ r # s => exchange'[d][r] = exchange[d][r]
  <2>1. CallsFit
    BY DEF AccessInv
  <2>2. a = Idle \/ CallFits(c, s, a)'
    OBVIOUS
  <2> QED BY ONLY <2>1, <2>2, Grows, c \in Clients, s \in Slots,
                  exchange' = [exchange EXCEPT ![c][s] = a], CallsMove
<1> USE DEF AccessInv
<1>2. a # Idle /\ a.as = q.as /\ a.session = q.session
  BY IdleIsNoCall DEF CallFits, SameQuestion
<1>3. PagesFit'
  BY PagesStay DEF PagesFit
<1>4. LoginsPending'
  <2> SUFFICES ASSUME Untroubled', NEW u \in Tabs
               PROVE  /\ exchange'[u]["again"] = Idle
                      /\ page'[u].shown # Nobody /\ ~page'[u].settled =>
                             exchange'[u]["login"] # Idle
                      /\ exchange'[u]["login"] # Idle =>
                             /\ exchange'[u]["login"].as = page'[u].shown
                             /\ exchange'[u]["login"].step = "served" =>
                                    exchange'[u]["login"].status = "ok"
    BY DEF LoginsPending
  <2>1. Untroubled
    BY DEF Untroubled, Grows
  <2>2. "login" \in Slots /\ "again" \in Slots /\ u \in Clients /\ "login" # "act"
    BY ClientNames DEF Slots
  <2>3. /\ exchange[u]["again"] = Idle
        /\ page[u].shown # Nobody /\ ~page[u].settled => exchange[u]["login"] # Idle
        /\ exchange[u]["login"] # Idle =>
              /\ exchange[u]["login"].as = page[u].shown
              /\ exchange[u]["login"].step = "served" => exchange[u]["login"].status = "ok"
    BY <2>1 DEF LoginsPending
  <2>4. CASE u = c /\ s = "login"
    BY <1>1, <1>2, <2>2, <2>3, <2>4
  <2>5. CASE ~(u = c /\ s = "login")
    <3>1. ~(u = c /\ s = "again")
      BY <2>3
    <3>2. exchange'[u]["again"] = exchange[u]["again"] /\ exchange'[u]["login"] = exchange[u]["login"]
      BY <1>1, <2>2, <2>5, <3>1
    <3> QED BY <2>3, <3>2
  <2> QED BY <2>4, <2>5
<1>5. DriverFits'
  <2>1. CASE ~(c = Driver /\ s = "act")
    BY <1>1, <2>1, DriverStays, ClientNames DEF Slots
  <2>2. CASE c = Driver /\ s = "act"
    <3>1. PICK n : n = page[Driver].token
      OBVIOUS
    <3>2. n # 0 => IsMade(n)'
      BY <3>1, MadeStays DEF DriverFits
    <3> QED BY <1>1, <1>2, <2>2, <3>1, <3>2 DEF DriverFits, Grows
  <2> QED BY <2>1, <2>2
<1> QED BY <1>1, <1>3, <1>4, <1>5, CookiesStay

(* A number is given: nothing that was made before changes. *)
LEMMA MadeFresh ==
  ASSUME SessionsKept, NEW n \in Numbers, Fresh(n), NEW o, NEW by,
         o \in Customers \cup Roles \cup {Nobody, "new"},
         by \in Clients \cup {Nobody, "register", "auth"}, by # Nobody,
         made' = [made EXCEPT ![n] = [owner |-> o, by |-> by]],
         UNCHANGED <<setting, expired, ended>>, mishaps \subseteq mishaps',
         registered => registered', overlapped => overlapped'
  PROVE  /\ Grows /\ made'[n].by = by /\ made'[n].owner = o /\ IsMade(n)'
         /\ n \notin ended
         /\ made' \in [Numbers -> [owner: Customers \cup Roles \cup {Nobody, "new"},
                                   by: Clients \cup {Nobody, "register", "auth"}]]
         /\ \A m \in Numbers : m # n => made'[m] = made[m]
<1>1. made[n].by = Nobody /\ n \notin ended
  BY DEF Fresh, SessionsKept
<1>2. made'[n].by = by /\ made'[n].owner = o /\ \A m \in Numbers : m # n => made'[m] = made[m]
  BY DEF SessionsKept
<1>3. Grows
  BY <1>1, <1>2 DEF Grows
<1>4. made' \in [Numbers -> [owner: Customers \cup Roles \cup {Nobody, "new"},
                             by: Clients \cup {Nobody, "register", "auth"}]]
  BY DEF SessionsKept
<1> QED BY <1>1, <1>2, <1>3, <1>4 DEF IsMade

(* Which client a call is of, and what a session that was asked for is. *)
LEMMA CallOf ==
  ASSUME AccessInv, NEW c \in Clients, NEW s \in Slots, NEW q, q = exchange[c][s],
         q.step \in {"sent", "served"}
  PROVE  /\ CallFits(c, s, q) /\ q \in Call /\ q # Idle
         /\ \/ setting = "portal" /\ c \in Tabs
            \/ setting = "driver" /\ c = Driver
<1>1. q # Idle
  BY DEF Idle
<1>2. CallFits(c, s, q)
  BY <1>1 DEF AccessInv, CallsFit
<1> QED BY <1>1, <1>2 DEF CallFits, AccessInv, DriverFits

(* A refusal brings nothing. *)
LEMMA RefusalFits ==
  ASSUME Grows, NEW c, NEW s, NEW q, CallFits(c, s, q), q.op # "write", q.step = "sent",
         NEW st \in AnswerStatuses \ {"ok"}, q.op = "register" => registered'
  PROVE  CallFits(c, s, Answer(q, st))'
<1>1. CallFits(c, s, q)' /\ q \in Call
  BY CallStays DEF CallFits
<1>2. PICK a : a = Answer(q, st)
  OBVIOUS
<1>3. /\ a \in Call /\ SameQuestion(a, q) /\ a.step = "served" /\ a.status = st
      /\ a.setSession = q.setSession /\ a.setCSRF = q.setCSRF
  BY <1>1, <1>2, AnswerFields
<1>4. CallFits(c, s, a)'
  BY <1>1, <1>3 DEF CallFits, SameQuestion, Maker
<1> QED BY <1>2, <1>4

(* Admission: login and registration make a session, and the answer brings *)
(* both cookies.                                                           *)
LEMMA AdmitKeeps ==
  ASSUME AccessInv, NEW c \in Clients, NEW s \in Slots, NEW q, q = exchange[c][s],
         CallFits(c, s, q), q # Idle, NEW o, NEW by,
         o \in Customers \cup Roles \cup {"new"},
         \/ q.op = "login" /\ by = c
         \/ q.op = "register" /\ by = "register",
         setting = "portal" /\ q.op = "login" => o = q.as,
         setting = "driver" /\ prod => o = HandleForgejoLogin,
         Admit(c, s, q, o, by),
         UNCHANGED <<setting, prod, forgejo, cookies, page, address, backing, expired,
                     ended, driving, overlapped, mishaps>>,
         registered => registered', q.op = "register" => registered'
  PROVE  AccessInv'
<1>1. PICK n \in Numbers :
         /\ Fresh(n) /\ kept' = StoreCreate(n)
         /\ made' = [made EXCEPT ![n] = [owner |-> o, by |-> by]]
         /\ exchange' = [exchange EXCEPT ![c][s] =
                            SetCSRFCookie([Answer(q, "ok") EXCEPT !.setSession = n], n)]
  BY DEF Admit, Served
<1>2. by \in Clients \cup {"register"} /\ by # Nobody /\ by # "auth"
  BY ClientNames DEF Nobody
<1>3. /\ Grows /\ made'[n].by = by /\ made'[n].owner = o /\ IsMade(n)' /\ n \notin ended
      /\ made' \in [Numbers -> [owner: Customers \cup Roles \cup {Nobody, "new"},
                                by: Clients \cup {Nobody, "register", "auth"}]]
      /\ \A m \in Numbers : m # n => made'[m] = made[m]
  <2>1. SessionsKept
    BY DEF AccessInv
  <2>2. /\ o \in Customers \cup Roles \cup {Nobody, "new"}
        /\ by \in Clients \cup {Nobody, "register", "auth"} /\ mishaps \subseteq mishaps'
        /\ overlapped => overlapped'
    BY <1>2
  <2> QED BY <1>1, <1>2, <2>1, <2>2, MadeFresh
<1>4. PICK b, a : b = [Answer(q, "ok") EXCEPT !.setSession = n] /\ a = SetCSRFCookie(b, n)
  OBVIOUS
<1>5. /\ a \in Call /\ SameQuestion(a, q) /\ a.step = "served" /\ a.status = "ok"
      /\ a.setSession = n /\ a.setCSRF = n
  <2>1. q \in Call /\ n \in Keep..MaxTokens
    BY NumbersAre DEF CallFits
  <2>2. /\ Answer(q, "ok") \in Call /\ SameQuestion(Answer(q, "ok"), q)
        /\ Answer(q, "ok").step = "served" /\ Answer(q, "ok").status = "ok"
    BY <2>1, AnswerFields DEF AnswerStatuses
  <2>3. /\ b \in Call /\ SameQuestion(b, Answer(q, "ok")) /\ b.step = "served" /\ b.status = "ok"
        /\ b.setSession = n
    BY <1>4, <2>1, <2>2, SetSessionFields
  <2>4. /\ a \in Call /\ SameQuestion(a, b) /\ a.step = b.step /\ a.status = b.status
        /\ a.setSession = b.setSession /\ a.setCSRF = n
    BY <1>4, <2>1, <2>3, SetCSRFFields
  <2> QED BY <2>2, <2>3, <2>4 DEF SameQuestion
<1>6. CallFits(c, s, a)'
  <2>1. CallFits(c, s, q)'
    BY <1>3, CallStays
  <2>2. n # 0 /\ n # Keep
    BY NumbersAre
  <2>3. Maker(c, a) = by
    BY <1>5 DEF Maker, SameQuestion
  <2> QED BY <1>3, <1>5, <2>1, <2>2, <2>3 DEF CallFits, SameQuestion, Maker
<1>7. SessionsKept'
  <2>1. /\ kept' \in [{"valkey", "memory"} -> SUBSET Numbers]
        /\ kept'[backing] = kept[backing] \cup {n}
        /\ \A d \in {"valkey", "memory"} : d # backing => kept'[d] = kept[d]
    BY <1>1 DEF StoreCreate, AccessInv, SessionsKept
  <2>2. \A m \in Numbers : IsSession(m)' => m = n \/ IsSession(m)
    BY <1>3 DEF IsSession
  <2>3. \A m \in ended : m \in Numbers /\ m # n
    BY <1>3 DEF AccessInv, SessionsKept
  <2>4. \A m \in ended : made'[m].by # Nobody
    BY <1>3, <2>3 DEF AccessInv, SessionsKept
  <2>5. \A m \in Numbers : IsSession(m)' =>
            \/ m \in kept'[backing] \/ m \in expired \cup ended
            \/ mishaps \cap {"restart", "valkey"} # {}
    BY <2>1, <2>2 DEF AccessInv, SessionsKept
  <2>6. "valkey" \notin mishaps =>
            /\ backing = (IF address THEN "valkey" ELSE "memory")
            /\ \A d \in {"valkey", "memory"} : /\ d # backing => kept'[d] = {}
                                               /\ ended \cap kept'[d] = {}
    BY <2>1, <2>3 DEF AccessInv, SessionsKept
  <2> QED BY <1>3, <2>1, <2>4, <2>5, <2>6 DEF AccessInv, SessionsKept
<1>8. RolesGiven'
  BY <1>3 DEF AccessInv, RolesGiven, HandleForgejoLogin
<1>9. exchange' = [exchange EXCEPT ![c][s] = a]
  BY <1>1, <1>4
<1>10. a.status # "unauthorized"
  BY <1>5
<1> QED BY <1>3, <1>5, <1>6, <1>7, <1>8, <1>9, <1>10, ServeFrame

(* A refusal of a login or a registration. *)
LEMMA RefuseKeeps ==
  ASSUME AccessInv, NEW c \in Clients, NEW s \in Slots, NEW q, q = exchange[c][s],
         CallFits(c, s, q), q # Idle, q.step = "sent", q.op \in {"login", "register"},
         NEW st \in {"unauthorized", "limited", "error"}, Refuse(c, s, q, st),
         q.op = "register" => st # "unauthorized",
         c \in Tabs => mishaps' # {},
         UNCHANGED <<setting, prod, forgejo, cookies, page, address, backing, expired,
                     ended, driving, overlapped>>,
         mishaps \subseteq mishaps', registered => registered', q.op = "register" => registered'
  PROVE  AccessInv'
<1>1. UNCHANGED <<kept, made>> /\ exchange' = [exchange EXCEPT ![c][s] = Answer(q, st)]
  BY DEF Refuse, Served
<1>2. Grows
  BY <1>1 DEF Grows
<1>3. PICK a : a = Answer(q, st)
  OBVIOUS
<1>4. q \in Call /\ st \in AnswerStatuses /\ SameQuestion(a, q) /\ a.status = st
  BY <1>3, AnswerFields DEF CallFits, AnswerStatuses
<1>5. CallFits(c, s, a)'
  BY <1>2, <1>3, <1>4, RefusalFits
<1>6. SessionsKept' /\ RolesGiven'
  BY <1>1, <1>2, SessionsStay, RolesStay DEF AccessInv
<1>7. exchange' = [exchange EXCEPT ![c][s] = a]
  BY <1>1, <1>3
<1>8. a.status = "unauthorized" => s # "act"
  BY <1>4 DEF CallFits
<1>9. c \in Tabs => ~Untroubled'
  BY DEF Untroubled
<1> QED BY <1>2, <1>4, <1>5, <1>6, <1>7, <1>8, <1>9, ServeFrame

LEMMA ServeLoginKeeps ==
  ASSUME AccessInv, NEW c \in Clients, NEW s \in Slots, ServeLogin(c, s)
  PROVE  AccessInv'
<1>1. PICK q : q = exchange[c][s]
  OBVIOUS
<1>2. /\ q.step = "sent" /\ q.op = "login"
      /\ \/ LoginRole(q) # Nobody /\ Admit(c, s, q, LoginRole(q), c) /\ UNCHANGED mishaps
         \/ LoginRole(q) = Nobody /\ Refuse(c, s, q, "unauthorized") /\ UNCHANGED mishaps
         \/ setting = "portal" /\ Mishap("limited") /\ Refuse(c, s, q, "limited")
         \/ StoreFails /\ Refuse(c, s, q, "error")
         \/ setting = "driver" /\ prod /\ Mishap("forgejo") /\ Refuse(c, s, q, "error")
      /\ UNCHANGED <<setting, prod, forgejo, cookies, page, address, backing, expired,
                     ended, driving, overlapped, registered, requests>>
  BY <1>1 DEF ServeLogin
<1>3. /\ CallFits(c, s, q) /\ q \in Call /\ q # Idle
      /\ \/ setting = "portal" /\ c \in Tabs
         \/ setting = "driver" /\ c = Driver
  BY <1>1, <1>2, CallOf
<1>4. q.as \in Customers \cup Roles \cup {"new"} /\ q.as # Nobody
  <2>1. q.as \in Customers \cup Roles \cup {"new"}
    BY <1>3 DEF Call
  <2> QED BY <2>1 DEF Customers, Roles, Nobody
<1>5. CASE LoginRole(q) # Nobody /\ Admit(c, s, q, LoginRole(q), c) /\ UNCHANGED mishaps
  <2>1. PICK o : o = LoginRole(q)
    OBVIOUS
  <2>2. /\ o \in Customers \cup Roles \cup {"new"}
        /\ setting = "portal" => o = q.as
        /\ setting = "driver" /\ prod => o = HandleForgejoLogin
    BY <1>4, <1>5, <2>1 DEF LoginRole, HandleLogin, HandleForgejoLogin, Roles
  <2>3. Admit(c, s, q, o, c)
    BY <1>5, <2>1
  <2> QED BY <1>1, <1>2, <1>3, <1>5, <2>2, <2>3, AdmitKeeps
<1>6. CASE LoginRole(q) = Nobody /\ Refuse(c, s, q, "unauthorized") /\ UNCHANGED mishaps
  <2>1. c \notin Tabs
    BY <1>3, <1>4, <1>6, ClientNames DEF LoginRole, HandleLogin
  <2> QED BY <1>1, <1>2, <1>3, <1>6, <2>1, RefuseKeeps
<1>7. CASE Refuse(c, s, q, "limited") /\ Mishap("limited")
  <2>1. mishaps' # {} /\ mishaps \subseteq mishaps'
    BY <1>7 DEF Mishap
  <2> QED BY <1>1, <1>2, <1>3, <1>7, <2>1, RefuseKeeps
<1>8. CASE Refuse(c, s, q, "error") /\ (StoreFails \/ Mishap("forgejo"))
  <2>1. mishaps' # {} /\ mishaps \subseteq mishaps'
    BY <1>8 DEF Mishap, StoreFails
  <2> QED BY <1>1, <1>2, <1>3, <1>8, <2>1, RefuseKeeps
<1> QED BY <1>2, <1>5, <1>6, <1>7, <1>8

LEMMA ServeRegisterKeeps ==
  ASSUME AccessInv, NEW c \in Clients, ServeRegister(c)
  PROVE  AccessInv'
<1>1. PICK q : q = exchange[c]["act"]
  OBVIOUS
<1>2. /\ q.step = "sent" /\ q.op = "register" /\ "act" \in Slots
      /\ \/ Admit(c, "act", q, "new", "register") /\ UNCHANGED mishaps
         \/ StoreFails /\ Refuse(c, "act", q, "error")
      /\ registered'
      /\ UNCHANGED <<setting, prod, forgejo, cookies, page, address, backing, expired,
                     ended, driving, overlapped, requests>>
  BY <1>1 DEF ServeRegister, Slots
<1>3. /\ CallFits(c, "act", q) /\ q \in Call /\ q # Idle
      /\ \/ setting = "portal" /\ c \in Tabs
         \/ setting = "driver" /\ c = Driver
  BY <1>1, <1>2, CallOf
<1>4. setting = "portal" /\ setting # "driver"
  BY <1>2, <1>3 DEF CallFits
<1>5. CASE Admit(c, "act", q, "new", "register") /\ UNCHANGED mishaps
  BY <1>1, <1>2, <1>3, <1>4, <1>5, AdmitKeeps
<1>6. CASE StoreFails /\ Refuse(c, "act", q, "error")
  <2>1. mishaps' # {} /\ mishaps \subseteq mishaps'
    BY <1>6 DEF Mishap, StoreFails
  <2> QED BY <1>1, <1>2, <1>3, <1>6, <2>1, RefuseKeeps
<1> QED BY <1>2, <1>5, <1>6

(* A session that is not found is over, or was lost with the store. *)
LEMMA NotFound ==
  ASSUME AccessInv, NEW n, n # 0 => IsSession(n), ~Get(n)
  PROVE  n = 0 \/ n \in expired \cup ended \/ mishaps \cap {"restart", "valkey"} # {}
BY DEF AccessInv, SessionsKept, IsSession, Get, MemoryGet, ValkeyGet

(* The answer to a request: a write that is done repeats the cookie's      *)
(* token, and one that is refused for its token does not.                  *)
LEMMA AnswerFits ==
  ASSUME Grows, NEW c \in Clients, NEW q, CallFits(c, "act", q), q.op \in {"read", "write"},
         NEW a \in Call, SameQuestion(a, q), a.step = "served", a.setSession = q.setSession,
         \/ a.setCSRF = q.setCSRF
         \/ a.setCSRF \in Numbers /\ IsMade(a.setCSRF)' /\ made'[a.setCSRF].by = "auth",
         a.status = "ok" => q.session # 0 /\ (q.op = "write" => CSRFProtect(q)),
         a.status = "csrf" => q.session # 0 /\ q.op = "write" /\ ~CSRFProtect(q),
         a.status = "unauthorized" =>
             \/ q.session = 0 \/ q.session \in expired' \cup ended'
             \/ mishaps' \cap {"restart", "valkey"} # {}
  PROVE  CallFits(c, "act", a)'
<1>1. CallFits(c, "act", q)'
  BY CallStays
<1>2. /\ a.op = q.op /\ a.as = q.as /\ a.settled = q.settled /\ a.route = q.route
      /\ a.session = q.session /\ a.csrf = q.csrf /\ a.header = q.header
  BY DEF SameQuestion
<1>3. Maker(c, a) = "auth" /\ Maker(c, q) = "auth"
  BY <1>2 DEF Maker
<1>4. /\ a.setCSRF # 0
      /\ a.setCSRF # Keep => IsMade(a.setCSRF)' /\ made'[a.setCSRF].by = "auth"
  BY <1>1, <1>3, NumbersAre DEF CallFits, Maker
<1>5. ASSUME setting' = "portal", q.op = "write", q.settled PROVE WriteFits(c, a)'
  <2>1. WriteFits(c, q)'
    BY <1>1, <1>5 DEF CallFits
  <2>2. q.header # 0 /\ q.csrf # 0 /\ c # "auth"
    BY <2>1, NumbersAre, ClientNames DEF WriteFits, IsMade
  <2>3. a.status = "ok" => q.session # 0 /\ made'[q.session].owner = q.as
    BY <1>5, <2>1, <2>2 DEF WriteFits, CSRFProtect, GetCSRFCookie
  <2>4. a.status = "csrf" => "body" \in mishaps' \/ made'[q.csrf].by # c
    BY <1>5, <2>1, <2>2 DEF WriteFits, CSRFProtect, GetCSRFCookie
  <2>5. a.status = "unauthorized" =>
            \/ q.session \in expired' \cup ended'
            \/ q.session = 0 /\ expired' # {}
            \/ mishaps' \cap {"restart", "valkey"} # {}
    BY <2>1 DEF WriteFits
  <2> QED BY <1>2, <2>1, <2>3, <2>4, <2>5 DEF WriteFits
<1>6. setting' = "driver" /\ q.op = "write" => a.status # "csrf"
  <2>1. setting' = "driver" /\ q.op = "write" /\ q.session # 0 => q.header = q.csrf /\ q.csrf # 0
    BY <1>1 DEF CallFits
  <2> QED BY <2>1 DEF CSRFProtect, GetCSRFCookie
<1> QED BY <1>1, <1>2, <1>3, <1>4, <1>5, <1>6 DEF CallFits, Maker

(* A request is answered. *)
LEMMA ServeRequestKeeps ==
  ASSUME AccessInv, NEW c \in Clients, ServeRequest(c)
  PROVE  AccessInv'
<1>1. PICK q : q = exchange[c]["act"]
  OBVIOUS
<1>2. /\ q.step = "sent" /\ q.op \in {"read", "write"} /\ "act" \in Slots
      /\ SessionAuth(c, q)
      /\ UNCHANGED <<setting, prod, forgejo, cookies, page, address, backing, kept,
                     expired, ended, driving, overlapped, registered, requests>>
  BY <1>1 DEF ServeRequest, Slots
<1>3. CallFits(c, "act", q) /\ q \in Call /\ q # Idle
  BY <1>1, <1>2, CallOf
<1>4. PICK st : st = Protected(q)
  OBVIOUS
<1>5. /\ st \in AnswerStatuses /\ st # "unauthorized"
      /\ st = "ok" => (q.op = "write" => CSRFProtect(q))
      /\ st = "csrf" => q.op = "write" /\ ~CSRFProtect(q)
  BY <1>4 DEF Protected, AnswerStatuses
<1>6. CASE Get(q.session) /\ GetCSRFCookie(q) # 0
           /\ Served(c, "act", Answer(q, Protected(q))) /\ UNCHANGED <<made, mishaps>>
  <2>1. PICK a : a = Answer(q, st)
    OBVIOUS
  <2>2. /\ a \in Call /\ SameQuestion(a, q) /\ a.step = "served" /\ a.status = st
        /\ a.setSession = q.setSession /\ a.setCSRF = q.setCSRF
    BY <1>3, <1>5, <2>1, AnswerFields
  <2>3. Grows
    BY <1>2, <1>6 DEF Grows
  <2>4. q.session # 0
    BY <1>6 DEF Get
  <2>5. CallFits(c, "act", a)'
    BY <1>2, <1>3, <1>5, <2>2, <2>3, <2>4, AnswerFits
  <2>6. SessionsKept' /\ RolesGiven'
    BY <1>2, <1>6, <2>3, SessionsStay, RolesStay DEF AccessInv
  <2>7. exchange' = [exchange EXCEPT ![c]["act"] = a]
    BY <1>4, <1>6, <2>1 DEF Served
  <2> QED BY <1>1, <1>2, <1>3, <1>5, <2>2, <2>3, <2>5, <2>6, <2>7, ServeFrame
<1>7. ASSUME Get(q.session), UNCHANGED mishaps, NEW n \in Numbers, Fresh(n),
             made' = [made EXCEPT ![n] = [owner |-> Nobody, by |-> "auth"]],
             Served(c, "act", SetCSRFCookie(Answer(q, Protected(q)), n))
      PROVE  AccessInv'
  <2>1. PICK b, a : b = Answer(q, st) /\ a = SetCSRFCookie(b, n)
    OBVIOUS
  <2>2. /\ a \in Call /\ SameQuestion(a, q) /\ a.step = "served" /\ a.status = st
        /\ a.setSession = q.setSession /\ a.setCSRF = n
    <3>1. /\ b \in Call /\ SameQuestion(b, q) /\ b.step = "served" /\ b.status = st
          /\ b.setSession = q.setSession
      BY <1>3, <1>5, <2>1, AnswerFields
    <3>2. /\ a \in Call /\ SameQuestion(a, b) /\ a.step = b.step /\ a.status = b.status
          /\ a.setSession = b.setSession /\ a.setCSRF = n
      BY <2>1, <3>1, SetCSRFFields, NumbersAre
    <3> QED BY <3>1, <3>2 DEF SameQuestion
  <2>3. /\ Grows /\ made'[n].by = "auth" /\ made'[n].owner = Nobody /\ IsMade(n)'
        /\ made' \in [Numbers -> [owner: Customers \cup Roles \cup {Nobody, "new"},
                                  by: Clients \cup {Nobody, "register", "auth"}]]
        /\ \A m \in Numbers : m # n => made'[m] = made[m]
    <3>1. SessionsKept /\ "auth" # Nobody
      BY DEF AccessInv, Nobody
    <3>2. mishaps \subseteq mishaps' /\ (registered => registered') /\ (overlapped => overlapped')
      BY <1>2, <1>7
    <3> QED BY <1>2, <1>7, <3>1, <3>2, MadeFresh
  <2>4. q.session # 0
    BY <1>7 DEF Get
  <2>5. CallFits(c, "act", a)'
    BY <1>2, <1>3, <1>5, <2>2, <2>3, <2>4, AnswerFits
  <2>6. SessionsKept'
    <3>1. \A m \in Numbers : IsSession(m)' => IsSession(m)
      BY <2>3 DEF IsSession
    <3>2. \A m \in ended : made'[m].by # Nobody
      BY <2>3 DEF AccessInv, SessionsKept, Nobody
    <3> QED BY <1>2, <1>7, <2>3, <3>1, <3>2 DEF AccessInv, SessionsKept
  <2>7. RolesGiven'
    BY <1>2, <2>3 DEF AccessInv, RolesGiven, HandleForgejoLogin
  <2>8. exchange' = [exchange EXCEPT ![c]["act"] = a]
    BY <1>4, <1>7, <2>1 DEF Served
  <2> QED BY <1>1, <1>2, <1>3, <1>5, <2>2, <2>3, <2>5, <2>6, <2>7, <2>8, ServeFrame
<1>8. ASSUME Served(c, "act", Answer(q, "unauthorized")), UNCHANGED made,
             mishaps \subseteq mishaps',
             \/ q.session = 0 \/ q.session \in expired \cup ended
             \/ mishaps' \cap {"restart", "valkey"} # {}
      PROVE  AccessInv'
  <2>1. PICK a : a = Answer(q, "unauthorized")
    OBVIOUS
  <2>2. /\ a \in Call /\ SameQuestion(a, q) /\ a.step = "served" /\ a.status = "unauthorized"
        /\ a.setSession = q.setSession /\ a.setCSRF = q.setCSRF
    BY <1>3, <2>1, AnswerFields DEF AnswerStatuses
  <2>3. Grows
    BY <1>2, <1>8 DEF Grows
  <2>4. CallFits(c, "act", a)'
    BY <1>2, <1>3, <1>8, <2>2, <2>3, AnswerFits
  <2>5. SessionsKept' /\ RolesGiven'
    BY <1>2, <1>8, <2>3, SessionsStay, RolesStay DEF AccessInv
  <2>6. exchange' = [exchange EXCEPT ![c]["act"] = a]
    BY <1>8, <2>1 DEF Served
  <2>7. a.session = q.session
    BY <2>2 DEF SameQuestion
  <2> QED BY <1>1, <1>2, <1>3, <1>8, <2>2, <2>3, <2>4, <2>5, <2>6, <2>7, ServeFrame
<1>9. CASE /\ ~Get(q.session) /\ Served(c, "act", Answer(q, "unauthorized"))
           /\ UNCHANGED <<made, mishaps>>
  <2>1. q.session # 0 => IsSession(q.session)
    BY <1>3 DEF CallFits
  <2> QED BY <1>8, <1>9, <2>1, NotFound
<1>10. CASE /\ Mishap("valkey") /\ Served(c, "act", Answer(q, "unauthorized"))
            /\ UNCHANGED made
  <2>1. mishaps \subseteq mishaps' /\ mishaps' \cap {"restart", "valkey"} # {}
    BY <1>10 DEF Mishap
  <2> QED BY <1>8, <1>10, <2>1
<1> QED BY <1>2, <1>6, <1>7, <1>9, <1>10 DEF SessionAuth

(* A logout is answered: the session is over, whether Valkey deleted it or *)
(* not.                                                                    *)
LEMMA ServeLogoutKeeps ==
  ASSUME AccessInv, NEW c \in Clients, ServeLogout(c)
  PROVE  AccessInv'
<1>1. PICK q : q = exchange[c]["act"]
  OBVIOUS
<1>2. /\ q.step = "sent" /\ q.op = "logout" /\ "act" \in Slots
      /\ \/ kept' = StoreDelete(q.session) /\ UNCHANGED mishaps
         \/ backing = "valkey" /\ Mishap("valkey") /\ UNCHANGED kept
      /\ ended' = ended \cup ({q.session} \ {0})
      /\ Served(c, "act", [Answer(q, "ok") EXCEPT !.setSession = 0])
      /\ UNCHANGED <<setting, prod, forgejo, cookies, page, address, backing, made,
                     expired, driving, overlapped, registered, requests>>
  BY <1>1 DEF ServeLogout, Slots
<1>3. CallFits(c, "act", q) /\ q \in Call /\ q # Idle
  BY <1>1, <1>2, CallOf
<1>4. mishaps \subseteq mishaps'
  BY <1>2 DEF Mishap
<1>5. Grows
  BY <1>2, <1>4 DEF Grows
<1>6. PICK b, a : b = Answer(q, "ok") /\ a = [b EXCEPT !.setSession = 0]
  OBVIOUS
<1>7. /\ a \in Call /\ SameQuestion(a, q) /\ a.step = "served" /\ a.status = "ok"
      /\ a.setSession = 0 /\ a.setCSRF = q.setCSRF
  <2>1. /\ b \in Call /\ SameQuestion(b, q) /\ b.step = "served" /\ b.status = "ok"
        /\ b.setCSRF = q.setCSRF
    BY <1>3, <1>6, AnswerFields DEF AnswerStatuses
  <2>2. /\ a \in Call /\ SameQuestion(a, b) /\ a.step = b.step /\ a.status = b.status
        /\ a.setSession = 0 /\ a.setCSRF = b.setCSRF
    BY <1>6, <2>1, SetSessionFields, NumbersAre
  <2> QED BY <2>1, <2>2 DEF SameQuestion
<1>8. CallFits(c, "act", a)'
  <2>1. CallFits(c, "act", q)'
    BY <1>3, <1>5, CallStays
  <2> QED BY <1>2, <1>7, <2>1 DEF CallFits, SameQuestion, Maker
<1>9. SessionsKept'
  <2>1. q.session # 0 => IsSession(q.session)
    BY <1>3 DEF CallFits
  <2>2. ended' \subseteq Numbers /\ \A m \in ended' : made[m].by # Nobody
    BY <1>2, <2>1 DEF AccessInv, SessionsKept, IsSession
  <2>3. /\ kept' \in [{"valkey", "memory"} -> SUBSET Numbers]
        /\ \A d \in {"valkey", "memory"}, m \in Numbers :
               m \in kept[d] => m \in kept'[d] \/ m = q.session
        /\ \A d \in {"valkey", "memory"} : kept'[d] \subseteq kept[d]
        /\ "valkey" \notin mishaps' => q.session \notin kept'[backing]
    <3>1. CASE kept' = StoreDelete(q.session)
      BY <3>1 DEF StoreDelete, AccessInv, SessionsKept
    <3>2. CASE Mishap("valkey") /\ UNCHANGED kept
      BY <3>2 DEF Mishap, AccessInv, SessionsKept
    <3> QED BY <1>2, <3>1, <3>2
  <2>4. \A m \in Numbers : IsSession(m) =>
            \/ m \in kept'[backing] \/ m \in expired \cup ended'
            \/ mishaps' \cap {"restart", "valkey"} # {}
    <3> SUFFICES ASSUME NEW m \in Numbers, IsSession(m)
                 PROVE  \/ m \in kept'[backing] \/ m \in expired \cup ended'
                        \/ mishaps' \cap {"restart", "valkey"} # {}
      OBVIOUS
    <3>1. \/ m \in kept[backing] \/ m \in expired \cup ended
          \/ mishaps \cap {"restart", "valkey"} # {}
      BY DEF AccessInv, SessionsKept
    <3>2. m = q.session => m \in ended'
      BY <1>2, NumbersAre
    <3>3. backing \in {"valkey", "memory"}
      BY DEF AccessInv, SessionsKept
    <3> QED BY <1>2, <1>4, <2>3, <3>1, <3>2, <3>3
  <2>5. "valkey" \notin mishaps' =>
            /\ backing = (IF address THEN "valkey" ELSE "memory")
            /\ \A d \in {"valkey", "memory"} : /\ d # backing => kept'[d] = {}
                                               /\ ended' \cap kept'[d] = {}
    BY <1>2, <1>4, <2>3 DEF AccessInv, SessionsKept
  <2> QED BY <1>2, <2>2, <2>3, <2>4, <2>5 DEF AccessInv, SessionsKept, IsSession
<1>10. RolesGiven'
  BY <1>2, RolesStay DEF AccessInv
<1>11. exchange' = [exchange EXCEPT ![c]["act"] = a]
  BY <1>2, <1>6 DEF Served
<1> QED BY <1>1, <1>2, <1>3, <1>5, <1>7, <1>8, <1>9, <1>10, <1>11, ServeFrame

(* The cookies an answer brings.  Those of a login or a registration come  *)
(* together.                                                               *)
LEMMA CookiesSet ==
  ASSUME AccessInv, Grows, UNCHANGED made, NEW c \in Clients, NEW s \in Slots, NEW q,
         CallFits(c, s, q), SetCookies(q)
  PROVE  /\ CookiesFit'
         /\ cookies'.session = (IF q.setSession = Keep THEN cookies.session
                                ELSE IF q.setSession \in expired THEN 0 ELSE q.setSession)
         /\ cookies'.csrf = (IF q.setCSRF = Keep THEN cookies.csrf ELSE q.setCSRF)
<1>1. PICK m, n : /\ m = (IF q.setSession = Keep THEN cookies.session
                          ELSE IF q.setSession \in expired THEN 0 ELSE q.setSession)
                  /\ n = (IF q.setCSRF = Keep THEN cookies.csrf ELSE q.setCSRF)
  OBVIOUS
<1>2. cookies' = [session |-> m, csrf |-> n]
  BY <1>1 DEF SetCookies
<1>3. q.setSession \in Keep..MaxTokens /\ q.setCSRF \in Keep..MaxTokens
  BY DEF CallFits, Call
<1>4. /\ cookies.session \in 0..MaxTokens /\ cookies.csrf \in 0..MaxTokens
      /\ cookies.session # 0 => IsSession(cookies.session)
      /\ cookies.csrf # 0 => IsMade(cookies.csrf)
  BY DEF AccessInv, CookiesFit
<1>5. m \in 0..MaxTokens /\ n \in 0..MaxTokens
  BY <1>1, <1>3, <1>4, NumbersAre
<1>6. q.op \in {"login", "register"} => Maker(c, q) \notin {Nobody, "auth"}
  BY ClientNames DEF Maker, Nobody
<1>7. q.setSession \notin {Keep, 0} => IsSession(q.setSession)
  BY <1>6 DEF CallFits, IsSession, IsMade
<1>8. m # 0 => IsSession(m)
  BY <1>1, <1>4, <1>7
<1>9. n # 0 => IsMade(n)
  BY <1>1, <1>4 DEF CallFits
<1>10. setting = "portal" /\ n # 0 /\ made[n].by # "auth" => m \in {0, n}
  <2> SUFFICES ASSUME setting = "portal", n # 0, made[n].by # "auth" PROVE m \in {0, n}
    OBVIOUS
  <2>1. CASE q.op \in {"login", "register"}
    <3>1. q.setSession = q.setCSRF
      BY <2>1 DEF CallFits
    <3>2. cookies.csrf # 0 /\ made[cookies.csrf].by # "auth" => cookies.session \in {0, cookies.csrf}
      BY DEF AccessInv, CookiesFit
    <3> QED BY <1>1, <3>1, <3>2
  <2>2. CASE q.op \notin {"login", "register"}
    <3>1. q.setSession = Keep /\ Maker(c, q) = "auth"
      BY <2>2 DEF CallFits, Maker
    <3>2. q.setCSRF = Keep
      BY <1>1, <3>1 DEF CallFits
    <3> QED BY <1>1, <3>1, <3>2 DEF AccessInv, CookiesFit
  <2> QED BY <2>1, <2>2
<1>11. (m # 0 => IsSession(m)') /\ (n # 0 => IsMade(n)')
  BY <1>8, <1>9, MadeStays
<1>12. cookies'.session = m /\ cookies'.csrf = n
  BY <1>2
<1>13. CookiesFit'
  BY <1>2, <1>5, <1>10, <1>11, <1>12 DEF CookiesFit, Grows
<1> QED BY <1>1, <1>12, <1>13

(* What is left of a page when its answer is there: the login that came    *)
(* back gives it the token, and anything else leaves the token alone.      *)
LEMMA PageMoves ==
  ASSUME PagesFit, NEW t \in Tabs, NEW q \in Call, q.op = "login" => q.setCSRF \in Keep..MaxTokens,
         \/ page' = CASE q.op = "login" /\ q.status = "ok" ->
                               [page EXCEPT ![t].token = q.setCSRF,
                                            ![t].settled = (q.as = page[t].shown)]
                      [] q.op = "register" /\ q.status = "ok" ->
                               [page EXCEPT ![t].shown = q.as, ![t].settled = FALSE]
                      [] OTHER -> page
         \/ page' = Failed(t)
         \/ page' = page
  PROVE  /\ page' \in [Clients -> [shown: Customers \cup Roles \cup {Nobody, "new"},
                                   token: Keep..MaxTokens, settled: BOOLEAN]]
         /\ \A d \in Clients : d # t => page'[d] = page[d]
<1>1. /\ t \in Clients
      /\ page \in [Clients -> [shown: Customers \cup Roles \cup {Nobody, "new"},
                               token: Keep..MaxTokens, settled: BOOLEAN]]
      /\ page[t] \in [shown: Customers \cup Roles \cup {Nobody, "new"},
                      token: Keep..MaxTokens, settled: BOOLEAN]
  BY ClientNames DEF PagesFit
<1>2. q.as \in Customers \cup Roles \cup {"new"}
  BY DEF Call
<1>3. CASE q.op = "login" /\ page' = [page EXCEPT ![t].token = q.setCSRF,
                                   ![t].settled = (q.as = page[t].shown)]
  <2>1. PICK n, f : n = q.setCSRF /\ f = (q.as = page[t].shown)
    OBVIOUS
  <2>2. n \in Keep..MaxTokens /\ f \in BOOLEAN
    BY <1>3, <2>1
  <2>3. page' = [page EXCEPT ![t].token = n, ![t].settled = f]
    BY <1>3, <2>1
  <2>4. CASE f = TRUE
    BY <1>1, <2>2, <2>3, <2>4
  <2>5. CASE f = FALSE
    BY <1>1, <2>2, <2>3, <2>5
  <2> QED BY <2>2, <2>4, <2>5
<1>4. CASE page' = [page EXCEPT ![t].shown = q.as, ![t].settled = FALSE]
  BY <1>1, <1>2, <1>4
<1>5. CASE page' = Failed(t)
  BY <1>1, <1>5, NumbersAre DEF Failed, Placeholder, Keep
<1>6. CASE page' = page
  BY <1>1, <1>6
<1> QED BY <1>3, <1>4, <1>5, <1>6

(* An answer reaches a page. *)
LEMMA PageAnsweredKeeps ==
  ASSUME AccessInv, NEW t \in Tabs, NEW s \in Slots, PageAnswered(t, s)
  PROVE  AccessInv'
<1>1. PICK q : q = exchange[t][s]
  OBVIOUS
<1>2. /\ q.step = "served" /\ exchange' = [exchange EXCEPT ![t][s] = Idle]
      /\ UNCHANGED <<setting, prod, forgejo, address, backing, kept, made, expired,
                     ended, driving, overlapped, registered, requests>>
  BY <1>1 DEF PageAnswered
<1>3. \/ /\ SetCookies(q)
         /\ page' = CASE q.op = "login" /\ q.status = "ok" ->
                           [page EXCEPT ![t].token = q.setCSRF,
                                        ![t].settled = (q.as = page[t].shown)]
                      [] q.op = "register" /\ q.status = "ok" ->
                           [page EXCEPT ![t].shown = q.as, ![t].settled = FALSE]
                      [] OTHER -> page
         /\ UNCHANGED mishaps
      \/ /\ q.op = "login" /\ q.status = "ok" /\ Mishap("body")
         /\ SetCookies(q) /\ page' = Failed(t)
      \/ /\ Mishap("lost") /\ UNCHANGED cookies
         /\ page' = IF q.op = "login" THEN Failed(t) ELSE page
  BY <1>1 DEF PageAnswered
<1>4. /\ t \in Clients /\ t # Driver /\ CallFits(t, s, q) /\ q \in Call /\ q # Idle
      /\ setting = "portal" /\ setting # "driver"
  BY <1>1, <1>2, CallOf, ClientNames
<1>5. mishaps \subseteq mishaps'
  BY <1>3 DEF Mishap
<1>6. Grows
  BY <1>2, <1>5 DEF Grows
<1>7. /\ CallsFit' /\ exchange'[t][s] = Idle
      /\ \A d \in Clients, r \in Slots : d # t \/ r # s => exchange'[d][r] = exchange[d][r]
  <2>1. CallsFit /\ Idle = Idle
    BY DEF AccessInv
  <2>2. PICK a : a = Idle
    OBVIOUS
  <2>3. exchange' = [exchange EXCEPT ![t][s] = a] /\ (a = Idle \/ CallFits(t, s, a)')
    BY <1>2, <2>2
  <2>4. /\ CallsFit' /\ exchange'[t][s] = a
        /\ \A d \in Clients, r \in Slots : d # t \/ r # s => exchange'[d][r] = exchange[d][r]
    BY ONLY <1>4, <1>6, <2>1, <2>3, s \in Slots, CallsMove
  <2> QED BY <2>2, <2>4
<1>8. /\ page' \in [Clients -> [shown: Customers \cup Roles \cup {Nobody, "new"},
                                token: Keep..MaxTokens, settled: BOOLEAN]]
      /\ \A d \in Clients : d # t => page'[d] = page[d]
  <2>1. q.setCSRF \in Keep..MaxTokens /\ PagesFit
    BY <1>4 DEF Call, AccessInv
  <2> QED BY <1>3, <1>4, <2>1, PageMoves
<1>9. /\ CookiesFit'
      /\ \/ UNCHANGED cookies
         \/ /\ cookies'.session = (IF q.setSession = Keep THEN cookies.session
                                   ELSE IF q.setSession \in expired THEN 0 ELSE q.setSession)
            /\ cookies'.csrf = (IF q.setCSRF = Keep THEN cookies.csrf ELSE q.setCSRF)
  <2>1. CASE SetCookies(q)
    BY <1>2, <1>4, <1>6, <2>1, CookiesSet
  <2>2. CASE UNCHANGED cookies
    BY <1>6, <2>2, CookiesStay DEF AccessInv
  <2> QED BY <1>3, <2>1, <2>2
<1>10. PagesFit'
  <2>1. ASSUME NEW u \in Tabs, page'[u].settled PROVE PageFits(u)'
    <3>1. PICK n : n = cookies'.csrf
      OBVIOUS
    <3>2. PICK k : k = page'[u].token
      OBVIOUS
    <3>3. ASSUME /\ IsMade(k) /\ made[k].by = u /\ made[k].owner = page'[u].shown
                 /\ n # 0 /\ (n = k \/ made[n].by # u \/ "body" \in mishaps')
                 /\ cookies'.session # 0 \/ expired # {}
          PROVE  PageFits(u)'
      <4>1. IsMade(k) => IsMade(k)'
        BY <1>6, MadeStays
      <4> QED BY <1>2, <1>4, <3>1, <3>2, <3>3, <4>1 DEF PageFits
    <3>4. CASE /\ u = t /\ q.op = "login" /\ q.status = "ok" /\ SetCookies(q)
               /\ page' = [page EXCEPT ![t].token = q.setCSRF,
                                       ![t].settled = (q.as = page[t].shown)]
      <4>1. /\ page'[t].token = q.setCSRF /\ page'[t].shown = page[t].shown
            /\ page'[t].settled = (q.as = page[t].shown)
        BY <1>4, <3>4 DEF AccessInv, PagesFit
      <4>2. page'[t].shown = q.as /\ k = q.setCSRF
        BY <2>1, <3>2, <3>4, <4>1
      <4>3. /\ q.setCSRF # Keep /\ IsMade(k) /\ made[k].by = t /\ made[k].owner = q.as
            /\ q.setSession = k /\ k # 0
        BY <1>4, <3>4, <4>2 DEF CallFits, Maker
      <4>4. /\ n = k
            /\ cookies'.session = (IF k \in expired THEN 0 ELSE k)
        <5>1. /\ cookies'.session = (IF q.setSession = Keep THEN cookies.session
                                     ELSE IF q.setSession \in expired THEN 0 ELSE q.setSession)
              /\ cookies'.csrf = (IF q.setCSRF = Keep THEN cookies.csrf ELSE q.setCSRF)
          BY <1>2, <1>4, <1>6, <3>4, CookiesSet
        <5> QED BY <3>1, <4>2, <4>3, <5>1
      <4> QED BY <3>3, <3>4, <4>2, <4>3, <4>4
    <3>5. ASSUME page'[u].token = page[u].token, page'[u].shown = page[u].shown,
                 page[u].settled,
                 u = t /\ q.op = "login" /\ q.status = "ok" =>
                     UNCHANGED cookies \/ "body" \in mishaps'
          PROVE  PageFits(u)'
      <4>1. PICK m : m = cookies.csrf
        OBVIOUS
      <4>2. /\ IsMade(k) /\ made[k].by = u /\ made[k].owner = page'[u].shown
            /\ m # 0 /\ (m = k \/ made[m].by # u \/ "body" \in mishaps)
            /\ cookies.session # 0 \/ expired # {}
        BY <3>2, <3>5, <4>1 DEF AccessInv, PagesFit, PageFits
      <4>3. CASE UNCHANGED cookies
        BY <1>5, <3>1, <3>3, <4>1, <4>2, <4>3
      <4>4. CASE /\ cookies'.session = (IF q.setSession = Keep THEN cookies.session
                                        ELSE IF q.setSession \in expired THEN 0 ELSE q.setSession)
                 /\ cookies'.csrf = (IF q.setCSRF = Keep THEN cookies.csrf ELSE q.setCSRF)
                 /\ cookies' # cookies
        <5>1. q.setSession # 0
          BY <1>4 DEF CallFits
        <5>2. cookies'.session # 0 \/ expired # {}
          BY <4>2, <4>4, <5>1
        <5>3. CASE q.setCSRF = Keep
          BY <1>5, <3>1, <3>3, <4>1, <4>2, <4>4, <5>2, <5>3
        <5>4. CASE q.setCSRF # Keep
          <6>1. n = q.setCSRF /\ n # 0 /\ made[n].by = Maker(t, q)
            BY <1>4, <3>1, <4>4, <5>4 DEF CallFits
          <6>2. u # t => Maker(t, q) # u
            BY ClientNames DEF Maker
          <6>3. q.op # "login" => Maker(t, q) # u
            BY ClientNames DEF Maker
          <6>4. q.op = "login" => q.status = "ok"
            BY <1>4, <5>4 DEF CallFits
          <6> QED BY <3>3, <3>5, <4>2, <4>4, <5>2, <6>1, <6>2, <6>3, <6>4
        <5> QED BY <5>3, <5>4
      <4> QED BY <1>9, <4>3, <4>4
    <3>6. CASE u # t
      <4>1. page'[u] = page[u]
        BY <1>8, <3>6, ClientNames
      <4> QED BY <2>1, <3>5, <3>6, <4>1
    <3>7. CASE u = t /\ page' = page /\ ~(q.op = "login" /\ q.status = "ok" /\ SetCookies(q))
      BY <1>3, <2>1, <3>5, <3>7
    <3>8. CASE u = t /\ page' = Failed(t) /\ (UNCHANGED cookies \/ "body" \in mishaps')
      <4>1. page'[t].shown = page[t].shown /\ page'[t].settled = page[t].settled
            /\ page'[t].token = (IF page[t].token = 0 THEN Placeholder ELSE page[t].token)
        BY <1>4, <3>8 DEF Failed, AccessInv, PagesFit
      <4>2. page[t].token # 0
        BY <2>1, <3>8, <4>1, NumbersAre DEF AccessInv, PagesFit, PageFits, IsMade
      <4> QED BY <2>1, <3>5, <3>8, <4>1, <4>2
    <3>9. CASE u = t /\ page' = [page EXCEPT ![t].shown = q.as, ![t].settled = FALSE]
      BY <1>4, <2>1, <3>9 DEF AccessInv, PagesFit
    <3>10. Mishap("body") => "body" \in mishaps'
      BY DEF Mishap
    <3> QED BY <1>3, <3>4, <3>6, <3>7, <3>8, <3>9, <3>10
  <2> QED BY <1>8, <2>1 DEF PagesFit, PageFits
<1>11. LoginsPending'
  <2> SUFFICES ASSUME Untroubled', NEW u \in Tabs
               PROVE  /\ exchange'[u]["again"] = Idle
                      /\ page'[u].shown # Nobody /\ ~page'[u].settled =>
                             exchange'[u]["login"] # Idle
                      /\ exchange'[u]["login"] # Idle =>
                             /\ exchange'[u]["login"].as = page'[u].shown
                             /\ exchange'[u]["login"].step = "served" =>
                                    exchange'[u]["login"].status = "ok"
    BY DEF LoginsPending
  <2>1. Untroubled /\ ~registered /\ mishaps' = {}
    BY <1>2, <1>5 DEF Untroubled
  <2>2. "login" \in Slots /\ "again" \in Slots /\ "act" \in Slots /\ u \in Clients
    BY ClientNames DEF Slots
  <2>3. \A v \in Tabs :
           /\ exchange[v]["again"] = Idle
           /\ page[v].shown # Nobody /\ ~page[v].settled => exchange[v]["login"] # Idle
           /\ exchange[v]["login"] # Idle =>
                 /\ exchange[v]["login"].as = page[v].shown
                 /\ exchange[v]["login"].step = "served" => exchange[v]["login"].status = "ok"
    BY <2>1 DEF AccessInv, LoginsPending
  <2>4. s # "again" /\ q.op # "register"
    BY <1>1, <1>2, <1>4, <2>1, <2>3 DEF CallFits
  <2>5. page' = (IF q.op = "login" /\ q.status = "ok"
                 THEN [page EXCEPT ![t].token = q.setCSRF, ![t].settled = (q.as = page[t].shown)]
                 ELSE page)
    BY <1>3, <2>1, <2>4 DEF Mishap
  <2>6. CASE u # t
    <3>1. /\ page'[u] = page[u] /\ exchange'[u]["login"] = exchange[u]["login"]
          /\ exchange'[u]["again"] = exchange[u]["again"]
      BY <1>7, <1>8, <2>2, <2>6
    <3> QED BY <2>3, <3>1
  <2>7. CASE u = t /\ s = "login"
    <3>1. q.op = "login" /\ q.status = "ok" /\ q.as = page[t].shown
      BY <1>1, <1>2, <1>4, <2>3, <2>7 DEF CallFits
    <3>2. page'[t].settled
      BY <1>4, <2>5, <3>1 DEF AccessInv, PagesFit
    <3>3. exchange'[t]["login"] = Idle /\ exchange'[t]["again"] = exchange[t]["again"]
      BY <1>4, <1>7, <2>2, <2>7
    <3> QED BY <2>3, <2>7, <3>2, <3>3
  <2>8. CASE u = t /\ s = "act"
    <3>1. page' = page
      BY <1>4, <2>5, <2>8 DEF CallFits
    <3>2. /\ exchange'[t]["login"] = exchange[t]["login"]
          /\ exchange'[t]["again"] = exchange[t]["again"]
      BY <1>4, <1>7, <2>2, <2>8
    <3> QED BY <2>3, <2>8, <3>1, <3>2
  <2> QED BY <2>4, <2>6, <2>7, <2>8 DEF Slots
<1>12. DriverFits'
  <2>1. page'[Driver] = page[Driver] /\ driving = "start"
    BY <1>4, <1>8, ClientNames DEF AccessInv, DriverFits
  <2>2. PICK n : n = page[Driver].token
    OBVIOUS
  <2>3. n # 0 => IsMade(n)'
    BY <1>6, <2>2, MadeStays DEF AccessInv, DriverFits
  <2> QED BY <1>2, <1>4, <2>1, <2>2, <2>3 DEF AccessInv, DriverFits
<1> QED BY <1>2, <1>6, <1>7, <1>9, <1>10, <1>11, <1>12, SessionsStay, RolesStay DEF AccessInv

(* An answer reaches the driver, which remembers the token it brings. *)
LEMMA DriverAnswered ==
  ASSUME AccessInv, NEW s \in Slots, NEW q, q = exchange[Driver][s], q.step = "served",
         SetCookies(q), Remember(q),
         exchange' \in [Clients -> [Slots -> Call \cup {Idle}]],
         \A d \in Clients, r \in Slots : exchange'[d][r] \in {Idle, exchange[d][r]},
         \A d \in Tabs, r \in Slots : exchange'[d][r] = exchange[d][r],
         \/ driving' \in {"ready", "reauth"}
         \/ driving' = "retry" /\ s = "login" /\ q.status = "ok",
         UNCHANGED <<setting, prod, forgejo, address, backing, kept, made, expired,
                     ended, overlapped, registered, requests, mishaps>>
  PROVE  AccessInv'
<1>1. /\ CallFits(Driver, s, q) /\ q \in Call /\ setting = "driver" /\ setting # "portal"
      /\ Driver \in Clients
  BY CallOf, ClientNames
<1>2. Grows
  BY DEF Grows
<1>3. CallsFit'
  BY <1>2, CallsFade DEF AccessInv
<1>4. /\ CookiesFit'
      /\ cookies'.session = (IF q.setSession = Keep THEN cookies.session
                             ELSE IF q.setSession \in expired THEN 0 ELSE q.setSession)
  BY <1>1, <1>2, CookiesSet
<1>5. PICK n : n = (IF q.setCSRF = Keep THEN page[Driver].token ELSE q.setCSRF)
  OBVIOUS
<1>6. /\ n \in 0..MaxTokens /\ (n # 0 => IsMade(n)) /\ n \in Keep..MaxTokens
      /\ q.setCSRF # Keep => n # 0
      /\ q.setCSRF = Keep => n = page[Driver].token
  <2>1. q.setCSRF \in Keep..MaxTokens
    BY <1>1 DEF Call
  <2> QED BY <1>1, <1>5, <2>1, NumbersAre DEF CallFits, AccessInv, DriverFits
<1>7. /\ page' \in [Clients -> [shown: Customers \cup Roles \cup {Nobody, "new"},
                                token: Keep..MaxTokens, settled: BOOLEAN]]
      /\ page'[Driver].shown = page[Driver].shown /\ page'[Driver].token = n
      /\ \A d \in Tabs : page'[d] = page[d]
  <2>1. page' = [page EXCEPT ![Driver].token = n]
    BY <1>1, <1>5 DEF Remember, AccessInv, PagesFit
  <2>2. /\ page \in [Clients -> [shown: Customers \cup Roles \cup {Nobody, "new"},
                                 token: Keep..MaxTokens, settled: BOOLEAN]]
        /\ page[Driver] \in [shown: Customers \cup Roles \cup {Nobody, "new"},
                             token: Keep..MaxTokens, settled: BOOLEAN]
    BY <1>1 DEF AccessInv, PagesFit
  <2>3. page' \in [Clients -> [shown: Customers \cup Roles \cup {Nobody, "new"},
                                token: Keep..MaxTokens, settled: BOOLEAN]]
    BY <1>1, <1>6, <2>1, <2>2
  <2> QED BY <1>1, <2>1, <2>2, <2>3, ClientNames
<1>8. PagesFit'
  BY <1>1, <1>7 DEF AccessInv, PagesFit, PageFits
<1>9. LoginsPending'
  BY <1>2, <1>7, LoginsStay DEF AccessInv, Slots
<1>10. DriverFits'
  <2>1. (n # 0 => IsMade(n)')
    BY <1>2, <1>6, MadeStays
  <2>2. cookies'.session # 0 => n # 0
    <3>1. cookies.session # 0 => page[Driver].token # 0
      BY <1>1 DEF AccessInv, DriverFits
    <3>2. q.setSession \notin {Keep, 0} => q.setCSRF # Keep
      BY <1>1 DEF CallFits
    <3> QED BY <1>4, <1>6, <3>1, <3>2
  <2>3. driving' = "retry" => cookies'.session # 0 \/ expired # {}
    <3> SUFFICES ASSUME driving' = "retry" PROVE cookies'.session # 0 \/ expired # {}
      OBVIOUS
    <3>1. q.op = "login" /\ q.status = "ok"
      BY <1>1 DEF CallFits
    <3>2. q.setSession = q.setCSRF /\ q.setCSRF # Keep /\ q.setCSRF # 0
      BY <1>1, <3>1 DEF CallFits
    <3> QED BY <1>4, <3>2
  <2> QED BY <1>1, <1>6, <1>7, <2>1, <2>2, <2>3 DEF AccessInv, DriverFits
<1> QED BY <1>2, <1>3, <1>4, <1>8, <1>9, <1>10, SessionsStay, RolesStay DEF AccessInv

LEMMA LoginAnsweredKeeps == ASSUME AccessInv, LoginAnswered PROVE AccessInv'
<1>1. PICK q : q = exchange[Driver]["login"]
  OBVIOUS
<1>2. /\ q.step = "served" /\ SetCookies(q) /\ Remember(q)
      /\ driving' = (IF driving = "reauth" /\ q.status = "ok" THEN "retry" ELSE "ready")
      /\ exchange' = [exchange EXCEPT ![Driver] =
                      IF driving = "reauth" /\ q.status # "ok" THEN Quiet
                      ELSE [@ EXCEPT !["login"] = Idle]]
      /\ UNCHANGED <<setting, prod, forgejo, address, backing, kept, made, expired,
                     ended, overlapped, registered, requests, mishaps>>
  BY <1>1 DEF LoginAnswered
<1>3. exchange \in [Clients -> [Slots -> Call \cup {Idle}]] /\ "login" \in Slots
  BY DEF AccessInv, CallsFit, Slots
<1>4. /\ exchange' \in [Clients -> [Slots -> Call \cup {Idle}]]
      /\ \A d \in Clients, r \in Slots : exchange'[d][r] \in {Idle, exchange[d][r]}
      /\ \A d \in Tabs, r \in Slots : exchange'[d][r] = exchange[d][r]
  <2>1. CASE exchange' = [exchange EXCEPT ![Driver] = Quiet]
    BY <1>3, <2>1, ClientNames DEF Quiet
  <2>2. CASE exchange' = [exchange EXCEPT ![Driver]["login"] = Idle]
    BY <1>3, <2>2, ClientNames
  <2> QED BY <1>2, <2>1, <2>2
<1>5. driving' \in {"ready", "reauth"} \/ (driving' = "retry" /\ q.status = "ok")
  BY <1>2
<1> QED BY <1>1, <1>2, <1>3, <1>4, <1>5, DriverAnswered

LEMMA ActionAnsweredKeeps == ASSUME AccessInv, ActionAnswered PROVE AccessInv'
<1>1. PICK q : q = exchange[Driver]["act"]
  OBVIOUS
<1>2. /\ q.step = "served" /\ SetCookies(q) /\ Remember(q)
      /\ \/ driving' = "reauth" /\ UNCHANGED exchange
         \/ driving' = "ready" /\ exchange' = [exchange EXCEPT ![Driver]["act"] = Idle]
      /\ UNCHANGED <<setting, prod, forgejo, address, backing, kept, made, expired,
                     ended, overlapped, registered, requests, mishaps>>
  BY <1>1 DEF ActionAnswered
<1>3. exchange \in [Clients -> [Slots -> Call \cup {Idle}]] /\ "act" \in Slots
  BY DEF AccessInv, CallsFit, Slots
<1>4. /\ exchange' \in [Clients -> [Slots -> Call \cup {Idle}]]
      /\ \A d \in Clients, r \in Slots : exchange'[d][r] \in {Idle, exchange[d][r]}
      /\ \A d \in Tabs, r \in Slots : exchange'[d][r] = exchange[d][r]
  BY <1>2, <1>3, ClientNames
<1>5. driving' \in {"ready", "reauth"}
  BY <1>2
<1> QED BY <1>1, <1>2, <1>3, <1>4, <1>5, DriverAnswered

(* What the invariant says of the properties. *)
LEMMA AccessInvSuffices == ASSUME AccessInv PROVE PortalAccessExplained
<1>1. AccessTypeOK
  BY DEF AccessInv, AccessTypeOK, CallsFit, CookiesFit, PagesFit, SessionsKept, DriverFits
<1>2. WritesOwn
  <2> SUFFICES ASSUME NEW t \in Tabs, NEW q, q = exchange[t]["act"], q.step = "served",
                      q.op = "write", q.settled
               PROVE  /\ q.status = "ok" => made[q.session].owner = q.as
                      /\ q.status = "csrf" =>
                             "body" \in mishaps \/ (q.csrf # 0 /\ made[q.csrf].by # t)
                      /\ q.status = "unauthorized" =>
                             \/ q.session \in expired \cup ended
                             \/ q.session = 0 /\ expired # {}
                             \/ mishaps \cap {"restart", "valkey"} # {}
    BY DEF WritesOwn, Acts
  <2>1. CallFits(t, "act", q) /\ setting = "portal"
    BY CallOf, ClientNames DEF Slots
  <2>2. WriteFits(t, q)
    BY <2>1 DEF CallFits
  <2> QED BY <2>2 DEF WriteFits
<1>3. ShownExplained
  BY DEF AccessInv, LoginsPending, Untroubled, ShownExplained
<1>4. EndedHolds
  BY DEF AccessInv, SessionsKept, EndedHolds, Get, MemoryGet, ValkeyGet
<1>5. DriverExplained
  <2>1. ASSUME setting = "driver", Acts(Driver, "write")
        PROVE  exchange[Driver]["act"].status # "csrf"
    <3>1. PICK q : q = exchange[Driver]["act"]
      OBVIOUS
    <3>2. q.step = "served" /\ q.op = "write"
      BY <2>1, <3>1 DEF Acts
    <3>3. CallFits(Driver, "act", q)
      BY <3>1, <3>2, CallOf, ClientNames DEF Slots
    <3> QED BY <2>1, <3>1, <3>2, <3>3 DEF CallFits
  <2> QED BY <2>1 DEF AccessInv, DriverFits, RolesGiven, DriverExplained
<1> QED BY <1>1, <1>2, <1>3, <1>4, <1>5 DEF PortalAccessExplained

(* Every step keeps the invariant. *)
LEMMA AccessKeeps == ASSUME AccessInv, [AccessNext]_accessVars PROVE AccessInv'
<1>1. ASSUME NEW t \in Tabs,
             \/ Mount(t)
             \/ TogglePersona(t)
             \/ \E op \in {"register", "read", "write"} : PageAsks(t, op)
             \/ \E s \in Slots : PageAnswered(t, s)
      PROVE  AccessInv'
  BY <1>1, MountKeeps, TogglePersonaKeeps, PageAsksKeeps, PageAnsweredKeeps
<1>2. CASE AuthenticatePersona \/ Retry \/ LoadTokensFile \/ LoginAnswered \/ ActionAnswered
  BY <1>2, AuthenticatePersonaKeeps, RetryKeeps, LoadTokensFileKeeps, LoginAnsweredKeeps,
     ActionAnsweredKeeps
<1>3. CASE \E op \in {"read", "write", "logout"}, r \in DOMAIN Allowed : Execute(op, r)
  BY <1>3, ExecuteKeeps
<1>4. ASSUME NEW c \in Clients,
             \/ ServeRequest(c)
             \/ ServeLogout(c)
             \/ ServeRegister(c)
             \/ \E s \in Slots : ServeLogin(c, s)
      PROVE  AccessInv'
  BY <1>4, ServeRequestKeeps, ServeLogoutKeeps, ServeRegisterKeeps, ServeLoginKeeps
<1>5. CASE CloseBrowser \/ NewSessionStore \/ \E n \in Numbers : Expire(n)
  BY <1>5, CloseBrowserKeeps, NewSessionStoreKeeps, ExpireKeeps
<1>6. CASE UNCHANGED accessVars
  <2>1. UNCHANGED <<setting, prod, forgejo, cookies, page, exchange, address, backing, kept,
                    made, expired, ended, driving, overlapped, registered, mishaps>>
    BY <1>6 DEF accessVars
  <2>2. Grows
    BY <2>1 DEF Grows
  <2>3. CallsFit'
    BY <2>1, <2>2, CallsFade DEF AccessInv, CallsFit
  <2>4. PagesFit'
    BY <2>1, <2>2, PagesStay DEF AccessInv, PagesFit
  <2> QED BY <2>1, <2>2, <2>3, <2>4, CookiesStay, LoginsStay, SessionsStay, DriverStays,
             RolesStay DEF AccessInv
<1> QED BY <1>1, <1>2, <1>3, <1>4, <1>5, <1>6 DEF AccessNext

(* Both portals and the driver (SessionAuthMiddleware, CSRFProtectMiddleware, *)
(* RequireRole, doRequest): whatever the number of pages, logins, requests    *)
(* and mishaps, a page whose login came back writes as the customer it shows, *)
(* and every refusal, every page that shows another customer, every session   *)
(* that comes back and every role has one of the reasons the property names.  *)
THEOREM PortalAccessIsExplained == AccessSpec => []PortalAccessExplained
<1>1. AccessInit => AccessInv
  BY AccessInitial
<1>2. AccessInv /\ [AccessNext]_accessVars => AccessInv'
  BY AccessKeeps
<1>3. AccessInv => PortalAccessExplained
  BY AccessInvSuffices
<1> QED BY <1>1, <1>2, <1>3, PTL DEF AccessSpec
=============================================================================
