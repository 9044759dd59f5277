---------------------------- MODULE SessionStore ----------------------------
(***************************************************************************)
(* Login sessions in Valkey (pkg/session/valkey/store.go).  A session is a *)
(* key per token with a 24 hour lifetime, and each user has an index set   *)
(* of tokens with a 48 hour lifetime that bulk revocation works from.  The *)
(* store's pipelines are not transactions: other clients' commands fall    *)
(* between their commands.  Only the purge script is atomic.               *)
(*                                                                         *)
(* Customers and employees use the same code under different key prefixes; *)
(* this is either store.  A pipeline is sent at once and does not straddle *)
(* a time step.                                                            *)
(***************************************************************************)
EXTENDS Naturals, FiniteSets

CONSTANTS Users, Tokens, None,
          SessionTTL,   \* lifetime of a session key
          IndexTTL      \* lifetime of an index set after the last login

ASSUME SessionAssumption ==
  /\ None \notin Users
  /\ SessionTTL \in Nat \ {0}
  /\ IndexTTL \in Nat
  /\ SessionTTL < IndexTTL

VARIABLES owner,     \* the user a token was generated for
          login,     \* how far Create and SetSession got for a token
          live,      \* tokens whose session key exists
          age,       \* time since the session key was set
          index,     \* the index set of each user
          indexAge,  \* time since the index set's lifetime was renewed
          logout,    \* how far a logout or a GDPR erasure got for its token
          purgeAll,  \* the logout asked for every session of the user
          pruning,   \* how far PruneStaleSessions got for a user
          listed,    \* tokens it read from the index
          stale,     \* tokens it found without a session key
          revoked,   \* history: tokens that must not work any more
          erased     \* history: tokens a GDPR erasure found logged in

loginVars == <<owner, login>>
keyVars == <<live, age>>
indexVars == <<index, indexAge>>
logoutVars == <<logout, purgeAll>>
pruneVars == <<pruning, listed, stale>>
vars == <<loginVars, keyVars, indexVars, logoutVars, pruneVars, revoked, erased>>

LogoutSteps == {"none", "delete", "unindex", "purge", "erase", "erasing", "done", "erased"}

TypeOK ==
  /\ owner \in [Tokens -> Users \cup {None}]
  /\ login \in [Tokens -> {"unused", "set", "acked", "failed"}]
  /\ live \subseteq Tokens
  /\ age \in [Tokens -> 0 .. SessionTTL]
  /\ index \in [Users -> SUBSET Tokens]
  /\ \A u \in Users : \A t \in index[u] : owner[t] = u
  /\ indexAge \in [Users -> 0 .. IndexTTL]
  /\ logout \in [Tokens -> LogoutSteps]
  /\ purgeAll \in [Tokens -> BOOLEAN]
  /\ pruning \in [Users -> {"idle", "listed", "fetched"}]
  /\ listed \in [Users -> SUBSET Tokens]
  /\ stale \in [Users -> SUBSET Tokens]
  /\ revoked \subseteq Tokens
  /\ erased \subseteq Tokens

Init ==
  /\ owner = [t \in Tokens |-> None]
  /\ login = [t \in Tokens |-> "unused"]
  /\ live = {}
  /\ age = [t \in Tokens |-> 0]
  /\ index = [u \in Users |-> {}]
  /\ indexAge = [u \in Users |-> 0]
  /\ logout = [t \in Tokens |-> "none"]
  /\ purgeAll = [t \in Tokens |-> FALSE]
  /\ pruning = [u \in Users |-> "idle"]
  /\ listed = [u \in Users |-> {}]
  /\ stale = [u \in Users |-> {}]
  /\ revoked = {}
  /\ erased = {}

-----------------------------------------------------------------------------
(* Login: Create draws a fresh token; SetSession's pipeline sets the       *)
(* session key, then adds the token to the index and renews its lifetime.  *)

SetSessionKey(u, t) ==
  /\ login[t] = "unused"
  /\ owner' = [owner EXCEPT ![t] = u]
  /\ login' = [login EXCEPT ![t] = "set"]
  /\ live' = live \cup {t}
  /\ age' = [age EXCEPT ![t] = 0]
  /\ UNCHANGED <<indexVars, logoutVars, pruneVars, revoked, erased>>

SetSessionIndex(t) ==
  LET u == owner[t]
  IN  /\ login[t] = "set"
      /\ login' = [login EXCEPT ![t] = "acked"]
      /\ index' = [index EXCEPT ![u] = @ \cup {t}]
      /\ indexAge' = [indexAge EXCEPT ![u] = 0]
      /\ UNCHANGED <<owner, keyVars, logoutVars, pruneVars, revoked, erased>>

(* The pipeline breaks after its first command: the client gets an error   *)
(* and no cookie, the key stays until it expires.                          *)
SetSessionFails(t) ==
  /\ login[t] = "set"
  /\ login' = [login EXCEPT ![t] = "failed"]
  /\ UNCHANGED <<owner, keyVars, indexVars, logoutVars, pruneVars, revoked, erased>>

-----------------------------------------------------------------------------
(* Logout of a logged-in browser.  Delete reads the session to learn its   *)
(* owner; without one it changes nothing.  It then deletes the key, and    *)
(* takes the token out of the index.  The employee portal's ?all=true      *)
(* purges the rest of the user's sessions afterwards.                      *)
Logout(t, all) ==
  /\ login[t] = "acked"
  /\ logout[t] = "none"
  /\ t \in live
  /\ logout' = [logout EXCEPT ![t] = "delete"]
  /\ purgeAll' = [purgeAll EXCEPT ![t] = all]
  /\ UNCHANGED <<loginVars, keyVars, indexVars, pruneVars, revoked, erased>>

DeleteKey(t) ==
  /\ logout[t] \in {"delete", "erase"}
  /\ logout' = [logout EXCEPT ![t] = IF @ = "delete" THEN "unindex" ELSE "erasing"]
  /\ live' = live \ {t}
  /\ revoked' = revoked \cup {t}
  /\ UNCHANGED <<loginVars, age, indexVars, purgeAll, pruneVars, erased>>

DeleteIndex(t) ==
  /\ logout[t] \in {"unindex", "erasing"}
  /\ logout' = [logout EXCEPT ![t] = IF @ = "erasing" THEN "erased"
                                      ELSE IF purgeAll[t] THEN "purge" ELSE "done"]
  /\ index' = [index EXCEPT ![owner[t]] = @ \ {t}]
  /\ UNCHANGED <<loginVars, keyVars, indexAge, purgeAll, pruneVars, revoked, erased>>

(* Mutant: the index goes, the keys stay. *)
PurgeSessionsIndexOnly(t) ==
  LET u == owner[t]
  IN  /\ logout[t] = "purge"
      /\ logout' = [logout EXCEPT ![t] = "done"]
      /\ index' = [index EXCEPT ![u] = {}]
      /\ revoked' = revoked \cup {s \in Tokens : owner[s] = u /\ login[s] = "acked"}
      /\ UNCHANGED <<loginVars, keyVars, indexAge, purgeAll, pruneVars, erased>>

(* The Lua script: every token of the index loses its key, then the index  *)
(* goes, in one step of the server.                                        *)
PurgeSessions(t) ==
  LET u == owner[t]
  IN  /\ logout[t] = "purge"
      /\ logout' = [logout EXCEPT ![t] = "done"]
      /\ live' = live \ index[u]
      /\ index' = [index EXCEPT ![u] = {}]
      /\ revoked' = revoked \cup {s \in Tokens : owner[s] = u /\ login[s] = "acked"}
      /\ UNCHANGED <<loginVars, age, indexAge, purgeAll, pruneVars, erased>>

(* GDPR erasure from one browser: customer-bll scrubs the data, then       *)
(* Delete runs for the session of that browser.                            *)
Erase(t) ==
  /\ login[t] = "acked"
  /\ logout[t] = "none"
  /\ t \in live
  /\ logout' = [logout EXCEPT ![t] = "erase"]
  /\ erased' = erased \cup {s \in live : owner[s] = owner[t] /\ login[s] = "acked"}
  /\ UNCHANGED <<loginVars, keyVars, indexVars, purgeAll, pruneVars, revoked>>

-----------------------------------------------------------------------------
(* PruneStaleSessions: SMEMBERS, MGET, then a pipeline of SREMs.           *)

PruneList(u) ==
  /\ pruning[u] = "idle"
  /\ index[u] # {}
  /\ pruning' = [pruning EXCEPT ![u] = "listed"]
  /\ listed' = [listed EXCEPT ![u] = index[u]]
  /\ UNCHANGED <<loginVars, keyVars, indexVars, logoutVars, stale, revoked, erased>>

(* Mutant: whatever is indexed now and was not among the sessions listed    *)
(* as live is taken for stale.                                              *)
PruneRemoveUnlisted(u) ==
  /\ pruning[u] = "fetched"
  /\ pruning' = [pruning EXCEPT ![u] = "idle"]
  /\ index' = [index EXCEPT ![u] = @ \cap (listed[u] \ stale[u])]
  /\ listed' = [listed EXCEPT ![u] = {}]
  /\ stale' = [stale EXCEPT ![u] = {}]
  /\ UNCHANGED <<loginVars, keyVars, indexAge, logoutVars, revoked, erased>>

PruneFetch(u) ==
  /\ pruning[u] = "listed"
  /\ pruning' = [pruning EXCEPT ![u] = "fetched"]
  /\ stale' = [stale EXCEPT ![u] = listed[u] \ live]
  /\ UNCHANGED <<loginVars, keyVars, indexVars, logoutVars, listed, revoked, erased>>

PruneRemove(u) ==
  /\ pruning[u] = "fetched"
  /\ pruning' = [pruning EXCEPT ![u] = "idle"]
  /\ index' = [index EXCEPT ![u] = @ \ stale[u]]
  /\ listed' = [listed EXCEPT ![u] = {}]
  /\ stale' = [stale EXCEPT ![u] = {}]
  /\ UNCHANGED <<loginVars, keyVars, indexAge, logoutVars, revoked, erased>>

-----------------------------------------------------------------------------
(* Time: keys and index sets at the end of their lifetime disappear, and   *)
(* what is gone has no age.                                                *)
InPipeline == \E t \in Tokens : login[t] = "set" \/ logout[t] \in {"unindex", "erasing"}

Tick ==
  /\ ~InPipeline
  /\ live' = {t \in live : age[t] + 1 < SessionTTL}
  /\ age' = [t \in Tokens |-> IF t \in live /\ age[t] + 1 < SessionTTL THEN age[t] + 1 ELSE 0]
  /\ index' = [u \in Users |-> IF indexAge[u] + 1 < IndexTTL THEN index[u] ELSE {}]
  /\ indexAge' = [u \in Users |-> IF index[u] # {} /\ indexAge[u] + 1 < IndexTTL
                                    THEN indexAge[u] + 1 ELSE 0]
  /\ UNCHANGED <<loginVars, logoutVars, pruneVars, revoked, erased>>

-----------------------------------------------------------------------------
Create == \E t \in Tokens :
            (\E u \in Users : SetSessionKey(u, t)) \/ SetSessionIndex(t) \/ SetSessionFails(t)

Leave == \E t \in Tokens : \/ \E all \in BOOLEAN : Logout(t, all)
                           \/ DeleteKey(t) \/ DeleteIndex(t) \/ PurgeSessions(t)

PruneStaleSessions == \E u \in Users : PruneList(u) \/ PruneFetch(u) \/ PruneRemove(u)

Next == Create \/ Leave \/ (\E t \in Tokens : Erase(t)) \/ PruneStaleSessions \/ Tick

Spec == Init /\ [][Next]_vars

-----------------------------------------------------------------------------
(* Bulk revocation works from the index, so the index must know every      *)
(* session a browser holds: a prune that read the store before a login     *)
(* finished, an index set that expires, or another device's logout may not *)
(* take a working session out of it.                                       *)
IndexCoversLive ==
  \A t \in live : login[t] = "acked" /\ logout[t] \notin {"unindex", "erasing"}
                     => t \in index[owner[t]]

(* The store is well formed, and the index knows every session there is. *)
SessionsIndexed == TypeOK /\ IndexCoversLive

(* A session that was logged out, or that existed when its user's sessions *)
(* were purged, never works again, although logins, prunes and other       *)
(* logouts of the same user interleave with every command.                 *)
RevokedStaysDead == revoked \cap live = {}

(* README: the index sets enable "atomic bulk purges on logout, account    *)
(* closure, or GDPR erasure" -- once the erasure is done no session the    *)
(* customer had before it still works.                                     *)
ErasureEndsSessions ==
  \A t \in Tokens : logout[t] = "erased" =>
     \A s \in erased : owner[s] = owner[t] => s \notin live
=============================================================================
