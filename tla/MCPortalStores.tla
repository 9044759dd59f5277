--------------------------- MODULE MCPortalStores ---------------------------
(* Who may come in: the sessions and rate limits both portals keep in      *)
(* Valkey, the accounts an employee is given and loses, and the cookies    *)
(* and tokens of a request.  They are taken one at a time: a behaviour     *)
(* moves one of them, chosen at the start.                                 *)
EXTENDS SessionStore, RateLimiter, Sagas, PortalAccess, TLC

CONSTANTS pod1, pod2, garfield, ana, cat

VARIABLE store

(* Two pods, the clock of one ahead. *)
MCSkew == (pod1 :> 0) @@ (pod2 :> 1)

(* Two people of the same name, and a cat; two calls overlap, and one call *)
(* of another system fails.                                                *)
MCName(e) == IF e = garfield THEN cat ELSE ana

(* Two pages with two requests between them once they are loaded, and one  *)
(* thing that goes wrong or ends; two of these for the driver.             *)
MCMishaps == [portal |-> 1, driver |-> 2]

(* Three sessions of one user that outlive a step of time; the tokens are  *)
(* interchangeable, and so are the two people, after whom the two pages    *)
(* are named.                                                              *)
StoreSymmetry == Permutations(Tokens) \cup Permutations(People)

MCInit ==
    /\ store \in {"sessions", "limits", "accounts", "access"}
    /\ Init /\ LimitInit /\ SagaInit /\ AccessInit
    /\ store # "accounts" => wired = {} /\ engine = "bll" /\ status[garfield] = "none"
    /\ store # "access" => setting = "portal"

Moves(s) == store = s /\ UNCHANGED store
MCNext ==
    \/ Moves("sessions") /\ Next /\ UNCHANGED <<limitVars, sagaVars, accessVars>>
    \/ Moves("limits") /\ LimitNext /\ UNCHANGED <<vars, sagaVars, accessVars>>
    \/ Moves("accounts") /\ SagaNext /\ UNCHANGED <<vars, limitVars, accessVars>>
    \/ Moves("access") /\ AccessNext /\ UNCHANGED <<vars, limitVars, sagaVars>>
MCSpec == MCInit /\ [][MCNext]_<<store, vars, limitVars, sagaVars, accessVars>>
=============================================================================
