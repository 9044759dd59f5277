---------------------------- MODULE PortalAccess ----------------------------
(***************************************************************************)
(* How a request gets into a portal: the session cookie, the CSRF token    *)
(* that a page sends twice, and the roles of employees.  In one setting    *)
(* the pages of the customer portal share the cookies of a browser; in the *)
(* other the simulation driver acts for an employee with cookies of its    *)
(* own.                                                                    *)
(*                                                                         *)
(* A login makes a session and a CSRF token, both called by its number.    *)
(* What a write does, and the indexes of the session store (SessionStore), *)
(* are left out.                                                           *)
(***************************************************************************)
EXTENDS Integers, FiniteSets

CONSTANTS Tabs,        \* pages of the customer portal in one browser
          MaxTokens,   \* logins, and tokens made without one
          MaxRequests, \* of the driver, and of the pages once they are loaded
          MaxMishaps   \* by setting: what goes wrong or ends, each of another kind

(* Pages have names of their own. *)
ASSUME AccessAssumption ==
    MaxTokens \in Nat /\ Tabs \cap {"none", "driver", "register", "auth"} = {}

VARIABLES
    setting,   \* who asks: the portal's pages, or the driver for an employee
    prod,      \* the employee portal runs in production
    forgejo,   \* what Forgejo says of the employee
    cookies,   \* of the browser, or of the persona
    page,      \* what a page shows and keeps in memory
    exchange,  \* the requests under way
    address,   \* VALKEY_ADDR is given
    backing,   \* the store the portal chose when it started
    kept,      \* sessions in Valkey, and in the memory of the process
    made,      \* by number: who a session is for and who asked for it
    expired, ended,
    driving,   \* where the driver is in its list of actions
    overlapped, registered, requests, mishaps

accessVars == <<setting, prod, forgejo, cookies, page, exchange, address, backing, kept,
                made, expired, ended, driving, overlapped, registered, requests, mishaps>>

Customers == {"arthur", "chloe"}
Roles == {"admin", "engineering", "hr"}
Nobody == "none"
Driver == "driver"
Clients == Tabs \cup {Driver}
Slots == {"login", "again", "act"}
Numbers == 1..MaxTokens
Keep == 0 - 1          \* a cookie the answer does not mention
Placeholder == 0 - 1   \* 'oci-dev-csrf-token'

Idle == [step |-> "idle"]
Call ==
    [step: {"sent", "served"}, op: {"login", "register", "read", "write", "logout"},
     as: Customers \cup Roles \cup {"new"}, settled: BOOLEAN,
     route: {Nobody, "tickets", "push", "quant"},
     session: 0..MaxTokens, csrf: 0..MaxTokens, header: Keep..MaxTokens,
     status: {Nobody, "ok", "unauthorized", "csrf", "role", "limited", "error"},
     setSession: Keep..MaxTokens, setCSRF: Keep..MaxTokens]

AccessTypeOK ==
    /\ setting \in {"portal", "driver"}
    /\ cookies \in [session: 0..MaxTokens, csrf: 0..MaxTokens]
    /\ page \in [Clients -> [shown: Customers \cup Roles \cup {Nobody, "new"},
                             token: Keep..MaxTokens, settled: BOOLEAN]]
    /\ \A c \in Clients, s \in Slots : exchange[c][s] = Idle \/ exchange[c][s] \in Call
    /\ backing \in {"valkey", "memory"} /\ kept \in [{"valkey", "memory"} -> SUBSET Numbers]
    /\ made \in [Numbers -> [owner: Customers \cup Roles \cup {Nobody, "new"},
                             by: Clients \cup {Nobody, "register", "auth"}]]
    /\ expired \subseteq Numbers /\ ended \subseteq Numbers

(* A store without an address is the memory of the process. *)
AccessInit ==
    /\ setting \in {"portal", "driver"}
    /\ prod \in BOOLEAN /\ address \in BOOLEAN /\ forgejo \in {"admin", "user", "unknown"}
    /\ setting = "portal" => prod /\ address
    /\ setting = "portal" \/ ~prod => forgejo = "user"
    /\ cookies = [session |-> 0, csrf |-> 0]
    /\ \E r \in Roles :
          /\ prod => r = "hr"
          /\ page = [c \in Clients |-> [shown |-> IF c = Driver THEN r ELSE Nobody,
                                        token |-> 0, settled |-> FALSE]]
    /\ exchange = [c \in Clients |-> [s \in Slots |-> Idle]]
    /\ backing = IF address THEN "valkey" ELSE "memory"
    /\ kept = [b \in {"valkey", "memory"} |-> {}]
    /\ made = [n \in Numbers |-> [owner |-> Nobody, by |-> Nobody]]
    /\ expired = {} /\ ended = {}
    /\ driving = "start" /\ overlapped = FALSE /\ registered = FALSE
    /\ requests = 0 /\ mishaps = {}

Mishap(m) == /\ m \notin mishaps /\ Cardinality(mishaps) < MaxMishaps[setting]
             /\ mishaps' = mishaps \cup {m}
Fresh(n) == made[n].by = Nobody /\ \A m \in 1..(n - 1) : made[m].by # Nobody

-----------------------------------------------------------------------------
(* The pages.  A request takes the cookies of the browser as they are; of  *)
(* what it sends, what the handler looks at is kept.                       *)
Sent(op, as) == [step |-> "sent", op |-> op, as |-> as, settled |-> FALSE, route |-> Nobody,
                 session |-> 0, csrf |-> 0, header |-> 0, status |-> Nobody,
                 setSession |-> Keep, setCSRF |-> Keep]
Request(c, op, as) ==
    [Sent(op, as) EXCEPT !.settled = page[c].settled, !.session = cookies.session,
                         !.csrf = cookies.csrf, !.header = IF op = "write" THEN page[c].token ELSE 0]
Ask == requests < MaxRequests /\ requests' = requests + 1

Quiet == [s \in Slots |-> Idle]

(* A page is loaded, with nothing in memory, and logs the first persona    *)
(* in.                                                                     *)
Mount(t) ==
    /\ setting = "portal" /\ page[t].shown = Nobody
    /\ page' = [page EXCEPT ![t] = [shown |-> "arthur", token |-> 0, settled |-> FALSE]]
    /\ exchange' = [exchange EXCEPT ![t]["login"] = Sent("login", "arthur")]
    /\ UNCHANGED <<setting, prod, forgejo, cookies, address, backing, kept, made,
                   expired, ended, driving, overlapped, registered, requests, mishaps>>

(* The persona is changed: the page shows the other customer at once and   *)
(* asks for the login.  Nothing keeps a second change from starting before *)
(* the first login was answered.                                           *)
TogglePersona(t) ==
    LET who == IF page[t].shown = "arthur" THEN "chloe" ELSE "arthur"
        s == IF exchange[t]["login"] = Idle THEN "login" ELSE "again"
    IN /\ setting = "portal" /\ page[t].shown # Nobody /\ Ask
       /\ exchange[t][s] = Idle
       /\ exchange' = [exchange EXCEPT ![t][s] = Sent("login", who)]
       /\ overlapped' = (overlapped \/ exchange[t]["login"] # Idle \/ exchange[t]["again"] # Idle)
       /\ page' = [page EXCEPT ![t].shown = who, ![t].settled = FALSE]
       /\ UNCHANGED <<setting, prod, forgejo, cookies, address, backing, kept, made,
                      expired, ended, driving, registered, mishaps>>

(* A customer registers, reads or writes; each of these waits for its own  *)
(* answer, and not for a login.                                            *)
PageAsks(t, op) ==
    /\ setting = "portal" /\ page[t].shown # Nobody /\ Ask
    /\ exchange[t]["act"] = Idle
    /\ exchange' = [exchange EXCEPT ![t]["act"] =
                    IF op = "register" THEN Sent(op, "new") ELSE Request(t, op, page[t].shown)]
    /\ UNCHANGED <<setting, prod, forgejo, cookies, page, address, backing, kept, made,
                   expired, ended, driving, overlapped, registered, mishaps>>

-----------------------------------------------------------------------------
(* The driver: it logs the persona in, takes one action after the other,   *)
(* and after a 401 logs in again and repeats the action once.              *)
AuthenticatePersona ==
    /\ setting = "driver" /\ driving \in {"start", "reauth"}
    /\ exchange[Driver]["login"] = Idle
    /\ exchange' = [exchange EXCEPT ![Driver]["login"] = Sent("login", page[Driver].shown)]
    /\ UNCHANGED <<setting, prod, forgejo, cookies, page, address, backing, kept, made,
                   expired, ended, driving, overlapped, registered, requests, mishaps>>

(* The header is the cookie, or else the token the client remembers, which *)
(* then becomes the cookie as well.                                        *)
Header == IF cookies.csrf # 0 THEN cookies.csrf ELSE page[Driver].token
DoRequest(op, route) ==
    [Request(Driver, op, page[Driver].shown) EXCEPT
        !.route = route, !.csrf = IF op = "write" THEN Header ELSE cookies.csrf,
        !.header = IF op = "write" THEN Header ELSE 0]

Execute(op, route) ==
    /\ setting = "driver" /\ driving = "ready" /\ Ask
    /\ exchange[Driver]["act"] = Idle
    /\ exchange' = [exchange EXCEPT ![Driver]["act"] = DoRequest(op, route)]
    /\ cookies' = [cookies EXCEPT !.csrf = IF op = "write" THEN Header ELSE @]
    /\ UNCHANGED <<setting, prod, forgejo, page, address, backing, kept, made,
                   expired, ended, driving, overlapped, registered, mishaps>>

(* The refused action waits in its slot for the second login. *)
Retry ==
    LET old == exchange[Driver]["act"]
    IN /\ driving = "retry" /\ old.step = "served"
       /\ exchange' = [exchange EXCEPT ![Driver]["act"] = DoRequest(old.op, old.route)]
       /\ cookies' = [cookies EXCEPT !.csrf = IF old.op = "write" THEN Header ELSE @]
       /\ driving' = "retried"
       /\ UNCHANGED <<setting, prod, forgejo, page, address, backing, kept, made,
                      expired, ended, overlapped, registered, requests, mishaps>>

(* The driver starts again with the tokens it saved in a file, and no      *)
(* cookies.                                                                *)
LoadTokensFile ==
    /\ setting = "driver" /\ driving = "ready" /\ exchange[Driver]["act"] = Idle
    /\ Mishap("driver")
    /\ cookies' = [session |-> 0, csrf |-> 0] /\ driving' = "start"
    /\ UNCHANGED <<setting, prod, forgejo, page, exchange, address, backing, kept, made,
                   expired, ended, overlapped, registered, requests>>

-----------------------------------------------------------------------------
(* The session store. *)
MemoryGet(n) == n \in kept["memory"]
ValkeyGet(n) == n \in kept["valkey"]
Get(n) == n # 0 /\ IF backing = "memory" THEN MemoryGet(n) ELSE ValkeyGet(n)
StoreCreate(n) == [kept EXCEPT ![backing] = @ \cup {n}]
StoreDelete(n) == [kept EXCEPT ![backing] = @ \ {n}]

(* Sessions live for a day, and so do their cookies. *)
Expire(n) ==
    /\ made[n].owner # Nobody /\ n \notin expired /\ Mishap("expired")
    /\ expired' = expired \cup {n}
    /\ kept' = [b \in DOMAIN kept |-> kept[b] \ {n}]
    /\ cookies' = [cookies EXCEPT !.session = IF @ = n THEN 0 ELSE @]
    /\ UNCHANGED <<setting, prod, forgejo, page, exchange, address, backing, made, ended,
                   driving, overlapped, registered, requests>>

(* The portal starts again: its memory is empty, and the store is chosen   *)
(* anew: Valkey where it has an address and answers.                       *)
NewSessionStore ==
    /\ kept' = [kept EXCEPT !["memory"] = {}]
    /\ \/ backing' = (IF address THEN "valkey" ELSE "memory") /\ Mishap("restart")
       \/ address /\ backing' = "memory" /\ Mishap("valkey")
    /\ UNCHANGED <<setting, prod, forgejo, cookies, page, exchange, address, made, expired,
                   ended, driving, overlapped, registered, requests>>

-----------------------------------------------------------------------------
(* The handlers. *)
Answer(q, status) == [q EXCEPT !.step = "served", !.status = status]
Served(c, s, a) == exchange' = [exchange EXCEPT ![c][s] = a]
GetCSRFCookie(q) == q.csrf
SetCSRFCookie(a, n) == [a EXCEPT !.setCSRF = n]

(* In production the role is Forgejo's; elsewhere it is what the request   *)
(* says it is.                                                             *)
HandleForgejoLogin == CASE forgejo = "admin" -> "admin"
                        [] forgejo = "user" -> "engineering"
                        [] OTHER -> Nobody
HandleLogin(q) == q.as
LoginRole(q) == IF setting = "driver" /\ prod THEN HandleForgejoLogin ELSE HandleLogin(q)

(* Login and registration make a session and a CSRF token, and set both    *)
(* cookies.                                                                *)
Admit(c, s, q, owner, by) ==
    \E n \in Numbers :
        /\ Fresh(n)
        /\ kept' = StoreCreate(n)
        /\ made' = [made EXCEPT ![n] = [owner |-> owner, by |-> by]]
        /\ Served(c, s, SetCSRFCookie([Answer(q, "ok") EXCEPT !.setSession = n], n))
Refuse(c, s, q, status) == Served(c, s, Answer(q, status)) /\ UNCHANGED <<kept, made>>
StoreFails == backing = "valkey" /\ Mishap("valkey")

ServeLogin(c, s) ==
    LET q == exchange[c][s]
    IN /\ q.step = "sent" /\ q.op = "login"
       /\ \/ LoginRole(q) # Nobody /\ Admit(c, s, q, LoginRole(q), c) /\ UNCHANGED mishaps
          \/ LoginRole(q) = Nobody /\ Refuse(c, s, q, "unauthorized") /\ UNCHANGED mishaps
          \/ setting = "portal" /\ Mishap("limited") /\ Refuse(c, s, q, "limited")
          \/ StoreFails /\ Refuse(c, s, q, "error")
          \/ setting = "driver" /\ prod /\ Mishap("forgejo") /\ Refuse(c, s, q, "error")
       /\ UNCHANGED <<setting, prod, forgejo, cookies, page, address, backing, expired,
                      ended, driving, overlapped, registered, requests>>

ServeRegister(c) ==
    LET q == exchange[c]["act"]
    IN /\ q.step = "sent" /\ q.op = "register"
       /\ \/ Admit(c, "act", q, "new", "register") /\ UNCHANGED mishaps
          \/ StoreFails /\ Refuse(c, "act", q, "error")
       /\ registered' = TRUE
       /\ UNCHANGED <<setting, prod, forgejo, cookies, page, address, backing, expired,
                      ended, driving, overlapped, requests>>

(* Mutant: any token in the header will do. *)
CSRFProtectAnyHeader(q) == q.header # 0 /\ q.csrf # 0

(* The header has to repeat the cookie. *)
CSRFProtect(q) == q.header # 0 /\ GetCSRFCookie(q) # 0 /\ q.header = GetCSRFCookie(q)

Allowed == [tickets |-> {"ops", "admin", "engineering", "hr", "facilities", "veterinary",
                         "investment", "staff"},
            push |-> {"ops", "admin", "engineering"},
            quant |-> {"investment", "engineering", "admin", "staff", "ops"}]
RequireRole(q) ==
    setting = "driver" =>
        made[q.session].owner = "admin" \/ made[q.session].owner \in Allowed[q.route]

(* Session first, then CSRF, then role.  A request without a CSRF cookie   *)
(* is given one, too late for itself.                                      *)
Protected(q) ==
    IF q.op = "write" /\ ~CSRFProtect(q) THEN "csrf"
    ELSE IF ~RequireRole(q) THEN "role" ELSE "ok"
SessionAuth(c, q) ==
    \/ /\ Get(q.session)
       /\ IF GetCSRFCookie(q) # 0
          THEN /\ Served(c, "act", Answer(q, Protected(q)))
               /\ UNCHANGED made
          ELSE \E n \in Numbers :
                  /\ Fresh(n)
                  /\ made' = [made EXCEPT ![n] = [owner |-> Nobody, by |-> "auth"]]
                  /\ Served(c, "act", SetCSRFCookie(Answer(q, Protected(q)), n))
       /\ UNCHANGED mishaps
    \/ /\ ~Get(q.session)
       /\ Served(c, "act", Answer(q, "unauthorized"))
       /\ UNCHANGED <<made, mishaps>>
    \/ /\ q.session # 0 /\ backing = "valkey" /\ Mishap("valkey")
       /\ Served(c, "act", Answer(q, "unauthorized"))
       /\ UNCHANGED made
ServeRequest(c) ==
    LET q == exchange[c]["act"]
    IN /\ q.step = "sent" /\ q.op \in {"read", "write"}
       /\ SessionAuth(c, q)
       /\ UNCHANGED <<setting, prod, forgejo, cookies, page, address, backing, kept,
                      expired, ended, driving, overlapped, registered, requests>>

(* Logging out deletes the session, or fails to without saying so.         *)
ServeLogout(c) ==
    LET q == exchange[c]["act"]
    IN /\ q.step = "sent" /\ q.op = "logout"
       /\ \/ kept' = StoreDelete(q.session) /\ UNCHANGED mishaps
          \/ backing = "valkey" /\ Mishap("valkey") /\ UNCHANGED kept
       /\ ended' = ended \cup ({q.session} \ {0})
       /\ Served(c, "act", [Answer(q, "ok") EXCEPT !.setSession = 0])
       /\ UNCHANGED <<setting, prod, forgejo, cookies, page, address, backing, made,
                      expired, driving, overlapped, registered, requests>>

-----------------------------------------------------------------------------
(* The answers.  The browser stores the cookies before the page sees what  *)
(* was answered; a cookie whose session is over is not stored.             *)
SetCookies(q) ==
    cookies' = [session |-> IF q.setSession = Keep THEN cookies.session
                            ELSE IF q.setSession \in expired THEN 0 ELSE q.setSession,
                csrf |-> IF q.setCSRF = Keep THEN cookies.csrf ELSE q.setCSRF]
Failed(t) == [page EXCEPT ![t].token = IF @ = 0 THEN Placeholder ELSE @]

(* A login that was refused is not noticed: the page goes on with the      *)
(* token and the session it had.  The token a registration brings is not   *)
(* looked at.                                                              *)
PageAnswered(t, s) ==
    LET q == exchange[t][s]
    IN /\ t \in Tabs /\ q.step = "served"
       /\ exchange' = [exchange EXCEPT ![t][s] = Idle]
       /\ \/ /\ SetCookies(q)
             /\ page' = CASE q.op = "login" /\ q.status = "ok" ->
                               [page EXCEPT ![t].token = q.setCSRF,
                                            ![t].settled = (q.as = page[t].shown)]
                          [] q.op = "register" /\ q.status = "ok" ->
                               [page EXCEPT ![t].shown = q.as, ![t].settled = FALSE]
                          [] OTHER -> page
             /\ UNCHANGED mishaps
          \/ /\ q.op = "login" /\ q.status = "ok" /\ Mishap("body")
             /\ SetCookies(q) /\ page' = Failed(t)
          \/ /\ Mishap("lost") /\ UNCHANGED cookies
             /\ page' = IF q.op = "login" THEN Failed(t) ELSE page
       /\ UNCHANGED <<setting, prod, forgejo, address, backing, kept, made, expired,
                      ended, driving, overlapped, registered, requests>>

(* The driver remembers the token of every answer that has one.  A login   *)
(* that failed is only logged.                                             *)
Remember(q) == page' = [page EXCEPT ![Driver].token = IF q.setCSRF = Keep THEN @ ELSE q.setCSRF]
LoginAnswered ==
    LET q == exchange[Driver]["login"]
    IN /\ q.step = "served"
       /\ SetCookies(q) /\ Remember(q)
       /\ driving' = IF driving = "reauth" /\ q.status = "ok" THEN "retry" ELSE "ready"
       /\ exchange' = [exchange EXCEPT ![Driver] =
                      IF driving = "reauth" /\ q.status # "ok" THEN Quiet
                      ELSE [@ EXCEPT !["login"] = Idle]]
       /\ UNCHANGED <<setting, prod, forgejo, address, backing, kept, made, expired,
                      ended, overlapped, registered, requests, mishaps>>
ActionAnswered ==
    LET q == exchange[Driver]["act"]
    IN /\ q.step = "served" /\ driving \in {"ready", "retried"}
       /\ SetCookies(q) /\ Remember(q)
       /\ IF q.status = "unauthorized" /\ driving = "ready"
          THEN driving' = "reauth" /\ UNCHANGED exchange
          ELSE driving' = "ready" /\ exchange' = [exchange EXCEPT ![Driver]["act"] = Idle]
       /\ UNCHANGED <<setting, prod, forgejo, address, backing, kept, made, expired,
                      ended, overlapped, registered, requests, mishaps>>

(* The browser is closed: session cookies without a date go, and every     *)
(* page.                                                                   *)
CloseBrowser ==
    /\ setting = "portal" /\ \E t \in Tabs : page[t].shown # Nobody
    /\ Mishap("closed")
    /\ cookies' = [cookies EXCEPT !.csrf = 0]
    /\ page' = [c \in Clients |-> IF c \in Tabs THEN [shown |-> Nobody, token |-> 0, settled |-> FALSE]
                                  ELSE page[c]]
    /\ exchange' = [c \in Clients |-> Quiet]
    /\ UNCHANGED <<setting, prod, forgejo, address, backing, kept, made, expired, ended,
                   driving, overlapped, registered, requests>>

AccessNext ==
    \/ \E t \in Tabs : Mount(t) \/ TogglePersona(t)
                       \/ \E op \in {"register", "read", "write"} : PageAsks(t, op)
                       \/ \E s \in Slots : PageAnswered(t, s)
    \/ CloseBrowser
    \/ AuthenticatePersona \/ Retry \/ LoadTokensFile \/ LoginAnswered \/ ActionAnswered
    \/ \E op \in {"read", "write", "logout"}, r \in DOMAIN Allowed : Execute(op, r)
    \/ \E c \in Clients : ServeRequest(c) \/ ServeLogout(c) \/ ServeRegister(c)
                          \/ \E s \in Slots : ServeLogin(c, s)
    \/ NewSessionStore
    \/ \E n \in Numbers : Expire(n)

AccessSpec == AccessInit /\ [][AccessNext]_accessVars

-----------------------------------------------------------------------------
Acts(c, op) == exchange[c]["act"].step = "served" /\ exchange[c]["act"].op = op

(* Two pages of one browser (CSRFProtectMiddleware): once the login of a   *)
(* page came back, what it writes is done as the customer it shows,        *)
(* whichever customer another page has logged in since.  Such a page is    *)
(* refused only because another page, or a registration, changed the CSRF  *)
(* cookie, an answer was cut off after its cookies, or the session is over *)
(* or was lost with the store.                                             *)
WritesOwn ==
    \A t \in Tabs : Acts(t, "write") /\ exchange[t]["act"].settled =>
        LET q == exchange[t]["act"]
        IN /\ q.status = "ok" => made[q.session].owner = q.as
           /\ q.status = "csrf" => "body" \in mishaps \/ (q.csrf # 0 /\ made[q.csrf].by # t)
           /\ q.status = "unauthorized" =>
                  \/ q.session \in expired \cup ended
                  \/ q.session = 0 /\ expired # {}
                  \/ mishaps \cap {"restart", "valkey"} # {}

(* A page that waits for no login shows the customer it acts for, unless   *)
(* an answer was refused or lost, two changes of persona overlapped, or it *)
(* registered a customer: then it goes on with the former session.         *)
ShownExplained ==
    \A t \in Tabs :
        page[t].shown # Nobody /\ ~page[t].settled
          /\ exchange[t]["login"] = Idle /\ exchange[t]["again"] = Idle =>
               mishaps # {} \/ overlapped \/ registered

(* A session that was logged out is accepted again only after Valkey did   *)
(* not answer, at the logout or when the portal chose its store.           *)
EndedHolds == \A n \in ended : Get(n) => "valkey" \in mishaps

(* The driver (doRequest, Run): its writes always carry the cookie's       *)
(* token.  An action it repeated is refused a session only when that one   *)
(* is over, or was lost.  In production no role comes from the request.    *)
DriverExplained ==
    setting = "driver" =>
        /\ Acts(Driver, "write") => exchange[Driver]["act"].status # "csrf"
        /\ driving = "retried" /\ exchange[Driver]["act"].status = "unauthorized" =>
               \/ exchange[Driver]["act"].session \in expired \cup ended \/ expired # {}
               \/ mishaps \cap {"restart", "valkey"} # {}
        /\ prod => \A n \in Numbers : made[n].owner \in {Nobody, HandleForgejoLogin}

(* Both portals and the driver: pages of one browser that undo each        *)
(* other's cookies, sessions that come back and requests that are refused  *)
(* do so for these reasons only.                                           *)
PortalAccessExplained ==
    AccessTypeOK /\ WritesOwn /\ ShownExplained /\ EndedHolds /\ DriverExplained
=============================================================================
