------------------------------ MODULE Tickets -------------------------------
(***************************************************************************)
(* IT and customer tickets.  ops-api keeps a row per ticket in             *)
(* ops.it_tickets, and an issue of Forgejo beside it: the issue is created *)
(* before the row, closed after the row, and commented on before the       *)
(* comment is stored, and the error of each of those calls is dropped.     *)
(* Watches poll the open tickets and acknowledge the ones they show.       *)
(*                                                                         *)
(* A request is a record of the fields the layers between the portal and   *)
(* the row read or overwrite; "" is a field left out.  Titles, bodies and  *)
(* users are left out.                                                     *)
(***************************************************************************)
EXTENDS Naturals, Sequences, FiniteSets, SequencesExt

CONSTANTS Tickets,      \* the tickets that may be opened
          Watches,
          PageSize,     \* how many open tickets a poll returns
          Asked,        \* the states an update may ask for
          MaxComments,  \* comments written, over all tickets
          MaxTicketFaults  \* by backend: calls to Forgejo, ntfy or the database that fail

ASSUME TicketsAssumption == IsFiniteSet(Tickets) /\ PageSize \in Nat /\ "none" \notin Asked

VARIABLES
    backend,    \* PostgreSQL, or the map the tests run on
    draft,      \* what the creation of a ticket has computed so far
    row,        \* ops.it_tickets, by ticket
    opened,     \* the tickets in the order of created_at
    issues,     \* the issues of each Forgejo repository, by index
    syncing,    \* tickets closed in the row whose issue is not closed yet
    writing,    \* the comment being added to each ticket
    stored,     \* ops.ticket_comments, counted by ticket and visibility
    shown,      \* the tickets on each watch's screen
    lost,       \* the calls that failed, with the ticket they were for
    reopened    \* tickets whose closed row was written over

ticketVars == <<backend, draft, row, opened, issues, syncing, writing, stored, shown,
                lost, reopened>>

Repos == {"helpdesk", "customer-support"}
States == {"open", "closed", "acknowledged", "in_progress", "resolved"}
NoRow == [state |-> "none", repo |-> "helpdesk", index |-> 0, mine |-> FALSE]
Untold == [step |-> "none", repo |-> "helpdesk", index |-> 0,
           valid |-> FALSE, urgent |-> FALSE, mine |-> FALSE]
Silent == [step |-> "none", internal |-> FALSE]
Calls == {"issue", "row", "push", "sync", "copy", "comment"}

TicketsTypeOK ==
    /\ backend \in {"pgx", "mock"}
    /\ draft \in [Tickets -> [step: {"none", "insert", "created", "refused"},
                              repo: Repos, index: Nat, valid: BOOLEAN,
                              urgent: BOOLEAN, mine: BOOLEAN]]
    /\ row \in [Tickets -> [state: States \cup Asked \cup {"none"}, repo: Repos,
                            index: Nat, mine: BOOLEAN]]
    /\ \A i \in DOMAIN opened : row[opened[i]] # NoRow
    /\ \A p \in Repos : \A i \in DOMAIN issues[p] :
           issues[p][i] \in [ticket: Tickets, closed: BOOLEAN, copies: Nat]
    /\ syncing \subseteq Tickets
    /\ writing \in [Tickets -> [step: {"none", "insert"}, internal: BOOLEAN]]
    /\ stored \in [Tickets -> [public: Nat, internal: Nat]]
    /\ shown \in [Watches -> SUBSET Tickets]
    /\ lost \subseteq Calls \X Tickets
    /\ reopened \subseteq Tickets

TicketsInit ==
    /\ backend \in {"pgx", "mock"}
    /\ draft = [t \in Tickets |-> Untold]
    /\ row = [t \in Tickets |-> NoRow]
    /\ opened = <<>>
    /\ issues = [p \in Repos |-> <<>>]
    /\ syncing = {}
    /\ writing = [t \in Tickets |-> Silent]
    /\ stored = [t \in Tickets |-> [public |-> 0, internal |-> 0]]
    /\ shown = [w \in Watches |-> {}]
    /\ lost = {}
    /\ reopened = {}

-----------------------------------------------------------------------------
(* What a form may say, and which fields of it each way to ops-api keeps.  *)
(* `mine' marks a ticket with a customer_id.                               *)
TicketForms == [category: {"", "hardware", "General Inquiry"},
          severity: {"", "critical"}, source: {"", "customer"},
          repo: {""}, urgent: BOOLEAN, mine: BOOLEAN]

Default(v, d) == IF v = "" THEN d ELSE v

(* The employee portal has no field for is_urgent. *)
PortalForm(f) == [f EXCEPT !.urgent = FALSE]
(* pebble-proxy has none for the customer; ops-api passes every field on. *)
WatchForm(f) == [f EXCEPT !.mine = FALSE]
CreateTicket(f) == f
(* An alert without a ticket opens one: urgent, of no category. *)
CreateAlert(f) == [f EXCEPT !.category = "", !.source = "", !.urgent = TRUE,
                            !.mine = FALSE]
(* A severity the customer did not give is "normal". *)
CustomerForm(f) ==
    [f EXCEPT !.severity = Default(f.severity, "normal"), !.urgent = FALSE]
(* customer-bll: a ticket without a category is a "General Inquiry". *)
BLLCustomerTicket(f) ==
    [f EXCEPT !.category = Default(f.category, "General Inquiry")]
(* An employee, or a watch, for a customer: only the category is taken. *)
OnBehalfForm(f) == [f EXCEPT !.severity = "", !.urgent = FALSE]
WatchCustomerForm(f) == [f EXCEPT !.severity = "", !.urgent = FALSE]
(* ops-api: severity, urgency and repository of the form are not used. *)
CreateCustomerTicket(f) ==
    [f EXCEPT !.category = Default(f.category, "general"),
              !.severity = "medium", !.source = "customer",
              !.repo = "customer-support", !.urgent = FALSE, !.mine = TRUE]

(* The ways a form reaches CreateITTicket. *)
TicketRequests == UNION {
    {CreateTicket(PortalForm(f)), CreateTicket(WatchForm(f)), CreateAlert(f),
     CreateCustomerTicket(BLLCustomerTicket(CustomerForm(f))),
     CreateCustomerTicket(OnBehalfForm(f)),
     CreateCustomerTicket(WatchCustomerForm(f))} : f \in TicketForms}

(* The CHECK constraints of ops.it_tickets.  Categories are compared in    *)
(* lower case, so that "General Inquiry" is not one of them.               *)
storedCategories == {"hardware", "software", "habitat", "trading", "general"}
storedSeverities == {"low", "medium", "high", "urgent", "critical"}
Checks(r) == /\ r.category \in storedCategories
             /\ r.severity \in storedSeverities

(* The defaults of the service. *)
Filled(r) ==
    [r EXCEPT
       !.repo = Default(r.repo, IF r.source = "customer"
                                THEN "customer-support" ELSE "helpdesk"),
       !.severity = Default(r.severity, "medium"),
       !.category = Default(r.category, "software"),
       !.source = Default(r.source, "internal"),
       !.urgent = r.urgent \/ r.severity \in {"urgent", "critical"}]

FilledRequests == {Filled(q) : q \in TicketRequests}

Faulty == Cardinality(lost) < MaxTicketFaults[backend]

(* Forgejo: issues are numbered from one in each repository. *)
CreateForgejoIssue(t, p) ==
    issues' = [issues EXCEPT ![p] =
                  Append(@, [ticket |-> t, closed |-> FALSE, copies |-> 0])]

(* CreateITTicket up to the INSERT.  When Forgejo fails the ticket goes on *)
(* without an issue.                                                       *)
CreateITTicket(t) ==
    /\ draft[t] = Untold
    /\ \E r \in FilledRequests :
         LET next(i) == [step |-> "insert", repo |-> r.repo, index |-> i,
                         valid |-> Checks(r), urgent |-> r.urgent,
                         mine |-> r.mine]
         IN \/ /\ CreateForgejoIssue(t, r.repo)
               /\ draft' = [draft EXCEPT ![t] = next(Len(issues[r.repo]) + 1)]
               /\ UNCHANGED lost
            \/ /\ Faulty
               /\ lost' = lost \cup {<<"issue", t>>}
               /\ draft' = [draft EXCEPT ![t] = next(0)]
               /\ UNCHANGED issues
    /\ UNCHANGED <<backend, row, opened, syncing, writing, stored, shown, reopened>>

(* forgejo_issue_id is UNIQUE over all repositories. *)
IndexFree(i) == i = 0 \/ \A t \in Tickets : row[t].index # i

(* The map has no constraints. *)
Accepts(d) == backend = "mock" \/ (d.valid /\ IndexFree(d.index))

(* createITTicketSQL. *)
InsertRow(t) ==
    LET d == draft[t]
    IN /\ row' = [row EXCEPT ![t] = [state |-> "open", repo |-> d.repo,
                                     index |-> d.index, mine |-> d.mine]]
       /\ opened' = Append(opened, t)

(* ntfy is told, or is not: nobody hears of it. *)
SendPushNotification(t) ==
    UNCHANGED lost \/ (Faulty /\ lost' = lost \cup {<<"push", t>>})

(* The row is inserted, and an urgent ticket pushed to the on-call topic;  *)
(* a failed push is dropped.                                               *)
StoreTicket(t) ==
    /\ draft[t].step = "insert"
    /\ Accepts(draft[t])
    /\ InsertRow(t)
    /\ draft' = [draft EXCEPT ![t] = [Untold EXCEPT !.step = "created"]]
    /\ IF draft[t].urgent THEN SendPushNotification(t) ELSE UNCHANGED lost
    /\ UNCHANGED <<backend, issues, syncing, writing, stored, shown, reopened>>

(* The INSERT is refused by a constraint, or fails; nothing takes the      *)
(* issue back.                                                             *)
StoreTicketFails(t) ==
    /\ draft[t].step = "insert"
    /\ \/ /\ ~Accepts(draft[t])
          /\ UNCHANGED lost
       \/ backend = "pgx" /\ Faulty /\ lost' = lost \cup {<<"row", t>>}
    /\ draft' = [draft EXCEPT ![t] = [Untold EXCEPT !.step = "refused",
                                                   !.valid = draft[t].valid]]
    /\ UNCHANGED <<backend, row, opened, issues, syncing, writing, stored, shown,
                   reopened>>

-----------------------------------------------------------------------------
HasRow(t) == row[t] # NoRow
Written(t, s) ==
    /\ row' = [row EXCEPT ![t].state = s]
    /\ reopened' = IF row[t].state = "closed" /\ s # "closed"
                   THEN reopened \cup {t} ELSE reopened

(* updateITTicketSQL sets the state to the text it is given.  An update    *)
(* that carries none sends '', which no CHECK accepts: it changes nothing, *)
(* whatever else it carried.                                               *)
UpdateRow(t, s) == s \in States /\ Written(t, s)

(* The map keeps the state when none is given, and takes any text. *)
UpdateMap(t, s) == Written(t, Default(s, row[t].state))

(* Mutant: closing is not passed on. *)
UpdateITTicketAlone(t, s) ==
    /\ HasRow(t)
    /\ IF backend = "pgx" THEN UpdateRow(t, s) ELSE UpdateMap(t, s)
    /\ UNCHANGED <<backend, draft, opened, issues, syncing, writing, stored,
                   shown, lost>>

(* UpdateITTicket, from the portal or a watch.  Only closing is passed on  *)
(* to the issue, after the row is written.                                 *)
UpdateITTicket(t, s) ==
    /\ HasRow(t)
    /\ IF backend = "pgx" THEN UpdateRow(t, s) ELSE UpdateMap(t, s)
    /\ syncing' = IF s = "closed" /\ row[t].index # 0
                  THEN syncing \cup {t} ELSE syncing
    /\ UNCHANGED <<backend, draft, opened, issues, writing, stored, shown, lost>>

(* The employee portal and the watches pass the text on. *)
PortalUpdate(s) == s
WatchUpdate(s) == s
CloseTicket == "closed"
Updates == UNION {{PortalUpdate(s), WatchUpdate(s), CloseTicket} : s \in Asked}

(* UpdateIssue. *)
CloseIssue(t) ==
    issues' = [issues EXCEPT ![row[t].repo][row[t].index].closed = TRUE]

SyncClosed(t) ==
    /\ t \in syncing
    /\ syncing' = syncing \ {t}
    /\ \/ CloseIssue(t) /\ UNCHANGED lost
       \/ Faulty /\ lost' = lost \cup {<<"sync", t>>} /\ UNCHANGED issues
    /\ UNCHANGED <<backend, draft, row, opened, writing, stored, shown, reopened>>

(* Every query lists the newest first. *)
Newer(t) == {opened[j] : j \in {i \in DOMAIN opened : \E k \in 1..(i - 1) : opened[k] = t}}

(* The first rows of a query.  LIMIT is PageSize; the map has none. *)
Page(S) == {t \in S : backend = "pgx" => Cardinality(S \cap Newer(t)) < PageSize}

TicketRows == Range(opened)
ListITTickets == Page(TicketRows)
ListITTicketsBySource(p) == Page({t \in TicketRows : row[t].repo = p})
ListITTicketsByCustomer == Page({t \in TicketRows : row[t].mine})
ListOpenITTickets == Page({t \in TicketRows : row[t].state = "open"})

(* ops-api filters the state after the page was cut; so does the portal,   *)
(* which does not send the state.                                          *)
ListTickets(p, s) ==
    LET page == IF p = "" THEN ListITTickets ELSE ListITTicketsBySource(p)
    IN {t \in page : s # "" => row[t].state = s}
PortalListTickets(p, s) == {t \in ListTickets(p, "") : s # "" => row[t].state = s}
WatchListTickets(p, s) == ListTickets(p, s)

(* A customer is shown his own; a session without a customer, all. *)
ListCustomerTickets == ListITTicketsByCustomer
BLLListCustomerTickets(known) ==
    IF known THEN ListCustomerTickets ELSE ListTickets("", "")

(* A watch polls. *)
GetPendingAlerts == ListOpenITTickets
GetAlerts(w) ==
    /\ shown' = [shown EXCEPT ![w] = GetPendingAlerts]
    /\ UNCHANGED <<backend, draft, row, opened, issues, syncing, writing, stored,
                   lost, reopened>>

(* acknowledgeITTicketSQL: any state becomes 'acknowledged'. *)
AcknowledgeRow(t) == HasRow(t) /\ Written(t, "acknowledged")

(* A watch acknowledges a ticket it shows. *)
SubmitAck(w, t) ==
    /\ t \in shown[w]
    /\ AcknowledgeRow(t)
    /\ UNCHANGED <<backend, draft, opened, issues, syncing, writing, stored, shown,
                   lost>>

-----------------------------------------------------------------------------
(* CreateIssueComment. *)
CopyComment(t) ==
    issues' = [issues EXCEPT ![row[t].repo][row[t].index].copies = @ + 1]

Comments ==
    MapThenSumSet(LAMBDA t : stored[t].public + stored[t].internal, Tickets)
        + Cardinality({t \in Tickets : writing[t] # Silent})

(* Whether a comment is internal is up to the employee or the watch that   *)
(* writes it; a customer's, or one written for a customer, is public.      *)
PortalComment(internal) == internal
WatchComment(internal) == internal
CustomerComment(internal) == FALSE
OnBehalfComment(internal) == FALSE
Kinds == UNION {{PortalComment(b), WatchComment(b), CustomerComment(b),
                 OnBehalfComment(b)} : b \in BOOLEAN}

(* AddTicketComment: a public comment goes to the linked issue first. *)
AddTicketComment(t, internal) ==
    /\ HasRow(t) /\ writing[t] = Silent
    /\ Comments < MaxComments
    /\ writing' = [writing EXCEPT ![t] =
                      [step |-> "insert", internal |-> internal]]
    /\ IF row[t].index = 0 \/ internal
       THEN UNCHANGED <<issues, lost>>
       ELSE \/ CopyComment(t) /\ UNCHANGED lost
            \/ /\ Faulty
               /\ lost' = lost \cup {<<"copy", t>>} /\ UNCHANGED issues
    /\ UNCHANGED <<backend, draft, row, opened, syncing, stored, shown, reopened>>

(* The comment is stored, or the INSERT fails and the author may try again.*)
CreateTicketComment(t) ==
    /\ writing[t].step = "insert"
    /\ writing' = [writing EXCEPT ![t] = Silent]
    /\ \/ /\ stored' = IF writing[t].internal
                       THEN [stored EXCEPT ![t].internal = @ + 1]
                       ELSE [stored EXCEPT ![t].public = @ + 1]
          /\ UNCHANGED lost
       \/ /\ backend = "pgx" /\ Faulty
          /\ lost' = lost \cup {<<"comment", t>>} /\ UNCHANGED stored
    /\ UNCHANGED <<backend, draft, row, opened, issues, syncing, shown, reopened>>

(* How many comments a reader of a ticket is given: only pebble-proxy asks *)
(* for the internal ones.                                                  *)
ListTicketComments(t, includeInternal) ==
    stored[t].public + (IF includeInternal THEN stored[t].internal ELSE 0)

TicketsNext ==
    \/ \E t \in Tickets :
          \/ CreateITTicket(t) \/ StoreTicket(t) \/ StoreTicketFails(t)
          \/ \E s \in Updates : UpdateITTicket(t, s)
          \/ SyncClosed(t)
          \/ \E b \in Kinds : AddTicketComment(t, b)
          \/ CreateTicketComment(t)
    \/ \E w \in Watches : GetAlerts(w) \/ \E t \in Tickets : SubmitAck(w, t)

TicketsSpec == TicketsInit /\ [][TicketsNext]_ticketVars

-----------------------------------------------------------------------------
IssueOf(t) == issues[row[t].repo][row[t].index]
CallFailed(call, t) == <<call, t>> \in lost

(* Service.UpdateITTicket drops the error of UpdateIssue and nothing       *)
(* repairs it: a closed ticket's issue is open only while the closing is   *)
(* in flight or after that call failed, and a ticket whose issue is closed *)
(* reads otherwise only if an update or a late watch wrote over it.        *)
IssueAgrees ==
    \A t \in Tickets : HasRow(t) /\ row[t].index # 0 =>
        /\ IssueOf(t).ticket = t
        /\ row[t].state = "closed" /\ ~IssueOf(t).closed =>
               t \in syncing \/ CallFailed("sync", t)
        /\ IssueOf(t).closed /\ row[t].state # "closed" => t \in reopened

(* Service.CreateITTicket creates the issue first: an issue no ticket      *)
(* links to belongs to a creation still under way or to one whose INSERT   *)
(* was refused: by a CHECK, by an index taken in the other repository, or  *)
(* by the database.                                                        *)
OrphansExplained ==
    \A p \in Repos : \A i \in DOMAIN issues[p] :
        LET t == issues[p][i].ticket
        IN \/ HasRow(t) /\ row[t].repo = p /\ row[t].index = i
           \/ draft[t].step = "insert"
           \/ /\ draft[t].step = "refused"
              /\ \/ ~draft[t].valid \/ CallFailed("row", t)
                 \/ \E u \in Tickets \ {t} :
                       row[u].index = i /\ row[u].repo # p

(* Service.AddTicketComment copies a public comment before it stores it:   *)
(* the issue's copies differ from the comments a customer can read only by *)
(* the one in flight, by copies Forgejo refused, or by comments the        *)
(* database refused after they were copied.                                *)
CopiesExplained ==
    \A t \in Tickets : HasRow(t) /\ row[t].index # 0 =>
        LET flying == IF writing[t] = [step |-> "insert", internal |-> FALSE]
                      THEN 1 ELSE 0
            seen == ListTicketComments(t, FALSE) + flying
        IN /\ IssueOf(t).copies > seen => CallFailed("comment", t)
           /\ IssueOf(t).copies < seen => CallFailed("copy", t)

(* OpsGRPCServer.ListTickets filters a page that is already cut: an open   *)
(* ticket is missing from the list of open tickets only behind a page of   *)
(* newer ones of any state, and the watches are never shown less; a        *)
(* customer misses a ticket of his only behind a page of his own.          *)
PagesExplained ==
    LET Behind(S) == backend = "pgx" /\ Cardinality(S) >= PageSize
    IN /\ PortalListTickets("", "open") = WatchListTickets("", "open")
       /\ WatchListTickets("", "open") \subseteq GetPendingAlerts
       /\ \A t \in Tickets :
             /\ row[t].state = "open" /\ t \notin ListTickets("", "open") =>
                    Behind(Newer(t))
             /\ row[t].mine /\ t \notin BLLListCustomerTickets(TRUE) =>
                    Behind({u \in Newer(t) : row[u].mine})

(* The help desk: a ticket, its issue, its comments and the lists of it    *)
(* disagree for these reasons only.                                        *)
TicketsExplained ==
    /\ TicketsTypeOK
    /\ IssueAgrees /\ OrphansExplained /\ CopiesExplained /\ PagesExplained
=============================================================================
