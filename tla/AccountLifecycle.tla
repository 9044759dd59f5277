--------------------------- MODULE AccountLifecycle -------------------------
(***************************************************************************)
(* What happens to one customer's account besides trading: it is opened,   *)
(* closed and paid out, erased, and asked for API keys, webhooks and       *)
(* statements.  core-invest drops the errors of the calls these are made   *)
(* of, and nothing keeps two of them apart.                                *)
(*                                                                         *)
(* Amounts are in units of one share; names, dates, hashes and documents   *)
(* are left out.                                                           *)
(***************************************************************************)
EXTENDS Integers, Sequences, FiniteSets, SequencesExt

CONSTANTS Tabs,         \* the requests of the customer that may overlap
          Months,       \* the months a statement is asked for
          MaxAccountRequests,  \* requests made, over all tabs
          MaxErrors     \* calls that fail

ASSUME LifecycleAssumption ==
    MaxAccountRequests \in Nat /\ \E m \in Months : \A n \in Months : m <= n

VARIABLES
    store,      \* PostgreSQL, or the map core-invest runs on without it
    rows,       \* investment_portfolios of the customer, oldest first
    current,    \* the row a lookup of the customer finds
    held,       \* portfolio_holdings: market value stored with the account
    shares,     \* market value of the positions at the broker
    owed,       \* what the customer has put in
    paid,       \* what closing has sent to the customer's bank
    closing,    \* the closure each tab waits for
    erasure,    \* the erasure under way: table to be scrubbed next, certificate
    erased,     \* erasures finished
    has,        \* tables with a row of the customer
    late,       \* tables that got a row after they were scrubbed
    grants,     \* API keys and webhooks, by request
    statements, \* investment_statements of the customer
    handed,     \* statements the customer was told are available
    documents,  \* statement asked for and document received, of a download
    dropped,    \* calls that failed
    credit,     \* the deposit being added to the account: the row it read
    shut,       \* rows a closure has written
    overlaps,   \* a closure or a deposit overlapped with a closure
    asked

accountVars == <<credit, shut>>
moneyVars == <<rows, current, held, shares, owed, paid, closing, overlaps,
               accountVars>>
erasureVars == <<erasure, erased, has, late>>
paperVars == <<statements, handed, documents>>
lifecycleVars == <<store, moneyVars, erasureVars, grants, paperVars, dropped, asked>>

Scrubbed == <<"customer_api_keys", "webhook_subscriptions", "recurring_deposits",
              "portfolio_holdings", "tax_lot_sales", "investment_portfolios",
              "it_tickets", "ticket_comments">>
Plain == {"recurring_deposits", "tax_lot_sales", "it_tickets", "ticket_comments"}
Ops == {"it_tickets", "ticket_comments"}
Open == [step |-> "open", row |-> 0, cash |-> 0, held |-> 0, proceeds |-> 0,
         named |-> FALSE]
NoCredit == [row |-> 0, copy |-> [status |-> "active", cash |-> 0, total |-> 0,
                                 named |-> FALSE]]
NoErasure == [table |-> 0, listed |-> {}]
Statement == [type: {"monthly_summary", "form_1099b"}, month: Months]
Unasked == [kind |-> "none", stored |-> "none", told |-> "none"]

LifecycleTypeOK ==
    /\ store \in {"pgx", "map"}
    /\ \A i \in DOMAIN rows : rows[i] \in [status: {"active", "closed"},
                                           cash: Nat, total: Nat, named: BOOLEAN]
    /\ current \in DOMAIN rows
    /\ {held, shares, owed, paid, erased, handed, asked} \subseteq Nat
    /\ closing \in [Tabs -> [step: {"open", "list", "sell", "pay", "write"},
                             row: Nat, cash: Nat, held: Nat, proceeds: Nat,
                             named: BOOLEAN]]
    /\ erasure \in [table: 0..9, listed: SUBSET Range(Scrubbed)]
    /\ has \subseteq Plain /\ late \subseteq Range(Scrubbed)
    /\ grants \in [1..MaxAccountRequests ->
           [kind: {"none", "key", "webhook"},
            stored: {"none", "active", "revoked"},
            told: {"none", "active", "revoked"}]]
    /\ statements \in Seq(Statement) /\ documents \subseteq [asked: Statement, got: Statement, sales: BOOLEAN]
    /\ credit.row \in Nat /\ shut \subseteq Nat /\ overlaps \in BOOLEAN

(* A customer with a unit of cash and a share, a schedule and a ticket. *)
LifecycleInit ==
    /\ store \in {"pgx", "map"}
    /\ rows = <<[status |-> "active", cash |-> 1, total |-> 2, named |-> TRUE]>>
    /\ current = 1 /\ held = 1 /\ shares = 1 /\ owed = 2 /\ paid = 0
    /\ closing = [c \in Tabs |-> Open] /\ overlaps = FALSE
    /\ credit = NoCredit /\ shut = {}
    /\ erasure = NoErasure /\ erased = 0
    /\ has = Plain /\ late = {}
    /\ grants = [r \in 1..MaxAccountRequests |-> Unasked]
    /\ statements = <<>> /\ handed = 0 /\ documents = {}
    /\ dropped = {} /\ asked = 0

-----------------------------------------------------------------------------
Asks == asked < MaxAccountRequests /\ asked' = asked + 1
Failed(call) == call \in dropped

(* A call that fails; only PostgreSQL, the bank and the broker do. *)
Drop(call) ==
    /\ Cardinality(dropped) < MaxErrors
    /\ dropped' = dropped \cup {call}
DropSQL(call) == store = "pgx" /\ Drop(call)

(* Tables that were scrubbed, and written to afterwards. *)
Past(t) == IF erasure.table = 0 THEN erased > 0
           ELSE \E i \in 1..(erasure.table - 1) : Scrubbed[i] = t
Wrote(t) == late' = IF Past(t) THEN late \cup {t} ELSE late
Renamed(named) == IF named THEN Wrote("investment_portfolios") ELSE UNCHANGED late

(* The oldest row of the customer; the map has the record stored last. *)
OldestRow == rows[current]
MapRecord == rows[current]
GetPortfolio == IF store = "pgx" THEN OldestRow ELSE MapRecord
GetHoldings == held
MapHoldings == held
HoldingsOf == IF store = "pgx" THEN GetHoldings ELSE MapHoldings

-----------------------------------------------------------------------------
(* Registration. *)
Classes == {"upper", "lower", "digit", "special", "unsafe"}
ValidatePasswordComplexity(long, classes) ==
    long /\ classes = Classes \ {"unsafe"}
PortalAccepts(f) == f.long
ServiceAccepts(f) == f.named /\ f.mail /\ ValidatePasswordComplexity(f.long, f.classes)
Forms == [named: BOOLEAN, mail: BOOLEAN, long: BOOLEAN, classes: SUBSET Classes]
AcceptedForms == {f \in Forms : PortalAccepts(f) /\ ServiceAccepts(f)}

NewRow == [status |-> "active", cash |-> 0, total |-> 0, named |-> TRUE]

(* The customer's id is a hash of what the form says, and no constraint    *)
(* refuses it twice: the table gets another row, which no lookup finds;    *)
(* the map's entry is replaced.                                            *)
CreatePortfolio == rows' = Append(rows, NewRow) /\ UNCHANGED current
MapPortfolio == rows' = Append(rows, NewRow) /\ current' = Len(rows) + 1

(* Portal, customer-bll and the RPC pass the form on. *)
BLLRegister == AcceptedForms
RPCRegister == BLLRegister # {}

RegisterCustomer ==
    /\ Asks
    /\ RPCRegister
    /\ IF store = "pgx" THEN CreatePortfolio ELSE MapPortfolio
    /\ Renamed(TRUE)
    /\ UNCHANGED <<store, held, shares, owed, paid, closing, overlaps, erasure,
                   erased, has, accountVars, grants, paperVars, dropped>>

Busy == \E c \in Tabs : closing[c] # Open

(* A settled deposit: the account is read, whatever its status ... *)
UpdatePortfolioBalance ==
    /\ credit = NoCredit
    /\ Asks
    /\ owed' = owed + 1
    /\ credit' = [row |-> current, copy |-> GetPortfolio]
    /\ overlaps' = (overlaps \/ Busy)
    /\ UNCHANGED <<store, rows, current, held, shares, paid, closing, shut,
                   erasureVars, grants, paperVars, dropped>>

(* ... and written back whole, with its status; the holdings of a closed   *)
(* account go again.  The map's record is the one that was read.           *)
WriteBalance ==
    LET old == IF store = "map" THEN rows[credit.row] ELSE credit.copy
        new == [old EXCEPT !.cash = @ + 1, !.total = @ + 1]
    IN /\ credit # NoCredit
       /\ credit' = NoCredit
       /\ \/ /\ rows' = [rows EXCEPT ![credit.row] = new]
             /\ Renamed(new.named)
             /\ held' = IF new.status = "closed" THEN 0 ELSE held
             /\ UNCHANGED dropped
          \/ DropSQL("credit") /\ UNCHANGED <<rows, held, late>>
       /\ current' = IF store = "map" THEN credit.row ELSE current
       /\ UNCHANGED <<store, shares, owed, paid, closing, shut, overlaps,
                      erasure, erased, has, grants, paperVars, asked>>

-----------------------------------------------------------------------------
(* CloseAndLiquidateAccount, call by call. *)
Continues(c, next) == closing' = [closing EXCEPT ![c] = next]
ClosureKeeps == UNCHANGED <<store, accountVars, current, owed, erasureVars, grants, paperVars,
                            overlaps, asked>>

(* The account is read, whatever its status. *)
CloseAccount(c) ==
    /\ closing[c] = Open
    /\ Asks
    /\ Continues(c, [step |-> "list", row |-> current, cash |-> GetPortfolio.cash,
                     held |-> HoldingsOf, proceeds |-> 0,
                     named |-> GetPortfolio.named])
    /\ overlaps' = (overlaps \/ Busy \/ credit # NoCredit)
    /\ UNCHANGED <<store, accountVars, rows, current, held, shares, owed, paid, erasureVars,
                   grants, paperVars, dropped>>

(* The positions are counted at their market value; without any, or when   *)
(* the broker does not answer, the holdings read with the account are.     *)
ListPositions(c) ==
    LET k == closing[c]
        found(v) == [k EXCEPT !.step = IF v > 0 THEN "sell" ELSE "pay",
                              !.proceeds = IF v > 0 THEN v ELSE k.held]
    IN /\ k.step = "list"
       /\ \/ Continues(c, found(shares)) /\ UNCHANGED dropped
          \/ Continues(c, found(0)) /\ Drop("positions")
       /\ ClosureKeeps /\ UNCHANGED <<rows, held, shares, paid>>

(* The sell orders: an error changes nothing of what was counted. *)
SellPositions(c) ==
    /\ closing[c].step = "sell"
    /\ Continues(c, [closing[c] EXCEPT !.step = "pay"])
    /\ \/ shares' = 0 /\ UNCHANGED dropped
       \/ UNCHANGED shares /\ Drop("sell")
    /\ ClosureKeeps /\ UNCHANGED <<rows, held, paid>>

(* The map hands out its own record, so that its cash is read only now.  A *)
(* transfer that fails is replaced by an invented number.                  *)
PayOut(c) ==
    LET k == closing[c]
        amount == k.proceeds + IF store = "map" THEN rows[k.row].cash ELSE k.cash
    IN /\ k.step = "pay"
       /\ Continues(c, [k EXCEPT !.step = "write"])
       /\ \/ paid' = paid + amount /\ UNCHANGED dropped
          \/ amount > 0 /\ Drop("pay") /\ UNCHANGED paid
       /\ ClosureKeeps /\ UNCHANGED <<rows, held, shares>>

ClosedRow(r) == [r EXCEPT !.status = "closed", !.cash = 0, !.total = 0]

(* The name of a closed account on the row it was read from: the row's own *)
(* for the map.                                                            *)
NameKept(k) == IF store = "map" THEN rows[k.row].named ELSE k.named

(* Mutant: the row is closed and keeps its balance. *)
CloseKeepsCash(c) ==
    LET k == closing[c]
    IN /\ k.step = "write"
       /\ Continues(c, Open)
       /\ rows' = [rows EXCEPT ![k.row].status = "closed"]
       /\ held' = 0 /\ shut' = shut \cup {k.row}
       /\ UNCHANGED <<store, credit, shares, paid, owed, current, erasureVars, grants, paperVars,
                      overlaps, dropped, asked>>

(* UpdatePortfolio, and the DELETE of the holdings of a closed account;    *)
(* the errors of both are dropped.                                         *)
CloseWrites(c) ==
    LET k == closing[c]
    IN /\ k.step = "write"
       /\ Continues(c, Open)
       /\ \/ /\ rows' = [rows EXCEPT ![k.row] = [ClosedRow(@) EXCEPT !.named = NameKept(k)]]
             /\ Renamed(NameKept(k))
             /\ shut' = shut \cup {k.row}
             /\ \/ held' = 0 /\ UNCHANGED dropped
                \/ UNCHANGED held /\ DropSQL("delete")
          \/ DropSQL("row") /\ UNCHANGED <<rows, held, shut, late>>
       /\ current' = IF store = "map" THEN k.row ELSE current
       /\ UNCHANGED <<store, credit, shares, paid, owed, erasure, erased, has,
                      grants, paperVars, overlaps, asked>>

-----------------------------------------------------------------------------
(* API keys and webhooks.  A list leaves out what was withdrawn; one that  *)
(* core-invest cannot give is empty, to customer-bll and to the portal.    *)
Granted(kind) == {r \in DOMAIN grants :
                    grants[r].kind = kind /\ grants[r].stored = "active"}
KeyRows == Granted("key")
MapKeys == Granted("key")
ListAPIKeys == IF store = "pgx" THEN KeyRows ELSE MapKeys
RPCListAPIKeys == ListAPIKeys
BLLListAPIKeys(up) == IF up THEN RPCListAPIKeys ELSE {}
PortalListAPIKeys(up) == BLLListAPIKeys(up)
WebhookRows == Granted("webhook")
MapWebhooks == Granted("webhook")
ListWebhooks == IF store = "pgx" THEN WebhookRows ELSE MapWebhooks
RPCListWebhooks == ListWebhooks
BLLListWebhooks(up) == IF up THEN RPCListWebhooks ELSE {}
PortalListWebhooks(up) == BLLListWebhooks(up)

Scrubs == [k \in {"key", "webhook"} |->
             IF k = "key" THEN "customer_api_keys" ELSE "webhook_subscriptions"]
GrantKeeps == UNCHANGED <<store, moneyVars, erasure, erased, has, paperVars>>
Told(kind, stored, told) ==
    grants' = [grants EXCEPT ![asked + 1] =
                  [kind |-> kind, stored |-> stored, told |-> told]]

(* core-invest stores what it is asked for as active, and the RPC answers  *)
(* with the row or its error; customer-bll answers for an error with a key *)
(* of its own that has no id.                                              *)
InsertKey == "active"
MapKey == "active"
RPCCreateAPIKey(ok) == IF ~ok THEN "error" ELSE IF store = "pgx" THEN InsertKey ELSE MapKey
BLLCreateAPIKey(answer) == IF answer # "error" THEN answer ELSE "active"

CreateAPIKey ==
    /\ Asks
    /\ \/ /\ Told("key", RPCCreateAPIKey(TRUE), BLLCreateAPIKey(RPCCreateAPIKey(TRUE)))
          /\ Wrote("customer_api_keys") /\ UNCHANGED dropped
       \/ /\ Told("key", "none", BLLCreateAPIKey(RPCCreateAPIKey(FALSE)))
          /\ DropSQL("key") /\ UNCHANGED late
    /\ GrantKeeps

(* A webhook for no event is NULL where the column allows none: refused,   *)
(* and made up by customer-bll all the same.  The secret the portal made   *)
(* is not passed on.                                                       *)
InsertWebhook(events) == IF events THEN "active" ELSE "error"
MapWebhook == "active"
RPCCreateWebhook(ok, events) ==
    IF ~ok THEN "error" ELSE IF store = "pgx" THEN InsertWebhook(events) ELSE MapWebhook
BLLCreateWebhook(answer) == IF answer # "error" THEN answer ELSE "active"

CreateWebhook(events) ==
    LET answer == RPCCreateWebhook(TRUE, events)
    IN /\ Asks
       /\ \/ /\ Told("webhook", IF answer = "error" THEN "none" ELSE answer,
                     BLLCreateWebhook(answer))
             /\ IF answer = "error" THEN UNCHANGED late ELSE Wrote("webhook_subscriptions")
             /\ UNCHANGED dropped
          \/ /\ answer # "error"
             /\ Told("webhook", "none", BLLCreateWebhook(RPCCreateWebhook(FALSE, events)))
             /\ UNCHANGED late /\ DropSQL("hook")
       /\ GrantKeeps

(* The rows that match lose their status; nobody says that none did. *)
RevokeRow(s) == IF s = "none" THEN s ELSE "revoked"
RevokeMapKey(s) == IF s = "none" THEN s ELSE "revoked"
DeleteWebhookRow(s) == IF s = "none" THEN s ELSE "revoked"
DeleteMapWebhook(s) == IF s = "none" THEN s ELSE "revoked"

(* customer-bll drops the error of the RPC: the key is "revoked". *)
RPCRevoke(ok) == IF ok THEN "revoked" ELSE "error"
BLLRevoke(answer) == "revoked"

RevokeAPIKey(r) ==
    /\ grants[r].kind = "key" /\ grants[r].told = "active"
    /\ \E ok \in BOOLEAN :
          /\ grants' = [grants EXCEPT
                 ![r].stored = IF ~ok THEN @
                               ELSE IF store = "pgx" THEN RevokeRow(@) ELSE RevokeMapKey(@),
                 ![r].told = BLLRevoke(RPCRevoke(ok))]
          /\ IF ok THEN UNCHANGED dropped ELSE DropSQL("revoke")
    /\ UNCHANGED <<late, asked>> /\ GrantKeeps

(* The error of this one is passed on, and the webhook stays. *)
RPCDelete(ok) == IF ok THEN "revoked" ELSE "error"
BLLDelete(answer) == answer

DeleteWebhook(r) ==
    /\ grants[r].kind = "webhook" /\ grants[r].told = "active"
    /\ grants' = [grants EXCEPT
           ![r].stored = IF store = "pgx" THEN DeleteWebhookRow(@) ELSE DeleteMapWebhook(@),
           ![r].told = BLLDelete(RPCDelete(TRUE))]
    /\ UNCHANGED <<late, dropped, asked>> /\ GrantKeeps

-----------------------------------------------------------------------------
(* Erasure. *)
Wiped(t) == [r \in DOMAIN grants |->
               IF grants[r].kind \in DOMAIN Scrubs /\ Scrubs[grants[r].kind] = t
               THEN [grants[r] EXCEPT !.stored = "none"] ELSE grants[r]]
Closed(r) == [r EXCEPT !.status = "closed", !.named = FALSE]

(* The statement that scrubs a table.  The account keeps its balances. *)
Scrub(t) ==
    /\ grants' = Wiped(t)
    /\ held' = IF t = "portfolio_holdings" THEN 0 ELSE held
    /\ has' = has \ {t}
    /\ rows' = IF t = "investment_portfolios"
               THEN [i \in DOMAIN rows |-> Closed(rows[i])] ELSE rows

BeginErasure ==
    /\ erasure.table = 0 /\ store = "pgx"
    /\ Asks
    /\ erasure' = [table |-> 1, listed |-> {}] /\ late' = {}
    /\ UNCHANGED <<store, moneyVars, erased, has, grants, paperVars, dropped>>

(* Mutant: a table that failed is listed all the same. *)
ScrubTableListed ==
    LET t == Scrubbed[erasure.table]
        next(L) == [table |-> erasure.table + 1, listed |-> L]
    IN /\ erasure.table \in 1..8
       /\ erasure' = next(erasure.listed \cup {t})
       /\ \/ Scrub(t) /\ UNCHANGED dropped
          \/ DropSQL(t) /\ UNCHANGED <<rows, held, has, grants>>
       /\ UNCHANGED <<store, current, shares, owed, paid, closing, overlaps,
                      accountVars, erased, late, paperVars, asked>>

(* One table after the other, without a transaction: a failed one is left  *)
(* out of the list, unless it is one of the help desk's.                   *)
ScrubTable ==
    LET t == Scrubbed[erasure.table]
        next(L) == [table |-> erasure.table + 1, listed |-> L]
    IN /\ erasure.table \in 1..8
       /\ \/ /\ Scrub(t) /\ UNCHANGED dropped
             /\ erasure' = next(erasure.listed \cup {t})
          \/ /\ DropSQL(t)
             /\ erasure' = next(IF t \in Ops THEN erasure.listed \cup {t}
                                ELSE erasure.listed)
             /\ UNCHANGED <<rows, held, has, grants>>
       /\ UNCHANGED <<store, current, shares, owed, paid, closing, overlaps,
                      accountVars, erased, late, paperVars, asked>>

(* The certificate is signed and stored under another id; when it is not,  *)
(* nobody hears of it.                                                     *)
CertifyErasure ==
    /\ erasure.table = 9
    /\ erasure' = [erasure EXCEPT !.table = 0]
    /\ erased' = erased + 1
    /\ UNCHANGED dropped \/ DropSQL("certificate")
    /\ UNCHANGED <<store, moneyVars, has, late, grants, paperVars, asked>>

(* The map, under its lock: only the record it has now is closed, emptied  *)
(* of its balance too; tables without a row are not listed; the tickets    *)
(* are somebody else's.                                                    *)
EraseMap ==
    /\ store = "map"
    /\ Asks
    /\ grants' = [r \in DOMAIN grants |-> [grants[r] EXCEPT !.stored = "none"]]
    /\ held' = 0
    /\ rows' = [rows EXCEPT ![current] = ClosedRow(Closed(@))]
    /\ has' = has \ {"recurring_deposits", "tax_lot_sales"}
    /\ erasure' = [table |-> 0, listed |->
           Ops \cup {"investment_portfolios", "portfolio_holdings", "tax_lot_sales"}
           \cup {Scrubs[grants[r].kind] : r \in {q \in DOMAIN grants :
                                                   grants[q].stored # "none"}}
           \cup (has \cap {"recurring_deposits"})]
    /\ erased' = erased + 1 /\ late' = {}
    /\ UNCHANGED <<store, current, shares, owed, paid, closing, overlaps,
                   accountVars, paperVars, dropped>>

(* A schedule or a ticket made from another tab. *)
AddRecord(t) ==
    /\ Asks
    /\ Past(t) /\ t \notin has
    /\ has' = has \cup {t} /\ late' = late \cup {t}
    /\ UNCHANGED <<store, moneyVars, erasure, erased, grants, paperVars, dropped>>

(* A stored certificate is found by its own id, which nobody was told: the *)
(* portal asks without the customer's id, so that core-invest is never     *)
(* asked, and would be asked for the customer's id in its place.           *)
CertificateRow(id) == IF id = "certificate" THEN erasure.listed ELSE {}
MapCertificate(id) == IF id = "certificate" THEN erasure.listed ELSE {}
RPCCertificate(customer) ==
    IF store = "pgx" THEN CertificateRow(customer) ELSE MapCertificate(customer)

(* Whatever customer-bll does not find is these four tables, erased. *)
GetGDPRCertificate(customer) ==
    IF customer # "" /\ RPCCertificate(customer) # {} THEN RPCCertificate(customer)
    ELSE {"investment_portfolios", "customer_api_keys",
          "webhook_subscriptions", "recurring_deposits"}
PortalCertificate == GetGDPRCertificate("")
DownloadCertificate == GetGDPRCertificate("")

-----------------------------------------------------------------------------
(* Statements. *)
InsertStatement(s) == statements' = Append(statements, s)
MapStatement(s) == statements' = Append(statements, s)

(* No INSERT for the form of a portfolio whose id the request left out: it *)
(* goes by a name that is no UUID.  A failed INSERT is dropped, and the    *)
(* statement is "available".                                               *)
StatementStored(s, nameless) ==
    LET refused == store = "pgx" /\ nameless /\ s.type = "form_1099b"
    IN /\ handed' = handed + 1
       /\ \/ /\ ~refused /\ UNCHANGED dropped
             /\ IF store = "pgx" THEN InsertStatement(s) ELSE MapStatement(s)
          \/ /\ UNCHANGED statements
             /\ IF refused THEN dropped' = dropped \cup {"nameless"}
                ELSE DropSQL("statement")

(* The portfolio of a monthly statement is looked up, that of a form is    *)
(* not.                                                                    *)
GenerateMonthlyStatement(month) ==
    StatementStored([type |-> "monthly_summary", month |-> month], FALSE)
GenerateForm1099B(s, nameless) == StatementStored(s, nameless)
RPCMonthlyStatement(month) == month \in Months /\ GenerateMonthlyStatement(month)
RPCForm1099B(s, nameless) == GenerateForm1099B(s, nameless)

(* customer-bll and the portal: every type but the form is a monthly one. *)
BLLGenerateStatement(s, nameless) ==
    IF s.type = "form_1099b" THEN RPCForm1099B(s, nameless)
    ELSE RPCMonthlyStatement(s.month)
GenerateStatement(s, nameless) ==
    /\ Asks
    /\ BLLGenerateStatement(s, nameless)
    /\ UNCHANGED <<store, moneyVars, erasureVars, grants, documents>>

StatementRow(s) == s \in Range(statements)
MapStatementRow(s) == s \in Range(statements)
GetStatement(s) == IF store = "pgx" THEN StatementRow(s) ELSE MapStatementRow(s)

(* The sales a form lists. *)
TaxLotSales == "tax_lot_sales" \in has
MapTaxLotSales == "tax_lot_sales" \in has
SalesListed(d) == d.type = "form_1099b" /\
                  IF store = "pgx" THEN TaxLotSales ELSE MapTaxLotSales

(* The document of a download is generated, and stored, again: a monthly   *)
(* one always for March; so is the document of an id nobody knows.         *)
March == CHOOSE m \in Months : \A n \in Months : m <= n
Document(s) == IF GetStatement(s) /\ s.type = "form_1099b" THEN s
               ELSE [type |-> "monthly_summary", month |-> March]
RPCDocument(s) == Document(s)
BLLDownload(s) == RPCDocument(s)
DownloadStatement(s) ==
    LET d == BLLDownload(s)
    IN /\ Asks
       /\ StatementStored(d, FALSE)
       /\ documents' = documents \cup {[asked |-> s, got |-> d, sales |-> SalesListed(d)]}
       /\ UNCHANGED <<store, moneyVars, erasureVars, grants>>

StatementRows == statements
MapStatements == statements
ListStatements == IF store = "pgx" THEN StatementRows ELSE MapStatements
RPCListStatements(type) == {i \in DOMAIN ListStatements : type \in {"", ListStatements[i].type}}
BLLListStatements(up) == IF up THEN RPCListStatements("") ELSE {}
PortalListStatements(up) == BLLListStatements(up)

(* What a statement says the account is worth: its balance, or, when that  *)
(* is zero, its cash and the holdings stored with it.                      *)
StatementAccount == GetPortfolio
StatementHoldings == HoldingsOf
EndingBalance ==
    IF StatementAccount.total = 0 THEN StatementAccount.cash + StatementHoldings
    ELSE StatementAccount.total

(* calculateMonthlyMetrics, in twentieths. *)
OpeningBalance(total, gain) ==
    IF gain > 0 /\ total > gain THEN 20 * (total - gain) ELSE 17 * total
UnrealizedGain(total, gain) ==
    IF gain = 0 /\ total > 0 THEN 3 * total ELSE 20 * gain

(* The batch of the month, on the first at one o'clock: for every          *)
(* portfolio, closed ones included, a statement is named, and none stored. *)
ListPortfolios == Len(rows)
MapPortfolios == 1
TaxStatement(i) == {}
RPCStatement(i) == TaxStatement(i)
GenerateBatchStatements ==
    UNION {RPCStatement(i) : i \in 1..(IF store = "pgx" THEN ListPortfolios ELSE MapPortfolios)}
RunEOMStatementBatch == GenerateBatchStatements

LifecycleNext ==
    \/ RegisterCustomer \/ UpdatePortfolioBalance \/ WriteBalance
    \/ \E c \in Tabs : CloseAccount(c) \/ ListPositions(c) \/ SellPositions(c)
                          \/ PayOut(c) \/ CloseWrites(c)
    \/ CreateAPIKey \/ \E e \in BOOLEAN : CreateWebhook(e)
    \/ \E r \in DOMAIN grants : RevokeAPIKey(r) \/ DeleteWebhook(r)
    \/ BeginErasure \/ ScrubTable \/ CertifyErasure \/ EraseMap
    \/ \E t \in Plain : AddRecord(t)
    \/ \E s \in Statement : \/ \E n \in BOOLEAN : GenerateStatement(s, n)
                            \/ DownloadStatement(s)

LifecycleSpec == LifecycleInit /\ [][LifecycleNext]_lifecycleVars

-----------------------------------------------------------------------------
(* CloseAndLiquidateAccount: more is paid than the customer put in only    *)
(* when two closures overlapped, or an error left the positions, the row   *)
(* or the holdings for the next closure to pay again; and a closed account *)
(* that no closure works on was paid in full unless the transfer or the    *)
(* list of positions failed, an erasure took the account or its holdings,  *)
(* or a registration took the record's place.  An account a closure has    *)
(* written is open again only if a deposit that overlapped wrote it back.  *)
PayoutExplained ==
    /\ paid > owed =>
           \/ overlaps
           \/ \E e \in {"positions", "sell", "row", "delete"} : Failed(e)
    /\ ~Busy /\ rows[1].status = "closed" /\ rows[1].cash = 0 /\ paid < owed =>
           \/ Failed("pay") \/ Failed("positions") \/ Failed("credit") \/ overlaps
           \/ credit # NoCredit
           \/ erased > 0 \/ erasure # NoErasure
           \/ Len(rows) > 1
    /\ \A i \in shut : rows[i].status = "active" => overlaps

(* The parts of a monthly statement add up unless there is a loss, or a    *)
(* gain above the balance.                                                 *)
PartsAddUp ==
    \A total \in 0..2 : \A gain \in -1..3 :
        gain >= 0 /\ (gain < total \/ gain = 0) =>
            OpeningBalance(total, gain) + UnrealizedGain(total, gain) = 20 * total

(* GenerateMonthlyStatement of a closed account shows a balance only when  *)
(* a deposit came in afterwards or an error, an erasure or an overlapping  *)
(* closure left it; and its parts add up.                                  *)
StatementsAddUp ==
    /\ ~Busy /\ GetPortfolio.status = "closed"
             /\ EndingBalance > 0 =>
           owed > 2 \/ Failed("row") \/ Failed("delete") \/ erased > 0
           \/ erasure # NoErasure
    /\ PartsAddUp

(* A table on the certificate of an erasure has a row of the customer only *)
(* if it was written after the table was scrubbed, or if it is the help    *)
(* desk's, whose errors, and whose absence from the map, are not noticed;  *)
(* a table that is not listed failed, or had nothing.  The certificate the *)
(* portal shows lists four tables whatever became of them.                 *)
Holds(t) ==
    \/ \E r \in DOMAIN grants : /\ grants[r].stored # "none"
                                /\ grants[r].kind \in DOMAIN Scrubs /\ Scrubs[grants[r].kind] = t
    \/ t = "portfolio_holdings" /\ held > 0
    \/ t = "investment_portfolios" /\ \E i \in DOMAIN rows : rows[i].named
    \/ t \in has
ErasureExplained ==
    LET done == erased > 0 /\ erasure.table = 0
    IN /\ \A t \in erasure.listed : Holds(t) =>
             \/ t \in late
             \/ t \in Ops /\ (Failed(t) \/ store = "map")
             \/ store = "map" /\ t = "investment_portfolios" /\ Len(rows) > 1
       /\ done => \A t \in Range(Scrubbed) \ erasure.listed :
                     Failed(t) \/ store = "map"
       /\ done => \A t \in PortalCertificate \cup DownloadCertificate : Holds(t) =>
                     \/ t \in late \/ Failed(t)
                     \/ store = "map" /\ Len(rows) > 1

(* customer-bll answers for core-invest: a key or webhook the customer was *)
(* told is active and is not there was lost to an error, asked for without *)
(* events, or erased; a key told revoked that still works is an error that *)
(* was dropped.                                                            *)
GrantsExplained ==
    \A r \in DOMAIN grants :
        LET g == grants[r]
        IN /\ g.told = "revoked" /\ r \in PortalListAPIKeys(TRUE) \cup PortalListWebhooks(TRUE) =>
                  g.kind = "key" /\ Failed("revoke")
           /\ g.kind = "key" /\ g.told = "active" /\ r \notin PortalListAPIKeys(TRUE) =>
                  Failed("key") \/ erased > 0 \/ erasure.table > 1
           /\ g.kind = "webhook" /\ r \in PortalListWebhooks(TRUE) => g.told = "active"

(* A statement the customer was told of is missing from the list only if   *)
(* its INSERT failed or could not work; a download differs from its        *)
(* statement only for a month that is not March or an id that is unknown;  *)
(* a form without sales was made after they were scrubbed.                 *)
DownloadsExplained ==
    /\ Cardinality(PortalListStatements(TRUE)) < handed =>
           Failed("statement") \/ Failed("nameless")
    /\ Cardinality(PortalListStatements(TRUE)) + Cardinality(RunEOMStatementBatch) <= handed
    /\ \A d \in documents :
           /\ d.got # d.asked => d.asked.month # March \/ d.asked.type = "form_1099b"
           /\ d.got.type = "form_1099b" /\ ~d.sales => erased > 0 \/ Past("tax_lot_sales")

ClosureExplained == LifecycleTypeOK /\ PayoutExplained /\ StatementsAddUp
RecordsExplained == ErasureExplained /\ GrantsExplained /\ DownloadsExplained

(* The account service: payouts, statements, erasures, keys and webhooks   *)
(* differ from what the customer put in or was told for these reasons only.*)
AccountsExplained == ClosureExplained /\ RecordsExplained
=============================================================================
