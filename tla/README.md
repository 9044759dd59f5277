# Orange Cat Investments: TLA+ specifications

Formal models of the services of Orange Cat Investments (OCI): a customer portal
for deposits and orders, an employee portal for a company whose executives are
cats, and the queues, worker and simulators behind them. Each module is
translated from the Go source; line references are in `PROJECT.json` ("map").

Run a model with `tlc -config MCBankLedger.cfg MCBankLedger`, check a proof with
`tlapm BankLedgerProofs.tla`.

## 1. The system

```
 browsers -- customer-bff -- customer-bll -+- core-invest-api -- PostgreSQL
                 |               |         +- workforce-api (medical holds)
              Valkey         RabbitMQ      +- mock-bank, mock-broker (HTTP)
                 |               |
 browsers -- employee-bff   oci-worker ----- customer-bll, internal-bll (gRPC)
     ^           |               |
     |      internal-bll ---- workforce-api, ops-api, facilities-api
     +---- SSE <-+---------------+---------- pebble-proxy -- watch
```

Every arrow is a synchronous call with its own failures, except the events in
RabbitMQ, which the worker takes one at a time per handler and which return to
the queue when the handler returns an error. Services share state only through
databases and Valkey, nearly always without transactions that span a read and
the write that follows from it. That is where most of the hazards are.

| component | state | operations | hard behaviour | what makes it correct |
|---|---|---|---|---|
| mock-bank ledger and engine | accounts (current, available), transfers; one mutex | create, tick (post, settle), force an outcome, reset | the tick acts on copies taken before the mutex was released | money is conserved, holds never overdraw, each transfer clears once and in order, and in the end |
| ACH settlement pipeline | schedule row, queue, calls under way, portfolio row | initiate, handle, bank transfer, balance update, announce, requeue, close | lost answers, crash of the worker with a call still running, unlocked read and write of the row | an accepted transfer is never lost; balances, charges and events are backed by one another |
| session store | key per token, index set per user, lifetimes | login, logout, log out everywhere, prune, erase, expiry | pipelines that are not transactions | the index knows every usable session; a revoked one stays dead |
| mock-broker | orders, cash, positions, quote | quote, place, execute, cancel, value, fill limits | handlers use a quote older than the mutex; fills compete for cash in map order | no overdraft, books agree with the orders, limits hold, fates are final |
| recurring deposits | schedule rows with a next date | create, erase, list, move date, publish | two runners (ticker and CronJob), ignored errors, a batch cut off | every claim is accounted for, charges are bounded, due rows are claimed |
| order execution | request progress, holds, broker order, rows, event, answer | resolve feline, check hold, order, record twice, publish, answer | hold toggled after the check, lost answers, cut-off requests | no order passes a standing hold; records are of real orders |
| incident alerts | incident, event, worker attempt, two maps in memory, SSE channels, tickets | report, publish, handle, post, skip, return, restart, connect, write | one of two targets fails, answers are lost or late, maps vanish with the process, slow browsers | acknowledged implies delivered to both; repeats have a cause; streams lose only at a full channel |
| portfolio query cache, invalidation listener | entries with lifetimes, in Valkey or in the process | read, fill, evict by key or prefix, expire | a fill racing an eviction, evictions that fail, the listener's own cache | a stale portfolio has one of four known reasons and ends with its lifetime |
| rate limiter | sorted set per key, a list per pod | allow, expire | clocks of several pods, fallback per pod | at most the limit per window, times the pods during an outage |
| welfare page | page in the portal, two lists in customer-bll | read, refresh under a lock | caches in a row, old lists served on failure | a page lags no more than its caches, unless a call failed |
| care schedules and holds | row, cached copy, version counter, open pages | load, save, hold, invalidate | version check and write are two commands; forms older than the hold | a stale copy and a lifted hold have a cause |
| portal access | session cookie, CSRF cookie and header, roles | log in, register, read, write, log out | pages of a browser share cookies; the store changes with Valkey | a write is done as the customer the page shows |
| sagas (onboarding, offboarding) | employee row, accounts, storage, sessions, hold | steps across five services | errors discarded and reported as success, repeats, namesakes | what is reported taken away is gone, or the reason is known |
| review cycles | one row with columns of four authors | create, submit (self, peer, manager, vet), edit | read, change and write back without a transaction | one appraisal does not erase another; completed is dated, scored has a score |
| leave, timesheets, payroll | rows in Frappe or in the process | check, insert; check, update | overlapping shifts, approval racing rejection | overlaps and withdrawn approvals have a cause |
| tickets and the watch | ticket rows, issues of Forgejo, comments | create, update, acknowledge, close, comment, list | issue before row, acknowledgement from a stale list, pages cut before they are filtered | row, issue, comments and lists agree unless a call failed |
| facilities and firmware | assets, logs on the phone and on the server, releases, jobs | sync, release, trigger, complete, stream | repeated sync, events lost or delivered twice | one log per entry; completed jobs are announced |
| statements and tax forms | statement rows, downloads | generate, batch of the month, download | errors dropped, ids made up | a statement is listed, and its download is of it |
| executive reports | row of a month, two files in Nextcloud | hourly check, request, generate, download | generations that overlap or are cut off; first row kept, last file kept | row, files and announcement agree unless a call failed |
| account closure, GDPR erasure, API keys | portfolio row, holdings, payout, tables, certificate, keys | register, close, pay out, scrub, certify, grant, revoke | errors ignored, repeated payout, deposits meanwhile | paid once and in full; scrubbed before certified |
| CA rotation, mTLS reloader | certificate and key files, secret, cached pair | check, renew, persist, sync, reload | two files that change one after the other | a served pair belongs together |

`PROJECT.json` lists these and the parts that are left out, with the reason: most
of the user interfaces and of the simulation driver, the endpoints of third-party
clients no modelled operation calls, wrappers, and generated or declarative
files.

## 2. Modules and their correspondence to the code

**BankLedger** (`cmd/mock-bank`). `current`, `available` and `transfers` are the
maps of `ledger/store.go`; each action that holds the mutex is one step. The
engine's tick is split as in the code: `TickSnapshot` copies the open transfers
and releases the lock, `TickTransfer` applies one copy with
`UpdateTransferStatus`, which does not compare the copy with the stored status.
`CreateTransfer`, `SimulateSettlement`, `SimulateReturn` and `Seed` (the reset)
may come between. Time is the age of a transfer in ticks.

**ClearingHouse** is the abstract specification of what the ledger promises: an
order is taken or refused, clears at most once and by exactly its amount, and a
reset forgets every order for good. It has no engine, copies, holds or clock.
`BankLedger!House` is the refinement mapping (`FateOf`, `OrderOf`): pending and
posted are both "open", a slot that was used and is blank again is "gone".

**ACHSettlement** (`customerbll/banking.go`, `worker/consumers_invest.go`,
`core-invest-api`). `calls` are handlers of `SettleACHTransfer`, which go on when
the worker that called them is gone; `ReadPortfolio` and `WritePortfolio` are the
two statements of `UpdatePortfolioBalance`; `CloseReads` and `CloseWrites` are
the closure that rewrites the same row. `Nack` queues the message again.

**SessionStore** (`pkg/session/valkey/store.go`). One action per Valkey command;
only the purge script is atomic. `Erase` is the sequence of
`handleGDPRErasure`.

**MockBroker** (`cmd/mock-broker`). `GetQuote` is the read before the mutex,
`CreateOrder` the critical section after it; a tick is `PublishQuote`,
`UpdateAccountValuations`, `CheckLimitOrders`, three critical sections, the last
of which visits orders in any order.

**RecurringDeposits** (`customerbll/banking.go`, `worker/batch_jobs.go`,
`worker/schedulers.go`). `ListDue`, `Advance`, `ClaimReturns`, `Publish` are the
steps of a batch; `BatchCutOff` is a runner that dies or loses the answer.

**OrderExecution** (`customerbll/orders.go`, `core-invest-api`,
`pkg/broker/alpaca`). A slot is a request in progress; each call is an action and
may fail. The deployed wiring is modelled: customer-bll has a broker client and
core-invest-api has none, so it first inserts a pending row, fails, and then
inserts an executed one.

**IncidentAlerts** (`internalbll/incidents.go`,
`worker/consumers_ops_workforce.go`, `employeebff/incident_stream.go`,
`pebble-proxy`). `delivered` are the two maps of the worker process, `late` the
posts it gave up on that may still be served, `stream` the connections with their
channels. `served`, `lost`, `written`, `dropped`, `since` are histories.

**ReviewCycles** (`service/workforce/reviews.go`, the handlers and the pgx
repository). A request reads the row (`Begin`), changes its copy (`Changed`) and
writes it back (`Write`, `Merge`); requests overlap freely. A column holds the
request that gave it its value, which is all the properties need. Two effects of
the code worth knowing are in the model: creation drops the peer, manager and
wellness scores, because the handler forwards a flag only for the self score; and
the UPDATE keeps a column its copy lacks, which is why overlapping submissions do
not erase one another. It always writes status and phase, so a slow request can
undo a completion. An edited review period is accepted and not stored.

**PortfolioCache** (`pkg/cache/valkey`, the handlers of customer-bff). A request
looks the entry up, reads customer-bll and fills the entry in three steps; an
order's eviction is owed until its handler has done it. `why` records how an entry
came to be out of date: filled from a read that was overtaken, filled with the
zeroes customer-bll answers when both backends are down, changed by a deposit or a
closure (whose handlers delete a key no reader fills), or not evicted because a
command failed. A customer's eviction by prefix also takes the entries of every
customer whose id begins with his.

**Transparency** (`customerbll/streams.go`, `customerbff`, `workforce-api`). Three
caches, none of which is ever evicted: the page in the portal, and behind it the
lists of cats and of veterinary records, refreshed under a lock that is held
during the call. Ages are in units of the lists' lifetime.

**RateLimiter** (`pkg/cache/valkey/ratelimit.go`). The Lua script is one step.
Admitted requests are numbered, as the members of the sorted set are unique; of a
timestamp the model keeps the request's age and the pod whose clock made it, so that
another pod sees it as older or younger by the difference of the clocks.

**CareSchedules** (`handler/care_schedule_handlers.go`). Loading and saving a page
are the sequences of cache and database commands of the handlers: `version` is
read, compared and written by separate commands, and expires after a day
(`ExpireVersion`). It can go back: a save that stalled between reading the counter
and writing it undoes the counts of the others, and a reader that compares versions
then takes an old copy for a new one. `faulty` records that it did.

**Timesheets** (`service/workforce/timesheets_payroll.go`). A submission lists the
sheets of its date and then stores; a review reads and then writes. The date of a
shift is taken as given and not compared with its times, as in the code.

**Sagas** (`internalbll/sagas_workforce.go`, `internal/saga`). Both engines: the
one of internal-bll only reaches the repository host and answers for the other
systems as if it had done the work; the other reaches the systems it has clients
for. User names are derived from names, so two employees may share an account.

**PortalAccess** (`pkg/session`, the auth handlers, `customer-portal/App.vue`,
`simulation`). Either the pages of one browser, which share cookies and keep the
CSRF token of their own last login in memory, or the driver with its retry after a
refusal. A request is sent, served and answered in three steps, so answers, and
the cookies they set, arrive in any order. `backing` is the store the portal chose
when it started: Valkey, or memory.

**Tickets** (`service/ops`, `repository/ops`, `pebble-proxy`, the handlers of both
portals). A ticket is created issue first, closed row first and commented copy
first, and the errors of the calls to Forgejo are dropped. Requests are records of
the fields each layer reads, fills in or overwrites; the CHECKs of
`03-ops-core.sql` refuse the rest. Every list is an operator over the rows, with
the page size and the filter in the order the code applies them.

**Certificates** (`service/pki`, `pkg/mtls`). A generation number stands for a
certificate, its key and the time of its file. The manager writes two files and a
Kubernetes secret; `Crash` may come between any two. A handshake compares times,
loads the pair and stores it step by step while the files are replaced.

**AccountLifecycle** (`service/core_invest`, `customerbll`, `customerbff`). One
customer with several requests under way. A closure sells, pays, writes the row
and deletes holdings, each call with its dropped error; an erasure scrubs the
tables in the order of the code; registration, a deposit, API keys, webhooks,
statements, Forms 1099-B and their downloads share the state. PostgreSQL and the
map used without it are both there, since they differ.

**Facilities** (`facilities-api`, `internalbll`, `mock-hardware`, the Flutter app).
The phone's queue, its two screens that synchronise, the OTA jobs and their event, over
PostgreSQL, over the map and without the service.

**MonthlyReports** (`internalbll/reports.go`, `worker/schedulers.go`). A generation
reads figures (a version of the books, whole or not), uploads two files, saves the
row and announces. PostgreSQL keeps the first row of a month, the map the last;
Nextcloud keeps the last file.

External parts are seen through how the code uses them: RabbitMQ (a publish that
returns without error has stored the message; an unacknowledged message returns
when the consumer is gone), PostgreSQL (a statement is atomic, CHECK constraints
of `scripts/init.sql` are enforced), Valkey (a command is atomic), HTTP (a call
may fail before or after its effect).

Definitions whose comment starts with "Mutant" are faulty variants of the
definition that follows them; a run in which one replaces the original must fail,
which shows that the property depends on that code.

Components that share no state are composed so that one run explores them in turn:
a behaviour moves one of them, chosen at the start. **Workforce** (ReviewCycles,
CareSchedules, Timesheets), **WorkerJobs** (IncidentAlerts, RecurringDeposits,
MonthlyReports) and **Investing** (OrderExecution, PortfolioCache, Transparency) are
parameterised, and the theorems are about them; their MC modules only give values.
`MCPortalStores` (SessionStore, RateLimiter, Sagas, PortalAccess) and `MCBackOffice`
(Tickets, Certificates, AccountLifecycle, Facilities) compose directly; the theorems
about their parts are about the parts' own specifications, of which every behaviour
of the composition is one that rests or moves.

**Sums** defines the sum of a function over a finite set, in which the books of the
bank, of a portfolio and of the broker are stated; **SumTheorems** proves what it
computes.

Many properties have
the form "a disagreement has one of these causes", with histories in the model that
record the causes: every other interleaving must keep the pieces in agreement.

## 3. Runs

| run | bounds | shows |
|---|---|---|
| `bank_ledger` | 2 accounts (one the custody account), amounts 0 and 2, 2 transfers, 2 forced outcomes, 1 reset | `MoneyAccounted`, `AvailableNeverNegative` through double settlements, late returns and a reset in the middle of a tick; until an outcome is forced also `SettledAtMostOnce`, `ForwardOnly` and the refinement `ClearsAsPromised`; `AcceptedClears` under fairness |
| `ach_settlement` | 2 deposits of different amounts, 2 calls, 1 failure per request, 1 crash, 1 closure | `AcceptedNotLost`, `EffectsBacked`, `ChargesExplained`, `BalanceIsSumOfCredits`; `AcceptedSettles` |
| `session_store` | sessions: 3 tokens of one user, lifetimes 2 and 3; limits: 2 pods, clocks 1 apart, 2 requests per window of 3, 5 admissions; sagas: 2 namesakes and a cat, 2 calls, 1 fault; access: 2 pages or the driver, 3 tokens, 1 or 2 mishaps | `SessionsIndexed`, `RevokedStaysDead`, `WindowHeld`, `AccessExplained`, `PortalAccessExplained` |
| `mock_broker` | 1 account, 3 orders, 2 quotes on both sides of the limit | `TradesInBounds`, `BooksAgree`, `FateIsFinal`, `DueIsFilled` |
| `order_execution` | 2 concurrent requests, 2 felines; cache: 2 customers, one id the beginning of the other's, 2 changes; page: 1 cat, 2 viewers, 2 events | `HoldRespected`, `OrdersReal`, `ErrorsExplained`, `HoldTakesEffect`, `StaleExplained` |
| `review_cycles` | 3 overlapping requests, edits that give one score, complete, reopen or move the phase; care: 3 keepers, 2 writes; timesheets: 2 sheets, 4 shifts, 2 reviewers | `NothingErased`, `DerivedPresent`, `UnaskedKept`, `StoredExplained`, `ChangesExplained` |
| `worker_jobs` | alerts: 2 incidents, 1 tab with a channel of 1, 1 failed delivery, 1 restart; schedules: 1 schedule, 2 runners, 3 weeks, 1 failure, 1 cut-off; reports: 2 months, 2 generations, 1 fault | `AckedIsDelivered`, `RepeatsExplained`, `StreamAccounted`, `JobsAccounted`, `PublishedIsAlerted`, `DueIsClaimed` |
| `back_office` | 2 tickets on pages of 1, 1 watch, 1 failed call over PostgreSQL; a CA of 3 hours, 1 crash, 1 failed write, 2 swaps; 2 tabs of a customer, 3 requests, 1 error; 2 phone logs, 2 rollouts, 1 fault | `TicketsExplained`, `CertificatesExplained`, `AccountsExplained`, `FleetExplained` |

Why these bounds are enough to be interesting: two transfers compete for one
balance (3 available, holds of 2); two deposits and two calls let an orphaned
call overlap the retry of its own request and the other request; three tokens
whose sessions outlive a step of time let the index expire under the last of them
if a login failed to renew it (each user has an index of his own, so a second user
adds only another copy of the first); three orders of 2 shares at about 3
against 7 in cash make the third one unaffordable; three weeks let a stalled
weekly batch move a date backwards; a channel of one event is full after one
broadcast; three requests let one write twice-removed stale data (read before two
other writes). A cached value needs one change while it is read and one after it
is filled; two pages of a browser suffice for one to replace the other's cookies,
and a third token for a login in between; two tickets on pages of one put the
older behind the newer; a CA of three hours is renewed once and, after a crash,
again; three requests of a customer are two closures and an erasure, or a closure,
a deposit and a registration; two generations of a report overlap, or one follows
the other in its own or the next month. Amount 0 and the direction `other` are there because the handler
checks them. Histories grow with the bounded failures only.

Deadlock is checked except where the system may stop: a finite set of deposits
(`ach_settlement`), tokens that have all been used (`session_store`), the end of
the bounded time and of the bounded incidents (`worker_jobs`), requests that have
all been served (`review_cycles`, `back_office`).

Four runs show a disagreement between the code and what the repository says of
it, each with a finding:

* `session_erasure`: erasing an account from one device leaves the sessions of the
  other devices usable; the README promises a bulk purge.
* `recurring_frequency`: a `one_time` deposit, the documented default, is refused
  by the CHECK of the schedule table.
* `order_records`: core-invest-api records a resting limit order as executed.
* `incident_ticket`: the ticket `BroadcastPebbleIncidentAlert` is said to create is
  refused by the CHECKs of the ticket table, and the error is discarded.

### Fairness

Weak fairness of the steps a running process must take, nothing of users,
failures, crashes and resets: the bank's ticker and its loop over copies; the
broker's tick; a batch of each runner (tickers fire every hour, and CronJobs are
rescheduled); the calls of a request, which return or time out; the worker's
loop. In ACHSettlement taking a message has strong fairness per request: the
queue is first in, first out, so a message that keeps being available is not
passed over for ever, although each failure takes it out of the queue for a
while. Where failures are counted they are finitely many: a message whose
handling always fails comes back for ever, since the router has no retry limit.
In IncidentAlerts the gRPC call of the first step has no deadline; that it
returns is an assumption.

## 4. Proofs

The theorems hold for every value of the constants that satisfies the named
assumption of the module (`LedgerAssumption`, `PipelineAssumption`,
`BrokerAssumption`, `SessionAssumption`, `FelineAssumption`, `AlertAssumption`,
`RequestAssumption`, `WorkforceAssumption`, `JobsAssumption`,
`InvestingAssumption`, `LimitAssumption`, `SagaAssumption`, `CertificatesAssumption`,
`FacilitiesAssumption`, `TicketsAssumption`, `LifecycleAssumption`,
`AccessAssumption`): bounds are natural numbers, and the sets a property counts or adds
up over (accounts, requests, orders, keepers, runners, customers, tickets) are finite. A
CA lives longer than the threshold at which it is renewed, there is a first month, and
no page has a name that stands for another maker of tokens.

* **SumTheorems.** `SumOver` is a recursive function on the subsets of a set. That a
  sum is a number, loses a summand when an element is taken out and does not change
  with summands that do not, is proved for every finite set: the argument is that a
  claim about subsets with a counterexample has a smallest one, from the least
  number principle. `SumPoint` (one summand changes, the sum changes by as much) is
  what the books need.
* **BankLedgerProofs.** `TypeCorrect` is inductive by itself. `NeverOverdrawn`
  needs that recorded amounts are not negative (`AmountsNatural`): otherwise a
  return could lower the available balance. `EngineSettlesOnce` and
  `EngineForwardOnly` speak of the time before an outcome is forced (afterwards a
  transfer may settle twice) and rest on `UnforcedInv`, whose core is
  `CopiesAgree`: the copies of a tick in progress have the status that is stored,
  as nothing else changes a status; a reset blanks the slots that were used.
  `LedgerIsAClearingHouse` is the refinement of ClearingHouse, from the same
  invariant: `HouseInitial` maps the initial states, and `StepRefines` each action:
  creating a transfer takes an order (`CreateTakes`), an update of a tick clears one
  or shows nothing (`TickClears`, which needs `CopiesAgree` to know that the slot it
  writes is still the open transfer it copied), a reset wipes (`SeedWipes`), and
  copying and the clock stutter. Once an outcome is forced the house promises
  nothing. `LedgerAccountsForMoney` says that the current balances always add up to
  what `Seed` put in (`FundsInv`: a settlement moves an amount between two accounts)
  and that, until an outcome is forced, the gap between an account's two balances is
  what its open debits hold (`HeldInv`, on top of `UnforcedInv`).
* **ACHSettlementProofs.** `NoTransferLost` needs `Holding`: what the worker holds
  is delivered and accepted, and its call is for it. `EffectsAreBacked`
  and `ChargesAreExplained` are inequalities between counters
  that hold only between attempts; `CreditsOwed`, `ChargesOwed` and `EventsOwed`
  add what the calls under way still owe, as the cardinality of a set of calls,
  and each action moves exactly one call in or out of it. `NoUpdateLost` says that
  without a crash and a closure the balance is the opening cash plus every credit;
  `BalanceInv` adds why (`Alone`): only the call the worker waits for runs, and the
  row it is about to write back is the stored one.
* **PortalStoresProofs.** `SessionsAreIndexed` and `RevokedAreDead` need `SessionInv`:
  a token is drawn once (`UsedTokens`), a logout deletes the key before it takes the
  token out of the index and a prune takes out dead ones only
  (`GoneBeforeUnindexed`), and the index of a user outlives his sessions
  (`IndexOutlives`). `WindowIsHeld`, for any clocks no further apart than `MaxSkew`:
  the property counts admissions while the limiter counts what is left in its list,
  and `RecentAreKept` connects the two. No pod prunes from the shared set what is
  younger than the window less the skew, a pod prunes its own list by the clock that
  filled it, and the set expires only when its last admission is a window ago; so the
  recent admissions are a subset of a list no longer than `Limit`.
  `AccessIsExplained`, for any number of onboardings and offboardings under way and
  any way of deriving user names: what the last report says is not inductive, since
  reports are put together over several steps in which other calls give and take.
  `ReportedNotHeld` and `GivenIsThere` say it of what every call under way has got so
  far as well, and `TakenIsGone` that access once taken is back only if it was given
  again. `PortalAccessIsExplained`, for any number of pages, logins, requests and
  mishaps, needs `AccessInv`. What is done with a request depends on cookies that
  were copied into it earlier and that other pages have replaced since, so the
  invariant follows a token from the login that made it to the answer (`CallFits`),
  the browser (`CookiesFit`), the page (`PageFits`) and the request it is sent with
  (`WriteFits`), and says at each place who made it, and for whom. That a write in
  another customer's name is refused comes from two facts: the header of a settled
  page is the token of its own login, and a CSRF cookie that a login set came with the
  session of the same login. Answers out of order are harmless because numbers stay
  what they are; `Grows` says so of every step, and one lemma per part
  (`CallStays`, `CookiesStay`, `PagesStay`, ...) carries what an action leaves alone.
* **InvestingProofs.** Orders: `HoldIsRespected`, `OrdersAreReal` and
  `ErrorsAreExplained` need `Progress`: a request past the check has seen its
  feline off hold, one past the broker call has its order there; `OrdersAreAPart`
  carries them over to the composition. `StaleIsExplained`: for the portfolio cache
  the property is inductive once the counters stay in their types (`CacheInv`;
  `SumBounds` turns the bound on all changes into one on each customer's). The
  welfare page is the opposite case: that a page is as late as it may be says nothing
  of the next one. `PageInv` follows an answer of workforce through the places that
  keep it and bounds its lateness in each: by the request's time in the request that
  got it, by age plus `MaxSlow` in customer-bll's list, by the list's lag
  (`ListLag`) plus the request's time in a page under way, and by the page's age on
  top of that in the portal. One lemma, `RightLater`, covers both changes at work and
  the passing of time: what was right with a lag is right with a lag longer by the
  time that passed. The mock broker: `TradesStayInBounds` (no overdraft, no position
  below zero, limits respected) needs `Held`: the orders a tick has yet to visit still
  wait, and a handler that has read a quote holds it. `FatesAreFinal` is an action
  property. `BooksAlwaysAgree`: cash and positions are the sums over the executed
  orders.
* **WorkforceProofs.** Reviews: the row alone is not inductive, since a write brings
  in an old copy: `CopiesGiven` and `CopiesScored` say of every copy what the
  theorems say of the row, and `CopiesCurrent` that a copy nobody overtook is the
  row. `SubmissionsSurvive`, `DerivedIsPresent` and the action property
  `UnaskedIsKept` follow, with one lemma for each step of the change.
  `StoredIsExplained` and `ChangesAreExplained` are about care schedules and
  timesheets. `CareInv` needs, besides types, that each count of the
  version stands for a write of the row (`WritesCounted`), that a copy as new as the
  hold shows it (`HoldShown`), and while nothing failed `CareFresh`: the save that made
  a reader's copy out of date has counted since or will (`ReadersBehind`,
  `ChecksCaught`), and a copy that is filled or cached all the same is on record
  (`FillsExplained`, `CopyStale`). `SheetInv` says that a review under way read a sheet
  that was not approved (`ReviewsOpen`), and that what was in the way of a submission
  that listed it is rejected, unless approved since (`ListedStored`,
  `ListedCleared`).
* **WorkerJobsProofs.** Alerts: `NoAlertSkipped` needs `Remembered` (an entry of a map
  stands for a served post) and `AttemptServes` (an attempt without errors has
  served the targets it passed). `RepeatsAreExplained` needs `Fresh`: an event that
  may still be delivered by this process has been served only as often as answers
  were lost or the maps were emptied, one less than the bound. `StreamsAreAccounted`
  counts the places of an incident in a channel, with lemmas on how appending to and
  taking from a sequence change that number. `AlertsAreAJob` carries the three over
  to the composition. `JobsAreAccounted`: for schedules, `Covered` adds to the claims
  those that may still come -- of every runner while the date has come, of the
  runners that have listed the row afterwards -- and says that the dates that came
  pay for them; claims without that addition are not inductive, since a runner that
  listed a row claims it after another has moved it. For reports, `MakerFits` says
  what a generation has done by the time it has come so far, and `MonthFits` where
  the files of a month may differ from each other (between the uploads) and from the
  row (until it is saved); each asker's step concerns its own month (`StepOf`), and
  two generations in one month are on record.

* **BackOfficeProofs.** `CertificatesAreExplained` needs `CertificateInv`: a renewal
  under way belongs to this hour and is about the generation made last
  (`RenewalUnderWay`), all earlier ones are used up while nothing was lost
  (`NothingLost`), and a reload sees times no later than what it reads afterwards
  (`ReloadOrdered`), which is why a swap in between is noticed. `FleetIsExplained`
  needs `FleetInv`: who has a log that is stored and not yet marked (`LogsTraced`,
  `LogsAnswered`), why it is stored once only (`LogsOnce`), and for every job which
  step of the worker its event has come to. `TicketsAreExplained` needs `TicketInv`: a
  ticket and its issue are linked in both directions (`IssuesLinked`, `IssuesOwned`),
  which is what the numbering of the two repositories is about, and every closing and
  every copy of a comment is accounted for by a call that was made or is in flight
  (`ClosingsTraced`, `CopiesTraced`). `AccountsAreExplained` rests on `AccountInv`.
  The payouts are inequalities that hold only when nobody works on the account;
  `PaidOnce` and `PaidInFull` say at each step of a closure what it has paid, sold and
  still carries, with the sum over all rows of the customer, and `OneAtATime` that
  without an overlap one request does so. An erasure walks through eight tables:
  `ErasureTraced` says of each table behind it, and of none before, that it is empty or
  was written later. One frame lemma per part (`MoneyRests`, `RecordsRest`,
  `GrantMoves`, `PapersMove`) covers what the other actions leave alone.

The proof of `AccountsAreExplained` failed at one conjunct of `DownloadsExplained`: it
said that a tax form without sales exists only while the sales count as scrubbed, and a
second erasure, which begins at the first table again, makes them count as not yet
scrubbed. With four requests TLC shows the case. The property now names an earlier
erasure as well.

The proof of `StoredIsExplained` failed at first, for a good reason: `CopyExplained`
did not hold. With three saves, one of them stalled, the version counter goes back,
and a copy older than the row is kept with nothing on record. The counter's fall is
now recorded as a fault, with its expiry, which has the same effect. The run keeps
two saves, which is as much as TLC explores in its time; that two are not enough for
this case is why the theorem matters.

Only model-checked: all liveness, which is beyond the prover. Every invariant the
passing runs check is a theorem.

## 5. What the models brought to light

Each of these is in the model as the code has it; the properties name them among
the causes they allow.

* **Portal access.** The customer portal ignores the CSRF token a registration
  answers with, and its writes are refused until the next login. A login refused by
  the rate limiter goes unnoticed, and the page goes on as the former customer. A
  read without a CSRF cookie is answered with one; if it arrives after a login, it
  replaces the login's cookie and the page is locked out. The employee portal has no
  login form and reads the cookie `csrf_token`, not `employee_csrf_token`, so its
  protected writes are refused. A portal that starts while Valkey is away keeps
  sessions in memory; sessions logged out then are valid again once it restarts
  with Valkey.
* **Tickets.** An acknowledgement from a watch reopens a ticket closed since it
  polled. Lists of open tickets are filtered after the page is cut.
* **Facilities.** Over PostgreSQL the phone's logs are never stored (the technician
  it names is no UUID), the portal's releases are refused by a CHECK, and its list
  of releases fails for want of a device type. The phone asks for OTA jobs at a path
  no route serves.
* **Closure and erasure.** A second closure may pay again after a dropped error; a
  deposit that overlaps a closure reopens the account; the certificate the portal
  shows lists four tables whatever was scrubbed.
* **Sagas.** internal-bll reports storage and sessions as taken away without a
  client for either. A repeated onboarding lifts the medical hold of the cat.
* **Portfolio cache.** Deposits and closures evict a key that no reader fills, so
  the portfolio stays as it was for its lifetime.
* **Welfare page.** When workforce-api fails, an old list, or none, becomes the page
  for its whole lifetime.
* **Executive reports.** The consumer looks for the month outside the payload of the
  event, so a request for any month makes the present one. The hourly check makes
  the report in the first hour of its month, and PostgreSQL keeps that row for good
  while the files show later figures. A report says "archived" although its uploads
  failed; seeded reports have no contents and download the present figures.
* **Backtests.** core-invest-api is built without a publisher: a requested backtest
  stays pending for ever.

## 6. Not modelled

Within the modelled components: link and access tokens and the webhook of the
bank; the endpoint that only hands out a CSRF token and the key between services;
price simulation, bars and the trade-update stream of the broker; malformed
requests; the status of an incident row, the ntfy push and search indexing; leave
requests and payroll runs (single inserts, and figures); the figures of reports and
statements. Money is in integers; the code computes in float64, and rounding is
outside these models. The fallback to an in-memory channel when RabbitMQ is
unreachable at start makes events vanish; it is a configuration, not a step.
Memory growth (the maps of the worker) is not modelled.

Not modelled at all: generated gRPC code, schema and deployment files (their
constraints are used where a module depends on them); service libraries; the
actions of the simulation driver, which call the modelled operations at random;
quotes, backtests and quant tools, which are simulated numbers; and what the clients
of Frappe, Nextcloud, Forgejo and Snipe-IT offer beyond the calls that are modelled.

## 7. Plan

Done: every component with state of its own that more than one request, process or
message can change is in a module; the clearing house is stated, refined and
proved.

Proved: every safety property of the runs `bank_ledger`, `ach_settlement`,
`session_store`, `mock_broker`, `order_execution`, `review_cycles`, `worker_jobs` and
`back_office`.

Left:

1. Abstract specifications: at-least-once delivery with a bound on repeats, refined
   by ACHSettlement and IncidentAlerts.
2. Compositions: OrderExecution with MockBroker in place of its free broker;
   RecurringDeposits feeding ACHSettlement; the hold of CareSchedules in place of
   the free hold of OrderExecution.
