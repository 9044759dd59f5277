---------------------------- MODULE Transparency ----------------------------
(***************************************************************************)
(* The welfare page of the customer portal: the cats at work, how their    *)
(* veterinary records say they are, and a score that falls with every      *)
(* incident.  The portal keeps the page in its query cache; behind it      *)
(* customer-bll keeps the list of cats and the list of records, each for   *)
(* half a minute and each under a lock held while workforce is asked.      *)
(* Nothing evicts any of the three: only time does.                        *)
(*                                                                         *)
(* A visit is its day and its dental score.  Constant lines of the page    *)
(* and the numbers made from a cat's health are left out.                  *)
(***************************************************************************)
EXTENDS Integers, FiniteSets

CONSTANTS Cats, Viewers,
          ListTTL,      \* the 30 seconds of customer-bll's two lists
          PageTTL,      \* TTLESGMetrics
          MaxSlow,      \* ticks that may pass while a request is under way
          MaxEvents     \* changes at work, and failed calls

VARIABLES
    active,    \* cats on the payroll, and for how long that has been so
    visits,    \* veterinary records, and the age of the last one
    incidents, \* incidents ever reported, and the age of the last one
    lists,     \* felinesCached and vhrCached of customer-bll
    holder,    \* who holds felineCacheMu and vhrCacheMu
    viewer,    \* requests for the page
    welfare,   \* the page in the query cache
    happened

pageVars == <<active, visits, incidents, lists, holder, viewer, welfare, happened>>

Kinds == {"cats", "records"}
Nobody == "nobody"
Days == 0..1
Scores == {0, 3, 4}    \* of 0 to 5
Forms == {{}} \cup {{n} : n \in Scores}    \* the score of a form, if it gives one
Visit == [day: Days, score: Scores \ {0}]
Health == {"none", "good", "poor"}

(* The longest a change can take to show: a page of PageTTL made from      *)
(* lists of ListTTL, each of them late by the request that made it.        *)
Lag == (PageTTL - 1 + MaxSlow) + (ListTTL - 1 + MaxSlow)
Old == Lag + 1
Older(age) == IF age = Old THEN Old ELSE age + 1

NoCopy == [known |-> FALSE, cats |-> {}, health |-> [c \in Cats |-> "none"], age |-> 0]
Copy == [known: BOOLEAN, cats: SUBSET Cats, health: [Cats -> Health], age: 0..ListTTL]
Reasons == {"no", "old"} \X (Kinds \cup {"incidents"})   \* a call failed: none, or an old list
NoPage == [left |-> 0, cats |-> {}, health |-> [c \in Cats |-> "none"], score |-> 0, why |-> {}]
Idle == [at |-> "idle", step |-> "want", got |-> NoCopy, page |-> NoPage, slow |-> 0]

PageTypeOK ==
    /\ active \in [Cats -> [now: BOOLEAN, since: 0..Old]]
    /\ visits \in [Cats -> [all: SUBSET Visit, since: 0..Old]]
    /\ incidents \in [count: 0..MaxEvents, since: 0..Old]
    /\ lists \in [Kinds -> Copy]
    /\ holder \in [Kinds -> Viewers \cup {Nobody}]
    /\ viewer \in [Viewers -> [at: {"idle", "cats", "records", "incidents", "fill"},
                               step: {"want", "called", "answered"}, got: Copy,
                               page: [left: {0}, cats: SUBSET Cats, health: [Cats -> Health],
                                      score: 0..MaxEvents, why: SUBSET Reasons],
                               slow: 0..MaxSlow]]
    /\ welfare \in [left: 0..PageTTL, cats: SUBSET Cats, health: [Cats -> Health],
                    score: 0..MaxEvents, why: SUBSET Reasons]
    /\ happened \in 0..MaxEvents

PageInit ==
    /\ active = [c \in Cats |-> [now |-> TRUE, since |-> Old]]
    /\ visits = [c \in Cats |-> [all |-> {}, since |-> Old]]
    /\ incidents = [count |-> 0, since |-> Old]
    /\ lists = [k \in Kinds |-> NoCopy]
    /\ holder = [k \in Kinds |-> Nobody]
    /\ viewer = [v \in Viewers |-> Idle]
    /\ welfare = NoPage
    /\ happened = 0

Happens == happened < MaxEvents /\ happened' = happened + 1

-----------------------------------------------------------------------------
(* What happens at work. *)
UpdateEmployeeStatus(c) ==
    /\ Happens
    /\ active' = [active EXCEPT ![c] = [now |-> ~@.now, since |-> 0]]
    /\ UNCHANGED <<visits, incidents, lists, holder, viewer, welfare>>

(* The date is the veterinarian's, so a record may come in after a later   *)
(* one.  A score left out of the form is a 0, which the service refuses.   *)
StoreVisit(c, visit) ==
    visits' = [visits EXCEPT ![c] = [all |-> @.all \cup {visit}, since |-> 0]]
ValidScore(score) == score \in 1..5
CreateVHRRecord(c, day, score) ==
    /\ ValidScore(score) /\ Happens
    /\ StoreVisit(c, [day |-> day, score |-> score])
    /\ UNCHANGED <<active, incidents, lists, holder, viewer, welfare>>
createVHRRecord(c, day, form) ==
    CreateVHRRecord(c, day, IF form = {} THEN 0 ELSE CHOOSE s \in form : TRUE)

(* An incident stays in the list whatever becomes of it.  One without a    *)
(* title or a description is refused.                                      *)
StoreIncident == incidents' = [count |-> incidents.count + 1, since |-> 0]
CreateWorkplaceIncident(filled) ==
    /\ filled /\ Happens
    /\ StoreIncident
    /\ UNCHANGED <<active, visits, lists, holder, viewer, welfare>>
createIncident == \E filled \in BOOLEAN : CreateWorkplaceIncident(filled)

-----------------------------------------------------------------------------
(* What workforce answers.  Records come latest day first; of one day, in  *)
(* any order, and the first of a cat decides.                              *)
ListEmployees == {c \in Cats : active[c].now}
Latest(c) ==
    IF visits[c].all = {} THEN {"none"}
    ELSE {IF w.score >= 4 THEN "good" ELSE "poor" :
            w \in {v \in visits[c].all : \A u \in visits[c].all : u.day <= v.day}}
ListWorkplaceIncidents == incidents.count
ListVHRRecords == {h \in [Cats -> Health] : \A c \in Cats : h[c] \in Latest(c)}
Answers(k) ==
    IF k = "cats"
    THEN {[NoCopy EXCEPT !.known = (ListEmployees # {}), !.cats = ListEmployees]}
    ELSE {[NoCopy EXCEPT !.known = TRUE, !.health = h] : h \in ListVHRRecords}

(* An empty list of cats counts as none cached; a map of records that is   *)
(* empty does not.                                                         *)
FreshCopy(k) == lists[k].known /\ lists[k].age < ListTTL

(* What a request goes on with after a list. *)
After(k) == IF k = "cats" THEN "records" ELSE "incidents"
Noted(page, k, copy, why) ==
    [page EXCEPT !.cats = IF k = "cats" THEN copy.cats ELSE @,
                 !.health = IF k = "records" THEN copy.health ELSE @,
                 !.why = @ \cup why]
GoesOn(v, k, copy, why) ==
    viewer' = [viewer EXCEPT ![v].at = After(k), ![v].step = "want", ![v].got = NoCopy,
                             ![v].page = Noted(@, k, copy, why)]

(* A list from the cache, or from workforce while the lock is held.  When  *)
(* workforce fails an old list serves again, however old.                  *)
Fetch(v, k) ==
    /\ viewer[v].at = k
    /\ \/ /\ viewer[v].step = "want" /\ holder[k] = Nobody
          /\ IF FreshCopy(k)
             THEN GoesOn(v, k, lists[k], {}) /\ UNCHANGED holder
             ELSE /\ holder' = [holder EXCEPT ![k] = v]
                  /\ viewer' = [viewer EXCEPT ![v].step = "called"]
          /\ UNCHANGED <<lists, happened>>
       \/ /\ viewer[v].step = "called"
          /\ \E a \in Answers(k) :
                viewer' = [viewer EXCEPT ![v].step = "answered", ![v].got = a]
          /\ UNCHANGED <<lists, holder, happened>>
       \/ /\ viewer[v].step = "called" /\ Happens
          /\ holder' = [holder EXCEPT ![k] = Nobody]
          /\ GoesOn(v, k, IF lists[k].known THEN lists[k] ELSE NoCopy,
                    {<<IF lists[k].known THEN "old" ELSE "no", k>>})
          /\ UNCHANGED lists
       \/ /\ viewer[v].step = "answered"
          /\ lists' = [lists EXCEPT ![k] = viewer[v].got]
          /\ holder' = [holder EXCEPT ![k] = Nobody]
          /\ GoesOn(v, k, viewer[v].got, {})
          /\ UNCHANGED happened
    /\ UNCHANGED <<active, visits, incidents, welfare>>
getActiveFelines(v) == Fetch(v, "cats")
getVHRRecordsByFeline(v) == Fetch(v, "records")

(* The incidents are asked for every time; when that fails there are none. *)
GetESGTransparency(v) ==
    /\ viewer[v].at = "incidents"
    /\ \/ /\ viewer' = [viewer EXCEPT ![v].at = "fill", ![v].page.score = ListWorkplaceIncidents]
          /\ UNCHANGED happened
       \/ /\ Happens
          /\ viewer' = [viewer EXCEPT ![v].at = "fill",
                                      ![v].page.why = @ \cup {<<"no", "incidents">>}]
    /\ UNCHANGED <<active, visits, incidents, lists, holder, welfare>>

-----------------------------------------------------------------------------
(* handleGetESGTransparency: the cached page, or a new one.  The cache     *)
(* may fail to answer or to store.                                         *)
Ask(v) ==
    /\ viewer[v] = Idle
    /\ \/ welfare.left > 0 /\ UNCHANGED <<viewer, happened>>
       \/ /\ viewer' = [viewer EXCEPT ![v].at = "cats"]
          /\ IF welfare.left = 0 THEN UNCHANGED happened ELSE Happens
    /\ UNCHANGED <<active, visits, incidents, lists, holder, welfare>>

(* buildFelineExecutiveSummary: only cats of the list have a summary. *)
Summary(page, c) == IF c \in page.cats THEN page.health[c] ELSE "none"

Fill(v) ==
    /\ viewer[v].at = "fill"
    /\ \/ /\ welfare' = [viewer[v].page EXCEPT
                            !.left = PageTTL,
                            !.health = [c \in Cats |-> Summary(viewer[v].page, c)]]
          /\ UNCHANGED happened
       \/ Happens /\ UNCHANGED welfare
    /\ viewer' = [viewer EXCEPT ![v] = Idle]
    /\ UNCHANGED <<active, visits, incidents, lists, holder>>

(* Time passes; a request is answered before long. *)
Tick ==
    /\ \A v \in Viewers : viewer[v].at # "idle" => viewer[v].slow < MaxSlow
    /\ active' = [c \in Cats |-> [active[c] EXCEPT !.since = Older(@)]]
    /\ visits' = [c \in Cats |-> [visits[c] EXCEPT !.since = Older(@)]]
    /\ incidents' = [incidents EXCEPT !.since = Older(@)]
    /\ lists' = [k \in Kinds |-> [lists[k] EXCEPT !.age = IF @ < ListTTL THEN @ + 1 ELSE @]]
    /\ viewer' = [v \in Viewers |-> IF viewer[v].at = "idle" THEN viewer[v]
                                    ELSE [viewer[v] EXCEPT !.slow = @ + 1]]
    /\ welfare' = IF welfare.left > 1 THEN [welfare EXCEPT !.left = @ - 1] ELSE NoPage
    /\ UNCHANGED <<holder, happened>>

PageNext ==
    \/ \E c \in Cats : UpdateEmployeeStatus(c)
                       \/ \E d \in Days, form \in Forms : createVHRRecord(c, d, form)
    \/ createIncident
    \/ \E v \in Viewers : Ask(v) \/ getActiveFelines(v) \/ getVHRRecordsByFeline(v)
                          \/ GetESGTransparency(v) \/ Fill(v)
    \/ Tick

-----------------------------------------------------------------------------
Shown == welfare.left > 0
Excused(k) == \E w \in welfare.why : w[2] = k

(* Two layers of caches in a row (customer-bll's lists, the portal's       *)
(* page): a cat that has worked, or has been gone, for longer than both    *)
(* can lag is on the page, or off it.  Otherwise workforce failed, and the *)
(* list was an old one or none at all, which is then the page for its      *)
(* whole time.                                                             *)
CatsShown ==
    Shown => \A c \in Cats :
        active[c].since = Old /\ ~Excused("cats") =>
            (c \in welfare.cats <=> active[c].now)

(* The same for what the page says of a cat's health, which comes from     *)
(* another list of another age.                                            *)
HealthShown ==
    Shown => \A c \in welfare.cats :
        visits[c].since = Old /\ ~Excused("records") =>
            welfare.health[c] \in Latest(c)

(* A score better than the incidents warrant is younger than the page, or  *)
(* comes from a failed call, which counts as no incident.                  *)
ScoreShown ==
    Shown => /\ welfare.score <= incidents.count
             /\ incidents.since > PageTTL - 1 + MaxSlow /\ ~Excused("incidents") =>
                    welfare.score = incidents.count

(* Nobody waits for a lock that is not held by a call under way. *)
LocksHeld ==
    \A k \in Kinds : holder[k] # Nobody =>
        viewer[holder[k]].at = k /\ viewer[holder[k]].step \in {"called", "answered"}

WelfareExplained == PageTypeOK /\ CatsShown /\ HealthShown /\ ScoreShown /\ LocksHeld
=============================================================================
