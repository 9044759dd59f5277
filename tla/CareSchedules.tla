--------------------------- MODULE CareSchedules ----------------------------
(* The care schedule of one feline: the row in the workforce database, the *)
(* copy and the version counter in the query cache, and the portal pages   *)
(* of its keepers.  Loading a page and saving one are requests of several  *)
(* commands each, which interleave.                                        *)
EXTENDS Integers

CONSTANTS Keepers,
          TTLCareSchedule,
          MaxSaves      \* bound on the writes of the row

VARIABLES
    row,      \* the schedule: its hold, and the number of the write that made it
    heldAt,   \* the write that last set the hold (0: never)
    entry,    \* the cached schedule, or NoEntry
    version,  \* the version counter in the cache; absent reads as 0
    page,     \* what each keeper's page shows
    req,      \* each keeper's request
    faulty    \* history: a cache command failed, the counter was lost or went back,
              \* or a save was abandoned (one mishap besides counters that go back)

careVars == <<row, heldAt, entry, version, page, req, faulty>>

Rows == [n: 0..MaxSaves, hold: BOOLEAN]
NoEntry == [left |-> 0]
Entries == {NoEntry} \cup [left: 1..TTLCareSchedule, val: Rows, overtaken: BOOLEAN]
NoPage == [n |-> -1, hold |-> FALSE]
Idle == [pc |-> "idle"]

TypeOK ==
    /\ row \in Rows /\ heldAt \in 0..MaxSaves
    /\ entry \in Entries
    /\ version \in 0..MaxSaves
    /\ page \in [Keepers -> Rows \cup {NoPage}]
    /\ req \in [Keepers ->
                  {Idle} \cup [pc: {"start", "write", "toggle", "bump", "evict"}]
                  \cup [pc: {"read"}, ver: 0..MaxSaves]
                  \cup [pc: {"check", "fill"}, ver: 0..MaxSaves, val: Rows, overtaken: BOOLEAN]
                  \cup [pc: {"count"}, ver: 0..MaxSaves]]
    /\ faulty \in BOOLEAN

CareInit ==
    /\ row = [n |-> 0, hold |-> FALSE] /\ heldAt = 0
    /\ entry = NoEntry /\ version = 0
    /\ page = [k \in Keepers |-> NoPage]
    /\ req = [k \in Keepers |-> Idle]
    /\ faulty = FALSE

Fault == ~faulty /\ faulty' = TRUE

(* One cache command: done, or failed and its error discarded. *)
Command(done) == \/ done /\ faulty' = faulty
                 \/ Fault /\ UNCHANGED <<entry, version>>

At(k, pc) == req[k].pc = pc
Move(k, to) == req' = [req EXCEPT ![k] = to]
Live == entry.left > 0

-----------------------------------------------------------------------------
(* getCareSchedule: a hit answers at once. *)
GetCached(k) ==
    /\ At(k, "idle")
    /\ \/ /\ Live
          /\ page' = [page EXCEPT ![k] = entry.val]
          /\ UNCHANGED <<req, faulty>>
       \/ /\ ~Live
          /\ Move(k, [pc |-> "start"])
          /\ UNCHANGED <<page, faulty>>
       \/ /\ Fault
          /\ Move(k, [pc |-> "start"])
          /\ UNCHANGED page
    /\ UNCHANGED <<row, heldAt, entry, version>>

(* A miss: the version before the read; a failed Get leaves it 0. *)
GetStartVersion(k) ==
    /\ At(k, "start")
    /\ \/ Move(k, [pc |-> "read", ver |-> version]) /\ UNCHANGED faulty
       \/ Move(k, [pc |-> "read", ver |-> 0]) /\ Fault
    /\ UNCHANGED <<row, heldAt, entry, version, page>>

(* GetCareScheduleByFelineID. *)
ReadSchedule(k) ==
    /\ At(k, "read")
    /\ Move(k, [pc |-> "check", ver |-> req[k].ver, val |-> row, overtaken |-> FALSE])
    /\ UNCHANGED <<row, heldAt, entry, version, page, faulty>>

(* The call failed: 404, nothing is cached. *)
ReadFailed(k) ==
    /\ At(k, "read")
    /\ Move(k, Idle)
    /\ UNCHANGED <<row, heldAt, entry, version, page, faulty>>

(* Mutant: the copy is cached whatever the version. *)
FillUnchecked(k) ==
    /\ At(k, "check")
    /\ Move(k, [req[k] EXCEPT !.pc = "fill"])
    /\ UNCHANGED <<row, heldAt, entry, version, page, faulty>>

(* The version after the read: the copy is cached only if it is the same. *)
CheckVersion(k) ==
    /\ At(k, "check")
    /\ \E cur \in {version, 0} :
          /\ IF cur = version THEN UNCHANGED faulty ELSE Fault
          /\ IF cur = req[k].ver
             THEN /\ Move(k, [req[k] EXCEPT !.pc = "fill"])
                  /\ UNCHANGED page
             ELSE /\ Move(k, Idle)
                  /\ page' = [page EXCEPT ![k] = req[k].val]
    /\ UNCHANGED <<row, heldAt, entry, version>>

(* Set: the canonical key, and the alias keys that nothing reads. *)
FillSchedule(k) ==
    /\ At(k, "fill")
    /\ Command(/\ entry' = [left |-> TTLCareSchedule, val |-> req[k].val,
                            overtaken |-> req[k].overtaken]
               /\ UNCHANGED version)
    /\ page' = [page EXCEPT ![k] = req[k].val]
    /\ Move(k, Idle)
    /\ UNCHANGED <<row, heldAt>>

-----------------------------------------------------------------------------
(* The keeper saves the form, or issues or clears the hold, from the page. *)
SubmitForm(k) ==
    /\ At(k, "idle") /\ page[k] # NoPage /\ row.n < MaxSaves
    /\ \E pc \in {"write", "toggle"} : Move(k, [pc |-> pc])
    /\ UNCHANGED <<row, heldAt, entry, version, page, faulty>>

(* The row after a write with hold h. *)
Written(h) == [n |-> row.n + 1, hold |-> h]
HeldSince(h) == IF h /\ ~row.hold THEN row.n + 1 ELSE heldAt

(* UpsertCareSchedule writes every column, the hold of the form included. *)
UpsertCareSchedule(k) ==
    /\ At(k, "write") /\ row.n < MaxSaves
    /\ row' = Written(page[k].hold)
    /\ heldAt' = HeldSince(page[k].hold)
    /\ Move(k, [pc |-> "bump"])
    /\ UNCHANGED <<entry, version, page, faulty>>

(* Mutant: the server inverts the hold it finds. *)
InvertMedicalHold(k) ==
    /\ At(k, "toggle") /\ row.n < MaxSaves
    /\ row' = Written(~row.hold)
    /\ heldAt' = HeldSince(~row.hold)
    /\ Move(k, [pc |-> "bump"])
    /\ UNCHANGED <<entry, version, page, faulty>>

(* SetEmergencyMedicalHold writes the hold alone; the page asks for the    *)
(* opposite of what it shows.                                              *)
SetEmergencyMedicalHold(k) ==
    /\ At(k, "toggle") /\ row.n < MaxSaves
    /\ row' = Written(~page[k].hold)
    /\ heldAt' = HeldSince(~page[k].hold)
    /\ Move(k, [pc |-> "bump"])
    /\ UNCHANGED <<entry, version, page, faulty>>

(* The call failed: an error, and the cache is left alone. *)
WriteFailed(k) ==
    /\ req[k].pc \in {"write", "toggle"}
    /\ Move(k, Idle)
    /\ UNCHANGED <<row, heldAt, entry, version, page, faulty>>

(* The version is read and written back plus one in two commands: a save   *)
(* that stalls between them sets back what later saves have counted, ...   *)
ReadVersion(k) ==
    /\ At(k, "bump")
    /\ \/ Move(k, [pc |-> "count", ver |-> version]) /\ UNCHANGED faulty
       \/ Move(k, [pc |-> "count", ver |-> 0]) /\ Fault
    /\ UNCHANGED <<row, heldAt, entry, version, page>>

BumpVersion(k) ==
    /\ At(k, "count")
    /\ \/ /\ version' = req[k].ver + 1
          /\ faulty' = (faulty \/ version' < version)
       \/ Fault /\ UNCHANGED version
    /\ Move(k, [pc |-> "evict"])
    /\ UNCHANGED <<row, heldAt, entry, page>>

(* ... then the copies are deleted and the page shows the saved row.  A    *)
(* reader past its version check will not notice.                          *)
EvictSchedule(k) ==
    /\ At(k, "evict")
    /\ Command(entry' = NoEntry /\ UNCHANGED version)
    /\ req' = [j \in Keepers |-> IF j = k THEN Idle
                                 ELSE IF At(j, "fill") THEN [req[j] EXCEPT !.overtaken = TRUE]
                                 ELSE req[j]]
    /\ page' = [page EXCEPT ![k] = row]
    /\ UNCHANGED <<row, heldAt>>

(* The portal ends between the row and the eviction. *)
Abandon(k) ==
    /\ req[k].pc \in {"bump", "count", "evict"}
    /\ Move(k, Idle)
    /\ Fault
    /\ UNCHANGED <<row, heldAt, entry, version, page>>

CareTick ==
    /\ Live
    /\ entry' = IF entry.left = 1 THEN NoEntry ELSE [entry EXCEPT !.left = @ - 1]
    /\ UNCHANGED <<row, heldAt, version, page, req, faulty>>

(* The counter has a time to live of its own, which the saves renew. *)
ExpireVersion ==
    /\ version > 0
    /\ version' = 0
    /\ Fault
    /\ UNCHANGED <<row, heldAt, entry, page, req>>

Load(k) == \/ GetCached(k) \/ GetStartVersion(k) \/ ReadSchedule(k) \/ ReadFailed(k)
           \/ CheckVersion(k) \/ FillSchedule(k)
Save(k) == \/ SubmitForm(k) \/ UpsertCareSchedule(k) \/ SetEmergencyMedicalHold(k)
           \/ WriteFailed(k) \/ ReadVersion(k) \/ BumpVersion(k) \/ EvictSchedule(k)
           \/ Abandon(k)
CareNext == (\E k \in Keepers : Load(k) \/ Save(k)) \/ CareTick \/ ExpireVersion

CareSpec == CareInit /\ [][CareNext]_careVars

-----------------------------------------------------------------------------
(* As long as every cache command is carried out and the counter never     *)
(* goes back, a cached schedule that is out of date belongs to a save that *)
(* has not evicted yet, or was set by a reader which a save overtook       *)
(* between the version check and the Set: two saves that read the same     *)
(* version and lose one of the two increments add no other way             *)
(* (getCareSchedule, updateCareSchedule).                                  *)
CopyExplained ==
    ~faulty /\ Live /\ entry.val # row =>
        \/ entry.overtaken
        \/ \E k \in Keepers : req[k].pc \in {"bump", "count", "evict"}

(* An emergency medical hold is lifted only by a keeper whose page showed  *)
(* it and who cleared it, or by saving a form loaded before the hold was   *)
(* set; two keepers who both issue it never cancel each other              *)
(* (UpsertCareSchedule, SetEmergencyMedicalHold).                          *)
HoldLiftExplained ==
    [][row.hold /\ ~row'.hold =>
          \E k \in Keepers :
             \/ At(k, "toggle") /\ req'[k].pc = "bump" /\ page[k].hold
             \/ At(k, "write") /\ req'[k].pc = "bump" /\ page[k].n < heldAt]_careVars
=============================================================================
