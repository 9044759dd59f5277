----------------------------- MODULE Facilities -----------------------------
(***************************************************************************)
(* The hardware of the habitats: assets, the maintenance logs technicians  *)
(* write on a phone that may be offline, firmware releases and their       *)
(* over-the-air rollout, and the telemetry of the zones.                   *)
(*                                                                         *)
(* An asset is its serial number and a release its version; models, notes  *)
(* and measured values are left out.                                       *)
(***************************************************************************)
EXTENDS Integers, Sequences, FiniteSets, SequencesExt

CONSTANTS Serials,     \* serial numbers of assets to be created
          Versions,    \* versions of firmware to be released
          Entries,     \* logs written on the phone
          Zones,       \* zones whose telemetry arrives
          MaxRequests, \* requests of the portal, and logs written
          MaxJobs,     \* rollouts, one per asset
          MaxFaults    \* failures, each of another kind

ASSUME FacilitiesAssumption ==
    /\ IsFiniteSet(Serials) /\ "desk" \notin Entries
    /\ MaxRequests \in Nat /\ MaxJobs \in Nat /\ MaxFaults \in Nat

VARIABLES
    fleet,       \* PostgreSQL, the map of the tests, or no facilities service
    assets,      \* hardware_assets
    releases,    \* firmware_releases
    jobs,        \* device_ota_jobs, oldest first
    event,       \* ota_triggered of a job: on its way, or what became of it
    completions, \* ota_completed published for a job
    phone,       \* maintenance_logs of the phone
    sync,        \* the synchronisations of the phone under way
    logs,        \* how often a log was stored in maintenance_logs
    overlapped,  \* two synchronisations sent the same log
    samples,     \* environmental_telemetry, rows by zone
    faults, requests

otaVars == <<releases, jobs, event, completions>>
logVars == <<phone, sync, logs, overlapped>>
fleetVars == <<fleet, assets, otaVars, logVars, samples, faults, requests>>

Syncs == {"form", "home"}
Seeded == "seeded"
Job == [asset: Serials \cup {Seeded}, release: Versions \cup {Seeded},
        status: {"queued", "pending", "completed"}]
Idle == [step |-> "idle", batch |-> {}]

FacilitiesTypeOK ==
    /\ fleet \in {"pgx", "map", "none"}
    /\ assets \subseteq Serials \cup {Seeded}
    /\ releases \subseteq Versions \cup {Seeded}
    /\ jobs \in Seq(Job) /\ Len(jobs) <= MaxJobs
    /\ event \in [1..MaxJobs -> {"none", "queued", "updated", "lost", "done"}]
    /\ completions \in [1..MaxJobs -> Nat]
    /\ phone \in [Entries -> {"none", "unsynced", "synced"}]
    /\ sync \in [Syncs -> [step: {"idle", "post", "answered", "failed"},
                           batch: SUBSET Entries]]
    /\ logs \in [Entries \cup {"desk"} -> Nat]
    /\ samples \in [Zones -> Nat]

(* PostgreSQL starts with the seeds, the map with nothing. *)
FacilitiesInit ==
    /\ fleet \in {"pgx", "map", "none"}
    /\ assets = IF fleet = "pgx" THEN {Seeded} ELSE {}
    /\ releases = IF fleet = "pgx" THEN {Seeded} ELSE {}
    /\ jobs = <<>> /\ event = [j \in 1..MaxJobs |-> "none"]
    /\ completions = [j \in 1..MaxJobs |-> 0]
    /\ phone = [e \in Entries |-> "none"] /\ sync = [s \in Syncs |-> Idle]
    /\ logs = [e \in Entries \cup {"desk"} |-> 0] /\ overlapped = FALSE
    /\ samples = [z \in Zones |-> 0]
    /\ faults = {} /\ requests = 0

Requests == requests < MaxRequests /\ requests' = requests + 1
Fault(f) == /\ f \notin faults /\ Cardinality(faults) < MaxFaults
            /\ faults' = faults \cup {f}

-----------------------------------------------------------------------------
(* Assets.  The portal passes on what it is given; the service asks for a  *)
(* serial number and a type.                                               *)
AssetForm == [serial: Serials \cup {""}, type: {"edge_camera", "drone", ""},
              zone: {"", "known", "name"}]
ValidAsset(f) == f.serial # "" /\ f.type # ""

(* The table: the serial number is UNIQUE, the type one of a CHECK, the    *)
(* zone the id of a row.                                                   *)
InsertAsset(f) ==
    /\ f.serial \notin assets /\ f.type # "drone" /\ f.zone # "name"
    /\ assets' = assets \cup {f.serial}

(* Every asset of the map is created under the same id. *)
MapAsset(f) == assets' = {f.serial}

RPCCreateAsset(f) == IF fleet = "pgx" THEN InsertAsset(f) ELSE MapAsset(f)
BLLCreateAsset(f) == fleet # "none" /\ RPCCreateAsset(f)

CreateAsset(f) ==
    /\ Requests
    /\ ValidAsset(f)
    /\ BLLCreateAsset(f)
    /\ UNCHANGED <<fleet, otaVars, logVars, samples, faults>>

(* The map shows six assets of its own while it has none. *)
AssetRows == assets
MapAssets == IF assets = {} THEN {Seeded} ELSE assets
ListAssets == IF fleet = "pgx" THEN AssetRows ELSE MapAssets
RPCListAssets == ListAssets
PortalListAssets == IF fleet = "none" THEN {} ELSE RPCListAssets

(* One asset: an unknown id is an error, or a camera the map makes up. *)
AssetRow(a) == a \in assets
MapAssetRow(a) == TRUE
GetAsset(a) == a # "" /\ IF fleet = "pgx" THEN AssetRow(a) ELSE MapAssetRow(a)

-----------------------------------------------------------------------------
(* Maintenance logs of the phone. *)
SaveLog(e) ==
    /\ Requests
    /\ phone[e] = "none"
    /\ phone' = [phone EXCEPT ![e] = "unsynced"]
    /\ UNCHANGED <<fleet, assets, otaVars, sync, logs, overlapped, samples, faults>>

UnsyncedLogs == {e \in Entries : phone[e] = "unsynced"}

(* Two screens start one, and nothing keeps them apart. *)
SyncPendingLogs(s) ==
    /\ sync[s] = Idle /\ UnsyncedLogs # {}
    /\ sync' = [sync EXCEPT ![s] = [step |-> "post", batch |-> UnsyncedLogs]]
    /\ overlapped' = (overlapped \/ \E t \in Syncs : sync[t].batch \cap UnsyncedLogs # {})
    /\ UNCHANGED <<fleet, assets, otaVars, phone, logs, samples, faults, requests>>

(* A log of a batch: what the asset is, and whether the technician's id is *)
(* one of the workforce.  The phone's is the name emp-human-bob, and its   *)
(* own id of the log is not sent.                                          *)
Line(e, asset, technician) == [entry |-> e, asset |-> asset, technician |-> technician]
ToJSON(batch) == {Line(e, Seeded, "name") : e \in batch}

(* One INSERT stores all lines or none. *)
BatchInsert(lines) ==
    IF \E l \in lines : l.asset \notin assets \/ l.technician = "name" THEN {}
    ELSE {l.entry : l \in lines}
MapInsert(lines) == {l.entry : l \in lines}

SyncMaintenanceLogs(lines) ==
    IF lines = {} \/ \E l \in lines : l.asset = "" THEN {}
    ELSE IF fleet = "pgx" THEN BatchInsert(lines) ELSE MapInsert(lines)
RPCSyncOfflineLogs(lines) == SyncMaintenanceLogs(lines)
BLLSyncOfflineLogs(lines) == IF fleet = "none" THEN {} ELSE RPCSyncOfflineLogs(lines)
SyncLogs(lines) == BLLSyncOfflineLogs(lines)

Stored(S) == logs' = [e \in DOMAIN logs |-> IF e \in S THEN logs[e] + 1 ELSE logs[e]]

(* The batch arrives; the answer may not. *)
PostLogs(s) ==
    LET stored == SyncLogs(ToJSON(sync[s].batch))
    IN /\ sync[s].step = "post"
       /\ Stored(stored)
       /\ \/ /\ sync' = [sync EXCEPT ![s].step = IF stored = {} THEN "failed" ELSE "answered"]
             /\ UNCHANGED faults
          \/ sync' = [sync EXCEPT ![s].step = "failed"] /\ Fault("answer")
       /\ UNCHANGED <<fleet, assets, otaVars, phone, overlapped, samples, requests>>

MarkAsSynced(s) ==
    /\ sync[s].step \in {"answered", "failed"}
    /\ phone' = [e \in Entries |-> IF e \in sync[s].batch /\ sync[s].step = "answered"
                                   THEN "synced" ELSE phone[e]]
    /\ sync' = [sync EXCEPT ![s] = Idle]
    /\ UNCHANGED <<fleet, assets, otaVars, logs, overlapped, samples, faults, requests>>

(* The app is closed with a synchronisation under way. *)
CloseApp ==
    /\ \E s \in Syncs : sync[s] # Idle
    /\ sync' = [s \in Syncs |-> Idle]
    /\ Fault("closed")
    /\ UNCHANGED <<fleet, assets, otaVars, phone, logs, overlapped, samples, requests>>

(* A log typed at a desk, with the id of a technician. *)
DeskLog(asset) ==
    LET stored == SyncLogs({Line("desk", asset, "id")})
    IN /\ Requests
       /\ Stored(stored)
       /\ UNCHANGED <<fleet, assets, otaVars, phone, sync, overlapped, samples, faults>>

LogRows(e) == logs[e]
MapLogs(e) == IF logs[e] = 0 THEN 1 ELSE logs[e]
ListMaintenanceLogs(e) == IF fleet = "pgx" THEN LogRows(e) ELSE MapLogs(e)

-----------------------------------------------------------------------------
(* Firmware.  The portal releases as "available", which the table's CHECK  *)
(* does not know; it asks for the list without the device type the service *)
(* wants.                                                                  *)
PortalStatus == "available"
InsertRelease(v, status) ==
    /\ v \notin releases /\ status \in {"draft", "published", "deprecated"}
    /\ releases' = releases \cup {v}
MapRelease(v) == releases' = releases \cup {v}
RPCCreateFirmware(v, status) ==
    IF fleet = "pgx" THEN InsertRelease(v, status) ELSE MapRelease(v)
ValidRelease(v, url) == url # ""

(* Without an address of the file, the id of the release is sent for it. *)
CreateFirmware(v, url, id) ==
    /\ Requests
    /\ ValidRelease(v, IF url = "" THEN id ELSE url)
    /\ fleet # "none"
    /\ RPCCreateFirmware(v, PortalStatus)
    /\ UNCHANGED <<fleet, assets, jobs, event, completions, logVars, samples, faults>>

ReleaseRows(type) == releases
MapReleases(type) == IF releases = {} THEN {Seeded} ELSE releases
ServiceReleases(type) ==
    IF type = "" THEN {"error"}
    ELSE IF fleet = "pgx" THEN ReleaseRows(type) ELSE MapReleases(type)
RPCListFirmware(type) == ServiceReleases(type)
PortalListFirmware == IF fleet = "none" THEN {} ELSE RPCListFirmware("")

-----------------------------------------------------------------------------
(* Rollout.  The rows are inserted in one batch, all or none; without the  *)
(* service internal-bll makes the jobs up.                                 *)
NewJobs(A, v, status) ==
    LET order == SetToSeq(A)
    IN [i \in DOMAIN order |-> [asset |-> order[i], release |-> v, status |-> status]]
InsertJobs(A, v) ==
    IF A \subseteq assets /\ v \in releases THEN NewJobs(A, v, "pending") ELSE <<>>
MapJobs(A, v) == NewJobs(A, v, "pending")
TriggerOTAUpdate(A, v) == IF fleet = "pgx" THEN InsertJobs(A, v) ELSE MapJobs(A, v)
RPCCreateOTAJob(A, v) == TriggerOTAUpdate(A, v)
MadeUpJobs(A, v) == NewJobs(A, v, "queued")

(* One ota_triggered for each job; the error of a publish is dropped. *)
TriggerOTARollout(A, v) ==
    LET new == IF fleet = "none" THEN MadeUpJobs(A, v) ELSE RPCCreateOTAJob(A, v)
        born == (Len(jobs) + 1)..(Len(jobs) + Len(new))
    IN /\ new # <<>> /\ Len(jobs) + Len(new) <= MaxJobs
       /\ jobs' = jobs \o new
       /\ \E L \in SUBSET born :
             /\ event' = [j \in 1..MaxJobs |-> IF j \in L THEN "lost"
                                               ELSE IF j \in born THEN "queued" ELSE event[j]]
             /\ IF L = {} THEN UNCHANGED faults ELSE Fault("publish")
TriggerOTA(A, v) ==
    /\ Requests
    /\ A # {}
    /\ TriggerOTARollout(A, v)
    /\ UNCHANGED <<fleet, assets, releases, completions, logVars, samples>>

(* UPDATE of the row, in whatever state it is.  All jobs of the map have   *)
(* one id: the first job of some asset is the one found.                   *)
UpdateJobRow(j) == jobs' = [jobs EXCEPT ![j].status = "completed"]
UpdateMapJob ==
    \E j \in DOMAIN jobs :
        /\ \A k \in 1..(j - 1) : jobs[k].asset # jobs[j].asset
        /\ jobs' = [jobs EXCEPT ![j].status = "completed"]
RPCUpdateOTAJobStatus(j) == IF fleet = "pgx" THEN UpdateJobRow(j) ELSE UpdateMapJob
BLLUpdateOTAJobStatus(j) == fleet # "none" /\ RPCUpdateOTAJobStatus(j)

(* Mutant: a failed update is logged, and the rollout reported complete. *)
HandleOTATriggeredLogs(j) ==
    /\ event[j] = "queued"
    /\ \/ BLLUpdateOTAJobStatus(j) /\ UNCHANGED faults
       \/ UNCHANGED jobs /\ Fault("update")
    /\ event' = [event EXCEPT ![j] = "updated"]
    /\ UNCHANGED <<fleet, assets, releases, completions, logVars, samples, requests>>

(* The worker downloads, applies and reboots in its log only; the job is   *)
(* complete when internal-bll says so.  An error leaves the event queued.  *)
HandleOTATriggered(j) ==
    /\ event[j] = "queued"
    /\ \/ /\ BLLUpdateOTAJobStatus(j) /\ UNCHANGED faults
          /\ event' = [event EXCEPT ![j] = "updated"]
       \/ Fault("update") /\ UNCHANGED <<jobs, event>>
    /\ UNCHANGED <<fleet, assets, releases, completions, logVars, samples, requests>>

(* The router publishes ota_completed and acknowledges; when the worker    *)
(* stops, or the publish fails, the event is delivered again.              *)
CompleteOTA(j) ==
    /\ event[j] = "updated"
    /\ \/ /\ event' = [event EXCEPT ![j] = "done"] /\ UNCHANGED faults
          /\ completions' = [completions EXCEPT ![j] = @ + 1]
       \/ /\ event' = [event EXCEPT ![j] = "queued"] /\ Fault("worker")
          /\ \E n \in {0, 1} : completions' = [completions EXCEPT ![j] = @ + n]
    /\ UNCHANGED <<fleet, assets, releases, jobs, logVars, samples, requests>>

(* The jobs of an asset, for which the portal has to be asked; the status  *)
(* it is asked for goes nowhere, and the map makes a completed one up.     *)
JobRows(a) == {jobs[j].status : j \in {k \in DOMAIN jobs : jobs[k].asset = a}}
MapJobRows(a) == IF JobRows(a) = {} THEN {"completed"} ELSE JobRows(a)
ServiceJobs(a) == IF a = "" THEN {"error"}
                  ELSE IF fleet = "pgx" THEN JobRows(a) ELSE MapJobRows(a)
RPCListOTAJobs(a) == ServiceJobs(a)
PortalListOTAJobs(a) == IF fleet = "none" THEN {} ELSE RPCListOTAJobs(a)

-----------------------------------------------------------------------------
(* Telemetry of a zone, as the mock hardware sends it, and the stream of   *)
(* the latest of it.                                                       *)
RecordTelemetry(z) == samples' = [samples EXCEPT ![z] = @ + 1]
MapTelemetry(z) == samples' = [samples EXCEPT ![z] = @ + 1]
Ingest(z) == IF fleet = "pgx" THEN RecordTelemetry(z) ELSE MapTelemetry(z)
IngestEnvironmentalTelemetry(z) ==
    /\ Requests
    /\ fleet # "none"
    /\ Ingest(z)
    /\ UNCHANGED <<fleet, assets, otaVars, logVars, faults>>

Least(m, n) == IF m < n THEN m ELSE n
SampleCount(n) == IF n <= 0 THEN 5 ELSE Least(n, 100)
LatestRows(z, n) == Least(samples[z], IF n <= 0 THEN 10 ELSE Least(n, 100))
MapLatest(z, n) ==
    LET limit == IF n <= 0 THEN 10 ELSE n
    IN IF samples[z] = 0 THEN Least(limit, 5) ELSE Least(samples[z], limit)
StreamEnvironmentalTelemetry(z, n) ==
    IF fleet = "pgx" THEN LatestRows(z, SampleCount(n)) ELSE MapLatest(z, SampleCount(n))

FacilitiesNext ==
    \/ \E f \in AssetForm : CreateAsset(f)
    \/ \E e \in Entries : SaveLog(e)
    \/ \E s \in Syncs : SyncPendingLogs(s) \/ PostLogs(s) \/ MarkAsSynced(s)
    \/ CloseApp
    \/ \E a \in Serials \cup {Seeded} : DeskLog(a)
    \/ \E v \in Versions, url \in {"", "url"}, id \in {"", "id"} : CreateFirmware(v, url, id)
    \/ \E A \in SUBSET (Serials \cup {Seeded}), v \in Versions \cup {Seeded} : TriggerOTA(A, v)
    \/ \E j \in 1..MaxJobs : HandleOTATriggered(j) \/ CompleteOTA(j)
    \/ \E z \in Zones : IngestEnvironmentalTelemetry(z)

FacilitiesSpec == FacilitiesInit /\ [][FacilitiesNext]_fleetVars

-----------------------------------------------------------------------------
(* SyncEngine: a log the phone takes for synced is stored.  It is stored   *)
(* twice only when two synchronisations overlapped, or an answer was lost  *)
(* or the app closed before the log was marked, for the phone's id of a    *)
(* log is not sent.  Over PostgreSQL none is stored: the technician's name *)
(* is no id of the workforce.                                              *)
LogsExplained ==
    \A e \in Entries :
        /\ phone[e] = "synced" => logs[e] > 0
        /\ logs[e] > 1 => overlapped \/ faults \cap {"answer", "closed"} # {}
        /\ phone[e] = "unsynced" /\ logs[e] > 0 =>
               \/ \E s \in Syncs : sync[s].step = "answered" /\ e \in sync[s].batch
               \/ faults \cap {"answer", "closed"} # {}
        /\ fleet = "pgx" => phone[e] # "synced" /\ logs[e] = 0

(* HandleOTATriggered: a job whose event was acknowledged is complete, and *)
(* announced; one that is neither complete nor waiting for its event lost  *)
(* the event, for good; it is announced twice only after the worker        *)
(* stopped.  Jobs that internal-bll made up are never completed, and those *)
(* of the map complete one another.                                        *)
RolloutsExplained ==
    /\ \A j \in DOMAIN jobs :
          /\ fleet = "pgx" =>
                /\ event[j] = "done" => jobs[j].status = "completed" /\ completions[j] > 0
                /\ jobs[j].status = "pending" /\ event[j] # "queued" =>
                       event[j] = "lost" /\ "publish" \in faults
                /\ jobs[j].status = "completed" => event[j] # "lost"
          /\ completions[j] > 1 => "worker" \in faults
          /\ fleet = "none" => jobs[j].status = "queued" /\ completions[j] = 0
    /\ fleet = "pgx" => \A j \in DOMAIN jobs : jobs[j].asset \in assets

(* The portal's lists: over PostgreSQL they show what is stored, except    *)
(* that releases are asked for without a device type, and refused; the     *)
(* portal's releases are refused as well.  A stream of telemetry ends      *)
(* within what was asked for.                                              *)
FleetListed ==
    /\ fleet = "pgx" =>
          /\ PortalListAssets = assets
          /\ PortalListFirmware = {"error"} /\ releases = {Seeded}
          /\ \A a \in Serials : "completed" \in PortalListOTAJobs(a) =>
                 GetAsset(a) /\ \E j \in DOMAIN jobs :
                                    jobs[j].asset = a /\ event[j] \in {"queued", "updated", "done"}
          /\ ListMaintenanceLogs("desk") = logs["desk"]
    /\ \A z \in Zones, n \in {-1, 0, 1, 6, 101} :
           StreamEnvironmentalTelemetry(z, n) <= SampleCount(n)

(* The facilities service: logs are stored twice or never, rollouts get    *)
(* stuck, and lists show something else than what is stored, for these     *)
(* reasons only.                                                           *)
FleetExplained ==
    FacilitiesTypeOK /\ LogsExplained /\ RolloutsExplained /\ FleetListed
=============================================================================
