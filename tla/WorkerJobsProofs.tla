-------------------------- MODULE WorkerJobsProofs --------------------------
(***************************************************************************)
(* Theorems about the jobs of the worker.                                  *)
(*                                                                         *)
(* Alerts of incidents, for any incidents, browser tabs, channel capacity  *)
(* and number of failures and restarts: the inductive invariant says what  *)
(* the worker's maps stand for -- an incident remembered as delivered was  *)
(* served, and one not yet acknowledged and not remembered was served only *)
(* as often as answers were lost and the maps emptied.                     *)
(*                                                                         *)
(* Recurring deposits, for any finite set of runners: what was claimed and *)
(* what may still be claimed is paid for by the dates that came.           *)
(*                                                                         *)
(* Monthly reports, for any months: what a generation has done by the time *)
(* it has come so far, and where the files may be ahead of the row.        *)
(***************************************************************************)
EXTENDS WorkerJobs, FiniteSetTheorems, TLAPS

(* An event is unacknowledged exactly while the worker handles it. *)
Holding ==
  \A i \in Incidents : message[i] = "unacked" <=> handling = i

(* Events exist for published incidents only. *)
EventsPublished ==
  \A i \in Incidents : message[i] = "none" <=> report[i] # "published"

(* An entry of a map stands for a post that was served. *)
Remembered ==
  \A t \in Targets, i \in Incidents : i \in delivered[t] => served[t][i] > 0

(* An attempt without errors has served the targets it has passed. *)
AttemptServes ==
  handling # None /\ ~failed =>
    /\ step \in {"pebble", "end"} => served["bff"][handling] > 0
    /\ step = "end" => served["pebble"][handling] > 0

(* An incident that may be delivered again by this process has been served *)
(* only as often as an answer was lost or the maps were emptied.           *)
Fresh ==
  \A i \in Incidents, t \in Targets :
    message[i] # "acked" /\ i \notin delivered[t] =>
      served[t][i] + late[t][i] <= lost[t][i] + crashes

IInv ==
  /\ TypeOK
  /\ Holding
  /\ EventsPublished
  /\ Remembered
  /\ AttemptServes
  /\ AckedIsDelivered
  /\ RepeatsExplained
  /\ Fresh

-----------------------------------------------------------------------------
(* Every connection keeps its type, and its channel its bound, when an     *)
(* incident is broadcast.                                                  *)
LEMMA BroadcastTyped ==
  ASSUME TypeOK, NEW i \in Incidents, Broadcast(i)
  PROVE  /\ stream' \in [Clients -> Connections]
         /\ \A c \in Clients : Len(stream'[c].channel) <= Buffer
<1>1. SUFFICES ASSUME NEW c \in Clients
               PROVE  /\ stream'[c] \in Connections
                      /\ Len(stream'[c].channel) <= Buffer
  BY DEF Broadcast
<1>2. stream[c] \in Connections /\ Len(stream[c].channel) <= Buffer
  BY DEF TypeOK
<1>3. CASE ~stream[c].open
  BY <1>2, <1>3 DEF Broadcast
<1>4. CASE stream[c].open /\ Len(stream[c].channel) < Buffer
  <2>1. stream'[c] = [stream[c] EXCEPT !.channel = Append(@, i)]
    BY <1>4 DEF Broadcast
  <2>2. /\ Append(stream[c].channel, i) \in Seq(Incidents)
        /\ Len(Append(stream[c].channel, i)) = Len(stream[c].channel) + 1
        /\ Len(stream[c].channel) \in Nat
    BY <1>2 DEF Connections
  <2>3. stream'[c] \in Connections /\ stream'[c].channel = Append(stream[c].channel, i)
    BY <1>2, <2>1, <2>2 DEF Connections
  <2>4. QED  BY <1>4, <2>2, <2>3, AlertAssumption
<1>5. CASE stream[c].open /\ ~(Len(stream[c].channel) < Buffer)
  <2>1. stream'[c] = [stream[c] EXCEPT !.dropped[i] = @ + 1]
    BY <1>5 DEF Broadcast
  <2>2. /\ stream[c].dropped \in Counts
        /\ [stream[c].dropped EXCEPT ![i] = @ + 1] \in Counts
    BY <1>2 DEF Connections, Counts
  <2>3. stream'[c] = [stream[c] EXCEPT !.dropped = [stream[c].dropped EXCEPT ![i] = @ + 1]]
    BY <2>1, <1>2 DEF Connections
  <2>4. stream'[c] \in Connections /\ stream'[c].channel = stream[c].channel
    BY <1>2, <2>2, <2>3 DEF Connections
  <2>5. QED  BY <1>2, <2>4
<1>6. QED  BY <1>3, <1>4, <1>5

(* A post that takes effect is counted once, for its target. *)
LEMMA ServeCounts ==
  ASSUME TypeOK, NEW t \in Targets, NEW i \in Incidents, Serve(t, i)
  PROVE  /\ served' = [served EXCEPT ![t][i] = @ + 1]
         /\ stream' \in [Clients -> Connections]
         /\ \A c \in Clients : Len(stream'[c].channel) <= Buffer
<1>1. CASE t = "bff"
  BY <1>1, BroadcastTyped DEF Serve, HandleBroadcast
<1>2. CASE t = "pebble"
  <2>1. TicketsInserted("habitat", "system") = 1
    BY DEF TicketsInserted, ticketCategories, ticketSources
  <2>2. HandleIncidentBroadcast(i) /\ UNCHANGED stream
    BY <1>2 DEF Serve
  <2>3. QED  BY <1>2, <2>1, <2>2 DEF HandleIncidentBroadcast, TypeOK
<1>3. QED  BY <1>1, <1>2 DEF Targets

(* The initial states satisfy the inductive invariant. *)
LEMMA InitInv == Init => IInv
<1>1. SUFFICES ASSUME Init PROVE IInv
  OBVIOUS
<1>2. Zero \in Counts /\ \A i \in Incidents : Zero[i] = 0
  BY DEF Zero, Counts
<1>3. Closed \in Connections /\ Closed.channel = <<>> /\ Len(Closed.channel) = 0
  BY <1>2 DEF Closed, Connections
<1>4. TypeOK
  <2>1. /\ late \in [Targets -> Counts] /\ served \in [Targets -> Counts]
        /\ lost \in [Targets -> Counts] /\ raised \in Counts
    BY <1>1, <1>2 DEF Init
  <2>2. /\ stream \in [Clients -> Connections]
        /\ \A c \in Clients : Len(stream[c].channel) <= Buffer
    BY <1>1, <1>3, AlertAssumption DEF Init
  <2>3. /\ report \in [Incidents -> {"new", "stored", "published", "silent", "refused"}]
        /\ message \in [Incidents -> {"none", "queued", "unacked", "acked"}]
        /\ handling \in Incidents \cup {None}
        /\ step \in Steps
        /\ step = "idle" <=> handling = None
    BY <1>1 DEF Init, Steps
  <2>4. /\ failed \in BOOLEAN
        /\ delivered \in [Targets -> SUBSET Incidents]
    BY <1>1 DEF Init
  <2>5. failures \in 0 .. MaxFailures /\ crashes \in 0 .. MaxCrashes
    BY <1>1, AlertAssumption DEF Init
  <2>6. QED  BY <2>1, <2>2, <2>3, <2>4, <2>5 DEF TypeOK
<1>5. Holding /\ EventsPublished /\ Remembered /\ AttemptServes
  BY <1>1, AlertAssumption DEF Init, Holding, EventsPublished, Remembered, AttemptServes
<1>6. AckedIsDelivered /\ RepeatsExplained /\ Fresh
  BY <1>1, <1>2 DEF Init, AckedIsDelivered, RepeatsExplained, Fresh, Acked
<1>7. QED  BY <1>4, <1>5, <1>6 DEF IInv

-----------------------------------------------------------------------------
(* Reports and browsers leave alone what the counting parts speak of. *)
LEMMA ReportPreserves ==
  ASSUME IInv, NEW i \in Incidents, StoreIncident(i) \/ PublishIncident(i)
  PROVE  IInv'
<1>1. CASE StoreIncident(i)
  <2>1. /\ report' \in [Incidents -> {"new", "stored", "published", "silent", "refused"}]
        /\ \A j \in Incidents : report[j] = "published" <=> report'[j] = "published"
    BY <1>1 DEF StoreIncident, IInv, TypeOK
  <2>2. UNCHANGED <<workerVars, postVars, raised, stream, crashes>>
    BY <1>1 DEF StoreIncident
  <2>3. TypeOK'
    BY <2>1, <2>2 DEF IInv, TypeOK, workerVars, postVars
  <2>4. Holding' /\ EventsPublished' /\ Remembered' /\ AttemptServes'
    BY <2>1, <2>2 DEF IInv, Holding, EventsPublished, Remembered, AttemptServes,
       workerVars, postVars
  <2>5. AckedIsDelivered' /\ RepeatsExplained' /\ Fresh'
    BY <2>1, <2>2 DEF IInv, AckedIsDelivered, RepeatsExplained, Fresh, Acked,
       workerVars, postVars
  <2>6. QED  BY <2>3, <2>4, <2>5 DEF IInv
<1>2. CASE PublishIncident(i)
  <2>1. /\ report' \in [Incidents -> {"new", "stored", "published", "silent", "refused"}]
        /\ message' \in [Incidents -> {"none", "queued", "unacked", "acked"}]
        /\ \A j \in Incidents : j # i => report'[j] = report[j] /\ message'[j] = message[j]
        /\ report[i] # "published" /\ message[i] = "none"
        /\ \/ report'[i] = "published" /\ message'[i] = "queued"
           \/ report'[i] # "published" /\ message'[i] = "none"
    BY <1>2 DEF PublishIncident, IInv, TypeOK, EventsPublished
  <2>2. UNCHANGED <<handling, step, failed, delivered, postVars, raised, stream, crashes>>
    BY <1>2 DEF PublishIncident
  <2>3. TypeOK'
    BY <2>1, <2>2 DEF IInv, TypeOK, postVars
  <2>4. Holding' /\ EventsPublished' /\ Remembered' /\ AttemptServes'
    BY <2>1, <2>2 DEF IInv, Holding, EventsPublished, Remembered, AttemptServes, postVars
  <2>5. AckedIsDelivered' /\ RepeatsExplained' /\ Fresh'
    BY <2>1, <2>2 DEF IInv, AckedIsDelivered, RepeatsExplained, Fresh, Acked, postVars
  <2>6. QED  BY <2>3, <2>4, <2>5 DEF IInv
<1>3. QED  BY <1>1, <1>2

(* What browsers do with their connections keeps the invariant. *)
LEMMA StreamPreserves ==
  ASSUME IInv, NEW c \in Clients,
         Connect(c) \/ ReceiveEvent(c) \/ WriteEvent(c) \/ Disconnect(c)
  PROVE  IInv'
<1>1. UNCHANGED <<report, workerVars, postVars, raised, crashes>>
  BY DEF Connect, ReceiveEvent, WriteEvent, Disconnect
<1>2. /\ stream[c] \in Connections /\ Len(stream[c].channel) <= Buffer
      /\ served["bff"] \in Counts /\ Buffer \in Nat
  BY AlertAssumption DEF IInv, TypeOK, Targets
<1>3. Zero \in Counts
  BY DEF Zero, Counts
<1>4. Closed \in Connections /\ Closed.channel = <<>>
  BY <1>3 DEF Closed, Connections
<1>5. \E s \in Connections : stream' = [stream EXCEPT ![c] = s] /\ Len(s.channel) <= Buffer
  <2>1. CASE Connect(c)
    <3> DEFINE s == [Closed EXCEPT !.open = TRUE, !.since = served["bff"]]
    <3>1. s \in Connections /\ s.channel = <<>>
      BY <1>2, <1>4 DEF Connections
    <3>2. stream' = [stream EXCEPT ![c] = s]
      BY <2>1 DEF Connect
    <3>3. Len(s.channel) <= Buffer
      BY <3>1, <1>2
    <3>4. QED  BY <3>1, <3>2, <3>3
  <2>2. CASE Disconnect(c)
    <3>1. Len(Closed.channel) <= Buffer
      BY <1>2, <1>4
    <3>2. QED  BY <2>2, <1>4, <3>1 DEF Disconnect
  <2>3. CASE ReceiveEvent(c)
    <3> DEFINE s == [stream[c] EXCEPT !.writing = Head(stream[c].channel), !.channel = Tail(@)]
    <3>1. /\ stream[c].channel \in Seq(Incidents) /\ stream[c].channel # <<>>
          /\ stream' = [stream EXCEPT ![c] = s]
      BY <2>3, <1>2 DEF ReceiveEvent, Connections, IInv, TypeOK
    <3>2. /\ Head(stream[c].channel) \in Incidents /\ Tail(stream[c].channel) \in Seq(Incidents)
          /\ Len(Tail(stream[c].channel)) = Len(stream[c].channel) - 1
          /\ Len(stream[c].channel) \in Nat
      BY <3>1
    <3>3. s \in Connections /\ s.channel = Tail(stream[c].channel)
      BY <1>2, <3>2 DEF Connections
    <3>4. Len(s.channel) <= Buffer
      BY <1>2, <3>2, <3>3
    <3>5. QED  BY <3>1, <3>3, <3>4
  <2>4. CASE WriteEvent(c)
    <3> DEFINE w == [stream[c].written EXCEPT ![stream[c].writing] = @ + 1]
               s == [stream[c] EXCEPT !.writing = None, !.written = w]
    <3>1. stream[c].writing \in Incidents /\ stream[c].written \in Counts
      BY <2>4, <1>2 DEF WriteEvent, Connections
    <3>2. w \in Counts
      BY <3>1 DEF Counts
    <3>3. s \in Connections /\ s.channel = stream[c].channel
      BY <1>2, <3>2 DEF Connections
    <3>4. stream' = [stream EXCEPT ![c] = s]
      BY <2>4, <1>2 DEF WriteEvent, Connections, IInv, TypeOK
    <3>5. Len(s.channel) <= Buffer
      BY <1>2, <3>3
    <3>6. QED  BY <3>3, <3>4, <3>5
  <2>5. QED  BY <2>1, <2>2, <2>3, <2>4
<1>6. /\ stream' \in [Clients -> Connections]
      /\ \A d \in Clients : Len(stream'[d].channel) <= Buffer
  BY <1>5 DEF IInv, TypeOK
<1>7. TypeOK'
  BY <1>1, <1>6 DEF IInv, TypeOK, workerVars, postVars
<1>8. Holding' /\ EventsPublished' /\ Remembered' /\ AttemptServes'
  BY <1>1 DEF IInv, Holding, EventsPublished, Remembered, AttemptServes, workerVars, postVars
<1>9. AckedIsDelivered' /\ RepeatsExplained' /\ Fresh'
  BY <1>1 DEF IInv, AckedIsDelivered, RepeatsExplained, Fresh, Acked, workerVars, postVars
<1>10. QED  BY <1>7, <1>8, <1>9 DEF IInv

-----------------------------------------------------------------------------
(* The worker. *)
LEMMA HandlePreserves ==
  ASSUME IInv, NEW i \in Incidents, HandleIncidentAlert(i)
  PROVE  IInv'
<1>1. /\ handling = None /\ message[i] = "queued" /\ handling' = i
      /\ step' = "ticket" /\ failed' = FALSE
      /\ message' = [message EXCEPT ![i] = "unacked"]
      /\ UNCHANGED <<report, delivered, late, served, lost, failures, raised, stream, crashes>>
  BY DEF HandleIncidentAlert, postVars
<1>2. /\ message' \in [Incidents -> {"none", "queued", "unacked", "acked"}]
      /\ message'[i] = "unacked"
      /\ \A j \in Incidents : j # i => message'[j] = message[j]
  BY <1>1 DEF IInv, TypeOK
<1>3. TypeOK'
  BY <1>1, <1>2, AlertAssumption DEF IInv, TypeOK, Steps
<1>4. Holding' /\ EventsPublished' /\ Remembered' /\ AttemptServes'
  BY <1>1, <1>2, AlertAssumption
     DEF IInv, Holding, EventsPublished, Remembered, AttemptServes
<1>5. AckedIsDelivered' /\ RepeatsExplained' /\ Fresh'
  BY <1>1, <1>2 DEF IInv, AckedIsDelivered, RepeatsExplained, Fresh, Acked
<1>6. QED  BY <1>3, <1>4, <1>5 DEF IInv

(* BroadcastPebbleIncidentAlert keeps the invariant. *)
LEMMA TicketPreserves ==
  ASSUME IInv, BroadcastPebbleIncidentAlert
  PROVE  IInv'
<1>1. /\ step = "ticket" /\ step' = "bff"
      /\ UNCHANGED <<report, message, handling, failed, delivered, late, served, lost,
                     stream, crashes>>
  BY DEF BroadcastPebbleIncidentAlert
<1>2. handling \in Incidents
  BY <1>1 DEF IInv, TypeOK
<1>3. TicketsInserted("feline_safety", "workforce_incident") \in Nat
  BY DEF TicketsInserted
<1>4. raised' \in Counts /\ failures' \in 0 .. MaxFailures
  BY <1>2, <1>3, AlertAssumption DEF BroadcastPebbleIncidentAlert, IInv, TypeOK, Counts
<1>5. TypeOK'
  BY <1>1, <1>2, <1>4, AlertAssumption DEF IInv, TypeOK, Steps, Targets
<1>6. Holding' /\ EventsPublished' /\ Remembered' /\ AttemptServes'
  BY <1>1 DEF IInv, Holding, EventsPublished, Remembered, AttemptServes
<1>7. AckedIsDelivered' /\ RepeatsExplained' /\ Fresh'
  BY <1>1 DEF IInv, AckedIsDelivered, RepeatsExplained, Fresh, Acked
<1>8. QED  BY <1>5, <1>6, <1>7 DEF IInv

(* Skip keeps the invariant: the entry of the map stands for a served post. *)
LEMMA SkipPreserves ==
  ASSUME IInv, NEW t \in Targets, Skip(t)
  PROVE  IInv'
<1>1. /\ step = t /\ handling \in delivered[t] /\ step' = After(t)
      /\ UNCHANGED <<report, message, handling, failed, delivered, late, served, lost,
                     failures, raised, stream, crashes>>
  BY DEF Skip, postVars
<1>2. handling \in Incidents /\ handling # None
  BY <1>1, AlertAssumption DEF IInv, TypeOK, Targets
<1>3. TypeOK'
  BY <1>1, <1>2 DEF IInv, TypeOK, Steps, Targets, After
<1>4. served[t][handling] > 0
  BY <1>1, <1>2 DEF IInv, Remembered
<1>5. AttemptServes'
  BY <1>1, <1>2, <1>4 DEF IInv, AttemptServes, After, Targets
<1>6. Holding' /\ EventsPublished' /\ Remembered'
  BY <1>1 DEF IInv, Holding, EventsPublished, Remembered
<1>7. AckedIsDelivered' /\ RepeatsExplained' /\ Fresh'
  BY <1>1 DEF IInv, AckedIsDelivered, RepeatsExplained, Fresh, Acked
<1>8. QED  BY <1>3, <1>5, <1>6, <1>7 DEF IInv

(* A post that is answered keeps the invariant: Fresh allows the first one. *)
LEMMA PostPreserves ==
  ASSUME IInv, NEW t \in Targets, Post(t)
  PROVE  IInv'
<1>1. /\ step = t /\ handling \notin delivered[t] /\ step' = After(t)
      /\ delivered' = [delivered EXCEPT ![t] = @ \cup {handling}]
      /\ Serve(t, handling)
      /\ UNCHANGED <<report, message, handling, failed, late, lost, failures, raised, crashes>>
  BY DEF Post
<1>2. handling \in Incidents /\ handling # None
  BY <1>1, AlertAssumption DEF IInv, TypeOK, Targets
<1>3. /\ served' = [served EXCEPT ![t][handling] = @ + 1]
      /\ stream' \in [Clients -> Connections]
      /\ \A c \in Clients : Len(stream'[c].channel) <= Buffer
  BY <1>1, <1>2, ServeCounts DEF IInv
<1>4. served \in [Targets -> Counts]
  BY DEF IInv, TypeOK
<1>5. /\ served' \in [Targets -> Counts]
      /\ served'[t][handling] = served[t][handling] + 1
      /\ \A u \in Targets, j \in Incidents : u # t \/ j # handling => served'[u][j] = served[u][j]
      /\ \A u \in Targets, j \in Incidents :
           served[u][j] \in Nat /\ served'[u][j] \in Nat /\ served'[u][j] >= served[u][j]
  BY <1>2, <1>3, <1>4 DEF Counts
<1>6. /\ delivered' \in [Targets -> SUBSET Incidents]
      /\ \A u \in Targets, j \in Incidents :
           j \in delivered'[u] <=> j \in delivered[u] \/ (u = t /\ j = handling)
  BY <1>1, <1>2 DEF IInv, TypeOK
<1>7. TypeOK'
  BY <1>1, <1>2, <1>3, <1>5, <1>6 DEF IInv, TypeOK, Steps, Targets, After
<1>8. Holding' /\ EventsPublished'
  BY <1>1 DEF IInv, Holding, EventsPublished
<1>9. Remembered'
  BY <1>5, <1>6 DEF IInv, Remembered
<1>10. AttemptServes'
  BY <1>1, <1>2, <1>5 DEF IInv, AttemptServes, After, Targets
<1>11. message[handling] = "unacked" /\ report[handling] = "published"
  BY <1>2 DEF IInv, Holding, EventsPublished
<1>12. AckedIsDelivered'
  BY <1>1, <1>2, <1>5, <1>11 DEF IInv, AckedIsDelivered, Acked
<1>13. /\ late \in [Targets -> Counts] /\ lost \in [Targets -> Counts] /\ crashes \in Nat
       /\ \A u \in Targets, j \in Incidents : late[u][j] \in Nat /\ lost[u][j] \in Nat
  BY AlertAssumption DEF IInv, TypeOK, Counts
<1>14. served[t][handling] + late[t][handling] <= lost[t][handling] + crashes
  BY <1>1, <1>2, <1>11 DEF IInv, Fresh
<1>15. RepeatsExplained'
  BY <1>1, <1>2, <1>5, <1>13, <1>14 DEF IInv, RepeatsExplained
<1>16. Fresh'
  BY <1>1, <1>2, <1>5, <1>6, <1>13 DEF IInv, Fresh
<1>17. QED  BY <1>7, <1>8, <1>9, <1>10, <1>12, <1>15, <1>16 DEF IInv

(* A post without an answer keeps the invariant: lost grows with served or late. *)
LEMMA PostFailsPreserves ==
  ASSUME IInv, NEW t \in Targets, PostFails(t)
  PROVE  IInv'
<1>1. /\ step = t /\ handling \notin delivered[t] /\ step' = After(t)
      /\ failures < MaxFailures /\ failures' = failures + 1 /\ failed' = TRUE
      /\ UNCHANGED <<report, message, handling, delivered, raised, crashes>>
  BY DEF PostFails, Fail
<1>2. handling \in Incidents /\ handling # None
  BY <1>1, AlertAssumption DEF IInv, TypeOK, Targets
<1>3. /\ late \in [Targets -> Counts] /\ lost \in [Targets -> Counts]
      /\ served \in [Targets -> Counts] /\ crashes \in Nat
  BY AlertAssumption DEF IInv, TypeOK
<1>4. /\ late' \in [Targets -> Counts] /\ lost' \in [Targets -> Counts]
      /\ served' \in [Targets -> Counts]
      /\ \A u \in Targets, j \in Incidents : u # t \/ j # handling =>
           served'[u][j] = served[u][j] /\ late'[u][j] = late[u][j] /\ lost'[u][j] = lost[u][j]
      /\ \/ /\ served'[t][handling] + late'[t][handling] = served[t][handling] + late[t][handling]
            /\ lost'[t][handling] = lost[t][handling]
         \/ /\ served'[t][handling] + late'[t][handling] = served[t][handling] + late[t][handling] + 1
            /\ lost'[t][handling] = lost[t][handling] + 1
      /\ served'[t][handling] >= served[t][handling]
      /\ stream' \in [Clients -> Connections]
      /\ \A c \in Clients : Len(stream'[c].channel) <= Buffer
  <2>1. CASE UNCHANGED <<late, served, lost, stream>>
    BY <2>1, <1>2, <1>3 DEF IInv, TypeOK, Counts
  <2>2. CASE /\ Serve(t, handling)
             /\ lost' = [lost EXCEPT ![t][handling] = @ + 1]
             /\ UNCHANGED late
    <3>1. /\ served' = [served EXCEPT ![t][handling] = @ + 1]
          /\ stream' \in [Clients -> Connections]
          /\ \A c \in Clients : Len(stream'[c].channel) <= Buffer
      BY <2>2, <1>2, ServeCounts DEF IInv
    <3>2. /\ served' \in [Targets -> Counts]
          /\ served'[t][handling] = served[t][handling] + 1
          /\ \A u \in Targets, j \in Incidents :
               u # t \/ j # handling => served'[u][j] = served[u][j]
      BY <3>1, <1>2, <1>3 DEF Counts
    <3>3. /\ lost' \in [Targets -> Counts]
          /\ lost'[t][handling] = lost[t][handling] + 1
          /\ \A u \in Targets, j \in Incidents :
               u # t \/ j # handling => lost'[u][j] = lost[u][j]
      BY <2>2, <1>2, <1>3 DEF Counts
    <3>4. served[t][handling] \in Nat /\ late[t][handling] \in Nat
      BY <1>2, <1>3 DEF Counts
    <3>5. late' = late
      BY <2>2
    <3>6. late' \in [Targets -> Counts]
      BY <3>5, <1>3
    <3>7. /\ served'[t][handling] + late'[t][handling]
               = served[t][handling] + late[t][handling] + 1
          /\ served'[t][handling] >= served[t][handling]
      BY <3>2, <3>4, <3>5
    <3>8. \A u \in Targets, j \in Incidents : u # t \/ j # handling =>
            served'[u][j] = served[u][j] /\ late'[u][j] = late[u][j] /\ lost'[u][j] = lost[u][j]
      BY <3>2, <3>3, <3>5
    <3>9. QED  BY <3>1, <3>2, <3>3, <3>6, <3>7, <3>8, Zenon
  <2>3. CASE /\ late' = [late EXCEPT ![t][handling] = @ + 1]
             /\ lost' = [lost EXCEPT ![t][handling] = @ + 1]
             /\ UNCHANGED <<served, stream>>
    <3>1. /\ stream' \in [Clients -> Connections]
          /\ \A c \in Clients : Len(stream'[c].channel) <= Buffer
      BY <2>3 DEF IInv, TypeOK
    <3>2. /\ late' \in [Targets -> Counts]
          /\ late'[t][handling] = late[t][handling] + 1
          /\ \A u \in Targets, j \in Incidents :
               u # t \/ j # handling => late'[u][j] = late[u][j]
      BY <2>3, <1>2, <1>3 DEF Counts
    <3>3. /\ lost' \in [Targets -> Counts]
          /\ lost'[t][handling] = lost[t][handling] + 1
          /\ \A u \in Targets, j \in Incidents :
               u # t \/ j # handling => lost'[u][j] = lost[u][j]
      BY <2>3, <1>2, <1>3 DEF Counts
    <3>4. served[t][handling] \in Nat /\ late[t][handling] \in Nat
      BY <1>2, <1>3 DEF Counts
    <3>5. QED  BY <2>3, <3>1, <3>2, <3>3, <3>4, <1>3
  <2>4. QED  BY <2>1, <2>2, <2>3 DEF PostFails
<1>5. \A u \in Targets, j \in Incidents :
         /\ served[u][j] \in Nat /\ late[u][j] \in Nat /\ lost[u][j] \in Nat
         /\ served'[u][j] \in Nat /\ late'[u][j] \in Nat /\ lost'[u][j] \in Nat
  BY <1>3, <1>4 DEF Counts
<1>6. TypeOK'
  BY <1>1, <1>2, <1>4, AlertAssumption DEF IInv, TypeOK, Steps, Targets, After
<1>7. Holding' /\ EventsPublished' /\ AttemptServes'
  BY <1>1 DEF IInv, Holding, EventsPublished, AttemptServes
<1>8. Remembered'
  BY <1>1, <1>4, <1>5 DEF IInv, Remembered
<1>9. message[handling] = "unacked" /\ report[handling] = "published"
  BY <1>2 DEF IInv, Holding, EventsPublished
<1>10. AckedIsDelivered'
  BY <1>1, <1>2, <1>4, <1>5, <1>9 DEF IInv, AckedIsDelivered, Acked
<1>11. served[t][handling] + late[t][handling] <= lost[t][handling] + crashes
  BY <1>1, <1>2, <1>9 DEF IInv, Fresh
<1>12. RepeatsExplained' /\ Fresh'
  <2>1. SUFFICES ASSUME NEW i \in Incidents, NEW u \in Targets
                 PROVE  /\ served'[u][i] + late'[u][i] <= 1 + lost'[u][i] + crashes'
                        /\ message'[i] # "acked" /\ i \notin delivered'[u] =>
                             served'[u][i] + late'[u][i] <= lost'[u][i] + crashes'
    BY DEF RepeatsExplained, Fresh
  <2>2. CASE u # t \/ i # handling
    <3>1. served'[u][i] = served[u][i] /\ late'[u][i] = late[u][i] /\ lost'[u][i] = lost[u][i]
      BY <1>4, <2>2
    <3>2. QED  BY <1>1, <3>1 DEF IInv, RepeatsExplained, Fresh
  <2>3. CASE u = t /\ i = handling
    <3>1. /\ served[u][i] \in Nat /\ late[u][i] \in Nat /\ lost[u][i] \in Nat
          /\ served'[u][i] \in Nat /\ late'[u][i] \in Nat /\ lost'[u][i] \in Nat
      BY <1>5
    <3>2. served[u][i] + late[u][i] <= lost[u][i] + crashes
      BY <1>11, <2>3
    <3>3. \/ /\ served'[u][i] + late'[u][i] = served[u][i] + late[u][i]
             /\ lost'[u][i] = lost[u][i]
          \/ /\ served'[u][i] + late'[u][i] = served[u][i] + late[u][i] + 1
             /\ lost'[u][i] = lost[u][i] + 1
      BY <1>4, <2>3
    <3>4. crashes' = crashes /\ crashes \in Nat
      BY <1>1, <1>3
    <3>5. served'[u][i] + late'[u][i] <= lost'[u][i] + crashes'
      <4>1. CASE lost'[u][i] = lost[u][i]
        BY <3>1, <3>2, <3>3, <3>4, <4>1
      <4>2. CASE lost'[u][i] = lost[u][i] + 1
        BY <3>1, <3>2, <3>3, <3>4, <4>2
      <4>3. QED  BY <3>3, <4>1, <4>2
    <3>6. QED  BY <3>1, <3>4, <3>5
  <2>4. QED  BY <2>2, <2>3
<1>13. QED  BY <1>6, <1>7, <1>8, <1>10, <1>12 DEF IInv

(* Return keeps the invariant: AttemptServes justifies the acknowledgement. *)
LEMMA ReturnPreserves ==
  ASSUME IInv, Return
  PROVE  IInv'
<1>1. /\ step = "end" /\ handling' = None /\ step' = "idle"
      /\ message' = [message EXCEPT ![handling] = IF failed THEN "queued" ELSE "acked"]
      /\ UNCHANGED <<report, failed, delivered, late, served, lost, failures, raised,
                     stream, crashes>>
  BY DEF Return, postVars
<1>2. handling \in Incidents /\ handling # None
  BY <1>1, AlertAssumption DEF IInv, TypeOK
<1>3. /\ message' \in [Incidents -> {"none", "queued", "unacked", "acked"}]
      /\ \/ failed /\ message'[handling] = "queued"
         \/ ~failed /\ message'[handling] = "acked"
      /\ \A j \in Incidents : j # handling => message'[j] = message[j]
      /\ message[handling] = "unacked"
  BY <1>1, <1>2 DEF IInv, TypeOK, Holding
<1>4. TypeOK'
  BY <1>1, <1>3 DEF IInv, TypeOK, Steps
<1>5. Holding' /\ EventsPublished' /\ Remembered' /\ AttemptServes'
  BY <1>1, <1>2, <1>3, AlertAssumption
     DEF IInv, Holding, EventsPublished, Remembered, AttemptServes
<1>6. ~failed => served["bff"][handling] > 0 /\ served["pebble"][handling] > 0
  BY <1>1, <1>2 DEF IInv, AttemptServes
<1>7. AckedIsDelivered'
  BY <1>1, <1>2, <1>3, <1>6 DEF IInv, AckedIsDelivered, Acked, Targets
<1>8. RepeatsExplained' /\ Fresh'
  BY <1>1, <1>2, <1>3 DEF IInv, RepeatsExplained, Fresh
<1>9. QED  BY <1>4, <1>5, <1>7, <1>8 DEF IInv

(* WorkerRestart keeps the invariant: the maps and the attempt are gone. *)
LEMMA RestartPreserves ==
  ASSUME IInv, WorkerRestart
  PROVE  IInv'
<1>1. /\ crashes < MaxCrashes /\ crashes' = crashes + 1
      /\ handling' = None /\ step' = "idle"
      /\ message' = [i \in Incidents |-> IF i = handling THEN "queued" ELSE message[i]]
      /\ delivered' = [t \in Targets |-> {}]
      /\ UNCHANGED <<report, failed, served, lost, failures, raised, stream>>
  BY DEF WorkerRestart
<1>2. /\ late \in [Targets -> Counts] /\ lost \in [Targets -> Counts]
      /\ served \in [Targets -> Counts] /\ crashes \in Nat
  BY AlertAssumption DEF IInv, TypeOK
<1>3. /\ late' \in [Targets -> Counts]
      /\ \A t \in Targets, i \in Incidents :
           \/ late'[t][i] = late[t][i]
           \/ /\ late'[t][i] = late[t][i] + 1
              /\ i = handling /\ i \notin delivered[t]
  <2>1. CASE UNCHANGED late
    BY <2>1, <1>2
  <2>2. CASE /\ step \in Targets
             /\ handling \notin delivered[step]
             /\ late' = [late EXCEPT ![step][handling] = @ + 1]
    <3>1. handling \in Incidents
      BY <2>2 DEF IInv, TypeOK, Targets
    <3>2. QED  BY <2>2, <3>1, <1>2 DEF Counts
  <2>3. QED  BY <2>1, <2>2 DEF WorkerRestart
<1>4. \A u \in Targets, j \in Incidents :
         served[u][j] \in Nat /\ late[u][j] \in Nat /\ lost[u][j] \in Nat /\ late'[u][j] \in Nat
  BY <1>2, <1>3 DEF Counts
<1>5. \A i \in Incidents : i = handling => message[i] = "unacked" /\ report[i] = "published"
  BY DEF IInv, Holding, EventsPublished
<1>6. TypeOK'
  <2>1. message' \in [Incidents -> {"none", "queued", "unacked", "acked"}]
    BY <1>1 DEF IInv, TypeOK
  <2>2. crashes' \in 0 .. MaxCrashes
    BY <1>1, <1>2, AlertAssumption
  <2>3. QED  BY <1>1, <1>3, <2>1, <2>2 DEF IInv, TypeOK, Steps
<1>7. Holding' /\ EventsPublished' /\ Remembered' /\ AttemptServes'
  BY <1>1, <1>5, AlertAssumption
     DEF IInv, Holding, EventsPublished, Remembered, AttemptServes
<1>8. AckedIsDelivered'
  <2>1. SUFFICES ASSUME NEW i \in Incidents, NEW t \in Targets
                 PROVE  /\ message'[i] = "acked" => served'[t][i] > 0
                        /\ report'[i] # "published" => served'[t][i] + late'[t][i] = 0
    BY DEF AckedIsDelivered, Acked
  <2>2. QED  BY <1>1, <1>3, <1>5 DEF IInv, AckedIsDelivered, Acked
<1>9. RepeatsExplained' /\ Fresh'
  <2>1. SUFFICES ASSUME NEW i \in Incidents, NEW t \in Targets
                 PROVE  /\ served'[t][i] + late'[t][i] <= 1 + lost'[t][i] + crashes'
                        /\ message'[i] # "acked" =>
                             served'[t][i] + late'[t][i] <= lost'[t][i] + crashes'
    BY DEF RepeatsExplained, Fresh
  <2>2. served[t][i] + late[t][i] <= 1 + lost[t][i] + crashes
    BY DEF IInv, RepeatsExplained
  <2>3. CASE late'[t][i] = late[t][i]
    BY <1>1, <1>2, <1>4, <2>2, <2>3
  <2>4. CASE late'[t][i] = late[t][i] + 1 /\ i = handling /\ i \notin delivered[t]
    <3>1. served[t][i] + late[t][i] <= lost[t][i] + crashes
      BY <1>5, <2>4 DEF IInv, Fresh
    <3>2. QED  BY <1>1, <1>2, <1>4, <2>4, <3>1
  <2>5. QED  BY <1>3, <2>3, <2>4
<1>10. QED  BY <1>6, <1>7, <1>8, <1>9 DEF IInv

(* A post served late moves from late to served; the sum only shrinks. *)
LEMMA LatePreserves ==
  ASSUME IInv, NEW t \in Targets, NEW i \in Incidents, LatePost(t, i)
  PROVE  IInv'
<1>1. /\ late[t][i] > 0 /\ late' = [late EXCEPT ![t][i] = @ - 1]
      /\ UNCHANGED <<report, message, handling, step, failed, delivered, lost, failures,
                     raised, crashes>>
  BY DEF LatePost, workerVars
<1>2. /\ late \in [Targets -> Counts] /\ lost \in [Targets -> Counts]
      /\ served \in [Targets -> Counts] /\ crashes \in Nat
  BY AlertAssumption DEF IInv, TypeOK
<1>3. /\ late' \in [Targets -> Counts] /\ served' \in [Targets -> Counts]
      /\ \A u \in Targets, j \in Incidents :
           /\ u # t \/ j # i => served'[u][j] = served[u][j] /\ late'[u][j] = late[u][j]
           /\ served'[u][j] >= served[u][j]
           /\ served'[u][j] + late'[u][j] <= served[u][j] + late[u][j]
      /\ stream' \in [Clients -> Connections]
      /\ \A c \in Clients : Len(stream'[c].channel) <= Buffer
  <2>1. CASE Serve(t, i)
    <3>1. /\ served' = [served EXCEPT ![t][i] = @ + 1]
          /\ stream' \in [Clients -> Connections]
          /\ \A c \in Clients : Len(stream'[c].channel) <= Buffer
      BY <2>1, ServeCounts DEF IInv
    <3>2. QED  BY <3>1, <1>1, <1>2 DEF Counts
  <2>2. CASE UNCHANGED <<served, stream>>
    <3>1. /\ stream' \in [Clients -> Connections]
          /\ \A c \in Clients : Len(stream'[c].channel) <= Buffer
      BY <2>2 DEF IInv, TypeOK
    <3>2. QED  BY <2>2, <3>1, <1>1, <1>2 DEF Counts
  <2>3. QED  BY <2>1, <2>2 DEF LatePost
<1>4. \A u \in Targets, j \in Incidents :
         /\ served[u][j] \in Nat /\ late[u][j] \in Nat /\ lost[u][j] \in Nat
         /\ served'[u][j] \in Nat /\ late'[u][j] \in Nat
  BY <1>2, <1>3 DEF Counts
<1>5. TypeOK'
  BY <1>1, <1>3 DEF IInv, TypeOK
<1>6. Holding' /\ EventsPublished'
  BY <1>1 DEF IInv, Holding, EventsPublished
<1>7. Remembered'
  BY <1>1, <1>3, <1>4 DEF IInv, Remembered
<1>8. AttemptServes'
  <2>1. handling # None => handling \in Incidents
    BY DEF IInv, TypeOK
  <2>2. QED  BY <1>1, <1>3, <1>4, <2>1 DEF IInv, AttemptServes, Targets
<1>9. AckedIsDelivered'
  BY <1>1, <1>3, <1>4 DEF IInv, AckedIsDelivered, Acked
<1>10. RepeatsExplained' /\ Fresh'
  <2>1. SUFFICES ASSUME NEW j \in Incidents, NEW u \in Targets
                 PROVE  /\ served'[u][j] + late'[u][j] <= 1 + lost'[u][j] + crashes'
                        /\ message'[j] # "acked" /\ j \notin delivered'[u] =>
                             served'[u][j] + late'[u][j] <= lost'[u][j] + crashes'
    BY DEF RepeatsExplained, Fresh
  <2>2. /\ served[u][j] \in Nat /\ late[u][j] \in Nat /\ lost[u][j] \in Nat
        /\ served'[u][j] \in Nat /\ late'[u][j] \in Nat
        /\ served'[u][j] + late'[u][j] <= served[u][j] + late[u][j]
        /\ lost'[u][j] = lost[u][j]
    BY <1>1, <1>3, <1>4
  <2>3. /\ served[u][j] + late[u][j] <= 1 + lost[u][j] + crashes
        /\ message[j] # "acked" /\ j \notin delivered[u] =>
             served[u][j] + late[u][j] <= lost[u][j] + crashes
    BY DEF IInv, RepeatsExplained, Fresh
  <2>4. QED  BY <1>1, <1>2, <2>2, <2>3
<1>11. QED  BY <1>5, <1>6, <1>7, <1>8, <1>9, <1>10 DEF IInv

-----------------------------------------------------------------------------
(* Every step keeps the inductive invariant: the actions together. *)
LEMMA StepInv == IInv /\ [Next]_vars => IInv'
<1>1. SUFFICES ASSUME IInv, [Next]_vars PROVE IInv'
  OBVIOUS
<1>2. CASE Report
  BY <1>1, <1>2, ReportPreserves DEF Report
<1>3. CASE WorkerStep
  <2>1. CASE Handle
    BY <1>1, <2>1, HandlePreserves DEF Handle
  <2>2. CASE BroadcastPebbleIncidentAlert
    BY <1>1, <2>2, TicketPreserves
  <2>3. CASE DeliveryStep
    BY <1>1, <2>3, SkipPreserves, PostPreserves, PostFailsPreserves DEF DeliveryStep
  <2>4. CASE Return
    BY <1>1, <2>4, ReturnPreserves
  <2>5. QED  BY <1>3, <2>1, <2>2, <2>3, <2>4 DEF WorkerStep
<1>4. CASE WorkerRestart
  BY <1>1, <1>4, RestartPreserves
<1>5. CASE Late
  BY <1>1, <1>5, LatePreserves DEF Late
<1>6. CASE StreamStep
  BY <1>1, <1>6, StreamPreserves DEF StreamStep
<1>7. CASE UNCHANGED vars
  BY <1>1, <1>7 DEF vars, workerVars, postVars, IInv, TypeOK, Holding, EventsPublished,
     Remembered, AttemptServes, AckedIsDelivered, RepeatsExplained, Fresh, Acked
<1>8. QED  BY <1>1, <1>2, <1>3, <1>4, <1>5, <1>6, <1>7 DEF Next

(* The parts above, together with the two safety properties, hold in every *)
(* reachable state of the pipeline of HandleIncidentAlert.                 *)
THEOREM Invariance == Spec => []IInv
BY InitInv, StepInv, PTL DEF Spec

(* The pipeline is well typed in every reachable state: in particular no   *)
(* channel of the SSE hub holds more than its capacity.                    *)
THEOREM TypeCorrect == Spec => []TypeOK
<1>1. IInv => TypeOK
  BY DEF IInv
<1>2. QED  BY <1>1, Invariance, PTL

(* HandleIncidentAlert acknowledges an event only after the portal hub and *)
(* the watch gateway were both served.                                     *)
THEOREM NoAlertSkipped == Spec => []AckedIsDelivered
<1>1. IInv => AckedIsDelivered
  BY DEF IInv
<1>2. QED  BY <1>1, Invariance, PTL

(* The maps of HandleIncidentAlert keep repeats down to one per lost       *)
(* answer and per restart of the worker.                                   *)
THEOREM RepeatsAreExplained == Spec => []RepeatsExplained
<1>1. IInv => RepeatsExplained
  BY DEF IInv
<1>2. QED  BY <1>1, Invariance, PTL

-----------------------------------------------------------------------------
(* What the channel of a connection holds of an incident, and what of it   *)
(* is being written to the browser.                                        *)
Waiting(q, i) == Cardinality({k \in DOMAIN q : q[k] = i})
BeingWritten(w, i) == Cardinality({w} \cap {i})

(* One connection's account of one incident. *)
Account(s, i) ==
  s.since[i] + s.written[i] + s.dropped[i] + Waiting(s.channel, i) + BeingWritten(s.writing, i)

(* The positions of an incident in a channel are finitely many. *)
LEMMA WaitingType ==
  ASSUME NEW q \in Seq(Incidents), NEW i \in Incidents
  PROVE  /\ IsFiniteSet({k \in DOMAIN q : q[k] = i})
         /\ Waiting(q, i) \in Nat
<1> DEFINE P == {k \in DOMAIN q : q[k] = i}
<1>1. Len(q) \in Nat /\ DOMAIN q = 1 .. Len(q)
  OBVIOUS
<1>2. IsFiniteSet(1 .. Len(q))
  BY <1>1, FS_Interval
<1>3. IsFiniteSet(P)
  BY <1>1, <1>2, FS_Subset
<1>4. QED  BY <1>3, FS_CardinalityType DEF Waiting

(* An empty channel holds nothing. *)
LEMMA WaitingEmpty ==
  ASSUME NEW i \in Incidents
  PROVE  Waiting(<<>>, i) = 0
<1>1. {k \in DOMAIN <<>> : <<>>[k] = i} = {}
  OBVIOUS
<1>2. QED  BY <1>1, FS_EmptySet DEF Waiting

(* Broadcast appends: the incident it appends is held once more. *)
LEMMA WaitingAppend ==
  ASSUME NEW q \in Seq(Incidents), NEW e \in Incidents, NEW i \in Incidents
  PROVE  Waiting(Append(q, e), i) = Waiting(q, i) + (IF e = i THEN 1 ELSE 0)
<1> DEFINE P == {k \in DOMAIN q : q[k] = i}
           R == {k \in DOMAIN Append(q, e) : Append(q, e)[k] = i}
           n == Len(q) + 1
<1>1. /\ Len(q) \in Nat /\ DOMAIN q = 1 .. Len(q) /\ n \notin DOMAIN q
      /\ DOMAIN Append(q, e) = 1 .. n
      /\ Append(q, e)[n] = e
      /\ \A k \in 1 .. Len(q) : Append(q, e)[k] = q[k]
  OBVIOUS
<1>2. IsFiniteSet(P) /\ Cardinality(P) \in Nat
  BY WaitingType DEF Waiting
<1>3. CASE e = i
  <2>1. R = P \cup {n} /\ n \notin P
    BY <1>1, <1>3
  <2>2. Cardinality(R) = Cardinality(P) + 1
    <3> HIDE DEF P, R, n
    <3> QED  BY <1>2, <2>1, FS_AddElement
  <2>3. QED  BY <1>3, <2>2 DEF Waiting
<1>4. CASE e # i
  <2>1. R = P
    BY <1>1, <1>4
  <2>2. Waiting(q, i) = Cardinality(P) /\ Waiting(Append(q, e), i) = Cardinality(R)
    BY DEF Waiting
  <2> HIDE DEF P, R
  <2>3. QED  BY <1>4, <1>2, <2>1, <2>2
<1>5. QED  BY <1>3, <1>4

(* HandleStream takes the oldest event: it leaves the channel, the others  *)
(* move up.                                                                *)
LEMMA WaitingTail ==
  ASSUME NEW q \in Seq(Incidents), q # <<>>, NEW i \in Incidents
  PROVE  Waiting(q, i) = Waiting(Tail(q), i) + (IF Head(q) = i THEN 1 ELSE 0)
<1> DEFINE P == {k \in DOMAIN q : q[k] = i}
           R == {k \in DOMAIN Tail(q) : Tail(q)[k] = i}
           Q == P \ {1}
           up == [k \in R |-> k + 1]
<1>1. /\ Len(q) \in Nat \ {0} /\ DOMAIN q = 1 .. Len(q) /\ Head(q) = q[1]
      /\ Tail(q) \in Seq(Incidents)
      /\ DOMAIN Tail(q) = 1 .. Len(q) - 1
      /\ \A k \in 1 .. Len(q) - 1 : Tail(q)[k] = q[k + 1]
  OBVIOUS
<1>2. /\ IsFiniteSet(P) /\ Cardinality(P) \in Nat
      /\ IsFiniteSet(R) /\ Cardinality(R) \in Nat
  BY <1>1, WaitingType DEF Waiting
<1>3. /\ \A k \in R : k \in Nat /\ k + 1 \in Q
      /\ \A m \in Q : m \in Nat /\ m - 1 \in R
  BY <1>1
<1>4. Cardinality(R) = Cardinality(Q)
  <2> HIDE DEF P, R, Q
  <2>1. up \in Bijection(R, Q)
    <3>1. up \in [R -> Q]
      BY <1>3
    <3>2. \A a, b \in R : up[a] = up[b] => a = b
      BY <1>3
    <3>3. \A m \in Q : \E k \in R : up[k] = m
      <4>1. SUFFICES ASSUME NEW m \in Q PROVE \E k \in R : up[k] = m
        OBVIOUS
      <4>2. m \in Nat /\ m - 1 \in R /\ up[m - 1] = (m - 1) + 1
        BY <1>3
      <4>3. QED  BY <4>2
    <3>4. QED  BY <3>1, <3>2, <3>3 DEF Bijection, Injection, Surjection, IsInjective
  <2> HIDE DEF up
  <2>2. ExistsBijection(R, Q)
    BY <2>1 DEF ExistsBijection
  <2>3. QED  BY <1>2, <2>2, FS_Bijection
<1>5. Cardinality(Q) = IF 1 \in P THEN Cardinality(P) - 1 ELSE Cardinality(P)
  <2> HIDE DEF P
  <2>1. QED  BY <1>2, FS_RemoveElement
<1>6. 1 \in P <=> Head(q) = i
  BY <1>1
<1>7. Waiting(q, i) = Cardinality(P) /\ Waiting(Tail(q), i) = Cardinality(R)
  BY DEF Waiting
<1>8. QED
  <2> HIDE DEF P, R, Q, up
  <2>1. QED  BY <1>2, <1>4, <1>5, <1>6, <1>7

(* None is no incident, so it is nobody's event. *)
LEMMA BeingWrittenIs ==
  ASSUME NEW w, NEW i \in Incidents
  PROVE  BeingWritten(w, i) = IF w = i THEN 1 ELSE 0
<1>1. CASE w = i
  <2>1. {w} \cap {i} = {i}
    BY <1>1
  <2>2. QED  BY <1>1, <2>1, FS_Singleton DEF BeingWritten
<1>2. CASE w # i
  <2>1. {w} \cap {i} = {}
    BY <1>2
  <2>2. QED  BY <1>2, <2>1, FS_EmptySet DEF BeingWritten
<1>3. QED  BY <1>1, <1>2

(* StreamAccounted in these terms. *)
LEMMA AccountsAre ==
  StreamAccounted <=>
    \A c \in Clients, i \in Incidents :
      stream[c].open => Account(stream[c], i) = served["bff"][i]
BY DEF StreamAccounted, Account, Waiting, BeingWritten

(* The numbers of an account. *)
LEMMA AccountType ==
  ASSUME NEW s \in Connections, NEW i \in Incidents
  PROVE  /\ s.since[i] \in Nat /\ s.written[i] \in Nat /\ s.dropped[i] \in Nat
         /\ s.channel \in Seq(Incidents)
         /\ Waiting(s.channel, i) \in Nat
         /\ BeingWritten(s.writing, i) \in Nat
<1>1. /\ s.since[i] \in Nat /\ s.written[i] \in Nat /\ s.dropped[i] \in Nat
      /\ s.channel \in Seq(Incidents)
  BY DEF Connections, Counts
<1>2. Waiting(s.channel, i) \in Nat
  BY <1>1, WaitingType
<1>3. BeingWritten(s.writing, i) \in Nat
  BY BeingWrittenIs
<1>4. QED  BY <1>1, <1>2, <1>3

(* Broadcast: each open connection accounts for one more of the incident   *)
(* broadcast, and for as much as before of every other.                    *)
LEMMA BroadcastAccounted ==
  ASSUME TypeOK, NEW i \in Incidents, Broadcast(i),
         NEW c \in Clients, NEW j \in Incidents, stream'[c].open
  PROVE  /\ stream[c].open
         /\ Account(stream'[c], j) = Account(stream[c], j) + (IF i = j THEN 1 ELSE 0)
<1>1. stream[c] \in Connections
  BY DEF TypeOK
<1>2. /\ stream[c].since[j] \in Nat /\ stream[c].written[j] \in Nat
      /\ stream[c].dropped[j] \in Nat /\ stream[c].channel \in Seq(Incidents)
      /\ Waiting(stream[c].channel, j) \in Nat
      /\ BeingWritten(stream[c].writing, j) \in Nat
  BY <1>1, AccountType
<1>3. PICK a \in Nat, b \in Nat, d \in Nat, e \in Nat, f \in Nat :
        /\ a = stream[c].since[j] /\ b = stream[c].written[j] /\ d = stream[c].dropped[j]
        /\ e = Waiting(stream[c].channel, j) /\ f = BeingWritten(stream[c].writing, j)
  BY <1>2
<1>4. PICK n \in Nat : n = IF i = j THEN 1 ELSE 0
  OBVIOUS
<1>5. Account(stream[c], j) = a + b + d + e + f
  BY <1>3 DEF Account
<1>6. CASE ~stream[c].open
  BY <1>6 DEF Broadcast
<1>7. CASE stream[c].open /\ Len(stream[c].channel) < Buffer
  <2>1. stream'[c] = [stream[c] EXCEPT !.channel = Append(@, i)]
    BY <1>7 DEF Broadcast
  <2>2. /\ stream'[c].channel = Append(stream[c].channel, i)
        /\ stream'[c].since = stream[c].since /\ stream'[c].written = stream[c].written
        /\ stream'[c].dropped = stream[c].dropped /\ stream'[c].writing = stream[c].writing
    BY <1>1, <2>1 DEF Connections
  <2>3. Waiting(stream'[c].channel, j) = e + n
    BY <1>2, <1>3, <1>4, <2>2, WaitingAppend
  <2>4. Account(stream'[c], j) = a + b + d + (e + n) + f
    BY <1>3, <2>2, <2>3 DEF Account
  <2>5. QED  BY <1>4, <1>5, <1>7, <2>4
<1>8. CASE stream[c].open /\ ~(Len(stream[c].channel) < Buffer)
  <2>1. stream'[c] = [stream[c] EXCEPT !.dropped[i] = @ + 1]
    BY <1>8 DEF Broadcast
  <2>2. stream[c].dropped \in [Incidents -> Nat]
    BY <1>1 DEF Connections, Counts
  <2>3. /\ stream'[c].channel = stream[c].channel
        /\ stream'[c].since = stream[c].since /\ stream'[c].written = stream[c].written
        /\ stream'[c].dropped = [stream[c].dropped EXCEPT ![i] = @ + 1]
        /\ stream'[c].writing = stream[c].writing
    BY <1>1, <2>1 DEF Connections
  <2>4. stream'[c].dropped[j] = d + n
    BY <1>3, <1>4, <2>2, <2>3
  <2>5. Account(stream'[c], j) = a + b + (d + n) + e + f
    BY <1>3, <2>3, <2>4 DEF Account
  <2>6. QED  BY <1>4, <1>5, <1>8, <2>5
<1>9. QED  BY <1>6, <1>7, <1>8

(* A post that takes effect, at whichever target, keeps the accounts. *)
LEMMA ServeAccounted ==
  ASSUME TypeOK, StreamAccounted, NEW t \in Targets, NEW i \in Incidents, Serve(t, i)
  PROVE  StreamAccounted'
<1>1. served' = [served EXCEPT ![t][i] = @ + 1]
  BY ServeCounts
<1>2. served \in [Targets -> [Incidents -> Nat]] /\ "bff" \in Targets
  BY DEF TypeOK, Counts, Targets
<1>3. SUFFICES ASSUME NEW c \in Clients, NEW j \in Incidents, stream'[c].open
               PROVE  Account(stream'[c], j) = served'["bff"][j]
  BY AccountsAre DEF StreamAccounted, Account, Waiting, BeingWritten
<1>4. CASE t = "bff"
  <2>1. Broadcast(i)
    BY <1>4 DEF Serve, HandleBroadcast
  <2>2. /\ stream[c].open
        /\ Account(stream'[c], j) = Account(stream[c], j) + (IF i = j THEN 1 ELSE 0)
    BY <1>3, <2>1, BroadcastAccounted
  <2>3. Account(stream[c], j) = served["bff"][j]
    BY <2>2, AccountsAre
  <2>4. served'["bff"][j] = served["bff"][j] + (IF i = j THEN 1 ELSE 0)
    BY <1>1, <1>2, <1>4
  <2>5. QED  BY <2>2, <2>3, <2>4
<1>5. CASE t = "pebble"
  <2>1. stream' = stream /\ served'["bff"] = served["bff"]
    BY <1>1, <1>2, <1>5 DEF Serve
  <2>2. QED  BY <1>3, <2>1, AccountsAre
<1>6. QED  BY <1>4, <1>5 DEF Targets

(* Connections are opened with an empty account, and writing an event only *)
(* moves it along.                                                         *)
LEMMA StreamStepAccounted ==
  ASSUME TypeOK, StreamAccounted, NEW c \in Clients,
         Connect(c) \/ ReceiveEvent(c) \/ WriteEvent(c) \/ Disconnect(c)
  PROVE  StreamAccounted'
<1>1. served' = served /\ stream \in [Clients -> Connections]
  BY DEF Connect, ReceiveEvent, WriteEvent, Disconnect, postVars, TypeOK
<1>2. \A d \in Clients \ {c} : stream'[d] = stream[d]
  BY <1>1 DEF Connect, ReceiveEvent, WriteEvent, Disconnect
<1>3. SUFFICES ASSUME NEW j \in Incidents, stream'[c].open
               PROVE  Account(stream'[c], j) = served["bff"][j]
  BY <1>1, <1>2, AccountsAre DEF StreamAccounted, Account, Waiting, BeingWritten
<1>4. stream[c] \in Connections
  BY <1>1
<1>5. /\ stream[c].since[j] \in Nat /\ stream[c].written[j] \in Nat
      /\ stream[c].dropped[j] \in Nat /\ stream[c].channel \in Seq(Incidents)
      /\ Waiting(stream[c].channel, j) \in Nat
      /\ BeingWritten(stream[c].writing, j) \in Nat
  BY <1>4, AccountType
<1>6. served["bff"][j] \in Nat /\ served["bff"] \in Counts
  BY DEF TypeOK, Counts, Targets
<1>7. stream[c].open => Account(stream[c], j) = served["bff"][j]
  BY AccountsAre
<1>8. CASE Connect(c)
  <2>1. stream'[c] = [Closed EXCEPT !.open = TRUE, !.since = served["bff"]]
    BY <1>1, <1>8 DEF Connect
  <2>2. /\ stream'[c].channel = <<>> /\ stream'[c].writing = None
        /\ stream'[c].written = Zero /\ stream'[c].dropped = Zero
        /\ stream'[c].since = served["bff"]
    BY <2>1 DEF Closed
  <2>3. Zero[j] = 0 /\ Waiting(<<>>, j) = 0 /\ BeingWritten(None, j) = 0
    BY WaitingEmpty, BeingWrittenIs, AlertAssumption DEF Zero
  <2>4. QED  BY <1>6, <2>2, <2>3 DEF Account
<1>9. CASE Disconnect(c)
  BY <1>1, <1>3, <1>9 DEF Disconnect, Closed
<1>10. CASE ReceiveEvent(c)
  <2>1. /\ stream[c].open /\ stream[c].writing = None /\ stream[c].channel # <<>>
        /\ stream'[c] = [stream[c] EXCEPT !.writing = Head(stream[c].channel),
                                          !.channel = Tail(@)]
    BY <1>1, <1>4, <1>10 DEF ReceiveEvent, Connections
  <2>2. /\ stream'[c].channel = Tail(stream[c].channel)
        /\ stream'[c].writing = Head(stream[c].channel)
        /\ stream'[c].written = stream[c].written /\ stream'[c].dropped = stream[c].dropped
        /\ stream'[c].since = stream[c].since
    BY <1>4, <2>1 DEF Connections
  <2>3. Tail(stream[c].channel) \in Seq(Incidents)
    BY <1>5, <2>1
  <2>4. PICK n \in Nat : n = IF Head(stream[c].channel) = j THEN 1 ELSE 0
    OBVIOUS
  <2>5. PICK g \in Nat : g = Waiting(stream'[c].channel, j)
    BY <2>2, <2>3, WaitingType
  <2>6. Waiting(stream[c].channel, j) = g + n
    BY <1>5, <2>1, <2>2, <2>4, <2>5, WaitingTail
  <2>7. BeingWritten(stream[c].writing, j) = 0 /\ BeingWritten(stream'[c].writing, j) = n
    BY <2>1, <2>2, <2>4, BeingWrittenIs, AlertAssumption
  <2>8. PICK a \in Nat, b \in Nat, d \in Nat :
          a = stream[c].since[j] /\ b = stream[c].written[j] /\ d = stream[c].dropped[j]
    BY <1>5
  <2>9. /\ Account(stream'[c], j) = a + b + d + g + n
        /\ Account(stream[c], j) = a + b + d + (g + n) + 0
    BY <2>2, <2>5, <2>6, <2>7, <2>8 DEF Account
  <2>10. Account(stream'[c], j) = Account(stream[c], j)
    BY <2>4, <2>5, <2>8, <2>9
  <2>11. QED  BY <1>7, <2>1, <2>10
<1>11. CASE WriteEvent(c)
  <2>1. /\ stream[c].writing \in Incidents /\ stream[c].written \in [Incidents -> Nat]
    BY <1>4, <1>11 DEF WriteEvent, Connections, Counts
  <2>2. stream'[c] = [stream[c] EXCEPT !.writing = None,
          !.written = [stream[c].written EXCEPT ![stream[c].writing] = @ + 1]]
    BY <1>1, <1>4, <1>11 DEF WriteEvent, Connections
  <2>3. /\ stream'[c].channel = stream[c].channel /\ stream'[c].writing = None
        /\ stream'[c].written = [stream[c].written EXCEPT ![stream[c].writing] = @ + 1]
        /\ stream'[c].dropped = stream[c].dropped /\ stream'[c].since = stream[c].since
        /\ stream'[c].open = stream[c].open
    BY <1>4, <2>2 DEF Connections
  <2>4. PICK n \in Nat : n = IF stream[c].writing = j THEN 1 ELSE 0
    OBVIOUS
  <2>5. PICK a \in Nat, b \in Nat, d \in Nat, e \in Nat :
        /\ a = stream[c].since[j] /\ b = stream[c].written[j] /\ d = stream[c].dropped[j]
        /\ e = Waiting(stream[c].channel, j)
    BY <1>5
  <2>6. stream'[c].written[j] = b + n
    BY <2>1, <2>3, <2>4, <2>5
  <2>7. BeingWritten(stream[c].writing, j) = n /\ BeingWritten(stream'[c].writing, j) = 0
    BY <2>3, <2>4, BeingWrittenIs, AlertAssumption
  <2>8. /\ Account(stream'[c], j) = a + (b + n) + d + e + 0
        /\ Account(stream[c], j) = a + b + d + e + n
    BY <2>3, <2>5, <2>6, <2>7 DEF Account
  <2>9. Account(stream'[c], j) = Account(stream[c], j)
    BY <2>4, <2>5, <2>8
  <2>10. QED  BY <1>3, <1>7, <2>3, <2>9
<1>12. QED  BY <1>8, <1>9, <1>10, <1>11

(* HandleStream and Broadcast lose no event and deliver none twice: each   *)
(* broadcast made while a connection is open is waiting in its channel,    *)
(* being written, written, or was dropped at a full channel, exactly once. *)
THEOREM StreamsAreAccounted == Spec => []StreamAccounted
<1>1. Init => StreamAccounted
  BY DEF Init, StreamAccounted, Closed
<1>2. TypeOK /\ StreamAccounted /\ [Next]_vars => StreamAccounted'
  <2>1. SUFFICES ASSUME TypeOK, StreamAccounted, [Next]_vars PROVE StreamAccounted'
    OBVIOUS
  <2>2. CASE UNCHANGED <<served, stream>>
    BY <2>1, <2>2 DEF StreamAccounted
  <2>3. CASE \E t \in Targets, i \in Incidents : Serve(t, i)
    BY <2>1, <2>3, ServeAccounted
  <2>4. CASE StreamStep
    BY <2>1, <2>4, StreamStepAccounted DEF StreamStep
  <2>5. CASE Post("bff") \/ Post("pebble") \/ PostFails("bff") \/ PostFails("pebble")
    <3>1. handling \in Incidents
      BY <2>1, <2>5 DEF Post, PostFails, TypeOK, Steps
    <3>2. UNCHANGED <<served, stream>> \/ \E t \in Targets : Serve(t, handling)
      BY <2>5 DEF Post, PostFails, Targets
    <3>3. QED  BY <2>2, <2>3, <3>1, <3>2
  <2>6. CASE Late
    BY <2>2, <2>3, <2>6 DEF Late, LatePost
  <2>7. CASE Report \/ Handle \/ BroadcastPebbleIncidentAlert \/ Return \/ WorkerRestart
    BY <2>2, <2>7 DEF Report, StoreIncident, PublishIncident, Handle, HandleIncidentAlert,
       BroadcastPebbleIncidentAlert, Return, WorkerRestart, postVars
  <2>8. CASE \E t \in Targets : Skip(t)
    BY <2>2, <2>8 DEF Skip, postVars
  <2>9. CASE UNCHANGED vars
    BY <2>2, <2>9 DEF vars, postVars
  <2>10. QED
    BY <2>1, <2>4, <2>5, <2>6, <2>7, <2>8, <2>9 DEF Next, WorkerStep, DeliveryStep, Targets
<1>3. QED  BY <1>1, <1>2, TypeCorrect, PTL DEF Spec
-----------------------------------------------------------------------------
(***************************************************************************)
(* Recurring deposits.                                                     *)
(***************************************************************************)

(* The runners that hold a claim of d, and those that may still claim it:  *)
(* all of them while its date has come, else those that have listed it.    *)
Claimants(d) == {r \in Runners : d \in due[r]}
Listers(d) == {r \in Runners : d \in batch[r].rows}
MayClaim(d) == IF Schedule!Due(d) THEN Runners ELSE Listers(d)

(* A runner between two batches holds no claim. *)
IdleHoldsNone == \A r \in Runners : batch[r].phase = "idle" => due[r] = {}

(* Every date is paid for: what was claimed and what may still be claimed  *)
(* is covered by one claim of every runner for each date that came.        *)
Covered(d) ==
  claims[d] + Cardinality(MayClaim(d)) <= Cardinality(Runners) * dueCount[d] + missed[d]

(* ClaimsAccounted, for one deposit. *)
ClaimAccounted(d) ==
  claims[d] = charges[d] + dropped[d] + Cardinality(Claimants(d))

ScheduleInv ==
  /\ Schedule!TypeOK
  /\ IdleHoldsNone
  /\ \A d \in Deposits : ClaimAccounted(d)
  /\ \A d \in Deposits : Covered(d)

(* What may still be claimed, claimed and listed are numbers of runners. *)
LEMMA RunnerCounts ==
  ASSUME NEW d \in Deposits
  PROVE  /\ IsFiniteSet(MayClaim(d)) /\ IsFiniteSet(Claimants(d))
         /\ Cardinality(MayClaim(d)) \in Nat /\ Cardinality(Claimants(d)) \in Nat
         /\ MayClaim(d) \subseteq Runners /\ Cardinality(Runners) \in Nat
         /\ Cardinality(MayClaim(d)) <= Cardinality(Runners)
<1>1. IsFiniteSet(Runners)
  BY JobsAssumption
<1>2. MayClaim(d) \subseteq Runners /\ Claimants(d) \subseteq Runners
  BY DEF MayClaim, Listers, Claimants
<1> QED
  BY <1>1, <1>2, FS_Subset, FS_CardinalityType

(* The two ways a step counts a deposit. *)
LEMMA OneMore ==
  ASSUME NEW f \in [Deposits -> Nat], NEW S
  PROVE  /\ Schedule!Count(f, S) \in [Deposits -> Nat]
         /\ \A d \in Deposits : Schedule!Count(f, S)[d] = IF d \in S THEN f[d] + 1 ELSE f[d]
BY DEF Schedule!Count

(* A step keeps Covered if it takes a runner away for every claim, counts  *)
(* a missed update, or counts a new date.                                  *)
LEMMA CoveredKept ==
  ASSUME Schedule!TypeOK, Schedule!TypeOK', NEW d \in Deposits, Covered(d),
         \/ /\ claims'[d] = claims[d] /\ dueCount'[d] = dueCount[d] /\ missed'[d] = missed[d]
            /\ MayClaim(d)' \subseteq MayClaim(d)
         \/ claims'[d] = claims[d] /\ dueCount'[d] = dueCount[d] + 1 /\ missed'[d] = missed[d]
         \/ /\ claims'[d] = claims[d] + 1 /\ dueCount'[d] = dueCount[d] /\ missed'[d] = missed[d]
            /\ \E r \in MayClaim(d) : MayClaim(d)' \subseteq MayClaim(d) \ {r}
         \/ /\ claims'[d] = claims[d] + 1 /\ dueCount'[d] = dueCount[d]
            /\ missed'[d] = missed[d] + 1
            /\ MayClaim(d)' \subseteq MayClaim(d)
         \/ /\ claims'[d] = claims[d] + 1 /\ dueCount'[d] = dueCount[d] + 1
            /\ missed'[d] = missed[d] /\ MayClaim(d) # {}
  PROVE  Covered(d)'
<1>1. PICK n \in Nat, k \in Nat, k1 \in Nat, c \in Nat, c1 \in Nat, a \in Nat, a1 \in Nat,
           m \in Nat, m1 \in Nat :
        /\ n = Cardinality(Runners) /\ k = dueCount[d] /\ k1 = dueCount'[d]
        /\ c = Cardinality(MayClaim(d)) /\ c1 = Cardinality(MayClaim(d)')
        /\ a = claims[d] /\ a1 = claims'[d] /\ m = missed[d] /\ m1 = missed'[d]
  <2>1. /\ dueCount[d] \in Nat /\ dueCount'[d] \in Nat /\ claims[d] \in Nat /\ claims'[d] \in Nat
        /\ missed[d] \in Nat /\ missed'[d] \in Nat
    BY DEF Schedule!TypeOK
  <2>2. Cardinality(MayClaim(d)) \in Nat /\ Cardinality(Runners) \in Nat
    BY RunnerCounts
  <2>3. MayClaim(d)' \subseteq Runners
    BY DEF MayClaim, Listers
  <2>4. Cardinality(MayClaim(d)') \in Nat
    BY <2>3, JobsAssumption, FS_Subset, FS_CardinalityType
  <2> QED BY <2>1, <2>2, <2>4
<1>2. c1 <= n
  <2>1. MayClaim(d)' \subseteq Runners
    BY DEF MayClaim, Listers
  <2> QED BY <2>1, <1>1, JobsAssumption, FS_Subset
<1>3. a + c <= n * k + m
  BY <1>1 DEF Covered
<1>4. n * k \in Nat /\ n * (k + 1) = n * k + n
  OBVIOUS
<1>5. SUFFICES a1 + c1 <= n * k1 + m1
  BY <1>1 DEF Covered
<1>6. MayClaim(d)' \subseteq MayClaim(d) => c1 <= c
  BY <1>1, RunnerCounts, FS_Subset
<1>7. ASSUME NEW r \in MayClaim(d), MayClaim(d)' \subseteq MayClaim(d) \ {r}
      PROVE  c1 + 1 <= c
  <2>1. /\ IsFiniteSet(MayClaim(d) \ {r})
        /\ Cardinality(MayClaim(d) \ {r}) = c - 1
    BY <1>1, RunnerCounts, FS_RemoveElement
  <2>2. c1 <= c - 1
    BY <2>1, <1>1, <1>7, FS_Subset
  <2> QED BY <2>2
<1>8. MayClaim(d) # {} => c >= 1
  <2>1. c = 0 <=> MayClaim(d) = {}
    BY <1>1, RunnerCounts, FS_EmptySet
  <2> QED BY <2>1
<1>9. CASE a1 = a /\ k1 = k /\ m1 = m /\ MayClaim(d)' \subseteq MayClaim(d)
  BY <1>3, <1>6, <1>9, <1>4
<1>10. CASE a1 = a /\ k1 = k + 1 /\ m1 = m
  BY <1>2, <1>3, <1>4, <1>10
<1>11. CASE /\ a1 = a + 1 /\ k1 = k /\ m1 = m
            /\ \E r \in MayClaim(d) : MayClaim(d)' \subseteq MayClaim(d) \ {r}
  BY <1>3, <1>4, <1>7, <1>11
<1>12. CASE a1 = a + 1 /\ k1 = k /\ m1 = m + 1 /\ MayClaim(d)' \subseteq MayClaim(d)
  BY <1>3, <1>4, <1>6, <1>12
<1>13. CASE a1 = a + 1 /\ k1 = k + 1 /\ m1 = m /\ MayClaim(d) # {}
  BY <1>2, <1>3, <1>4, <1>8, <1>13
<1> QED
  BY <1>1, <1>9, <1>10, <1>11, <1>12, <1>13

(* RecurringDeposits counts runners as this module does. *)
LEMMA SameCardinality ==
  ASSUME NEW S
  PROVE  Schedule!Cardinality(S) = Cardinality(S)
BY DEF Cardinality, Schedule!Cardinality

LEMMA ClaimsAre ==
  Schedule!ClaimsAccounted <=> \A d \in Deposits : ClaimAccounted(d)
BY SameCardinality DEF Schedule!ClaimsAccounted, ClaimAccounted, Claimants

(* A step keeps the account of a claim if it leaves it alone, hands it to  *)
(* a runner, or has the runner publish or drop it.                         *)
LEMMA AccountKept ==
  ASSUME Schedule!TypeOK, Schedule!TypeOK', NEW d \in Deposits, ClaimAccounted(d),
         \/ /\ claims'[d] = claims[d] /\ charges'[d] = charges[d] /\ dropped'[d] = dropped[d]
            /\ Claimants(d)' = Claimants(d)
         \/ /\ claims'[d] = claims[d] + 1 /\ charges'[d] = charges[d]
            /\ dropped'[d] = dropped[d]
            /\ \E r \in Runners \ Claimants(d) : Claimants(d)' = Claimants(d) \cup {r}
         \/ /\ claims'[d] = claims[d]
            /\ \/ charges'[d] = charges[d] + 1 /\ dropped'[d] = dropped[d]
               \/ charges'[d] = charges[d] /\ dropped'[d] = dropped[d] + 1
            /\ \E r \in Claimants(d) : Claimants(d)' = Claimants(d) \ {r}
  PROVE  ClaimAccounted(d)'
<1>1. PICK a \in Nat, b \in Nat, c \in Nat, n \in Nat :
        /\ a = claims[d] /\ b = charges[d] /\ c = dropped[d]
        /\ n = Cardinality(Claimants(d)) /\ a = b + c + n
  <2>1. claims[d] \in Nat /\ charges[d] \in Nat /\ dropped[d] \in Nat
    BY DEF Schedule!TypeOK
  <2>2. Cardinality(Claimants(d)) \in Nat
    BY RunnerCounts
  <2> QED BY <2>1, <2>2 DEF ClaimAccounted
<1>2. CASE /\ claims'[d] = claims[d] /\ charges'[d] = charges[d] /\ dropped'[d] = dropped[d]
           /\ Claimants(d)' = Claimants(d)
  BY <1>1, <1>2 DEF ClaimAccounted
<1>3. CASE /\ claims'[d] = a + 1 /\ charges'[d] = b /\ dropped'[d] = c
           /\ \E r \in Runners \ Claimants(d) : Claimants(d)' = Claimants(d) \cup {r}
  <2>1. Cardinality(Claimants(d)') = n + 1
    BY <1>1, <1>3, RunnerCounts, FS_AddElement
  <2> QED BY <1>1, <1>3, <2>1 DEF ClaimAccounted
<1>4. CASE /\ claims'[d] = a
           /\ \/ charges'[d] = b + 1 /\ dropped'[d] = c
              \/ charges'[d] = b /\ dropped'[d] = c + 1
           /\ \E r \in Claimants(d) : Claimants(d)' = Claimants(d) \ {r}
  <2>1. Cardinality(Claimants(d)') = n - 1
    BY <1>1, <1>4, RunnerCounts, FS_RemoveElement
  <2> QED BY <1>1, <1>4, <2>1 DEF ClaimAccounted
<1> QED
  BY <1>1, <1>2, <1>3, <1>4

LEMMA ScheduleInitInv == Schedule!Init => ScheduleInv
<1>1. SUFFICES ASSUME Schedule!Init PROVE ScheduleInv
  OBVIOUS
<1> USE <1>1 DEF Schedule!Init, Schedule!Zero, Schedule!Idle
<1>2. Schedule!TypeOK
  BY JobsAssumption DEF Schedule!TypeOK
<1>3. IdleHoldsNone
  BY DEF IdleHoldsNone
<1>4. ASSUME NEW d \in Deposits PROVE MayClaim(d) = {} /\ Claimants(d) = {}
  BY DEF MayClaim, Listers, Claimants, Schedule!Due, Schedule!Active
<1>5. Cardinality({}) = 0
  BY FS_EmptySet
<1>6. ASSUME NEW d \in Deposits PROVE ClaimAccounted(d)
  <2>1. claims[d] = 0 /\ charges[d] = 0 /\ dropped[d] = 0 /\ Claimants(d) = {}
    BY <1>4
  <2> HIDE <1>1
  <2> QED BY <2>1, <1>5 DEF ClaimAccounted
<1>7. ASSUME NEW d \in Deposits PROVE Covered(d)
  <2>1. PICK n \in Nat : n = Cardinality(Runners)
    BY JobsAssumption, FS_CardinalityType
  <2>2. n * 0 = 0
    OBVIOUS
  <2>3. claims[d] = 0 /\ dueCount[d] = 0 /\ missed[d] = 0 /\ MayClaim(d) = {}
    BY <1>4
  <2> HIDE <1>1
  <2> QED BY <2>1, <2>2, <2>3, <1>5 DEF Covered
<1> QED
  BY <1>2, <1>3, <1>6, <1>7 DEF ScheduleInv

(* What a runner may have claimed or still claim of a deposit does not     *)
(* change with steps that leave its row, its listing and its claim alone.  *)
LEMMA SameRunners ==
  ASSUME NEW d \in Deposits,
         Schedule!Due(d)' <=> Schedule!Due(d),
         \A r \in Runners : /\ d \in batch'[r].rows <=> d \in batch[r].rows
                            /\ d \in due'[r] <=> d \in due[r]
  PROVE  MayClaim(d)' = MayClaim(d) /\ Claimants(d)' = Claimants(d)
BY DEF MayClaim, Listers, Claimants

LEMMA RequestPreserves ==
  ASSUME ScheduleInv, NEW d \in Deposits,
         Schedule!CreateRecurringDeposit(d) \/ Schedule!ExecuteGDPRErasure(d)
  PROVE  ScheduleInv'
<1> USE DEF ScheduleInv
<1>1. /\ UNCHANGED <<now, frequency, batch, due, dueCount, claims, charges, dropped,
                     missed, cutOff>>
      /\ request' \in [Deposits -> {"none", "refused", "accepted", "unpublished", "erased"}]
      /\ next' \in [Deposits -> Nat]
      /\ \A e \in Deposits : Schedule!Due(e)' => Schedule!Due(e)
  <2>1. CASE Schedule!CreateRecurringDeposit(d)
    <3>1. Schedule!Period(frequency[d]) \in Nat \ {0}
      BY DEF Schedule!Period
    <3>2. now \in Nat /\ next \in [Deposits -> Nat]
      BY JobsAssumption DEF Schedule!TypeOK
    <3>3. PICK date \in Nat : date = now + Schedule!Period(frequency[d]) /\ date > now
      BY <3>1, <3>2
    <3>4. /\ UNCHANGED <<now, frequency, batch, due, dueCount, claims, charges, dropped,
                         missed, cutOff>>
          /\ request[d] = "none"
          /\ \/ /\ request' = [request EXCEPT ![d] = "accepted"]
                /\ next' = [next EXCEPT ![d] = date]
             \/ /\ request' = [request EXCEPT ![d] = "unpublished"]
                /\ next' = [next EXCEPT ![d] = date]
             \/ request' = [request EXCEPT ![d] = "refused"] /\ next' = next
      BY <2>1, <3>3 DEF Schedule!CreateRecurringDeposit, Schedule!batchVars, Schedule!chargeVars
    <3>5. ASSUME NEW e \in Deposits, Schedule!Due(e)' PROVE Schedule!Due(e)
      BY <3>2, <3>3, <3>4, <3>5 DEF Schedule!Due, Schedule!Active, Schedule!TypeOK
    <3> QED BY <3>2, <3>3, <3>4, <3>5 DEF Schedule!TypeOK
  <2>2. CASE Schedule!ExecuteGDPRErasure(d)
    <3>1. /\ UNCHANGED <<now, frequency, next, batch, due, dueCount, claims, charges, dropped,
                         missed, cutOff>>
          /\ request' = [request EXCEPT ![d] = "erased"]
      BY <2>2 DEF Schedule!ExecuteGDPRErasure, Schedule!batchVars, Schedule!chargeVars
    <3> QED BY <3>1 DEF Schedule!TypeOK, Schedule!Due, Schedule!Active
  <2> QED BY <2>1, <2>2
<1>2. Schedule!TypeOK'
  BY <1>1 DEF Schedule!TypeOK
<1>3. IdleHoldsNone'
  BY <1>1 DEF IdleHoldsNone
<1>4. ASSUME NEW e \in Deposits
      PROVE  /\ MayClaim(e)' \subseteq MayClaim(e) /\ Claimants(e)' = Claimants(e)
             /\ claims'[e] = claims[e] /\ charges'[e] = charges[e] /\ dropped'[e] = dropped[e]
             /\ dueCount'[e] = dueCount[e] /\ missed'[e] = missed[e]
  <2>1. Listers(e)' = Listers(e) /\ Claimants(e)' = Claimants(e) /\ Listers(e) \subseteq Runners
    BY <1>1 DEF Listers, Claimants
  <2>2. MayClaim(e)' \subseteq MayClaim(e)
    BY <2>1, <1>1 DEF MayClaim
  <2> QED BY <1>1, <2>1, <2>2
<1>5. ASSUME NEW e \in Deposits PROVE ClaimAccounted(e)'
  BY <1>2, <1>4, AccountKept
<1>6. ASSUME NEW e \in Deposits PROVE Covered(e)'
  BY <1>2, <1>4, CoveredKept
<1> QED BY <1>2, <1>3, <1>5, <1>6

LEMMA TickPreserves ==
  ASSUME ScheduleInv, Schedule!Tick
  PROVE  ScheduleInv'
<1> USE DEF ScheduleInv
<1> DEFINE New == {d \in Deposits : Schedule!Active(d) /\ next[d] = now + 1}
<1>1. /\ UNCHANGED <<request, frequency, next, batch, due, claims, charges, dropped,
                     missed, cutOff>>
      /\ now < MaxTime /\ now' = now + 1 /\ now \in 0 .. MaxTime
      /\ dueCount' = Schedule!Count(dueCount, New)
      /\ dueCount \in [Deposits -> Nat] /\ next \in [Deposits -> Nat]
  BY DEF Schedule!Tick, Schedule!scheduleVars, Schedule!batchVars, Schedule!chargeVars,
         Schedule!TypeOK
<1> HIDE DEF New
<1>2. /\ dueCount' \in [Deposits -> Nat]
      /\ \A d \in Deposits : dueCount'[d] = IF d \in New THEN dueCount[d] + 1 ELSE dueCount[d]
  BY <1>1, OneMore
<1>3. Schedule!TypeOK'
  <2>1. now' \in 0 .. MaxTime
    BY <1>1, JobsAssumption
  <2>2. \A r \in Runners : batch'[r] = batch[r] /\ due'[r] = due[r]
    BY <1>1
  <2> QED BY <1>1, <1>2, <2>1, <2>2 DEF Schedule!TypeOK
<1>4. IdleHoldsNone'
  BY <1>1 DEF IdleHoldsNone
<1>5. ASSUME NEW d \in Deposits, d \notin New
      PROVE  Schedule!Due(d)' <=> Schedule!Due(d)
  <2>1. Schedule!Active(d)' <=> Schedule!Active(d)
    BY <1>1 DEF Schedule!Active
  <2>2. PICK n \in Nat, t \in Nat : n = next[d] /\ t = now /\ now' = t + 1 /\ next'[d] = n
    BY <1>1, JobsAssumption
  <2>3. CASE Schedule!Active(d)
    <3>1. n # t + 1
      BY <1>5, <2>2, <2>3 DEF New
    <3>2. n <= t + 1 <=> n <= t
      BY <3>1
    <3> QED BY <2>1, <2>2, <2>3, <3>2 DEF Schedule!Due
  <2>4. CASE ~Schedule!Active(d)
    BY <2>1, <2>4 DEF Schedule!Due
  <2> QED BY <2>3, <2>4
<1>6. ASSUME NEW d \in Deposits
      PROVE  /\ Claimants(d)' = Claimants(d)
             /\ claims'[d] = claims[d] /\ charges'[d] = charges[d] /\ dropped'[d] = dropped[d]
             /\ missed'[d] = missed[d]
  BY <1>1 DEF Claimants
<1>7. ASSUME NEW d \in Deposits PROVE ClaimAccounted(d)'
  BY <1>3, <1>6, AccountKept
<1>8. ASSUME NEW d \in Deposits PROVE Covered(d)'
  <2>1. CASE d \in New
    BY <1>2, <1>3, <1>6, <2>1, CoveredKept
  <2>2. CASE d \notin New
    <3>1. MayClaim(d)' = MayClaim(d)
      BY <1>1, <1>5, <2>2, SameRunners
    <3> QED BY <1>2, <1>3, <1>6, <2>2, <3>1, CoveredKept
  <2> QED BY <2>1, <2>2
<1> QED BY <1>3, <1>4, <1>7, <1>8


(* Steps that only move a batch: it lists rows, or begins or ends.         *)
LEMMA BatchPreserves ==
  ASSUME ScheduleInv, NEW r \in Runners,
         Schedule!ListDue(r) \/ Schedule!ClaimReturns(r) \/ Schedule!BatchEnds(r)
  PROVE  ScheduleInv'
<1> USE DEF ScheduleInv
<1>1. /\ UNCHANGED <<now, request, frequency, next, due, dueCount, claims, charges, dropped,
                     missed, cutOff>>
      /\ \A e \in Deposits : Schedule!Due(e)' <=> Schedule!Due(e)
  <2>1. UNCHANGED <<now, request, frequency, next, due, dueCount, claims, charges, dropped,
                     missed, cutOff>>
    BY DEF Schedule!ListDue, Schedule!ClaimReturns, Schedule!BatchEnds, Schedule!scheduleVars,
           Schedule!chargeVars
  <2> QED BY <2>1 DEF Schedule!Due, Schedule!Active
<1> DEFINE Moved(phase, time, rows) ==
        /\ batch' = [batch EXCEPT ![r] = [phase |-> phase, time |-> time, rows |-> rows]]
        /\ phase # "claiming" => rows = {}
        /\ phase = "idle" \/ rows # {} => due[r] = {}
        /\ \A d \in rows : Schedule!Due(d)
<1>2. PICK phase \in {"idle", "claiming", "publishing"}, time \in 0 .. MaxTime,
           rows \in SUBSET Deposits : Moved(phase, time, rows)
  <2>1. CASE Schedule!ListDue(r)
    <3> DEFINE Rows == {d \in Deposits : Schedule!Due(d)}
    <3>1. batch' = [batch EXCEPT ![r] = [phase |-> "claiming", time |-> now, rows |-> Rows]]
      BY <2>1 DEF Schedule!ListDue
    <3>2. due[r] = {} /\ now \in 0 .. MaxTime
      BY <2>1 DEF Schedule!ListDue, IdleHoldsNone, Schedule!TypeOK
    <3>3. Moved("claiming", now, Rows)
      BY <3>1, <3>2
    <3> HIDE DEF Moved
    <3> QED BY <3>2, <3>3
  <2>2. CASE Schedule!ClaimReturns(r)
    <3>1. batch[r] \in [phase: {"idle", "claiming", "publishing"},
                        time: 0 .. MaxTime, rows: SUBSET Deposits]
      BY DEF Schedule!TypeOK
    <3>2. /\ batch' = [batch EXCEPT ![r].phase = "publishing"] /\ batch[r].rows = {}
      BY <2>2 DEF Schedule!ClaimReturns
    <3>3. PICK t \in 0 .. MaxTime : t = batch[r].time
      BY <3>1
    <3>4. [batch[r] EXCEPT !.phase = "publishing"] = [phase |-> "publishing", time |-> t,
                                                      rows |-> {}]
      BY <3>1, <3>2, <3>3
    <3>5. batch' = [batch EXCEPT ![r] = [batch[r] EXCEPT !.phase = "publishing"]]
      BY <3>2
    <3>6. batch' = [batch EXCEPT ![r] = [phase |-> "publishing", time |-> t, rows |-> {}]]
      BY <3>4, <3>5
    <3>7. Moved("publishing", t, {})
      BY <3>6
    <3> HIDE DEF Moved
    <3> QED BY <3>7
  <2>3. CASE Schedule!BatchEnds(r)
    <3>1. /\ batch' = [batch EXCEPT ![r] = [phase |-> "idle", time |-> 0, rows |-> {}]]
          /\ due[r] = {}
      BY <2>3 DEF Schedule!BatchEnds, Schedule!Idle
    <3>2. 0 \in 0 .. MaxTime
      BY JobsAssumption
    <3>3. Moved("idle", 0, {})
      BY <3>1
    <3> HIDE DEF Moved
    <3> QED BY <3>2, <3>3
  <2> QED BY <2>1, <2>2, <2>3
<1>3. /\ \A q \in Runners \ {r} : batch'[q] = batch[q]
      /\ batch'[r].rows = rows /\ batch'[r].phase = phase
      /\ batch' \in [Runners -> [phase: {"idle", "claiming", "publishing"},
                                 time: 0 .. MaxTime, rows: SUBSET Deposits]]
  BY <1>2 DEF Schedule!TypeOK
<1>4. Schedule!TypeOK'
  BY <1>1, <1>2, <1>3 DEF Schedule!TypeOK
<1>5. IdleHoldsNone'
  BY <1>1, <1>2, <1>3 DEF IdleHoldsNone
<1>6. ASSUME NEW d \in Deposits
      PROVE  /\ MayClaim(d)' \subseteq MayClaim(d) /\ Claimants(d)' = Claimants(d)
             /\ claims'[d] = claims[d] /\ charges'[d] = charges[d] /\ dropped'[d] = dropped[d]
             /\ dueCount'[d] = dueCount[d] /\ missed'[d] = missed[d]
  <2>1. Claimants(d)' = Claimants(d)
    BY <1>1 DEF Claimants
  <2>2. CASE Schedule!Due(d)
    BY <1>1, <2>1, <2>2 DEF MayClaim
  <2>3. CASE ~Schedule!Due(d)
    <3>1. Listers(d)' \subseteq Listers(d)
      BY <1>2, <1>3, <2>3 DEF Listers
    <3> QED BY <1>1, <2>1, <2>3, <3>1 DEF MayClaim
  <2> QED BY <1>1, <2>1, <2>2, <2>3
<1>7. ASSUME NEW d \in Deposits PROVE ClaimAccounted(d)'
  BY <1>4, <1>6, AccountKept
<1>8. ASSUME NEW d \in Deposits PROVE Covered(d)'
  BY <1>4, <1>6, CoveredKept
<1> QED BY <1>4, <1>5, <1>7, <1>8

LEMMA AdvancePreserves ==
  ASSUME ScheduleInv, NEW r \in Runners, NEW d \in Deposits, Schedule!Advance(r, d)
  PROVE  ScheduleInv'
<1> USE DEF ScheduleInv
<1>1. /\ UNCHANGED <<now, request, frequency, charges, dropped, cutOff>>
      /\ d \in batch[r].rows
      /\ batch' = [batch EXCEPT ![r].rows = @ \ {d}]
      /\ due' = [due EXCEPT ![r] = @ \cup {d}]
      /\ claims' = Schedule!Count(claims, {d})
  BY DEF Schedule!Advance
<1>2. /\ batch \in [Runners -> [phase: {"idle", "claiming", "publishing"},
                                time: 0 .. MaxTime, rows: SUBSET Deposits]]
      /\ due \in [Runners -> SUBSET Deposits] /\ claims \in [Deposits -> Nat]
      /\ next \in [Deposits -> Nat] /\ dueCount \in [Deposits -> Nat]
      /\ missed \in [Deposits -> Nat] /\ now \in Nat
  BY JobsAssumption DEF Schedule!TypeOK
<1>3. /\ batch' \in [Runners -> [phase: {"idle", "claiming", "publishing"},
                                 time: 0 .. MaxTime, rows: SUBSET Deposits]]
      /\ \A q \in Runners \ {r} : batch'[q] = batch[q] /\ due'[q] = due[q]
      /\ batch'[r].rows = batch[r].rows \ {d} /\ batch'[r].phase = batch[r].phase
      /\ due'[r] = due[r] \cup {d} /\ due' \in [Runners -> SUBSET Deposits]
  BY <1>1, <1>2
<1>4. PICK date \in Nat : date = batch[r].time + Schedule!Period(frequency[d])
  <2>1. batch[r].time \in Nat
    BY <1>2, JobsAssumption
  <2>2. Schedule!Period(frequency[d]) \in Nat
    BY DEF Schedule!Period
  <2> QED BY <2>1, <2>2
<1>5. \/ /\ Schedule!Active(d)
         /\ next' = [next EXCEPT ![d] = date]
         /\ dueCount' = Schedule!Count(dueCount, IF date <= now THEN {d} ELSE {})
         /\ missed' = missed
      \/ ~Schedule!Active(d) /\ UNCHANGED <<next, dueCount, missed>>
      \/ /\ missed' = Schedule!Count(missed, {d})
         /\ UNCHANGED <<next, dueCount>>
  BY <1>4 DEF Schedule!Advance
<1>6. /\ claims' \in [Deposits -> Nat] /\ dueCount' \in [Deposits -> Nat]
      /\ missed' \in [Deposits -> Nat] /\ next' \in [Deposits -> Nat]
  BY <1>1, <1>2, <1>4, <1>5, OneMore
<1>7. Schedule!TypeOK'
  <2>1. \A q \in Runners : batch'[q].phase # "claiming" => batch'[q].rows = {}
    BY <1>3 DEF Schedule!TypeOK
  <2>2. \A q \in Runners : due'[q] \cap batch'[q].rows = {}
    BY <1>3 DEF Schedule!TypeOK
  <2> QED BY <1>1, <1>3, <1>6, <2>1, <2>2 DEF Schedule!TypeOK
<1>8. IdleHoldsNone'
  BY <1>1, <1>3 DEF IdleHoldsNone, Schedule!TypeOK
<1>9. claims'[d] = claims[d] + 1 /\ \A e \in Deposits \ {d} : claims'[e] = claims[e]
  BY <1>1, <1>2, OneMore
<1>10. ASSUME NEW e \in Deposits, e # d
       PROVE  ClaimAccounted(e)' /\ Covered(e)'
  <2>1. /\ next'[e] = next[e] /\ dueCount'[e] = dueCount[e] /\ missed'[e] = missed[e]
        /\ claims'[e] = claims[e] /\ charges'[e] = charges[e] /\ dropped'[e] = dropped[e]
    <3>1. \A S : e \notin S => /\ Schedule!Count(dueCount, S)[e] = dueCount[e]
                               /\ Schedule!Count(missed, S)[e] = missed[e]
      BY <1>2, OneMore
    <3>2. e \notin (IF date <= now THEN {d} ELSE {})
      BY <1>10
    <3>3. next'[e] = next[e]
      BY <1>2, <1>5, <1>10
    <3>4. e \notin {d}
      BY <1>10
    <3>5. dueCount'[e] = dueCount[e]
      BY <1>5, <3>1, <3>2
    <3>6. missed'[e] = missed[e]
      BY <1>5, <3>1, <3>4
    <3> QED BY <1>1, <1>9, <1>10, <3>3, <3>5, <3>6
  <2>2. Schedule!Due(e)' <=> Schedule!Due(e)
    BY <1>1, <2>1 DEF Schedule!Due, Schedule!Active
  <2>3. MayClaim(e)' = MayClaim(e) /\ Claimants(e)' = Claimants(e)
    BY <1>3, <1>10, <2>2, SameRunners
  <2> QED BY <1>7, <2>1, <2>3, AccountKept, CoveredKept
<1>11. ClaimAccounted(d)'
  <2>1. r \in Runners \ Claimants(d)
    BY <1>1 DEF Claimants, Schedule!TypeOK
  <2>2. Claimants(d)' = Claimants(d) \cup {r}
    BY <1>3 DEF Claimants
  <2> QED BY <1>1, <1>7, <1>9, <2>1, <2>2, AccountKept
<1>12. Covered(d)'
  <2>1. r \in Listers(d) /\ Listers(d) \subseteq Runners
    BY <1>1 DEF Listers
  <2>2. r \in MayClaim(d) /\ Listers(d) \subseteq MayClaim(d)
    BY <2>1 DEF MayClaim
  <2>3. Listers(d)' \subseteq Listers(d) \ {r}
    BY <1>3 DEF Listers
  <2>4. CASE /\ next' = [next EXCEPT ![d] = date]
             /\ dueCount' = Schedule!Count(dueCount, IF date <= now THEN {d} ELSE {})
             /\ missed' = missed
    <3>1. CASE date <= now
      <4>1. dueCount'[d] = dueCount[d] + 1
        BY <1>2, <2>4, <3>1, OneMore
      <4> QED BY <1>7, <1>9, <2>2, <2>4, <4>1, CoveredKept
    <3>2. CASE ~(date <= now)
      <4>1. dueCount'[d] = dueCount[d]
        BY <1>2, <2>4, <3>2, OneMore
      <4>2. ~Schedule!Due(d)'
        BY <1>1, <1>2, <2>4, <3>2 DEF Schedule!Due
      <4>3. MayClaim(d)' \subseteq MayClaim(d) \ {r}
        BY <2>2, <2>3, <4>2 DEF MayClaim
      <4> QED BY <1>7, <1>9, <2>2, <2>4, <4>1, <4>3, CoveredKept
    <3> QED BY <3>1, <3>2
  <2>5. CASE ~Schedule!Active(d) /\ UNCHANGED <<next, dueCount, missed>>
    <3>1. ~Schedule!Due(d)'
      BY <1>1, <2>5 DEF Schedule!Due, Schedule!Active
    <3>2. MayClaim(d)' \subseteq MayClaim(d) \ {r}
      BY <2>2, <2>3, <3>1 DEF MayClaim
    <3> QED BY <1>7, <1>9, <2>2, <2>5, <3>2, CoveredKept
  <2>6. CASE missed' = Schedule!Count(missed, {d}) /\ UNCHANGED <<next, dueCount>>
    <3>1. missed'[d] = missed[d] + 1 /\ dueCount'[d] = dueCount[d]
      BY <1>2, <2>6, OneMore
    <3>2. Schedule!Due(d)' <=> Schedule!Due(d)
      BY <1>1, <2>6 DEF Schedule!Due, Schedule!Active
    <3>3. MayClaim(d)' \subseteq MayClaim(d)
      BY <2>3, <3>2 DEF MayClaim
    <3> QED BY <1>7, <1>9, <3>1, <3>3, CoveredKept
  <2> QED BY <1>5, <2>4, <2>5, <2>6
<1> QED BY <1>7, <1>8, <1>10, <1>11, <1>12

(* A claim is published or dropped: one by Publish, all that a runner      *)
(* holds when its batch is cut off.                                        *)
LEMMA ReleasePreserves ==
  ASSUME ScheduleInv, NEW r \in Runners,
         (\E d \in Deposits : Schedule!Publish(r, d)) \/ Schedule!BatchCutOff(r)
  PROVE  ScheduleInv'
<1> USE DEF ScheduleInv
<1> DEFINE Released(Gone, rows) ==
        /\ UNCHANGED <<now, request, frequency, next, dueCount, claims, missed>>
        /\ \/ charges' = Schedule!Count(charges, Gone) /\ UNCHANGED dropped
           \/ dropped' = Schedule!Count(dropped, Gone) /\ UNCHANGED charges
        /\ due' = [due EXCEPT ![r] = due[r] \ Gone]
        /\ \/ batch' = [batch EXCEPT ![r] = Schedule!Idle] /\ Gone = due[r] /\ rows = {}
           \/ batch' = batch /\ rows = batch[r].rows
        /\ cutOff' \in 0 .. MaxCutOff
<1>1. PICK Gone \in SUBSET due[r], rows \in SUBSET batch[r].rows : Released(Gone, rows)
  <2>1. ASSUME NEW d \in Deposits, Schedule!Publish(r, d)
        PROVE  \E Gone \in SUBSET due[r], rows \in SUBSET batch[r].rows : Released(Gone, rows)
    <3>1. d \in due[r] /\ {d} \in SUBSET due[r] /\ cutOff \in 0 .. MaxCutOff
      BY <2>1 DEF Schedule!Publish, Schedule!TypeOK
    <3>2. Released({d}, batch[r].rows)
      BY <2>1, <3>1 DEF Schedule!Publish, Schedule!scheduleVars
    <3> HIDE DEF Released
    <3> QED BY <3>1, <3>2
  <2>2. CASE Schedule!BatchCutOff(r)
    <3>1. cutOff' \in 0 .. MaxCutOff
      BY <2>2, JobsAssumption DEF Schedule!BatchCutOff, Schedule!TypeOK
    <3>2. due[r] \ due[r] = {}
      OBVIOUS
    <3>3. Released(due[r], {})
      BY <2>2, <3>1, <3>2 DEF Schedule!BatchCutOff, Schedule!scheduleVars
    <3> HIDE DEF Released
    <3> QED BY <3>3
  <2> QED BY <2>1, <2>2
<1>2. /\ batch \in [Runners -> [phase: {"idle", "claiming", "publishing"},
                                time: 0 .. MaxTime, rows: SUBSET Deposits]]
      /\ due \in [Runners -> SUBSET Deposits]
      /\ charges \in [Deposits -> Nat] /\ dropped \in [Deposits -> Nat]
  BY DEF Schedule!TypeOK
<1>3. /\ batch' \in [Runners -> [phase: {"idle", "claiming", "publishing"},
                                 time: 0 .. MaxTime, rows: SUBSET Deposits]]
      /\ due' \in [Runners -> SUBSET Deposits]
      /\ \A q \in Runners \ {r} : batch'[q] = batch[q] /\ due'[q] = due[q]
      /\ due'[r] = due[r] \ Gone /\ batch'[r].rows = rows
      /\ batch'[r] = batch[r] \/ (batch'[r].phase = "idle" /\ Gone = due[r] /\ rows = {})
  <2>1. Schedule!Idle \in [phase: {"idle", "claiming", "publishing"},
                           time: 0 .. MaxTime, rows: SUBSET Deposits]
    BY JobsAssumption DEF Schedule!Idle
  <2>2. Schedule!Idle.rows = {} /\ Schedule!Idle.phase = "idle"
    BY DEF Schedule!Idle
  <2>3. /\ due' \in [Runners -> SUBSET Deposits] /\ due'[r] = due[r] \ Gone
        /\ \A q \in Runners \ {r} : due'[q] = due[q]
    BY <1>1, <1>2
  <2>4. CASE batch' = [batch EXCEPT ![r] = Schedule!Idle] /\ Gone = due[r] /\ rows = {}
    <3>1. /\ batch'[r] = Schedule!Idle /\ \A q \in Runners \ {r} : batch'[q] = batch[q]
          /\ batch' \in [Runners -> [phase: {"idle", "claiming", "publishing"},
                                     time: 0 .. MaxTime, rows: SUBSET Deposits]]
      BY <1>2, <2>1, <2>4
    <3> QED BY <2>2, <2>3, <2>4, <3>1
  <2>5. CASE batch' = batch /\ rows = batch[r].rows
    <3>1. /\ batch'[r] = batch[r] /\ \A q \in Runners \ {r} : batch'[q] = batch[q]
          /\ batch'[r].rows = rows
      BY <2>5
    <3>2. batch' \in [Runners -> [phase: {"idle", "claiming", "publishing"},
                                  time: 0 .. MaxTime, rows: SUBSET Deposits]]
      BY <1>2, <2>5, Zenon
    <3> QED BY <2>3, <3>1, <3>2, Zenon
  <2>6. \/ batch' = [batch EXCEPT ![r] = Schedule!Idle] /\ Gone = due[r] /\ rows = {}
        \/ batch' = batch /\ rows = batch[r].rows
    BY <1>1
  <2> QED BY <2>4, <2>5, <2>6, Zenon
<1>4. charges' \in [Deposits -> Nat] /\ dropped' \in [Deposits -> Nat]
  BY <1>1, <1>2, OneMore
<1>5. Schedule!TypeOK'
  <2>1. \A q \in Runners : batch'[q].phase # "claiming" => batch'[q].rows = {}
    BY <1>3 DEF Schedule!TypeOK
  <2>2. \A q \in Runners : due'[q] \cap batch'[q].rows = {}
    BY <1>1, <1>3 DEF Schedule!TypeOK
  <2> QED BY <1>1, <1>3, <1>4, <2>1, <2>2 DEF Schedule!TypeOK
<1>6. IdleHoldsNone'
  BY <1>3 DEF IdleHoldsNone
<1>7. ASSUME NEW d \in Deposits PROVE Covered(d)'
  <2>1. Schedule!Due(d)' <=> Schedule!Due(d)
    BY <1>1 DEF Schedule!Due, Schedule!Active
  <2>2. Listers(d)' \subseteq Listers(d)
    BY <1>1, <1>3 DEF Listers
  <2>3. MayClaim(d)' \subseteq MayClaim(d)
    BY <2>1, <2>2 DEF MayClaim
  <2> QED BY <1>1, <1>5, <2>3, CoveredKept
<1>8. ASSUME NEW d \in Deposits PROVE ClaimAccounted(d)'
  <2>1. CASE d \in Gone
    <3>1. r \in Claimants(d) /\ Claimants(d)' = Claimants(d) \ {r}
      BY <1>1, <1>3, <2>1 DEF Claimants
    <3>2. \/ charges'[d] = charges[d] + 1 /\ dropped'[d] = dropped[d]
          \/ charges'[d] = charges[d] /\ dropped'[d] = dropped[d] + 1
      BY <1>1, <1>2, <2>1, OneMore
    <3> QED BY <1>1, <1>5, <3>1, <3>2, AccountKept
  <2>2. CASE d \notin Gone
    <3>1. Claimants(d)' = Claimants(d)
      BY <1>3, <2>2 DEF Claimants
    <3>2. charges'[d] = charges[d] /\ dropped'[d] = dropped[d]
      BY <1>1, <1>2, <2>2, OneMore
    <3> QED BY <1>1, <1>5, <3>1, <3>2, AccountKept
  <2> QED BY <2>1, <2>2
<1> QED BY <1>5, <1>6, <1>7, <1>8

LEMMA ScheduleStepInv ==
  ASSUME ScheduleInv, [Schedule!Next]_scheduleVars
  PROVE  ScheduleInv'
<1>1. CASE Schedule!Tick
  BY <1>1, TickPreserves
<1>2. ASSUME NEW d \in Deposits,
             Schedule!CreateRecurringDeposit(d) \/ Schedule!ExecuteGDPRErasure(d)
      PROVE  ScheduleInv'
  BY <1>2, RequestPreserves
<1>3. ASSUME NEW r \in Runners, Schedule!RunACHRecurringBatch(r) \/ Schedule!BatchCutOff(r)
      PROVE  ScheduleInv'
  BY <1>3, BatchPreserves, AdvancePreserves, ReleasePreserves DEF Schedule!RunACHRecurringBatch
<1>4. CASE UNCHANGED scheduleVars
  BY <1>4 DEF scheduleVars, ScheduleInv, Schedule!TypeOK, IdleHoldsNone, ClaimAccounted,
              Claimants, Covered, MayClaim, Listers, Schedule!Due, Schedule!Active
<1> QED
  BY <1>1, <1>2, <1>3, <1>4 DEF Schedule!Next

(* The invariant bounds what is charged by what was claimed. *)
LEMMA ScheduleAccounted ==
  ASSUME ScheduleInv
  PROVE  Schedule!TypeOK /\ Schedule!ClaimsAccounted /\ Schedule!ChargesBounded
<1> USE DEF ScheduleInv
<1>1. ASSUME NEW d \in Deposits
      PROVE  charges[d] <= Schedule!Cardinality(Runners) * dueCount[d] + missed[d]
  <2>1. PICK a \in Nat, b \in Nat, c \in Nat, n \in Nat, m \in Nat, k \in Nat, u \in Nat,
             x \in Nat :
          /\ a = claims[d] /\ b = charges[d] /\ c = dropped[d] /\ u = missed[d]
          /\ n = Cardinality(Claimants(d)) /\ m = Cardinality(MayClaim(d))
          /\ k = Cardinality(Runners) /\ x = dueCount[d]
    <3>1. /\ claims[d] \in Nat /\ charges[d] \in Nat /\ dropped[d] \in Nat
          /\ missed[d] \in Nat /\ dueCount[d] \in Nat
      BY DEF Schedule!TypeOK
    <3> QED BY <3>1, RunnerCounts
  <2>2. a = b + c + n /\ a + m <= k * x + u /\ k * x \in Nat
    BY <2>1 DEF ClaimAccounted, Covered
  <2>3. b <= k * x + u
    BY <2>2
  <2> QED BY <2>1, <2>3, SameCardinality
<1> QED
  BY <1>1, ClaimsAre DEF Schedule!ChargesBounded
-----------------------------------------------------------------------------
(***************************************************************************)
(* Monthly reports.                                                        *)
(***************************************************************************)

(* Nothing went wrong with the files of a month, and a second row of it    *)
(* was never asked for in vain.                                            *)
Calm(m) == tale[m].lost = {} /\ ~tale[m].cut /\ ~tale[m].overlap
Trusted(m) == (db = "memory" /\ ~tale[m].kept) \/ tale[m].again = {}

Stored(m, f) == files[m][f].there \/ f \in tale[m].lost
NoneAt(m, S) == \A a \in Reports!Askers : Reports!At(a, m) => maker[a].at \notin S
Uploaded(fig) == [there |-> TRUE, of |-> fig]

(* What a generation has done by the time it has come so far.  The hourly  *)
(* check began it because there was no row, and only another generation    *)
(* could have saved one.                                                   *)
MakerFits(a) ==
  LET m == maker[a].period
      at == maker[a].at
      got == maker[a].got
  IN  /\ a = "consumer" /\ at # "idle" => asked > 0
      /\ at \in {"csv", "save", "announce"} => Stored(m, "pdf")
      /\ at \in {"save", "announce"} => Stored(m, "csv")
      /\ at = "announce" => row[m].is # "none"
      /\ Calm(m) /\ at \in {"csv", "save", "announce"} => files[m]["pdf"] = Uploaded(got)
      /\ Calm(m) /\ at \in {"save", "announce"} => files[m]["csv"] = Uploaded(got)
      /\ a = "ticker" /\ at \notin {"idle", "announce"} /\ ~tale[m].blind /\ ~tale[m].overlap
         => row[m].is = "none"

(* What holds of a month's report whatever has been made of it: between    *)
(* the two uploads of a calm generation the files differ, and from the     *)
(* second upload to the saving of the row they are ahead of the row.       *)
MonthFits(m) ==
  /\ ~tale[m].overlap => \A a, b \in Reports!Askers : Reports!At(a, m) /\ Reports!At(b, m) => a = b
  /\ Calm(m) /\ NoneAt(m, {"csv"}) => files[m]["pdf"] = files[m]["csv"]
  /\ Calm(m) /\ Trusted(m) /\ row[m].is = "saved" /\ NoneAt(m, {"csv", "save"}) =>
        \A f \in Reports!Formats : files[m][f].there => files[m][f].of = row[m].of
  /\ "ticker" \in tale[m].again => tale[m].blind \/ tale[m].overlap
  /\ m \in announced => row[m].is # "none" /\ \A f \in Reports!Formats : Stored(m, f)

ReportInv ==
  /\ Reports!ReportTypeOK
  /\ \A a \in Reports!Askers : MakerFits(a)
  /\ \A m \in Months : MonthFits(m)

Makers == [at: {"idle", "figures", "pdf", "csv", "save", "announce"},
           period: Months, got: Reports!Figure]
Rows == [is: {"none", "seeded", "saved"}, of: Reports!Figure]
Files == [Reports!Formats -> [there: BOOLEAN, of: Reports!Figure]]
Tales == [lost: SUBSET Reports!Formats, overlap: BOOLEAN, cut: BOOLEAN,
          blind: BOOLEAN, kept: BOOLEAN, again: SUBSET Reports!Askers]

LEMMA ReportTypes ==
  Reports!ReportTypeOK <=>
    /\ db \in {"postgres", "memory"} /\ month \in Months
    /\ figures \in 0 .. MaxFigures /\ asked \in 0 .. 1 /\ faults \in 0 .. MaxFaults
    /\ made \in 0 .. MaxMade
    /\ maker \in [Reports!Askers -> Makers] /\ row \in [Months -> Rows]
    /\ files \in [Months -> Files] /\ announced \in SUBSET Months
    /\ tale \in [Months -> Tales]
BY DEF Reports!ReportTypeOK, Makers, Rows, Files, Tales, Reports!MaxAsked

LEMMA NoFigureType ==
  /\ Reports!NoFigure \in Reports!Figure
  /\ Reports!Idle \in Makers /\ Reports!Idle.at = "idle"
<1>1. 0 \in 0 .. MaxFigures /\ 1 \in Months
  BY JobsAssumption
<1>2. Reports!NoFigure \in Reports!Figure
  BY <1>1 DEF Reports!NoFigure, Reports!Figure
<1> QED
  BY <1>1, <1>2 DEF Reports!Idle, Makers

LEMMA ReportInitInv == Reports!ReportInit => ReportInv
<1>1. SUFFICES ASSUME Reports!ReportInit PROVE ReportInv
  OBVIOUS
<1>2. /\ db \in {"postgres", "memory"}
      /\ month = 1 /\ figures = 0 /\ asked = 0 /\ faults = 0 /\ made = 0
      /\ maker = [a \in Reports!Askers |-> Reports!Idle]
      /\ files = [m \in Months |-> [f \in Reports!Formats |-> Reports!NoFile]]
      /\ announced = {}
      /\ tale = [m \in Months |-> [lost |-> {}, overlap |-> FALSE, cut |-> FALSE,
                                   blind |-> FALSE, kept |-> FALSE, again |-> {}]]
  BY <1>1 DEF Reports!ReportInit
<1>3. row \in [Months -> Rows] /\ \A m \in Months : row[m].is # "saved"
  <2>1. /\ Reports!NoRow \in Rows /\ Reports!NoRow.is = "none"
        /\ \A m \in Months : /\ Reports!seedExecutiveReports(m) \in Rows
                             /\ Reports!seedExecutiveReports(m).is # "saved"
    BY NoFigureType DEF Reports!NoRow, Rows, Reports!seedExecutiveReports
  <2>2. \/ row = [m \in Months |-> Reports!seedExecutiveReports(m)]
        \/ row = [m \in Months |-> Reports!NoRow]
    BY <1>1 DEF Reports!ReportInit
  <2> QED BY <2>1, <2>2
<1>4. files \in [Months -> Files]
  <2>1. Reports!NoFile \in [there: BOOLEAN, of: Reports!Figure]
    BY NoFigureType DEF Reports!NoFile
  <2> QED BY <1>2, <2>1 DEF Files
<1>5. tale \in [Months -> Tales]
  BY <1>2 DEF Tales
<1>6. Reports!ReportTypeOK
  BY <1>2, <1>3, <1>4, <1>5, JobsAssumption, NoFigureType, ReportTypes
<1>7. \A a \in Reports!Askers : maker[a].at = "idle"
  BY <1>2, NoFigureType
<1>8. ASSUME NEW a \in Reports!Askers PROVE MakerFits(a)
  BY <1>7 DEF MakerFits
<1>9. ASSUME NEW m \in Months PROVE MonthFits(m)
  <2>1. /\ files[m]["pdf"] = files[m]["csv"] /\ tale[m].again = {} /\ m \notin announced
    BY <1>2 DEF Reports!Formats
  <2>2. \A a \in Reports!Askers : ~Reports!At(a, m)
    BY <1>7 DEF Reports!At
  <2> QED BY <1>3, <2>1, <2>2 DEF MonthFits
<1> QED
  BY <1>6, <1>8, <1>9 DEF ReportInv

(* What is on record of a month only grows. *)
Grown(k) ==
  /\ tale[k].lost \subseteq tale'[k].lost /\ tale[k].again \subseteq tale'[k].again
  /\ tale[k].overlap => tale'[k].overlap
  /\ tale[k].cut => tale'[k].cut
  /\ tale[k].blind => tale'[k].blind
  /\ tale[k].kept => tale'[k].kept
  /\ \A f \in Reports!Formats : files[k][f].there => files'[k][f].there
  /\ row[k].is # "none" => row'[k].is # "none"

(* A step of asker a for month m concerns no other asker and no other      *)
(* month; a generation that begins marks one that is under way.            *)
StepOf(a, m) ==
  /\ \A b \in Reports!Askers \ {a} : maker'[b] = maker[b]
  /\ \A k \in Months \ {m} : /\ files'[k] = files[k] /\ row'[k] = row[k] /\ tale'[k] = tale[k]
                             /\ k \in announced' <=> k \in announced
  /\ Grown(m)
  /\ maker[a].at # "idle" => maker[a].period = m
  /\ maker'[a].at # "idle" => maker'[a].period = m
  /\ db' = db
  /\ asked > 0 /\ a # "consumer" => asked' > 0
  /\ \/ maker[a].at # "idle"
     \/ Reports!Quiet(m)
     \/ tale'[m].overlap

LEMMA OtherMakerKept ==
  ASSUME ReportInv, NEW a \in Reports!Askers, NEW m \in Months, StepOf(a, m),
         NEW b \in Reports!Askers \ {a}
  PROVE  MakerFits(b)'
<1>1. maker'[b] = maker[b] /\ MakerFits(b) /\ maker[b].period \in Months
  <2>1. maker[b] \in Makers
    BY ReportTypes DEF ReportInv
  <2> QED BY <2>1 DEF StepOf, ReportInv, Makers
<1>2. CASE maker[b].at = "idle"
  BY <1>1, <1>2 DEF MakerFits
<1>3. CASE maker[b].at # "idle" /\ maker[b].period # m
  <2> DEFINE k == maker[b].period
  <2>1. files'[k] = files[k] /\ row'[k] = row[k] /\ tale'[k] = tale[k]
    BY <1>1, <1>3 DEF StepOf
  <2>2. b = "consumer" /\ asked > 0 => asked' > 0
    BY DEF StepOf
  <2>3. maker'[b].period = k
    BY <1>1
  <2>4. /\ \A f \in {"pdf", "csv"} : Stored(k, f) => Stored(k, f)'
        /\ Calm(k)' <=> Calm(k)
    BY <2>1, <2>3 DEF Stored, Calm
  <2> QED BY <1>1, <2>1, <2>2, <2>4 DEF MakerFits
<1>4. CASE maker[b].at # "idle" /\ maker[b].period = m
  <2>1. Reports!At(b, m) /\ ~Reports!Quiet(m)
    BY <1>4 DEF Reports!At, Reports!Quiet
  <2>2. tale'[m].overlap
    <3>1. CASE maker[a].at # "idle"
      <4>1. Reports!At(a, m) /\ a # b
        BY <3>1 DEF StepOf, Reports!At
      <4>2. tale[m].overlap
        BY <2>1, <4>1 DEF ReportInv, MonthFits
      <4> QED BY <4>2 DEF StepOf, Grown
    <3> QED BY <3>1, <2>1 DEF StepOf
  <2>3. ~Calm(m)'
    BY <2>2 DEF Calm
  <2>4. \A f \in {"pdf", "csv"} : Stored(m, f) => Stored(m, f)'
    BY DEF Stored, StepOf, Grown, Reports!Formats
  <2>5. b = "consumer" /\ asked > 0 => asked' > 0
    BY DEF StepOf
  <2>6. row[m].is # "none" => row'[m].is # "none"
    BY DEF StepOf, Grown
  <2>7. maker'[b].period = m /\ maker'[b].at = maker[b].at
    BY <1>1, <1>4
  <2> QED BY <1>1, <1>4, <2>2, <2>3, <2>4, <2>5, <2>6, <2>7 DEF MakerFits
<1> QED BY <1>2, <1>3, <1>4

LEMMA OtherMonthKept ==
  ASSUME ReportInv, NEW a \in Reports!Askers, NEW m \in Months, StepOf(a, m),
         NEW k \in Months \ {m}
  PROVE  MonthFits(k)'
<1>1. /\ files'[k] = files[k] /\ row'[k] = row[k] /\ tale'[k] = tale[k] /\ db' = db
      /\ k \in announced' <=> k \in announced
      /\ MonthFits(k)
  BY DEF StepOf, ReportInv
<1>2. ASSUME NEW b \in Reports!Askers
      PROVE  Reports!At(b, k)' <=> Reports!At(b, k)
  BY DEF StepOf, Reports!At
<1>3. ASSUME NEW b \in Reports!Askers, Reports!At(b, k)
      PROVE  maker'[b].at = maker[b].at
  BY <1>3 DEF StepOf, Reports!At
<1>4. /\ Calm(k)' <=> Calm(k)
      /\ Trusted(k)' <=> Trusted(k)
      /\ \A f \in Reports!Formats : Stored(k, f)' <=> Stored(k, f)
  BY <1>1 DEF Calm, Trusted, Stored
<1>5. /\ NoneAt(k, {"csv"})' <=> NoneAt(k, {"csv"})
      /\ NoneAt(k, {"csv", "save"})' <=> NoneAt(k, {"csv", "save"})
  BY <1>2, <1>3 DEF NoneAt
<1> QED
  BY <1>1, <1>2, <1>4, <1>5 DEF MonthFits

LEMMA AskerStepKeeps ==
  ASSUME ReportInv, Reports!ReportTypeOK', NEW a \in Reports!Askers, NEW m \in Months,
         StepOf(a, m), MakerFits(a)', MonthFits(m)'
  PROVE  ReportInv'
<1>1. \A b \in Reports!Askers : MakerFits(b)'
  BY OtherMakerKept
<1>2. \A k \in Months : MonthFits(k)'
  BY OtherMonthKept
<1> QED BY <1>1, <1>2 DEF ReportInv


(* A generation begins, noting one that is under way. *)
LEMMA BeginPreserves ==
  ASSUME ReportInv, NEW a \in Reports!Askers, NEW m \in Months, NEW blind \in BOOLEAN,
         Reports!Begin(a, m), Reports!Noted(m, blind),
         a = "ticker" => blind \/ row[m].is = "none",
         a = "consumer" => asked > 0,
         asked' \in 0 .. 1, asked' >= asked, faults' \in 0 .. MaxFaults,
         UNCHANGED <<db, month, figures, row, files, announced>>
  PROVE  ReportInv'
<1>1. /\ db \in {"postgres", "memory"} /\ month \in Months
      /\ figures \in 0 .. MaxFigures /\ asked \in 0 .. 1 /\ made \in 0 .. MaxMade
      /\ maker \in [Reports!Askers -> Makers] /\ row \in [Months -> Rows]
      /\ files \in [Months -> Files] /\ announced \in SUBSET Months
      /\ tale \in [Months -> Tales]
  BY ReportTypes DEF ReportInv
<1>2. PICK over \in BOOLEAN, bl \in BOOLEAN :
        /\ tale' = [tale EXCEPT ![m].overlap = over, ![m].blind = bl]
        /\ over <=> (tale[m].overlap \/ ~Reports!Quiet(m))
        /\ bl <=> (tale[m].blind \/ blind)
  <2> DEFINE o == tale[m].overlap \/ ~Reports!Quiet(m)
             b == tale[m].blind \/ blind
  <2>1. o \in BOOLEAN /\ b \in BOOLEAN
    OBVIOUS
  <2>2. tale' = [tale EXCEPT ![m].overlap = o, ![m].blind = b]
    BY DEF Reports!Noted
  <2>3. o <=> (tale[m].overlap \/ ~Reports!Quiet(m))
    OBVIOUS
  <2>4. b <=> (tale[m].blind \/ blind)
    OBVIOUS
  <2> HIDE DEF o, b
  <2> QED BY <2>1, <2>2, <2>3, <2>4
<1>3. /\ tale' \in [Months -> Tales]
      /\ \A k \in Months \ {m} : tale'[k] = tale[k]
      /\ tale'[m].lost = tale[m].lost /\ tale'[m].cut = tale[m].cut
      /\ tale'[m].kept = tale[m].kept /\ tale'[m].again = tale[m].again
      /\ tale'[m].overlap = over /\ tale'[m].blind = bl
  BY <1>1, <1>2 DEF Tales
<1>4. /\ maker' \in [Reports!Askers -> Makers]
      /\ \A b \in Reports!Askers \ {a} : maker'[b] = maker[b]
      /\ maker'[a].at = "figures" /\ maker'[a].period = m /\ maker[a].at = "idle"
  <2>1. /\ Reports!Idle \in Makers /\ maker[a].at = "idle"
        /\ maker' = [maker EXCEPT ![a] = [Reports!Idle EXCEPT !.at = "figures", !.period = m]]
    BY NoFigureType DEF Reports!Begin
  <2>2. /\ [Reports!Idle EXCEPT !.at = "figures", !.period = m] \in Makers
        /\ [Reports!Idle EXCEPT !.at = "figures", !.period = m].at = "figures"
        /\ [Reports!Idle EXCEPT !.at = "figures", !.period = m].period = m
    BY <2>1 DEF Makers
  <2> QED BY <1>1, <2>1, <2>2
<1>5. Reports!ReportTypeOK'
  <2>1. made' \in 0 .. MaxMade
    BY <1>1, JobsAssumption DEF Reports!Begin
  <2>2. /\ db' \in {"postgres", "memory"} /\ month' \in Months
        /\ figures' \in 0 .. MaxFigures
        /\ row' \in [Months -> Rows]
        /\ files' \in [Months -> Files] /\ announced' \in SUBSET Months
    BY <1>1
  <2> QED BY <1>3, <1>4, <2>1, <2>2, ReportTypes DEF Reports!ReportTypeOK, Makers, Rows, Files,
         Tales, Reports!MaxAsked
<1>6. StepOf(a, m)
  <2>1. Grown(m)
    BY <1>2, <1>3 DEF Grown
  <2>2. Reports!Quiet(m) \/ tale'[m].overlap
    BY <1>2, <1>3
  <2>3. asked > 0 => asked' > 0
    BY <1>1
  <2> QED BY <1>3, <1>4, <2>1, <2>2, <2>3 DEF StepOf
<1>7. MakerFits(a)'
  <2>1. a = "consumer" => asked' > 0
    BY <1>1
  <2>2. a = "ticker" /\ ~tale'[m].blind => row'[m].is = "none"
    BY <1>2, <1>3
  <2> QED BY <1>4, <2>1, <2>2 DEF MakerFits
<1>8. MonthFits(m)'
  <2>1. CASE tale'[m].overlap
    <3>1. ~Calm(m)'
      BY <2>1 DEF Calm
    <3>2. m \in announced' => row'[m].is # "none" /\ \A f \in Reports!Formats : Stored(m, f)'
      BY <1>3 DEF ReportInv, MonthFits, Stored
    <3> QED BY <2>1, <3>1, <3>2 DEF MonthFits
  <2>2. CASE ~tale'[m].overlap
    <3>1. Reports!Quiet(m) /\ ~tale[m].overlap
      BY <1>2, <1>3, <2>2
    <3>2. \A b \in Reports!Askers : Reports!At(b, m)' => b = a
      BY <1>4, <3>1 DEF Reports!Quiet, Reports!At
    <3>3. NoneAt(m, {"csv"}) /\ NoneAt(m, {"csv", "save"})
      BY <3>1 DEF Reports!Quiet, NoneAt
    <3>4. Calm(m)' => Calm(m)
      BY <1>3, <3>1 DEF Calm
    <3>5. Trusted(m)' => Trusted(m)
      BY <1>3 DEF Trusted
    <3>6. \A f \in Reports!Formats : Stored(m, f) => Stored(m, f)'
      BY <1>3 DEF Stored
    <3>7. "ticker" \in tale'[m].again => tale'[m].blind \/ tale'[m].overlap
      BY <1>2, <1>3 DEF ReportInv, MonthFits
    <3> QED BY <3>2, <3>3, <3>4, <3>5, <3>6, <3>7 DEF ReportInv, MonthFits
  <2> QED BY <2>1, <2>2
<1> QED
  BY <1>5, <1>6, <1>7, <1>8, AskerStepKeeps

LEMMA AskPreserves ==
  ASSUME ReportInv,
         \/ Reports!StartExecutiveReportingWorker \/ Reports!HandleExecutiveReportTrigger
         \/ \E m \in Months : Reports!generateMonthlyReport(m) \/ Reports!TriggerMonthlyReport(m)
  PROVE  ReportInv'
<1>1. /\ month \in Months /\ asked \in 0 .. 1 /\ faults \in 0 .. MaxFaults
      /\ Reports!Askers = {"ticker", "consumer", "portal"}
  BY ReportTypes DEF ReportInv, Reports!Askers
<1>2. CASE Reports!StartExecutiveReportingWorker
  <2>1. PICK bad \in BOOLEAN :
          /\ ~Reports!CheckExecutiveReport(month, bad)
          /\ Reports!Begin("ticker", month) /\ Reports!Noted(month, bad)
          /\ IF bad THEN Reports!Fault ELSE UNCHANGED faults
          /\ UNCHANGED <<db, month, figures, asked, row, files, announced>>
    BY <1>2 DEF Reports!StartExecutiveReportingWorker
  <2>2. faults' \in 0 .. MaxFaults
    BY <1>1, <2>1, JobsAssumption DEF Reports!Fault
  <2>3. bad \/ row[month].is = "none"
    BY <2>1 DEF Reports!CheckExecutiveReport, Reports!GetExecutiveReportByPeriod
  <2>4. asked' \in 0 .. 1 /\ asked' >= asked
    BY <1>1, <2>1
  <2> QED BY <1>1, <2>1, <2>2, <2>3, <2>4, BeginPreserves
<1>3. CASE Reports!HandleExecutiveReportTrigger
  <2>1. /\ asked > 0
        /\ Reports!Begin("consumer", month) /\ Reports!Noted(month, FALSE)
        /\ UNCHANGED <<db, month, figures, asked, row, files, announced, faults>>
    BY <1>3 DEF Reports!HandleExecutiveReportTrigger
  <2>2. asked' \in 0 .. 1 /\ asked' >= asked /\ faults' \in 0 .. MaxFaults
    BY <1>1, <2>1
  <2> QED BY <1>1, <2>1, <2>2, BeginPreserves
<1>4. ASSUME NEW m \in Months, Reports!generateMonthlyReport(m) \/ Reports!TriggerMonthlyReport(m)
      PROVE  ReportInv'
  <2>1. /\ Reports!Begin("portal", m) /\ Reports!Noted(m, FALSE)
        /\ UNCHANGED <<db, month, figures, row, files, announced, faults>>
        /\ asked' = asked \/ (asked' \in {asked, asked + 1} /\ asked' <= 1)
    BY <1>4 DEF Reports!generateMonthlyReport, Reports!TriggerMonthlyReport, Reports!MaxAsked
  <2>2. asked' \in 0 .. 1 /\ asked' >= asked /\ faults' \in 0 .. MaxFaults
    BY <1>1, <2>1
  <2> QED BY <1>1, <2>1, <2>2, BeginPreserves
<1> QED BY <1>2, <1>3, <1>4


(* A generation ends without a report, before its first upload or after    *)
(* its second.                                                             *)
LEMMA FailPreserves ==
  ASSUME ReportInv, NEW a \in Reports!Askers, maker[a].at \in {"figures", "save"},
         Reports!Fails(a), Reports!Fault,
         UNCHANGED <<db, month, figures, asked, row, files, announced, made>>
  PROVE  ReportInv'
<1>1. /\ db \in {"postgres", "memory"} /\ month \in Months
      /\ figures \in 0 .. MaxFigures /\ asked \in 0 .. 1 /\ made \in 0 .. MaxMade
      /\ faults \in 0 .. MaxFaults
      /\ maker \in [Reports!Askers -> Makers] /\ row \in [Months -> Rows]
      /\ files \in [Months -> Files] /\ announced \in SUBSET Months
      /\ tale \in [Months -> Tales]
  BY ReportTypes DEF ReportInv
<1>2. PICK m \in Months : m = maker[a].period
  BY <1>1 DEF Makers
<1>3. PICK cut \in BOOLEAN :
        /\ tale' = [tale EXCEPT ![m].cut = cut]
        /\ cut <=> (tale[m].cut \/ maker[a].at # "figures")
  <2> DEFINE c == tale[m].cut \/ maker[a].at # "figures"
  <2>1. c \in BOOLEAN /\ (c <=> (tale[m].cut \/ maker[a].at # "figures"))
    OBVIOUS
  <2>2. tale' = [tale EXCEPT ![m].cut = c]
    BY <1>2 DEF Reports!Fails
  <2> HIDE DEF c
  <2> QED BY <2>1, <2>2
<1>4. /\ tale' \in [Months -> Tales]
      /\ \A k \in Months \ {m} : tale'[k] = tale[k]
      /\ tale'[m].lost = tale[m].lost /\ tale'[m].blind = tale[m].blind
      /\ tale'[m].kept = tale[m].kept /\ tale'[m].again = tale[m].again
      /\ tale'[m].overlap = tale[m].overlap /\ tale'[m].cut = cut
  BY <1>1, <1>3 DEF Tales
<1>5. /\ maker' \in [Reports!Askers -> Makers]
      /\ \A b \in Reports!Askers \ {a} : maker'[b] = maker[b]
      /\ maker'[a].at = "idle"
  BY <1>1, NoFigureType DEF Reports!Fails
<1>6. Reports!ReportTypeOK'
  <2>1. faults' \in 0 .. MaxFaults
    BY <1>1, JobsAssumption DEF Reports!Fault
  <2>2. /\ db' \in {"postgres", "memory"} /\ month' \in Months
        /\ figures' \in 0 .. MaxFigures /\ asked' \in 0 .. 1 /\ made' \in 0 .. MaxMade
        /\ row' \in [Months -> Rows]
        /\ files' \in [Months -> Files] /\ announced' \in SUBSET Months
    BY <1>1
  <2> QED BY <1>4, <1>5, <2>1, <2>2 DEF Reports!ReportTypeOK, Makers, Rows, Files,
         Tales, Reports!MaxAsked
<1>7. StepOf(a, m)
  <2>1. Grown(m)
    BY <1>3, <1>4 DEF Grown
  <2> QED BY <1>2, <1>4, <1>5, <2>1 DEF StepOf
<1>8. MakerFits(a)'
  BY <1>5 DEF MakerFits
<1>9. MonthFits(m)'
  <2>1. \A b \in Reports!Askers : Reports!At(b, m)' => Reports!At(b, m) /\ b # a
    BY <1>5 DEF Reports!At
  <2>2. \A f \in Reports!Formats : Stored(m, f) => Stored(m, f)'
    BY <1>4 DEF Stored
  <2>3. Trusted(m)' => Trusted(m)
    BY <1>4 DEF Trusted
  <2>4. Calm(m)' => Calm(m) /\ maker[a].at = "figures"
    BY <1>3, <1>4 DEF Calm
  <2>5. Reports!At(a, m)
    BY <1>2 DEF Reports!At
  <2>6. Calm(m)' => NoneAt(m, {"csv"}) /\ NoneAt(m, {"csv", "save"})
    <3>1. ASSUME Calm(m)', NEW b \in Reports!Askers, Reports!At(b, m) PROVE b = a
      BY <2>4, <2>5, <3>1 DEF ReportInv, MonthFits, Calm
    <3> QED BY <2>4, <3>1 DEF NoneAt
  <2> QED BY <1>4, <2>1, <2>2, <2>3, <2>4, <2>6 DEF ReportInv, MonthFits
<1> QED
  BY <1>6, <1>7, <1>8, <1>9, AskerStepKeeps

LEMMA FiguresPreserves ==
  ASSUME ReportInv, NEW a \in Reports!Askers, Reports!GetFinancialMetrics(a)
  PROVE  ReportInv'
<1>1. /\ db \in {"postgres", "memory"} /\ month \in Months
      /\ figures \in 0 .. MaxFigures /\ asked \in 0 .. 1 /\ made \in 0 .. MaxMade
      /\ faults \in 0 .. MaxFaults
      /\ maker \in [Reports!Askers -> Makers] /\ row \in [Months -> Rows]
      /\ files \in [Months -> Files] /\ announced \in SUBSET Months
      /\ tale \in [Months -> Tales]
  BY ReportTypes DEF ReportInv
<1>2. /\ maker[a].at = "figures"
      /\ UNCHANGED <<db, month, figures, asked, row, files, announced, made>>
  BY DEF Reports!GetFinancialMetrics
<1>3. CASE Reports!NoAccounts(a)
  BY <1>2, <1>3, FailPreserves DEF Reports!NoAccounts
<1>4. ASSUME NEW answered \in BOOLEAN,
             maker' = [maker EXCEPT ![a].got = Reports!buildWorkforceMetrics(answered),
                                    ![a].at = "pdf"],
             IF answered THEN UNCHANGED faults ELSE Reports!Fault,
             UNCHANGED tale
      PROVE  ReportInv'
  <2>1. Reports!buildWorkforceMetrics(answered) \in Reports!Figure
    BY <1>1 DEF Reports!buildWorkforceMetrics, Reports!Figure
  <2>2. PICK m \in Months : m = maker[a].period
    BY <1>1 DEF Makers
  <2>3. /\ maker' \in [Reports!Askers -> Makers]
        /\ \A b \in Reports!Askers \ {a} : maker'[b] = maker[b]
        /\ maker'[a].at = "pdf" /\ maker'[a].period = m
    BY <1>1, <1>4, <2>1, <2>2 DEF Makers
  <2>4. Reports!ReportTypeOK'
    <3>1. faults' \in 0 .. MaxFaults
      BY <1>1, <1>4, JobsAssumption DEF Reports!Fault
    <3>2. /\ db' \in {"postgres", "memory"} /\ month' \in Months
          /\ figures' \in 0 .. MaxFigures /\ asked' \in 0 .. 1 /\ made' \in 0 .. MaxMade
          /\ row' \in [Months -> Rows] /\ tale' \in [Months -> Tales]
          /\ files' \in [Months -> Files] /\ announced' \in SUBSET Months
      BY <1>1, <1>2, <1>4
    <3> QED BY <2>3, <3>1, <3>2 DEF Reports!ReportTypeOK, Makers, Rows, Files,
           Tales, Reports!MaxAsked
  <2>5. StepOf(a, m)
    BY <1>2, <1>4, <2>2, <2>3 DEF StepOf, Grown
  <2>6. MakerFits(a)'
    <3>1. MakerFits(a)
      BY DEF ReportInv
    <3> QED BY <1>2, <1>4, <2>2, <2>3, <3>1 DEF MakerFits
  <2>7. MonthFits(m)'
    <3>1. \A b \in Reports!Askers : Reports!At(b, m)' <=> Reports!At(b, m)
      BY <1>2, <2>2, <2>3 DEF Reports!At
    <3>2. /\ NoneAt(m, {"csv"})' => NoneAt(m, {"csv"})
          /\ NoneAt(m, {"csv", "save"})' => NoneAt(m, {"csv", "save"})
      BY <1>2, <2>3, <3>1 DEF NoneAt
    <3>3. \A f \in Reports!Formats : Stored(m, f) => Stored(m, f)'
      BY <1>2, <1>4 DEF Stored
    <3>4. /\ Calm(m)' => Calm(m)
          /\ Trusted(m)' => Trusted(m)
      BY <1>2, <1>4 DEF Calm, Trusted
    <3> QED BY <1>2, <1>4, <3>1, <3>2, <3>3, <3>4 DEF ReportInv, MonthFits
  <2> QED BY <2>4, <2>5, <2>6, <2>7, AskerStepKeeps
<1> QED
  BY <1>3, <1>4 DEF Reports!GetFinancialMetrics

(* An upload, which may fail. *)
LEMMA UploadPreserves ==
  ASSUME ReportInv, NEW a \in Reports!Askers, NEW f, NEW to,
         (f = "pdf" /\ to = "csv") \/ (f = "csv" /\ to = "save"),
         Reports!ArchiveComplianceReport(a, f, to)
  PROVE  ReportInv'
<1>1. /\ db \in {"postgres", "memory"} /\ month \in Months
      /\ figures \in 0 .. MaxFigures /\ asked \in 0 .. 1 /\ made \in 0 .. MaxMade
      /\ faults \in 0 .. MaxFaults
      /\ maker \in [Reports!Askers -> Makers] /\ row \in [Months -> Rows]
      /\ files \in [Months -> Files] /\ announced \in SUBSET Months
      /\ tale \in [Months -> Tales] /\ MakerFits(a)
  BY ReportTypes DEF ReportInv
<1>2. PICK m \in Months, got \in Reports!Figure : m = maker[a].period /\ got = maker[a].got
  BY <1>1 DEF Makers
<1>3. /\ maker[a].at = f
      /\ maker' = [maker EXCEPT ![a].at = to]
      /\ UNCHANGED <<db, month, figures, asked, row, announced, made>>
      /\ \/ files' = [files EXCEPT ![m][f] = Uploaded(got)] /\ UNCHANGED <<tale, faults>>
         \/ /\ Reports!Fault /\ UNCHANGED files
            /\ tale' = [tale EXCEPT ![m].lost = @ \cup {f}]
  BY <1>2 DEF Reports!ArchiveComplianceReport, Reports!Goes, Reports!UploadWebDAVFile, Uploaded
<1>4. /\ maker' \in [Reports!Askers -> Makers]
      /\ \A b \in Reports!Askers \ {a} : maker'[b] = maker[b]
      /\ maker'[a].at = to /\ maker'[a].period = m /\ maker'[a].got = got
  BY <1>1, <1>2, <1>3 DEF Makers
<1>5. /\ f \in Reports!Formats /\ Reports!Formats = {"pdf", "csv"}
  BY DEF Reports!Formats
<1>6. /\ Reports!At(a, m)
      /\ \A b \in Reports!Askers : Reports!At(b, m)' <=> Reports!At(b, m)
  BY <1>2, <1>3, <1>4 DEF Reports!At
<1>7. ~tale[m].overlap => \A b \in Reports!Askers : Reports!At(b, m) => b = a
  BY <1>6 DEF ReportInv, MonthFits
<1>8. /\ db' \in {"postgres", "memory"} /\ month' \in Months
      /\ figures' \in 0 .. MaxFigures /\ asked' \in 0 .. 1 /\ made' \in 0 .. MaxMade
      /\ row' \in [Months -> Rows] /\ announced' \in SUBSET Months
  BY <1>1, <1>3
<1>9. CASE files' = [files EXCEPT ![m][f] = Uploaded(got)] /\ UNCHANGED <<tale, faults>>
  <2>1. Uploaded(got) \in [there: BOOLEAN, of: Reports!Figure] /\ Uploaded(got).there
    BY DEF Uploaded
  <2>2. /\ files' \in [Months -> Files]
        /\ \A k \in Months \ {m} : files'[k] = files[k]
        /\ files'[m][f] = Uploaded(got)
        /\ \A g \in Reports!Formats \ {f} : files'[m][g] = files[m][g]
    BY <1>1, <1>5, <1>9, <2>1 DEF Files
  <2>3. Reports!ReportTypeOK'
    BY <1>1, <1>4, <1>8, <1>9, <2>2 DEF Reports!ReportTypeOK, Makers, Rows, Files,
           Tales, Reports!MaxAsked
  <2>4. StepOf(a, m)
    <3>1. Grown(m)
      BY <1>3, <1>9, <2>1, <2>2 DEF Grown
    <3> QED BY <1>2, <1>3, <1>4, <1>5, <1>9, <2>2, <3>1 DEF StepOf
  <2>5. \A g \in Reports!Formats : Stored(m, g) => Stored(m, g)'
    BY <1>9, <2>1, <2>2 DEF Stored
  <2>6. Stored(m, f)'
    BY <2>1, <2>2 DEF Stored
  <2>7. Calm(m)' <=> Calm(m)
    BY <1>9 DEF Calm
  <2>8. MakerFits(a)'
    BY <1>1, <1>2, <1>3, <1>4, <1>5, <1>9, <2>2, <2>5, <2>6, <2>7 DEF MakerFits
  <2>9. MonthFits(m)'
    <3>1. Calm(m)' /\ NoneAt(m, {"csv"})' => files'[m]["pdf"] = files'[m]["csv"]
      <4>1. CASE f = "pdf"
        BY <1>4, <1>6, <4>1 DEF NoneAt
      <4>2. CASE f = "csv"
        BY <1>1, <1>2, <1>3, <1>5, <2>2, <2>7, <4>2 DEF MakerFits
      <4> QED BY <4>1, <4>2
    <3>2. ~NoneAt(m, {"csv", "save"})'
      BY <1>4, <1>6 DEF NoneAt
    <3> QED BY <1>3, <1>6, <1>9, <2>5, <3>1, <3>2 DEF ReportInv, MonthFits
  <2> QED BY <2>3, <2>4, <2>8, <2>9, AskerStepKeeps
<1>10. CASE /\ Reports!Fault /\ UNCHANGED files
            /\ tale' = [tale EXCEPT ![m].lost = @ \cup {f}]
  <2>1. /\ tale' \in [Months -> Tales]
        /\ \A k \in Months \ {m} : tale'[k] = tale[k]
        /\ tale'[m].lost = tale[m].lost \cup {f} /\ tale'[m].blind = tale[m].blind
        /\ tale'[m].kept = tale[m].kept /\ tale'[m].again = tale[m].again
        /\ tale'[m].overlap = tale[m].overlap /\ tale'[m].cut = tale[m].cut
    BY <1>1, <1>5, <1>10 DEF Tales
  <2>2. faults' \in 0 .. MaxFaults
    BY <1>1, <1>10, JobsAssumption DEF Reports!Fault
  <2>3. Reports!ReportTypeOK'
    BY <1>1, <1>4, <1>8, <1>10, <2>1, <2>2 DEF Reports!ReportTypeOK, Makers, Rows, Files,
           Tales, Reports!MaxAsked
  <2>4. StepOf(a, m)
    <3>1. Grown(m)
      BY <1>3, <1>10, <2>1 DEF Grown
    <3> QED BY <1>2, <1>3, <1>4, <1>10, <2>1, <3>1 DEF StepOf
  <2>5. \A g \in Reports!Formats : Stored(m, g) => Stored(m, g)'
    BY <1>10, <2>1 DEF Stored
  <2>6. Stored(m, f)' /\ ~Calm(m)'
    BY <2>1 DEF Stored, Calm
  <2>7. MakerFits(a)'
    BY <1>1, <1>2, <1>3, <1>4, <1>5, <2>1, <2>5, <2>6 DEF MakerFits
  <2>8. MonthFits(m)'
    BY <1>3, <1>6, <2>1, <2>5, <2>6 DEF ReportInv, MonthFits
  <2> QED BY <2>3, <2>4, <2>7, <2>8, AskerStepKeeps
<1> QED BY <1>3, <1>9, <1>10


(* The row is saved, or the one that is there answers for it. *)
LEMMA SavePreserves ==
  ASSUME ReportInv, NEW a \in Reports!Askers, Reports!CreateExecutiveReport(a)
  PROVE  ReportInv'
<1>1. /\ db \in {"postgres", "memory"} /\ month \in Months
      /\ figures \in 0 .. MaxFigures /\ asked \in 0 .. 1 /\ made \in 0 .. MaxMade
      /\ faults \in 0 .. MaxFaults
      /\ maker \in [Reports!Askers -> Makers] /\ row \in [Months -> Rows]
      /\ files \in [Months -> Files] /\ announced \in SUBSET Months
      /\ tale \in [Months -> Tales] /\ MakerFits(a)
  BY ReportTypes DEF ReportInv
<1>2. PICK m \in Months, got \in Reports!Figure : m = maker[a].period /\ got = maker[a].got
  BY <1>1 DEF Makers
<1>3. /\ maker[a].at = "save" /\ MonthFits(m)
      /\ UNCHANGED <<db, month, figures, asked, files, announced, made>>
  BY DEF Reports!CreateExecutiveReport, ReportInv
<1>4. CASE Reports!Fault /\ Reports!Fails(a) /\ UNCHANGED row
  BY <1>3, <1>4, FailPreserves
<1>5. ASSUME maker' = [maker EXCEPT ![a].at = "announce"], faults' \in 0 .. MaxFaults,
             NEW new \in Rows, row' = [row EXCEPT ![m] = new], new.is # "none",
             NEW again \in SUBSET Reports!Askers, NEW kept \in BOOLEAN,
             tale' = [tale EXCEPT ![m].again = again, ![m].kept = kept],
             \/ row[m].is = "none" /\ again = tale[m].again
             \/ row[m].is # "none" /\ again = tale[m].again \cup {a},
             tale[m].kept => kept,
             \/ new = Reports!Replaced(got)
             \/ again # {} /\ (kept \/ db # "memory")
      PROVE  ReportInv'
  <2>1. /\ maker' \in [Reports!Askers -> Makers]
        /\ \A b \in Reports!Askers \ {a} : maker'[b] = maker[b]
        /\ maker'[a].at = "announce" /\ maker'[a].period = m /\ maker'[a].got = got
    BY <1>1, <1>2, <1>5 DEF Makers
  <2>2. /\ tale' \in [Months -> Tales]
        /\ \A k \in Months \ {m} : tale'[k] = tale[k]
        /\ tale'[m].lost = tale[m].lost /\ tale'[m].blind = tale[m].blind
        /\ tale'[m].kept = kept /\ tale'[m].again = again
        /\ tale'[m].overlap = tale[m].overlap /\ tale'[m].cut = tale[m].cut
    BY <1>1, <1>5 DEF Tales
  <2>3. /\ row' \in [Months -> Rows] /\ row'[m] = new
        /\ \A k \in Months \ {m} : row'[k] = row[k]
    BY <1>1, <1>5
  <2>4. /\ db' \in {"postgres", "memory"} /\ month' \in Months
        /\ figures' \in 0 .. MaxFigures /\ asked' \in 0 .. 1 /\ made' \in 0 .. MaxMade
        /\ files' \in [Months -> Files] /\ announced' \in SUBSET Months
    BY <1>1, <1>3
  <2>5. Reports!ReportTypeOK'
    BY <1>5, <2>1, <2>2, <2>3, <2>4 DEF Reports!ReportTypeOK, Makers, Rows, Files,
           Tales, Reports!MaxAsked
  <2>6. StepOf(a, m)
    <3>1. Grown(m)
      BY <1>3, <1>5, <2>2, <2>3 DEF Grown
    <3> QED BY <1>2, <1>3, <2>1, <2>2, <2>3, <3>1 DEF StepOf
  <2>7. /\ \A g \in Reports!Formats : Stored(m, g) <=> Stored(m, g)'
        /\ Calm(m) <=> Calm(m)'
    BY <1>3, <2>2 DEF Stored, Calm
  <2>8. /\ Stored(m, "pdf") /\ Stored(m, "csv")
        /\ Calm(m) => files[m]["pdf"] = Uploaded(got) /\ files[m]["csv"] = Uploaded(got)
        /\ a = "consumer" => asked > 0
        /\ a = "ticker" /\ ~tale[m].blind /\ ~tale[m].overlap => row[m].is = "none"
    BY <1>1, <1>2, <1>3 DEF MakerFits
  <2>9. Reports!Formats = {"pdf", "csv"}
    BY DEF Reports!Formats
  <2>10. MakerFits(a)'
    BY <1>3, <1>5, <2>1, <2>3, <2>7, <2>8, <2>9 DEF MakerFits
  <2>11. MonthFits(m)'
    <3>1. \A b \in Reports!Askers : Reports!At(b, m)' <=> Reports!At(b, m)
      BY <1>2, <1>3, <2>1 DEF Reports!At
    <3>2. ~tale'[m].overlap =>
            \A b, c \in Reports!Askers : Reports!At(b, m)' /\ Reports!At(c, m)' => b = c
      BY <1>3, <2>2, <3>1 DEF MonthFits
    <3>3. Calm(m)' => files'[m]["pdf"] = files'[m]["csv"]
      BY <1>3, <2>7, <2>8
    <3>4. Calm(m)' /\ Trusted(m)' =>
            \A f \in Reports!Formats : files'[m][f].of = row'[m].of
      <4>1. Trusted(m)' => new = Reports!Replaced(got)
        BY <1>3, <1>5, <2>2 DEF Trusted
      <4>2. Reports!Replaced(got).of = got /\ Uploaded(got).of = got
        BY DEF Reports!Replaced, Uploaded
      <4> QED BY <1>3, <2>3, <2>7, <2>8, <2>9, <4>1, <4>2
    <3>5. "ticker" \in tale'[m].again => tale'[m].blind \/ tale'[m].overlap
      BY <1>3, <1>5, <2>2, <2>8 DEF MonthFits
    <3>6. \A f \in Reports!Formats : Stored(m, f)'
      BY <2>7, <2>8, <2>9
    <3> QED BY <1>5, <2>3, <3>2, <3>3, <3>4, <3>5, <3>6 DEF MonthFits
  <2> QED BY <2>5, <2>6, <2>10, <2>11, AskerStepKeeps
<1>6. tale[m].again \in SUBSET Reports!Askers /\ tale[m].kept \in BOOLEAN
  BY <1>1 DEF Tales
<1>7. Reports!Replaced(got) \in Rows /\ Reports!Replaced(got).is = "saved"
  BY DEF Reports!Replaced, Rows
<1>8. CASE /\ row' = [row EXCEPT ![m] = IF db = "memory" THEN Reports!Replaced(got)
                                        ELSE Reports!Inserted(m, got)]
           /\ tale' = [tale EXCEPT ![m].again = IF row[m].is = "none" THEN @ ELSE @ \cup {a}]
           /\ Reports!Goes(a, "announce") /\ UNCHANGED faults
  <2> DEFINE new == IF db = "memory" THEN Reports!Replaced(got) ELSE Reports!Inserted(m, got)
             again == IF row[m].is = "none" THEN tale[m].again ELSE tale[m].again \cup {a}
             kept == tale[m].kept
  <2>1. new \in Rows /\ new.is # "none" /\ row[m] \in Rows
    BY <1>1, <1>7 DEF Reports!Inserted
  <2>2. \/ new = Reports!Replaced(got)
        \/ again # {} /\ (kept \/ db # "memory")
    BY DEF Reports!Inserted
  <2>3. /\ again \in SUBSET Reports!Askers /\ kept \in BOOLEAN
        /\ \/ row[m].is = "none" /\ again = tale[m].again
           \/ row[m].is # "none" /\ again = tale[m].again \cup {a}
    BY <1>6
  <2>4. tale' = [tale EXCEPT ![m].again = again, ![m].kept = kept]
    <3>1. \A t \in Tales : [t EXCEPT !.again = again] = [t EXCEPT !.again = again, !.kept = t.kept]
      BY DEF Tales
    <3>2. tale' = [tale EXCEPT ![m] = [tale[m] EXCEPT !.again = again]]
      BY <1>8
    <3>3. tale' = [tale EXCEPT ![m] = [tale[m] EXCEPT !.again = again, !.kept = kept]]
      BY <1>1, <3>1, <3>2
    <3> QED BY <1>1, <3>3
  <2>5. /\ maker' = [maker EXCEPT ![a].at = "announce"] /\ faults' \in 0 .. MaxFaults
        /\ row' = [row EXCEPT ![m] = new]
    BY <1>1, <1>8 DEF Reports!Goes
  <2>6. tale[m].kept => kept
    OBVIOUS
  <2> HIDE DEF new, again, kept
  <2> QED BY <1>5, <2>1, <2>2, <2>3, <2>4, <2>5, <2>6
<1>9. CASE /\ Reports!Fault /\ Reports!GetExecutiveReportByID(m)
           /\ tale' = [tale EXCEPT ![m].again = @ \cup {a}, ![m].kept = TRUE]
           /\ Reports!Goes(a, "announce") /\ UNCHANGED row
  <2> DEFINE new == row[m]
             again == tale[m].again \cup {a}
  <2>1. new \in Rows /\ new.is # "none" /\ row' = [row EXCEPT ![m] = new]
    BY <1>1, <1>9 DEF Reports!GetExecutiveReportByID
  <2>2. /\ again \in SUBSET Reports!Askers /\ again # {}
        /\ row[m].is # "none" /\ again = tale[m].again \cup {a}
    BY <1>6, <2>1
  <2>3. /\ maker' = [maker EXCEPT ![a].at = "announce"] /\ faults' \in 0 .. MaxFaults
        /\ tale' = [tale EXCEPT ![m].again = again, ![m].kept = TRUE]
    BY <1>1, <1>9, JobsAssumption DEF Reports!Goes, Reports!Fault
  <2> HIDE DEF new, again
  <2> QED BY <1>5, <2>1, <2>2, <2>3
<1> QED
  BY <1>2, <1>4, <1>8, <1>9 DEF Reports!CreateExecutiveReport

LEMMA AnnouncePreserves ==
  ASSUME ReportInv, NEW a \in Reports!Askers, Reports!Announce(a)
  PROVE  ReportInv'
<1>1. /\ db \in {"postgres", "memory"} /\ month \in Months
      /\ figures \in 0 .. MaxFigures /\ asked \in 0 .. 1 /\ made \in 0 .. MaxMade
      /\ faults \in 0 .. MaxFaults
      /\ maker \in [Reports!Askers -> Makers] /\ row \in [Months -> Rows]
      /\ files \in [Months -> Files] /\ announced \in SUBSET Months
      /\ tale \in [Months -> Tales] /\ MakerFits(a)
  BY ReportTypes DEF ReportInv
<1>2. PICK m \in Months : m = maker[a].period
  BY <1>1 DEF Makers
<1>3. /\ maker[a].at = "announce" /\ MonthFits(m)
      /\ maker' = [maker EXCEPT ![a] = Reports!Idle]
      /\ UNCHANGED <<db, month, figures, row, files, tale, made>>
      /\ announced' \in {announced, announced \cup {m}}
      /\ asked' = asked \/ (a = "consumer" /\ asked' = asked - 1)
      /\ faults' \in 0 .. MaxFaults
  BY <1>1, <1>2, JobsAssumption DEF Reports!Announce, Reports!Fault, ReportInv
<1>4. /\ maker' \in [Reports!Askers -> Makers] /\ maker'[a].at = "idle"
      /\ \A b \in Reports!Askers \ {a} : maker'[b] = maker[b]
  BY <1>1, <1>3, NoFigureType
<1>5. a = "consumer" => asked > 0
  BY <1>1, <1>3 DEF MakerFits
<1>6. Reports!ReportTypeOK'
  <2>1. asked' \in 0 .. 1
    BY <1>1, <1>3, <1>5
  <2>2. /\ db' \in {"postgres", "memory"} /\ month' \in Months
        /\ figures' \in 0 .. MaxFigures /\ made' \in 0 .. MaxMade
        /\ row' \in [Months -> Rows] /\ tale' \in [Months -> Tales]
        /\ files' \in [Months -> Files] /\ announced' \in SUBSET Months
    BY <1>1, <1>3
  <2> QED BY <1>3, <1>4, <2>1, <2>2 DEF Reports!ReportTypeOK, Makers, Rows, Files,
         Tales, Reports!MaxAsked
<1>7. StepOf(a, m)
  BY <1>2, <1>3, <1>4 DEF StepOf, Grown
<1>8. MakerFits(a)'
  BY <1>4 DEF MakerFits
<1>9. MonthFits(m)'
  <2>1. Reports!At(a, m) /\ \A b \in Reports!Askers : Reports!At(b, m)' => Reports!At(b, m)
    BY <1>2, <1>3, <1>4 DEF Reports!At
  <2>2. /\ NoneAt(m, {"csv"})' => NoneAt(m, {"csv"})
        /\ NoneAt(m, {"csv", "save"})' => NoneAt(m, {"csv", "save"})
    BY <1>2, <1>3, <1>4 DEF NoneAt, Reports!At
  <2>3. \A f \in Reports!Formats : Stored(m, f) /\ Stored(m, f)'
    BY <1>1, <1>2, <1>3 DEF MakerFits, Stored, Reports!Formats
  <2>4. row[m].is # "none"
    BY <1>1, <1>2, <1>3 DEF MakerFits
  <2>5. /\ Calm(m)' => Calm(m)
        /\ Trusted(m)' => Trusted(m)
    BY <1>3 DEF Calm, Trusted
  <2> QED BY <1>3, <2>1, <2>2, <2>3, <2>4, <2>5 DEF MonthFits
<1> QED
  BY <1>6, <1>7, <1>8, <1>9, AskerStepKeeps

LEMMA ReportRestartPreserves ==
  ASSUME ReportInv, Reports!Restart
  PROVE  ReportInv'
<1>1. /\ db \in {"postgres", "memory"} /\ month \in Months
      /\ figures \in 0 .. MaxFigures /\ asked \in 0 .. 1 /\ made \in 0 .. MaxMade
      /\ faults \in 0 .. MaxFaults
      /\ maker \in [Reports!Askers -> Makers] /\ row \in [Months -> Rows]
      /\ files \in [Months -> Files] /\ announced \in SUBSET Months
      /\ tale \in [Months -> Tales]
  BY ReportTypes DEF ReportInv
<1> DEFINE Cut(m) == tale[m].cut \/ \E a \in Reports!Askers : Reports!At(a, m) /\ maker[a].at # "announce"
<1>2. /\ maker' = [a \in Reports!Askers |-> Reports!Idle]
      /\ tale' = [m \in Months |-> [tale[m] EXCEPT !.cut = Cut(m)]]
      /\ UNCHANGED <<db, month, figures, asked, row, files, announced, made>>
      /\ faults' \in 0 .. MaxFaults
  BY <1>1, JobsAssumption DEF Reports!Restart, Reports!Fault
<1>3. \A m \in Months : Cut(m) \in BOOLEAN
  OBVIOUS
<1>4. ASSUME NEW m \in Months
      PROVE  /\ tale'[m] \in Tales
             /\ tale'[m].lost = tale[m].lost /\ tale'[m].blind = tale[m].blind
             /\ tale'[m].kept = tale[m].kept /\ tale'[m].again = tale[m].again
             /\ tale'[m].overlap = tale[m].overlap
             /\ tale'[m].cut = Cut(m)
  <2> HIDE DEF Cut
  <2> QED BY <1>1, <1>2, <1>3 DEF Tales
<1>5. maker' \in [Reports!Askers -> Makers] /\ \A a \in Reports!Askers : maker'[a].at = "idle"
  BY <1>2, NoFigureType
<1>6. Reports!ReportTypeOK'
  <2>1. tale' \in [Months -> Tales]
    <3> HIDE DEF Cut
    <3> QED BY <1>2, <1>4
  <2>2. /\ db' \in {"postgres", "memory"} /\ month' \in Months
        /\ figures' \in 0 .. MaxFigures /\ made' \in 0 .. MaxMade /\ asked' \in 0 .. 1
        /\ row' \in [Months -> Rows]
        /\ files' \in [Months -> Files] /\ announced' \in SUBSET Months
    BY <1>1, <1>2
  <2> QED BY <1>2, <1>5, <2>1, <2>2 DEF Reports!ReportTypeOK, Makers, Rows, Files,
         Tales, Reports!MaxAsked
<1>7. ASSUME NEW a \in Reports!Askers PROVE MakerFits(a)'
  BY <1>5 DEF MakerFits
<1>8. ASSUME NEW m \in Months PROVE MonthFits(m)'
  <2>1. \A a \in Reports!Askers : ~Reports!At(a, m)'
    BY <1>5 DEF Reports!At
  <2>2. Calm(m)' => Calm(m) /\ NoneAt(m, {"csv"}) /\ NoneAt(m, {"csv", "save"})
    BY <1>4 DEF Calm, NoneAt
  <2>3. \A f \in Reports!Formats : Stored(m, f) => Stored(m, f)'
    BY <1>2, <1>4 DEF Stored
  <2>4. Trusted(m)' => Trusted(m)
    BY <1>2, <1>4 DEF Trusted
  <2>5. "ticker" \in tale'[m].again => tale'[m].blind \/ tale'[m].overlap
    BY <1>4 DEF ReportInv, MonthFits
  <2> HIDE DEF Cut
  <2> QED BY <1>2, <2>1, <2>2, <2>3, <2>4, <2>5 DEF ReportInv, MonthFits
<1> QED
  BY <1>6, <1>7, <1>8 DEF ReportInv

LEMMA CalendarPreserves ==
  ASSUME ReportInv,
         Reports!BooksChange \/ Reports!NextMonth \/ UNCHANGED reportVars
  PROVE  ReportInv'
<1>1. /\ UNCHANGED <<db, asked, maker, row, files, announced, tale, faults, made>>
      /\ figures' \in 0 .. MaxFigures /\ month' \in Months
  BY JobsAssumption DEF ReportInv, Reports!ReportTypeOK, Reports!BooksChange,
        Reports!NextMonth, reportVars
<1>2. Reports!ReportTypeOK'
  BY <1>1 DEF ReportInv, Reports!ReportTypeOK
<1>3. ASSUME NEW a \in Reports!Askers PROVE MakerFits(a)'
  BY <1>1 DEF ReportInv, MakerFits, Stored, Calm
<1>4. ASSUME NEW m \in Months PROVE MonthFits(m)'
  BY <1>1 DEF ReportInv, MonthFits, Stored, Calm, Trusted, NoneAt, Reports!At
<1> QED BY <1>2, <1>3, <1>4 DEF ReportInv

LEMMA ReportStepInv ==
  ASSUME ReportInv, [Reports!ReportNext]_reportVars
  PROVE  ReportInv'
<1>1. ASSUME NEW a \in Reports!Askers, Reports!GenerateMonthlyReport(a)
      PROVE  ReportInv'
  BY <1>1, FiguresPreserves, UploadPreserves, SavePreserves, AnnouncePreserves
     DEF Reports!GenerateMonthlyReport
<1> QED
  BY <1>1, AskPreserves, ReportRestartPreserves, CalendarPreserves DEF Reports!ReportNext

LEMMA ReportExplained == ReportInv => Reports!ReportsExplained
<1>1. SUFFICES ASSUME ReportInv PROVE Reports!ReportsExplained
  OBVIOUS
<1>2. Reports!AnnouncedIsArchived
  BY <1>1, ReportTypes DEF ReportInv, MonthFits, Stored, Reports!AnnouncedIsArchived
<1>3. ASSUME NEW m \in Months, Reports!Quiet(m)
      PROVE  NoneAt(m, {"csv"}) /\ NoneAt(m, {"csv", "save"})
  BY <1>3 DEF Reports!Quiet, NoneAt
<1>4. Reports!FormatsAgree
  BY <1>1, <1>3 DEF ReportInv, MonthFits, Calm, Reports!FormatsAgree
<1>5. Reports!DownloadsAgree
  <2>1. SUFFICES ASSUME NEW m \in Months, Reports!Quiet(m), row[m].is = "saved", Calm(m),
                        Trusted(m), NEW f \in Reports!Formats, NEW reached \in BOOLEAN
                 PROVE  Reports!DownloadExecutiveReport(m, f, reached) = {row[m].of}
    BY DEF Reports!DownloadsAgree, Calm, Trusted
  <2>2. files[m][f].there => files[m][f].of = row[m].of
    BY <1>1, <1>3, <2>1 DEF ReportInv, MonthFits
  <2> QED BY <2>1, <2>2 DEF Reports!DownloadExecutiveReport, Reports!DownloadWebDAVFile
<1>6. Reports!TickerCareful
  BY <1>1 DEF ReportInv, MonthFits, Reports!TickerCareful
<1> QED
  BY <1>1, <1>2, <1>4, <1>5, <1>6 DEF Reports!ReportsExplained, ReportInv

-----------------------------------------------------------------------------
(***************************************************************************)
(* The jobs together.                                                      *)
(***************************************************************************)

(* Recurring deposits: whatever fails, is cut off or is erased in between, *)
(* a claim of ClaimDueRecurringDeposits leads to one transfer request, is  *)
(* waiting for one, or was dropped, and every runner charges a date once   *)
(* per date that came and update that failed.  Monthly reports: what is    *)
(* announced is archived, and the files, the row and the downloads agree   *)
(* unless the month's history says why.                                    *)
THEOREM JobsAreAccounted == JobsSpec => []JobsAccounted
<1> DEFINE JobsInv == ScheduleInv /\ ReportInv
<1>1. JobsInit => JobsInv
  BY ScheduleInitInv, ReportInitInv DEF JobsInit
<1>2. JobsInv /\ [JobsNext]_jobsVars => JobsInv'
  <2>1. SUFFICES ASSUME JobsInv, [JobsNext]_jobsVars PROVE JobsInv'
    OBVIOUS
  <2>2. [Schedule!Next]_scheduleVars /\ [Reports!ReportNext]_reportVars
    BY <2>1 DEF JobsNext, jobsVars, Alerts, Schedules, MakesReports
  <2> QED BY <2>1, <2>2, ScheduleStepInv, ReportStepInv
<1>3. JobsInv => JobsAccounted
  BY ScheduleAccounted, ReportExplained DEF JobsAccounted
<1> QED
  BY <1>1, <1>2, <1>3, PTL DEF JobsSpec

(* The events of incidents are one of the worker's jobs: what is proved of *)
(* them alone holds of the jobs together.                                  *)
THEOREM AlertsAreAJob == JobsSpec => Spec
<1>1. JobsInit => Init
  BY DEF JobsInit
<1>2. [JobsNext]_jobsVars => [Next]_vars
  BY DEF JobsNext, jobsVars, Alerts, Schedules, MakesReports
<1> QED
  BY <1>1, <1>2, PTL DEF JobsSpec, Spec
=============================================================================
