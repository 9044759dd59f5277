--------------------------- MODULE IncidentAlerts ---------------------------
(***************************************************************************)
(* The path of a workplace incident: internal-bll stores it and publishes  *)
(* an event; oci-worker takes one event at a time and tells three parties: *)
(* internal-bll (a helpdesk ticket), employee-bff (a banner in every open  *)
(* portal, by Server-Sent Events) and pebble-proxy (an urgent ticket that  *)
(* the on-call watch polls).  A failed delivery to one of the last two     *)
(* brings the event back; what was delivered is remembered in the memory   *)
(* of the worker process.                                                  *)
(*                                                                         *)
(* RabbitMQ, the databases and the network are seen through how the code   *)
(* uses them.  Search indexing and the ntfy push write nothing that the    *)
(* code reads again and are left out.                                      *)
(***************************************************************************)
EXTENDS Naturals, Sequences, FiniteSets

CONSTANTS Incidents,    \* incidents that may be reported
          Clients,      \* browser tabs that may open the stream
          Buffer,       \* capacity of a client's channel
          None,         \* no incident
          MaxFailures,  \* bound: failed, lost or late deliveries
          MaxCrashes    \* bound: worker restarts

ASSUME AlertAssumption ==
  /\ None \notin Incidents
  /\ Buffer \in Nat \ {0}
  /\ MaxFailures \in Nat
  /\ MaxCrashes \in Nat

VARIABLES report,     \* how far CreateIncident has come
          message,    \* where the incident_created event is
          handling,   \* the incident the worker handles
          step,       \* its next step in HandleIncidentAlert
          failed,     \* some delivery of this attempt failed
          delivered,  \* deliveredIncidentBFF and deliveredIncidentPebble
          late,       \* posts the worker gave up on that may still be served
          served,     \* history: broadcasts to the portal, tickets for the watch
          raised,     \* history: tickets of BroadcastPebbleIncidentAlert
          stream,     \* the SSE connections of employee-bff
          lost,       \* history: posts with an effect the worker does not know
          failures,   \* history: abnormal ends of deliveries
          crashes     \* history: worker restarts

workerVars == <<message, handling, step, failed, delivered>>
postVars == <<late, served, lost, failures>>
vars == <<report, workerVars, postVars, raised, stream, crashes>>

Targets == {"bff", "pebble"}
Steps == {"idle", "ticket", "end"} \cup Targets

(* A connection: its channel, the event being written to the browser, and  *)
(* three histories: events written, events dropped at a full channel, and  *)
(* the broadcasts made before it was opened.                               *)
Counts == [Incidents -> Nat]
Zero == [i \in Incidents |-> 0]
Connections == [open: BOOLEAN, channel: Seq(Incidents),
                writing: Incidents \cup {None},
                written: Counts, dropped: Counts, since: Counts]
Closed == [open |-> FALSE, channel |-> <<>>, writing |-> None,
           written |-> Zero, dropped |-> Zero, since |-> Zero]

TypeOK ==
  /\ report \in [Incidents -> {"new", "stored", "published", "silent", "refused"}]
  /\ message \in [Incidents -> {"none", "queued", "unacked", "acked"}]
  /\ handling \in Incidents \cup {None}
  /\ step \in Steps
  /\ step = "idle" <=> handling = None
  /\ failed \in BOOLEAN
  /\ delivered \in [Targets -> SUBSET Incidents]
  /\ late \in [Targets -> Counts]
  /\ served \in [Targets -> Counts]
  /\ lost \in [Targets -> Counts]
  /\ raised \in Counts
  /\ stream \in [Clients -> Connections]
  /\ \A c \in Clients : Len(stream[c].channel) <= Buffer
  /\ failures \in 0 .. MaxFailures
  /\ crashes \in 0 .. MaxCrashes

Init ==
  /\ report = [i \in Incidents |-> "new"]
  /\ message = [i \in Incidents |-> "none"]
  /\ handling = None
  /\ step = "idle"
  /\ failed = FALSE
  /\ delivered = [t \in Targets |-> {}]
  /\ late = [t \in Targets |-> Zero]
  /\ served = [t \in Targets |-> Zero]
  /\ lost = [t \in Targets |-> Zero]
  /\ raised = Zero
  /\ stream = [c \in Clients |-> Closed]
  /\ failures = 0
  /\ crashes = 0

-----------------------------------------------------------------------------
(* internal-bll and workforce-api: CreateIncident.                         *)

(* The categories internal-bll lets through, and the ones the incidents    *)
(* table takes.                                                            *)
validIncidentCategories ==
  {"scratching", "unauthorized_perch", "hairball_emergency",
   "habitat_disruption", "medical_hold_breach"}
storedIncidentCategories ==
  {"perch_dispute", "spillage", "unauthorized_treat", "habitat_disruption"}

(* The row is inserted, or refused by the table or an error; when only the *)
(* answer is lost, internal-bll returns without publishing.                *)
StoreIncident(i) ==
  /\ report[i] = "new"
  /\ \E category \in validIncidentCategories :
       \/ /\ category \in storedIncidentCategories
          /\ report' = [report EXCEPT ![i] = "stored"]
       \/ /\ category \in storedIncidentCategories
          /\ report' = [report EXCEPT ![i] = "silent"]
       \/ report' = [report EXCEPT ![i] = "refused"]
  /\ UNCHANGED <<workerVars, postVars, raised, stream, crashes>>

(* The event is published after the row; an error of the publish is        *)
(* ignored, and the reporter is told that the incident was created.        *)
PublishIncident(i) ==
  /\ report[i] = "stored"
  /\ \/ /\ report' = [report EXCEPT ![i] = "published"]
        /\ message' = [message EXCEPT ![i] = "queued"]
     \/ /\ report' = [report EXCEPT ![i] = "silent"]
        /\ UNCHANGED message
  /\ UNCHANGED <<handling, step, failed, delivered, postVars, raised, stream, crashes>>

-----------------------------------------------------------------------------
(* ops-api: the ticket table takes these categories and sources only.      *)
ticketCategories == {"hardware", "software", "habitat", "trading", "general"}
ticketSources == {"internal", "customer", "system"}

TicketsInserted(category, source) ==
  IF category \in ticketCategories /\ source \in ticketSources THEN 1 ELSE 0

(* employee-bff, IncidentBroker.Broadcast: every open connection gets the  *)
(* event in its channel, unless the channel is full.                       *)
Broadcast(i) ==
  stream' = [c \in Clients |->
    IF ~stream[c].open THEN stream[c]
    ELSE IF Len(stream[c].channel) < Buffer
      THEN [stream[c] EXCEPT !.channel = Append(@, i)]
      ELSE [stream[c] EXCEPT !.dropped[i] = @ + 1]]

(* pebble-proxy, HandleIncidentBroadcast: CreateAlert writes nothing for a *)
(* request that names a ticket; then an urgent ticket is created.          *)
HandleIncidentBroadcast(i) ==
  served' = [served EXCEPT !["pebble"][i] = @ + TicketsInserted("habitat", "system")]

HandleBroadcast(i) ==
  /\ Broadcast(i)
  /\ served' = [served EXCEPT !["bff"][i] = @ + 1]

(* A post takes effect at its target. *)
Serve(t, i) ==
  \/ t = "bff" /\ HandleBroadcast(i)
  \/ t = "pebble" /\ HandleIncidentBroadcast(i) /\ UNCHANGED stream

-----------------------------------------------------------------------------
(* oci-worker: HandleIncidentAlert.                                        *)

HandleIncidentAlert(i) ==
  /\ handling = None
  /\ message[i] = "queued"
  /\ message' = [message EXCEPT ![i] = "unacked"]
  /\ handling' = i
  /\ step' = "ticket"
  /\ failed' = FALSE
  /\ UNCHANGED <<report, delivered, postVars, raised, stream, crashes>>

(* internal-bll asks for a ticket with a category and a source of its own; *)
(* a refusal or a failure of the call is ignored by the worker.            *)
BroadcastPebbleIncidentAlert ==
  /\ step = "ticket"
  /\ step' = "bff"
  /\ \/ /\ raised' = [raised EXCEPT ![handling] = @ +
            TicketsInserted("feline_safety", "workforce_incident")]
        /\ UNCHANGED failures
     \/ /\ failures < MaxFailures
        /\ failures' = failures + 1
        /\ UNCHANGED raised
  /\ UNCHANGED <<report, message, handling, failed, delivered, late, served,
                 lost, stream, crashes>>

After(t) == IF t = "bff" THEN "pebble" ELSE "end"

Fail ==
  /\ failures < MaxFailures
  /\ failures' = failures + 1
  /\ failed' = TRUE

(* Already delivered by this worker process: nothing is sent. *)
Skip(t) ==
  /\ step = t
  /\ handling \in delivered[t]
  /\ step' = After(t)
  /\ UNCHANGED <<report, message, handling, failed, delivered, postVars,
                 raised, stream, crashes>>

(* Mutant: no look at what was delivered. *)
PostAgain(t) ==
  /\ step = t
  /\ Serve(t, handling)
  /\ delivered' = [delivered EXCEPT ![t] = @ \cup {handling}]
  /\ step' = After(t)
  /\ UNCHANGED <<report, message, handling, failed, late, lost, failures, raised, crashes>>

(* The target answers with a 2xx status. *)
Post(t) ==
  /\ step = t
  /\ handling \notin delivered[t]
  /\ Serve(t, handling)
  /\ delivered' = [delivered EXCEPT ![t] = @ \cup {handling}]
  /\ step' = After(t)
  /\ UNCHANGED <<report, message, handling, failed, late, lost, failures, raised, crashes>>

(* An error.  The post had no effect, or it had and the answer was lost or *)
(* was an error, or it is still on its way when the client times out.      *)
PostFails(t) ==
  /\ step = t
  /\ handling \notin delivered[t]
  /\ Fail
  /\ step' = After(t)
  /\ \/ UNCHANGED <<late, served, lost, stream>>
     \/ /\ Serve(t, handling)
        /\ lost' = [lost EXCEPT ![t][handling] = @ + 1]
        /\ UNCHANGED late
     \/ /\ late' = [late EXCEPT ![t][handling] = @ + 1]
        /\ lost' = [lost EXCEPT ![t][handling] = @ + 1]
        /\ UNCHANGED <<served, stream>>
  /\ UNCHANGED <<report, message, handling, delivered, raised, crashes>>

(* Mutant: errors are only logged. *)
ReturnNil ==
  /\ step = "end"
  /\ message' = [message EXCEPT ![handling] = "acked"]
  /\ handling' = None
  /\ step' = "idle"
  /\ UNCHANGED <<report, failed, delivered, postVars, raised, stream, crashes>>

(* Mutant: a failed event is rejected and not queued again. *)
ReturnRejects ==
  /\ step = "end"
  /\ message' = [message EXCEPT ![handling] = IF failed THEN "unacked" ELSE "acked"]
  /\ handling' = None
  /\ step' = "idle"
  /\ UNCHANGED <<report, failed, delivered, postVars, raised, stream, crashes>>

(* The handler returns: an error brings the event back, otherwise the      *)
(* router acknowledges it.                                                 *)
Return ==
  /\ step = "end"
  /\ message' = [message EXCEPT ![handling] = IF failed THEN "queued" ELSE "acked"]
  /\ handling' = None
  /\ step' = "idle"
  /\ UNCHANGED <<report, failed, delivered, postVars, raised, stream, crashes>>

(* The worker process restarts, idle or in any step: the maps are empty,   *)
(* an event that was being handled is delivered again, and a post that was *)
(* under way may still be served.                                          *)
WorkerRestart ==
  /\ crashes < MaxCrashes
  /\ crashes' = crashes + 1
  /\ handling' = None
  /\ step' = "idle"
  /\ message' = [i \in Incidents |-> IF i = handling THEN "queued" ELSE message[i]]
  /\ delivered' = [t \in Targets |-> {}]
  /\ \/ UNCHANGED late
     \/ /\ step \in Targets
        /\ handling \notin delivered[step]
        /\ late' = [late EXCEPT ![step][handling] = @ + 1]
  /\ UNCHANGED <<report, failed, served, lost, failures, raised, stream>>

(* A post the worker no longer waits for is served, or never arrives. *)
LatePost(t, i) ==
  /\ late[t][i] > 0
  /\ late' = [late EXCEPT ![t][i] = @ - 1]
  /\ Serve(t, i) \/ UNCHANGED <<served, stream>>
  /\ UNCHANGED <<report, workerVars, lost, failures, raised, crashes>>

-----------------------------------------------------------------------------
(* employee-bff: HandleStream.                                             *)

Connect(c) ==
  /\ ~stream[c].open
  /\ stream' = [stream EXCEPT ![c] =
       [Closed EXCEPT !.open = TRUE, !.since = served["bff"]]]
  /\ UNCHANGED <<report, workerVars, postVars, raised, crashes>>

ReceiveEvent(c) ==
  /\ stream[c].open
  /\ stream[c].writing = None
  /\ stream[c].channel # <<>>
  /\ stream' = [stream EXCEPT ![c].writing = Head(stream[c].channel),
                              ![c].channel = Tail(@)]
  /\ UNCHANGED <<report, workerVars, postVars, raised, crashes>>

(* Mutant: one write empties the channel. *)
WriteEventSkips(c) ==
  /\ stream[c].writing # None
  /\ stream' = [stream EXCEPT ![c].writing = None,
                              ![c].channel = <<>>,
                              ![c].written[stream[c].writing] = @ + 1]
  /\ UNCHANGED <<report, workerVars, postVars, raised, crashes>>

WriteEvent(c) ==
  /\ stream[c].writing # None
  /\ stream' = [stream EXCEPT ![c].writing = None,
                              ![c].written[stream[c].writing] = @ + 1]
  /\ UNCHANGED <<report, workerVars, postVars, raised, crashes>>

(* The request ends or a write fails: RemoveClient. *)
Disconnect(c) ==
  /\ stream[c].open
  /\ stream' = [stream EXCEPT ![c] = Closed]
  /\ UNCHANGED <<report, workerVars, postVars, raised, crashes>>

-----------------------------------------------------------------------------
Report == \E i \in Incidents : StoreIncident(i) \/ PublishIncident(i)

Handle == \E i \in Incidents : HandleIncidentAlert(i)

DeliveryStep == \E t \in Targets : Skip(t) \/ Post(t) \/ PostFails(t)

WorkerStep == Handle \/ BroadcastPebbleIncidentAlert \/ DeliveryStep \/ Return

StreamStep == \E c \in Clients :
  Connect(c) \/ ReceiveEvent(c) \/ WriteEvent(c) \/ Disconnect(c)

Late == \E t \in Targets, i \in Incidents : LatePost(t, i)

Next == Report \/ WorkerStep \/ WorkerRestart \/ Late \/ StreamStep

Spec == Init /\ [][Next]_vars

(* The worker takes events and its calls return, posts within the ten      *)
(* seconds of the HTTP client.  Nothing is assumed of reporters, browsers, *)
(* late posts and failures.                                                *)
FairSpec == Spec /\ WF_vars(WorkerStep)

-----------------------------------------------------------------------------
Acked(i) == message[i] = "acked"

(* The worker acknowledges an event only after both the portal hub and the *)
(* watch gateway served it, in this attempt or in an earlier one of this   *)
(* process, whatever failed or restarted in between; an incident that was  *)
(* not published is shown to nobody.                                       *)
AckedIsDelivered ==
  \A i \in Incidents, t \in Targets :
    /\ Acked(i) => served[t][i] > 0
    /\ report[i] # "published" => served[t][i] + late[t][i] = 0

(* deliveredIncidentBFF and deliveredIncidentPebble: each target serves an *)
(* incident once, plus once per answer the worker did not get and per      *)
(* restart that emptied the maps.  Failures of the other target repeat     *)
(* nothing.                                                                *)
RepeatsExplained ==
  \A i \in Incidents, t \in Targets :
    served[t][i] + late[t][i] <= 1 + lost[t][i] + crashes

(* Broadcast, HandleStream and RemoveClient: each broadcast made while a   *)
(* connection is open is, for that connection, in its channel, being       *)
(* written, written, or was dropped because the channel was full, exactly  *)
(* once; nothing comes from an earlier connection.                         *)
StreamAccounted ==
  \A c \in Clients, i \in Incidents :
    LET s == stream[c]
    IN  s.open =>
          s.since[i] + s.written[i] + s.dropped[i]
            + Cardinality({k \in DOMAIN s.channel : s.channel[k] = i})
            + Cardinality({s.writing} \cap {i}) = served["bff"][i]

(* A published incident reaches the portal hub and the watch gateway in    *)
(* the end: failed events come back until both have it.                    *)
PublishedIsAlerted ==
  \A i \in Incidents :
    (report[i] = "published") ~> (\A t \in Targets : served[t][i] > 0)

(* incidents.go says of BroadcastPebbleIncidentAlert that it creates an    *)
(* urgent IT ticket for an incident: an acknowledged incident whose calls  *)
(* all succeeded has one.                                                  *)
IncidentTicketRaised ==
  failures = 0 /\ crashes = 0 => \A i \in Incidents : Acked(i) => raised[i] > 0
=============================================================================
