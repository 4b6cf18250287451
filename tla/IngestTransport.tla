--------------------------- MODULE IngestTransport ---------------------------
(***************************************************************************)
(* The delivery of events from the extension's background worker to the    *)
(* daemon: PersistentEventBuffer and IngestTransport on one side, the      *)
(* ingest endpoint on the other, a websocket between them.                 *)
(*                                                                         *)
(* The worker is single-threaded, so a step goes from one await to the     *)
(* next.  Every use of the buffer is queued on its #pendingOperation, and  *)
(* what the caller does afterwards is part of the operation's step.        *)
(*                                                                         *)
(* A definition named X_Y is the mutant Y of X: no action uses it, and the *)
(* checks show which property notices it in the place of X.                *)
(***************************************************************************)
EXTENDS Naturals, Sequences, FiniteSets

CONSTANTS
    Sessions,          \* session ids
    None,              \* NULL
    LastEvent,         \* bound on client_seq, which names an event here
    Statuses,          \* the events that are source.status; others are captions
    Refused,           \* events too large or malformed for the daemon
    MaxBuffer,         \* MAX_EXTENSION_BUFFER_EVENTS
    MaxLimited,        \* bound on the events turned away by the rate limit
    MaxStops,          \* bound on the stops of a recording
    MaxFailures        \* bound on lost connections and restarts

Events == 1..LastEvent

ASSUME IngestAssumption ==
    /\ LastEvent \in Nat
    /\ None \notin Sessions
    /\ Statuses \subseteq Events
    /\ Refused \subseteq Events
    /\ {MaxBuffer, MaxLimited, MaxStops, MaxFailures} \subseteq Nat

VARIABLES
    clientSequence,  \* the last client_seq given
    scope,           \* per event, the session_id of its envelope
    operations,      \* the buffer operations that wait, oldest first
    buffer,          \* events in storage.session
    dropped,         \* events recorded as dead letters
    held,            \* the running session as the daemon last said
    open,            \* is there an open socket?
    greeted,         \* has server.hello been received on it?
    resends,         \* the #resend loops of this socket: what each has yet to send
    up, down,        \* frames on their way to the daemon and back
    late,            \* events the handlers of closed sockets have in hand
    running,         \* the session that records
    stopped,         \* the session stopped last, while a grace may remain
    answered,        \* events processed, for captions: the tombstones
    entered,         \* per event, the session whose transcript it entered
    limited,         \* events turned away by the rate limit
    stops, failures

client == <<clientSequence, scope, operations, buffer, dropped, held>>
connection == <<open, greeted, resends, up, down, late>>
recording == <<running, stopped, stops>>
processed == <<answered, entered, limited>>
vars == <<client, connection, recording, processed, failures>>

Captions == Events \ Statuses
SessionOrNone == Sessions \cup {None}

Operation == [op : {"enqueue", "refreshCounts", "acknowledge", "reject"}, event : Events]
    \cup [op : {"reconcileSession"}, session : SessionOrNone, resend : BOOLEAN]
    \cup [op : {"snapshot"}]
Upward == [type : {"client.hello", "heartbeat"}] \cup [type : {"event"}, event : Events]
Downward == [type : {"server.hello", "heartbeat.ack"}, session : SessionOrNone]
    \cup [type : {"event.ack", "protocol.error"}, event : Events]

Init ==
    /\ clientSequence = 0
    /\ scope = [e \in Events |-> None]
    /\ operations = <<>>
    /\ buffer = {}
    /\ dropped = {}
    /\ held = None
    /\ open = FALSE
    /\ greeted = FALSE
    /\ resends = <<>>
    /\ up = <<>>
    /\ down = <<>>
    /\ late = {}
    /\ running = None
    /\ stopped = None
    /\ answered = {}
    /\ entered = [e \in Events |-> None]
    /\ limited = {}
    /\ stops = 0
    /\ failures = 0

-----------------------------------------------------------------------------
(* The extension: events enter the buffer.                                 *)

Enqueueing == {i \in DOMAIN operations : operations[i].op \in {"enqueue", "refreshCounts"}}

\* The handlers of adapter messages run one after the other; the status that
\* reports a disabled tab may come from the popup in between.
Enqueue ==
    LET e == clientSequence + 1
    IN /\ e \in Events
       /\ e \in Statuses \/ Enqueueing = {}
       /\ clientSequence' = e
       /\ scope' = [scope EXCEPT ![e] = IF e \in Statuses THEN None ELSE held]
       /\ operations' = Append(operations, [op |-> "enqueue", event |-> e])
       /\ UNCHANGED <<buffer, dropped, held, connection, recording, processed, failures>>

\* The first queued operation runs, when it is an o; then what it queues.
Runs(o) == operations # <<>> /\ Head(operations).op = o
Ends == operations' = Tail(operations)
EndsWith(next) == operations' = Append(Tail(operations), next)

Fits_Off == Cardinality(buffer) <= MaxBuffer
Fits == Cardinality(buffer) < MaxBuffer

RunEnqueue ==
    /\ Runs("enqueue")
    /\ LET e == Head(operations).event
       IN \/ /\ Fits
             /\ buffer' = buffer \cup {e}
             /\ EndsWith([op |-> "refreshCounts", event |-> e])
             /\ UNCHANGED dropped
          \/ /\ ~Fits
             /\ dropped' = dropped \cup {e}
             /\ Ends
             /\ UNCHANGED buffer
    /\ UNCHANGED <<clientSequence, scope, held, connection, recording, processed, failures>>

Event(e) == [type |-> "event", event |-> e]

\* After refreshCounts, enqueue sends the event if the socket is open.
RunRefreshCounts ==
    /\ Runs("refreshCounts")
    /\ Ends
    /\ up' = IF open THEN Append(up, Event(Head(operations).event)) ELSE up
    /\ UNCHANGED <<clientSequence, scope, buffer, dropped, held, open, greeted,
                   resends, down, late, recording, processed, failures>>

RunAcknowledge ==
    /\ Runs("acknowledge")
    /\ buffer' = buffer \ {Head(operations).event}
    /\ Ends
    /\ UNCHANGED <<clientSequence, scope, dropped, held, connection, recording,
                   processed, failures>>

RunReject ==
    /\ Runs("reject")
    /\ buffer' = buffer \ {Head(operations).event}
    /\ dropped' = dropped \cup (buffer \cap {Head(operations).event})
    /\ Ends
    /\ UNCHANGED <<clientSequence, scope, held, connection, recording, processed, failures>>

\* What a reconciliation with session s takes out of the buffer.
Foreign(s) == {c \in buffer \cap Captions : scope[c] = None \/ scope[c] # s}

RunReconcile ==
    /\ Runs("reconcileSession")
    /\ LET foreign == Foreign(Head(operations).session)
       IN /\ buffer' = buffer \ foreign
          /\ dropped' = dropped \cup foreign
    /\ IF Head(operations).resend THEN EndsWith([op |-> "snapshot"]) ELSE Ends
    /\ UNCHANGED <<clientSequence, scope, held, connection, recording, processed, failures>>

-----------------------------------------------------------------------------
(* The extension: #resend, the socket and the messages of the daemon.      *)

\* #resend takes its snapshot and the socket of that moment.
ToResend_StatusesOnly == buffer \cap Statuses
ToResend == buffer

RunSnapshot ==
    /\ Runs("snapshot")
    /\ resends' = IF open THEN Append(resends, ToResend) ELSE resends
    /\ Ends
    /\ UNCHANGED <<clientSequence, scope, buffer, dropped, held, open, greeted,
                   up, down, late, recording, processed, failures>>

Resend(i) ==
    \E e \in resends[i] :
        /\ \A f \in resends[i] : e <= f
        /\ up' = Append(up, Event(e))
        /\ resends' = [resends EXCEPT ![i] = @ \ {e}]
        /\ UNCHANGED <<client, open, greeted, down, late, recording, processed, failures>>

\* The socket opens and client.hello is its first frame.
Connect ==
    /\ ~open
    /\ open' = TRUE
    /\ up' = <<[type |-> "client.hello"]>>
    /\ UNCHANGED <<client, greeted, resends, down, late, recording, processed, failures>>

\* Heartbeats are 20 seconds apart: what the last one set off is done.
SendHeartbeat ==
    /\ greeted
    /\ \A i \in DOMAIN operations : operations[i].op # "reconcileSession"
    /\ \A i \in DOMAIN up : up[i].type # "heartbeat"
    /\ \A i \in DOMAIN down : down[i].type # "heartbeat.ack"
    /\ up' = Append(up, [type |-> "heartbeat"])
    /\ UNCHANGED <<client, open, greeted, resends, down, late, recording, processed, failures>>

Heard(type) == down # <<>> /\ Head(down).type = type /\ down' = Tail(down)

Queue(operation) == operations' = Append(operations, operation)

SessionHeard_HelloOnly ==
    IF Head(down).type = "server.hello" THEN Head(down).session ELSE held
SessionHeard == Head(down).session

\* server.hello and heartbeat.ack: the session is known at once, the buffer
\* follows when its turn comes, and after a hello all of it is sent again.
ReceiveSession ==
    \E type \in {"server.hello", "heartbeat.ack"} :
        /\ Heard(type)
        /\ held' = SessionHeard
        /\ greeted' = TRUE
        /\ Queue([op |-> "reconcileSession", session |-> held',
                  resend |-> type = "server.hello"])
        /\ UNCHANGED <<clientSequence, scope, buffer, dropped, open, resends, up, late,
                       recording, processed, failures>>

ReceiveAnswer ==
    \E type \in {"event.ack", "protocol.error"} :
        /\ Heard(type)
        /\ Queue([op |-> IF type = "event.ack" THEN "acknowledge" ELSE "reject",
                  event |-> Head(down).event])
        /\ UNCHANGED <<clientSequence, scope, buffer, dropped, held, open, greeted, resends,
                       up, late, recording, processed, failures>>

-----------------------------------------------------------------------------
(* The daemon: ingest_websocket, and the session it asks for.              *)

\* process_caption: the running session, or the stopped one in its grace.
CaptionSession == IF running # None THEN running ELSE stopped

\* A caption is looked up by its id and processed once; whether the session
\* takes it in depends on sources and revisions, which are not kept here.
Enters_EachTime(e) == e \in Captions
Enters(e) == e \in Captions \ answered

Process(e) ==
    /\ answered' = answered \cup {e}
    /\ \/ UNCHANGED entered
       \/ Enters(e) /\ entered' = [entered EXCEPT ![e] = CaptionSession]

Frame(type) == up # <<>> /\ Head(up).type = type /\ up' = Tail(up)
Reply(message) == down' = Append(down, message)

HandleHello ==
    /\ Frame("client.hello")
    /\ Reply([type |-> "server.hello", session |-> running])
    /\ UNCHANGED <<client, open, greeted, resends, late, recording, processed, failures>>

HandleHeartbeat ==
    /\ Frame("heartbeat")
    /\ Reply([type |-> "heartbeat.ack", session |-> running])
    /\ UNCHANGED <<client, open, greeted, resends, late, recording, processed, failures>>

HandleEvent ==
    /\ Frame("event")
    /\ Head(up).event \notin Refused
    /\ Process(Head(up).event)
    /\ Reply([type |-> "event.ack", event |-> Head(up).event])
    /\ UNCHANGED <<client, open, greeted, resends, late, recording, limited, failures>>

\* message_too_large, invalid_message: not recoverable.
RefuseEvent ==
    /\ Frame("event")
    /\ Head(up).event \in Refused
    /\ Reply([type |-> "protocol.error", event |-> Head(up).event])
    /\ UNCHANGED <<client, open, greeted, resends, late, recording, processed, failures>>

\* rate_limited is recoverable, and the extension does nothing about it.
LimitEvent ==
    /\ Frame("event")
    /\ Cardinality(limited) < MaxLimited
    /\ limited' = limited \cup {Head(up).event}
    /\ UNCHANGED <<client, open, greeted, resends, down, late, recording, answered,
                   entered, failures>>

\* A handler of a closed socket still processes the event it had received.
HandleLate ==
    \E e \in late :
    /\ late' = late \ {e}
    /\ Process(e)
    /\ UNCHANGED <<client, open, greeted, resends, up, down, recording, limited, failures>>

StartSession(s) ==
    /\ running = None
    /\ running' = s
    /\ UNCHANGED <<client, connection, stopped, stops, processed, failures>>

StopSession ==
    /\ running # None
    /\ stops < MaxStops
    /\ running' = None
    /\ stopped' = running
    /\ stops' = stops + 1
    /\ UNCHANGED <<client, connection, processed, failures>>

-----------------------------------------------------------------------------
(* Failures.                                                               *)

\* The handler of the closed socket may have an event in hand; it processes
\* it, and ends when the reply fails.
InHand == {e \in Events \ Refused : up # <<>> /\ Head(up) = Event(e)}

\* The socket closes: the loops on it end, frames to the extension are lost,
\* and of those to the daemon one may have been read.
Closed ==
    /\ failures < MaxFailures
    /\ failures' = failures + 1
    /\ open' = FALSE
    /\ greeted' = FALSE
    /\ resends' = <<>>
    /\ up' = <<>>
    /\ down' = <<>>

LoseConnection ==
    /\ open
    /\ Closed
    /\ late' \in {late, late \cup InHand}
    /\ UNCHANGED <<client, recording, processed>>

\* The daemon restarts, and recovery stops the session that was running.
RestartDaemon ==
    /\ Closed
    /\ late' = {}
    /\ running' = None
    /\ stopped' = None
    /\ UNCHANGED <<client, stops, processed>>

\* The browser ends the idle worker; only storage.session remains.
RestartWorker ==
    /\ Closed
    /\ late' \in {late, late \cup InHand}
    /\ operations' = <<>>
    /\ held' = None
    /\ UNCHANGED <<clientSequence, scope, buffer, dropped, recording, processed>>

-----------------------------------------------------------------------------

RunOperation == \/ RunEnqueue \/ RunRefreshCounts \/ RunAcknowledge
                \/ RunReject \/ RunReconcile \/ RunSnapshot
ResendNext == \E i \in DOMAIN resends : Resend(i)
Receive == ReceiveSession \/ ReceiveAnswer
Handle == HandleHello \/ HandleHeartbeat \/ HandleEvent \/ RefuseEvent \/ LimitEvent

Next ==
    \/ Enqueue
    \/ RunOperation
    \/ ResendNext
    \/ Connect
    \/ SendHeartbeat
    \/ Receive
    \/ Handle
    \/ HandleLate
    \/ \E s \in Sessions : StartSession(s)
    \/ StopSession
    \/ LoseConnection
    \/ RestartDaemon
    \/ RestartWorker

Spec == Init /\ [][Next]_vars

\* Promises settle, timers fire, and frames arrive on a socket that stays open.
Fairness ==
    /\ WF_vars(RunOperation)
    /\ \A i \in 1..(MaxFailures + 1) :
          WF_vars(i \in DOMAIN resends /\ Resend(i))
    /\ WF_vars(Connect)
    /\ WF_vars(SendHeartbeat)
    /\ WF_vars(Receive)
    /\ WF_vars(Handle)

FairSpec == Spec /\ Fairness

-----------------------------------------------------------------------------
(* What the transport and the endpoint are to guarantee.                   *)

TypeOK ==
    /\ clientSequence \in 0..LastEvent
    /\ scope \in [Events -> SessionOrNone]
    /\ operations \in Seq(Operation)
    /\ buffer \subseteq Events /\ Cardinality(buffer) <= MaxBuffer
    /\ dropped \subseteq Events
    /\ held \in SessionOrNone
    /\ open \in BOOLEAN
    /\ greeted \in BOOLEAN
    /\ resends \in Seq(SUBSET Events)
    /\ up \in Seq(Upward)
    /\ down \in Seq(Downward)
    /\ late \subseteq Events
    /\ running \in SessionOrNone
    /\ stopped \in SessionOrNone
    /\ answered \subseteq Events
    /\ entered \in [Events -> SessionOrNone]
    /\ limited \subseteq Events
    /\ stops \in Nat
    /\ failures \in Nat

Reconciling == {i \in DOMAIN operations : operations[i].op = "reconcileSession"}

\* Once the daemon has said which session records, and the buffer has
\* followed, every buffered caption is of that session.
BufferScoped ==
    greeted /\ Reconciling = {} =>
        \A c \in buffer \cap Captions : scope[c] = held

\* The abstract specification is implemented: an event is taken once, kept
\* until it is answered or dropped on record, and processed once, whatever
\* is lost, resent or restarted.
Delivery == INSTANCE CaptionDelivery WITH kept <- buffer
ImplementsDelivery == Delivery!Spec

\* An event that is buffered leaves the buffer, unless it is rate limited.
BufferDrains ==
    \A e \in Events : e \in buffer ~> e \notin buffer \/ e \in limited

\* The extension learns which session records, once that no longer changes.
SessionLearned ==
    \A s \in SessionOrNone : <>[](running = s) => <>[](held = s)

-----------------------------------------------------------------------------
(* What the documents say and the code does not keep: see the README.      *)

\* docs/privacy-and-data.md says of captions that they are discarded rather
\* than delivered to a different session: what was discarded as another
\* session's does not enter a transcript afterwards.  Not so when it was on its
\* way, or in the snapshot of a resend.
DiscardedNotDelivered ==
    [][\A c \in dropped :
          scope[c] # None /\ entered'[c] # entered[c] => entered'[c] = scope[c]]_vars
=============================================================================
