---------------------------- MODULE IngestProofs ----------------------------
(***************************************************************************)
(* Theorems about IngestTransport: its types, and that it implements       *)
(* CaptionDelivery.                                                        *)
(***************************************************************************)
EXTENDS IngestTransport, FiniteSetTheorems, TLAPS

(* Sequences, element by element.                                          *)

LEMMA AppendElement ==
    ASSUME NEW S, NEW s \in Seq(S), NEW x \in S
    PROVE  /\ Append(s, x) \in Seq(S)
           /\ Len(Append(s, x)) = Len(s) + 1
           /\ \A i \in DOMAIN Append(s, x) :
                 \/ i \in DOMAIN s /\ Append(s, x)[i] = s[i]
                 \/ i = Len(s) + 1 /\ Append(s, x)[i] = x
  OBVIOUS

LEMMA TailElement ==
    ASSUME NEW S, NEW s \in Seq(S), s # <<>>
    PROVE  /\ Head(s) \in S
           /\ Head(s) = s[1]
           /\ 1 \in DOMAIN s
           /\ Tail(s) \in Seq(S)
           /\ \A i \in DOMAIN Tail(s) : i + 1 \in DOMAIN s /\ Tail(s)[i] = s[i + 1]
  OBVIOUS

LEMMA NothingQueued == \A S : <<>> \in Seq(S)
  OBVIOUS

LEMMA OverwriteElement ==
    ASSUME NEW S, NEW s \in Seq(S), NEW i \in DOMAIN s, NEW x \in S
    PROVE  [s EXCEPT ![i] = x] \in Seq(S)
  OBVIOUS

-----------------------------------------------------------------------------
(* Types.                                                                  *)

LEMMA BufferGrows ==
    ASSUME NEW n \in Nat, NEW S, IsFiniteSet(S), Cardinality(S) < n, NEW e
    PROVE  IsFiniteSet(S \cup {e}) /\ Cardinality(S \cup {e}) <= n
<1>1. Cardinality(S) \in Nat
  BY FS_CardinalityType
<1>2. /\ IsFiniteSet(S \cup {e})
      /\ Cardinality(S \cup {e}) = Cardinality(S) \/ Cardinality(S \cup {e}) = Cardinality(S) + 1
  BY FS_AddElement
<1>. QED
  BY <1>1, <1>2

LEMMA BufferShrinks ==
    ASSUME NEW n \in Nat, NEW S, NEW T, IsFiniteSet(S), Cardinality(S) <= n, T \subseteq S
    PROVE  Cardinality(T) <= n
<1>1. IsFiniteSet(T) /\ Cardinality(T) <= Cardinality(S)
  BY FS_Subset
<1>2. Cardinality(S) \in Nat /\ Cardinality(T) \in Nat
  BY <1>1, FS_CardinalityType
<1>. QED
  BY <1>1, <1>2

LEMMA EventsFinite ==
    ASSUME NEW S \in SUBSET Events
    PROVE  IsFiniteSet(S)
<1>1. IsFiniteSet(Events)
  BY IngestAssumption, FS_Interval DEF Events, IngestAssumption
<1>. QED
  BY <1>1, FS_Subset

(* Frames and operations of a kind that names an event name one.           *)

LEMMA OperationKinds ==
    ASSUME NEW o \in Operation
    PROVE  /\ o.op \in {"enqueue", "refreshCounts", "acknowledge", "reject"} => o.event \in Events
           /\ o.op = "reconcileSession" => o.session \in SessionOrNone
  BY DEF Operation

LEMMA FrameKinds ==
    ASSUME NEW m
    PROVE  /\ m \in Upward /\ m.type = "event" => m.event \in Events
           /\ m \in Downward /\ m.type \in {"event.ack", "protocol.error"} => m.event \in Events
           /\ m \in Downward /\ m.type \in {"server.hello", "heartbeat.ack"}
                => m.session \in SessionOrNone
  BY DEF Upward, Downward

LEMMA OperationsAre ==
    /\ \A e \in Events : /\ [op |-> "enqueue", event |-> e] \in Operation
                         /\ [op |-> "refreshCounts", event |-> e] \in Operation
                         /\ [op |-> "acknowledge", event |-> e] \in Operation
                         /\ [op |-> "reject", event |-> e] \in Operation
    /\ \A s \in SessionOrNone, b \in BOOLEAN :
          [op |-> "reconcileSession", session |-> s, resend |-> b] \in Operation
    /\ [op |-> "snapshot"] \in Operation
  BY DEF Operation

LEMMA FramesAre ==
    /\ [type |-> "client.hello"] \in Upward
    /\ [type |-> "heartbeat"] \in Upward
    /\ \A e \in Events : Event(e) \in Upward
    /\ \A s \in SessionOrNone : /\ [type |-> "server.hello", session |-> s] \in Downward
                                /\ [type |-> "heartbeat.ack", session |-> s] \in Downward
    /\ \A e \in Events : /\ [type |-> "event.ack", event |-> e] \in Downward
                         /\ [type |-> "protocol.error", event |-> e] \in Downward
  BY DEF Upward, Downward, Event

LEMMA TypeInit == Init => TypeOK
<1> SUFFICES ASSUME Init PROVE TypeOK
  OBVIOUS
<1>1. Cardinality(buffer) <= MaxBuffer
  BY FS_EmptySet, IngestAssumption DEF Init, IngestAssumption
<1>2. /\ operations \in Seq(Operation) /\ resends \in Seq(SUBSET Events)
      /\ up \in Seq(Upward) /\ down \in Seq(Downward)
  BY NothingQueued, Zenon DEF Init
<1>3. open \in BOOLEAN /\ greeted \in BOOLEAN
  BY Zenon DEF Init
<1>4. clientSequence \in 0..LastEvent
  BY IngestAssumption DEF Init, IngestAssumption
<1>5. scope \in [Events -> SessionOrNone] /\ entered \in [Events -> SessionOrNone]
  BY DEF Init, SessionOrNone
<1>6. /\ held \in SessionOrNone /\ running \in SessionOrNone /\ stopped \in SessionOrNone
      /\ stops \in Nat /\ failures \in Nat
  BY DEF Init, SessionOrNone
<1>7. buffer = {} /\ dropped = {} /\ late = {} /\ answered = {} /\ limited = {}
  BY DEF Init
<1>. QED
  BY <1>1, <1>2, <1>3, <1>4, <1>5, <1>6, <1>7 DEF TypeOK

LEMMA TypeStep == TypeOK /\ [Next]_vars => TypeOK'
<1> SUFFICES ASSUME TypeOK, [Next]_vars PROVE TypeOK'
  OBVIOUS
<1> USE DEF client, connection, recording, processed
<1>e. LastEvent \in Nat /\ MaxBuffer \in Nat
  BY IngestAssumption DEF IngestAssumption
<1>f. IsFiniteSet(buffer)
  BY EventsFinite DEF TypeOK
<1>g. \A T : T \subseteq buffer => Cardinality(T) <= MaxBuffer
  BY <1>e, <1>f, BufferShrinks DEF TypeOK
<1>h. operations # <<>> => /\ Head(operations) \in Operation
                          /\ Tail(operations) \in Seq(Operation)
  BY TailElement DEF TypeOK
<1>1. CASE Enqueue
  <2>1. clientSequence + 1 \in Events /\ clientSequence + 1 \in 0..LastEvent
    BY <1>1, <1>e DEF Enqueue, Events, TypeOK
  <2>2. operations' \in Seq(Operation)
    BY <1>1, <2>1, OperationsAre, AppendElement DEF Enqueue, TypeOK
  <2>3. scope' \in [Events -> SessionOrNone]
    BY <1>1, <2>1 DEF Enqueue, TypeOK, SessionOrNone
  <2>. QED
    BY <1>1, <2>1, <2>2, <2>3 DEF Enqueue, TypeOK
<1>2. CASE RunEnqueue
  <2> DEFINE e == Head(operations).event
  <2>1. e \in Events
    BY <1>2, <1>h, OperationKinds DEF RunEnqueue, Runs
  <2>2. operations' \in Seq(Operation)
    <3>1. [op |-> "refreshCounts", event |-> e] \in Operation
      BY <2>1, OperationsAre
    <3>2. operations # <<>>
      BY <1>2 DEF RunEnqueue, Runs
    <3>3. Append(Tail(operations), [op |-> "refreshCounts", event |-> e]) \in Seq(Operation)
      BY <1>h, <3>1, <3>2, AppendElement
    <3>. QED
      BY <1>2, <1>h, <3>2, <3>3 DEF RunEnqueue, Ends, EndsWith
  <2>3. buffer' \subseteq Events /\ dropped' \subseteq Events
    BY <1>2, <2>1 DEF RunEnqueue, TypeOK
  <2>4. Cardinality(buffer') <= MaxBuffer
    BY <1>2, <1>e, <1>f, BufferGrows DEF RunEnqueue, Fits, TypeOK
  <2>. QED
    BY <1>2, <2>2, <2>3, <2>4 DEF RunEnqueue, TypeOK
<1>3. CASE RunRefreshCounts
  <2>1. up' \in Seq(Upward)
    BY <1>3, <1>h, OperationKinds, FramesAre, AppendElement DEF RunRefreshCounts, Runs, TypeOK
  <2>2. operations' \in Seq(Operation)
    BY <1>3, <1>h DEF RunRefreshCounts, Runs, Ends
  <2>. QED
    BY <1>3, <2>1, <2>2 DEF RunRefreshCounts, TypeOK
<1>4. CASE RunAcknowledge
  <2>1. operations' \in Seq(Operation)
    BY <1>4, <1>h DEF RunAcknowledge, Runs, Ends
  <2>. QED
    BY <1>4, <1>g, <2>1 DEF RunAcknowledge, TypeOK
<1>5. CASE RunReject
  <2>1. operations' \in Seq(Operation)
    BY <1>5, <1>h DEF RunReject, Runs, Ends
  <2>. QED
    BY <1>5, <1>g, <2>1 DEF RunReject, TypeOK
<1>6. CASE RunReconcile
  <2>1. operations' \in Seq(Operation)
    BY <1>6, <1>h, OperationsAre, AppendElement DEF RunReconcile, Runs, Ends, EndsWith
  <2>2. buffer' \subseteq buffer /\ dropped' \subseteq dropped \cup buffer
    BY <1>6 DEF RunReconcile, Foreign
  <2>. QED
    BY <1>6, <1>g, <2>1, <2>2 DEF RunReconcile, TypeOK
<1>7. CASE RunSnapshot
  <2>1. operations' \in Seq(Operation)
    BY <1>7, <1>h DEF RunSnapshot, Runs, Ends
  <2>2. resends' \in Seq(SUBSET Events)
    BY <1>7, AppendElement DEF RunSnapshot, ToResend, TypeOK
  <2>. QED
    BY <1>7, <2>1, <2>2 DEF RunSnapshot, TypeOK
<1>8. CASE ResendNext
  <2>0. PICK i \in DOMAIN resends : Resend(i)
    BY <1>8 DEF ResendNext
  <2>1. PICK e \in resends[i] :
           /\ up' = Append(up, Event(e))
           /\ resends' = [resends EXCEPT ![i] = @ \ {e}]
           /\ UNCHANGED <<client, open, greeted, down, late, recording, processed, failures>>
    BY <2>0 DEF Resend
  <2>2. resends[i] \in SUBSET Events
    BY DEF TypeOK
  <2>3. up' \in Seq(Upward)
    BY <2>1, <2>2, FramesAre, AppendElement DEF TypeOK
  <2>4. resends' \in Seq(SUBSET Events)
    BY <2>1, <2>2, OverwriteElement DEF TypeOK
  <2>. QED
    BY <2>1, <2>3, <2>4 DEF TypeOK
<1>9. CASE Connect
  BY <1>9, FramesAre DEF Connect, TypeOK
<1>10. CASE SendHeartbeat
  BY <1>10, FramesAre, AppendElement DEF SendHeartbeat, TypeOK
<1>11. CASE ReceiveSession
  <2>1. /\ held' = Head(down).session
        /\ down' = Tail(down)
        /\ down # <<>>
        /\ Head(down).type \in {"server.hello", "heartbeat.ack"}
    BY <1>11 DEF ReceiveSession, Heard, SessionHeard
  <2>2. held' \in SessionOrNone /\ down' \in Seq(Downward)
    BY <2>1, TailElement, FrameKinds DEF TypeOK
  <2>3. operations' \in Seq(Operation)
    <3>1. PICK b \in BOOLEAN :
             operations' = Append(operations, [op |-> "reconcileSession",
                                               session |-> held', resend |-> b])
      BY <1>11 DEF ReceiveSession, Queue
    <3>2. [op |-> "reconcileSession", session |-> held', resend |-> b] \in Operation
      BY <2>2, OperationsAre
    <3>. QED
      BY <3>1, <3>2, AppendElement DEF TypeOK
  <2>. QED
    BY <1>11, <2>2, <2>3 DEF ReceiveSession, TypeOK
<1>12. CASE ReceiveAnswer
  <2>1. /\ down' = Tail(down)
        /\ down # <<>>
        /\ Head(down).type \in {"event.ack", "protocol.error"}
    BY <1>12 DEF ReceiveAnswer, Heard
  <2>2. Head(down).event \in Events /\ down' \in Seq(Downward)
    BY <2>1, TailElement, FrameKinds DEF TypeOK
  <2>3. operations' \in Seq(Operation)
    <3>1. PICK o \in {"acknowledge", "reject"} :
             operations' = Append(operations, [op |-> o, event |-> Head(down).event])
      BY <1>12 DEF ReceiveAnswer, Queue
    <3>2. [op |-> o, event |-> Head(down).event] \in Operation
      BY <2>2, OperationsAre
    <3>. QED
      BY <3>1, <3>2, AppendElement DEF TypeOK
  <2>. QED
    BY <1>12, <2>2, <2>3 DEF ReceiveAnswer, TypeOK
<1>p. \A e \in Events : Process(e) => /\ answered' \subseteq Events
                                      /\ entered' \in [Events -> SessionOrNone]
  BY DEF Process, CaptionSession, TypeOK
<1>u. up # <<>> => /\ Head(up) \in Upward
                  /\ Tail(up) \in Seq(Upward)
  BY TailElement DEF TypeOK
<1>13. CASE HandleHello
  BY <1>13, <1>u, FramesAre, AppendElement DEF HandleHello, Frame, Reply, TypeOK
<1>14. CASE HandleHeartbeat
  BY <1>14, <1>u, FramesAre, AppendElement DEF HandleHeartbeat, Frame, Reply, TypeOK
<1>15. CASE HandleEvent
  <2>1. Head(up).event \in Events /\ up' \in Seq(Upward)
    BY <1>15, <1>u, FrameKinds DEF HandleEvent, Frame
  <2>2. down' \in Seq(Downward)
    BY <1>15, <2>1, FramesAre, AppendElement DEF HandleEvent, Reply, TypeOK
  <2>3. answered' \subseteq Events /\ entered' \in [Events -> SessionOrNone]
    BY <1>15, <1>p, <2>1 DEF HandleEvent
  <2>. QED
    BY <1>15, <2>1, <2>2, <2>3 DEF HandleEvent, TypeOK
<1>16. CASE RefuseEvent
  <2>1. Head(up).event \in Events /\ up' \in Seq(Upward)
    BY <1>16, <1>u, FrameKinds DEF RefuseEvent, Frame
  <2>2. down' \in Seq(Downward)
    BY <1>16, <2>1, FramesAre, AppendElement DEF RefuseEvent, Reply, TypeOK
  <2>. QED
    BY <1>16, <2>1, <2>2 DEF RefuseEvent, TypeOK
<1>17. CASE LimitEvent
  <2>1. Head(up).event \in Events /\ up' \in Seq(Upward)
    BY <1>17, <1>u, FrameKinds DEF LimitEvent, Frame
  <2>. QED
    BY <1>17, <2>1 DEF LimitEvent, TypeOK
<1>18. CASE HandleLate
  <2>1. PICK e \in late : late' = late \ {e} /\ Process(e)
    BY <1>18 DEF HandleLate
  <2>2. answered' \subseteq Events /\ entered' \in [Events -> SessionOrNone]
    BY <1>p, <2>1 DEF TypeOK
  <2>. QED
    BY <1>18, <2>1, <2>2 DEF HandleLate, TypeOK
<1>19. CASE \E s \in Sessions : StartSession(s)
  BY <1>19 DEF StartSession, TypeOK, SessionOrNone
<1>20. CASE StopSession
  BY <1>20 DEF StopSession, TypeOK, SessionOrNone
<1>c. Closed => /\ open' \in BOOLEAN /\ greeted' \in BOOLEAN
                /\ resends' \in Seq(SUBSET Events)
                /\ up' \in Seq(Upward) /\ down' \in Seq(Downward)
                /\ failures' \in Nat
  <2>. SUFFICES ASSUME Closed
               PROVE  /\ open' \in BOOLEAN /\ greeted' \in BOOLEAN
                      /\ resends' \in Seq(SUBSET Events)
                      /\ up' \in Seq(Upward) /\ down' \in Seq(Downward)
                      /\ failures' \in Nat
    OBVIOUS
  <2>1. resends' = <<>> /\ up' = <<>> /\ down' = <<>>
    BY DEF Closed
  <2>2. resends' \in Seq(SUBSET Events) /\ up' \in Seq(Upward) /\ down' \in Seq(Downward)
    BY <2>1, NothingQueued, Zenon
  <2>3. open' \in BOOLEAN /\ greeted' \in BOOLEAN
    BY Zenon DEF Closed
  <2>4. failures' = failures + 1 /\ failures \in Nat
    BY DEF Closed, TypeOK
  <2>. QED
    BY <2>2, <2>3, <2>4
<1>21. CASE LoseConnection
  <2>1. late' \subseteq Events
    BY <1>21 DEF LoseConnection, InHand, TypeOK
  <2>. QED
    BY <1>21, <1>c, <2>1 DEF LoseConnection, TypeOK
<1>22. CASE RestartDaemon
  BY <1>22, <1>c DEF RestartDaemon, TypeOK, SessionOrNone
<1>23. CASE RestartWorker
  <2>1. late' \subseteq Events
    BY <1>23 DEF RestartWorker, InHand, TypeOK
  <2>2. operations' \in Seq(Operation)
    BY <1>23, NothingQueued DEF RestartWorker
  <2>. QED
    BY <1>23, <1>c, <2>1, <2>2 DEF RestartWorker, TypeOK, SessionOrNone
<1>24. CASE UNCHANGED vars
  BY <1>24 DEF vars, TypeOK
<1> HIDE DEF client, connection, recording, processed
<1>. QED
  BY <1>1, <1>2, <1>3, <1>4, <1>5, <1>6, <1>7, <1>8, <1>9, <1>10, <1>11, <1>12, <1>13,
     <1>14, <1>15, <1>16, <1>17, <1>18, <1>19, <1>20, <1>21, <1>22, <1>23, <1>24
     DEF Next, RunOperation, Receive, Handle

\* Every variable keeps its type, and the buffer its limit
\* (event-buffer.ts, enqueue).
THEOREM IngestTypeCorrect == Spec => []TypeOK
  BY TypeInit, TypeStep, PTL DEF Spec

-----------------------------------------------------------------------------
(* What is known of an event wherever it is named: one that waits to be    *)
(* enqueued is new, every other one has been taken, and an acknowledgement *)
(* is of an answered one.                                                  *)

Taken == buffer \cup dropped \cup answered

KnownOperation ==
    {o \in Operation : /\ o.op = "enqueue" => o.event \in (1..clientSequence) \ Taken
                       /\ o.op = "refreshCounts" => o.event \in Taken
                       /\ o.op = "acknowledge" => o.event \in answered}
KnownUpward == {m \in Upward : m.type = "event" => m.event \in Taken}
KnownDownward == {m \in Downward : m.type = "event.ack" => m.event \in answered}

EnqueuedOnce ==
    \A i, j \in DOMAIN operations :
        /\ operations[i].op = "enqueue"
        /\ operations[j].op = "enqueue"
        /\ operations[i].event = operations[j].event
        => i = j

Known ==
    /\ Taken \subseteq 1..clientSequence
    /\ operations \in Seq(KnownOperation)
    /\ EnqueuedOnce
    /\ late \subseteq Taken
    /\ resends \in Seq(SUBSET Taken)
    /\ up \in Seq(KnownUpward)
    /\ down \in Seq(KnownDownward)

LEMMA ElementsIn ==
    ASSUME NEW S, NEW T, NEW s \in Seq(S), \A i \in DOMAIN s : s[i] \in T
    PROVE  s \in Seq(T)
  OBVIOUS

LEMMA SeqGrows ==
    ASSUME NEW S, NEW T, S \subseteq T, NEW s \in Seq(S)
    PROVE  s \in Seq(T)
  OBVIOUS

LEMMA KnownInit == Init => Known
<1> SUFFICES ASSUME Init PROVE Known
  OBVIOUS
<1>1. /\ operations \in Seq(KnownOperation) /\ resends \in Seq(SUBSET Taken)
      /\ up \in Seq(KnownUpward) /\ down \in Seq(KnownDownward)
  BY NothingQueued, Zenon DEF Init
<1>2. EnqueuedOnce
  BY DEF Init, EnqueuedOnce
<1>3. Taken = {} /\ late = {}
  BY DEF Init, Taken
<1>. QED
  BY <1>1, <1>2, <1>3 DEF Known

\* The operation that runs leaves the queue; the rest of it is as before.
LEMMA QueueTail ==
    ASSUME TypeOK, Known, operations # <<>>
    PROVE  /\ Head(operations) \in KnownOperation
           /\ Head(operations) \in Operation
           /\ Tail(operations) \in Seq(KnownOperation)
           /\ \A i \in DOMAIN Tail(operations) :
                 /\ i + 1 \in DOMAIN operations
                 /\ Tail(operations)[i] = operations[i + 1]
           /\ operations' = Tail(operations) => EnqueuedOnce'
           /\ \A o : operations' = Append(Tail(operations), o) /\ o \in Operation
                        /\ o.op # "enqueue" => EnqueuedOnce'
           /\ Head(operations).op = "enqueue" =>
                \A i \in DOMAIN Tail(operations) :
                    Tail(operations)[i].op = "enqueue" =>
                        Tail(operations)[i].event # Head(operations).event
<1>1. operations \in Seq(KnownOperation)
  BY DEF Known
<1>2. /\ Head(operations) \in KnownOperation
      /\ Head(operations) = operations[1]
      /\ 1 \in DOMAIN operations
      /\ Tail(operations) \in Seq(KnownOperation)
      /\ \A i \in DOMAIN Tail(operations) :
            i + 1 \in DOMAIN operations /\ Tail(operations)[i] = operations[i + 1]
  BY <1>1, TailElement
<1>3. \A i \in DOMAIN Tail(operations) : i \in Nat /\ i + 1 # 1
  BY <1>2
<1>4. EnqueuedOnce
  BY DEF Known
<1>5. ASSUME operations' = Tail(operations) PROVE EnqueuedOnce'
  BY <1>2, <1>3, <1>4, <1>5 DEF EnqueuedOnce
<1>6. ASSUME NEW o, operations' = Append(Tail(operations), o), o \in Operation,
             o.op # "enqueue"
      PROVE  EnqueuedOnce'
  <2>1. Tail(operations) \in Seq(Operation)
    BY TailElement DEF TypeOK
  <2>2. \A i \in DOMAIN operations' :
           \/ i \in DOMAIN Tail(operations) /\ operations'[i] = Tail(operations)[i]
           \/ operations'[i] = o
    BY <1>6, <2>1, AppendElement
  <2>. QED
    BY <1>2, <1>3, <1>4, <1>6, <2>2 DEF EnqueuedOnce
<1>7. Head(operations).op = "enqueue" =>
         \A i \in DOMAIN Tail(operations) :
             Tail(operations)[i].op = "enqueue" =>
                 Tail(operations)[i].event # Head(operations).event
  BY <1>2, <1>3, <1>4 DEF EnqueuedOnce
<1>. QED
  BY <1>2, <1>5, <1>6, <1>7 DEF KnownOperation

\* What is appended later changes nothing either, unless it is to be enqueued.
LEMMA AppendQueue ==
    ASSUME TypeOK, Known, NEW o \in Operation, o.op # "enqueue",
           operations' = Append(operations, o)
    PROVE  EnqueuedOnce'
<1>1. \A i \in DOMAIN operations' :
         \/ i \in DOMAIN operations /\ operations'[i] = operations[i]
         \/ operations'[i] = o
  BY AppendElement DEF TypeOK
<1>. QED
  BY <1>1 DEF Known, EnqueuedOnce

LEMMA KnownGrows ==
    ASSUME TypeOK, TypeOK', Taken' = Taken, answered \subseteq answered',
           clientSequence <= clientSequence'
    PROVE  /\ KnownOperation \subseteq KnownOperation'
           /\ KnownUpward = KnownUpward'
           /\ KnownDownward \subseteq KnownDownward'
<1>1. 1..clientSequence \subseteq 1..clientSequence'
  BY DEF TypeOK
<1>. QED
  BY <1>1 DEF KnownOperation, KnownUpward, KnownDownward

\* The frames, when a step takes no new event.
LEMMA FramesKnown ==
    ASSUME TypeOK, TypeOK', Known, Taken' = Taken, answered \subseteq answered',
           clientSequence <= clientSequence'
    PROVE  /\ late' = late => late' \subseteq Taken'
           /\ resends' = resends => resends' \in Seq(SUBSET Taken')
           /\ up' = up => up' \in Seq(KnownUpward')
           /\ down' = down => down' \in Seq(KnownDownward')
           /\ operations' = operations => operations' \in Seq(KnownOperation') /\ EnqueuedOnce'
           /\ Taken' \subseteq 1..clientSequence'
<1>1. /\ KnownOperation \subseteq KnownOperation'
      /\ KnownUpward = KnownUpward'
      /\ KnownDownward \subseteq KnownDownward'
  BY KnownGrows
<1>2. down \in Seq(KnownDownward') /\ operations \in Seq(KnownOperation')
  BY <1>1, SeqGrows DEF Known
<1>3. operations' = operations => EnqueuedOnce'
  BY DEF Known, EnqueuedOnce
<1>4. Taken' \subseteq 1..clientSequence'
  BY DEF Known, TypeOK
<1>. QED
  BY <1>1, <1>2, <1>3, <1>4 DEF Known

LEMMA KnownStep == TypeOK /\ TypeOK' /\ Known /\ [Next]_vars => Known'
<1> SUFFICES ASSUME TypeOK, TypeOK', Known, [Next]_vars PROVE Known'
  OBVIOUS
<1> USE DEF client, connection, recording, processed
<1>t. ASSUME Taken' = Taken, answered' = answered, clientSequence' = clientSequence
      PROVE  /\ KnownOperation \subseteq KnownOperation'
             /\ KnownUpward = KnownUpward'
             /\ KnownDownward \subseteq KnownDownward'
             /\ late' = late => late' \subseteq Taken'
             /\ resends' = resends => resends' \in Seq(SUBSET Taken')
             /\ up' = up => up' \in Seq(KnownUpward')
             /\ down' = down => down' \in Seq(KnownDownward')
             /\ operations' = operations => operations' \in Seq(KnownOperation') /\ EnqueuedOnce'
             /\ Taken' \subseteq 1..clientSequence'
  <2>1. clientSequence <= clientSequence'
    BY <1>t DEF TypeOK
  <2>. QED
    BY <1>t, <2>1, KnownGrows, FramesKnown
<1>c. UNCHANGED <<buffer, dropped, answered>> => Taken' = Taken
  BY DEF Taken
<1>o. ASSUME NEW o \in {"refreshCounts", "acknowledge", "reject", "reconcileSession", "snapshot"},
             Runs(o), Ends, KnownOperation \subseteq KnownOperation'
      PROVE  operations' \in Seq(KnownOperation') /\ EnqueuedOnce'
  <2>1. operations # <<>>
    BY <1>o DEF Runs
  <2>. QED
    BY <1>o, <2>1, QueueTail, SeqGrows DEF Ends
<1>1. CASE Enqueue
  <2> DEFINE e == clientSequence + 1
             o == [op |-> "enqueue", event |-> e]
  <2>1. Taken' = Taken /\ answered' = answered /\ clientSequence <= clientSequence'
    BY <1>1, <1>c DEF Enqueue, TypeOK
  <2>2. e \in Events /\ e \in Nat /\ clientSequence' = e /\ clientSequence \in Nat
    BY <1>1 DEF Enqueue, TypeOK
  <2>3. e \notin Taken
    BY <2>2 DEF Known
  <2>4. o \in Operation
    BY <2>2, OperationsAre
  <2>5. o \in KnownOperation'
    BY <2>1, <2>2, <2>3, <2>4 DEF KnownOperation
  <2>6. operations \in Seq(KnownOperation') /\ operations \in Seq(KnownOperation)
    BY <2>1, KnownGrows, SeqGrows DEF Known
  <2>7. operations' = Append(operations, o)
    BY <1>1 DEF Enqueue
  <2>8. operations' \in Seq(KnownOperation')
    BY <2>5, <2>6, <2>7, AppendElement
  <2>9. \A i \in DOMAIN operations : operations[i].op = "enqueue" => operations[i].event # e
    BY <2>2, <2>6 DEF KnownOperation
  <2>10. \A i \in DOMAIN operations' :
            \/ i \in DOMAIN operations /\ operations'[i] = operations[i]
            \/ i = Len(operations) + 1 /\ operations'[i] = o
    BY <2>4, <2>7, AppendElement DEF TypeOK
  <2>11. EnqueuedOnce'
    <3>1. EnqueuedOnce
      BY DEF Known
    <3>2. o.event = e
      OBVIOUS
    <3>. QED
      BY <2>9, <2>10, <3>1, <3>2 DEF EnqueuedOnce
  <2>12. UNCHANGED <<late, resends, up, down>>
    BY <1>1 DEF Enqueue
  <2> HIDE DEF e, o
  <2>. QED
    BY <2>1, <2>8, <2>11, <2>12, FramesKnown DEF Known
<1>2. CASE RunEnqueue
  <2> DEFINE e == Head(operations).event
             o == [op |-> "refreshCounts", event |-> e]
  <2>1. operations # <<>> /\ Head(operations).op = "enqueue"
    BY <1>2 DEF RunEnqueue, Runs
  <2>2. e \in Events /\ e \in (1..clientSequence) \ Taken
    BY <2>1, QueueTail, OperationKinds DEF KnownOperation
  <2>3. /\ Taken' = Taken \cup {e}
        /\ UNCHANGED <<clientSequence, answered, late, resends, up, down>>
    BY <1>2 DEF RunEnqueue, Taken
  <2>4. /\ KnownUpward \subseteq KnownUpward'
        /\ KnownDownward = KnownDownward'
        /\ SUBSET Taken \subseteq SUBSET (Taken')
    BY <2>3 DEF KnownUpward, KnownDownward
  <2>5. /\ late' \subseteq Taken'
        /\ resends' \in Seq(SUBSET Taken')
        /\ up' \in Seq(KnownUpward')
        /\ down' \in Seq(KnownDownward')
        /\ Taken' \subseteq 1..clientSequence'
    BY <2>2, <2>3, <2>4, SeqGrows DEF Known
  <2>6. \A i \in DOMAIN Tail(operations) : Tail(operations)[i] \in KnownOperation'
    <3>1. Tail(operations) \in Seq(KnownOperation)
      BY <2>1, QueueTail
    <3>2. \A i \in DOMAIN Tail(operations) :
             Tail(operations)[i].op = "enqueue" => Tail(operations)[i].event # e
      BY <2>1, QueueTail
    <3> HIDE DEF e
    <3>. QED
      BY <2>3, <3>1, <3>2 DEF KnownOperation
  <2>7. Tail(operations) \in Seq(KnownOperation')
    BY <2>1, <2>6, QueueTail, ElementsIn
  <2>8. o \in Operation /\ o.op = "refreshCounts" /\ o.event = e
    BY <2>2, OperationsAre
  <2>9. o \in KnownOperation'
    BY <2>3, <2>8 DEF KnownOperation
  <2>10. operations' = Tail(operations) \/ operations' = Append(Tail(operations), o)
    BY <1>2 DEF RunEnqueue, Ends, EndsWith
  <2> HIDE DEF e, o
  <2>11. operations' \in Seq(KnownOperation')
    <3>1. Append(Tail(operations), o) \in Seq(KnownOperation')
      <4> DEFINE S == KnownOperation'
                 s == Tail(operations)
      <4>1. s \in Seq(S) /\ o \in S
        BY <2>7, <2>9
      <4> HIDE DEF S, s
      <4>2. Append(s, o) \in Seq(S)
        BY <4>1, AppendElement
      <4>. QED
        BY <4>2 DEF S, s
    <3>. QED
      BY <2>7, <2>10, <3>1, Zenon
  <2>12. EnqueuedOnce'
    BY <2>1, <2>8, <2>10, QueueTail
  <2>. QED
    BY <2>5, <2>11, <2>12 DEF Known
<1>3. CASE RunRefreshCounts
  <2>1. Taken' = Taken /\ UNCHANGED <<answered, clientSequence, late, resends, down>>
    BY <1>3, <1>c DEF RunRefreshCounts
  <2>2. operations' \in Seq(KnownOperation') /\ EnqueuedOnce'
    BY <1>3, <1>o, <1>t, <2>1 DEF RunRefreshCounts
  <2>3. Event(Head(operations).event) \in KnownUpward
    <3>1. Head(operations).event \in Taken /\ Head(operations).event \in Events
      BY <1>3, QueueTail, OperationKinds DEF RunRefreshCounts, Runs, KnownOperation
    <3>2. Event(Head(operations).event) \in Upward
      BY <3>1, FramesAre
    <3>. QED
      BY <3>1, <3>2 DEF KnownUpward, Event
  <2>4. up' \in Seq(KnownUpward')
    <3>1. Append(up, Event(Head(operations).event)) \in Seq(KnownUpward) /\ up \in Seq(KnownUpward)
      BY <2>3, AppendElement DEF Known
    <3>. QED
      BY <1>3, <1>t, <2>1, <3>1 DEF RunRefreshCounts
  <2>. QED
    BY <1>t, <2>1, <2>2, <2>4 DEF Known
<1>4. CASE RunAcknowledge
  <2>1. Head(operations).event \in answered
    BY <1>4, QueueTail DEF RunAcknowledge, Runs, KnownOperation
  <2>2. Taken' = Taken /\ UNCHANGED <<answered, clientSequence, late, resends, up, down>>
    BY <1>4, <2>1 DEF RunAcknowledge, Taken
  <2>3. operations' \in Seq(KnownOperation') /\ EnqueuedOnce'
    BY <1>4, <1>o, <1>t, <2>2 DEF RunAcknowledge
  <2>. QED
    BY <1>t, <2>2, <2>3 DEF Known
<1>5. CASE RunReject
  <2>1. Taken' = Taken /\ UNCHANGED <<answered, clientSequence, late, resends, up, down>>
    BY <1>5 DEF RunReject, Taken
  <2>2. operations' \in Seq(KnownOperation') /\ EnqueuedOnce'
    BY <1>5, <1>o, <1>t, <2>1 DEF RunReject
  <2>. QED
    BY <1>t, <2>1, <2>2 DEF Known
<1>6. CASE RunReconcile
  <2>1. Taken' = Taken /\ UNCHANGED <<answered, clientSequence, late, resends, up, down>>
    BY <1>6 DEF RunReconcile, Foreign, Taken
  <2>2. CASE Ends
    BY <1>6, <1>o, <1>t, <2>1, <2>2 DEF RunReconcile, Known
  <2>3. CASE EndsWith([op |-> "snapshot"])
    <3> DEFINE o == [op |-> "snapshot"]
    <3>1. operations # <<>>
      BY <1>6 DEF RunReconcile, Runs
    <3>2. o \in Operation /\ o.op = "snapshot"
      BY OperationsAre
    <3>3. o \in KnownOperation
      BY <3>2 DEF KnownOperation
    <3>4. operations' = Append(Tail(operations), o)
      BY <2>3 DEF EndsWith
    <3> HIDE DEF o
    <3>5. operations' \in Seq(KnownOperation)
      BY <3>1, <3>3, <3>4, QueueTail, AppendElement
    <3>6. EnqueuedOnce'
      BY <3>1, <3>2, <3>4, QueueTail
    <3>. QED
      BY <1>t, <2>1, <3>5, <3>6, SeqGrows DEF Known
  <2>. QED
    BY <1>6, <2>2, <2>3 DEF RunReconcile
<1>7. CASE RunSnapshot
  <2>1. Taken' = Taken /\ UNCHANGED <<answered, clientSequence, late, up, down>>
    BY <1>7, <1>c DEF RunSnapshot
  <2>2. operations' \in Seq(KnownOperation') /\ EnqueuedOnce'
    BY <1>7, <1>o, <1>t, <2>1 DEF RunSnapshot
  <2>3. resends' \in Seq(SUBSET Taken')
    <3>1. buffer \in SUBSET Taken
      BY DEF Taken
    <3>2. Append(resends, buffer) \in Seq(SUBSET Taken) /\ resends \in Seq(SUBSET Taken)
      BY <3>1, AppendElement DEF Known
    <3>. QED
      BY <1>7, <2>1, <3>2 DEF RunSnapshot, ToResend
  <2>. QED
    BY <1>t, <2>1, <2>2, <2>3 DEF Known
<1>8. CASE ResendNext
  <2>0. PICK i \in DOMAIN resends : Resend(i)
    BY <1>8 DEF ResendNext
  <2>1. PICK e \in resends[i] :
           /\ up' = Append(up, Event(e))
           /\ resends' = [resends EXCEPT ![i] = @ \ {e}]
           /\ UNCHANGED <<client, open, greeted, down, late, recording, processed, failures>>
    BY <2>0 DEF Resend
  <2>2. Taken' = Taken /\ UNCHANGED <<answered, clientSequence, late, operations, down>>
    BY <2>1, <1>c
  <2>3. resends[i] \in SUBSET Taken /\ resends[i] \in SUBSET Events
    BY DEF Known, TypeOK
  <2>4. Event(e) \in KnownUpward
    BY <2>3, FramesAre DEF KnownUpward, Event
  <2>5. up' \in Seq(KnownUpward')
    BY <1>t, <2>1, <2>2, <2>4, AppendElement DEF Known
  <2>6. resends' \in Seq(SUBSET Taken)
    BY <2>1, <2>3, OverwriteElement DEF Known
  <2>. QED
    BY <1>t, <2>2, <2>5, <2>6 DEF Known
<1>9. CASE Connect
  <2>1. Taken' = Taken /\ UNCHANGED <<answered, clientSequence, late, operations, resends, down>>
    BY <1>9, <1>c DEF Connect
  <2>2. [type |-> "client.hello"] \in KnownUpward
    BY FramesAre DEF KnownUpward
  <2>3. up' \in Seq(KnownUpward)
    BY <1>9, <2>2 DEF Connect
  <2>. QED
    BY <1>t, <2>1, <2>3 DEF Known
<1>10. CASE SendHeartbeat
  <2>1. Taken' = Taken /\ UNCHANGED <<answered, clientSequence, late, operations, resends, down>>
    BY <1>10, <1>c DEF SendHeartbeat
  <2>2. [type |-> "heartbeat"] \in KnownUpward
    BY FramesAre DEF KnownUpward
  <2>3. up' \in Seq(KnownUpward)
    BY <1>10, <2>2, AppendElement DEF SendHeartbeat, Known
  <2>. QED
    BY <1>t, <2>1, <2>3 DEF Known
<1>q. down # <<>> => /\ Head(down) \in KnownDownward
                    /\ Tail(down) \in Seq(KnownDownward)
  BY TailElement DEF Known
<1>11. CASE ReceiveSession
  <2>1. Taken' = Taken /\ UNCHANGED <<answered, clientSequence, late, resends, up>>
    BY <1>11, <1>c DEF ReceiveSession
  <2>2. down' \in Seq(KnownDownward)
    BY <1>11, <1>q DEF ReceiveSession, Heard
  <2>3. PICK b \in BOOLEAN :
           operations' = Append(operations, [op |-> "reconcileSession",
                                             session |-> held', resend |-> b])
    BY <1>11 DEF ReceiveSession, Queue
  <2> DEFINE o == [op |-> "reconcileSession", session |-> held', resend |-> b]
  <2>4. o \in Operation /\ o.op = "reconcileSession"
    BY OperationsAre DEF TypeOK
  <2>5. o \in KnownOperation
    BY <2>4 DEF KnownOperation
  <2> HIDE DEF o
  <2>6. operations' = Append(operations, o)
    BY <2>3 DEF o
  <2>7. operations' \in Seq(KnownOperation)
    BY <2>5, <2>6, AppendElement DEF Known
  <2>8. EnqueuedOnce'
    BY <2>4, <2>6, AppendQueue
  <2>. QED
    BY <1>t, <2>1, <2>2, <2>7, <2>8, SeqGrows DEF Known
<1>12. CASE ReceiveAnswer
  <2>1. Taken' = Taken /\ UNCHANGED <<answered, clientSequence, late, resends, up>>
    BY <1>12, <1>c DEF ReceiveAnswer
  <2>2. PICK type \in {"event.ack", "protocol.error"} :
           /\ down # <<>>
           /\ Head(down).type = type
           /\ down' = Tail(down)
           /\ operations' = Append(operations,
                  [op |-> IF type = "event.ack" THEN "acknowledge" ELSE "reject",
                   event |-> Head(down).event])
    BY <1>12 DEF ReceiveAnswer, Heard, Queue
  <2> DEFINE o == [op |-> IF type = "event.ack" THEN "acknowledge" ELSE "reject",
                   event |-> Head(down).event]
  <2>3. Head(down).event \in Events /\ (type = "event.ack" => Head(down).event \in answered)
    BY <1>q, <2>2, FrameKinds DEF KnownDownward
  <2>4. /\ o \in Operation
        /\ o.op \in {"acknowledge", "reject"}
        /\ o.op = "acknowledge" => o.event \in answered
    BY <2>2, <2>3, OperationsAre
  <2>5. o \in KnownOperation
    BY <2>4 DEF KnownOperation
  <2>6. operations' = Append(operations, o)
    BY <2>2
  <2> HIDE DEF o
  <2>7. operations' \in Seq(KnownOperation)
    BY <2>5, <2>6, AppendElement DEF Known
  <2>8. EnqueuedOnce'
    BY <2>4, <2>6, AppendQueue
  <2>9. down' \in Seq(KnownDownward)
    BY <1>q, <2>2
  <2>. QED
    BY <1>t, <2>1, <2>7, <2>8, <2>9, SeqGrows DEF Known
<1>u. up # <<>> => /\ Head(up) \in KnownUpward
                  /\ Tail(up) \in Seq(KnownUpward)
  BY TailElement DEF Known
<1>r. \A m : m \in Downward /\ m.type # "event.ack" => m \in KnownDownward
  BY DEF KnownDownward
<1>13. CASE HandleHello
  <2>1. Taken' = Taken /\ UNCHANGED <<answered, clientSequence, late, operations, resends>>
    BY <1>13, <1>c DEF HandleHello
  <2>2. [type |-> "server.hello", session |-> running] \in KnownDownward
    BY <1>r, FramesAre DEF TypeOK
  <2>3. up' \in Seq(KnownUpward) /\ down' \in Seq(KnownDownward)
    BY <1>13, <1>u, <2>2, AppendElement DEF HandleHello, Frame, Reply, Known
  <2>. QED
    BY <1>t, <2>1, <2>3, SeqGrows DEF Known
<1>14. CASE HandleHeartbeat
  <2>1. Taken' = Taken /\ UNCHANGED <<answered, clientSequence, late, operations, resends>>
    BY <1>14, <1>c DEF HandleHeartbeat
  <2>2. [type |-> "heartbeat.ack", session |-> running] \in KnownDownward
    BY <1>r, FramesAre DEF TypeOK
  <2>3. up' \in Seq(KnownUpward) /\ down' \in Seq(KnownDownward)
    BY <1>14, <1>u, <2>2, AppendElement DEF HandleHeartbeat, Frame, Reply, Known
  <2>. QED
    BY <1>t, <2>1, <2>3, SeqGrows DEF Known
<1>15. CASE HandleEvent
  <2> DEFINE e == Head(up).event
             ack == [type |-> "event.ack", event |-> e]
  <2>1. e \in Events /\ e \in Taken /\ up' \in Seq(KnownUpward)
    BY <1>15, <1>u, FrameKinds DEF HandleEvent, Frame, KnownUpward
  <2>2. Taken' = Taken /\ answered' = answered \cup {e}
    BY <1>15, <2>1 DEF HandleEvent, Process, Taken
  <2>3. UNCHANGED <<clientSequence, late, operations, resends>> /\ clientSequence <= clientSequence'
    BY <1>15 DEF HandleEvent, TypeOK
  <2>4. ack \in KnownDownward'
    BY <2>1, <2>2, FramesAre DEF KnownDownward
  <2>5. down' = Append(down, ack)
    BY <1>15 DEF HandleEvent, Reply
  <2> HIDE DEF e, ack
  <2>6. down \in Seq(KnownDownward') /\ KnownUpward = KnownUpward'
    BY <2>2, <2>3, KnownGrows, SeqGrows DEF Known
  <2>7. down' \in Seq(KnownDownward')
    BY <2>4, <2>5, <2>6, AppendElement
  <2>. QED
    BY <2>1, <2>2, <2>3, <2>6, <2>7, FramesKnown DEF Known
<1>16. CASE RefuseEvent
  <2>1. Taken' = Taken /\ UNCHANGED <<answered, clientSequence, late, operations, resends>>
    BY <1>16, <1>c DEF RefuseEvent
  <2>2. Head(up).event \in Events /\ up' \in Seq(KnownUpward)
    BY <1>16, <1>u, FrameKinds DEF RefuseEvent, Frame, KnownUpward
  <2>3. [type |-> "protocol.error", event |-> Head(up).event] \in KnownDownward
    BY <1>r, <2>2, FramesAre
  <2>4. down' \in Seq(KnownDownward)
    BY <1>16, <2>3, AppendElement DEF RefuseEvent, Reply, Known
  <2>. QED
    BY <1>t, <2>1, <2>2, <2>4, SeqGrows DEF Known
<1>17. CASE LimitEvent
  <2>1. Taken' = Taken /\ UNCHANGED <<answered, clientSequence, late, operations, resends, down>>
    BY <1>17, <1>c DEF LimitEvent
  <2>2. up' \in Seq(KnownUpward)
    BY <1>17, <1>u DEF LimitEvent, Frame
  <2>. QED
    BY <1>t, <2>1, <2>2 DEF Known
<1>18. CASE HandleLate
  <2>1. PICK e \in late : late' = late \ {e} /\ Process(e)
    BY <1>18 DEF HandleLate
  <2>2. UNCHANGED <<buffer, dropped, clientSequence, operations, resends, up, down>>
    BY <1>18 DEF HandleLate
  <2>3. Taken' = Taken /\ answered \subseteq answered' /\ late' \subseteq Taken'
    BY <2>1, <2>2 DEF Process, Taken, Known
  <2>4. clientSequence <= clientSequence'
    BY <2>2 DEF TypeOK
  <2>. QED
    BY <2>2, <2>3, <2>4, FramesKnown DEF Known
<1>19. CASE \E s \in Sessions : StartSession(s)
  <2>1. Taken' = Taken /\ UNCHANGED <<answered, clientSequence, late, operations, resends, up, down>>
    BY <1>19, <1>c DEF StartSession
  <2>. QED
    BY <1>t, <2>1 DEF Known
<1>20. CASE StopSession
  <2>1. Taken' = Taken /\ UNCHANGED <<answered, clientSequence, late, operations, resends, up, down>>
    BY <1>20, <1>c DEF StopSession
  <2>. QED
    BY <1>t, <2>1 DEF Known
<1>h. InHand \subseteq Taken
  <2>1. ASSUME NEW e \in InHand PROVE e \in Taken
    <3>1. Head(up) \in KnownUpward /\ Head(up).type = "event" /\ Head(up).event = e
      BY <1>u, <2>1 DEF InHand, Event
    <3>. QED
      BY <3>1 DEF KnownUpward
  <2>. QED
    BY <2>1
<1>x. Closed => /\ resends' \in Seq(SUBSET Taken) /\ up' \in Seq(KnownUpward)
                /\ down' \in Seq(KnownDownward)
  BY NothingQueued, Zenon DEF Closed
<1>21. CASE LoseConnection
  <2>1. Taken' = Taken /\ UNCHANGED <<answered, clientSequence, operations>>
    BY <1>21, <1>c DEF LoseConnection
  <2>2. late' \subseteq Taken
    BY <1>21, <1>h DEF LoseConnection, Known
  <2>3. Closed
    BY <1>21 DEF LoseConnection
  <2>. QED
    BY <1>t, <1>x, <2>1, <2>2, <2>3, SeqGrows DEF Known
<1>22. CASE RestartDaemon
  <2>1. Taken' = Taken /\ UNCHANGED <<answered, clientSequence, operations>>
    BY <1>22, <1>c DEF RestartDaemon
  <2>2. late' \subseteq Taken
    BY <1>22 DEF RestartDaemon
  <2>3. Closed
    BY <1>22 DEF RestartDaemon
  <2>. QED
    BY <1>t, <1>x, <2>1, <2>2, <2>3, SeqGrows DEF Known
<1>23. CASE RestartWorker
  <2>1. Taken' = Taken /\ UNCHANGED <<answered, clientSequence>>
    BY <1>23, <1>c DEF RestartWorker
  <2>2. late' \subseteq Taken
    BY <1>23, <1>h DEF RestartWorker, Known
  <2>3. Closed /\ operations' = <<>>
    BY <1>23 DEF RestartWorker
  <2>4. operations' \in Seq(KnownOperation')
    BY <2>3, NothingQueued, Zenon
  <2>5. EnqueuedOnce'
    BY <2>3 DEF EnqueuedOnce
  <2>. QED
    BY <1>t, <1>x, <2>1, <2>2, <2>3, <2>4, <2>5, SeqGrows DEF Known
<1>24. CASE UNCHANGED vars
  <2>1. Taken' = Taken /\ UNCHANGED <<answered, clientSequence, late, operations, resends, up, down>>
    BY <1>24, <1>c DEF vars
  <2>. QED
    BY <1>t, <2>1 DEF Known
<1> HIDE DEF client, connection, recording, processed
<1>. QED
  BY <1>1, <1>2, <1>3, <1>4, <1>5, <1>6, <1>7, <1>8, <1>9, <1>10, <1>11, <1>12, <1>13,
     <1>14, <1>15, <1>16, <1>17, <1>18, <1>19, <1>20, <1>21, <1>22, <1>23, <1>24
     DEF Next, RunOperation, Receive, Handle

LEMMA KnownAlways == Spec => [](TypeOK /\ Known)
<1>1. Init => TypeOK /\ Known
  BY TypeInit, KnownInit
<1>2. TypeOK /\ Known /\ [Next]_vars => TypeOK' /\ Known'
  BY TypeStep, KnownStep
<1>. QED
  BY <1>1, <1>2, PTL DEF Spec

-----------------------------------------------------------------------------
(* The refinement.                                                         *)

\* Processing an event answers it, or changes nothing the second time.
LEMMA ProcessAnswers ==
    ASSUME TypeOK, NEW e \in Events, e \in Taken, Process(e), UNCHANGED <<buffer, dropped>>
    PROVE  Delivery!Answer(e) \/ UNCHANGED Delivery!vars
<1>1. CASE e \in answered
  <2>1. answered' = answered /\ entered' = entered
    BY <1>1 DEF Process, Enters
  <2>. QED
    BY <2>1 DEF Delivery!vars
<1>2. CASE e \notin answered
  <2>1. answered' = answered \cup {e}
    BY DEF Process
  <2>2. \E s \in SessionOrNone : entered' = [entered EXCEPT ![e] = s]
    <3>1. CASE entered' = entered
      <4>1. entered[e] \in SessionOrNone /\ entered' = [entered EXCEPT ![e] = entered[e]]
        BY <3>1 DEF TypeOK
      <4>. QED
        BY <4>1
    <3>2. CASE entered' = [entered EXCEPT ![e] = CaptionSession]
      <4>1. CaptionSession \in SessionOrNone
        BY DEF CaptionSession, TypeOK
      <4>. QED
        BY <3>2, <4>1
    <3>. QED
      BY <3>1, <3>2 DEF Process
  <2>. QED
    BY <1>2, <2>1, <2>2 DEF Delivery!Answer, Delivery!Taken, Taken, SessionOrNone
<1>. QED
  BY <1>1, <1>2

LEMMA DeliveryStep == TypeOK /\ Known /\ [Next]_vars => [Delivery!Next]_(Delivery!vars)
<1> SUFFICES ASSUME TypeOK, Known, [Next]_vars
             PROVE  Delivery!Next \/ UNCHANGED Delivery!vars
  BY DEF Delivery!vars
<1> USE DEF client, connection, recording, processed
<1>1. CASE RunEnqueue
  <2> DEFINE e == Head(operations).event
  <2>1. e \in Events /\ e \notin Taken
    BY <1>1, QueueTail, OperationKinds DEF RunEnqueue, Runs, KnownOperation
  <2>2. UNCHANGED <<answered, entered>>
    BY <1>1 DEF RunEnqueue
  <2>3. \/ buffer' = buffer \cup {e} /\ dropped' = dropped
        \/ dropped' = dropped \cup {e} /\ buffer' = buffer
    BY <1>1 DEF RunEnqueue
  <2> HIDE DEF e
  <2>4. Delivery!Keep(e) \/ Delivery!TurnAway(e)
    BY <2>1, <2>2, <2>3 DEF Delivery!Keep, Delivery!TurnAway, Delivery!Taken, Taken
  <2>. QED
    BY <2>1, <2>4 DEF Delivery!Next
<1>2. CASE RunAcknowledge
  <2> DEFINE e == Head(operations).event
  <2>1. e \in Events /\ e \in answered
    BY <1>2, QueueTail, OperationKinds DEF RunAcknowledge, Runs, KnownOperation
  <2>2. buffer' = buffer \ {e} /\ UNCHANGED <<dropped, answered, entered>>
    BY <1>2 DEF RunAcknowledge
  <2> HIDE DEF e
  <2>3. CASE e \in buffer
    BY <2>1, <2>2, <2>3 DEF Delivery!Next, Delivery!Release
  <2>4. CASE e \notin buffer
    BY <2>2, <2>4 DEF Delivery!vars
  <2>. QED
    BY <2>3, <2>4
<1>3. CASE RunReject \/ RunReconcile
  <2>1. PICK given \in SUBSET buffer :
           /\ buffer' = buffer \ given
           /\ dropped' = dropped \cup given
           /\ UNCHANGED <<answered, entered>>
    <3>1. CASE RunReject
      <4> DEFINE given == buffer \cap {Head(operations).event}
      <4>1. /\ given \in SUBSET buffer
            /\ buffer' = buffer \ given
            /\ dropped' = dropped \cup given
            /\ UNCHANGED <<answered, entered>>
        BY <3>1 DEF RunReject
      <4>. QED
        BY <4>1
    <3>2. CASE RunReconcile
      <4> DEFINE given == Foreign(Head(operations).session)
      <4>1. /\ given \in SUBSET buffer
            /\ buffer' = buffer \ given
            /\ dropped' = dropped \cup given
            /\ UNCHANGED <<answered, entered>>
        BY <3>2 DEF RunReconcile, Foreign
      <4>. QED
        BY <4>1
    <3>. QED
      BY <1>3, <3>1, <3>2
  <2>. QED
    BY <2>1 DEF Delivery!Next, Delivery!Drop
<1>4. CASE HandleEvent
  <2> DEFINE e == Head(up).event
  <2>1. Head(up) \in KnownUpward /\ Head(up).type = "event"
    BY <1>4, TailElement DEF HandleEvent, Frame, Known
  <2>2. e \in Events /\ e \in Taken
    BY <2>1, FrameKinds DEF KnownUpward
  <2>3. Process(e) /\ UNCHANGED <<buffer, dropped>>
    BY <1>4 DEF HandleEvent
  <2> HIDE DEF e
  <2>. QED
    BY <2>2, <2>3, ProcessAnswers DEF Delivery!Next
<1>5. CASE HandleLate
  <2>1. PICK e \in late : Process(e) /\ UNCHANGED <<buffer, dropped>>
    BY <1>5 DEF HandleLate
  <2>2. e \in Events /\ e \in Taken
    BY DEF TypeOK, Known
  <2>. QED
    BY <2>1, <2>2, ProcessAnswers DEF Delivery!Next
<1>6. CASE \/ Enqueue \/ RunRefreshCounts \/ RunSnapshot \/ ResendNext
           \/ Connect \/ SendHeartbeat \/ Receive
           \/ HandleHello \/ HandleHeartbeat \/ RefuseEvent \/ LimitEvent
  <2>1. UNCHANGED <<buffer, dropped, answered, entered>>
    BY <1>6 DEF Enqueue, RunRefreshCounts, RunSnapshot, ResendNext, Resend, Connect,
       SendHeartbeat, Receive, ReceiveSession, ReceiveAnswer, HandleHello,
       HandleHeartbeat, RefuseEvent, LimitEvent
  <2>. QED
    BY <2>1 DEF Delivery!vars
<1>7. CASE \/ \E s \in Sessions : StartSession(s)
           \/ StopSession \/ LoseConnection \/ RestartDaemon \/ RestartWorker
           \/ UNCHANGED vars
  <2>1. UNCHANGED <<buffer, dropped, answered, entered>>
    BY <1>7 DEF StartSession, StopSession, LoseConnection, RestartDaemon, RestartWorker, vars
  <2>. QED
    BY <2>1 DEF Delivery!vars
<1> HIDE DEF client, connection, recording, processed
<1>. QED
  BY <1>1, <1>2, <1>3, <1>4, <1>5, <1>6, <1>7 DEF Next, RunOperation, Handle

\* The transport and the endpoint together implement CaptionDelivery
\* (event-buffer.ts, transport.ts, ingest_websocket): an event is taken once,
\* leaves the buffer only answered or on record, and enters a transcript at
\* most once, for any number of events, losses and restarts.
THEOREM DeliveryImplemented == Spec => ImplementsDelivery
<1>1. Init => Delivery!Init
  BY DEF Init, Delivery!Init
<1>. QED
  BY <1>1, KnownAlways, DeliveryStep, PTL DEF Spec, ImplementsDelivery, Delivery!Spec

-----------------------------------------------------------------------------
(* The session scopes.  What is queued behind the last reconciliation was  *)
(* queued with the session the extension holds now.                        *)

NoneAfter(i) == \A j \in DOMAIN operations : j > i => operations[j].op # "reconcileSession"

QueuedScoped ==
    \A i \in DOMAIN operations : NoneAfter(i) =>
        /\ operations[i].op = "reconcileSession" => operations[i].session = held
        /\ operations[i].op = "enqueue" /\ operations[i].event \in Captions
              => scope[operations[i].event] = held

LEMMA TailScoped ==
    ASSUME TypeOK, QueuedScoped, operations # <<>>, held' = held, scope' = scope,
           NEW o \in Operation, o.op \notin {"enqueue", "reconcileSession"},
           operations' = Tail(operations) \/ operations' = Append(Tail(operations), o)
    PROVE  QueuedScoped'
<1>1. /\ Tail(operations) \in Seq(Operation)
      /\ Len(Tail(operations)) \in Nat
      /\ \A i \in DOMAIN Tail(operations) :
            i \in Nat /\ i + 1 \in DOMAIN operations /\ Tail(operations)[i] = operations[i + 1]
  BY TailElement DEF TypeOK
<1>2. \A j \in DOMAIN operations :
         j > 1 => /\ j - 1 \in DOMAIN Tail(operations)
                  /\ Tail(operations)[j - 1] = operations[j]
  BY DEF TypeOK
<1>3. \A i \in DOMAIN operations' :
         \/ i \in DOMAIN Tail(operations) /\ operations'[i] = Tail(operations)[i]
         \/ operations'[i] = o
  BY <1>1, AppendElement
<1>4. \A i \in DOMAIN Tail(operations) : i \in DOMAIN operations' /\ operations'[i] = Tail(operations)[i]
  BY <1>1
<1>5. ASSUME NEW i \in DOMAIN operations', NoneAfter(i)'
      PROVE  /\ operations'[i].op = "reconcileSession" => operations'[i].session = held'
             /\ operations'[i].op = "enqueue" /\ operations'[i].event \in Captions
                   => scope'[operations'[i].event] = held'
  <2>1. CASE i \in DOMAIN Tail(operations) /\ operations'[i] = Tail(operations)[i]
    <3>1. i \in Nat /\ i + 1 \in DOMAIN operations /\ operations'[i] = operations[i + 1]
      BY <1>1, <2>1
    <3>2. NoneAfter(i + 1)
      <4>1. ASSUME NEW j \in DOMAIN operations, j > i + 1
            PROVE  operations[j].op # "reconcileSession"
        <5>1. j \in Nat
          BY DEF TypeOK
        <5>2. /\ j - 1 \in DOMAIN operations'
              /\ operations'[j - 1] = operations[j]
              /\ j - 1 > i
          BY <1>2, <1>4, <3>1, <4>1, <5>1
        <5>. QED
          BY <1>5, <5>2 DEF NoneAfter
      <4>. QED
        BY <4>1 DEF NoneAfter
    <3>. QED
      BY <3>1, <3>2 DEF QueuedScoped
  <2>2. CASE operations'[i] = o
    BY <2>2
  <2>. QED
    BY <1>3, <2>1, <2>2
<1>. QED
  BY <1>5 DEF QueuedScoped

LEMMA AppendScoped ==
    ASSUME TypeOK, QueuedScoped, held' = held, NEW o \in Operation,
           operations' = Append(operations, o),
           o.op # "reconcileSession",
           o.op = "enqueue" /\ o.event \in Captions => scope'[o.event] = held,
           \A i \in DOMAIN operations :
               operations[i].op = "enqueue" =>
                   scope'[operations[i].event] = scope[operations[i].event]
    PROVE  QueuedScoped'
<1>1. \A i \in DOMAIN operations' :
         \/ i \in DOMAIN operations /\ operations'[i] = operations[i]
         \/ operations'[i] = o
  BY AppendElement DEF TypeOK
<1>2. \A i \in DOMAIN operations : i \in DOMAIN operations' /\ operations'[i] = operations[i]
  BY DEF TypeOK
<1>3. \A i \in DOMAIN operations : NoneAfter(i)' => NoneAfter(i)
  BY <1>2 DEF NoneAfter
<1>. QED
  BY <1>1, <1>3 DEF QueuedScoped

\* A step that leaves the queue, the scopes and the held session alone, and
\* puts nothing into the buffer.
LEMMA ScopesKept ==
    ASSUME QueuedScoped, BufferScoped, UNCHANGED <<operations, held, scope>>,
           buffer' \subseteq buffer, greeted' => greeted
    PROVE  QueuedScoped' /\ BufferScoped'
<1>1. QueuedScoped'
  BY DEF QueuedScoped, NoneAfter
<1>2. BufferScoped'
  BY DEF BufferScoped, Reconciling
<1>. QED
  BY <1>1, <1>2

\* A step that takes an operation other than a reconciliation off the queue.
LEMMA ScopesTail ==
    ASSUME TypeOK, QueuedScoped, BufferScoped, operations # <<>>,
           held' = held, scope' = scope, greeted' = greeted,
           NEW o \in Operation, o.op \notin {"enqueue", "reconcileSession"},
           operations' = Tail(operations) \/ operations' = Append(Tail(operations), o),
           Head(operations).op # "reconcileSession",
           \A c \in buffer' \cap Captions :
               c \in buffer \/ (Head(operations).op = "enqueue" /\ c = Head(operations).event)
    PROVE  QueuedScoped' /\ BufferScoped'
<1>1. QueuedScoped'
  BY TailScoped
<1>2. BufferScoped'
  <2> SUFFICES ASSUME greeted', Reconciling' = {}, NEW c \in buffer' \cap Captions
               PROVE  scope'[c] = held'
    BY DEF BufferScoped
  <2>1. \A j \in DOMAIN operations : operations[j].op # "reconcileSession"
    <3>1. operations[1] = Head(operations) /\ 1 \in DOMAIN operations
      BY TailElement DEF TypeOK
    <3>2. \A j \in DOMAIN operations : j # 1 =>
             /\ j - 1 \in DOMAIN Tail(operations)
             /\ Tail(operations)[j - 1] = operations[j]
      BY DEF TypeOK
    <3>3. \A i \in DOMAIN Tail(operations) :
             i \in DOMAIN operations' /\ operations'[i] = Tail(operations)[i]
      BY TailElement DEF TypeOK
    <3>4. \A i \in DOMAIN operations' : operations'[i].op # "reconcileSession"
      BY DEF Reconciling
    <3>5. ASSUME NEW j \in DOMAIN operations PROVE operations[j].op # "reconcileSession"
      <4>1. CASE j = 1
        BY <3>1, <4>1
      <4>2. CASE j # 1
        BY <3>2, <3>3, <3>4, <4>2
      <4>. QED
        BY <4>1, <4>2
    <3>. QED
      BY <3>5
  <2>2. Reconciling = {}
    BY <2>1 DEF Reconciling
  <2>3. CASE c \in buffer
    BY <2>2, <2>3 DEF BufferScoped
  <2>4. CASE Head(operations).op = "enqueue" /\ c = Head(operations).event
    <3>1. operations[1] = Head(operations) /\ 1 \in DOMAIN operations
      BY TailElement DEF TypeOK
    <3>2. NoneAfter(1)
      BY <2>1 DEF NoneAfter
    <3>. QED
      BY <2>4, <3>1, <3>2 DEF QueuedScoped
  <2>. QED
    BY <2>3, <2>4
<1>. QED
  BY <1>1, <1>2

LEMMA ScopeStep ==
    TypeOK /\ TypeOK' /\ Known /\ QueuedScoped /\ BufferScoped /\ [Next]_vars
        => QueuedScoped' /\ BufferScoped'
<1> SUFFICES ASSUME TypeOK, TypeOK', Known, QueuedScoped, BufferScoped, [Next]_vars
             PROVE  QueuedScoped' /\ BufferScoped'
  OBVIOUS
<1> USE DEF client, connection, recording, processed
<1>1. CASE Enqueue
  <2> DEFINE e == clientSequence + 1
             o == [op |-> "enqueue", event |-> e]
  <2>1. /\ e \in Events
        /\ scope' = [scope EXCEPT ![e] = IF e \in Statuses THEN None ELSE held]
        /\ operations' = Append(operations, o)
        /\ UNCHANGED <<buffer, held, greeted>>
    BY <1>1 DEF Enqueue
  <2>2. e \notin 1..clientSequence
    BY DEF TypeOK
  <2>3. o \in Operation /\ o.op = "enqueue" /\ o.event = e
    BY <2>1, OperationsAre
  <2> HIDE DEF e
  <2>4. scope'[e] = (IF e \in Statuses THEN None ELSE held)
        /\ \A f \in Events \ {e} : scope'[f] = scope[f]
    BY <2>1 DEF TypeOK
  <2>5. \A i \in DOMAIN operations :
           operations[i].op = "enqueue" => operations[i].event \in Events \ {e}
    <3>1. \A i \in DOMAIN operations : operations[i] \in KnownOperation /\ operations[i] \in Operation
      BY DEF Known, TypeOK
    <3>. QED
      BY <2>2, <3>1, OperationKinds DEF KnownOperation
  <2>6. e \notin buffer
    BY <2>2 DEF Known, Taken
  <2> HIDE DEF o
  <2>7. QueuedScoped'
    BY <2>1, <2>3, <2>4, <2>5, AppendScoped DEF Captions
  <2>8. Reconciling' = {} => Reconciling = {}
    <3>1. \A i \in DOMAIN operations : i \in DOMAIN operations' /\ operations'[i] = operations[i]
      BY <2>1 DEF TypeOK
    <3>. QED
      BY <3>1 DEF Reconciling
  <2>9. BufferScoped'
    BY <2>1, <2>4, <2>6, <2>8 DEF BufferScoped, Captions
  <2>. QED
    BY <2>7, <2>9
<1>s. [op |-> "snapshot"] \in Operation /\ [op |-> "snapshot"].op = "snapshot"
  BY OperationsAre
<1>2. CASE RunEnqueue
  <2> DEFINE e == Head(operations).event
             o == [op |-> "refreshCounts", event |-> e]
  <2>1. operations # <<>> /\ Head(operations).op = "enqueue"
    BY <1>2 DEF RunEnqueue, Runs
  <2>2. o \in Operation /\ o.op = "refreshCounts"
    BY <2>1, QueueTail, OperationKinds, OperationsAre
  <2>3. operations' = Tail(operations) \/ operations' = Append(Tail(operations), o)
    BY <1>2 DEF RunEnqueue, Ends, EndsWith
  <2>4. UNCHANGED <<held, scope, greeted>> /\ buffer' \subseteq buffer \cup {e}
    BY <1>2 DEF RunEnqueue
  <2>5. \A c \in buffer' \cap Captions : c \in buffer \/ c = e
    BY <2>4
  <2> HIDE DEF o
  <2>. QED
    BY <2>1, <2>2, <2>3, <2>4, <2>5, ScopesTail
<1>3. CASE RunRefreshCounts \/ RunAcknowledge \/ RunReject \/ RunSnapshot
  <2>1. /\ operations # <<>>
        /\ Head(operations).op # "reconcileSession"
        /\ operations' = Tail(operations)
        /\ UNCHANGED <<held, scope, greeted>>
        /\ buffer' \subseteq buffer
    BY <1>3 DEF RunRefreshCounts, RunAcknowledge, RunReject, RunSnapshot, Runs, Ends
  <2>2. \A c \in buffer' \cap Captions : c \in buffer
    BY <2>1
  <2>. QED
    BY <1>s, <2>1, <2>2, ScopesTail
<1>4. CASE RunReconcile
  <2> DEFINE s == Head(operations).session
             o == [op |-> "snapshot"]
  <2>1. /\ operations # <<>>
        /\ Head(operations).op = "reconcileSession"
        /\ operations' = Tail(operations) \/ operations' = Append(Tail(operations), o)
        /\ UNCHANGED <<held, scope, greeted>>
    BY <1>4 DEF RunReconcile, Runs, Ends, EndsWith
  <2>2. QueuedScoped'
    BY <1>s, <2>1, TailScoped
  <2>3. \A c \in buffer' \cap Captions : scope[c] = s
    BY <1>4 DEF RunReconcile, Foreign
  <2>4. ASSUME Reconciling' = {} PROVE s = held
    <3>1. operations[1] = Head(operations) /\ 1 \in DOMAIN operations
      BY <2>1, TailElement DEF TypeOK
    <3>2. \A j \in DOMAIN operations : j > 1 =>
             /\ j - 1 \in DOMAIN Tail(operations)
             /\ Tail(operations)[j - 1] = operations[j]
      BY DEF TypeOK
    <3>3. \A i \in DOMAIN Tail(operations) :
             i \in DOMAIN operations' /\ operations'[i] = Tail(operations)[i]
      <4>1. Tail(operations) \in Seq(Operation)
        BY <2>1, TailElement DEF TypeOK
      <4>. QED
        BY <2>1, <4>1
    <3>4. \A i \in DOMAIN operations' : operations'[i].op # "reconcileSession"
      BY <2>4 DEF Reconciling
    <3>5. NoneAfter(1)
      BY <3>2, <3>3, <3>4 DEF NoneAfter
    <3>. QED
      BY <2>1, <3>1, <3>5 DEF QueuedScoped
  <2> HIDE DEF s
  <2>5. BufferScoped'
    BY <2>1, <2>3, <2>4 DEF BufferScoped
  <2>. QED
    BY <2>2, <2>5
<1>5. CASE ReceiveSession
  <2>1. PICK b \in BOOLEAN :
           operations' = Append(operations, [op |-> "reconcileSession",
                                             session |-> held', resend |-> b])
    BY <1>5 DEF ReceiveSession, Queue
  <2> DEFINE o == [op |-> "reconcileSession", session |-> held', resend |-> b]
             last == Len(operations) + 1
  <2>2. o \in Operation /\ o.op = "reconcileSession" /\ o.session = held'
    BY OperationsAre DEF TypeOK
  <2>3. operations' = Append(operations, o)
    BY <2>1
  <2> HIDE DEF o
  <2>4. /\ last \in DOMAIN operations'
        /\ operations'[last] = o
        /\ \A i \in DOMAIN operations' : i # last => last > i
    BY <2>2, <2>3 DEF TypeOK
  <2> HIDE DEF last
  <2>5. QueuedScoped'
    <3>1. ASSUME NEW i \in DOMAIN operations', NoneAfter(i)' PROVE i = last
      BY <2>2, <2>4, <3>1 DEF NoneAfter
    <3>. QED
      BY <2>2, <2>4, <3>1 DEF QueuedScoped
  <2>6. Reconciling' # {}
    BY <2>2, <2>4 DEF Reconciling
  <2>. QED
    BY <2>5, <2>6 DEF BufferScoped
<1>6. CASE ReceiveAnswer
  <2>1. PICK type \in {"event.ack", "protocol.error"} :
           /\ down # <<>>
           /\ Head(down).type = type
           /\ operations' = Append(operations,
                  [op |-> IF type = "event.ack" THEN "acknowledge" ELSE "reject",
                   event |-> Head(down).event])
           /\ UNCHANGED <<buffer, scope, held>>
           /\ greeted' = greeted
    BY <1>6 DEF ReceiveAnswer, Heard, Queue
  <2> DEFINE o == [op |-> IF type = "event.ack" THEN "acknowledge" ELSE "reject",
                   event |-> Head(down).event]
  <2>2. Head(down) \in Downward /\ Head(down).event \in Events
    BY <2>1, TailElement, FrameKinds DEF TypeOK
  <2>3. o \in Operation /\ o.op \in {"acknowledge", "reject"}
    BY <2>2, OperationsAre
  <2>4. operations' = Append(operations, o)
    BY <2>1
  <2> HIDE DEF o
  <2>5. QueuedScoped'
    BY <2>1, <2>3, <2>4, AppendScoped
  <2>6. \A i \in DOMAIN operations : i \in DOMAIN operations' /\ operations'[i] = operations[i]
    BY <2>3, <2>4 DEF TypeOK
  <2>7. Reconciling' = {} => Reconciling = {}
    BY <2>6 DEF Reconciling
  <2>. QED
    BY <2>1, <2>5, <2>7 DEF BufferScoped
<1>7. CASE \/ ResendNext \/ Connect \/ SendHeartbeat
           \/ HandleHello \/ HandleHeartbeat \/ RefuseEvent \/ LimitEvent
           \/ HandleEvent \/ HandleLate
  <2>1. UNCHANGED <<operations, held, scope, buffer, greeted>>
    BY <1>7 DEF ResendNext, Resend, Connect, SendHeartbeat, HandleHello,
       HandleHeartbeat, RefuseEvent, LimitEvent, HandleEvent, HandleLate
  <2>. QED
    BY <2>1, ScopesKept
<1>8. CASE \/ \E s \in Sessions : StartSession(s)
           \/ StopSession \/ LoseConnection \/ RestartDaemon \/ UNCHANGED vars
  <2>1. UNCHANGED <<operations, held, scope, buffer>> /\ (greeted' => greeted)
    BY <1>8 DEF StartSession, StopSession, LoseConnection, RestartDaemon, Closed, vars
  <2>. QED
    BY <2>1, ScopesKept
<1>9. CASE RestartWorker
  <2>1. operations' = <<>> /\ greeted' = FALSE
    BY <1>9 DEF RestartWorker, Closed
  <2>. QED
    BY <2>1 DEF QueuedScoped, BufferScoped
<1> HIDE DEF client, connection, recording, processed
<1>. QED
  BY <1>1, <1>2, <1>3, <1>4, <1>5, <1>6, <1>7, <1>8, <1>9 DEF Next, RunOperation, Receive, Handle

\* Once the daemon has said which session records and the reconciliation has
\* run, no caption of another session is buffered (transport.ts handleMessage,
\* event-buffer.ts reconcileSession), however the operations interleave.
THEOREM BufferStaysScoped == Spec => []BufferScoped
<1>1. Init => QueuedScoped /\ BufferScoped
  BY DEF Init, QueuedScoped, BufferScoped
<1>. QED
  BY <1>1, KnownAlways, ScopeStep, PTL DEF Spec

=============================================================================
