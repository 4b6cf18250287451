-------------------------- MODULE RecordingProofs --------------------------
(* Proofs about the recording core, for all values of its constants.        *)
EXTENDS Recording, SequenceTheorems, TLAPS

-----------------------------------------------------------------------------
(* Lemmas about the data.                                                  *)

\* A sequence rewritten element by element is a sequence of the same length.
LEMMA MappedSeq ==
    ASSUME NEW S, NEW q \in Seq(S), NEW r,
           r = [i \in DOMAIN q |-> r[i]],
           \A i \in DOMAIN q : r[i] \in S
    PROVE  r \in Seq(S) /\ Len(r) = Len(q) /\ DOMAIN r = DOMAIN q
<1>1. Len(q) \in Nat /\ DOMAIN q = 1..Len(q)
  BY LenProperties
<1>2. r \in [1..Len(q) -> S]
  BY <1>1
<1>3. r \in Seq(S)
  BY <1>1, <1>2, SeqDef
<1> QED
  BY <1>1, <1>2, <1>3, LenProperties

\* What start, stop, recovery and update_source make of a session row is a row.
LEMMA RowTypes ==
    ASSUME NEW rec \in SessionRecord, NEW x \in Sources \cup {None},
           NEW captions \in CaptureStatuses, clock \in Nat
    PROVE  /\ NewSession \in SessionRecord
           /\ [NewSession EXCEPT !.recording_status = "deleted"] \in SessionRecord
           /\ StartedSession(rec, x) \in SessionRecord
           /\ StoppedSession(rec) \in SessionRecord
           /\ RecoveredSession(rec) \in SessionRecord
           /\ [rec EXCEPT !.enabled_source_id = x, !.active_source_id = x,
                          !.capture_status = captions] \in SessionRecord
           /\ [rec EXCEPT !.finalize_grace_source_id = None,
                          !.finalize_grace = FALSE] \in SessionRecord
<1> USE DEF SessionRecord, RecordingStatuses, CaptureStatuses
<1>1. NewSession \in SessionRecord
      /\ [NewSession EXCEPT !.recording_status = "deleted"] \in SessionRecord
  BY DEF NewSession
<1>2. StartedSession(rec, x) \in SessionRecord
  BY DEF StartedSession
<1> DEFINE next == clock + 1
<1>a. next \in Nat
  OBVIOUS
<1> HIDE DEF next
<1>3. StoppedSession(rec) \in SessionRecord
  <2>1. StoppedSession(rec) =
          [rec EXCEPT !.recording_status = "stopped",
                      !.capture_status = IF rec.enabled_source_id # None
                                         THEN "connected" ELSE "no_source",
                      !.active_source_id = None,
                      !.finalize_grace_source_id = rec.active_source_id,
                      !.finalize_grace = TRUE,
                      !.stopped_at = next]
    BY DEF StoppedSession, next
  <2> QED BY <1>a, <2>1
<1>4. RecoveredSession(rec) \in SessionRecord
  <2>1. RecoveredSession(rec) =
          [rec EXCEPT !.recording_status = "stopped",
                      !.capture_status = "no_source",
                      !.active_source_id = None,
                      !.finalize_grace_source_id = None,
                      !.finalize_grace = FALSE,
                      !.stopped_at = next]
    BY DEF RecoveredSession, next
  <2> QED BY <1>a, <2>1
<1>5. [rec EXCEPT !.enabled_source_id = x, !.active_source_id = x,
                  !.capture_status = captions] \in SessionRecord
  OBVIOUS
<1>6. [rec EXCEPT !.finalize_grace_source_id = None, !.finalize_grace = FALSE]
        \in SessionRecord
  OBVIOUS
<1> QED
  BY <1>1, <1>2, <1>3, <1>4, <1>5, <1>6

LEMMA TypeInit == Init => TypeOK
<1> SUFFICES ASSUME Init PROVE TypeOK
  OBVIOUS
<1>1. sessions \in [Sessions -> SessionRecord]
  BY DEF Init, SessionRecord, NewSession, RecordingStatuses, CaptureStatuses
<1>2. segments \in [Sessions -> Seq(SegmentRecord)]
  BY EmptySeq DEF Init
<1>3. sources \in [Sources -> SourceRecord]
  BY DEF Init, SourceRecord
<1>4. utterances \in [Keys -> UtteranceRecord \cup {None}]
  BY DEF Init
<1>5. cleanups \in Seq([session_id : Sessions, stopped_at : Nat])
  BY EmptySeq DEF Init
<1>6. starting \in [session_id : Sessions \cup {None}, source_id : Sources \cup {None}]
  BY DEF Init, NoStart
<1>7. /\ tombstones \subseteq EventIds
      /\ deleting \in Sessions \cup {None}
      /\ up \in BOOLEAN
  BY DEF Init
<1>8. clock \in Nat /\ crashes \in Nat
  BY DEF Init
<1> QED
  BY <1>1, <1>2, <1>3, <1>4, <1>5, <1>6, <1>7, <1>8 DEF TypeOK

LEMMA TypeStep ==
    ASSUME TypeOK, SegmentTracksRecording, [Next]_vars
    PROVE  TypeOK'
<1> USE DEF TypeOK
<1>0. /\ \A s \in Sessions : sessions[s] \in SessionRecord /\ segments[s] \in Seq(SegmentRecord)
      /\ starting.source_id \in Sources \cup {None}
      /\ \A c \in CaptionsShown : c \in CaptureStatuses
  BY RecordingAssumption DEF RecordingAssumption, CaptureStatuses
<1>0a. \A s \in Sessions : \A i \in DOMAIN segments[s] : segments[s][i] \in SegmentRecord
  BY <1>0, ElementOfSeq, LenProperties
<1>1. ASSUME NEW s \in Sessions, CreateSession(s) PROVE TypeOK'
  <2>1. sessions' \in [Sessions -> SessionRecord]
    BY <1>0, <1>1, RowTypes DEF CreateSession, CaptureStatuses
  <2> QED BY <1>1, <2>1 DEF CreateSession
<1>2. ASSUME NEW s \in Sessions, StartRead(s) PROVE TypeOK'
  <2>1. SourcesToBind(s) \subseteq Sources \cup {None}
    BY DEF SourcesToBind, SessionRecord
  <2> QED BY <1>2, <2>1 DEF StartRead
<1>3. ASSUME NEW s \in Sessions, StartCommit(s) PROVE TypeOK'
  <2>1. StartedSession(sessions[s], starting.source_id) \in SessionRecord
    BY <1>0, RowTypes DEF CaptureStatuses
  <2>2. sessions' \in [Sessions -> SessionRecord]
    BY <1>3, <2>1 DEF StartCommit
  <2>3. Append(segments[s], [source_id |-> starting.source_id, stop_reason |-> "open"])
          \in Seq(SegmentRecord)
    <3>1. [source_id |-> starting.source_id, stop_reason |-> "open"] \in SegmentRecord
      BY <1>0 DEF SegmentRecord
    <3> QED BY <1>0, <3>1, AppendProperties
  <2>4. segments' \in [Sessions -> Seq(SegmentRecord)]
    BY <1>3, <2>3 DEF StartCommit
  <2> QED BY <1>3, <2>2, <2>4 DEF StartCommit, NoStart
<1>4. ASSUME NEW s \in Sessions, StartAbort(s) PROVE TypeOK'
  BY <1>4 DEF StartAbort, NoStart
<1>5. ASSUME NEW s \in Sessions, Stop(s) PROVE TypeOK'
  <2>1. StoppedSession(sessions[s]) \in SessionRecord
    BY <1>0, RowTypes DEF CaptureStatuses
  <2>2. sessions' \in [Sessions -> SessionRecord]
    BY <1>5, <2>1 DEF Stop
  <2>3. segments' \in [Sessions -> Seq(SegmentRecord)]
    <3>1. PICK i \in OpenSegments(s) : segments' = [segments EXCEPT ![s][i].stop_reason = "user"]
      BY <1>5 DEF Stop
    <3>2. i \in DOMAIN segments[s]
      BY DEF OpenSegments
    <3>3. [segments[s][i] EXCEPT !.stop_reason = "user"] \in SegmentRecord
      <4>1. segments[s][i] \in SegmentRecord
        BY <1>0a, <3>2
      <4> QED BY <4>1 DEF SegmentRecord
    <3>4. [segments[s] EXCEPT ![i].stop_reason = "user"] \in Seq(SegmentRecord)
      BY <1>0, <3>2, <3>3, ExceptSeq, LenProperties
    <3> QED BY <3>1, <3>4
  <2>4. cleanups' \in Seq([session_id : Sessions, stopped_at : Nat])
    BY <1>5 DEF Stop, CleanupTask
  <2>5. clock' \in Nat
    BY <1>5 DEF Stop
  <2>6. UNCHANGED <<sources, utterances, tombstones, starting, deleting, up, crashes>>
    BY <1>5 DEF Stop
  <2> QED BY <2>2, <2>3, <2>4, <2>5, <2>6
<1>6. ASSUME NEW s \in Sessions, StopAgain(s) PROVE TypeOK'
  BY <1>6 DEF StopAgain, CleanupTask, SessionRecord
<1>7. ASSUME NEW s \in Sessions, DeleteRead(s) PROVE TypeOK'
  BY <1>7 DEF DeleteRead
<1>8. ASSUME NEW s \in Sessions, DeleteCommit(s) PROVE TypeOK'
  <2>1. sessions' \in [Sessions -> SessionRecord]
    BY <1>0, <1>8, RowTypes DEF DeleteCommit, CaptureStatuses
  <2>2. segments' \in [Sessions -> Seq(SegmentRecord)]
    BY <1>8 DEF DeleteCommit
  <2>3. utterances' \in [Keys -> UtteranceRecord \cup {None}]
    BY <1>8 DEF DeleteCommit, Cascaded
  <2> QED BY <1>8, <2>1, <2>2, <2>3 DEF DeleteCommit
<1>9. ASSUME Cleanup PROVE TypeOK'
  <2>0. Head(cleanups).session_id \in Sessions
    <3>1. Head(cleanups) \in [session_id : Sessions, stopped_at : Nat]
      BY <1>9, HeadTailProperties DEF Cleanup
    <3> QED BY <3>1
  <2>1. sessions' \in [Sessions -> SessionRecord]
    <3> DEFINE s == Head(cleanups).session_id
    <3>1. [sessions[s] EXCEPT !.finalize_grace_source_id = None, !.finalize_grace = FALSE]
            \in SessionRecord
      BY <1>0, <2>0, RowTypes DEF CaptureStatuses
    <3> QED BY <1>9, <2>0, <3>1 DEF Cleanup
  <2>2. utterances' \in [Keys -> UtteranceRecord \cup {None}]
    BY <1>9 DEF Cleanup, WithoutPartialsOf
  <2>3. cleanups' \in Seq([session_id : Sessions, stopped_at : Nat])
    BY <1>9 DEF Cleanup
  <2> QED BY <1>9, <2>1, <2>2, <2>3 DEF Cleanup
<1>10. ASSUME NEW x \in Sources, NEW tab \in Tabs, NEW captions \in CaptionsShown,
              EnableSource(x, tab, captions)
       PROVE  TypeOK'
  <2>1. sessions' \in [Sessions -> SessionRecord]
    <3>1. ASSUME NEW s \in Sessions
          PROVE  [sessions[s] EXCEPT !.enabled_source_id = x, !.active_source_id = x,
                                     !.capture_status = captions] \in SessionRecord
      BY <1>0, RowTypes
    <3> QED BY <1>10, <3>1 DEF EnableSource
  <2>2. segments' \in [Sessions -> Seq(SegmentRecord)]
    <3>1. ASSUME NEW s \in Sessions PROVE SegmentsFollowing(x)[s] \in Seq(SegmentRecord)
      <4>1. CASE s \in Running
        <5> DEFINE r == SegmentsFollowing(x)[s]
        <5>1. r = [i \in DOMAIN segments[s] |->
                     IF i \in OpenSegments(s)
                     THEN [segments[s][i] EXCEPT !.source_id = x]
                     ELSE segments[s][i]]
          BY <4>1 DEF SegmentsFollowing
        <5>2. ASSUME NEW i \in DOMAIN segments[s] PROVE r[i] \in SegmentRecord
          <6>1. segments[s][i] \in SegmentRecord
            BY <1>0a
          <6> QED BY <5>1, <6>1 DEF SegmentRecord
        <5>3. r = [i \in DOMAIN segments[s] |-> r[i]]
          BY <5>1
        <5> HIDE DEF r
        <5> QED BY <1>0, <5>2, <5>3, MappedSeq DEF r
      <4>2. CASE s \notin Running
        BY <4>2 DEF SegmentsFollowing
      <4> QED BY <4>1, <4>2
    <3>2. segments' = SegmentsFollowing(x)
          /\ SegmentsFollowing(x) = [s \in Sessions |-> SegmentsFollowing(x)[s]]
      BY <1>10 DEF EnableSource, SegmentsFollowing
    <3> HIDE DEF SegmentsFollowing
    <3> QED BY <3>1, <3>2
  <2>3. sources' \in [Sources -> SourceRecord]
    <3>1. /\ sources' = [y \in Sources |-> sources'[y]]
          /\ \A y \in Sources : sources'[y] =
                IF y = x THEN [known |-> TRUE, enabled |-> TRUE, connected |-> TRUE, tab |-> tab]
                         ELSE [sources[y] EXCEPT !.enabled = FALSE]
      BY <1>10 DEF EnableSource, SourcesEnabling
    <3>2. \A y \in Sources : sources[y] \in SourceRecord
      OBVIOUS
    <3>3. [known |-> TRUE, enabled |-> TRUE, connected |-> TRUE, tab |-> tab] \in SourceRecord
      BY RecordingAssumption DEF RecordingAssumption, SourceRecord
    <3> HIDE DEF TypeOK
    <3>4. ASSUME NEW y \in Sources PROVE sources'[y] \in SourceRecord
      <4>1. CASE y = x
        BY <3>1, <3>3, <4>1
      <4>2. CASE y # x
        BY <3>1, <3>2, <4>2 DEF SourceRecord
      <4> QED BY <4>1, <4>2
    <3>5. sources' = [y \in Sources |-> sources'[y]]
      BY <3>1
    <3> QED BY <3>4, <3>5, Zenon
  <2> QED BY <1>10, <2>1, <2>2, <2>3 DEF EnableSource
<1>11. ASSUME NEW x \in Sources, NEW tab \in Tabs, DisableSource(x, tab) PROVE TypeOK'
  <2>1. sessions' \in [Sessions -> SessionRecord]
    <3>1. ASSUME NEW s \in Sessions
          PROVE  [sessions[s] EXCEPT !.enabled_source_id = None, !.active_source_id = None,
                                     !.capture_status = "waiting_for_source"] \in SessionRecord
      BY <1>0, RowTypes DEF CaptureStatuses
    <3> QED BY <1>11, <3>1 DEF DisableSource
  <2>2. sources' \in [Sources -> SourceRecord]
    BY <1>11 DEF DisableSource, SourceRecord
  <2> QED BY <1>11, <2>1, <2>2 DEF DisableSource
<1>12. ASSUME NEW m \in Captions, ApplyCaption(m) PROVE TypeOK'
  <2>1. PICK s \in CaptionSession(m) :
            /\ Accepted(m, s)
            /\ utterances' = [utterances EXCEPT ![Key(m)] = Recorded(m, s)]
    BY <1>12 DEF ApplyCaption
  <2>2. s \in Sessions
    BY DEF CaptionSession, Running, InGrace
  <2>3. Key(m) \in Keys
    BY DEF Key, Keys, Captions
  <2>4. Recorded(m, s) \in UtteranceRecord
    <3>1. CASE utterances[Key(m)] = None
      <4>1. Len(segments[s]) \in Nat \ {0}
        <5>1. Len(segments[s]) \in DOMAIN segments[s]
          BY <2>1, <2>2, <3>1 DEF Accepted, SegmentTracksRecording, OpenSegments
        <5> QED BY <1>0, <2>2, <5>1, LenProperties
      <4> QED BY <2>2, <3>1, <4>1, RecordingAssumption
               DEF Recorded, UtteranceRecord, Captions, RecordingAssumption
    <3>2. CASE utterances[Key(m)] # None
      BY <2>2, <2>3, <3>2, RecordingAssumption
      DEF Recorded, UtteranceRecord, Captions, RecordingAssumption
    <3> QED BY <3>1, <3>2
  <2>5. tombstones' \subseteq EventIds
    BY <1>12 DEF ApplyCaption, Captions
  <2> QED BY <1>12, <2>1, <2>3, <2>4, <2>5 DEF ApplyCaption
<1>13. ASSUME NEW m \in Captions, RefuseCaption(m) PROVE TypeOK'
  BY <1>13 DEF RefuseCaption, Captions
<1>14. ASSUME GoDown PROVE TypeOK'
  <2>1. crashes' \in Nat
    BY <1>14 DEF GoDown
  <2>2. cleanups' \in Seq([session_id : Sessions, stopped_at : Nat])
    BY <1>14, EmptySeq DEF GoDown
  <2> QED BY <1>14, <2>1, <2>2 DEF GoDown, NoStart
<1>15. ASSUME NEW old \in SUBSET Sources, NEW kept \in {tombstones, {}}, ComeUp(old, kept)
       PROVE  TypeOK'
  <2>1. sessions' \in [Sessions -> SessionRecord]
    <3>1. ASSUME NEW s \in Sessions PROVE RecoveredSession(sessions[s]) \in SessionRecord
      BY <1>0, RowTypes DEF CaptureStatuses
    <3> QED BY <1>15, <3>1 DEF ComeUp
  <2>2. segments' \in [Sessions -> Seq(SegmentRecord)]
    <3>1. ASSUME NEW s \in Sessions PROVE ClosedSegments(s) \in Seq(SegmentRecord)
      <4> DEFINE r == ClosedSegments(s)
      <4>1. \A i \in DOMAIN segments[s] : r[i] \in SegmentRecord
        <5> SUFFICES ASSUME NEW i \in DOMAIN segments[s]
                     PROVE  r[i] \in SegmentRecord
          OBVIOUS
        <5>1. segments[s][i] \in SegmentRecord
          BY <1>0a
        <5>2. [segments[s][i] EXCEPT !.stop_reason = "daemon_restart"] \in SegmentRecord
          BY <5>1 DEF SegmentRecord
        <5> QED BY <5>1, <5>2 DEF ClosedSegments
      <4>2. r = [i \in DOMAIN segments[s] |-> r[i]]
        BY DEF ClosedSegments
      <4> HIDE DEF r
      <4> QED BY <1>0, <4>1, <4>2, MappedSeq DEF r
    <3> QED BY <1>15, <3>1 DEF ComeUp
  <2>3. sources' \in [Sources -> SourceRecord]
    <3>1. ASSUME NEW x \in Sources
          PROVE  /\ [known |-> FALSE, enabled |-> FALSE, connected |-> FALSE, tab |-> None]
                       \in SourceRecord
                 /\ [sources[x] EXCEPT !.enabled = FALSE, !.connected = FALSE] \in SourceRecord
      <4>1. sources[x] \in SourceRecord
        OBVIOUS
      <4> QED BY <4>1 DEF SourceRecord
    <3> QED BY <1>15, <3>1 DEF ComeUp
  <2>4. utterances' \in [Keys -> UtteranceRecord \cup {None}]
    BY <1>15 DEF ComeUp
  <2>5. tombstones' \subseteq EventIds
    BY <1>15 DEF ComeUp
  <2>6. clock' \in {clock, clock + 1}
    BY <1>15 DEF ComeUp
  <2>7. clock' \in Nat
    BY <2>6
  <2> QED BY <1>15, <2>1, <2>2, <2>3, <2>4, <2>5, <2>7 DEF ComeUp
<1>16. CASE UNCHANGED vars
  BY <1>16 DEF vars
<1> QED
  BY <1>1, <1>2, <1>3, <1>4, <1>5, <1>6, <1>7, <1>8, <1>9, <1>10, <1>11, <1>12,
     <1>13, <1>14, <1>15, <1>16 DEF Next

-----------------------------------------------------------------------------
(* One open segment per recording.                                         *)

LEMMA SegmentInit == Init => SegmentTracksRecording
BY DEF Init, SegmentTracksRecording, OpenSegments, Status, NewSession

\* Only the status, the active source and the segments of a session count.
LEMMA SegmentFrame ==
    ASSUME NEW s \in Sessions, SegmentTracksRecording,
           Status(s)' = Status(s),
           Status(s) = "running" =>
             sessions'[s].active_source_id \in {sessions[s].active_source_id, None},
           segments'[s] = segments[s]
    PROVE  IF Status(s)' = "running"
           THEN /\ OpenSegments(s)' = {Len(segments'[s])}
                /\ sessions'[s].active_source_id # None =>
                     segments'[s][Len(segments'[s])].source_id = sessions'[s].active_source_id
           ELSE OpenSegments(s)' = {}
BY DEF SegmentTracksRecording, OpenSegments, Status

\* A cleanup changes nothing of a session but its grace period.
LEMMA CleanupFrame ==
    ASSUME TypeOK, Cleanup, NEW t \in Sessions
    PROVE  sessions'[t] \in {sessions[t],
                             [sessions[t] EXCEPT !.finalize_grace_source_id = None,
                                                 !.finalize_grace = FALSE]}
           /\ sessions'[t].recording_status = sessions[t].recording_status
           /\ sessions'[t].active_source_id = sessions[t].active_source_id
           /\ sessions'[t].enabled_source_id = sessions[t].enabled_source_id
           /\ sessions'[t].capture_status = sessions[t].capture_status
<1> DEFINE s == Head(cleanups).session_id
<1>1. sessions[t] \in SessionRecord
  BY DEF TypeOK
<1>2. s \in Sessions
  <2>1. Head(cleanups) \in [session_id : Sessions, stopped_at : Nat]
    BY HeadTailProperties DEF Cleanup, TypeOK
  <2> QED BY <2>1
<1> DEFINE rec == [sessions[s] EXCEPT !.finalize_grace_source_id = None,
                                      !.finalize_grace = FALSE]
<1>3. sessions' \in {sessions, [sessions EXCEPT ![s] = rec]}
  <2>1. [sessions EXCEPT ![s].finalize_grace_source_id = None, ![s].finalize_grace = FALSE]
          = [sessions EXCEPT ![s] = rec]
    BY <1>2 DEF TypeOK
  <2> QED BY <2>1 DEF Cleanup
<1>4. sessions'[t] \in {sessions[t],
                        [sessions[t] EXCEPT !.finalize_grace_source_id = None,
                                            !.finalize_grace = FALSE]}
  <2>1. CASE t = s
    <3> HIDE DEF rec
    <3>1. sessions'[t] \in {sessions[t], rec}
      BY <1>2, <1>3, <2>1 DEF TypeOK
    <3> QED BY <2>1, <3>1 DEF rec
  <2>2. CASE t # s
    BY <1>2, <1>3, <2>2 DEF TypeOK
  <2> QED BY <2>1, <2>2
<1> QED
  BY <1>1, <1>4 DEF SessionRecord

LEMMA SegmentStep ==
    ASSUME TypeOK, SegmentTracksRecording, [Next]_vars
    PROVE  SegmentTracksRecording'
<1> DEFINE Tracks(t) ==
      IF Status(t)' = "running"
      THEN /\ OpenSegments(t)' = {Len(segments'[t])}
           /\ sessions'[t].active_source_id # None =>
                segments'[t][Len(segments'[t])].source_id = sessions'[t].active_source_id
      ELSE OpenSegments(t)' = {}
<1> SUFFICES ASSUME NEW t \in Sessions PROVE Tracks(t)
  BY DEF SegmentTracksRecording
<1>0. sessions[t] \in SessionRecord /\ segments[t] \in Seq(SegmentRecord)
  BY DEF TypeOK
<1>1. ASSUME NEW s \in Sessions, CreateSession(s) PROVE Tracks(t)
  <2>1. CASE t = s
    BY <1>1, <2>1 DEF TypeOK, CreateSession, NewSession, Status, SegmentTracksRecording, OpenSegments
  <2>2. CASE t # s
    BY <1>1, <2>2, SegmentFrame DEF TypeOK, CreateSession, Status
  <2> QED BY <2>1, <2>2
<1>2. ASSUME NEW s \in Sessions, StartCommit(s) PROVE Tracks(t)
  <2>1. CASE t = s
    <3> DEFINE seg == [source_id |-> starting.source_id, stop_reason |-> "open"]
    <3>1. /\ sessions'[t] = StartedSession(sessions[t], starting.source_id)
          /\ segments'[t] = Append(segments[t], seg)
      BY <1>2, <2>1 DEF StartCommit, TypeOK
    <3>2. Status(t)' = "running" /\ sessions'[t].active_source_id = starting.source_id
      BY <1>0, <3>1 DEF StartedSession, Status, SessionRecord
    <3>3. OpenSegments(t) = {}
      BY <1>2, <2>1 DEF StartCommit, Startable, SegmentTracksRecording, Status
    <3>4. /\ DOMAIN segments'[t] = 1..Len(segments[t]) + 1
          /\ Len(segments'[t]) = Len(segments[t]) + 1
          /\ segments'[t][Len(segments[t]) + 1] = seg
          /\ \A i \in 1..Len(segments[t]) : segments'[t][i] = segments[t][i]
          /\ Len(segments[t]) \in Nat
          /\ DOMAIN segments[t] = 1..Len(segments[t])
      <4>1. seg \in SegmentRecord
        BY DEF TypeOK, SegmentRecord
      <4>2. Len(segments[t]) \in Nat /\ DOMAIN segments[t] = 1..Len(segments[t])
        BY <1>0, LenProperties
      <4>3. /\ segments'[t] \in Seq(SegmentRecord)
            /\ Len(segments'[t]) = Len(segments[t]) + 1
            /\ \A i \in 1..Len(segments[t]) : segments'[t][i] = segments[t][i]
            /\ segments'[t][Len(segments[t]) + 1] = seg
        BY <1>0, <3>1, <4>1, AppendProperties
      <4>4. DOMAIN segments'[t] = 1..Len(segments[t]) + 1
        BY <4>3, LenProperties
      <4> QED BY <4>2, <4>3, <4>4
    <3>5. OpenSegments(t)' = {Len(segments'[t])}
      BY <3>3, <3>4 DEF OpenSegments
    <3> QED BY <3>2, <3>4, <3>5
  <2>2. CASE t # s
    BY <1>2, <2>2, SegmentFrame DEF TypeOK, StartCommit, Status
  <2> QED BY <2>1, <2>2
<1>3. ASSUME NEW s \in Sessions, Stop(s) PROVE Tracks(t)
  <2>1. CASE t = s
    <3>1. PICK i \in OpenSegments(t) : segments' = [segments EXCEPT ![t][i].stop_reason = "user"]
      BY <1>3, <2>1 DEF Stop
    <3>2. OpenSegments(t) = {Len(segments[t])} /\ i = Len(segments[t])
      BY <1>3, <2>1, <3>1 DEF Stop, SegmentTracksRecording
    <3>3. Status(t)' = "stopped"
      BY <1>0, <1>3, <2>1 DEF Stop, StoppedSession, Status, SessionRecord, TypeOK
    <3>4. OpenSegments(t)' = {}
      <4>1. /\ DOMAIN segments'[t] = DOMAIN segments[t]
            /\ \A j \in DOMAIN segments[t] : j # i => segments'[t][j] = segments[t][j]
            /\ segments'[t][i].stop_reason = "user"
        <5>1. i \in DOMAIN segments[t] /\ segments[t][i] \in SegmentRecord
          BY <1>0, <3>1, ElementOfSeq, LenProperties DEF OpenSegments
        <5>2. segments'[t] = [segments[t] EXCEPT ![i].stop_reason = "user"]
          BY <3>1 DEF TypeOK
        <5> QED BY <1>0, <5>1, <5>2, LenProperties DEF SegmentRecord
      <4> QED BY <3>2, <4>1 DEF OpenSegments
    <3> QED BY <3>3, <3>4
  <2>2. CASE t # s
    BY <1>3, <2>2, SegmentFrame DEF TypeOK, Stop, Status
  <2> QED BY <2>1, <2>2
<1>4. ASSUME NEW s \in Sessions, DeleteCommit(s) PROVE Tracks(t)
  <2>1. CASE t = s
    BY <1>4, <2>1 DEF TypeOK, DeleteCommit, NewSession, Status, OpenSegments
  <2>2. CASE t # s
    BY <1>4, <2>2, SegmentFrame DEF TypeOK, DeleteCommit, Status
  <2> QED BY <2>1, <2>2
<1>5. ASSUME Cleanup PROVE Tracks(t)
  <2>1. Status(t)' = Status(t) /\ sessions'[t].active_source_id = sessions[t].active_source_id
    BY <1>5, CleanupFrame DEF Status
  <2> QED BY <1>5, <2>1, SegmentFrame DEF Cleanup
<1>6. ASSUME NEW x \in Sources, NEW tab \in Tabs, NEW captions \in CaptionsShown,
             EnableSource(x, tab, captions)
      PROVE  Tracks(t)
  <2>1. CASE t \in Running
    <3>1. Status(t) = "running" /\ OpenSegments(t) = {Len(segments[t])}
      BY <2>1 DEF Running, SegmentTracksRecording
    <3>2. Status(t)' = "running" /\ sessions'[t].active_source_id = x
      BY <1>0, <1>6, <2>1, <3>1 DEF EnableSource, Status, SessionRecord
    <3>3. segments'[t] = [i \in DOMAIN segments[t] |->
                            IF i \in OpenSegments(t)
                            THEN [segments[t][i] EXCEPT !.source_id = x]
                            ELSE segments[t][i]]
      BY <1>6, <2>1 DEF EnableSource, SegmentsFollowing
    <3>4. ASSUME NEW i \in DOMAIN segments[t]
          PROVE  /\ segments'[t][i].stop_reason = segments[t][i].stop_reason
                 /\ i \in OpenSegments(t) => segments'[t][i].source_id = x
      <4>1. segments[t][i] \in SegmentRecord
        BY <1>0, ElementOfSeq, LenProperties
      <4> QED BY <3>3, <4>1 DEF SegmentRecord
    <3>5. DOMAIN segments'[t] = DOMAIN segments[t]
      BY <3>3
    <3>6. Len(segments'[t]) = Len(segments[t])
      <4>1. segments'[t] \in [1..Len(segments[t]) -> SegmentRecord]
        <5>1. ASSUME NEW i \in DOMAIN segments[t] PROVE segments'[t][i] \in SegmentRecord
          <6>1. segments[t][i] \in SegmentRecord
            BY <1>0, ElementOfSeq, LenProperties
          <6> QED BY <3>3, <6>1 DEF SegmentRecord
        <5> QED BY <1>0, <3>3, <5>1, LenProperties
      <4>2. Len(segments[t]) \in Nat
        BY <1>0, LenProperties
      <4>3. segments'[t] \in Seq(SegmentRecord)
        BY <4>1, <4>2, SeqDef
      <4> QED BY <1>0, <3>5, <4>2, <4>3, LenProperties
    <3>7. OpenSegments(t)' = OpenSegments(t)
      BY <3>4, <3>5 DEF OpenSegments
    <3>8. Len(segments[t]) \in DOMAIN segments[t]
      BY <3>1 DEF OpenSegments
    <3> QED BY <3>1, <3>2, <3>4, <3>6, <3>7, <3>8
  <2>2. CASE t \notin Running
    <3>1. sessions'[t] = sessions[t] /\ segments'[t] = segments[t]
      BY <1>6, <2>2 DEF EnableSource, SegmentsFollowing
    <3> QED BY <3>1, SegmentFrame DEF Status
  <2> QED BY <2>1, <2>2
<1>7. ASSUME NEW x \in Sources, NEW tab \in Tabs, DisableSource(x, tab) PROVE Tracks(t)
  <2>1. /\ Status(t)' = Status(t)
        /\ sessions'[t].active_source_id \in {sessions[t].active_source_id, None}
    BY <1>0, <1>7 DEF DisableSource, Status, SessionRecord
  <2> QED BY <1>7, <2>1, SegmentFrame DEF DisableSource
<1>8. ASSUME NEW old \in SUBSET Sources, NEW kept \in {tombstones, {}}, ComeUp(old, kept)
      PROVE  Tracks(t)
  <2>1. CASE t \in Running
    <3>1. Status(t)' = "stopped"
      BY <1>0, <1>8, <2>1 DEF ComeUp, RecoveredSession, Status, SessionRecord
    <3>2. segments'[t] = ClosedSegments(t)
      BY <1>8, <2>1 DEF ComeUp
    <3>3. ASSUME NEW i \in DOMAIN segments[t] PROVE segments'[t][i].stop_reason # "open"
      <4>1. segments[t][i] \in SegmentRecord
        BY <1>0, ElementOfSeq, LenProperties
      <4> QED BY <3>2, <4>1 DEF ClosedSegments, OpenSegments, SegmentRecord
    <3>4. DOMAIN segments'[t] = DOMAIN segments[t]
      BY <3>2 DEF ClosedSegments
    <3> QED BY <3>1, <3>3, <3>4 DEF OpenSegments
  <2>2. CASE t \notin Running
    <3>1. sessions'[t] = sessions[t] /\ segments'[t] = segments[t]
      BY <1>8, <2>2 DEF ComeUp
    <3> QED BY <3>1, SegmentFrame DEF Status
  <2> QED BY <2>1, <2>2
<1>9. ASSUME UNCHANGED <<sessions, segments>> PROVE Tracks(t)
  BY <1>9, SegmentFrame DEF Status
<1>10. ASSUME NEW s \in Sessions,
              StartRead(s) \/ StartAbort(s) \/ StopAgain(s) \/ DeleteRead(s)
       PROVE  Tracks(t)
  BY <1>9, <1>10 DEF StartRead, StartAbort, StopAgain, DeleteRead
<1>11. ASSUME NEW m \in Captions, ApplyCaption(m) \/ RefuseCaption(m) PROVE Tracks(t)
  BY <1>9, <1>11 DEF ApplyCaption, RefuseCaption
<1>12. ASSUME GoDown PROVE Tracks(t)
  BY <1>9, <1>12 DEF GoDown
<1>13. CASE UNCHANGED vars
  BY <1>9, <1>13 DEF vars
<1> QED
  BY <1>1, <1>2, <1>3, <1>4, <1>5, <1>6, <1>7, <1>8, <1>10, <1>11, <1>12, <1>13 DEF Next

-----------------------------------------------------------------------------
(* One recording at a time, and what its session says of its source.       *)

LEMMA OneInit == Init => OneRecording
BY DEF Init, OneRecording, Running, Status, NewSession

\* Only the commit of a start makes a session run, and then it runs alone.
LEMMA RunningStep ==
    ASSUME TypeOK, [Next]_vars
    PROVE  Running' \subseteq Running \/ \E s \in Sessions : Running' \subseteq {s}
<1> SUFFICES \/ \A t \in Sessions : Status(t)' = "running" => Status(t) = "running"
             \/ \E s \in Sessions : Running' \subseteq {s}
  BY DEF Running
<1> DEFINE None_begins == \A t \in Sessions : Status(t)' = "running" => Status(t) = "running"
<1>0. \A t \in Sessions : sessions[t] \in SessionRecord
  BY DEF TypeOK
<1>1. ASSUME NEW s \in Sessions, StartCommit(s) PROVE Running' \subseteq {s}
  <2>1. \A t \in Sessions \ {s} : sessions'[t] = sessions[t]
    BY <1>1 DEF StartCommit, TypeOK
  <2> QED BY <1>1, <2>1 DEF StartCommit, RecordingElsewhere, Running, Status
<1>2. ASSUME NEW s \in Sessions, CreateSession(s) \/ Stop(s) \/ DeleteCommit(s)
      PROVE  None_begins
  <2>1. \A t \in Sessions \ {s} : sessions'[t] = sessions[t]
    BY <1>2 DEF CreateSession, Stop, DeleteCommit, TypeOK
  <2>2. CASE CreateSession(s)
    BY <2>1, <2>2 DEF CreateSession, NewSession, Status, TypeOK
  <2>3. CASE Stop(s)
    BY <2>1, <2>3 DEF Stop, Status
  <2>4. CASE DeleteCommit(s)
    BY <2>1, <2>4 DEF DeleteCommit, NewSession, Status, TypeOK
  <2> QED BY <1>2, <2>2, <2>3, <2>4
<1>3. ASSUME NEW x \in Sources, NEW tab \in Tabs, NEW captions \in CaptionsShown,
             EnableSource(x, tab, captions)
      PROVE  None_begins
  BY <1>0, <1>3 DEF EnableSource, Running, Status, SessionRecord
<1>4. ASSUME NEW x \in Sources, NEW tab \in Tabs, DisableSource(x, tab) PROVE None_begins
  BY <1>0, <1>4 DEF DisableSource, Running, Status, SessionRecord
<1>5. ASSUME NEW old \in SUBSET Sources, NEW kept \in {tombstones, {}}, ComeUp(old, kept)
      PROVE  None_begins
  BY <1>0, <1>5 DEF ComeUp, RecoveredSession, Running, Status, SessionRecord
<1>6. ASSUME Cleanup PROVE None_begins
  BY <1>6, CleanupFrame DEF Status
<1>7. ASSUME UNCHANGED sessions PROVE None_begins
  BY <1>7 DEF Status
<1>8. ASSUME NEW s \in Sessions,
             StartRead(s) \/ StartAbort(s) \/ StopAgain(s) \/ DeleteRead(s)
      PROVE  None_begins
  BY <1>7, <1>8 DEF StartRead, StartAbort, StopAgain, DeleteRead
<1>9. ASSUME NEW m \in Captions, ApplyCaption(m) \/ RefuseCaption(m) PROVE None_begins
  BY <1>7, <1>9 DEF ApplyCaption, RefuseCaption
<1>10. CASE GoDown \/ UNCHANGED vars
  BY <1>7, <1>10 DEF GoDown, vars
<1> HIDE DEF None_begins
<1> QED
  BY <1>1, <1>2, <1>3, <1>4, <1>5, <1>6, <1>8, <1>9, <1>10 DEF Next, None_begins

LEMMA OneStep ==
    ASSUME TypeOK, OneRecording, [Next]_vars
    PROVE  OneRecording'
BY RunningStep DEF OneRecording

\* What BindingCoherent says of one session row.
Coherent(rec) ==
    /\ rec.recording_status = "running" =>
         /\ rec.enabled_source_id = rec.active_source_id
         /\ (rec.capture_status = "waiting_for_source") <=> (rec.active_source_id = None)
    /\ rec.recording_status # "running" => rec.active_source_id = None
    /\ rec.finalize_grace_source_id # None => rec.finalize_grace
    /\ rec.finalize_grace => rec.recording_status = "stopped"

LEMMA CoherentRows == BindingCoherent <=> \A s \in Sessions : Coherent(sessions[s])
BY DEF BindingCoherent, Coherent, Status

LEMMA BindingInit == Init => BindingCoherent
BY DEF Init, BindingCoherent, Status, NewSession

LEMMA BindingStep ==
    ASSUME TypeOK, BindingCoherent, [Next]_vars
    PROVE  BindingCoherent'
<1> SUFFICES ASSUME NEW t \in Sessions PROVE Coherent(sessions'[t])
  BY DEF BindingCoherent, Coherent, Status
<1>0. sessions[t] \in SessionRecord /\ Coherent(sessions[t])
  BY CoherentRows DEF TypeOK
<1>0a. Coherent(NewSession) /\ Coherent([NewSession EXCEPT !.recording_status = "deleted"])
  BY DEF Coherent, NewSession
<1>1. ASSUME NEW s \in Sessions, CreateSession(s) \/ DeleteCommit(s)
      PROVE  Coherent(sessions'[t])
  BY <1>0, <1>0a, <1>1 DEF CreateSession, DeleteCommit, TypeOK
<1>2. ASSUME NEW s \in Sessions, StartCommit(s) PROVE Coherent(sessions'[t])
  <2>1. Coherent(StartedSession(sessions[t], starting.source_id))
    BY <1>0 DEF Coherent, StartedSession, SessionRecord
  <2> QED BY <1>0, <1>2, <2>1 DEF StartCommit, TypeOK
<1>3. ASSUME NEW s \in Sessions, Stop(s) PROVE Coherent(sessions'[t])
  <2>1. Coherent(StoppedSession(sessions[t]))
    BY <1>0 DEF Coherent, StoppedSession, SessionRecord
  <2> QED BY <1>0, <1>3, <2>1 DEF Stop, TypeOK
<1>4. ASSUME Cleanup PROVE Coherent(sessions'[t])
  <2>1. Coherent([sessions[t] EXCEPT !.finalize_grace_source_id = None,
                                     !.finalize_grace = FALSE])
    BY <1>0 DEF Coherent, SessionRecord
  <2> QED BY <1>0, <1>4, <2>1, CleanupFrame
<1>5. ASSUME NEW x \in Sources, NEW tab \in Tabs, NEW captions \in CaptionsShown,
             EnableSource(x, tab, captions)
      PROVE  Coherent(sessions'[t])
  <2>1. x # None /\ captions # "waiting_for_source"
    BY RecordingAssumption DEF RecordingAssumption
  <2>2. Status(t) = "running" =>
          Coherent([sessions[t] EXCEPT !.enabled_source_id = x,
                                       !.active_source_id = x,
                                       !.capture_status = captions])
    BY <1>0, <2>1 DEF Coherent, SessionRecord, Status
  <2> QED BY <1>0, <1>5, <2>2 DEF EnableSource, Running
<1>6. ASSUME NEW x \in Sources, NEW tab \in Tabs, DisableSource(x, tab)
      PROVE  Coherent(sessions'[t])
  <2>1. Status(t) = "running" =>
          Coherent([sessions[t] EXCEPT !.enabled_source_id = None,
                                       !.active_source_id = None,
                                       !.capture_status = "waiting_for_source"])
    BY <1>0 DEF Coherent, SessionRecord, Status
  <2> QED BY <1>0, <1>6, <2>1 DEF DisableSource, Running
<1>7. ASSUME NEW old \in SUBSET Sources, NEW kept \in {tombstones, {}}, ComeUp(old, kept)
      PROVE  Coherent(sessions'[t])
  <2>1. Coherent(RecoveredSession(sessions[t]))
    BY <1>0 DEF Coherent, RecoveredSession, SessionRecord
  <2> QED BY <1>0, <1>7, <2>1 DEF ComeUp
<1>8. ASSUME NEW s \in Sessions,
             StartRead(s) \/ StartAbort(s) \/ StopAgain(s) \/ DeleteRead(s)
      PROVE  Coherent(sessions'[t])
  BY <1>0, <1>8 DEF StartRead, StartAbort, StopAgain, DeleteRead
<1>9. ASSUME NEW m \in Captions, ApplyCaption(m) \/ RefuseCaption(m)
      PROVE  Coherent(sessions'[t])
  BY <1>0, <1>9 DEF ApplyCaption, RefuseCaption
<1>10. CASE GoDown \/ UNCHANGED vars
  BY <1>0, <1>10 DEF GoDown, vars
<1> QED
  BY <1>1, <1>2, <1>3, <1>4, <1>5, <1>6, <1>7, <1>8, <1>9, <1>10 DEF Next

-----------------------------------------------------------------------------
(* The transcript.                                                         *)

LEMMA OwnedInit == Init => TranscriptOwned
BY DEF Init, TranscriptOwned

\* A step that is not a deletion of t keeps its status among those a
\* transcript may have, and its segments.
LEMMA SessionKept ==
    ASSUME TypeOK, [Next]_vars, NEW t \in Sessions,
           Status(t) \in {"running", "stopped"}, ~DeleteCommit(t)
    PROVE  /\ Status(t)' \in {"running", "stopped"}
           /\ DOMAIN segments[t] \subseteq DOMAIN segments'[t]
<1> DEFINE Kept == /\ Status(t)' \in {"running", "stopped"}
                   /\ DOMAIN segments[t] \subseteq DOMAIN segments'[t]
<1>0. sessions[t] \in SessionRecord /\ segments[t] \in Seq(SegmentRecord)
  BY DEF TypeOK
<1>1. ASSUME UNCHANGED <<sessions, segments>> PROVE Kept
  BY <1>1 DEF Status
<1>2. ASSUME NEW s \in Sessions, CreateSession(s) PROVE Kept
  BY <1>2 DEF CreateSession, Status, TypeOK
<1>3. ASSUME NEW s \in Sessions, StartCommit(s) PROVE Kept
  <2>1. Status(t)' \in {"running", "stopped"}
    BY <1>0, <1>3 DEF StartCommit, StartedSession, Status, SessionRecord, TypeOK
  <2>2. DOMAIN segments[t] \subseteq DOMAIN segments'[t]
    <3> DEFINE seg == [source_id |-> starting.source_id, stop_reason |-> "open"]
    <3>1. segments'[t] \in {segments[t], Append(segments[t], seg)}
      BY <1>3 DEF StartCommit, TypeOK
    <3>2. seg \in SegmentRecord
      BY DEF TypeOK, SegmentRecord
    <3> HIDE DEF seg
    <3>3. DOMAIN segments[t] \subseteq DOMAIN Append(segments[t], seg)
      BY <1>0, <3>2, AppendProperties, LenProperties
    <3> QED BY <3>1, <3>3
  <2> QED BY <2>1, <2>2
<1>4. ASSUME NEW s \in Sessions, Stop(s) PROVE Kept
  BY <1>0, <1>4 DEF Stop, StoppedSession, Status, SessionRecord, TypeOK
<1>5. ASSUME NEW s \in Sessions, DeleteCommit(s) PROVE Kept
  BY <1>5 DEF DeleteCommit, Status, TypeOK
<1>6. ASSUME Cleanup PROVE Kept
  BY <1>6, CleanupFrame DEF Cleanup, Status
<1>7. ASSUME NEW x \in Sources, NEW tab \in Tabs, NEW captions \in CaptionsShown,
             EnableSource(x, tab, captions)
      PROVE  Kept
  BY <1>0, <1>7 DEF EnableSource, SegmentsFollowing, Running, Status, SessionRecord
<1>8. ASSUME NEW x \in Sources, NEW tab \in Tabs, DisableSource(x, tab) PROVE Kept
  BY <1>0, <1>8 DEF DisableSource, Running, Status, SessionRecord
<1>9. ASSUME NEW old \in SUBSET Sources, NEW kept \in {tombstones, {}}, ComeUp(old, kept)
      PROVE  Kept
  BY <1>0, <1>9 DEF ComeUp, RecoveredSession, ClosedSegments, Status, SessionRecord
<1>10. ASSUME NEW s \in Sessions,
              StartRead(s) \/ StartAbort(s) \/ StopAgain(s) \/ DeleteRead(s)
       PROVE  Kept
  BY <1>1, <1>10 DEF StartRead, StartAbort, StopAgain, DeleteRead
<1>11. ASSUME NEW m \in Captions, ApplyCaption(m) \/ RefuseCaption(m) PROVE Kept
  BY <1>1, <1>11 DEF ApplyCaption, RefuseCaption
<1>12. CASE GoDown \/ UNCHANGED vars
  BY <1>1, <1>12 DEF GoDown, vars
<1> HIDE DEF Kept
<1> QED
  BY <1>2, <1>3, <1>4, <1>5, <1>6, <1>7, <1>8, <1>9, <1>10, <1>11, <1>12 DEF Next, Kept

\* A caption m taken for session s writes the utterance k.
Writes(m, s, k) ==
    /\ ApplyCaption(m)
    /\ Accepted(m, s)
    /\ k = Key(m)
    /\ utterances'[k] = Recorded(m, s)

\* What a step may do to one utterance: a caption records it, a deletion, a
\* cleanup or a recovery removes it, everything else leaves it alone.
LEMMA UtteranceStep ==
    ASSUME TypeOK, [Next]_vars, NEW k \in Keys
    PROVE  \/ utterances'[k] = utterances[k]
           \/ \E m \in Captions : \E s \in CaptionSession(m) : Writes(m, s, k)
           \/ /\ utterances[k] # None /\ utterances'[k] = None
              /\ utterances[k].final => DeleteCommit(utterances[k].session_id)
<1> DEFINE Same == utterances'[k] = utterances[k]
           Written == \E m \in Captions : \E s \in CaptionSession(m) : Writes(m, s, k)
           Gone == /\ utterances[k] # None /\ utterances'[k] = None
                   /\ utterances[k].final => DeleteCommit(utterances[k].session_id)
           Outcome == Same \/ Written \/ Gone
<1>1. ASSUME UNCHANGED utterances PROVE Outcome
  BY <1>1
<1>2. ASSUME NEW m \in Captions, ApplyCaption(m) PROVE Outcome
  <2>1. PICK s \in CaptionSession(m) :
          Accepted(m, s) /\ utterances' = [utterances EXCEPT ![Key(m)] = Recorded(m, s)]
    BY <1>2 DEF ApplyCaption
  <2>2. CASE k = Key(m)
    <3>1. utterances'[k] = Recorded(m, s)
      BY <2>1, <2>2 DEF TypeOK
    <3> QED BY <1>2, <2>1, <2>2, <3>1 DEF Writes
  <2>3. CASE k # Key(m)
    BY <2>1, <2>3 DEF TypeOK
  <2> QED BY <2>2, <2>3
<1>3. ASSUME NEW s \in Sessions, DeleteCommit(s) PROVE Outcome
  BY <1>3 DEF DeleteCommit, Cascaded
<1>4. ASSUME Cleanup PROVE Outcome
  BY <1>4 DEF Cleanup, WithoutPartialsOf, PartialsOf
<1>5. ASSUME NEW old \in SUBSET Sources, NEW kept \in {tombstones, {}}, ComeUp(old, kept)
      PROVE  Outcome
  BY <1>5 DEF ComeUp, PartialsOf
<1>6. ASSUME NEW s \in Sessions,
             \/ CreateSession(s) \/ StartRead(s) \/ StartCommit(s) \/ StartAbort(s)
             \/ Stop(s) \/ StopAgain(s) \/ DeleteRead(s)
      PROVE  Outcome
  BY <1>1, <1>6 DEF CreateSession, StartRead, StartCommit, StartAbort, Stop,
                    StopAgain, DeleteRead
<1>7. ASSUME NEW x \in Sources, NEW tab \in Tabs, NEW captions \in CaptionsShown,
             EnableSource(x, tab, captions)
      PROVE  Outcome
  BY <1>1, <1>7 DEF EnableSource
<1>8. ASSUME NEW x \in Sources, NEW tab \in Tabs, DisableSource(x, tab) PROVE Outcome
  BY <1>1, <1>8 DEF DisableSource
<1>9. ASSUME NEW m \in Captions, RefuseCaption(m) PROVE Outcome
  BY <1>1, <1>9 DEF RefuseCaption
<1>10. CASE GoDown \/ UNCHANGED vars
  BY <1>1, <1>10 DEF GoDown, vars
<1> HIDE DEF Outcome
<1>11. ASSUME NEW s \in Sessions,
              \/ CreateSession(s) \/ StartRead(s) \/ StartCommit(s) \/ StartAbort(s)
              \/ Stop(s) \/ StopAgain(s) \/ DeleteRead(s) \/ DeleteCommit(s)
       PROVE  Outcome
  BY <1>3, <1>6, <1>11
<1>12. ASSUME NEW m \in Captions, ApplyCaption(m) \/ RefuseCaption(m) PROVE Outcome
  BY <1>2, <1>9, <1>12
<1> QED
  BY <1>4, <1>5, <1>7, <1>8, <1>10, <1>11, <1>12 DEF Next, Outcome

\* A caption that opens an utterance is taken for the running session, from its
\* source and into its open segment.
LEMMA NewUtterance ==
    ASSUME TypeOK, SegmentTracksRecording,
           NEW m \in Captions, NEW s \in CaptionSession(m), Accepted(m, s),
           utterances[Key(m)] = None
    PROVE  /\ s \in Sessions /\ Status(s) = "running"
           /\ Recorded(m, s).session_id = s
           /\ sessions[s].active_source_id = m.source_id
           /\ Recorded(m, s).segment \in OpenSegments(s)
BY DEF CaptionSession, Running, InGrace, Accepted, BoundSource, Recorded, SegmentTracksRecording

LEMMA OwnedStep ==
    ASSUME TypeOK, SegmentTracksRecording, TranscriptOwned, [Next]_vars
    PROVE  TranscriptOwned'
<1> SUFFICES ASSUME NEW k \in Keys, utterances'[k] # None
             PROVE  /\ sessions'[utterances'[k].session_id].recording_status
                         \in {"running", "stopped"}
                    /\ utterances'[k].segment \in DOMAIN segments'[utterances'[k].session_id]
  BY DEF TranscriptOwned, Status
<1>1. CASE utterances'[k] = utterances[k]
  <2>1. PICK t \in Sessions : t = utterances[k].session_id
    BY <1>1 DEF TypeOK, UtteranceRecord
  <2>2. Status(t) \in {"running", "stopped"} /\ utterances[k].segment \in DOMAIN segments[t]
    BY <1>1, <2>1 DEF TranscriptOwned
  <2>3. ~DeleteCommit(t)
    BY <1>1, <2>1 DEF DeleteCommit, Cascaded
  <2>4. Status(t)' \in {"running", "stopped"} /\ DOMAIN segments[t] \subseteq DOMAIN segments'[t]
    BY <2>1, <2>2, <2>3, SessionKept
  <2>5. utterances'[k].session_id = t /\ utterances'[k].segment = utterances[k].segment
    BY <1>1, <2>1
  <2> QED BY <2>2, <2>4, <2>5 DEF Status
<1>2. CASE \E m \in Captions : \E s \in CaptionSession(m) : Writes(m, s, k)
  <2>0. PICK m \in Captions : \E s \in CaptionSession(m) : Writes(m, s, k)
    BY <1>2
  <2>1. PICK s \in CaptionSession(m) : Writes(m, s, k)
    BY <2>0
  <2>2. sessions' = sessions /\ segments' = segments
    BY <2>1 DEF ApplyCaption, Writes
  <2>3. CASE utterances[k] = None
    BY <2>1, <2>2, <2>3, NewUtterance DEF OpenSegments, Status, Writes
  <2>4. CASE utterances[k] # None
    <3>1. /\ Recorded(m, s).session_id = utterances[k].session_id
          /\ Recorded(m, s).segment = utterances[k].segment
      BY <2>1, <2>4 DEF Recorded, Writes
    <3> QED BY <2>1, <2>2, <2>4, <3>1 DEF TranscriptOwned, Status, Writes
  <2> QED BY <2>3, <2>4
<1> QED
  BY <1>1, <1>2, UtteranceStep

-----------------------------------------------------------------------------
(* Sources.                                                                *)

LEMMA EnabledStep ==
    ASSUME TypeOK, OneEnabledSource, [Next]_vars
    PROVE  OneEnabledSource'
<1>0. sources \in [Sources -> SourceRecord]
  BY DEF TypeOK
<1>1. CASE UNCHANGED sources
  BY <1>1 DEF OneEnabledSource
<1>2. CASE \E x \in Sources, tab \in Tabs : sources' = SourcesEnabling(x, tab)
  <2>0. PICK x \in Sources, tab \in Tabs : sources' = SourcesEnabling(x, tab)
    BY <1>2
  <2>1. \A y \in Sources : /\ y # x => ~sources'[y].enabled
                           /\ y = x => sources'[y].known /\ sources'[y].connected
    BY <1>0, <2>0 DEF SourcesEnabling, SourceRecord
  <2> QED BY <2>1 DEF OneEnabledSource
<1>3. CASE \E x \in Sources, tab \in Tabs : DisableSource(x, tab)
  <2>0. PICK x \in Sources, tab \in Tabs : DisableSource(x, tab)
    BY <1>3
  <2>1. \A y \in Sources : IF y = x THEN ~sources'[y].enabled ELSE sources'[y] = sources[y]
    BY <1>0, <2>0 DEF DisableSource
  <2> QED BY <2>1 DEF OneEnabledSource
<1>4. CASE \E old \in SUBSET Sources, kept \in {tombstones, {}} : ComeUp(old, kept)
  <2>0. PICK old \in SUBSET Sources, kept \in {tombstones, {}} : ComeUp(old, kept)
    BY <1>4
  <2>1. \A y \in Sources : ~sources'[y].enabled
    BY <1>0, <2>0 DEF ComeUp, SourceRecord
  <2> QED BY <2>1 DEF OneEnabledSource
<1> QED
  BY <1>1, <1>2, <1>3, <1>4
  DEF Next, vars, CreateSession, StartRead, StartCommit, StartAbort, Stop, StopAgain,
      DeleteRead, DeleteCommit, Cleanup, EnableSource, ApplyCaption, RefuseCaption, GoDown

-----------------------------------------------------------------------------
(* The theorems.                                                           *)

IInv == /\ TypeOK
        /\ SegmentTracksRecording
        /\ OneRecording
        /\ BindingCoherent
        /\ TranscriptOwned

\* The conjunction of the invariants is inductive: a new utterance finds its
\* segment number only in the open segment of a running session.
LEMMA Invariance == Spec => []IInv
<1>1. Init => IInv
  BY TypeInit, SegmentInit, OneInit, BindingInit, OwnedInit DEF IInv
<1>2. IInv /\ [Next]_vars => IInv'
  BY TypeStep, SegmentStep, OneStep, BindingStep, OwnedStep DEF IInv
<1> QED
  BY <1>1, <1>2, PTL DEF Spec

\* The tables are well formed in every state.
THEOREM TypeCorrect == Spec => []TypeOK
<1>1. IInv => TypeOK
  BY DEF IInv
<1> QED BY <1>1, Invariance, PTL

\* At most one session records at a time, however starts, stops, deletions and
\* restarts overlap: the check start makes when it writes is enough.
THEOREM OneRecordingAlways == Spec => []OneRecording
<1>1. IInv => OneRecording
  BY DEF IInv
<1> QED BY <1>1, Invariance, PTL

\* A running session has exactly one open segment, the newest, and it names the
\* source the session is bound to: what stop_session and process_caption rely on
\* to find the segment.
THEOREM SegmentsCorrect == Spec => []SegmentTracksRecording
<1>1. IInv => SegmentTracksRecording
  BY DEF IInv
<1> QED BY <1>1, Invariance, PTL

\* What a session row says of its sources, its capture and its grace period
\* always agrees with its recording status.
THEOREM BindingsCoherent == Spec => []BindingCoherent
<1>1. IInv => BindingCoherent
  BY DEF IInv
<1> QED BY <1>1, Invariance, PTL

\* Every utterance belongs to a segment of a session that was started and not
\* deleted.
THEOREM TranscriptsOwned == Spec => []TranscriptOwned
<1>1. IInv => TranscriptOwned
  BY DEF IInv
<1> QED BY <1>1, Invariance, PTL

\* However sources are enabled, disabled and reconnected, at most one is enabled, and it
\* has spoken since startup: the enabled source a start falls back on is unique.
THEOREM EnabledSourceUnique == Spec => []OneEnabledSource
<1>1. Init => OneEnabledSource
  BY DEF Init, OneEnabledSource
<1>2. IInv /\ OneEnabledSource /\ [Next]_vars => OneEnabledSource'
  BY EnabledStep DEF IInv
<1> QED BY <1>1, <1>2, Invariance, PTL DEF Spec

\* process_caption adds an utterance only to the open segment of the running
\* session, and only from the source that session is bound to: a caption that
\* comes in the grace period or from another tab adds none.
THEOREM NewUtterancesBound == Spec => GrowsWhileRecording
<1> DEFINE Grows == \A k \in Keys : utterances[k] = None /\ utterances'[k] # None =>
          LET s == utterances'[k].session_id
          IN  /\ Status(s) = "running"
              /\ sessions[s].active_source_id = k[1]
              /\ utterances'[k].segment \in OpenSegments(s)
<1>1. IInv /\ [Next]_vars => Grows
  <2> SUFFICES ASSUME IInv, [Next]_vars, NEW k \in Keys,
                      utterances[k] = None, utterances'[k] # None
               PROVE  LET s == utterances'[k].session_id
                      IN  /\ Status(s) = "running"
                          /\ sessions[s].active_source_id = k[1]
                          /\ utterances'[k].segment \in OpenSegments(s)
    OBVIOUS
  <2>0. PICK m \in Captions : \E s \in CaptionSession(m) : Writes(m, s, k)
    BY UtteranceStep DEF IInv
  <2>1. PICK s \in CaptionSession(m) : Writes(m, s, k)
    BY <2>0
  <2>2. k[1] = m.source_id
    BY <2>1 DEF Key, Writes
  <2> QED BY <2>1, <2>2, NewUtterance DEF IInv, Writes
<1> QED
  BY <1>1, Invariance, PTL DEF Spec, GrowsWhileRecording

\* An utterance keeps its session and segment, its revision never falls, and a
\* final one never changes and goes only when its session is deleted: late,
\* resent and reordered captions, cleanups and restarts included.
THEOREM UtterancesKept == Spec => UtteranceHistory
<1> DEFINE History == \A k \in Keys : utterances[k] # None =>
          LET u == utterances[k]
              v == utterances'[k]
          IN  IF v = None
              THEN u.final => sessions'[u.session_id].recording_status = "deleted"
              ELSE /\ v.session_id = u.session_id
                   /\ v.segment = u.segment
                   /\ v.revision >= u.revision
                   /\ u.final => v = u
<1>1. IInv /\ [Next]_vars => History
  <2> SUFFICES ASSUME IInv, [Next]_vars, NEW k \in Keys, utterances[k] # None
               PROVE  IF utterances'[k] = None
                      THEN utterances[k].final =>
                             sessions'[utterances[k].session_id].recording_status = "deleted"
                      ELSE /\ utterances'[k].session_id = utterances[k].session_id
                           /\ utterances'[k].segment = utterances[k].segment
                           /\ utterances'[k].revision >= utterances[k].revision
                           /\ utterances[k].final => utterances'[k] = utterances[k]
    OBVIOUS
  <2>0. utterances[k] \in UtteranceRecord /\ sessions \in [Sessions -> SessionRecord]
    BY DEF IInv, TypeOK
  <2>1. CASE utterances'[k] = utterances[k]
    BY <2>0, <2>1 DEF UtteranceRecord
  <2>2. CASE \E m \in Captions : \E s \in CaptionSession(m) : Writes(m, s, k)
    <3>0. PICK m \in Captions : \E s \in CaptionSession(m) : Writes(m, s, k)
      BY <2>2
    <3>1. PICK s \in CaptionSession(m) : Writes(m, s, k)
      BY <3>0
    <3>2. Newer(m, utterances[k])
      BY <3>1 DEF Writes, Accepted
    <3>3. ~utterances[k].final
      BY <3>2 DEF Newer
    <3>4. m.revision >= utterances[k].revision
      BY <2>0, <3>2, RecordingAssumption
      DEF Newer, UtteranceRecord, Captions, RecordingAssumption
    <3>5. /\ utterances'[k].session_id = utterances[k].session_id
          /\ utterances'[k].segment = utterances[k].segment
          /\ utterances'[k].revision = m.revision
      BY <3>1 DEF Writes, Recorded
    <3> QED BY <3>3, <3>4, <3>5
  <2>3. CASE utterances'[k] = None /\ (utterances[k].final => DeleteCommit(utterances[k].session_id))
    BY <2>0, <2>3 DEF DeleteCommit, NewSession, UtteranceRecord
  <2> QED
    BY <2>1, <2>2, <2>3, UtteranceStep DEF IInv
<1> QED
  BY <1>1, Invariance, PTL DEF Spec, UtteranceHistory

\* Once recording has stopped, an utterance is only finalized or removed: whatever
\* captions arrive in the grace period and after it (process_caption).
THEOREM QuietAfterStop == Spec => QuietWhenStopped
<1> DEFINE Quiet == Running = {} => \A k \in Keys :
          utterances'[k] \in {utterances[k], None} \/ utterances'[k].final
<1>1. IInv /\ [Next]_vars => Quiet
  <2> SUFFICES ASSUME IInv, [Next]_vars, Running = {}, NEW k \in Keys,
                      utterances'[k] \notin {utterances[k], None}
               PROVE  utterances'[k].final
    OBVIOUS
  <2>0. PICK m \in Captions : \E s \in CaptionSession(m) : Writes(m, s, k)
    BY UtteranceStep DEF IInv
  <2>1. PICK s \in CaptionSession(m) : Writes(m, s, k)
    BY <2>0
  <2>2. m.type = "finalize"
    BY <2>1 DEF CaptionSession, InGrace
  <2>3. Recorded(m, s).final = (m.type = "finalize")
    BY Zenon DEF Recorded
  <2>4. utterances'[k].final = Recorded(m, s).final
    BY <2>1 DEF Writes
  <2> QED BY <2>2, <2>3, <2>4, Zenon
<1> QED
  BY <1>1, Invariance, PTL DEF Spec, QuietWhenStopped

\* Whatever a caption writes uses up its event id, so that the extension may send it
\* again: processed_events and the utterance change in one transaction.
THEOREM EventsAppliedOnce == Spec => EventAppliedOnce
<1> DEFINE Once == (\E k \in Keys : utterances'[k] \notin {utterances[k], None}) =>
          \E e \in EventIds : e \notin tombstones /\ e \in tombstones'
<1>1. IInv /\ [Next]_vars => Once
  <2> SUFFICES ASSUME IInv, [Next]_vars, NEW k \in Keys,
                      utterances'[k] \notin {utterances[k], None}
               PROVE  \E e \in EventIds : e \notin tombstones /\ e \in tombstones'
    OBVIOUS
  <2>0. PICK m \in Captions : \E s \in CaptionSession(m) : Writes(m, s, k)
    BY UtteranceStep DEF IInv
  <2>1. ApplyCaption(m)
    BY <2>0 DEF Writes
  <2>2. m.event_id \in EventIds
    BY DEF Captions
  <2> QED BY <2>1, <2>2 DEF ApplyCaption
<1> QED
  BY <1>1, Invariance, PTL DEF Spec, EventAppliedOnce

\* What a step may do to the source of a session: nothing, take it away, give it one
\* when it had none, or follow the tab and meeting of the one it had.
LEMMA SourceStep ==
    ASSUME TypeOK, BindingCoherent, [Next]_vars, NEW s \in Sessions,
           NEW old, old = sessions[s].active_source_id,
           NEW new, new = sessions'[s].active_source_id
    PROVE  \/ new \in {old, None} \/ old = None
           \/ sources[old].tab # None /\ sources'[new].tab = sources[old].tab
<1> DEFINE Outcome == \/ new \in {old, None} \/ old = None
                      \/ sources[old].tab # None /\ sources'[new].tab = sources[old].tab
<1>0. sessions[s] \in SessionRecord
  BY DEF TypeOK
<1>1. CASE UNCHANGED sessions
  BY <1>1
<1>2. ASSUME NEW t \in Sessions, CreateSession(t) \/ DeleteCommit(t) PROVE Outcome
  <2>1. s # t => new = old
    BY <1>2 DEF CreateSession, DeleteCommit, TypeOK
  <2>2. s = t => new = None
    <3>1. CASE CreateSession(t)
      BY <3>1 DEF CreateSession, NewSession, TypeOK
    <3>2. CASE DeleteCommit(t)
      BY <3>2 DEF DeleteCommit, NewSession, TypeOK
    <3> QED BY <1>2, <3>1, <3>2
  <2> QED BY <2>1, <2>2
<1>3. ASSUME NEW t \in Sessions, StartCommit(t) PROVE Outcome
  <2>1. s = t => old = None
    BY <1>3 DEF StartCommit, Startable, BindingCoherent, Status
  <2>2. s # t => new = old
    BY <1>3 DEF StartCommit, TypeOK
  <2> QED BY <2>1, <2>2
<1>4. ASSUME NEW t \in Sessions, Stop(t) PROVE Outcome
  BY <1>0, <1>4 DEF Stop, StoppedSession, SessionRecord, TypeOK
<1>5. CASE Cleanup
  BY <1>5, CleanupFrame
<1>6. ASSUME NEW x \in Sources, NEW tab \in Tabs, NEW captions \in CaptionsShown,
             EnableSource(x, tab, captions)
      PROVE  Outcome
  <2>1. CASE s \notin Running
    BY <1>6, <2>1 DEF EnableSource
  <2>2. CASE s \in Running
    <3>1. new = x
      BY <1>0, <1>6, <2>2 DEF EnableSource, SessionRecord
    <3>2. CASE old \notin {None, x}
      <4>1. ReconnectingSameTab(old, tab)
        BY <1>6, <2>2, <3>2 DEF EnableSource, SwitchRejected
      <4>2. sources'[x].tab = tab
        BY <1>6 DEF EnableSource, SourcesEnabling
      <4> QED BY <3>1, <4>1, <4>2 DEF ReconnectingSameTab
    <3> QED BY <3>1, <3>2
  <2> QED BY <2>1, <2>2
<1>7. ASSUME NEW x \in Sources, NEW tab \in Tabs, DisableSource(x, tab) PROVE Outcome
  BY <1>0, <1>7 DEF DisableSource, SessionRecord
<1>8. ASSUME NEW gone \in SUBSET Sources, NEW kept \in {tombstones, {}}, ComeUp(gone, kept)
      PROVE  Outcome
  BY <1>0, <1>8 DEF ComeUp, RecoveredSession, SessionRecord
<1>9. ASSUME NEW t \in Sessions,
             StartRead(t) \/ StartAbort(t) \/ StopAgain(t) \/ DeleteRead(t)
      PROVE  Outcome
  BY <1>1, <1>9 DEF StartRead, StartAbort, StopAgain, DeleteRead
<1>10. ASSUME NEW m \in Captions, ApplyCaption(m) \/ RefuseCaption(m) PROVE Outcome
  BY <1>1, <1>10 DEF ApplyCaption, RefuseCaption
<1>11. CASE GoDown \/ UNCHANGED vars
  BY <1>1, <1>11 DEF GoDown, vars
<1> HIDE DEF Outcome
<1>12. ASSUME NEW t \in Sessions,
              \/ CreateSession(t) \/ StartRead(t) \/ StartCommit(t) \/ StartAbort(t)
              \/ Stop(t) \/ StopAgain(t) \/ DeleteRead(t) \/ DeleteCommit(t)
       PROVE  Outcome
  BY <1>2, <1>3, <1>4, <1>9, <1>12
<1> QED
  BY <1>5, <1>6, <1>7, <1>8, <1>10, <1>11, <1>12 DEF Next, Outcome

\* A recording goes from one source to another only within one tab and meeting: what
\* update_source refuses with source_switch_rejected.
THEOREM SourcesFollowTab == Spec => NoSourceSwitch
<1> DEFINE Follow == \A s \in Sessions :
          LET old == sessions[s].active_source_id
              new == sessions'[s].active_source_id
          IN  old # None /\ new # None /\ new # old =>
                 sources[old].tab # None /\ sources'[new].tab = sources[old].tab
<1>1. IInv /\ [Next]_vars => Follow
  BY SourceStep DEF IInv
<1> QED
  BY <1>1, Invariance, PTL DEF Spec, NoSourceSwitch

-----------------------------------------------------------------------------
(* The recording core implements module Transcript.                        *)

\* Who records, once at most one does.
LEMMA RecorderOf ==
    ASSUME NEW R \in SUBSET Sessions, \A s, t \in R : s = t,
           NEW r, r = IF R = {} THEN None ELSE CHOOSE s \in R : TRUE
    PROVE  /\ r = None <=> R = {}
           /\ \A s \in Sessions : s \in R <=> s = r
BY RecordingAssumption DEF RecordingAssumption

\* What a step does to who records: StartCommit begins for the only one, Stop and
\* DeleteCommit end it for theirs, ComeUp for everyone, the other steps do not.
LEMMA WhoRecords ==
    ASSUME TypeOK, [Next]_vars
    PROVE  /\ \A s \in Sessions : StartCommit(s) => Running = {} /\ Running' = {s}
           /\ \A s \in Sessions : Stop(s) \/ DeleteCommit(s) => Running' = Running \ {s}
           /\ ~up /\ up' => Running' = {}
           /\ \/ Running' = Running
              \/ \E s \in Sessions : StartCommit(s) \/ Stop(s) \/ DeleteCommit(s)
              \/ \E old \in SUBSET Sources, kept \in {tombstones, {}} : ComeUp(old, kept)
<1>0. \A t \in Sessions : sessions[t] \in SessionRecord
  BY DEF TypeOK
<1> DEFINE Kept == \A t \in Sessions : Status(t)' = "running" <=> Status(t) = "running"
<1>a. Kept => Running' = Running
  BY DEF Running
<1>1. ASSUME NEW s \in Sessions, StartCommit(s) PROVE Running = {} /\ Running' = {s}
  <2>1. \A t \in Sessions \ {s} : sessions'[t] = sessions[t]
    BY <1>1 DEF StartCommit, TypeOK
  <2>2. sessions'[s].recording_status = "running"
    BY <1>0, <1>1 DEF StartCommit, StartedSession, SessionRecord, TypeOK
  <2> QED
    BY <1>1, <2>1, <2>2 DEF StartCommit, Startable, RecordingElsewhere, Running, Status
<1>2. ASSUME NEW s \in Sessions, Stop(s) \/ DeleteCommit(s) PROVE Running' = Running \ {s}
  <2>1. \A t \in Sessions \ {s} : sessions'[t] = sessions[t]
    BY <1>2 DEF Stop, DeleteCommit, TypeOK
  <2>2. sessions'[s].recording_status # "running"
    <3>1. CASE Stop(s)
      BY <1>0, <3>1 DEF Stop, StoppedSession, SessionRecord, TypeOK
    <3>2. CASE DeleteCommit(s)
      BY <3>2 DEF DeleteCommit, NewSession, TypeOK
    <3> QED BY <1>2, <3>1, <3>2
  <2> QED BY <2>1, <2>2 DEF Running, Status
<1>3. ASSUME NEW old \in SUBSET Sources, NEW kept \in {tombstones, {}}, ComeUp(old, kept)
      PROVE  Running' = {}
  <2>1. \A t \in Sessions : sessions'[t].recording_status # "running"
    BY <1>0, <1>3 DEF ComeUp, RecoveredSession, Running, Status, SessionRecord
  <2> QED BY <2>1 DEF Running, Status
<1>4. ASSUME UNCHANGED sessions PROVE Kept
  BY <1>4 DEF Status
<1>5. ASSUME NEW s \in Sessions, CreateSession(s) PROVE Kept
  <2>1. \A t \in Sessions \ {s} : sessions'[t] = sessions[t]
    BY <1>5 DEF CreateSession, TypeOK
  <2>2. sessions'[s] = NewSession
    BY <1>5 DEF CreateSession, TypeOK
  <2> QED BY <1>5, <2>1, <2>2 DEF CreateSession, NewSession, Status
<1>6. ASSUME NEW x \in Sources, NEW tab \in Tabs, NEW captions \in CaptionsShown,
             EnableSource(x, tab, captions)
      PROVE  Kept
  BY <1>0, <1>6 DEF EnableSource, Running, Status, SessionRecord
<1>7. ASSUME NEW x \in Sources, NEW tab \in Tabs, DisableSource(x, tab) PROVE Kept
  BY <1>0, <1>7 DEF DisableSource, Running, Status, SessionRecord
<1>8. ASSUME Cleanup PROVE Kept
  BY <1>8, CleanupFrame DEF Status
<1>9. ASSUME NEW s \in Sessions,
             StartRead(s) \/ StartAbort(s) \/ StopAgain(s) \/ DeleteRead(s)
      PROVE  Kept
  BY <1>4, <1>9 DEF StartRead, StartAbort, StopAgain, DeleteRead
<1>10. ASSUME NEW m \in Captions, ApplyCaption(m) \/ RefuseCaption(m) PROVE Kept
  BY <1>4, <1>10 DEF ApplyCaption, RefuseCaption
<1>11. ASSUME GoDown \/ UNCHANGED vars PROVE Kept
  BY <1>4, <1>11 DEF GoDown, vars
<1> HIDE DEF Kept
<1>12. \/ Kept
       \/ \E s \in Sessions : StartCommit(s) \/ Stop(s) \/ DeleteCommit(s)
       \/ \E old \in SUBSET Sources, kept \in {tombstones, {}} : ComeUp(old, kept)
  BY <1>5, <1>6, <1>7, <1>8, <1>9, <1>10, <1>11 DEF Next
<1>13. ASSUME ~up, up' PROVE Running' = {}
  <2>1. \E old \in SUBSET Sources, kept \in {tombstones, {}} : ComeUp(old, kept)
    BY <1>13 DEF Next, vars, CreateSession, StartRead, StartCommit, StartAbort, Stop,
                 StopAgain, DeleteRead, DeleteCommit, Cleanup, EnableSource, DisableSource,
                 ApplyCaption, RefuseCaption, GoDown
  <2> QED BY <1>3, <2>1
<1> QED
  BY <1>1, <1>2, <1>12, <1>13, <1>a

\* A caption is a write or a revision of the transcript.
LEMMA CaptionRefines ==
    ASSUME IInv, IInv', NEW m \in Captions, ApplyCaption(m)
    PROVE  \E k \in Keys : Abstract!Write(k) \/ Abstract!Revise(k)
<1> DEFINE k == Key(m)
<1>0. /\ utterances \in [Keys -> UtteranceRecord \cup {None}]
      /\ utterances' \in [Keys -> UtteranceRecord \cup {None}]
      /\ k \in Keys
      /\ Running' = Running /\ Recorder' = Recorder
  BY DEF IInv, TypeOK, Key, Keys, Captions, ApplyCaption, Recorder, Running, Status
<1>1. /\ Recorder = None <=> Running = {}
      /\ \A t \in Sessions : t \in Running <=> t = Recorder
  BY RecorderOf DEF IInv, OneRecording, Recorder, Running
<1>2. PICK s \in CaptionSession(m) :
        Accepted(m, s) /\ utterances' = [utterances EXCEPT ![k] = Recorded(m, s)]
  BY DEF ApplyCaption
<1>3. s \in Sessions
  BY DEF CaptionSession, Running, InGrace
<1>4. /\ utterances'[k] = Recorded(m, s)
      /\ utterances' = [utterances EXCEPT ![k] = utterances'[k]]
      /\ Recorded(m, s) # None
  <2>1. utterances'[k] = Recorded(m, s)
    BY <1>0, <1>2
  <2>2. Recorded(m, s) \in UtteranceRecord
    <3>1. CASE utterances[k] = None
      <4>1. s \in Sessions /\ Recorded(m, s).segment \in OpenSegments(s)
        BY <1>2, <3>1, NewUtterance DEF IInv
      <4>2. segments[s] \in Seq(SegmentRecord)
        BY <1>3 DEF IInv, TypeOK
      <4>3. Recorded(m, s).segment \in Nat \ {0}
        BY <4>1, <4>2, LenProperties DEF OpenSegments
      <4> QED
        BY <1>3, <3>1, <4>3, RecordingAssumption
        DEF Recorded, UtteranceRecord, Captions, RecordingAssumption
    <3>2. CASE utterances[k] # None
      BY <1>0, <3>2, RecordingAssumption
      DEF Recorded, UtteranceRecord, Captions, RecordingAssumption
    <3> QED BY <3>1, <3>2
  <2> QED BY <1>2, <2>1, <2>2, NullIsNoRow
<1>5. CASE utterances[k] = None
  <2>1. s = Recorder /\ Recorded(m, s).session_id = s
    BY <1>1, <1>2, <1>5, NewUtterance DEF IInv, Running
  <2>2. Recorder # None
    BY <1>3, <2>1, RecordingAssumption DEF RecordingAssumption
  <2>3. Abstract!Write(k)
    BY <1>0, <1>4, <1>5, <2>1, <2>2 DEF Abstract!Write
  <2> QED BY <1>0, <2>3
<1>6. CASE utterances[k] # None
  <2>1. Newer(m, utterances[k])
    BY <1>2, <1>6 DEF Accepted
  <2>2. utterances[k].revision \in Nat /\ m.revision \in Nat
    BY <1>0, <1>6, RecordingAssumption DEF UtteranceRecord, Captions, RecordingAssumption
  <2>3. ~utterances[k].final /\ m.revision >= utterances[k].revision
    BY <2>1, <2>2 DEF Newer
  <2>4. /\ utterances'[k].session_id = utterances[k].session_id
        /\ utterances'[k].revision = m.revision
    BY <1>4, <1>6 DEF Recorded
  <2>5. ASSUME Recorder = None PROVE utterances'[k].final
    <3>1. m.type = "finalize"
      BY <1>1, <2>5 DEF CaptionSession, InGrace
    <3>2. Recorded(m, s).final = (m.type = "finalize")
      BY Zenon DEF Recorded
    <3> QED BY <1>4, <3>1, <3>2, Zenon
  <2>6. Abstract!Revise(k)
    BY <1>0, <1>4, <1>6, <2>3, <2>4, <2>5 DEF Abstract!Revise
  <2> QED BY <1>0, <2>6
<1> QED
  BY <1>5, <1>6

\* Every step of the daemon is one of the transcript's, or changes nothing of it.
LEMMA TranscriptStep ==
    ASSUME IInv, IInv', [Next]_vars
    PROVE  [Abstract!Next]_(Abstract!vars)
<1> DEFINE Step == Abstract!Next \/ UNCHANGED Abstract!vars
<1> SUFFICES Step
  OBVIOUS
<1>1. /\ Recorder = None <=> Running = {}
      /\ \A t \in Sessions : t \in Running <=> t = Recorder
  BY RecorderOf DEF IInv, OneRecording, Recorder, Running
<1>2. /\ Recorder' = None <=> Running' = {}
      /\ \A t \in Sessions : t \in Running' <=> t = Recorder'
  BY RecorderOf DEF IInv, OneRecording, Recorder, Running
<1>3. Running' = Running => Recorder' = Recorder
  BY DEF Recorder
<1>4. Running \subseteq Sessions /\ None \notin Sessions
  BY RecordingAssumption DEF Running, RecordingAssumption
<1>5. ASSUME NEW s \in Sessions, StartCommit(s) PROVE Step
  <2>1. Recorder = None /\ Recorder' = s
    BY <1>1, <1>2, <1>5, WhoRecords DEF IInv
  <2>2. Abstract!Begin(s)
    BY <1>5, <2>1 DEF StartCommit, Abstract!Begin
  <2> QED BY <2>2 DEF Abstract!Next
<1>6. ASSUME NEW s \in Sessions, Stop(s) PROVE Step
  <2>1. s \in Running
    BY <1>6 DEF Stop, Running
  <2>2. Recorder # None
    BY <1>1, <2>1
  <2>3. Recorder' = None
    BY <1>1, <1>2, <1>6, <2>1, WhoRecords DEF IInv, OneRecording
  <2>4. Abstract!End
    BY <1>6, <2>2, <2>3 DEF Stop, Abstract!End
  <2> QED BY <2>4 DEF Abstract!Next
<1>7. ASSUME NEW s \in Sessions, DeleteCommit(s) PROVE Step
  <2>1. utterances' = Abstract!Without(Abstract!Of(s))
    BY <1>7 DEF DeleteCommit, Cascaded, Abstract!Without, Abstract!Of
  <2>2. Recorder' = IF Recorder = s THEN None ELSE Recorder
    <3>1. Running' = Running \ {s}
      BY <1>7, WhoRecords DEF IInv
    <3>2. CASE s \in Running
      BY <1>1, <1>2, <3>1, <3>2 DEF IInv, OneRecording
    <3>3. CASE s \notin Running
      BY <1>1, <1>3, <3>1, <3>3
    <3> QED BY <3>2, <3>3
  <2>3. Abstract!Erase(s)
    BY <2>1, <2>2 DEF Abstract!Erase
  <2> QED BY <2>3 DEF Abstract!Next
<1>8. ASSUME NEW old \in SUBSET Sources, NEW kept \in {tombstones, {}}, ComeUp(old, kept)
      PROVE  Step
  <2>1. Running' = {} /\ Recorder' = None
    BY <1>2, <1>8, WhoRecords DEF IInv, ComeUp
  <2>2. CASE Running = {}
    <3>1. utterances' = [k \in Keys |-> utterances[k]]
      BY <1>8, <2>2 DEF ComeUp
    <3>2. utterances' = utterances
      BY <3>1 DEF IInv, TypeOK
    <3> QED BY <1>3, <2>1, <2>2, <3>2 DEF Abstract!vars
  <2>3. CASE Running # {}
    <3>1. Recorder # None /\ Running = {Recorder}
      BY <1>1, <1>4, <2>3
    <3>2. utterances' = Abstract!Without(Abstract!UnfinishedOf(Recorder))
      BY <1>8, <3>1
      DEF ComeUp, PartialsOf, Abstract!Without, Abstract!UnfinishedOf, Abstract!Of
    <3>3. Abstract!End
      BY <2>1, <3>1, <3>2 DEF Abstract!End
    <3> QED BY <3>3 DEF Abstract!Next
  <2> QED BY <2>2, <2>3
<1>9. ASSUME Cleanup PROVE Step
  <2> DEFINE s == Head(cleanups).session_id
  <2>1. s \in Sessions
    <3>1. Head(cleanups) \in [session_id : Sessions, stopped_at : Nat]
      BY <1>9, HeadTailProperties DEF Cleanup, IInv, TypeOK
    <3> QED BY <3>1
  <2>2. Recorder' = Recorder
    <3>1. \A t \in Sessions : Status(t)' = Status(t)
      BY <1>9, CleanupFrame DEF IInv, Status
    <3> QED BY <1>3, <3>1 DEF Running
  <2>3. CASE CleanupApplies(s)
    <3>1. s # Recorder
      BY <1>1, <2>1, <2>3 DEF CleanupApplies, Startable, Running
    <3>2. utterances' = Abstract!Without(Abstract!UnfinishedOf(s))
      BY <1>9, <2>3
      DEF Cleanup, WithoutPartialsOf, PartialsOf, Abstract!Without, Abstract!UnfinishedOf,
          Abstract!Of
    <3>3. Abstract!Discard(s)
      BY <2>2, <3>1, <3>2 DEF Abstract!Discard
    <3> QED BY <2>1, <3>3 DEF Abstract!Next
  <2>4. CASE ~CleanupApplies(s)
    BY <1>9, <2>2, <2>4 DEF Cleanup, Abstract!vars
  <2> QED BY <2>3, <2>4
<1>10. ASSUME NEW m \in Captions, ApplyCaption(m) PROVE Step
  BY <1>10, CaptionRefines DEF Abstract!Next
<1>11. ASSUME Running' = Running, UNCHANGED utterances PROVE Step
  BY <1>3, <1>11 DEF Abstract!vars
<1> HIDE DEF Step
<1>12. CASE Running' # Running
  BY <1>5, <1>6, <1>7, <1>8, <1>12, WhoRecords DEF IInv
<1>13. CASE Running' = Running
  <2>1. \/ UNCHANGED utterances \/ Cleanup \/ \E m \in Captions : ApplyCaption(m)
        \/ \E s \in Sessions : DeleteCommit(s)
        \/ \E old \in SUBSET Sources, kept \in {tombstones, {}} : ComeUp(old, kept)
    BY DEF Next, vars, CreateSession, StartRead, StartCommit, StartAbort, Stop, StopAgain,
           DeleteRead, EnableSource, DisableSource, RefuseCaption, GoDown
  <2> QED BY <1>7, <1>8, <1>9, <1>10, <1>11, <1>13, <2>1
<1> QED
  BY <1>12, <1>13

\* Seen as who records and what is stored under each caption's id, the daemon is a
\* transcript: segments, sources, grace periods, cleanup tasks, overlapping requests and
\* restarts never show.
THEOREM TranscriptImplemented == Spec => ImplementsTranscript
<1>1. Init => Abstract!Init
  BY DEF Init, Abstract!Init, Recorder, Running, Status, NewSession
<1>2. IInv /\ IInv' /\ [Next]_vars => [Abstract!Next]_(Abstract!vars)
  BY TranscriptStep
<1> QED
  BY <1>1, <1>2, Invariance, PTL DEF Spec, ImplementsTranscript, Abstract!Spec

-----------------------------------------------------------------------------
(* The tasks that clean up after a stop.                                   *)

Pending(s) == \E i \in DOMAIN cleanups : cleanups[i].session_id = s

\* A new task is pending and replaces none; the oldest one leaves the others pending.
LEMMA PendingStep ==
    ASSUME TypeOK, NEW s \in Sessions
    PROVE  /\ \A t \in Sessions, n \in Nat : cleanups' = Append(cleanups, CleanupTask(t, n)) =>
                 (Pending(s) \/ s = t => Pending(s)')
           /\ cleanups # <<>> /\ cleanups' = Tail(cleanups) =>
                 (Pending(s) /\ s # Head(cleanups).session_id => Pending(s)')
<1>0. /\ cleanups \in Seq([session_id : Sessions, stopped_at : Nat])
      /\ Len(cleanups) \in Nat /\ DOMAIN cleanups = 1..Len(cleanups)
  BY DEF TypeOK
<1>1. ASSUME NEW t \in Sessions, NEW n \in Nat,
             cleanups' = Append(cleanups, CleanupTask(t, n)), Pending(s) \/ s = t
      PROVE  Pending(s)'
  <2>1. CleanupTask(t, n) \in [session_id : Sessions, stopped_at : Nat]
    BY DEF CleanupTask
  <2>2. /\ DOMAIN cleanups' = 1..(Len(cleanups) + 1)
        /\ \A i \in 1..Len(cleanups) : cleanups'[i] = cleanups[i]
        /\ cleanups'[Len(cleanups) + 1] = CleanupTask(t, n)
    BY <1>0, <1>1, <2>1
  <2>3. CASE Pending(s)
    <3>1. PICK i \in 1..Len(cleanups) : cleanups[i].session_id = s
      BY <1>0, <2>3 DEF Pending
    <3>2. i \in DOMAIN cleanups' /\ cleanups'[i].session_id = s
      BY <1>0, <2>2, <3>1
    <3> QED BY <3>2 DEF Pending
  <2>4. CASE s = t
    <3>1. Len(cleanups) + 1 \in DOMAIN cleanups' /\ cleanups'[Len(cleanups) + 1].session_id = s
      BY <1>0, <2>2, <2>4 DEF CleanupTask
    <3> QED BY <3>1 DEF Pending
  <2> QED BY <1>1, <2>3, <2>4
<1>2. ASSUME cleanups # <<>>, cleanups' = Tail(cleanups),
             Pending(s), s # Head(cleanups).session_id
      PROVE  Pending(s)'
  <2>1. PICK i \in 1..Len(cleanups) : cleanups[i].session_id = s
    BY <1>0, <1>2 DEF Pending
  <2>2. Head(cleanups) = cleanups[1] /\ i # 1
    BY <1>0, <1>2, <2>1
  <2>3. DOMAIN cleanups' = 1..(Len(cleanups) - 1)
        /\ \A j \in DOMAIN cleanups' : cleanups'[j] = cleanups[j + 1]
    BY <1>0, <1>2
  <2>4. i - 1 \in DOMAIN cleanups' /\ cleanups'[i - 1] = cleanups[i]
    BY <1>0, <2>1, <2>2, <2>3
  <2> QED BY <2>1, <2>4 DEF Pending
<1> QED BY <1>1, <1>2

\* Only a caption of a running session leaves an utterance unfinished that was not: in
\* the grace period captions finalize.
LEMMA NewPartial ==
    ASSUME TypeOK, SegmentTracksRecording, [Next]_vars, NEW s \in Sessions,
           NEW k \in PartialsOf(s)', k \notin PartialsOf(s)
    PROVE  Status(s)' = "running"
<1>0. k \in Keys /\ utterances'[k] # None /\ utterances'[k].session_id = s /\ ~utterances'[k].final
  BY DEF PartialsOf
<1>1. utterances'[k] # utterances[k]
  BY <1>0 DEF PartialsOf
<1>2. PICK m \in Captions : \E t \in CaptionSession(m) : Writes(m, t, k)
  BY <1>0, <1>1, UtteranceStep
<1>3. PICK t \in CaptionSession(m) : Writes(m, t, k)
  BY <1>2
<1>4. CASE utterances[k] = None
  <2>1. Status(t) = "running" /\ Recorded(m, t).session_id = t
    BY <1>3, <1>4, NewUtterance DEF Writes
  <2>2. t = s
    BY <1>0, <1>3, <2>1 DEF Writes
  <2>3. sessions' = sessions
    BY <1>3 DEF Writes, ApplyCaption
  <2> QED BY <2>1, <2>2, <2>3 DEF Status
<1>5. CASE utterances[k] # None
  <2>1. ~utterances[k].final
    BY <1>3, <1>5 DEF Writes, Accepted, Newer
  <2>2. Recorded(m, t).session_id = utterances[k].session_id
    BY <1>3, <1>5 DEF Writes, Recorded
  <2>3. utterances[k].session_id = s
    BY <1>0, <1>3, <2>2 DEF Writes
  <2> QED BY <1>0, <1>5, <2>1, <2>3 DEF PartialsOf
<1> QED BY <1>4, <1>5

\* A daemon that never went down is up.
Owed == CleanupOwed /\ (crashes = 0 => up)

\* Which steps can leave a stopped session with unfinished utterances: its stop, which
\* leaves a task, and those it was stopped before.
LEMMA OwedStep ==
    ASSUME TypeOK, SegmentTracksRecording, Owed, [Next]_vars
    PROVE  Owed'
<1>1. crashes' = 0 => crashes = 0 /\ up /\ up'
  <2>1. CASE GoDown
    BY <2>1 DEF GoDown, TypeOK
  <2>2. CASE \E old \in SUBSET Sources, kept \in {tombstones, {}} : ComeUp(old, kept)
    BY <2>2 DEF ComeUp, Owed
  <2> QED
    BY <2>1, <2>2 DEF Owed, Next, vars, CreateSession, StartRead, StartCommit, StartAbort, Stop,
       StopAgain, DeleteRead, DeleteCommit, Cleanup, EnableSource, DisableSource, ApplyCaption,
       RefuseCaption
<1> SUFFICES ASSUME crashes' = 0, NEW s \in Sessions, Status(s)' = "stopped", PartialsOf(s)' # {}
             PROVE  Pending(s)'
  BY <1>1 DEF Owed, CleanupOwed, Pending
<1>2. PartialsOf(s) # {}
  BY NewPartial
<1>3. Status(s) = "stopped" => Pending(s)
  BY <1>1, <1>2 DEF Owed, CleanupOwed, Pending
<1>4. sessions[s] \in SessionRecord /\ sessions \in [Sessions -> SessionRecord]
  BY DEF TypeOK
<1>5. ASSUME Status(s) = "stopped", UNCHANGED cleanups PROVE Pending(s)'
  BY <1>3, <1>5 DEF Pending
<1>6. ASSUME NEW t \in Sessions, Stop(t) PROVE Pending(s)'
  <2>1. s # t => Status(s) = "stopped"
    BY <1>4, <1>6 DEF Stop, Status
  <2>2. cleanups' = Append(cleanups, CleanupTask(t, clock + 1)) /\ clock + 1 \in Nat
    BY <1>6 DEF Stop, TypeOK
  <2> QED BY <1>3, <2>1, <2>2, PendingStep
<1>7. ASSUME NEW t \in Sessions, StopAgain(t) PROVE Pending(s)'
  <2>1. Status(s) = "stopped"
    BY <1>7 DEF StopAgain, Status
  <2>2. cleanups' = Append(cleanups, CleanupTask(t, sessions[t].stopped_at))
        /\ sessions[t].stopped_at \in Nat
    BY <1>4, <1>7 DEF StopAgain, SessionRecord
  <2> QED BY <1>3, <2>1, <2>2, PendingStep
<1>8. ASSUME Cleanup PROVE Pending(s)'
  <2>1. Status(s) = "stopped"
    <3>1. sessions' = sessions
          \/ sessions' = [sessions EXCEPT ![Head(cleanups).session_id].finalize_grace_source_id = None,
                                          ![Head(cleanups).session_id].finalize_grace = FALSE]
      BY <1>8 DEF Cleanup
    <3> QED BY <1>4, <3>1 DEF Status, SessionRecord
  <2>2. Head(cleanups).session_id # s
    <3>1. SUFFICES ASSUME Head(cleanups).session_id = s PROVE PartialsOf(s)' = {}
      OBVIOUS
    <3>2. utterances' = WithoutPartialsOf(s)
      BY <1>8, <2>1, <3>1 DEF Cleanup, CleanupApplies, Startable
    <3> QED BY <3>2 DEF WithoutPartialsOf, PartialsOf
  <2> QED BY <1>3, <1>8, <2>1, <2>2, PendingStep DEF Cleanup
<1>9. ASSUME NEW t \in Sessions,
             \/ CreateSession(t) \/ StartRead(t) \/ StartCommit(t) \/ StartAbort(t)
             \/ DeleteRead(t) \/ DeleteCommit(t)
      PROVE  Pending(s)'
  <2>1. UNCHANGED cleanups
    BY <1>9 DEF CreateSession, StartRead, StartCommit, StartAbort, DeleteRead, DeleteCommit
  <2>2. sessions'[s] = sessions[s]
    <3>1. CASE CreateSession(t)
      <4>1. sessions'[t].recording_status = "idle"
        BY <1>4, <3>1 DEF CreateSession, NewSession
      <4> QED BY <1>4, <3>1, <4>1 DEF CreateSession, Status
    <3>2. CASE StartCommit(t)
      <4>1. StartedSession(sessions[t], starting.source_id).recording_status = "running"
        BY <1>4 DEF StartedSession, SessionRecord
      <4>2. sessions' = [sessions EXCEPT ![t] = StartedSession(sessions[t], starting.source_id)]
        BY <3>2 DEF StartCommit
      <4> HIDE DEF StartedSession
      <4> QED BY <1>4, <4>1, <4>2 DEF Status
    <3>3. CASE DeleteCommit(t)
      <4>1. sessions'[t].recording_status = "deleted"
        BY <1>4, <3>3 DEF DeleteCommit, NewSession
      <4> QED BY <1>4, <3>3, <4>1 DEF DeleteCommit, Status
    <3> QED
      BY <1>9, <3>1, <3>2, <3>3 DEF StartRead, StartAbort, DeleteRead
  <2>3. Status(s) = "stopped"
    BY <1>4, <2>2 DEF Status
  <2> QED BY <1>5, <2>1, <2>3
<1>10. ASSUME NEW x \in Sources, NEW tab \in Tabs,
              (\E captions \in CaptionsShown : EnableSource(x, tab, captions)) \/ DisableSource(x, tab)
       PROVE  Pending(s)'
  <2>1. UNCHANGED cleanups
    BY <1>10 DEF EnableSource, DisableSource
  <2>2. sessions'[s].recording_status = sessions[s].recording_status
    <3>1. CASE \E captions \in CaptionsShown : EnableSource(x, tab, captions)
      <4>1. PICK captions \in CaptionsShown : EnableSource(x, tab, captions)
        BY <3>1
      <4>2. CASE s \in Running
        BY <1>4, <4>1, <4>2 DEF EnableSource, SessionRecord
      <4>3. CASE s \notin Running
        BY <4>1, <4>3 DEF EnableSource
      <4> QED BY <4>2, <4>3
    <3>2. CASE DisableSource(x, tab)
      BY <1>4, <3>2 DEF DisableSource, SessionRecord
    <3> QED BY <1>10, <3>1, <3>2
  <2> QED BY <1>5, <2>1, <2>2 DEF Status
<1>11. ASSUME NEW m \in Captions, ApplyCaption(m) \/ RefuseCaption(m) PROVE Pending(s)'
  BY <1>5, <1>11 DEF ApplyCaption, RefuseCaption, Status
<1>12. CASE UNCHANGED vars
  BY <1>5, <1>12 DEF vars, Status
<1>13. ~GoDown /\ ~(\E old \in SUBSET Sources, kept \in {tombstones, {}} : ComeUp(old, kept))
  BY <1>1 DEF GoDown, ComeUp
<1> QED
  BY <1>6, <1>7, <1>8, <1>9, <1>10, <1>11, <1>12, <1>13 DEF Next

\* Until the daemon goes down, whoever stops, starts, deletes or cleans up in between: a
\* stopped session with unfinished utterances has a task that will remove them
\* (_finalize_session_later).
THEOREM PartialsNeverForgotten == Spec => []CleanupOwed
<1>1. Init => Owed
  BY DEF Init, Owed, CleanupOwed, NewSession, Status
<1>2. IInv /\ Owed /\ [Next]_vars => Owed'
  BY OwedStep DEF IInv
<1>3. Owed => CleanupOwed
  BY DEF Owed
<1> QED BY <1>1, <1>2, <1>3, Invariance, PTL DEF Spec
=============================================================================
