------------------------------ MODULE Recording ------------------------------
(***************************************************************************)
(* The recording core of the daemon: SessionService, CaptureService, the   *)
(* startup recovery and maintenance, and the request handlers that call    *)
(* them.  One action is one committed transaction, with two exceptions:    *)
(* start and delete run on a thread pool and SQLite takes no lock before   *)
(* the first write, so what they read and what they write are separate     *)
(* steps.  Everything else runs on the event loop, one transaction at a    *)
(* time.                                                                   *)
(*                                                                         *)
(* A definition named X_Y is the mutant Y of X: no action uses it, and the *)
(* checks show which property notices it in the place of X.                *)
(***************************************************************************)
EXTENDS Naturals, Sequences, FiniteSets

CONSTANTS
    Sessions,       \* session ids the database may come to hold
    Sources,        \* capture source ids: one per captured document
    UtteranceIds,   \* utterance ids an adapter gives within one source
    Tabs,           \* an installation, a browser tab and a meeting in it;
                    \* None for a source whose tab is not known
    CaptionsShown,  \* what a bound source may report of its captions
    EventIds,       \* ids of caption events
    None,           \* NULL
    MaxRevision,    \* bound on the revisions of an utterance
    MaxStops,       \* bound on the stops, after which nothing starts
    MaxCleanups,    \* bound on the cleanup tasks pending at once
    MaxCrashes      \* bound on the times the daemon goes down

ASSUME RecordingAssumption ==
    /\ None \notin Sessions \cup Sources
    /\ CaptionsShown \subseteq {"captions_not_detected", "capturing"}
    /\ MaxRevision \in Nat \ {0}
    /\ MaxStops \in Nat
    /\ MaxCleanups \in Nat
    /\ MaxCrashes \in Nat

VARIABLES
    sessions,    \* the sessions table
    segments,    \* per session, its recording segments in sequence order
    sources,     \* the capture_sources table
    utterances,  \* the utterances table, by (source_id, utterance_id)
    tombstones,  \* ids of the caption events already processed
    starting,    \* the start between its reads and its writes, if any
    deleting,    \* the session a delete has read and not yet deleted, or None
    cleanups,    \* pending finalize-session tasks, oldest first
    clock,       \* orders the stopped_at times: one tick per stop
    up,          \* is the daemon running?
    crashes      \* times it went down

vars == <<sessions, segments, sources, utterances, tombstones, starting,
          deleting, cleanups, clock, up, crashes>>

-----------------------------------------------------------------------------
(* The tables.                                                             *)

RecordingStatuses == {"absent", "idle", "running", "stopped", "deleted"}
CaptureStatuses == {"no_source", "connected", "waiting_for_source",
                    "captions_not_detected", "capturing"}

SessionRecord ==
    [recording_status : RecordingStatuses,
     capture_status : CaptureStatuses,
     enabled_source_id : Sources \cup {None},
     active_source_id : Sources \cup {None},
     finalize_grace_source_id : Sources \cup {None},
     finalize_grace : BOOLEAN,   \* finalize_grace_until is set
     stopped_at : Nat]           \* 0 is NULL

SegmentRecord == [source_id : Sources \cup {None},
                  stop_reason : {"open", "user", "daemon_restart"}]

SourceRecord == [known : BOOLEAN,   \* the row exists
                 enabled : BOOLEAN,
                 connected : BOOLEAN,
                 tab : Tabs \cup {None}]

UtteranceRecord == [session_id : Sessions, segment : Nat \ {0},
                    revision : Nat, final : BOOLEAN]

Keys == Sources \X UtteranceIds

ASSUME NullIsNoRow == None \notin UtteranceRecord

Captions == [type : {"upsert", "finalize"}, event_id : EventIds,
             source_id : Sources, utterance_id : UtteranceIds,
             revision : 1..MaxRevision,
             timely : BOOLEAN]   \* observed_at <= finalize_grace_until

NewSession == [recording_status |-> "idle", capture_status |-> "no_source",
               enabled_source_id |-> None, active_source_id |-> None,
               finalize_grace_source_id |-> None, finalize_grace |-> FALSE,
               stopped_at |-> 0]

NoStart == [session_id |-> None, source_id |-> None]

Status(s) == sessions[s].recording_status
Running == {s \in Sessions : Status(s) = "running"}
Startable(s) == Status(s) \in {"idle", "stopped"}
OpenSegments(s) == {i \in DOMAIN segments[s] : segments[s][i].stop_reason = "open"}
PartialsOf(s) == {k \in Keys : /\ utterances[k] # None
                               /\ utterances[k].session_id = s
                               /\ ~utterances[k].final}

Init ==
    /\ sessions = [s \in Sessions |-> [NewSession EXCEPT !.recording_status = "absent"]]
    /\ segments = [s \in Sessions |-> <<>>]
    /\ sources = [x \in Sources |-> [known |-> FALSE, enabled |-> FALSE,
                                     connected |-> FALSE, tab |-> None]]
    /\ utterances = [k \in Keys |-> None]
    /\ tombstones = {}
    /\ starting = NoStart
    /\ deleting = None
    /\ cleanups = <<>>
    /\ clock = 0
    /\ up = TRUE
    /\ crashes = 0

-----------------------------------------------------------------------------
(* SessionService: create, start, stop, delete and the cleanup tasks.      *)

CreateSession(s) ==
    /\ up
    /\ Status(s) = "absent"
    /\ sessions' = [sessions EXCEPT ![s] = NewSession]
    /\ UNCHANGED <<segments, sources, utterances, tombstones, starting,
                   deleting, cleanups, clock, up, crashes>>

\* The source a start binds: the session's own, else the enabled one.
SourcesToBind(s) ==
    LET enabled == {x \in Sources : sources[x].enabled}
    IN  IF sessions[s].enabled_source_id # None
        THEN {sessions[s].enabled_source_id}
        ELSE IF enabled = {} THEN {None} ELSE enabled

\* Is another session recording?  The query of start, and the partial
\* unique index uq_sessions_one_running.
RecordingElsewhere_NotAsked(s) == FALSE
RecordingElsewhere(s) == Running \ {s} # {}

\* start, under transition_lock, up to its first write.  It does nothing for a
\* running session and refuses while another one runs.
StartRead(s) ==
    /\ up
    /\ starting = NoStart
    /\ Startable(s)
    /\ ~RecordingElsewhere(s)
    /\ clock < MaxStops
    /\ \E x \in SourcesToBind(s) :
          starting' = [session_id |-> s, source_id |-> x]
    /\ UNCHANGED <<sessions, segments, sources, utterances, tombstones,
                   deleting, cleanups, clock, up, crashes>>

StartedSession(rec, x) ==
    [rec EXCEPT !.recording_status = "running",
                !.capture_status = IF x = None THEN "waiting_for_source"
                                               ELSE "captions_not_detected",
                !.enabled_source_id = x,
                !.active_source_id = x,
                !.finalize_grace_source_id = None,
                !.finalize_grace = FALSE,
                !.stopped_at = 0]

\* start, its writes and commit.
StartCommit(s) ==
    /\ up
    /\ starting.session_id = s
    /\ Startable(s)
    /\ ~RecordingElsewhere(s)
    /\ sessions' = [sessions EXCEPT ![s] = StartedSession(@, starting.source_id)]
    /\ segments' = [segments EXCEPT
          ![s] = Append(@, [source_id |-> starting.source_id, stop_reason |-> "open"])]
    /\ starting' = NoStart
    /\ UNCHANGED <<sources, utterances, tombstones, deleting, cleanups, clock,
                   up, crashes>>

\* start, rolled back: the row is gone or the unique index refuses it.
StartAbort(s) ==
    /\ up
    /\ starting.session_id = s
    /\ ~Startable(s) \/ RecordingElsewhere(s)
    /\ starting' = NoStart
    /\ UNCHANGED <<sessions, segments, sources, utterances, tombstones,
                   deleting, cleanups, clock, up, crashes>>

StoppedSession_StillBound(rec) ==
    [rec EXCEPT !.recording_status = "stopped",
                !.finalize_grace_source_id = rec.active_source_id,
                !.finalize_grace = TRUE,
                !.stopped_at = clock + 1]

StoppedSession(rec) ==
    [rec EXCEPT !.recording_status = "stopped",
                !.capture_status = IF rec.enabled_source_id # None
                                   THEN "connected" ELSE "no_source",
                !.active_source_id = None,
                !.finalize_grace_source_id = rec.active_source_id,
                !.finalize_grace = TRUE,
                !.stopped_at = clock + 1]

\* The task stop_session leaves behind, due when the grace period is over.
CleanupTask(s, at) == [session_id |-> s, stopped_at |-> at]

\* stop_session on a running session.
Stop(s) ==
    /\ up
    /\ Status(s) = "running"
    /\ Len(cleanups) < MaxCleanups
    /\ \E i \in OpenSegments(s) :
          /\ \A j \in OpenSegments(s) : j <= i
          /\ segments' = [segments EXCEPT ![s][i].stop_reason = "user"]
    /\ sessions' = [sessions EXCEPT ![s] = StoppedSession(@)]
    /\ clock' = clock + 1
    /\ cleanups' = Append(cleanups, CleanupTask(s, clock + 1))
    /\ UNCHANGED <<sources, utterances, tombstones, starting, deleting, up, crashes>>

\* stop_session on a stopped session: nothing changes, yet a task is created.
StopAgain(s) ==
    /\ up
    /\ Status(s) = "stopped"
    /\ Len(cleanups) < MaxCleanups
    /\ cleanups' = Append(cleanups, CleanupTask(s, sessions[s].stopped_at))
    /\ UNCHANGED <<sessions, segments, sources, utterances, tombstones,
                   starting, deleting, clock, up, crashes>>

WithoutPartialsOf(s) == [k \in Keys |-> IF k \in PartialsOf(s) THEN None ELSE utterances[k]]

\* A cleanup leaves a running session alone, and fails on a deleted one.
CleanupApplies_WhileRunning(s) == Status(s) # "deleted"
CleanupApplies_NobodyRunning(s) == Startable(s) /\ Running = {}
CleanupApplies(s) == Startable(s)

\* The oldest task wakes up: cleanup_partial_utterances.
Cleanup ==
    /\ up
    /\ cleanups # <<>>
    /\ cleanups' = Tail(cleanups)
    /\ LET s == Head(cleanups).session_id
       IN  IF CleanupApplies(s)
           THEN /\ utterances' = WithoutPartialsOf(s)
                /\ sessions' = [sessions EXCEPT ![s].finalize_grace_source_id = None,
                                                ![s].finalize_grace = FALSE]
           ELSE UNCHANGED <<utterances, sessions>>
    /\ UNCHANGED <<segments, sources, tombstones, starting, deleting, clock,
                   up, crashes>>

\* delete, up to its first write.
DeleteRead(s) ==
    /\ up
    /\ deleting = None
    /\ Startable(s)
    /\ deleting' = s
    /\ UNCHANGED <<sessions, segments, sources, utterances, tombstones,
                   starting, cleanups, clock, up, crashes>>

\* ON DELETE CASCADE from the sessions table to the utterances table.
Cascaded(s) == [k \in Keys |-> IF utterances[k] # None /\ utterances[k].session_id = s
                              THEN None ELSE utterances[k]]

\* delete, its write: the row goes by id, its segments and utterances by cascade.
DeleteCommit(s) ==
    /\ up
    /\ deleting = s
    /\ deleting' = None
    /\ sessions' = [sessions EXCEPT ![s] = [NewSession EXCEPT !.recording_status = "deleted"]]
    /\ segments' = [segments EXCEPT ![s] = <<>>]
    /\ utterances' = Cascaded(s)
    /\ UNCHANGED <<sources, tombstones, starting, cleanups, clock, up, crashes>>

-----------------------------------------------------------------------------
(* CaptureService.                                                         *)

\* A source moved to a new document of the tab and meeting it captured.
ReconnectingSameTab_AnyTab(active, tab) == tab # None /\ sources[active].known
ReconnectingSameTab(active, tab) ==
    /\ tab # None
    /\ sources[active].known
    /\ sources[active].tab = tab

SwitchRejected(x, tab) ==
    \E s \in Running : /\ sessions[s].active_source_id \notin {None, x}
                       /\ ~ReconnectingSameTab(sessions[s].active_source_id, tab)

\* The enabled source is the only one enabled.
SourcesEnabling(x, tab) ==
    [y \in Sources |->
        IF y = x THEN [known |-> TRUE, enabled |-> TRUE, connected |-> TRUE, tab |-> tab]
                 ELSE [sources[y] EXCEPT !.enabled = FALSE]]

\* The running session's open segment follows its source.
SegmentsFollowing_Not(x) == segments
SegmentsFollowing(x) ==
    [s \in Sessions |->
        IF s \in Running
        THEN [i \in DOMAIN segments[s] |->
                IF i \in OpenSegments(s)
                THEN [segments[s][i] EXCEPT !.source_id = x]
                ELSE segments[s][i]]
        ELSE segments[s]]

\* update_source with enabled set.
EnableSource(x, tab, captions) ==
    /\ up
    /\ ~SwitchRejected(x, tab)
    /\ sources' = SourcesEnabling(x, tab)
    /\ sessions' = [s \in Sessions |->
          IF s \in Running
          THEN [sessions[s] EXCEPT !.enabled_source_id = x,
                                   !.active_source_id = x,
                                   !.capture_status = captions]
          ELSE sessions[s]]
    /\ segments' = SegmentsFollowing(x)
    /\ UNCHANGED <<utterances, tombstones, starting, deleting, cleanups, clock,
                   up, crashes>>

\* update_source with enabled cleared: the running session loses the source.
DisableSource(x, tab) ==
    /\ up
    /\ sources' = [sources EXCEPT
          ![x] = [known |-> TRUE, enabled |-> FALSE, connected |-> TRUE, tab |-> tab]]
    /\ sessions' = [s \in Sessions |->
          IF s \in Running /\ sessions[s].active_source_id = x
          THEN [sessions[s] EXCEPT !.enabled_source_id = None,
                                   !.active_source_id = None,
                                   !.capture_status = "waiting_for_source"]
          ELSE sessions[s]]
    /\ UNCHANGED <<segments, utterances, tombstones, starting, deleting,
                   cleanups, clock, up, crashes>>

\* The session stopped last, if it still takes late finalizations.
InGrace_AnyCaption(m) ==
    {s \in Sessions :
        /\ m.timely
        /\ Status(s) = "stopped"
        /\ \A t \in Sessions : Status(t) = "stopped" =>
              sessions[t].stopped_at <= sessions[s].stopped_at
        /\ sessions[s].finalize_grace}
InGrace(m) ==
    {s \in Sessions :
        /\ m.type = "finalize"
        /\ m.timely
        /\ Status(s) = "stopped"
        /\ \A t \in Sessions : Status(t) = "stopped" =>
              sessions[t].stopped_at <= sessions[s].stopped_at
        /\ sessions[s].finalize_grace}

\* The session a caption is taken for: the running one, else one in grace.
CaptionSession(m) == IF Running # {} THEN Running ELSE InGrace(m)

Key(m) == <<m.source_id, m.utterance_id>>

BoundSource(s) == IF Status(s) = "running"
                  THEN sessions[s].active_source_id
                  ELSE sessions[s].finalize_grace_source_id

\* Is the caption newer than what is stored?
Newer(m, old) ==
    /\ ~old.final
    /\ \/ m.revision > old.revision
       \/ m.revision = old.revision /\ m.type = "finalize"

Accepted(m, s) ==
    /\ BoundSource(s) = m.source_id
    /\ IF utterances[Key(m)] = None
       THEN Status(s) = "running"
       ELSE Newer(m, utterances[Key(m)])

\* The row after the caption: an existing one keeps its session and segment.
Recorded(m, s) ==
    LET old == utterances[Key(m)]
    IN  [session_id |-> IF old = None THEN s ELSE old.session_id,
         segment |-> IF old = None THEN Len(segments[s]) ELSE old.segment,
         revision |-> m.revision,
         final |-> m.type = "finalize"]

\* process_caption on an event it has no tombstone for.  With a tombstone it
\* changes nothing.
ApplyCaption_NoTombstone(m) ==
    /\ up
    /\ m.event_id \notin tombstones
    /\ \E s \in CaptionSession(m) :
          /\ Accepted(m, s)
          /\ utterances' = [utterances EXCEPT ![Key(m)] = Recorded(m, s)]
    /\ UNCHANGED <<sessions, segments, sources, tombstones, starting, deleting,
                   cleanups, clock, up, crashes>>
ApplyCaption(m) ==
    /\ up
    /\ m.event_id \notin tombstones
    /\ \E s \in CaptionSession(m) :
          /\ Accepted(m, s)
          /\ utterances' = [utterances EXCEPT ![Key(m)] = Recorded(m, s)]
    /\ tombstones' = tombstones \cup {m.event_id}
    /\ UNCHANGED <<sessions, segments, sources, starting, deleting, cleanups,
                   clock, up, crashes>>

RefuseCaption(m) ==
    /\ up
    /\ m.event_id \notin tombstones
    /\ \A s \in CaptionSession(m) : ~Accepted(m, s)
    /\ tombstones' = tombstones \cup {m.event_id}
    /\ UNCHANGED <<sessions, segments, sources, utterances, starting, deleting,
                   cleanups, clock, up, crashes>>

-----------------------------------------------------------------------------
(* The daemon goes down, by a crash or a shutdown, and comes up again.     *)

\* Threads and cleanup tasks are lost, the database is not.
GoDown ==
    /\ up
    /\ crashes < MaxCrashes
    /\ up' = FALSE
    /\ crashes' = crashes + 1
    /\ starting' = NoStart
    /\ deleting' = None
    /\ cleanups' = <<>>
    /\ UNCHANGED <<sessions, segments, sources, utterances, tombstones, clock>>

\* recover_after_restart for one running session.
RecoveredSession(rec) ==
    [rec EXCEPT !.recording_status = "stopped",
                !.capture_status = "no_source",
                !.active_source_id = None,
                !.finalize_grace_source_id = None,
                !.finalize_grace = FALSE,
                !.stopped_at = clock + 1]

ClosedSegments(s) == [i \in DOMAIN segments[s] |->
                        IF i \in OpenSegments(s)
                        THEN [segments[s][i] EXCEPT !.stop_reason = "daemon_restart"]
                        ELSE segments[s][i]]

\* The sources some session, segment or utterance refers to.
ReferencedSources ==
    {x \in Sources :
        \/ \E s \in Sessions : x \in {sessions[s].enabled_source_id,
                                      sessions[s].active_source_id,
                                      sessions[s].finalize_grace_source_id}
        \/ \E s \in Sessions : \E i \in DOMAIN segments[s] : segments[s][i].source_id = x
        \/ \E k \in Keys : k[1] = x /\ utterances[k] # None}

\* The lifespan's startup: recover_after_restart, mark_sources_disconnected
\* and perform_startup_maintenance.  old: the sources past their retention;
\* kept: the tombstones, all of them or, past their retention, none.
ComeUp(old, kept) ==
    /\ ~up
    /\ up' = TRUE
    /\ sessions' = [s \in Sessions |->
          IF s \in Running THEN RecoveredSession(sessions[s]) ELSE sessions[s]]
    /\ segments' = [s \in Sessions |->
          IF s \in Running THEN ClosedSegments(s) ELSE segments[s]]
    /\ utterances' = [k \in Keys |->
          IF \E s \in Running : k \in PartialsOf(s) THEN None ELSE utterances[k]]
    /\ clock' = IF Running = {} THEN clock ELSE clock + 1
    /\ sources' = [x \in Sources |->
          IF x \in old \ ReferencedSources
          THEN [known |-> FALSE, enabled |-> FALSE, connected |-> FALSE, tab |-> None]
          ELSE [sources[x] EXCEPT !.enabled = FALSE, !.connected = FALSE]]
    /\ tombstones' = kept
    /\ UNCHANGED <<starting, deleting, cleanups, crashes>>

-----------------------------------------------------------------------------
Next ==
    \/ \E s \in Sessions :
          \/ CreateSession(s)
          \/ StartRead(s)
          \/ StartCommit(s)
          \/ StartAbort(s)
          \/ Stop(s)
          \/ StopAgain(s)
          \/ DeleteRead(s)
          \/ DeleteCommit(s)
    \/ Cleanup
    \/ \E x \in Sources, tab \in Tabs :
          \/ \E captions \in CaptionsShown : EnableSource(x, tab, captions)
          \/ DisableSource(x, tab)
    \/ \E m \in Captions : ApplyCaption(m) \/ RefuseCaption(m)
    \/ GoDown
    \/ \E old \in SUBSET Sources, kept \in {tombstones, {}} : ComeUp(old, kept)

Spec == Init /\ [][Next]_vars

\* The event loop runs a task that is due, and a thread pool a request it has
\* begun.  Users, extensions and crashes owe nothing.
Fairness ==
    /\ WF_vars(Cleanup)
    /\ \A s \in Sessions : /\ WF_vars(StartCommit(s) \/ StartAbort(s))
                           /\ WF_vars(DeleteCommit(s))

FairSpec == Spec /\ Fairness

-----------------------------------------------------------------------------
(* Properties.                                                             *)

TypeOK ==
    /\ sessions \in [Sessions -> SessionRecord]
    /\ segments \in [Sessions -> Seq(SegmentRecord)]
    /\ sources \in [Sources -> SourceRecord]
    /\ utterances \in [Keys -> UtteranceRecord \cup {None}]
    /\ tombstones \subseteq EventIds
    /\ starting \in [session_id : Sessions \cup {None}, source_id : Sources \cup {None}]
    /\ deleting \in Sessions \cup {None}
    /\ cleanups \in Seq([session_id : Sessions, stopped_at : Nat])
    /\ clock \in Nat
    /\ up \in BOOLEAN
    /\ crashes \in Nat

\* At most one session records, whatever starts, stops, deletes and restarts
\* overlap.
OneRecording == \A s, t \in Running : s = t

\* A running session has exactly one open segment, its newest, and that names
\* the source whose captions the session takes; no other session has one.
\* (What stop and process_caption rely on to find "the" segment.)
SegmentTracksRecording ==
    \A s \in Sessions :
        IF Status(s) = "running"
        THEN /\ OpenSegments(s) = {Len(segments[s])}
             /\ sessions[s].active_source_id # None =>
                  segments[s][Len(segments[s])].source_id = sessions[s].active_source_id
        ELSE OpenSegments(s) = {}

\* Every utterance belongs to a session that was started and still exists,
\* and to a segment of it.
TranscriptOwned ==
    \A k \in Keys : utterances[k] # None =>
        LET u == utterances[k]
        IN  /\ Status(u.session_id) \in {"running", "stopped"}
            /\ u.segment \in DOMAIN segments[u.session_id]

\* The enabled and the active source of a running session are one, what the
\* user is shown of the capture agrees with it, and a grace period is open only
\* after a stop.
BindingCoherent ==
    \A s \in Sessions :
        LET rec == sessions[s]
        IN  /\ Status(s) = "running" =>
                 /\ rec.enabled_source_id = rec.active_source_id
                 /\ (rec.capture_status = "waiting_for_source") <=> (rec.active_source_id = None)
            /\ Status(s) # "running" => rec.active_source_id = None
            /\ rec.finalize_grace_source_id # None => rec.finalize_grace
            /\ rec.finalize_grace => Status(s) = "stopped"

\* At most one source is enabled, and only one that has spoken since startup.
OneEnabledSource ==
    /\ \A x, y \in Sources : sources[x].enabled /\ sources[y].enabled => x = y
    /\ \A x \in Sources : sources[x].enabled => sources[x].known /\ sources[x].connected

\* An utterance stays in its session and segment, its revision never falls, and
\* once final it never changes: it can only go with its session.
UtteranceHistory ==
    [][\A k \in Keys : utterances[k] # None =>
          LET u == utterances[k]
              v == utterances'[k]
          IN  IF v = None
              THEN u.final => sessions'[u.session_id].recording_status = "deleted"
              ELSE /\ v.session_id = u.session_id
                   /\ v.segment = u.segment
                   /\ v.revision >= u.revision
                   /\ u.final => v = u]_vars

\* A new utterance enters only the running session's open segment, and only from
\* the source it is bound to.
GrowsWhileRecording ==
    [][\A k \in Keys : utterances[k] = None /\ utterances'[k] # None =>
          LET s == utterances'[k].session_id
          IN  /\ Status(s) = "running"
              /\ sessions[s].active_source_id = k[1]
              /\ utterances'[k].segment \in OpenSegments(s)]_vars

\* While no session records, an utterance is only ever finalized or removed.
QuietWhenStopped ==
    [][Running = {} => \A k \in Keys :
          utterances'[k] \in {utterances[k], None} \/ utterances'[k].final]_vars

\* A recording session goes from one source to another only within one tab and
\* meeting; to reach another it must first lose its source.
NoSourceSwitch ==
    [][\A s \in Sessions :
          LET old == sessions[s].active_source_id
              new == sessions'[s].active_source_id
          IN  old # None /\ new # None /\ new # old =>
                 sources[old].tab # None /\ sources'[new].tab = sources[old].tab]_vars

\* Every change a caption makes to the transcript uses up an event id, so a
\* resent event changes nothing.
EventAppliedOnce ==
    [][(\E k \in Keys : utterances'[k] \notin {utterances[k], None}) =>
          \E e \in EventIds : e \notin tombstones /\ e \in tombstones']_vars

\* While the daemon has not gone down, a stopped session with unfinished utterances has a
\* task pending that will remove them: no start, second stop, other session or deletion
\* leaves them to nobody (stop_session's background task).
CleanupOwed ==
    crashes = 0 => \A s \in Sessions : Status(s) = "stopped" /\ PartialsOf(s) # {} =>
        \E i \in DOMAIN cleanups : cleanups[i].session_id = s

\* An unfinished utterance of a stopped session is finalized, removed, or its
\* session records again, while the daemon has not gone down: a cleanup task is
\* not lost in a later stop, start or cleanup (stop_session's background task).
PartialsResolved ==
    \A s \in Sessions :
        (Status(s) = "stopped" /\ PartialsOf(s) # {} /\ crashes = 0) ~>
            (PartialsOf(s) = {} \/ Status(s) = "running" \/ ~up)

\* The transcripts of the daemon are those of module Transcript.
Recorder == IF Running = {} THEN None ELSE CHOOSE s \in Running : TRUE

Abstract == INSTANCE Transcript WITH recorder <- Recorder, entries <- utterances

ImplementsTranscript == Abstract!Spec

-----------------------------------------------------------------------------
(* What the documents say and the code does not keep: see the README.      *)

\* After startup no unfinished utterance is left.  Not so when the daemon ended in
\* the grace period of a stop: recovery looks at running sessions only.
RecoveryRemovesPartials ==
    [][~up /\ up' => \A k \in Keys : utterances'[k] # None => utterances'[k].final]_vars

\* A start picks the enabled source when there is one: the tab the user chose
\* before recording begins.  Not so for a session that has recorded from another.
StartPicksEnabledSource ==
    [][starting' \notin {starting, NoStart} /\ (\E x \in Sources : sources[x].enabled) =>
          starting'.source_id # None /\ sources[starting'.source_id].enabled]_vars

\* A running session is not deleted.  Not so when a start commits between the two
\* transactions of a deletion.
RunningNotDeleted ==
    [][\A s \in Running : sessions'[s].recording_status # "deleted"]_vars
=============================================================================
