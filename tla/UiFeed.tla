-------------------------------- MODULE UiFeed --------------------------------
(***************************************************************************)
(* The live feed of the web page: every change commits an event to the     *)
(* ui_events outbox; the page loads a snapshot, follows the events after   *)
(* it over /ws/ui, and loads the detail of the session it has selected.    *)
(*                                                                         *)
(* SQLite reads outside a write see each statement's own moment, so a      *)
(* snapshot is two reads: first the contents, then the last event id.  An  *)
(* event stands for the change it tells of: what the page shows is the set *)
(* of the events it reflects.  X_Y is the mutant Y of definition X.        *)
(***************************************************************************)
EXTENDS Naturals, Sequences, SequencesExt

CONSTANTS
    Selectable,   \* the sessions the page can select
    None,         \* nothing selected or under way
    Batch,        \* events of one read of the outbox (500 in the code)
    MaxUiEvents,  \* events that pruning keeps (10000 in the code)
    MaxEvents,    \* bound on the events committed
    MaxSelects,   \* bound on the selections and changes of the user
    MaxFaults     \* bound on lost connections, restarts of the server and failed requests

\* A refresh() under way: snapshot, then the detail of the selected session.
Refreshes ==
    [step : {"contents", "last", "arrived", "detailContents", "done"},
     contents : Nat, last : Nat, for : Selectable \cup {None},
     detailLast : Nat, detailContents : Nat]

ASSUME FeedAssumption ==
    /\ {Batch, MaxUiEvents} \subseteq Nat \ {0}
    /\ {MaxEvents, MaxSelects, MaxFaults} \subseteq Nat
    /\ Selectable \cap {"simple", "complex", None} = {}
    /\ None \notin Refreshes

\* An event is about what the snapshot holds - applied directly, or complex (a
\* deleted preset) - or about the transcript and agent runs of a session.
Subjects == {"simple", "complex"} \cup Selectable

VARIABLES
    log,        \* every event ever committed; its id is its place
    pruned,     \* ui_events_pruned_through
    socket,     \* /ws/ui: waiting for the first refresh, closed or open
    sent,       \* the cursor of the server's side
    channel,    \* frames the page has not received yet
    cursor,     \* the page's cursor
    global,     \* events its snapshot reflects
    refresh,    \* the latest refresh() under way
    buffer,     \* bufferedEvents
    again,      \* a refresh is scheduled by a timer
    selected,   \* the session the user has selected
    detail,     \* the session detail the page holds
    fetch,      \* the request of the selection effect
    missed,     \* history: events that fell between the two reads of a snapshot, and
                \* complex ones whose state updater React ran after the handler
    selects, drops, failures

server == <<log, pruned>>
wire == <<socket, sent, channel>>
globalView == <<cursor, global, refresh, buffer, again>>
detailView == <<selected, detail, fetch>>
bounds == <<selects, drops, failures>>
feedVars == <<server, wire, globalView, detailView, missed, bounds>>

Ids == 1..MaxEvents
LastId == Len(log)
About(subjects, n) == {i \in 1..n : log[i] \in subjects}
Larger(m, n) == IF m > n THEN m ELSE n

(***************************************************************************)
(* The page applies events                                                 *)
(***************************************************************************)

\* applyGlobalEvent: a complex event leaves the snapshot as it is.
AppliedGlobal(g, ids) == g \cup {i \in ids : log[i] = "simple"}

\* applyDetailEvent: a change of the session is upserted, and the text of an answer
\* (agent.delta) is appended, also when the loaded detail had it already.
AppliedDetail(d, i) ==
    IF d = None THEN None
    ELSE CASE i <= d.last -> d
           [] i > d.last /\ log[i] = d.session ->
                [d EXCEPT !.seen = @ \cup {i}, !.last = i,
                          !.twice = IF i \in d.seen THEN @ \cup {i} ELSE @]
           [] i > d.last /\ log[i] \in {"simple", "complex"} -> [d EXCEPT !.last = i]
           [] OTHER -> d

DetailAfter(d, events) == FoldLeft(AppliedDetail, d, events)

StartRefresh ==
    /\ refresh' = [step |-> "contents", contents |-> 0, last |-> 0, for |-> None,
                   detailLast |-> 0, detailContents |-> 0]
    /\ buffer' = IF refresh = None THEN <<>> ELSE buffer

(***************************************************************************)
(* The server                                                              *)
(***************************************************************************)

Commit(subject) ==
    /\ LastId < MaxEvents
    /\ log' = Append(log, subject)
    /\ UNCHANGED <<pruned, wire, globalView, detailView, missed, bounds>>

Drop ==
    /\ drops + failures < MaxFaults
    /\ drops' = drops + 1
    /\ socket' = IF socket = "waiting" THEN "waiting" ELSE "closed"
    /\ channel' = <<>>
    /\ UNCHANGED <<sent, globalView, detailView, missed, selects, failures>>

LoseSocket == socket = "open" /\ Drop /\ UNCHANGED server

\* Maintenance at startup prunes the outbox.
Restart ==
    /\ Drop
    /\ pruned' = Larger(pruned, IF LastId > MaxUiEvents THEN LastId - MaxUiEvents ELSE 0)
    /\ UNCHANGED log

\* The next Batch events after the cursor.
NextBatch(since) == [i \in 1..(IF LastId - since < Batch THEN LastId - since ELSE Batch) |-> since + i]
Valid(since) == pruned <= since /\ since <= LastId

\* ui_websocket: accept, replay or ask for a resync.
Connect_Close ==
    /\ socket = "closed"
    /\ Valid(cursor)
    /\ channel' = NextBatch(cursor) /\ sent' = cursor + Len(NextBatch(cursor))
    /\ socket' = "open"
    /\ UNCHANGED <<server, globalView, detailView, missed, bounds>>
Connect ==
    /\ socket = "closed"
    /\ IF Valid(cursor)
       THEN channel' = NextBatch(cursor) /\ sent' = cursor + Len(NextBatch(cursor))
       ELSE channel' = <<0>> /\ sent' = LastId
    /\ socket' = "open"
    /\ UNCHANGED <<server, globalView, detailView, missed, bounds>>

SendMore ==
    /\ socket = "open"
    /\ sent < LastId
    /\ channel' = channel \o NextBatch(sent)
    /\ sent' = sent + Len(NextBatch(sent))
    /\ UNCHANGED <<server, socket, globalView, detailView, missed, bounds>>

(***************************************************************************)
(* The page                                                                *)
(***************************************************************************)

\* onmessage; the frame 0 is resync_required.
Resync ==
    /\ channel # <<>> /\ Head(channel) = 0
    /\ channel' = Tail(channel)
    /\ StartRefresh
    /\ UNCHANGED <<server, socket, sent, cursor, global, again, detailView, missed, bounds>>

Receive_Unbuffered(eager) ==
    /\ channel # <<>> /\ Head(channel) # 0
    /\ channel' = Tail(channel)
    /\ LET i == Head(channel) IN
        /\ cursor' = Larger(cursor, i)
        /\ global' = AppliedGlobal(global, {i})
        /\ detail' = AppliedDetail(detail, i)
        /\ IF log[i] = "complex" THEN StartRefresh ELSE UNCHANGED <<refresh, buffer>>
    /\ UNCHANGED <<server, socket, sent, again, selected, fetch, missed, bounds>>
\* React may run the updater, which finds that the event is complex, only after the
\* handler has looked at its result (~eager).
Receive(eager) ==
    /\ channel # <<>> /\ Head(channel) # 0
    /\ channel' = Tail(channel)
    /\ LET i == Head(channel) IN
        /\ cursor' = Larger(cursor, i)
        /\ CASE i <= cursor -> UNCHANGED <<global, refresh, buffer, detail>>
             [] i > cursor /\ refresh # None ->
                  buffer' = Append(buffer, i) /\ UNCHANGED <<global, refresh, detail>>
             [] OTHER ->
                  /\ global' = AppliedGlobal(global, {i})
                  /\ detail' = AppliedDetail(detail, i)
                  /\ IF log[i] = "complex" /\ eager THEN StartRefresh
                     ELSE UNCHANGED <<refresh, buffer>>
        /\ missed' = IF i > cursor /\ refresh = None /\ log[i] = "complex" /\ ~eager
                     THEN missed \cup {i} ELSE missed
    /\ UNCHANGED <<server, socket, sent, again, selected, fetch, bounds>>

TimerFires ==
    /\ again
    /\ again' = FALSE
    /\ StartRefresh
    /\ UNCHANGED <<server, wire, cursor, global, detailView, missed, bounds>>

\* The pages call refresh() after a change they requested.
UserRefresh ==
    /\ socket # "waiting"
    /\ selects < MaxSelects
    /\ selects' = selects + 1
    /\ StartRefresh
    /\ UNCHANGED <<server, wire, cursor, global, again, detailView, missed, drops, failures>>

InRefresh(step) == refresh # None /\ refresh.step = step
Reading == UNCHANGED <<server, wire, cursor, global, buffer, again, detailView, missed, bounds>>

\* GET /api/snapshot
ReadContents ==
    /\ InRefresh("contents")
    /\ refresh' = [refresh EXCEPT !.step = "last", !.contents = LastId]
    /\ Reading

ReadLast ==
    /\ InRefresh("last")
    /\ refresh' = [refresh EXCEPT !.step = "arrived", !.last = LastId]
    /\ Reading

\* The page goes on to GET /api/sessions/{id}/detail, which reads the last id first.
RequestDetail ==
    /\ InRefresh("arrived")
    /\ refresh' = [refresh EXCEPT !.for = selected,
                                  !.step = IF selected = None THEN "done" ELSE "detailContents",
                                  !.detailLast = LastId]
    /\ Reading

ReadDetailContents ==
    /\ InRefresh("detailContents")
    /\ refresh' = [refresh EXCEPT !.step = "done", !.detailContents = LastId]
    /\ Reading

Detail(s, n, last) == [session |-> s, seen |-> About({s}, n), last |-> last, twice |-> {}]

Opened == socket' = (IF socket = "waiting" THEN "closed" ELSE socket) /\ UNCHANGED sent

\* The buffered events that the snapshot does not hold.
Pending_PastCursor == {i \in ToSet(buffer) : i > cursor}
Pending == {i \in ToSet(buffer) : i > refresh.last}

Refreshed ==
    /\ InRefresh("done")
    /\ global' = AppliedGlobal(About({"simple", "complex"}, refresh.contents), Pending)
    /\ detail' = IF refresh.for = None THEN None ELSE
            DetailAfter(Detail(refresh.for, refresh.detailContents, refresh.detailLast),
                        SelectSeq(buffer, LAMBDA i : i \in Pending))
    /\ again' = (again \/ \E i \in Pending : log[i] = "complex")
    /\ missed' = missed \cup (refresh.contents + 1)..refresh.last
    /\ cursor' = Larger(cursor, refresh.last)
    /\ refresh' = None
    /\ buffer' = <<>>
    /\ Opened
    /\ UNCHANGED <<server, channel, selected, fetch, bounds>>

Failing == drops + failures < MaxFaults /\ failures' = failures + 1 /\ UNCHANGED <<selects, drops>>

\* What was buffered is applied to the old snapshot; nothing is tried again.
RefreshFails ==
    /\ refresh # None
    /\ Failing
    /\ global' = AppliedGlobal(global, ToSet(buffer))
    /\ detail' = DetailAfter(detail, buffer)
    /\ refresh' = None
    /\ buffer' = <<>>
    /\ Opened
    /\ UNCHANGED <<server, channel, cursor, again, selected, fetch, missed>>

\* The selection effect requests the detail; the server reads the last id first.
Select(s) ==
    /\ selects < MaxSelects
    /\ s # selected
    /\ selects' = selects + 1
    /\ selected' = s
    /\ IF s = None
       THEN fetch' = None /\ detail' = None
       ELSE /\ fetch' = [session |-> s, step |-> "contents", last |-> LastId, contents |-> 0]
            /\ UNCHANGED detail
    /\ UNCHANGED <<server, wire, globalView, missed, drops, failures>>

Fetching(step) == fetch # None /\ fetch.step = step
FetchOnly == UNCHANGED <<server, wire, globalView, selected, missed>>

FetchContents ==
    /\ Fetching("contents")
    /\ fetch' = [fetch EXCEPT !.step = "done", !.contents = LastId]
    /\ UNCHANGED <<detail, bounds>> /\ FetchOnly

\* Events that came in the meantime were applied to the detail then shown.
Fetched ==
    /\ Fetching("done")
    /\ detail' =
        IF detail # None /\ detail.session = fetch.session /\ detail.last > fetch.last
        THEN detail ELSE Detail(fetch.session, fetch.contents, fetch.last)
    /\ fetch' = None
    /\ UNCHANGED bounds /\ FetchOnly

FetchFails ==
    /\ fetch # None
    /\ Failing
    /\ fetch' = None
    /\ UNCHANGED detail /\ FetchOnly

Page ==
    \/ Connect \/ SendMore \/ Resync \/ (\E eager \in BOOLEAN : Receive(eager)) \/ TimerFires
    \/ ReadContents \/ ReadLast \/ RequestDetail \/ ReadDetailContents
    \/ Refreshed \/ FetchContents \/ Fetched

(***************************************************************************)
(* The specification                                                       *)
(***************************************************************************)

\* The page is loaded: its first refresh is under way, the socket waits for it.
FeedInit ==
    /\ log = <<>> /\ pruned = 0
    /\ socket = "waiting" /\ sent = 0 /\ channel = <<>>
    /\ cursor = 0 /\ global = {} /\ buffer = <<>> /\ again = FALSE
    /\ refresh = [step |-> "contents", contents |-> 0, last |-> 0, for |-> None,
                  detailLast |-> 0, detailContents |-> 0]
    /\ selected = None /\ detail = None /\ fetch = None
    /\ missed = {}
    /\ selects = 0 /\ drops = 0 /\ failures = 0

FeedNext ==
    \/ \E subject \in Subjects : Commit(subject)
    \/ LoseSocket \/ Restart
    \/ Page
    \/ RefreshFails
    \/ (\E s \in Selectable \cup {None} : Select(s)) \/ UserRefresh \/ FetchFails

FeedSpec == FeedInit /\ [][FeedNext]_feedVars

\* Requests are answered, frames arrive, the page reconnects with a backoff.
FairSpec ==
    /\ FeedSpec
    /\ WF_feedVars(Connect) /\ WF_feedVars(SendMore) /\ WF_feedVars(Resync \/ \E eager \in BOOLEAN : Receive(eager))
    /\ WF_feedVars(TimerFires)
    /\ WF_feedVars(ReadContents \/ ReadLast \/ RequestDetail \/ ReadDetailContents
                \/ Refreshed)

(***************************************************************************)
(* Properties                                                              *)
(***************************************************************************)

\* What the page has passed with its cursor it shows, or has in hand, or is loading
\* anew - through lost sockets, replays, pruned cursors and refreshes that overlap
\* with events.  Only a change committed between the two reads of a snapshot, or a
\* complex one that React handled late, is missed (useLiveSnapshot.ts refresh and
\* onmessage, router.py snapshot and ui_websocket).
NothingElseMissed ==
    failures = 0 =>
        \A i \in 1..cursor :
            \/ log[i] \in Selectable
            \/ i \in global \cup missed \cup ToSet(buffer)
            \/ refresh # None
            \/ again

\* The global view never goes back: no refresh and no late event takes from the page a
\* change it has shown (events are buffered while a refresh runs).
GlobalForward == [][global \subseteq global']_feedVars

\* Every committed event reaches the page's cursor: it is sent or covered by a snapshot,
\* however often the socket is lost, and also when its cursor has been pruned.
\* (A refresh that fails is never repeated, so a resync that fails leaves it behind.)
EventsArrive == \A n \in Ids : (Len(log) >= n) ~> (cursor >= n \/ failures > 0)

(***************************************************************************)
(* What the documents say and the code does not keep: see the README       *)
(***************************************************************************)

\* "The UI applies simple events directly and resyncs on [...] an unknown/complex
\* event": when nothing is under way, the page shows its selected session up to date.  Not
\* so after a complex event that was handled while another refresh ran.
DetailCurrent ==
    /\ socket = "open" /\ channel = <<>> /\ cursor = LastId
    /\ refresh = None /\ ~again /\ fetch = None /\ selected # None
    => /\ detail # None /\ detail.session = selected
       /\ detail.seen = About({selected}, LastId)
       /\ detail.twice = {}

=============================================================================
