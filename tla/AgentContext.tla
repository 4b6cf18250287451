----------------------------- MODULE AgentContext -----------------------------
(***************************************************************************)
(* The transcript an agent request takes with it: what                     *)
(* agents/context_repository.py reads and agents/prompts.py freezes when a *)
(* request is queued (agents/queue.py), while captions of the session go   *)
(* on arriving, some late, and earlier requests end and move the boundary  *)
(* of "since previous turn".                                               *)
(*                                                                         *)
(* One session.  Time is in minutes; an utterance is a number, its text a  *)
(* size; the queue is first in, first out (module AgentQueue).             *)
(* X_Y is the mutant Y of definition X.                                    *)
(***************************************************************************)
EXTENDS Naturals, Sequences, FiniteSets, SequencesExt, Excerpt

CONSTANTS
    MaxUtterances,  \* bound on utterances
    MaxTime,        \* bound on the minutes that pass
    MaxRevisions,   \* bound on revisions, of all utterances
    MaxRuns,        \* bound on requests
    Sizes,          \* the sizes of a rendered utterance
    Actions,        \* what the actions ask for
    FreePrompt,     \* what the settings say of a free prompt
    MaxQueued       \* MAX_QUEUED_AGENT_RUNS_PER_SESSION

ASSUME ContextAssumption ==
    /\ {MaxUtterances, MaxTime, MaxRevisions, MaxRuns, MaxQueued} \subseteq Nat
    /\ Sizes \subseteq Nat
    /\ Actions \cup {FreePrompt} \subseteq
         [strategy : {"since_previous_turn", "last_minutes", "last_utterances", "all"},
          value : Nat \ {0},    \* minutes, or utterances
          cap : Nat]            \* hard_character_cap

Utterances == 1..MaxUtterances
Nothing == 0        \* no utterance

VARIABLES
    now,        \* the present minute
    arrived,    \* the number of utterances there have been
    shown,      \* the utterances recorded
    first, last,\* first_observed_at, last_observed_at
    final, size, revision,
    late,       \* history: the latest caption of an utterance was observed before it arrived
    runs,       \* the requests queued, in their order
    requested,  \* the number of requests there have been
    boundary,   \* last_completed_boundary of the thread
    origin      \* history: the captions there were when the request that has set it was queued

captions == <<arrived, shown, first, last, final, size, revision, late>>
thread == <<runs, requested, boundary, origin>>
contextVars == <<now, captions, thread>>

(***************************************************************************)
(* The selection and its freezing                                          *)
(***************************************************************************)

\* The order of a transcript: first_observed_at, then the order of arrival.
Inserted(list, n) ==
    LET after == {u \in Utterances : first[u] > first[n]}
    IN  Kept(list, Utterances \ after) \o <<n>> \o Kept(list, after)
Order ==
    LET put[n \in 0..MaxUtterances] == IF n = 0 THEN <<>> ELSE Inserted(put[n - 1], n)
    IN  put[MaxUtterances]
Ordered(S) == Kept(Order, S)

Since_NoOverlap(S, t, value) == {u \in S : last[u] > t}
Since(S, t, value) == {u \in S : last[u] + value >= t}

\* The condition of the query.
Eligible_Partials(ask) ==
    CASE ask.strategy = "last_minutes" /\ shown # {} ->
            LET ordered == Ordered(shown) IN Since(shown, last[ordered[Len(ordered)]], ask.value)
      [] ask.strategy = "since_previous_turn" /\ boundary \in shown ->
            Since(shown, last[boundary], ask.value)
      [] OTHER -> shown
Eligible(ask) ==
    IF ask.strategy = "last_utterances" THEN {u \in shown : final[u]}
    ELSE CASE ask.strategy = "last_minutes" /\ shown # {} ->
                LET ordered == Ordered(shown)
                IN  Since(shown, last[ordered[Len(ordered)]], ask.value)
           [] ask.strategy = "since_previous_turn" /\ boundary \in shown ->
                Since(shown, last[boundary], ask.value)
           [] OTHER -> shown

\* The size of the n newest of a list, each with its newline, and joined.
Rendered(s, n) ==
    LET sum[k \in 0..Len(s)] == IF k = 0 THEN 0 ELSE sum[k - 1] + size[s[Len(s) - k + 1]] + 1
    IN  sum[n]
Joined(s, n) == IF n = 0 THEN 0 ELSE Rendered(s, n) - 1

\* select: backwards from the newest, until the cap is exceeded or there are enough.
Limit(ask) == IF ask.strategy = "last_utterances" THEN {ask.value + 1} ELSE {}
Selected(all, ask) ==
    LET over == {n \in 1..Len(all) : Rendered(all, n) > ask.cap}
        ends == over \cup {Len(all)} \cup Limit(ask)
        n == CHOOSE x \in ends : \A y \in ends : x <= y
    IN  [utterances |-> Newest(all, n), truncated |-> n \in over \cup Limit(ask)]
Selection(ask) == Selected(Ordered(Eligible(ask)), ask)

\* freeze_context: the strategy once more,
Again(ask, s) ==
    CASE ask.strategy = "last_utterances" ->
            LET finals == Kept(s, {u \in shown : final[u]})
            IN  Newest(finals, IF Len(finals) < ask.value THEN Len(finals) ELSE ask.value)
      [] ask.strategy = "last_minutes" /\ s # <<>> ->
            Kept(s, {u \in shown : last[u] + ask.value >= last[s[Len(s)]]})
      [] ask.strategy = "since_previous_turn" /\ Contains(s, boundary) ->
            Kept(s, {u \in shown : last[u] + ask.value >= last[boundary]})
      [] OTHER -> s

\* and the oldest lines dropped until the rest fits.
Trimmed(candidates, truncated, ask) ==
    LET fits == {n \in 0..Len(candidates) : Joined(candidates, n) <= ask.cap}
        n == CHOOSE x \in fits : \A y \in fits : x >= y
    IN  [utterances |-> Newest(candidates, n), truncated |-> truncated \/ n < Len(candidates)]
Frozen(ask) ==
    LET selection == Selection(ask)
    IN  Trimmed(Again(ask, selection.utterances), selection.truncated, ask)

(***************************************************************************)
(* The transcript                                                          *)
(***************************************************************************)

\* What follows the last request does not matter to it.
Observed == requested < MaxRuns

\* process_caption of a new utterance, observed at t.
NewCaption(t, s, isFinal) ==
    LET u == arrived + 1 IN
    /\ Observed /\ u \in Utterances
    /\ t \in 0..now
    /\ arrived' = u /\ shown' = shown \cup {u}
    /\ first' = [first EXCEPT ![u] = t] /\ last' = [last EXCEPT ![u] = t]
    /\ size' = [size EXCEPT ![u] = s] /\ final' = [final EXCEPT ![u] = isFinal]
    /\ late' = IF t < now THEN late \cup {u} ELSE late
    /\ UNCHANGED <<now, revision, thread>>

\* process_caption of a later revision.
Revisions == FoldFunction(+, 0, revision)
RevisedCaption(u, t, s, isFinal) ==
    /\ Observed /\ u \in shown /\ ~final[u]
    /\ Revisions < MaxRevisions
    /\ t \in last[u]..now
    /\ revision' = [revision EXCEPT ![u] = @ + 1]
    /\ last' = [last EXCEPT ![u] = t]
    /\ size' = [size EXCEPT ![u] = s] /\ final' = [final EXCEPT ![u] = isFinal]
    /\ late' = IF t < now THEN late \cup {u} ELSE late \ {u}
    /\ UNCHANGED <<now, arrived, shown, first, thread>>

\* cleanup_partials, recover: what is not final when the session stops is removed.
PartialsRemoved ==
    /\ Observed
    /\ shown' = {u \in shown : final[u]}
    /\ UNCHANGED <<now, arrived, first, last, final, size, revision, late, thread>>

Tick == now < MaxTime /\ Observed /\ now' = now + 1 /\ UNCHANGED <<captions, thread>>

(***************************************************************************)
(* The requests                                                            *)
(***************************************************************************)

\* The captions there are, as they are.
Seen == {<<u, revision[u]>> : u \in shown}

\* _prepare_run: the queue has room.
HasRoom == requested < MaxRuns /\ Len(runs) < MaxQueued

\* _enqueue_prepared: the context is frozen.
Enqueue(ask) ==
    /\ requested' = requested + 1
    /\ LET context == Frozen(ask) IN
        runs' = Append(runs, [ask |-> ask, seen |-> Seen,
                              context |-> context.utterances, truncated |-> context.truncated])
    /\ UNCHANGED <<now, captions, boundary, origin>>

EnqueueAction(button) == HasRoom /\ Enqueue(button)
EnqueuePrompt == HasRoom /\ Enqueue(FreePrompt)

\* The next run completes: the boundary becomes the end of its context, if it has one.
Complete ==
    /\ Observed /\ runs # <<>>
    /\ runs' = Tail(runs)
    /\ LET context == Head(runs).context IN
        IF context = <<>> THEN UNCHANGED <<boundary, origin>>
        ELSE boundary' = context[Len(context)] /\ origin' = Head(runs).seen
    /\ UNCHANGED <<now, captions, requested>>

\* The next run fails or is cancelled.
Fail ==
    /\ Observed /\ runs # <<>>
    /\ runs' = Tail(runs)
    /\ UNCHANGED <<now, captions, requested, boundary, origin>>

(***************************************************************************)
(* The specification                                                       *)
(***************************************************************************)

ContextInit ==
    /\ now = 0 /\ arrived = 0 /\ shown = {} /\ late = {}
    /\ first = [u \in Utterances |-> 0] /\ last = first /\ size = first /\ revision = first
    /\ final = [u \in Utterances |-> FALSE]
    /\ runs = <<>> /\ requested = 0 /\ boundary = Nothing
    /\ origin = {}

ContextNext ==
    \/ Tick
    \/ PartialsRemoved
    \/ \E t \in 0..MaxTime, s \in Sizes, isFinal \in BOOLEAN :
        \/ NewCaption(t, s, isFinal)
        \/ \E u \in Utterances : RevisedCaption(u, t, s, isFinal)
    \/ \E button \in Actions : EnqueueAction(button)
    \/ EnqueuePrompt
    \/ Complete
    \/ Fail

ContextSpec == ContextInit /\ [][ContextNext]_contextVars

(***************************************************************************)
(* Properties                                                              *)
(***************************************************************************)

\* What the documentation says of each strategy, without the two passes of the code.
Meant(ask) ==
    LET ordered == Ordered(shown)
        finals == Kept(ordered, {u \in shown : final[u]})
    IN  CASE ask.strategy = "last_utterances" ->
                Newest(finals, IF Len(finals) < ask.value THEN Len(finals) ELSE ask.value)
          [] ask.strategy = "last_minutes" ->
                Kept(ordered, {u \in shown : last[u] + ask.value >= last[ordered[Len(ordered)]]})
          [] ask.strategy = "since_previous_turn" /\ boundary \in shown ->
                Kept(ordered, {u \in shown : last[u] + ask.value >= last[boundary]})
          [] OTHER -> ordered

\* The newest part of a list that fits the cap, and a mark when something is left out.
NewestThatFits(run, list) ==
    LET n == Len(run.context)
    IN  /\ n <= Len(list) /\ run.context = Newest(list, n)
        /\ Joined(run.context, n) <= run.ask.cap
        /\ n < Len(list) => run.truncated /\ Joined(list, n + 1) > run.ask.cap

\* A request is queued with the newest part of what its strategy means that fits the cap,
\* and is marked when something was left out (AgentContextRepository.select followed by
\* freeze_context, which apply strategy and cap twice, in opposite directions).  (The
\* quantifier is there for TLC, which evaluates a bound value once.)
FrozenAsMeant ==
    [][requested' > requested =>
        LET run == runs'[Len(runs')]
        IN  \A meant \in {Meant(run.ask)} : NewestThatFits(run, meant)]_contextVars

\* Requests since the previous turn pass nothing over: a caption before the overlap was
\* there when the request that set the boundary was queued.  Not so when its caption
\* arrived late, or when the utterance of the boundary was revised after that request
\* (last_completed_boundary).
NothingPassedOver ==
    [][(requested' > requested /\ runs'[Len(runs')].ask.strategy = "since_previous_turn") =>
        \A u \in shown \ Eligible(runs'[Len(runs')].ask) :
            \/ <<u, revision[u]>> \in origin
            \/ u \in late
            \/ <<boundary, revision[boundary]>> \notin origin]_contextVars

=============================================================================
