----------------------------- MODULE AgentQueue -----------------------------
(***************************************************************************)
(* The agent queue: AgentQueueManager with its single worker, the requests *)
(* that enqueue and cancel runs, the recovery of runs at startup, and the  *)
(* two providers, a Codex app-server process and the Claude Code CLI.      *)
(*                                                                         *)
(* The worker and the cancel handler run on the event loop: one of their   *)
(* steps goes from one await to the next.  Enqueueing runs on a thread     *)
(* pool, and its reads are steps of their own, since SQLite takes no lock  *)
(* before the first write.                                                 *)
(*                                                                         *)
(* A run stands for its id, the turn it begins and the external thread it  *)
(* creates.  A definition named X_Y is the mutant Y of X: no action uses   *)
(* it, and the checks show which property notices it in the place of X.    *)
(***************************************************************************)
EXTENDS Naturals, FiniteSets

CONSTANTS
    Sessions,        \* session ids
    ClaudeSessions,  \* those whose provider is Claude; the others use Codex
    Runs,            \* run ids the database may come to hold
    None,            \* NULL
    MaxQueued,       \* MAX_QUEUED_AGENT_RUNS_PER_SESSION
    MaxRequests,     \* bound on the enqueueing requests at work at once
    MaxStamps,       \* bound on the created_at times handed out
    MaxDeaths,       \* bound on the times the app-server exits by itself
    MaxRestarts      \* bound on the restarts of the daemon

ASSUME AgentQueueAssumption ==
    /\ ClaudeSessions \subseteq Sessions
    /\ IsFiniteSet(Runs)
    /\ None \notin Runs \cup Sessions
    /\ MaxQueued \in Nat \ {0}
    /\ MaxRequests \in Nat \ {0}
    /\ MaxStamps \in Nat
    /\ MaxDeaths \in Nat
    /\ MaxRestarts \in Nat

VARIABLES
    runs,      \* the agent_runs table
    threads,   \* the agent_threads table, one row per session
    checked,   \* per session, requests that have passed the limit
    stamped,   \* requests that have a queue_sequence and a created_at
    clock,     \* orders the created_at times
    worker,    \* where the worker is, its run and the thread it holds
    outcome,   \* terminal event on its way to the worker, or "none"
    turns,     \* per run, the thread the provider executes its turn on, or None
    cancels,   \* runs whose cancel awaits the provider
    codex,     \* the app-server process
    loaded,    \* threads the app-server process has created or resumed
    resumed,   \* _resumed_threads
    deaths,    \* times the app-server exited
    restarts   \* times the daemon restarted

vars == <<runs, threads, checked, stamped, clock, worker, outcome, turns,
          cancels, codex, loaded, resumed, deaths, restarts>>

requestVars == <<checked, stamped, clock>>
providerVars == <<codex, loaded, resumed, deaths>>

-----------------------------------------------------------------------------
(* The tables and the worker.                                              *)

InFlight == {"starting", "streaming"}
Active == {"queued"} \cup InFlight
Terminal == {"completed", "failed", "cancelled", "interrupted"}

RunRecord == [status : {"absent", "deleted"} \cup Active \cup Terminal,
              session : Sessions \cup {None},
              seq : Nat,        \* queue_sequence
              created : Nat,    \* created_at
              turn : BOOLEAN]   \* external_turn_id is set

ThreadRecord == [status : {"absent", "present", "deleted"},
                 external : Runs \cup {None}]   \* external_thread_id

Request == [session : Sessions, seq : Nat \ {0}, created : Nat \ {0}]

\* Between two awaits of _worker and _process_run: the provider's health, the
\* thread, the answer to turn/start, the events of the turn, an interruption.
Steps == {"idle", "checking", "opening", "begin", "streaming",
          "timed_out", "overflowed"}
Listening == {"begin", "streaming"}

Of(s) == {r \in Runs : runs[r].session = s /\ runs[r].status \in Active \cup Terminal}
ActiveOf(s) == {r \in Of(s) : runs[r].status \in Active}
IsCodex(r) == runs[r].session \notin ClaudeSessions
ThreadOf(r) == threads[runs[r].session]

Init ==
    /\ runs = [r \in Runs |-> [status |-> "absent", session |-> None, seq |-> 0,
                               created |-> 0, turn |-> FALSE]]
    /\ threads = [s \in Sessions |-> [status |-> "absent", external |-> None]]
    /\ checked = [s \in Sessions |-> 0]
    /\ stamped = {}
    /\ clock = 0
    /\ worker = [pc |-> "idle", run |-> None, thread |-> None]
    /\ outcome = "none"
    /\ turns = [r \in Runs |-> None]
    /\ cancels = {}
    /\ codex = "down"
    /\ loaded = {}
    /\ resumed = {}
    /\ deaths = 0
    /\ restarts = 0

-----------------------------------------------------------------------------
(* Requests: the first start of a session, actions and free prompts.       *)

QueuedRun(s, n, at) ==
    [status |-> "queued", session |-> s, seq |-> n, created |-> at, turn |-> FALSE]

\* Ids are random: which unused one a run gets does not matter.
Unused(r) == r = CHOOSE q \in Runs : runs[q].status = "absent"

\* ensure_initial_run for a session without a thread.  The thread is unique
\* per session, so its reads need no step of their own.
StartAgent(s, r) ==
    /\ threads[s].status = "absent"
    /\ runs[r].status = "absent" /\ Unused(r)
    /\ clock < MaxStamps
    /\ threads' = [threads EXCEPT ![s].status = "present"]
    /\ runs' = [runs EXCEPT ![r] = QueuedRun(s, 1, clock + 1)]
    /\ clock' = clock + 1
    /\ UNCHANGED <<checked, stamped, worker, outcome, turns, cancels,
                   providerVars, restarts>>

Requests(s) == checked[s] + Cardinality({q \in stamped : q.session = s})

HasRoom(s) == Cardinality(ActiveOf(s)) < MaxQueued

\* _prepare_run: the session has a thread and its queue has room.
EnqueueCheck(s) ==
    /\ threads[s].status = "present"
    /\ HasRoom(s)
    /\ Requests(s) < MaxRequests
    /\ checked' = [checked EXCEPT ![s] = @ + 1]
    /\ UNCHANGED <<runs, threads, stamped, clock, worker, outcome, turns, cancels,
                   providerVars, restarts>>

Highest(S) == CHOOSE n \in S : \A m \in S : m <= n
NextSequence(s) == Highest({0} \cup {runs[r].seq : r \in Of(s)}) + 1

\* _enqueue_prepared, up to its first write.
EnqueueStamp(s) ==
    /\ checked[s] > 0
    /\ clock < MaxStamps
    /\ checked' = [checked EXCEPT ![s] = @ - 1]
    /\ stamped' = stamped \cup
          {[session |-> s, seq |-> NextSequence(s), created |-> clock + 1]}
    /\ clock' = clock + 1
    /\ UNCHANGED <<runs, threads, worker, outcome, turns, cancels, providerVars,
                   restarts>>

\* The unique index uq_run_queue, and the foreign key to the session.
NumberTaken(q) == \E r \in Of(q.session) : runs[r].seq = q.seq

EnqueueInsert(q, r) ==
    /\ runs[r].status = "absent" /\ Unused(r)
    /\ threads[q.session].status = "present"
    /\ ~NumberTaken(q)
    /\ runs' = [runs EXCEPT ![r] = QueuedRun(q.session, q.seq, q.created)]
    /\ stamped' = stamped \ {q}
    /\ UNCHANGED <<threads, checked, clock, worker, outcome, turns, cancels,
                   providerVars, restarts>>

\* The insert fails, and the request with it.
EnqueueFails(q) ==
    /\ threads[q.session].status # "present" \/ NumberTaken(q)
    /\ stamped' = stamped \ {q}
    /\ UNCHANGED <<runs, threads, checked, clock, worker, outcome, turns, cancels,
                   providerVars, restarts>>

\* SessionService.delete on a stopped session, whose agent may be at work: the
\* thread, the runs and their messages go by cascade.
DeleteSession(s) ==
    /\ threads[s].status = "present"
    /\ threads' = [threads EXCEPT ![s] = [status |-> "deleted", external |-> None]]
    /\ runs' = [r \in Runs |-> IF r \in Of(s) THEN [runs[r] EXCEPT !.status = "deleted"]
                                             ELSE runs[r]]
    /\ UNCHANGED <<requestVars, worker, outcome, turns, cancels, providerVars,
                   restarts>>

-----------------------------------------------------------------------------
(* The worker.                                                             *)

\* _worker, its finally clause.
Released == [pc |-> "idle", run |-> None, thread |-> None]

\* _fail_run: an exception, or the total timeout, ends a run that goes on.
FailRun_Streaming(r) ==
    IF runs[r].status = "streaming"
    THEN [runs EXCEPT ![r].status = "failed"] ELSE runs
FailRun(r) ==
    IF runs[r].status \notin {"absent", "deleted", "completed", "cancelled", "failed"}
    THEN [runs EXCEPT ![r].status = "failed"] ELSE runs

Queue == {r \in Runs : runs[r].status = "queued"}
Before(q, r) ==
    \/ runs[q].created < runs[r].created
    \/ runs[q].created = runs[r].created /\ runs[q].seq < runs[r].seq

\* _next_queued_run.
NextQueued == {r \in Queue : \A q \in Queue \ {r} : ~Before(q, r)}

\* _worker takes a run, and _process_run commits its first transaction.
Take(r) ==
    /\ worker.pc = "idle"
    /\ r \in NextQueued
    /\ runs' = [runs EXCEPT ![r].status = "starting"]
    /\ worker' = [pc |-> "checking", run |-> r, thread |-> ThreadOf(r).external]
    /\ UNCHANGED <<threads, requestVars, outcome, turns, cancels, providerVars,
                   restarts>>

\* _ensure_provider_ready.  Only here does a restarted app-server empty the
\* cache of resumed threads.
StartCodex(r) ==
    /\ worker.pc = "checking" /\ worker.run = r
    /\ IsCodex(r)
    /\ codex = "down"
    /\ codex' = "ready"
    /\ loaded' = {}
    /\ resumed' = {t \in resumed : ~IsCodex(t)}
    /\ UNCHANGED <<runs, threads, requestVars, worker, outcome, turns, cancels,
                   deaths, restarts>>

ProviderReady(r) ==
    /\ worker.pc = "checking" /\ worker.run = r
    /\ IsCodex(r) => codex = "ready"
    /\ worker' = [worker EXCEPT !.pc = "opening"]
    /\ UNCHANGED <<runs, threads, requestVars, outcome, turns, cancels,
                   providerVars, restarts>>

NeedsThread(r) == worker.thread = None

\* A Codex thread is recorded before its first turn, a Claude one after it.
RecordedAtOnce_AfterFirstTurn(r) == FALSE
RecordedAtOnce(r) == IsCodex(r)

CreateThread(r) ==
    /\ worker.pc = "opening" /\ worker.run = r
    /\ NeedsThread(r)
    /\ IsCodex(r) => codex = "ready" /\ ThreadOf(r).status = "present"
    /\ threads' = IF RecordedAtOnce(r)
                  THEN [threads EXCEPT ![runs[r].session].external = r]
                  ELSE threads
    /\ worker' = [worker EXCEPT !.thread = r]
    /\ loaded' = IF IsCodex(r) THEN loaded \cup {r} ELSE loaded
    /\ resumed' = resumed \cup {r}
    /\ UNCHANGED <<runs, requestVars, outcome, turns, cancels, codex, deaths,
                   restarts>>

\* A thread this daemon has not resumed yet.  The assertion that its row exists
\* fails on a deleted session.
ResumeThread(r) ==
    /\ worker.pc = "opening" /\ worker.run = r
    /\ ~NeedsThread(r)
    /\ worker.thread \notin resumed
    /\ IsCodex(r) => codex = "ready"
    /\ loaded' = IF IsCodex(r) THEN loaded \cup {worker.thread} ELSE loaded
    /\ resumed' = resumed \cup {worker.thread}
    /\ worker' = IF ThreadOf(r).status = "present" THEN worker ELSE Released
    /\ UNCHANGED <<runs, threads, requestVars, outcome, turns, cancels, codex,
                   deaths, restarts>>

\* run_turn: turn/start goes out to the app-server, or the CLI is spawned.
BeginTurn(r) ==
    /\ worker.pc = "opening" /\ worker.run = r
    /\ ~NeedsThread(r)
    /\ worker.thread \in resumed
    /\ IsCodex(r) => codex = "ready" /\ worker.thread \in loaded
    /\ turns' = IF IsCodex(r) THEN [turns EXCEPT ![r] = worker.thread] ELSE turns
    /\ worker' = [worker EXCEPT !.pc = "begin"]
    /\ UNCHANGED <<runs, threads, requestVars, outcome, cancels, providerVars,
                   restarts>>

\* The answer to turn/start has come; the CLI answers by itself.
Answered(r) == turns[r] # None \/ outcome # "none" \/ (worker.pc = "begin" /\ ~IsCodex(r))

\* The started event.  The CLI gets its prompt only now.
Started(r) ==
    /\ worker.pc = "begin" /\ worker.run = r
    /\ Answered(r)
    /\ runs[r].status \in InFlight
    /\ runs' = [runs EXCEPT ![r].status = "streaming", ![r].turn = TRUE]
    /\ turns' = IF IsCodex(r) THEN turns ELSE [turns EXCEPT ![r] = worker.thread]
    /\ worker' = [worker EXCEPT !.pc = "streaming"]
    /\ UNCHANGED <<threads, requestVars, outcome, cancels, providerVars, restarts>>

\* An event of a turn whose run is cancelled or gone: _process_run returns and
\* leaves the turn to the provider.
Abandon(r) ==
    /\ worker.pc \in Listening /\ worker.run = r
    /\ Answered(r)
    /\ runs[r].status \notin InFlight
    /\ worker' = Released
    /\ outcome' = "none"
    /\ UNCHANGED <<runs, threads, requestVars, turns, cancels, providerVars,
                   restarts>>

\* The completed event.
Completed(r) ==
    /\ worker.pc = "streaming" /\ worker.run = r
    /\ runs[r].status \in InFlight
    /\ outcome = "completed"
    /\ runs' = [runs EXCEPT ![r].status = "completed"]
    /\ threads' = IF worker.thread = r
                  THEN [threads EXCEPT ![runs[r].session].external = r]
                  ELSE threads
    /\ worker' = Released
    /\ outcome' = "none"
    /\ UNCHANGED <<requestVars, turns, cancels, providerVars, restarts>>

\* The failed and interrupted events.
EndsBadly(r) ==
    /\ worker.pc = "streaming" /\ worker.run = r
    /\ runs[r].status \in InFlight
    /\ outcome \in {"failed", "interrupted"}
    /\ runs' = [runs EXCEPT ![r].status = outcome]
    /\ worker' = Released
    /\ outcome' = "none"
    /\ UNCHANGED <<threads, requestVars, turns, cancels, providerVars, restarts>>

\* A delta beyond MAX_AGENT_OUTPUT_CHARACTERS; other deltas only add text.
Overflow(r) ==
    /\ worker.pc = "streaming" /\ worker.run = r
    /\ Answered(r)
    /\ runs[r].status \in InFlight
    /\ runs' = [runs EXCEPT ![r].status = "failed"]
    /\ worker' = [worker EXCEPT !.pc = "overflowed"]
    /\ outcome' = "none"
    /\ UNCHANGED <<threads, requestVars, turns, cancels, providerVars, restarts>>

\* An exception out of _process_run: no provider, an unknown thread, no answer.
StepFails(r) ==
    /\ worker.run = r
    /\ \/ worker.pc \in {"checking", "opening"}
       \/ worker.pc = "begin" /\ turns[r] = None /\ outcome = "none"
    /\ runs' = FailRun(r)
    /\ worker' = Released
    /\ UNCHANGED <<threads, requestVars, outcome, turns, cancels, providerVars,
                   restarts>>

TimedSteps_Streaming == {"streaming"}
TimedSteps == {"checking", "opening", "begin", "streaming"}

\* Are the ids that cancel_turn needs in the database?
Interruptible(r) == runs[r].turn /\ ThreadOf(r).external # None

\* The total timeout.  The CLI is stopped by the cancellation itself; a turn of
\* the app-server is interrupted if its ids are known.
TimeOut(r) ==
    /\ worker.pc \in TimedSteps /\ worker.run = r
    /\ turns' = IF IsCodex(r) THEN turns ELSE [turns EXCEPT ![r] = None]
    /\ outcome' = "none"
    /\ IF runs[r].status # "deleted" /\ Interruptible(r)
       THEN /\ worker' = [worker EXCEPT !.pc = "timed_out"]
            /\ UNCHANGED runs
       ELSE /\ worker' = Released
            /\ runs' = FailRun(r)
    /\ UNCHANGED <<threads, requestVars, cancels, providerVars, restarts>>

\* cancel_turn returns to the worker, which ignores its errors; an app-server
\* that fails it goes on with the turn.
InterruptReturns(r) ==
    /\ worker.pc \in {"timed_out", "overflowed"} /\ worker.run = r
    /\ \E left \in {None} \cup (IF IsCodex(r) THEN {turns[r]} ELSE {}) :
          turns' = [turns EXCEPT ![r] = left]
    /\ runs' = IF worker.pc = "timed_out" THEN FailRun(r) ELSE runs
    /\ worker' = Released
    /\ UNCHANGED <<threads, requestVars, outcome, cancels, providerVars, restarts>>

-----------------------------------------------------------------------------
(* cancel.                                                                 *)

Cancelled(r) == [runs EXCEPT ![r].status = "cancelled"]

\* A queued run is cancelled at once, and so is one in flight whose turn the
\* provider cannot be asked to interrupt.
CancelAtOnce(r) ==
    /\ \/ runs[r].status = "queued"
       \/ runs[r].status \in InFlight /\ ~Interruptible(r)
    /\ runs' = Cancelled(r)
    /\ UNCHANGED <<threads, requestVars, worker, outcome, turns, cancels,
                   providerVars, restarts>>

CancelTurn(r) ==
    /\ runs[r].status \in InFlight
    /\ Interruptible(r)
    /\ cancels' = cancels \cup {r}
    /\ UNCHANGED <<runs, threads, requestVars, worker, outcome, turns,
                   providerVars, restarts>>

\* The provider ends the turn: the app-server says so, the CLI just exits.
InterruptLands(r) ==
    /\ r \in cancels
    /\ turns[r] # None
    /\ turns' = [turns EXCEPT ![r] = None]
    /\ outcome' = IF worker.run = r /\ worker.pc \in Listening /\ outcome = "none"
                  THEN IF IsCodex(r) THEN "interrupted" ELSE "failed"
                  ELSE outcome
    /\ UNCHANGED <<runs, threads, requestVars, worker, cancels, providerVars,
                   restarts>>

\* cancel_turn returns: cancel looks at the run again.
AfterCancel(r) == IF runs[r].status \in InFlight THEN Cancelled(r) ELSE runs

CancelReturns(r) ==
    /\ r \in cancels
    /\ turns[r] = None
    /\ IsCodex(r) => codex = "ready"
    /\ runs' = AfterCancel(r)
    /\ cancels' = cancels \ {r}
    /\ UNCHANGED <<threads, requestVars, worker, outcome, turns, providerVars,
                   restarts>>

\* cancel_turn raises: the request fails and the run goes on.
CancelFails(r) ==
    /\ r \in cancels
    /\ cancels' = cancels \ {r}
    /\ UNCHANGED <<runs, threads, requestVars, worker, outcome, turns,
                   providerVars, restarts>>

-----------------------------------------------------------------------------
(* The providers and the daemon.                                           *)

\* A turn ends by itself, well or badly, whoever still listens.
TurnEnds(r) ==
    /\ turns[r] # None
    /\ turns' = [turns EXCEPT ![r] = None]
    /\ IF worker.run = r /\ worker.pc \in Listening /\ outcome = "none"
       THEN outcome' \in {"completed", "failed"}
       ELSE UNCHANGED outcome
    /\ UNCHANGED <<runs, threads, requestVars, worker, cancels, providerVars,
                   restarts>>

SilentOutcome_Interrupted == "interrupted"
SilentOutcome == "failed"

\* The inactivity timeout of run_turn, or an error the app-server reports.  A
\* turn of the app-server may go on, the CLI is stopped.
InactivityTimeout(r) ==
    /\ worker.pc = "streaming" /\ worker.run = r
    /\ outcome = "none"
    /\ turns[r] # None
    /\ outcome' = SilentOutcome
    /\ \E left \in {None} \cup (IF IsCodex(r) THEN {turns[r]} ELSE {}) :
          turns' = [turns EXCEPT ![r] = left]
    /\ UNCHANGED <<runs, threads, requestVars, worker, cancels, providerVars,
                   restarts>>

\* The app-server process exits and its turns with it: transport/closed goes to
\* a worker that streams, an error to one that awaits an answer.
CodexDies ==
    /\ codex = "ready"
    /\ deaths < MaxDeaths
    /\ codex' = "down"
    /\ deaths' = deaths + 1
    /\ turns' = [r \in Runs |-> IF IsCodex(r) THEN None ELSE turns[r]]
    /\ IF worker.run # None /\ IsCodex(worker.run) /\ outcome = "none"
       THEN \/ worker.pc \in Listening /\ outcome' = "failed"
            \/ worker.pc # "streaming" /\ UNCHANGED outcome
       ELSE UNCHANGED outcome
    /\ UNCHANGED <<runs, threads, requestVars, worker, cancels, loaded, resumed,
                   restarts>>

\* AgentProviderRegistry.health, for a page or the status of the runtime,
\* starts a process that is down, without a word to the queue.
HealthStartsCodex ==
    /\ codex = "down"
    /\ codex' = "ready"
    /\ loaded' = {}
    /\ UNCHANGED <<runs, threads, requestVars, worker, outcome, turns, cancels,
                   resumed, deaths, restarts>>

\* The daemon stops, by a crash or a shutdown, and starts again: providers end
\* with it, tasks and requests are lost, recover_after_restart ends the runs.
Restart ==
    /\ restarts < MaxRestarts
    /\ restarts' = restarts + 1
    /\ runs' = [r \in Runs |-> IF runs[r].status \in Active
                              THEN [runs[r] EXCEPT !.status = "interrupted"]
                              ELSE runs[r]]
    /\ checked' = [s \in Sessions |-> 0]
    /\ stamped' = {}
    /\ worker' = [pc |-> "idle", run |-> None, thread |-> None]
    /\ outcome' = "none"
    /\ turns' = [r \in Runs |-> None]
    /\ cancels' = {}
    /\ codex' = "down"
    /\ loaded' = {}
    /\ resumed' = {}
    /\ UNCHANGED <<threads, clock, deaths>>

-----------------------------------------------------------------------------
WorkerStep(r) ==
    \/ Take(r)
    \/ StartCodex(r)
    \/ ProviderReady(r)
    \/ CreateThread(r)
    \/ ResumeThread(r)
    \/ BeginTurn(r)
    \/ Started(r)
    \/ Abandon(r)
    \/ Completed(r)
    \/ EndsBadly(r)
    \/ Overflow(r)
    \/ StepFails(r)
    \/ TimeOut(r)
    \/ InterruptReturns(r)

CancelStep(r) ==
    \/ CancelAtOnce(r)
    \/ CancelTurn(r)
    \/ InterruptLands(r)
    \/ CancelReturns(r)
    \/ CancelFails(r)

ProviderStep ==
    \/ \E r \in Runs : TurnEnds(r) \/ InactivityTimeout(r)
    \/ CodexDies
    \/ HealthStartsCodex

RequestStep(s) ==
    \/ EnqueueCheck(s)
    \/ EnqueueStamp(s)
    \/ DeleteSession(s)
    \/ \E r \in Runs : StartAgent(s, r)

Next ==
    \/ \E s \in Sessions : RequestStep(s)
    \/ \E q \in stamped : EnqueueFails(q) \/ \E r \in Runs : EnqueueInsert(q, r)
    \/ \E r \in Runs : WorkerStep(r) \/ CancelStep(r)
    \/ ProviderStep
    \/ Restart

Spec == Init /\ [][Next]_vars

\* The event loop polls the queue, asyncio.timeout fires, and a cancel_turn
\* issued by the worker returns within its own timeout.  Providers owe nothing.
Fairness ==
    /\ WF_vars(\E r \in Runs : Take(r))
    /\ WF_vars(\E r \in Runs : TimeOut(r))
    /\ WF_vars(\E r \in Runs : InterruptReturns(r))

FairSpec == Spec /\ Fairness

-----------------------------------------------------------------------------
(* Properties.                                                             *)

TypeOK ==
    /\ runs \in [Runs -> RunRecord]
    /\ threads \in [Sessions -> ThreadRecord]
    /\ checked \in [Sessions -> Nat]
    /\ stamped \subseteq Request
    /\ clock \in Nat
    /\ worker \in [pc : Steps, run : Runs \cup {None}, thread : Runs \cup {None}]
    /\ worker.pc = "idle" <=> worker.run = None
    /\ outcome \in {"none", "completed", "failed", "interrupted"}
    /\ turns \in [Runs -> Runs \cup {None}]
    /\ cancels \subseteq Runs
    /\ codex \in {"down", "ready"}
    /\ loaded \subseteq Runs
    /\ resumed \subseteq Runs
    /\ deaths \in Nat
    /\ restarts \in Nat

\* A run in flight is the one the worker is busy with: whatever fails, times
\* out, is cancelled or deleted meanwhile, none is left behind in flight.
InFlightAtWorker ==
    \A r \in Runs : runs[r].status \in InFlight => worker.run = r

\* The queue of a session never holds more than its limit and the requests
\* that were checked together, less one: the limit is read without a lock.
QueueBounded ==
    \A s \in Sessions : Cardinality(ActiveOf(s)) <= MaxQueued + MaxRequests - 1

\* Queue numbers are unique in a session, and agree with the creation times the
\* worker goes by.
QueueNumbered ==
    \A s \in Sessions : \A q, r \in Of(s) :
        /\ q # r => runs[q].seq # runs[r].seq
        /\ runs[q].seq < runs[r].seq => runs[q].created < runs[r].created

\* A turn executes only for a run in flight, or for one that was cancelled,
\* failed or deleted while its turn could not be interrupted: never for one
\* that is queued, completed or reported interrupted.
TurnsAccounted ==
    \A r \in Runs : turns[r] # None =>
        runs[r].status \in InFlight \cup {"cancelled", "failed", "deleted"}

\* Every turn of a Codex session executes on the session's one recorded thread.
OneThreadPerSession ==
    \A s \in Sessions \ ClaudeSessions : \A r \in Of(s) :
        turns[r] \in {None, threads[s].external}

\* A run that has ended stays as it ended, whatever arrives late, until its
\* session is deleted.
EndedRunsKept ==
    [][\A r \in Runs : runs[r].status \in Terminal =>
          runs'[r].status \in {runs[r].status, "deleted"}]_vars

\* The runs of a session start in the order of their queue numbers.
SessionFifo ==
    [][\A s \in Sessions : \A q, r \in Of(s) :
          runs[r].status = "queued" /\ runs'[r].status = "starting" =>
              ~(runs[q].status = "queued" /\ runs[q].seq < runs[r].seq)]_vars

\* A recorded external thread is never replaced by another.
ThreadKept ==
    [][\A s \in Sessions : threads[s].external # None =>
          threads'[s].external = threads[s].external
          \/ threads'[s].status = "deleted"]_vars

\* A queued run leaves the queue and ends, even when the provider hangs.
RunsSettle ==
    \A r \in Runs : (runs[r].status \in Active) ~> (runs[r].status \notin Active)

-----------------------------------------------------------------------------
(* What the documents and tests say and the code does not keep: see the    *)
(* README.                                                                 *)

\* The requests of a session execute one after the other: the provider never
\* executes two turns of one session.  Not so when a run is cancelled, or times
\* out, before the turn has its id.
TurnsSerial ==
    \A s \in Sessions : \A q, r \in Of(s) :
        turns[q] # None /\ turns[r] # None => q = r

\* A run that has found the app-server ready resumes its thread before the turn,
\* unless this very process has created or resumed it.  Not so after a health
\* request has restarted the app-server.
ThreadResumedFirst ==
    [][\A r \in Runs :
          IsCodex(r) /\ ProviderReady(r) /\ worker.thread \in resumed =>
              worker.thread \in loaded]_vars
=============================================================================
