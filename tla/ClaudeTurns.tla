----------------------------- MODULE ClaudeTurns ------------------------------
(***************************************************************************)
(* The turns of the Claude Code CLI: ClaudeCodeProvider, which spawns one  *)
(* process per turn, and what the queue worker, cancel requests, the       *)
(* timeouts, the health checks and a shutdown of the daemon do to these    *)
(* processes (agents/claude_cli.py, queue.py, registry.py).                *)
(*                                                                         *)
(* One session; a run stands for its turn, its process and the thread it   *)
(* creates.  One step is what the event loop does from one await that      *)
(* suspends to the next.  Module AgentQueue has the queue itself.          *)
(* X_Y is the mutant Y of definition X.                                    *)
(***************************************************************************)
EXTENDS Naturals

CONSTANTS
    MaxRuns,     \* bound on the runs of the session
    MaxCrashes   \* bound on the crashes of the daemon

ASSUME ClaudeAssumption == MaxRuns \in Nat \ {0} /\ MaxCrashes \in Nat

Runs == 1..MaxRuns
None == 0

VARIABLES
    daemon,        \* "up", "stopping" or "off"
    crashes,
    status,        \* of each run
    turnId,        \* external_turn_id of the run is set
    external,      \* external_thread_id of the session's thread
    worker,        \* where the worker is, its run, the thread, whether it has timed out
    health,        \* _health
    probing,       \* a health request is in start()
    newThreads,    \* _new_threads
    resumed,       \* _resumed_threads
    active,        \* _active
    process,       \* the process of each run
    stops,         \* how far each _stop_process of a process has come
    conversation,  \* what the CLI has stored under a thread
    left           \* history: why nobody looks after the process any more

tables == <<status, turnId, external>>
provider == <<health, probing, newThreads, resumed>>
processes == <<active, process, stops, conversation, left>>
vars == <<daemon, crashes, tables, worker, provider, processes>>

InFlight == {"starting", "streaming"}

\* Who calls _stop_process: the worker (run_turn, or _process_run through
\* cancel_turn), a cancel request, ClaudeCodeProvider.stop.
Stoppers == {"worker", "cancel", "shutdown"}

\* Steps of the worker from spawning on.  exiting waits for a process that has given its
\* result, eof for one that closed its output; stopping, overflowed and cancelling stop
\* it for silence or bad output, for too much output, and for the cancellation of the
\* task; closing is the finally clause after an exception.
InTurn == {"spawning", "reading", "exiting", "eof", "stopping", "overflowed",
           "cancelling", "closing"}
Stopping == {"exiting", "stopping", "overflowed", "cancelling"}

Idle == [pc |-> IF daemon = "up" THEN "idle" ELSE "gone",
         run |-> None, thread |-> None, timed |-> FALSE]

\* What becomes of run r in the tables: nothing, if it is cancelled or gone.
Ended(r, result) == IF status[r] \in InFlight THEN [status EXCEPT ![r] = result] ELSE status

(***************************************************************************)
(* Health                                                                  *)
(***************************************************************************)

\* AgentProviderRegistry.health calls start: _start_locks allows one at a time.
HealthProbes ==
    /\ daemon = "up" /\ ~probing /\ health \in {"stopped", "failed"}
    /\ probing' = TRUE /\ health' = "starting"
    /\ UNCHANGED <<daemon, crashes, tables, worker, newThreads, resumed, processes>>

HealthProbed ==
    /\ probing
    /\ probing' = FALSE /\ health' \in {"ready", "failed"}
    /\ UNCHANGED <<daemon, crashes, tables, worker, newThreads, resumed, processes>>

(***************************************************************************)
(* The worker, up to the turn                                              *)
(***************************************************************************)

Enqueue(r) ==
    /\ daemon = "up" /\ status[r] = "absent"
    /\ \A q \in Runs : q < r => status[q] \in {"completed", "failed", "cancelled", "interrupted"}
                                              \cup InFlight \cup {"queued"}
    /\ status' = [status EXCEPT ![r] = "queued"]
    /\ UNCHANGED <<daemon, crashes, turnId, external, worker, provider, processes>>

Take(r) ==
    /\ worker.pc = "idle" /\ status[r] = "queued"
    /\ \A q \in Runs : q < r => status[q] # "queued"
    /\ status' = [status EXCEPT ![r] = "starting"]
    /\ worker' = [pc |-> "checking", run |-> r, thread |-> external, timed |-> FALSE]
    /\ UNCHANGED <<daemon, crashes, turnId, external, provider, processes>>

\* _ensure_provider_ready: start, even when a health request is doing it.
Probe ==
    /\ worker.pc = "checking" /\ health # "ready"
    /\ health' = "starting"
    /\ worker' = [worker EXCEPT !.pc = "probing"]
    /\ UNCHANGED <<daemon, crashes, tables, probing, newThreads, resumed, processes>>

ProbeFails(r) ==
    /\ worker.pc = "probing" /\ worker.run = r
    /\ health' = "failed"
    /\ status' = Ended(r, "failed")
    /\ worker' = Idle
    /\ UNCHANGED <<daemon, crashes, turnId, external, probing, newThreads, resumed, processes>>

\* A thread is recorded when its first turn has completed, not when it is created.
RecordedAt_Creation == "creation"
RecordedAt == "completion"

\* create_thread or resume_thread, then run_turn spawns the CLI.  The assertion that the
\* thread is in the database fails for a deleted session.
Open(r) ==
    /\ worker.run = r
    /\ \/ worker.pc = "checking" /\ health = "ready"
       \/ worker.pc = "probing"
    /\ health' = "ready"
    /\ LET known == IF worker.pc = "probing" THEN {} ELSE resumed
           thread == IF worker.thread = None THEN r ELSE worker.thread
       IN  /\ resumed' = known \cup {thread}
           /\ newThreads' = IF worker.thread = None THEN newThreads \cup {thread}
                            ELSE IF thread \in known THEN newThreads
                            ELSE newThreads \ {thread}
           /\ external' = IF worker.thread = None /\ RecordedAt = "creation"
                          THEN thread ELSE external
           /\ worker' = IF worker.thread # None /\ thread \notin known /\ status[r] = "deleted"
                        THEN Idle
                        ELSE [worker EXCEPT !.pc = "spawning", !.thread = thread]
    /\ UNCHANGED <<daemon, crashes, status, turnId, probing, processes>>

\* _turn_command: what the CLI is told of the conversation.
Command(thread) == IF thread \in newThreads THEN "--session-id" ELSE "--resume"

SpawnFails(r) ==
    /\ worker.pc = "spawning" /\ worker.run = r
    /\ status' = Ended(r, "failed")
    /\ worker' = Idle
    /\ UNCHANGED <<daemon, crashes, turnId, external, provider, processes>>

\* The process runs and is in _active.  The worker stores the started event and run_turn
\* sends the prompt, unless the run is cancelled or gone: then the worker leaves run_turn
\* before its try statement, and the process stays in _active, without a prompt.
Spawned(r) ==
    /\ worker.pc = "spawning" /\ worker.run = r
    /\ process' = [process EXCEPT ![r] = "alive"]
    /\ active' = active \cup {r}
    /\ IF status[r] \in InFlight
       THEN /\ status' = [status EXCEPT ![r] = "streaming"]
            /\ turnId' = [turnId EXCEPT ![r] = TRUE]
            /\ worker' = [worker EXCEPT !.pc = "reading"]
            /\ conversation' = IF Command(worker.thread) = "--resume" THEN conversation
                               ELSE [conversation EXCEPT ![worker.thread] = "begun"]
            /\ UNCHANGED left
       ELSE /\ worker' = Idle
            /\ left' = [left EXCEPT ![r] = "abandoned"]
            /\ UNCHANGED <<status, turnId, conversation>>
    /\ UNCHANGED <<daemon, crashes, external, provider, stops>>

(***************************************************************************)
(* The turn                                                                *)
(***************************************************************************)

Reading(r) == worker.pc = "reading" /\ worker.run = r

WorkerStops(level) == [stops EXCEPT !["worker"][worker.run] = level]

\* The process exits, of itself or told to.
Exit(r) ==
    /\ process[r] = "alive"
    /\ process' = [process EXCEPT ![r] = "exited"]
    /\ UNCHANGED <<daemon, crashes, tables, worker, provider, active, stops, conversation, left>>

\* A delta, or the result, of a run that is cancelled or gone: the worker leaves run_turn,
\* whose finally clause forgets the process.
Abandon(r) ==
    /\ Reading(r) /\ status[r] \notin InFlight
    /\ worker' = Idle
    /\ active' = active \ {r}
    /\ left' = [left EXCEPT ![r] = "abandoned"]
    /\ UNCHANGED <<daemon, crashes, tables, provider, process, stops, conversation>>

\* The result of the turn.
Result(r, success) ==
    /\ Reading(r)
    /\ newThreads' = IF success THEN newThreads \ {worker.thread} ELSE newThreads
    /\ conversation' = IF success THEN [conversation EXCEPT ![worker.thread] = "answered"]
                       ELSE conversation
    /\ IF status[r] \in InFlight
       THEN /\ status' = [status EXCEPT ![r] = IF success THEN "completed" ELSE "failed"]
            /\ external' = IF success THEN worker.thread ELSE external
            /\ worker' = [worker EXCEPT !.pc = "exiting"]
            /\ stops' = WorkerStops("waiting")
            /\ UNCHANGED <<active, left>>
       ELSE /\ worker' = Idle
            /\ active' = active \ {r}
            /\ left' = [left EXCEPT ![r] = "abandoned"]
            /\ UNCHANGED <<status, external, stops>>
    /\ UNCHANGED <<daemon, crashes, turnId, health, probing, resumed, process>>

EndOfOutput(r) ==
    /\ Reading(r)
    /\ worker' = [worker EXCEPT !.pc = "eof"]
    /\ UNCHANGED <<daemon, crashes, tables, provider, processes>>

\* process.wait returns: there was no result.
EofExits(r) ==
    /\ worker.pc = "eof" /\ worker.run = r /\ process[r] = "exited"
    /\ status' = Ended(r, "failed")
    /\ worker' = Idle
    /\ active' = active \ {r}
    /\ UNCHANGED <<daemon, crashes, turnId, external, provider, process, stops,
                   conversation, left>>

\* No output before the inactivity timeout, or output that is not JSON.
Silent(r) ==
    /\ Reading(r)
    /\ worker' = [worker EXCEPT !.pc = "stopping"]
    /\ stops' = WorkerStops("closed")
    /\ UNCHANGED <<daemon, crashes, tables, provider, active, process, conversation, left>>

\* A delta beyond the limit: the worker calls cancel_turn.
Overflow(r) ==
    /\ Reading(r) /\ status[r] \in InFlight
    /\ status' = [status EXCEPT ![r] = "failed"]
    /\ worker' = [worker EXCEPT !.pc = "overflowed"]
    /\ stops' = WorkerStops("closed")
    /\ UNCHANGED <<daemon, crashes, turnId, external, provider, active, process,
                   conversation, left>>

\* An exception: a line beyond the reader's limit, JSON that is not an object, an error of
\* the database.  The finally clause forgets the process and waits for its stderr task.
Raises(r) ==
    /\ Reading(r)
    /\ worker' = [worker EXCEPT !.pc = "closing"]
    /\ active' = active \ {r}
    /\ left' = [left EXCEPT ![r] = "raised"]
    /\ UNCHANGED <<daemon, crashes, tables, provider, process, stops, conversation>>

Closed(r) ==
    /\ worker.pc = "closing" /\ worker.run = r
    /\ status' = Ended(r, "failed")
    /\ worker' = Idle
    /\ UNCHANGED <<daemon, crashes, turnId, external, provider, processes>>

(***************************************************************************)
(* Stopping a process                                                      *)
(***************************************************************************)

\* _stop_process goes on when the process has not exited within shutdown_timeout.
Kills_Never(level) == FALSE
Kills(level) == level = "terminated"
After_WaitOnly(level) == IF level = "closed" THEN "terminated" ELSE "killed"
After(level) == CASE level = "waiting" -> "closed"
                  [] level = "closed" -> "terminated"
                  [] OTHER -> "killed"

Escalate(by, r) ==
    /\ stops[by][r] \in {"waiting", "closed", "terminated"} /\ process[r] = "alive"
    /\ stops' = [stops EXCEPT ![by][r] = After(@)]
    /\ process' = IF Kills(stops[by][r]) THEN [process EXCEPT ![r] = "exited"] ELSE process
    /\ UNCHANGED <<daemon, crashes, tables, worker, provider, active, conversation, left>>

\* It returns when the process has exited, or did not even when it was killed.
Over(by, r) == stops[by][r] = "killed" \/ process[r] = "exited"

\* The worker has stopped the process: a failed event, the total timeout, or the
\* cancellation by a shutdown, which leaves the run for the next start of the daemon.
Finish(r) ==
    /\ worker.pc \in Stopping /\ worker.run = r /\ Over("worker", r)
    /\ status' = IF worker.pc = "cancelling" /\ daemon # "up" THEN status
                 ELSE Ended(r, "failed")
    /\ worker' = Idle
    /\ active' = active \ {r}
    /\ stops' = WorkerStops("no")
    /\ UNCHANGED <<daemon, crashes, turnId, external, provider, process, conversation, left>>

Interruptible(r) == external # None /\ turnId[r]

\* The total timeout cancels the task.  A process being spawned is closed; run_turn stops
\* the one it reads.  cancel_turn has no process to stop after that, except when it is
\* itself what the timeout interrupts.
Cancelled_NotAtEof == {"reading", "exiting", "stopping"}
Cancelled == {"reading", "exiting", "eof", "stopping"}

TimeOut(r) ==
    /\ worker.run = r /\ ~worker.timed /\ daemon = "up"
    /\ \/ /\ worker.pc \in Cancelled
          /\ worker' = [worker EXCEPT !.pc = "cancelling", !.timed = TRUE]
          /\ stops' = WorkerStops("closed")
          /\ UNCHANGED <<status, active, left>>
       \/ /\ worker.pc = "overflowed" /\ Interruptible(r) /\ status[r] # "deleted"
          /\ worker' = [worker EXCEPT !.timed = TRUE]
          /\ stops' = WorkerStops("closed")
          /\ UNCHANGED <<status, active, left>>
       \/ /\ worker.pc = "overflowed" /\ ~(Interruptible(r) /\ status[r] # "deleted")
          /\ worker' = Idle
          /\ stops' = WorkerStops("no")
          /\ active' = active \ {r}
          /\ left' = [left EXCEPT ![r] = "cut short"]
          /\ UNCHANGED status
       \/ /\ worker.pc = "spawning"
          /\ worker' = Idle
          /\ status' = Ended(r, "failed")
          /\ UNCHANGED <<active, stops, left>>
    /\ UNCHANGED <<daemon, crashes, turnId, external, provider, process, conversation>>

(***************************************************************************)
(* cancel, delete                                                          *)
(***************************************************************************)

\* A run that is queued, or whose turn cannot be named to the provider, or whose process
\* is not in _active or has exited, is cancelled at once.
CancelAtOnce(r) ==
    /\ daemon # "off"
    /\ \/ status[r] = "queued"
       \/ status[r] \in InFlight /\ ~(Interruptible(r) /\ r \in active /\ process[r] = "alive")
    /\ status' = [status EXCEPT ![r] = "cancelled"]
    /\ UNCHANGED <<daemon, crashes, turnId, external, worker, provider, processes>>

Cancel(r) ==
    /\ daemon # "off" /\ stops["cancel"][r] = "no"
    /\ status[r] \in InFlight /\ Interruptible(r) /\ r \in active /\ process[r] = "alive"
    /\ stops' = [stops EXCEPT !["cancel"][r] = "closed"]
    /\ UNCHANGED <<daemon, crashes, tables, worker, provider, active, process,
                   conversation, left>>

CancelReturns(r) ==
    /\ stops["cancel"][r] # "no" /\ Over("cancel", r)
    /\ status' = Ended(r, "cancelled")
    /\ stops' = [stops EXCEPT !["cancel"][r] = "no"]
    /\ UNCHANGED <<daemon, crashes, turnId, external, worker, provider, active, process,
                   conversation, left>>

\* SessionService.delete: the runs and the thread go by cascade.
DeleteSession ==
    /\ daemon = "up" /\ \E r \in Runs : status[r] \notin {"absent", "deleted"}
    /\ status' = [r \in Runs |-> "deleted"]
    /\ external' = None
    /\ UNCHANGED <<daemon, crashes, turnId, worker, provider, processes>>

(***************************************************************************)
(* The daemon                                                              *)
(***************************************************************************)

\* AgentQueueManager.stop cancels the worker, and then stop() takes the processes out of
\* _active.  The second cancellation of a worker that is stopping a process ends that.
Shutdown ==
    /\ daemon = "up"
    /\ daemon' = "stopping" /\ health' = "stopped"
    /\ LET r == worker.run
           cutShort == worker.pc = "cancelling" \/ (worker.pc = "overflowed" /\ worker.timed)
           gone == [pc |-> "gone", run |-> None, thread |-> None, timed |-> FALSE]
           known == IF worker.pc = "cancelling" THEN active \ {r} ELSE active
           own == IF worker.pc \in Cancelled THEN "closed" ELSE "no"
       IN  /\ worker' = IF worker.pc \in Cancelled THEN [worker EXCEPT !.pc = "cancelling"]
                        ELSE IF worker.pc = "closing" THEN worker
                        ELSE gone
           /\ left' = IF r # None /\ cutShort THEN [left EXCEPT ![r] = "cut short"] ELSE left
           /\ stops' = [by \in Stoppers |-> [q \in Runs |->
                          CASE by = "shutdown" -> IF q \in known THEN "closed" ELSE "no"
                            [] by = "worker" -> IF q = r THEN own ELSE "no"
                            [] OTHER -> stops[by][q]]]
    /\ active' = {}
    /\ UNCHANGED <<crashes, tables, probing, newThreads, resumed, process, conversation>>

StopReturns(r) ==
    /\ stops["shutdown"][r] # "no" /\ Over("shutdown", r)
    /\ stops' = [stops EXCEPT !["shutdown"][r] = "no"]
    /\ UNCHANGED <<daemon, crashes, tables, worker, provider, active, process,
                   conversation, left>>

\* What the end of a daemon leaves: the tables and the processes.
Ends ==
    /\ active' = {} /\ newThreads' = {} /\ resumed' = {}
    /\ health' = "stopped" /\ probing' = FALSE
    /\ stops' = [by \in Stoppers |-> [r \in Runs |-> "no"]]

\* The daemon exits when the worker and stop() have ended.
Exits ==
    /\ daemon = "stopping" /\ worker.pc = "gone"
    /\ \A r \in Runs : stops["shutdown"][r] = "no"
    /\ daemon' = "off"
    /\ Ends
    /\ UNCHANGED <<crashes, tables, worker, process, conversation, left>>

Crash ==
    /\ daemon # "off" /\ crashes < MaxCrashes
    /\ crashes' = crashes + 1 /\ daemon' = "off"
    /\ worker' = [pc |-> "gone", run |-> None, thread |-> None, timed |-> FALSE]
    /\ left' = [r \in Runs |-> IF process[r] = "alive" THEN "outlived" ELSE left[r]]
    /\ Ends
    /\ UNCHANGED <<tables, process, conversation>>

\* recover_after_restart ends the runs.
Start ==
    /\ daemon = "off" /\ daemon' = "up"
    /\ status' = [r \in Runs |-> IF status[r] \in InFlight \cup {"queued"} THEN "interrupted"
                                 ELSE status[r]]
    /\ worker' = [worker EXCEPT !.pc = "idle"]
    /\ UNCHANGED <<crashes, turnId, external, provider, processes>>

(***************************************************************************)
(* The specification                                                       *)
(***************************************************************************)

Init ==
    /\ daemon = "up" /\ crashes = 0
    /\ status = [r \in Runs |-> "absent"] /\ turnId = [r \in Runs |-> FALSE]
    /\ external = None
    /\ worker = Idle
    /\ health = "stopped" /\ probing = FALSE
    /\ newThreads = {} /\ resumed = {} /\ active = {}
    /\ process = [r \in Runs |-> "none"]
    /\ stops = [by \in Stoppers |-> [r \in Runs |-> "no"]]
    /\ conversation = [r \in Runs |-> "none"]
    /\ left = [r \in Runs |-> "no"]

TurnStep(r) ==
    \/ ProbeFails(r) \/ Open(r) \/ SpawnFails(r) \/ Spawned(r)
    \/ Abandon(r) \/ EndOfOutput(r) \/ EofExits(r) \/ Silent(r) \/ Overflow(r)
    \/ Raises(r) \/ Closed(r) \/ Finish(r) \/ TimeOut(r)
    \/ \E success \in BOOLEAN : Result(r, success)

Next ==
    \/ HealthProbes \/ HealthProbed \/ Probe
    \/ \E r \in Runs :
        \/ Enqueue(r) \/ Take(r) \/ TurnStep(r) \/ Exit(r)
        \/ CancelAtOnce(r) \/ Cancel(r) \/ CancelReturns(r) \/ StopReturns(r)
        \/ \E by \in Stoppers : Escalate(by, r)
    \/ DeleteSession \/ Shutdown \/ Exits \/ Crash \/ Start

Spec == Init /\ [][Next]_vars

\* Every wait of the provider has a timeout, or ends with the total timeout of the turn;
\* the process itself owes nothing.
Fairness ==
    /\ WF_vars(Probe) /\ WF_vars(\E r \in Runs : ProbeFails(r) \/ Open(r))
    /\ WF_vars(\E r \in Runs : TimeOut(r))
    /\ WF_vars(\E r \in Runs : Finish(r))
    /\ WF_vars(\E r \in Runs : Closed(r))
    /\ WF_vars(\E r \in Runs : Escalate("worker", r))
    /\ \A r \in Runs : WF_vars(Escalate("cancel", r)) /\ WF_vars(CancelReturns(r))
    /\ \A r \in Runs : WF_vars(Escalate("shutdown", r)) /\ WF_vars(StopReturns(r))

FairSpec == Spec /\ Fairness

(***************************************************************************)
(* Properties                                                              *)
(***************************************************************************)

\* A process that lives belongs to the turn at work, or somebody is stopping it.  The
\* others were left when their run had been cancelled or deleted, when an exception left
\* run_turn, when a timeout or a shutdown cut the stopping short, or by a crash: a run that
\* has completed leaves none.
Reaped ==
    \A r \in Runs : process[r] = "alive" =>
        \/ worker.run = r
        \/ \E by \in Stoppers : stops[by][r] # "no"
        \/ left[r] = "abandoned" /\ status[r] \in {"cancelled", "deleted"}
        \/ left[r] = "raised" /\ status[r] \in {"failed", "cancelled", "deleted", "interrupted"}
        \/ left[r] \in {"cut short", "outlived"}

\* Cancelling a turn of a recorded thread leaves no process behind, if run_turn still
\* holds it (AgentQueueManager.cancel, ClaudeCodeProvider.cancel_turn).
CancelStops ==
    [][\A r \in Runs :
        status[r] = "streaming" /\ status'[r] = "cancelled" /\ external # None =>
            \/ process'[r] = "exited"
            \/ left[r] \in {"raised", "cut short"}
            \/ stops["shutdown"][r] # "no"]_vars

\* A turn creates a conversation the CLI does not have, or resumes one that has answered:
\* --session-id and --resume follow _new_threads, in memory, while the thread is recorded
\* in the database and the conversation by the CLI.
ConversationFits ==
    worker.pc = "spawning" =>
        conversation[worker.thread] =
            IF Command(worker.thread) = "--resume" THEN "answered" ELSE "none"

\* Whatever the CLI does, the worker gets rid of the turn, and a cancel request returns.
TurnsEnd ==
    \A r \in Runs :
        /\ worker.run = r ~> worker.run # r
        /\ stops["cancel"][r] # "no" ~> stops["cancel"][r] = "no"

=============================================================================
