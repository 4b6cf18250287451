----------------------------- MODULE ClaudeProofs -----------------------------
(***************************************************************************)
(* Proofs about the turns of the Claude CLI, for any number of runs and of *)
(* crashes of the daemon: Reaped, CancelStops and ConversationFits of      *)
(* module ClaudeTurns.                                                     *)
(***************************************************************************)
EXTENDS ClaudeTurns, TLAPS

-----------------------------------------------------------------------------
(* The inductive invariant.                                                *)

RunStatuses == {"absent", "queued", "starting", "streaming", "completed", "failed",
                "cancelled", "interrupted", "deleted"}
Pcs == {"idle", "gone", "checking", "probing"} \cup InTurn
Levels == {"no", "waiting", "closed", "terminated", "killed"}

TypeOK ==
    /\ daemon \in {"up", "stopping", "off"}
    /\ status \in [Runs -> RunStatuses] /\ turnId \in [Runs -> BOOLEAN]
    /\ external \in Runs \cup {None}
    /\ worker \in [pc : Pcs, run : Runs \cup {None}, thread : Runs \cup {None}, timed : BOOLEAN]
    /\ newThreads \subseteq Runs /\ resumed \subseteq Runs /\ active \subseteq Runs
    /\ process \in [Runs -> {"none", "alive", "exited"}]
    /\ stops \in [Stoppers -> [Runs -> Levels]]
    /\ conversation \in [Runs -> {"none", "begun", "answered"}]
    /\ left \in [Runs -> {"no", "abandoned", "raised", "cut short", "outlived"}]

\* The worker has a run when it is at work, and while the daemon stops it may only be
\* stopping the process or closing the turn.
WorkerFits ==
    /\ worker.pc \in {"idle", "gone"} <=> worker.run = None
    /\ daemon = "up" => worker.pc # "gone"
    /\ daemon = "stopping" => worker.pc \in {"gone", "cancelling", "closing"}
    /\ daemon = "off" => worker.pc = "gone"

\* What the run of the worker has: it waits for its process, or its process is in _active.
Before == {"checking", "probing", "spawning"}
RunFits(r) ==
    worker.run = r =>
        /\ status[r] \notin {"absent", "queued"}
        /\ worker.pc \in Before \cup {"reading", "closing"} =>
              status[r] \in InFlight \cup {"cancelled", "deleted"}
        /\ worker.pc \in Before <=> process[r] = "none"
        /\ daemon = "up" /\ worker.pc \notin Before \cup {"closing"} => r \in active
        /\ left[r] = IF worker.pc = "closing" THEN "raised" ELSE "no"

\* A run that was not taken has neither a process nor a conversation, one that streams has
\* a process of its own.
StatusFits(r) ==
    /\ status[r] \in {"absent", "queued"} =>
          process[r] = "none" /\ conversation[r] = "none" /\ left[r] = "no"
    /\ status[r] = "streaming" => turnId[r] = TRUE /\ process[r] # "none"

\* A process that was killed has exited; the worker stops only its own turn, and stop()
\* runs while the daemon stops.
StopsFit(r) ==
    /\ \A by \in Stoppers : stops[by][r] = "killed" => process[r] = "exited"
    /\ stops["worker"][r] # "no" => worker.run = r /\ worker.pc \in Stopping
    /\ daemon # "stopping" => stops["shutdown"][r] = "no"

\* Reaped, with the process that only a cancel request is stopping accounted for anyway.
Accounted(r) ==
    /\ process[r] = "alive" =>
          \/ worker.run = r
          \/ stops["shutdown"][r] # "no"
          \/ left[r] # "no"
    /\ left[r] = "abandoned" => status[r] \in {"cancelled", "deleted"}
    /\ process[r] = "alive" /\ left[r] = "raised" /\ worker.run # r =>
          status[r] \in {"failed", "cancelled", "deleted"}

\* The process of a run that streams can be stopped, or the reason why not is known.
Stoppable(r) ==
    status[r] = "streaming" /\ daemon # "off" =>
        \/ r \in active
        \/ process[r] = "exited"
        \/ left[r] \in {"raised", "cut short"}
        \/ stops["shutdown"][r] # "no"

Fits(r) == RunFits(r) /\ StatusFits(r) /\ StopsFit(r) /\ Accounted(r) /\ Stoppable(r)

\* A recorded thread is one the CLI has answered in, and the provider does not think new.
Answered(t) == t \in Runs /\ conversation[t] = "answered" /\ t \notin newThreads
ThreadsFit ==
    /\ external # None => Answered(external)
    /\ worker.pc \in {"checking", "probing"} =>
          IF worker.thread = None THEN conversation[worker.run] = "none"
          ELSE Answered(worker.thread)
    /\ worker.run # None /\ worker.pc \notin {"checking", "probing"} =>
          worker.thread \in Runs /\ status[worker.thread] \notin {"absent", "queued"}
    /\ ConversationFits

IInv == TypeOK /\ WorkerFits /\ (\A r \in Runs : Fits(r)) /\ ThreadsFit

-----------------------------------------------------------------------------
(* Lemmas.                                                                 *)

LEMMA NoneIsNoRun == None \notin Runs
BY ClaudeAssumption DEF None, Runs

\* The stop of one run by one stopper moves on, the others stay where they are.
LEMMA OneStopMoves ==
    ASSUME IInv, NEW b \in Stoppers, NEW r \in Runs, NEW level,
           stops' = [stops EXCEPT ![b][r] = level]
    PROVE  /\ stops'[b][r] = level
           /\ \A c \in Stoppers, u \in Runs : c # b \/ u # r => stops'[c][u] = stops[c][u]
<1>1. stops \in [Stoppers -> [Runs -> Levels]]
  BY DEF IInv, TypeOK
<1>2. stops'[b] = [stops[b] EXCEPT ![r] = level]
      /\ \A c \in Stoppers : c # b => stops'[c] = stops[c]
  BY <1>1
<1> QED
  BY <1>1, <1>2

\* A step that leaves run u as it is, and the worker unless it has another run.
Leaves(u) ==
    /\ daemon' = daemon
    /\ worker' = worker \/ (worker.run # u /\ worker'.run # u)
    /\ status'[u] = status[u] /\ turnId'[u] = turnId[u] /\ process'[u] = process[u]
    /\ status[u] \in {"absent", "queued"} => conversation'[u] = conversation[u]
    /\ left'[u] = left[u]
    /\ u \in active' <=> u \in active
    /\ \A by \in Stoppers : stops'[by][u] = stops[by][u]

LEMMA LeavesFits ==
    ASSUME NEW u \in Runs, Fits(u), Leaves(u)
    PROVE  Fits(u)'
<1> USE DEF Leaves, Fits
<1>1. RunFits(u)'
  BY DEF RunFits
<1>2. StatusFits(u)'
  BY DEF StatusFits
<1>3. StopsFit(u)'
  BY DEF StopsFit, Stoppers
<1>4. Accounted(u)'
  BY DEF Accounted, Stoppers
<1>5. Stoppable(u)'
  BY DEF Stoppable, Stoppers
<1> QED
  BY <1>1, <1>2, <1>3, <1>4, <1>5

-----------------------------------------------------------------------------
(* Steps.                                                                  *)

LEMMA EnqueueKeeps ==
    ASSUME IInv, NEW r \in Runs, Enqueue(r)
    PROVE  IInv'
<1> USE NoneIsNoRun
<1>1. daemon = "up" /\ status[r] = "absent"
  BY DEF Enqueue, tables, provider, processes, InFlight, Stopping, IInv, TypeOK, WorkerFits
<1>2. TypeOK'
  BY DEF Enqueue, tables, provider, processes, IInv, TypeOK, RunStatuses, Pcs, InTurn, Levels,
     Stoppers
<1>3. /\ daemon' = daemon
      /\ worker' = worker
      /\ status'[r] = "queued"
      /\ turnId'[r] = turnId[r]
      /\ process'[r] = process[r]
      /\ conversation'[r] = conversation[r]
      /\ left'[r] = left[r]
      /\ r \in active' <=> r \in active
      /\ \A by \in Stoppers : stops'[by][r] = stops[by][r]
  BY <1>1 DEF Enqueue, tables, provider, processes, IInv, TypeOK, Stoppers
<1>4. WorkerFits'
  BY <1>1, <1>3 DEF IInv, WorkerFits, Stopping
<1>5. ASSUME NEW u \in Runs, u # r PROVE Fits(u)'
  <2>1. Leaves(u)
    BY <1>1, <1>3, <1>5 DEF Enqueue, tables, provider, processes, Leaves, IInv, TypeOK,
       Stoppers, WorkerFits
  <2> QED
    BY <2>1, LeavesFits DEF IInv
<1>6. Fits(r)'
  <2> USE <1>1, <1>3 DEF InFlight
  <2>1. Fits(r)
    BY DEF IInv
  <2>2. RunFits(r)'
    BY <2>1 DEF Fits, StatusFits, RunFits, Before, WorkerFits, IInv
  <2>3. StatusFits(r)'
    BY <2>1 DEF IInv, TypeOK, Fits, StatusFits, RunFits, Before
  <2>4. StopsFit(r)'
    BY <2>1 DEF Fits, StopsFit, Stoppers, Stopping
  <2>5. Accounted(r)'
    BY <2>1 DEF IInv, TypeOK, Fits, Accounted, RunFits, StopsFit, Stoppers, Before
  <2>6. Stoppable(r)'
    BY <2>1 DEF IInv, TypeOK, Fits, Stoppable, StatusFits, RunFits, StopsFit, Stoppers, Before,
       WorkerFits
  <2> QED
    BY <2>2, <2>3, <2>4, <2>5, <2>6 DEF Fits
<1>7. ThreadsFit'
  <2>1. external' = external /\ conversation' = conversation /\ newThreads' = newThreads
    BY DEF Enqueue, tables, provider, processes
  <2>2. worker' = worker
    BY <1>1, <1>3 DEF Enqueue, tables, provider, processes, IInv, TypeOK
  <2>3. \A u \in Runs : status[u] \notin {"absent", "queued"} =>
                         status'[u] \notin {"absent", "queued"}
    BY <1>3 DEF Enqueue, tables, provider, processes, IInv, TypeOK
  <2> QED
    BY <1>4, <2>1, <2>2, <2>3 DEF IInv, WorkerFits, ThreadsFit, Answered, ConversationFits,
       Command
<1> QED
  BY <1>2, <1>4, <1>5, <1>6, <1>7 DEF IInv

LEMMA TakeKeeps ==
    ASSUME IInv, NEW r \in Runs, Take(r)
    PROVE  IInv'
<1> USE NoneIsNoRun
<1>1. worker.pc = "idle" /\ worker.run # r /\ status[r] = "queued"
  BY DEF Take, tables, provider, processes, InFlight, Stopping, IInv, TypeOK, WorkerFits
<1>2. TypeOK'
  BY DEF Take, tables, provider, processes, IInv, TypeOK, RunStatuses, Pcs, InTurn, Levels,
     Stoppers
<1>3. /\ daemon' = daemon
      /\ worker'.run = r /\ worker'.pc = "checking"
      /\ status'[r] = "starting"
      /\ turnId'[r] = turnId[r]
      /\ process'[r] = process[r]
      /\ conversation'[r] = conversation[r]
      /\ left'[r] = left[r]
      /\ r \in active' <=> r \in active
      /\ \A by \in Stoppers : stops'[by][r] = stops[by][r]
  BY <1>1 DEF Take, tables, provider, processes, IInv, TypeOK, Stoppers
<1>4. WorkerFits'
  BY <1>1, <1>3 DEF IInv, WorkerFits, Stopping
<1>5. ASSUME NEW u \in Runs, u # r PROVE Fits(u)'
  <2>1. Leaves(u)
    BY <1>1, <1>3, <1>5 DEF Take, tables, provider, processes, Leaves, IInv, TypeOK, Stoppers,
       WorkerFits
  <2> QED
    BY <2>1, LeavesFits DEF IInv
<1>6. Fits(r)'
  <2> USE <1>1, <1>3 DEF InFlight
  <2>1. Fits(r)
    BY DEF IInv
  <2>2. RunFits(r)'
    BY <2>1 DEF Fits, StatusFits, RunFits, Before, WorkerFits, IInv
  <2>3. StatusFits(r)'
    BY <2>1 DEF IInv, TypeOK, Fits, StatusFits, RunFits, Before
  <2>4. StopsFit(r)'
    BY <2>1 DEF Fits, StopsFit, Stoppers, Stopping
  <2>5. Accounted(r)'
    BY <2>1 DEF IInv, TypeOK, Fits, Accounted, RunFits, StopsFit, Stoppers, Before
  <2>6. Stoppable(r)'
    BY <2>1 DEF IInv, TypeOK, Fits, Stoppable, StatusFits, RunFits, StopsFit, Stoppers, Before,
       WorkerFits
  <2> QED
    BY <2>2, <2>3, <2>4, <2>5, <2>6 DEF Fits
<1>7. ThreadsFit'
  <2>1. external' = external /\ conversation' = conversation /\ newThreads' = newThreads
    BY DEF Take, tables, provider, processes
  <2>2. worker'.thread = external /\ worker'.run = r /\ worker'.pc = "checking"
    BY <1>1, <1>3 DEF Take, tables, provider, processes, IInv, TypeOK
  <2>3. \A u \in Runs : status[u] \notin {"absent", "queued"} =>
                         status'[u] \notin {"absent", "queued"}
    BY <1>3 DEF Take, tables, provider, processes, IInv, TypeOK
  <2>4. conversation[r] = "none"
    BY <1>1 DEF IInv, Fits, StatusFits
  <2> QED
    BY <1>4, <2>1, <2>2, <2>3, <2>4 DEF IInv, WorkerFits, ThreadsFit, Answered,
       ConversationFits, Command
<1> QED
  BY <1>2, <1>4, <1>5, <1>6, <1>7 DEF IInv

LEMMA ProbeFailsKeeps ==
    ASSUME IInv, NEW r \in Runs, ProbeFails(r)
    PROVE  IInv'
<1> USE NoneIsNoRun
<1>1. worker.run = r /\ worker.pc = "probing"
  BY DEF ProbeFails, tables, provider, processes, Idle, Ended, InFlight, Stopping, IInv,
     TypeOK, WorkerFits
<1>2. TypeOK'
  BY DEF ProbeFails, tables, provider, processes, Idle, Ended, IInv, TypeOK, RunStatuses, Pcs,
     InTurn, Levels, Stoppers
<1>3. /\ daemon' = daemon
      /\ worker'.run = None /\ worker'.pc = IF daemon = "up" THEN "idle" ELSE "gone"
      /\ status'[r] = IF status[r] \in InFlight THEN "failed" ELSE status[r]
      /\ turnId'[r] = turnId[r]
      /\ process'[r] = process[r]
      /\ conversation'[r] = conversation[r]
      /\ left'[r] = left[r]
      /\ r \in active' <=> r \in active
      /\ \A by \in Stoppers : stops'[by][r] = stops[by][r]
  BY <1>1 DEF ProbeFails, tables, provider, processes, Idle, Ended, IInv, TypeOK, Stoppers
<1>4. WorkerFits'
  BY <1>1, <1>3 DEF IInv, WorkerFits, Stopping
<1>5. ASSUME NEW u \in Runs, u # r PROVE Fits(u)'
  <2>1. Leaves(u)
    BY <1>1, <1>3, <1>5 DEF ProbeFails, tables, provider, processes, Idle, Ended, Leaves, IInv,
       TypeOK, Stoppers, WorkerFits
  <2> QED
    BY <2>1, LeavesFits DEF IInv
<1>6. Fits(r)'
  <2> USE <1>1, <1>3 DEF InFlight
  <2>1. Fits(r)
    BY DEF IInv
  <2>2. RunFits(r)'
    BY <2>1 DEF Fits, StatusFits, RunFits, Before, WorkerFits, IInv
  <2>3. StatusFits(r)'
    BY <2>1 DEF IInv, TypeOK, Fits, StatusFits, RunFits, Before
  <2>4. StopsFit(r)'
    BY <2>1 DEF Fits, StopsFit, Stoppers, Stopping
  <2>5. Accounted(r)'
    BY <2>1 DEF IInv, TypeOK, Fits, Accounted, RunFits, StopsFit, Stoppers, Before
  <2>6. Stoppable(r)'
    BY <2>1 DEF IInv, TypeOK, Fits, Stoppable, StatusFits, RunFits, StopsFit, Stoppers, Before,
       WorkerFits
  <2> QED
    BY <2>2, <2>3, <2>4, <2>5, <2>6 DEF Fits
<1>7. ThreadsFit'
  <2>1. external' = external /\ conversation' = conversation /\ newThreads' = newThreads
    BY DEF ProbeFails, tables, provider, processes, Idle, Ended
  <2>2. worker'.run = None
    BY <1>1, <1>3 DEF ProbeFails, tables, provider, processes, Idle, Ended, IInv, TypeOK
  <2>3. \A u \in Runs : status[u] \notin {"absent", "queued"} =>
                         status'[u] \notin {"absent", "queued"}
    BY <1>3 DEF ProbeFails, tables, provider, processes, Idle, Ended, IInv, TypeOK
  <2> QED
    BY <1>4, <2>1, <2>2, <2>3 DEF IInv, WorkerFits, ThreadsFit, Answered, ConversationFits,
       Command
<1> QED
  BY <1>2, <1>4, <1>5, <1>6, <1>7 DEF IInv

LEMMA SpawnFailsKeeps ==
    ASSUME IInv, NEW r \in Runs, SpawnFails(r)
    PROVE  IInv'
<1> USE NoneIsNoRun
<1>1. worker.run = r /\ worker.pc = "spawning"
  BY DEF SpawnFails, tables, provider, processes, Idle, Ended, InFlight, Stopping, IInv,
     TypeOK, WorkerFits
<1>2. TypeOK'
  BY DEF SpawnFails, tables, provider, processes, Idle, Ended, IInv, TypeOK, RunStatuses, Pcs,
     InTurn, Levels, Stoppers
<1>3. /\ daemon' = daemon
      /\ worker'.run = None /\ worker'.pc = IF daemon = "up" THEN "idle" ELSE "gone"
      /\ status'[r] = IF status[r] \in InFlight THEN "failed" ELSE status[r]
      /\ turnId'[r] = turnId[r]
      /\ process'[r] = process[r]
      /\ conversation'[r] = conversation[r]
      /\ left'[r] = left[r]
      /\ r \in active' <=> r \in active
      /\ \A by \in Stoppers : stops'[by][r] = stops[by][r]
  BY <1>1 DEF SpawnFails, tables, provider, processes, Idle, Ended, IInv, TypeOK, Stoppers
<1>4. WorkerFits'
  BY <1>1, <1>3 DEF IInv, WorkerFits, Stopping
<1>5. ASSUME NEW u \in Runs, u # r PROVE Fits(u)'
  <2>1. Leaves(u)
    BY <1>1, <1>3, <1>5 DEF SpawnFails, tables, provider, processes, Idle, Ended, Leaves, IInv,
       TypeOK, Stoppers, WorkerFits
  <2> QED
    BY <2>1, LeavesFits DEF IInv
<1>6. Fits(r)'
  <2> USE <1>1, <1>3 DEF InFlight
  <2>1. Fits(r)
    BY DEF IInv
  <2>2. RunFits(r)'
    BY <2>1 DEF Fits, StatusFits, RunFits, Before, WorkerFits, IInv
  <2>3. StatusFits(r)'
    BY <2>1 DEF IInv, TypeOK, Fits, StatusFits, RunFits, Before
  <2>4. StopsFit(r)'
    BY <2>1 DEF Fits, StopsFit, Stoppers, Stopping
  <2>5. Accounted(r)'
    BY <2>1 DEF IInv, TypeOK, Fits, Accounted, RunFits, StopsFit, Stoppers, Before
  <2>6. Stoppable(r)'
    BY <2>1 DEF IInv, TypeOK, Fits, Stoppable, StatusFits, RunFits, StopsFit, Stoppers, Before,
       WorkerFits
  <2> QED
    BY <2>2, <2>3, <2>4, <2>5, <2>6 DEF Fits
<1>7. ThreadsFit'
  <2>1. external' = external /\ conversation' = conversation /\ newThreads' = newThreads
    BY DEF SpawnFails, tables, provider, processes, Idle, Ended
  <2>2. worker'.run = None
    BY <1>1, <1>3 DEF SpawnFails, tables, provider, processes, Idle, Ended, IInv, TypeOK
  <2>3. \A u \in Runs : status[u] \notin {"absent", "queued"} =>
                         status'[u] \notin {"absent", "queued"}
    BY <1>3 DEF SpawnFails, tables, provider, processes, Idle, Ended, IInv, TypeOK
  <2> QED
    BY <1>4, <2>1, <2>2, <2>3 DEF IInv, WorkerFits, ThreadsFit, Answered, ConversationFits,
       Command
<1> QED
  BY <1>2, <1>4, <1>5, <1>6, <1>7 DEF IInv

LEMMA ExitKeeps ==
    ASSUME IInv, NEW r \in Runs, Exit(r)
    PROVE  IInv'
<1> USE NoneIsNoRun
<1>1. process[r] = "alive"
  BY DEF Exit, tables, provider, processes, InFlight, Stopping, IInv, TypeOK, WorkerFits
<1>2. TypeOK'
  BY DEF Exit, tables, provider, processes, IInv, TypeOK, RunStatuses, Pcs, InTurn, Levels,
     Stoppers
<1>3. /\ daemon' = daemon
      /\ worker' = worker
      /\ status'[r] = status[r]
      /\ turnId'[r] = turnId[r]
      /\ process'[r] = "exited"
      /\ conversation'[r] = conversation[r]
      /\ left'[r] = left[r]
      /\ r \in active' <=> r \in active
      /\ \A by \in Stoppers : stops'[by][r] = stops[by][r]
  BY <1>1 DEF Exit, tables, provider, processes, IInv, TypeOK, Stoppers
<1>4. WorkerFits'
  BY <1>1, <1>3 DEF IInv, WorkerFits, Stopping
<1>5. ASSUME NEW u \in Runs, u # r PROVE Fits(u)'
  <2>1. Leaves(u)
    BY <1>1, <1>3, <1>5 DEF Exit, tables, provider, processes, Leaves, IInv, TypeOK, Stoppers,
       WorkerFits
  <2> QED
    BY <2>1, LeavesFits DEF IInv
<1>6. Fits(r)'
  <2> USE <1>1, <1>3 DEF InFlight
  <2>1. Fits(r)
    BY DEF IInv
  <2>2. RunFits(r)'
    BY <2>1 DEF Fits, StatusFits, RunFits, Before, WorkerFits, IInv
  <2>3. StatusFits(r)'
    BY <2>1 DEF IInv, TypeOK, Fits, StatusFits, RunFits, Before
  <2>4. StopsFit(r)'
    BY <2>1 DEF Fits, StopsFit, Stoppers, Stopping
  <2>5. Accounted(r)'
    BY <2>1 DEF IInv, TypeOK, Fits, Accounted, RunFits, StopsFit, Stoppers, Before
  <2>6. Stoppable(r)'
    BY <2>1 DEF IInv, TypeOK, Fits, Stoppable, StatusFits, RunFits, StopsFit, Stoppers, Before,
       WorkerFits
  <2> QED
    BY <2>2, <2>3, <2>4, <2>5, <2>6 DEF Fits
<1>7. ThreadsFit'
  <2>1. external' = external /\ conversation' = conversation /\ newThreads' = newThreads
    BY DEF Exit, tables, provider, processes
  <2>2. worker' = worker
    BY <1>1, <1>3 DEF Exit, tables, provider, processes, IInv, TypeOK
  <2>3. \A u \in Runs : status[u] \notin {"absent", "queued"} =>
                         status'[u] \notin {"absent", "queued"}
    BY <1>3 DEF Exit, tables, provider, processes, IInv, TypeOK
  <2> QED
    BY <1>4, <2>1, <2>2, <2>3 DEF IInv, WorkerFits, ThreadsFit, Answered, ConversationFits,
       Command
<1> QED
  BY <1>2, <1>4, <1>5, <1>6, <1>7 DEF IInv

LEMMA AbandonKeeps ==
    ASSUME IInv, NEW r \in Runs, Abandon(r)
    PROVE  IInv'
<1> USE NoneIsNoRun
<1>1. worker.run = r /\ worker.pc = "reading" /\ status[r] \notin InFlight
  BY DEF Abandon, tables, provider, processes, Idle, Reading, InFlight, Stopping, IInv, TypeOK,
     WorkerFits
<1>2. TypeOK'
  BY DEF Abandon, tables, provider, processes, Idle, Reading, IInv, TypeOK, RunStatuses, Pcs,
     InTurn, Levels, Stoppers
<1>3. /\ daemon' = daemon
      /\ worker'.run = None /\ worker'.pc = IF daemon = "up" THEN "idle" ELSE "gone"
      /\ status'[r] = status[r]
      /\ turnId'[r] = turnId[r]
      /\ process'[r] = process[r]
      /\ conversation'[r] = conversation[r]
      /\ left'[r] = "abandoned"
      /\ r \notin active'
      /\ \A by \in Stoppers : stops'[by][r] = stops[by][r]
  BY <1>1 DEF Abandon, tables, provider, processes, Idle, Reading, IInv, TypeOK, Stoppers
<1>4. WorkerFits'
  BY <1>1, <1>3 DEF IInv, WorkerFits, Stopping
<1>5. ASSUME NEW u \in Runs, u # r PROVE Fits(u)'
  <2>1. Leaves(u)
    BY <1>1, <1>3, <1>5 DEF Abandon, tables, provider, processes, Idle, Reading, Leaves, IInv,
       TypeOK, Stoppers, WorkerFits
  <2> QED
    BY <2>1, LeavesFits DEF IInv
<1>6. Fits(r)'
  <2> USE <1>1, <1>3 DEF InFlight
  <2>1. Fits(r)
    BY DEF IInv
  <2>2. RunFits(r)'
    BY <2>1 DEF Fits, StatusFits, RunFits, Before, WorkerFits, IInv
  <2>3. StatusFits(r)'
    BY <2>1 DEF IInv, TypeOK, Fits, StatusFits, RunFits, Before
  <2>4. StopsFit(r)'
    BY <2>1 DEF Fits, StopsFit, Stoppers, Stopping
  <2>5. Accounted(r)'
    BY <2>1 DEF IInv, TypeOK, Fits, Accounted, RunFits, StopsFit, Stoppers, Before
  <2>6. Stoppable(r)'
    BY <2>1 DEF IInv, TypeOK, Fits, Stoppable, StatusFits, RunFits, StopsFit, Stoppers, Before,
       WorkerFits
  <2> QED
    BY <2>2, <2>3, <2>4, <2>5, <2>6 DEF Fits
<1>7. ThreadsFit'
  <2>1. external' = external /\ conversation' = conversation /\ newThreads' = newThreads
    BY DEF Abandon, tables, provider, processes, Idle, Reading
  <2>2. worker'.run = None
    BY <1>1, <1>3 DEF Abandon, tables, provider, processes, Idle, Reading, IInv, TypeOK
  <2>3. \A u \in Runs : status[u] \notin {"absent", "queued"} =>
                         status'[u] \notin {"absent", "queued"}
    BY <1>3 DEF Abandon, tables, provider, processes, Idle, Reading, IInv, TypeOK
  <2> QED
    BY <1>4, <2>1, <2>2, <2>3 DEF IInv, WorkerFits, ThreadsFit, Answered, ConversationFits,
       Command
<1> QED
  BY <1>2, <1>4, <1>5, <1>6, <1>7 DEF IInv

LEMMA EndOfOutputKeeps ==
    ASSUME IInv, NEW r \in Runs, EndOfOutput(r)
    PROVE  IInv'
<1> USE NoneIsNoRun
<1>1. worker.run = r /\ worker.pc = "reading"
  BY DEF EndOfOutput, tables, provider, processes, Reading, InFlight, Stopping, IInv, TypeOK,
     WorkerFits
<1>2. TypeOK'
  BY DEF EndOfOutput, tables, provider, processes, Reading, IInv, TypeOK, RunStatuses, Pcs,
     InTurn, Levels, Stoppers
<1>3. /\ daemon' = daemon
      /\ worker'.run = r /\ worker'.pc = "eof"
      /\ status'[r] = status[r]
      /\ turnId'[r] = turnId[r]
      /\ process'[r] = process[r]
      /\ conversation'[r] = conversation[r]
      /\ left'[r] = left[r]
      /\ r \in active' <=> r \in active
      /\ \A by \in Stoppers : stops'[by][r] = stops[by][r]
  BY <1>1 DEF EndOfOutput, tables, provider, processes, Reading, IInv, TypeOK, Stoppers
<1>4. WorkerFits'
  BY <1>1, <1>3 DEF IInv, WorkerFits, Stopping
<1>5. ASSUME NEW u \in Runs, u # r PROVE Fits(u)'
  <2>1. Leaves(u)
    BY <1>1, <1>3, <1>5 DEF EndOfOutput, tables, provider, processes, Reading, Leaves, IInv,
       TypeOK, Stoppers, WorkerFits
  <2> QED
    BY <2>1, LeavesFits DEF IInv
<1>6. Fits(r)'
  <2> USE <1>1, <1>3 DEF InFlight
  <2>1. Fits(r)
    BY DEF IInv
  <2>2. RunFits(r)'
    BY <2>1 DEF Fits, StatusFits, RunFits, Before, WorkerFits, IInv
  <2>3. StatusFits(r)'
    BY <2>1 DEF IInv, TypeOK, Fits, StatusFits, RunFits, Before
  <2>4. StopsFit(r)'
    BY <2>1 DEF Fits, StopsFit, Stoppers, Stopping
  <2>5. Accounted(r)'
    BY <2>1 DEF IInv, TypeOK, Fits, Accounted, RunFits, StopsFit, Stoppers, Before
  <2>6. Stoppable(r)'
    BY <2>1 DEF IInv, TypeOK, Fits, Stoppable, StatusFits, RunFits, StopsFit, Stoppers, Before,
       WorkerFits
  <2> QED
    BY <2>2, <2>3, <2>4, <2>5, <2>6 DEF Fits
<1>7. ThreadsFit'
  <2>1. external' = external /\ conversation' = conversation /\ newThreads' = newThreads
    BY DEF EndOfOutput, tables, provider, processes, Reading
  <2>2. worker'.thread = worker.thread /\ worker'.run = worker.run /\ worker.run # None
        /\ {worker.pc, worker'.pc} \cap {"checking", "probing", "spawning"} = {}
    BY <1>1, <1>3 DEF EndOfOutput, tables, provider, processes, Reading, IInv, TypeOK
  <2>3. \A u \in Runs : status[u] \notin {"absent", "queued"} =>
                         status'[u] \notin {"absent", "queued"}
    BY <1>3 DEF EndOfOutput, tables, provider, processes, Reading, IInv, TypeOK
  <2> QED
    BY <1>4, <2>1, <2>2, <2>3 DEF IInv, WorkerFits, ThreadsFit, Answered, ConversationFits,
       Command
<1> QED
  BY <1>2, <1>4, <1>5, <1>6, <1>7 DEF IInv

LEMMA EofExitsKeeps ==
    ASSUME IInv, NEW r \in Runs, EofExits(r)
    PROVE  IInv'
<1> USE NoneIsNoRun
<1>1. worker.run = r /\ worker.pc = "eof" /\ process[r] = "exited"
  BY DEF EofExits, tables, provider, processes, Idle, Ended, InFlight, Stopping, IInv, TypeOK,
     WorkerFits
<1>2. TypeOK'
  BY DEF EofExits, tables, provider, processes, Idle, Ended, IInv, TypeOK, RunStatuses, Pcs,
     InTurn, Levels, Stoppers
<1>3. /\ daemon' = daemon
      /\ worker'.run = None /\ worker'.pc = IF daemon = "up" THEN "idle" ELSE "gone"
      /\ status'[r] = IF status[r] \in InFlight THEN "failed" ELSE status[r]
      /\ turnId'[r] = turnId[r]
      /\ process'[r] = process[r]
      /\ conversation'[r] = conversation[r]
      /\ left'[r] = left[r]
      /\ r \notin active'
      /\ \A by \in Stoppers : stops'[by][r] = stops[by][r]
  BY <1>1 DEF EofExits, tables, provider, processes, Idle, Ended, IInv, TypeOK, Stoppers
<1>4. WorkerFits'
  BY <1>1, <1>3 DEF IInv, WorkerFits, Stopping
<1>5. ASSUME NEW u \in Runs, u # r PROVE Fits(u)'
  <2>1. Leaves(u)
    BY <1>1, <1>3, <1>5 DEF EofExits, tables, provider, processes, Idle, Ended, Leaves, IInv,
       TypeOK, Stoppers, WorkerFits
  <2> QED
    BY <2>1, LeavesFits DEF IInv
<1>6. Fits(r)'
  <2> USE <1>1, <1>3 DEF InFlight
  <2>1. Fits(r)
    BY DEF IInv
  <2>2. RunFits(r)'
    BY <2>1 DEF Fits, StatusFits, RunFits, Before, WorkerFits, IInv
  <2>3. StatusFits(r)'
    BY <2>1 DEF IInv, TypeOK, Fits, StatusFits, RunFits, Before
  <2>4. StopsFit(r)'
    BY <2>1 DEF Fits, StopsFit, Stoppers, Stopping
  <2>5. Accounted(r)'
    BY <2>1 DEF IInv, TypeOK, Fits, Accounted, RunFits, StopsFit, Stoppers, Before
  <2>6. Stoppable(r)'
    BY <2>1 DEF IInv, TypeOK, Fits, Stoppable, StatusFits, RunFits, StopsFit, Stoppers, Before,
       WorkerFits
  <2> QED
    BY <2>2, <2>3, <2>4, <2>5, <2>6 DEF Fits
<1>7. ThreadsFit'
  <2>1. external' = external /\ conversation' = conversation /\ newThreads' = newThreads
    BY DEF EofExits, tables, provider, processes, Idle, Ended
  <2>2. worker'.run = None
    BY <1>1, <1>3 DEF EofExits, tables, provider, processes, Idle, Ended, IInv, TypeOK
  <2>3. \A u \in Runs : status[u] \notin {"absent", "queued"} =>
                         status'[u] \notin {"absent", "queued"}
    BY <1>3 DEF EofExits, tables, provider, processes, Idle, Ended, IInv, TypeOK
  <2> QED
    BY <1>4, <2>1, <2>2, <2>3 DEF IInv, WorkerFits, ThreadsFit, Answered, ConversationFits,
       Command
<1> QED
  BY <1>2, <1>4, <1>5, <1>6, <1>7 DEF IInv

LEMMA SilentKeeps ==
    ASSUME IInv, NEW r \in Runs, Silent(r)
    PROVE  IInv'
<1> USE NoneIsNoRun
<1>1. worker.run = r /\ worker.pc = "reading"
  BY DEF Silent, tables, provider, processes, Reading, WorkerStops, InFlight, Stopping, IInv,
     TypeOK, WorkerFits
<1>2. TypeOK'
  BY DEF Silent, tables, provider, processes, Reading, WorkerStops, IInv, TypeOK, RunStatuses,
     Pcs, InTurn, Levels, Stoppers
<1>3. /\ daemon' = daemon
      /\ worker'.run = r /\ worker'.pc = "stopping"
      /\ status'[r] = status[r]
      /\ turnId'[r] = turnId[r]
      /\ process'[r] = process[r]
      /\ conversation'[r] = conversation[r]
      /\ left'[r] = left[r]
      /\ r \in active' <=> r \in active
      /\ stops'["worker"][r] = "closed"
      /\ stops'["cancel"][r] = stops["cancel"][r]
      /\ stops'["shutdown"][r] = stops["shutdown"][r]
  BY <1>1 DEF Silent, tables, provider, processes, Reading, WorkerStops, IInv, TypeOK, Stoppers
<1>4. WorkerFits'
  BY <1>1, <1>3 DEF IInv, WorkerFits, Stopping
<1>5. ASSUME NEW u \in Runs, u # r PROVE Fits(u)'
  <2>1. Leaves(u)
    BY <1>1, <1>3, <1>5 DEF Silent, tables, provider, processes, Reading, WorkerStops, Leaves,
       IInv, TypeOK, Stoppers, WorkerFits
  <2> QED
    BY <2>1, LeavesFits DEF IInv
<1>6. Fits(r)'
  <2> USE <1>1, <1>3 DEF InFlight
  <2>1. Fits(r)
    BY DEF IInv
  <2>2. RunFits(r)'
    BY <2>1 DEF Fits, StatusFits, RunFits, Before, WorkerFits, IInv
  <2>3. StatusFits(r)'
    BY <2>1 DEF IInv, TypeOK, Fits, StatusFits, RunFits, Before
  <2>4. StopsFit(r)'
    BY <2>1 DEF Fits, StopsFit, Stoppers, Stopping
  <2>5. Accounted(r)'
    BY <2>1 DEF IInv, TypeOK, Fits, Accounted, RunFits, StopsFit, Stoppers, Before
  <2>6. Stoppable(r)'
    BY <2>1 DEF IInv, TypeOK, Fits, Stoppable, StatusFits, RunFits, StopsFit, Stoppers, Before,
       WorkerFits
  <2> QED
    BY <2>2, <2>3, <2>4, <2>5, <2>6 DEF Fits
<1>7. ThreadsFit'
  <2>1. external' = external /\ conversation' = conversation /\ newThreads' = newThreads
    BY DEF Silent, tables, provider, processes, Reading, WorkerStops
  <2>2. worker'.thread = worker.thread /\ worker'.run = worker.run /\ worker.run # None
        /\ {worker.pc, worker'.pc} \cap {"checking", "probing", "spawning"} = {}
    BY <1>1, <1>3 DEF Silent, tables, provider, processes, Reading, WorkerStops, IInv, TypeOK
  <2>3. \A u \in Runs : status[u] \notin {"absent", "queued"} =>
                         status'[u] \notin {"absent", "queued"}
    BY <1>3 DEF Silent, tables, provider, processes, Reading, WorkerStops, IInv, TypeOK
  <2> QED
    BY <1>4, <2>1, <2>2, <2>3 DEF IInv, WorkerFits, ThreadsFit, Answered, ConversationFits,
       Command
<1> QED
  BY <1>2, <1>4, <1>5, <1>6, <1>7 DEF IInv

LEMMA OverflowKeeps ==
    ASSUME IInv, NEW r \in Runs, Overflow(r)
    PROVE  IInv'
<1> USE NoneIsNoRun
<1>1. worker.run = r /\ worker.pc = "reading" /\ status[r] \in InFlight
  BY DEF Overflow, tables, provider, processes, Reading, WorkerStops, InFlight, Stopping, IInv,
     TypeOK, WorkerFits
<1>2. TypeOK'
  BY DEF Overflow, tables, provider, processes, Reading, WorkerStops, IInv, TypeOK,
     RunStatuses, Pcs, InTurn, Levels, Stoppers
<1>3. /\ daemon' = daemon
      /\ worker'.run = r /\ worker'.pc = "overflowed"
      /\ status'[r] = "failed"
      /\ turnId'[r] = turnId[r]
      /\ process'[r] = process[r]
      /\ conversation'[r] = conversation[r]
      /\ left'[r] = left[r]
      /\ r \in active' <=> r \in active
      /\ stops'["worker"][r] = "closed"
      /\ stops'["cancel"][r] = stops["cancel"][r]
      /\ stops'["shutdown"][r] = stops["shutdown"][r]
  BY <1>1 DEF Overflow, tables, provider, processes, Reading, WorkerStops, IInv, TypeOK,
     Stoppers
<1>4. WorkerFits'
  BY <1>1, <1>3 DEF IInv, WorkerFits, Stopping
<1>5. ASSUME NEW u \in Runs, u # r PROVE Fits(u)'
  <2>1. Leaves(u)
    BY <1>1, <1>3, <1>5 DEF Overflow, tables, provider, processes, Reading, WorkerStops,
       Leaves, IInv, TypeOK, Stoppers, WorkerFits
  <2> QED
    BY <2>1, LeavesFits DEF IInv
<1>6. Fits(r)'
  <2> USE <1>1, <1>3 DEF InFlight
  <2>1. Fits(r)
    BY DEF IInv
  <2>2. RunFits(r)'
    BY <2>1 DEF Fits, StatusFits, RunFits, Before, WorkerFits, IInv
  <2>3. StatusFits(r)'
    BY <2>1 DEF IInv, TypeOK, Fits, StatusFits, RunFits, Before
  <2>4. StopsFit(r)'
    BY <2>1 DEF Fits, StopsFit, Stoppers, Stopping
  <2>5. Accounted(r)'
    BY <2>1 DEF IInv, TypeOK, Fits, Accounted, RunFits, StopsFit, Stoppers, Before
  <2>6. Stoppable(r)'
    BY <2>1 DEF IInv, TypeOK, Fits, Stoppable, StatusFits, RunFits, StopsFit, Stoppers, Before,
       WorkerFits
  <2> QED
    BY <2>2, <2>3, <2>4, <2>5, <2>6 DEF Fits
<1>7. ThreadsFit'
  <2>1. external' = external /\ conversation' = conversation /\ newThreads' = newThreads
    BY DEF Overflow, tables, provider, processes, Reading, WorkerStops
  <2>2. worker'.thread = worker.thread /\ worker'.run = worker.run /\ worker.run # None
        /\ {worker.pc, worker'.pc} \cap {"checking", "probing", "spawning"} = {}
    BY <1>1, <1>3 DEF Overflow, tables, provider, processes, Reading, WorkerStops, IInv, TypeOK
  <2>3. \A u \in Runs : status[u] \notin {"absent", "queued"} =>
                         status'[u] \notin {"absent", "queued"}
    BY <1>3 DEF Overflow, tables, provider, processes, Reading, WorkerStops, IInv, TypeOK
  <2> QED
    BY <1>4, <2>1, <2>2, <2>3 DEF IInv, WorkerFits, ThreadsFit, Answered, ConversationFits,
       Command
<1> QED
  BY <1>2, <1>4, <1>5, <1>6, <1>7 DEF IInv

LEMMA RaisesKeeps ==
    ASSUME IInv, NEW r \in Runs, Raises(r)
    PROVE  IInv'
<1> USE NoneIsNoRun
<1>1. worker.run = r /\ worker.pc = "reading"
  BY DEF Raises, tables, provider, processes, Reading, InFlight, Stopping, IInv, TypeOK,
     WorkerFits
<1>2. TypeOK'
  BY DEF Raises, tables, provider, processes, Reading, IInv, TypeOK, RunStatuses, Pcs, InTurn,
     Levels, Stoppers
<1>3. /\ daemon' = daemon
      /\ worker'.run = r /\ worker'.pc = "closing"
      /\ status'[r] = status[r]
      /\ turnId'[r] = turnId[r]
      /\ process'[r] = process[r]
      /\ conversation'[r] = conversation[r]
      /\ left'[r] = "raised"
      /\ r \notin active'
      /\ \A by \in Stoppers : stops'[by][r] = stops[by][r]
  BY <1>1 DEF Raises, tables, provider, processes, Reading, IInv, TypeOK, Stoppers
<1>4. WorkerFits'
  BY <1>1, <1>3 DEF IInv, WorkerFits, Stopping
<1>5. ASSUME NEW u \in Runs, u # r PROVE Fits(u)'
  <2>1. Leaves(u)
    BY <1>1, <1>3, <1>5 DEF Raises, tables, provider, processes, Reading, Leaves, IInv, TypeOK,
       Stoppers, WorkerFits
  <2> QED
    BY <2>1, LeavesFits DEF IInv
<1>6. Fits(r)'
  <2> USE <1>1, <1>3 DEF InFlight
  <2>1. Fits(r)
    BY DEF IInv
  <2>2. RunFits(r)'
    BY <2>1 DEF Fits, StatusFits, RunFits, Before, WorkerFits, IInv
  <2>3. StatusFits(r)'
    BY <2>1 DEF IInv, TypeOK, Fits, StatusFits, RunFits, Before
  <2>4. StopsFit(r)'
    BY <2>1 DEF Fits, StopsFit, Stoppers, Stopping
  <2>5. Accounted(r)'
    BY <2>1 DEF IInv, TypeOK, Fits, Accounted, RunFits, StopsFit, Stoppers, Before
  <2>6. Stoppable(r)'
    BY <2>1 DEF IInv, TypeOK, Fits, Stoppable, StatusFits, RunFits, StopsFit, Stoppers, Before,
       WorkerFits
  <2> QED
    BY <2>2, <2>3, <2>4, <2>5, <2>6 DEF Fits
<1>7. ThreadsFit'
  <2>1. external' = external /\ conversation' = conversation /\ newThreads' = newThreads
    BY DEF Raises, tables, provider, processes, Reading
  <2>2. worker'.thread = worker.thread /\ worker'.run = worker.run /\ worker.run # None
        /\ {worker.pc, worker'.pc} \cap {"checking", "probing", "spawning"} = {}
    BY <1>1, <1>3 DEF Raises, tables, provider, processes, Reading, IInv, TypeOK
  <2>3. \A u \in Runs : status[u] \notin {"absent", "queued"} =>
                         status'[u] \notin {"absent", "queued"}
    BY <1>3 DEF Raises, tables, provider, processes, Reading, IInv, TypeOK
  <2> QED
    BY <1>4, <2>1, <2>2, <2>3 DEF IInv, WorkerFits, ThreadsFit, Answered, ConversationFits,
       Command
<1> QED
  BY <1>2, <1>4, <1>5, <1>6, <1>7 DEF IInv

LEMMA ClosedKeeps ==
    ASSUME IInv, NEW r \in Runs, Closed(r)
    PROVE  IInv'
<1> USE NoneIsNoRun
<1>1. worker.run = r /\ worker.pc = "closing"
  BY DEF Closed, tables, provider, processes, Idle, Ended, InFlight, Stopping, IInv, TypeOK,
     WorkerFits
<1>2. TypeOK'
  BY DEF Closed, tables, provider, processes, Idle, Ended, IInv, TypeOK, RunStatuses, Pcs,
     InTurn, Levels, Stoppers
<1>3. /\ daemon' = daemon
      /\ worker'.run = None /\ worker'.pc = IF daemon = "up" THEN "idle" ELSE "gone"
      /\ status'[r] = IF status[r] \in InFlight THEN "failed" ELSE status[r]
      /\ turnId'[r] = turnId[r]
      /\ process'[r] = process[r]
      /\ conversation'[r] = conversation[r]
      /\ left'[r] = left[r]
      /\ r \in active' <=> r \in active
      /\ \A by \in Stoppers : stops'[by][r] = stops[by][r]
  BY <1>1 DEF Closed, tables, provider, processes, Idle, Ended, IInv, TypeOK, Stoppers
<1>4. WorkerFits'
  BY <1>1, <1>3 DEF IInv, WorkerFits, Stopping
<1>5. ASSUME NEW u \in Runs, u # r PROVE Fits(u)'
  <2>1. Leaves(u)
    BY <1>1, <1>3, <1>5 DEF Closed, tables, provider, processes, Idle, Ended, Leaves, IInv,
       TypeOK, Stoppers, WorkerFits
  <2> QED
    BY <2>1, LeavesFits DEF IInv
<1>6. Fits(r)'
  <2> USE <1>1, <1>3 DEF InFlight
  <2>1. Fits(r)
    BY DEF IInv
  <2>2. RunFits(r)'
    BY <2>1 DEF Fits, StatusFits, RunFits, Before, WorkerFits, IInv
  <2>3. StatusFits(r)'
    BY <2>1 DEF IInv, TypeOK, Fits, StatusFits, RunFits, Before
  <2>4. StopsFit(r)'
    BY <2>1 DEF Fits, StopsFit, Stoppers, Stopping
  <2>5. Accounted(r)'
    BY <2>1 DEF Fits, Accounted, RunFits, StopsFit, Stoppers, Before
  <2>6. Stoppable(r)'
    BY <2>1 DEF IInv, TypeOK, Fits, Stoppable, StatusFits, RunFits, StopsFit, Stoppers, Before,
       WorkerFits
  <2> QED
    BY <2>2, <2>3, <2>4, <2>5, <2>6 DEF Fits
<1>7. ThreadsFit'
  <2>1. external' = external /\ conversation' = conversation /\ newThreads' = newThreads
    BY DEF Closed, tables, provider, processes, Idle, Ended
  <2>2. worker'.run = None
    BY <1>1, <1>3 DEF Closed, tables, provider, processes, Idle, Ended, IInv, TypeOK
  <2>3. \A u \in Runs : status[u] \notin {"absent", "queued"} =>
                         status'[u] \notin {"absent", "queued"}
    BY <1>3 DEF Closed, tables, provider, processes, Idle, Ended, IInv, TypeOK
  <2> QED
    BY <1>4, <2>1, <2>2, <2>3 DEF IInv, WorkerFits, ThreadsFit, Answered, ConversationFits,
       Command
<1> QED
  BY <1>2, <1>4, <1>5, <1>6, <1>7 DEF IInv

LEMMA FinishKeeps ==
    ASSUME IInv, NEW r \in Runs, Finish(r)
    PROVE  IInv'
<1> USE NoneIsNoRun
<1>1. worker.run = r /\ worker.pc \in Stopping
      /\ (stops["worker"][r] = "killed" \/ process[r] = "exited")
  BY DEF Finish, tables, provider, processes, Over, Idle, Ended, WorkerStops, InFlight,
     Stopping, IInv, TypeOK, WorkerFits
<1>2. TypeOK'
  BY DEF Finish, tables, provider, processes, Over, Idle, Ended, WorkerStops, IInv, TypeOK,
     RunStatuses, Pcs, InTurn, Levels, Stoppers
<1>3. /\ daemon' = daemon
      /\ worker'.run = None /\ worker'.pc = IF daemon = "up" THEN "idle" ELSE "gone"
      /\ status'[r] = status[r] \/ (status[r] \in InFlight /\ status'[r] = "failed")
      /\ turnId'[r] = turnId[r]
      /\ process'[r] = process[r]
      /\ conversation'[r] = conversation[r]
      /\ left'[r] = left[r]
      /\ r \notin active'
      /\ stops'["worker"][r] = "no"
      /\ stops'["cancel"][r] = stops["cancel"][r]
      /\ stops'["shutdown"][r] = stops["shutdown"][r]
  BY <1>1 DEF Finish, tables, provider, processes, Over, Idle, Ended, WorkerStops, IInv,
     TypeOK, Stoppers
<1>4. WorkerFits'
  BY <1>1, <1>3 DEF IInv, WorkerFits, Stopping
<1>5. ASSUME NEW u \in Runs, u # r PROVE Fits(u)'
  <2>1. Leaves(u)
    BY <1>1, <1>3, <1>5 DEF Finish, tables, provider, processes, Over, Idle, Ended,
       WorkerStops, Leaves, IInv, TypeOK, Stoppers, WorkerFits
  <2> QED
    BY <2>1, LeavesFits DEF IInv
<1>6. Fits(r)'
  <2> USE <1>1, <1>3 DEF InFlight
  <2>1. Fits(r)
    BY DEF IInv
  <2>2. RunFits(r)'
    BY <2>1 DEF Fits, StatusFits, RunFits, Before, WorkerFits, IInv
  <2>3. StatusFits(r)'
    BY <2>1 DEF IInv, TypeOK, Fits, StatusFits, RunFits, Before
  <2>4. StopsFit(r)'
    BY <2>1 DEF Fits, StopsFit, Stoppers, Stopping
  <2>5. Accounted(r)'
    BY <2>1 DEF IInv, TypeOK, Fits, Accounted, RunFits, StopsFit, Stoppers, Before
  <2>6. Stoppable(r)'
    BY <2>1 DEF IInv, TypeOK, Fits, Stoppable, StatusFits, RunFits, StopsFit, Stoppers, Before,
       WorkerFits
  <2> QED
    BY <2>2, <2>3, <2>4, <2>5, <2>6 DEF Fits
<1>7. ThreadsFit'
  <2>1. external' = external /\ conversation' = conversation /\ newThreads' = newThreads
    BY DEF Finish, tables, provider, processes, Over, Idle, Ended, WorkerStops
  <2>2. worker'.run = None
    BY <1>1, <1>3 DEF Finish, tables, provider, processes, Over, Idle, Ended, WorkerStops,
       IInv, TypeOK
  <2>3. \A u \in Runs : status[u] \notin {"absent", "queued"} =>
                         status'[u] \notin {"absent", "queued"}
    BY <1>3 DEF Finish, tables, provider, processes, Over, Idle, Ended, WorkerStops, IInv,
       TypeOK
  <2> QED
    BY <1>4, <2>1, <2>2, <2>3 DEF IInv, WorkerFits, ThreadsFit, Answered, ConversationFits,
       Command
<1> QED
  BY <1>2, <1>4, <1>5, <1>6, <1>7 DEF IInv

LEMMA CancelAtOnceKeeps ==
    ASSUME IInv, NEW r \in Runs, CancelAtOnce(r)
    PROVE  IInv'
<1> USE NoneIsNoRun
<1>1. daemon # "off" /\ status[r] \in InFlight \cup {"queued"}
  BY DEF CancelAtOnce, tables, provider, processes, Interruptible, InFlight, Stopping, IInv,
     TypeOK, WorkerFits
<1>2. TypeOK'
  BY DEF CancelAtOnce, tables, provider, processes, Interruptible, IInv, TypeOK, RunStatuses,
     Pcs, InTurn, Levels, Stoppers
<1>3. /\ daemon' = daemon
      /\ worker' = worker
      /\ status'[r] = "cancelled"
      /\ turnId'[r] = turnId[r]
      /\ process'[r] = process[r]
      /\ conversation'[r] = conversation[r]
      /\ left'[r] = left[r]
      /\ r \in active' <=> r \in active
      /\ \A by \in Stoppers : stops'[by][r] = stops[by][r]
  BY <1>1 DEF CancelAtOnce, tables, provider, processes, Interruptible, IInv, TypeOK, Stoppers
<1>4. WorkerFits'
  BY <1>1, <1>3 DEF IInv, WorkerFits, Stopping
<1>5. ASSUME NEW u \in Runs, u # r PROVE Fits(u)'
  <2>1. Leaves(u)
    BY <1>1, <1>3, <1>5 DEF CancelAtOnce, tables, provider, processes, Interruptible, Leaves,
       IInv, TypeOK, Stoppers, WorkerFits
  <2> QED
    BY <2>1, LeavesFits DEF IInv
<1>6. Fits(r)'
  <2> USE <1>1, <1>3 DEF InFlight
  <2>1. Fits(r)
    BY DEF IInv
  <2>2. RunFits(r)'
    BY <2>1 DEF Fits, StatusFits, RunFits, Before, WorkerFits, IInv
  <2>3. StatusFits(r)'
    BY <2>1 DEF IInv, TypeOK, Fits, StatusFits, RunFits, Before
  <2>4. StopsFit(r)'
    BY <2>1 DEF Fits, StopsFit, Stoppers, Stopping
  <2>5. Accounted(r)'
    BY <2>1 DEF IInv, TypeOK, Fits, Accounted, RunFits, StopsFit, Stoppers, Before
  <2>6. Stoppable(r)'
    BY <2>1 DEF IInv, TypeOK, Fits, Stoppable, StatusFits, RunFits, StopsFit, Stoppers, Before,
       WorkerFits
  <2> QED
    BY <2>2, <2>3, <2>4, <2>5, <2>6 DEF Fits
<1>7. ThreadsFit'
  <2>1. external' = external /\ conversation' = conversation /\ newThreads' = newThreads
    BY DEF CancelAtOnce, tables, provider, processes, Interruptible
  <2>2. worker' = worker
    BY <1>1, <1>3 DEF CancelAtOnce, tables, provider, processes, Interruptible, IInv, TypeOK
  <2>3. \A u \in Runs : status[u] \notin {"absent", "queued"} =>
                         status'[u] \notin {"absent", "queued"}
    BY <1>3 DEF CancelAtOnce, tables, provider, processes, Interruptible, IInv, TypeOK
  <2> QED
    BY <1>4, <2>1, <2>2, <2>3 DEF IInv, WorkerFits, ThreadsFit, Answered, ConversationFits,
       Command
<1> QED
  BY <1>2, <1>4, <1>5, <1>6, <1>7 DEF IInv

LEMMA CancelKeeps ==
    ASSUME IInv, NEW r \in Runs, Cancel(r)
    PROVE  IInv'
<1> USE NoneIsNoRun
<1>1. status[r] \in InFlight
  BY DEF Cancel, tables, provider, processes, Interruptible, InFlight, Stopping, IInv, TypeOK,
     WorkerFits
<1>2. TypeOK'
  BY DEF Cancel, tables, provider, processes, Interruptible, IInv, TypeOK, RunStatuses, Pcs,
     InTurn, Levels, Stoppers
<1>3. /\ daemon' = daemon
      /\ worker' = worker
      /\ status'[r] = status[r]
      /\ turnId'[r] = turnId[r]
      /\ process'[r] = process[r]
      /\ conversation'[r] = conversation[r]
      /\ left'[r] = left[r]
      /\ r \in active' <=> r \in active
      /\ stops'["worker"][r] = stops["worker"][r]
      /\ stops'["cancel"][r] = "closed"
      /\ stops'["shutdown"][r] = stops["shutdown"][r]
  BY <1>1 DEF Cancel, tables, provider, processes, Interruptible, IInv, TypeOK, Stoppers
<1>4. WorkerFits'
  BY <1>1, <1>3 DEF IInv, WorkerFits, Stopping
<1>5. ASSUME NEW u \in Runs, u # r PROVE Fits(u)'
  <2>1. Leaves(u)
    BY <1>1, <1>3, <1>5 DEF Cancel, tables, provider, processes, Interruptible, Leaves, IInv,
       TypeOK, Stoppers, WorkerFits
  <2> QED
    BY <2>1, LeavesFits DEF IInv
<1>6. Fits(r)'
  <2> USE <1>1, <1>3 DEF InFlight
  <2>1. Fits(r)
    BY DEF IInv
  <2>2. RunFits(r)'
    BY <2>1 DEF Fits, StatusFits, RunFits, Before, WorkerFits, IInv
  <2>3. StatusFits(r)'
    BY <2>1 DEF IInv, TypeOK, Fits, StatusFits, RunFits, Before
  <2>4. StopsFit(r)'
    BY <2>1 DEF Fits, StopsFit, Stoppers, Stopping
  <2>5. Accounted(r)'
    BY <2>1 DEF IInv, TypeOK, Fits, Accounted, RunFits, StopsFit, Stoppers, Before
  <2>6. Stoppable(r)'
    BY <2>1 DEF IInv, TypeOK, Fits, Stoppable, StatusFits, RunFits, StopsFit, Stoppers, Before,
       WorkerFits
  <2> QED
    BY <2>2, <2>3, <2>4, <2>5, <2>6 DEF Fits
<1>7. ThreadsFit'
  <2>1. external' = external /\ conversation' = conversation /\ newThreads' = newThreads
    BY DEF Cancel, tables, provider, processes, Interruptible
  <2>2. worker' = worker
    BY <1>1, <1>3 DEF Cancel, tables, provider, processes, Interruptible, IInv, TypeOK
  <2>3. \A u \in Runs : status[u] \notin {"absent", "queued"} =>
                         status'[u] \notin {"absent", "queued"}
    BY <1>3 DEF Cancel, tables, provider, processes, Interruptible, IInv, TypeOK
  <2> QED
    BY <1>4, <2>1, <2>2, <2>3 DEF IInv, WorkerFits, ThreadsFit, Answered, ConversationFits,
       Command
<1> QED
  BY <1>2, <1>4, <1>5, <1>6, <1>7 DEF IInv

LEMMA CancelReturnsKeeps ==
    ASSUME IInv, NEW r \in Runs, CancelReturns(r)
    PROVE  IInv'
<1> USE NoneIsNoRun
<1>2. TypeOK'
  BY DEF CancelReturns, tables, provider, processes, Over, Ended, IInv, TypeOK, RunStatuses,
     Pcs, InTurn, Levels, Stoppers
<1>3. /\ daemon' = daemon
      /\ worker' = worker
      /\ status'[r] = IF status[r] \in InFlight THEN "cancelled" ELSE status[r]
      /\ turnId'[r] = turnId[r]
      /\ process'[r] = process[r]
      /\ conversation'[r] = conversation[r]
      /\ left'[r] = left[r]
      /\ r \in active' <=> r \in active
      /\ stops'["worker"][r] = stops["worker"][r]
      /\ stops'["cancel"][r] = "no"
      /\ stops'["shutdown"][r] = stops["shutdown"][r]
  BY DEF CancelReturns, tables, provider, processes, Over, Ended, IInv, TypeOK, Stoppers
<1>4. WorkerFits'
  BY <1>3 DEF IInv, WorkerFits, Stopping
<1>5. ASSUME NEW u \in Runs, u # r PROVE Fits(u)'
  <2>1. Leaves(u)
    BY <1>3, <1>5 DEF CancelReturns, tables, provider, processes, Over, Ended, Leaves, IInv,
       TypeOK, Stoppers, WorkerFits
  <2> QED
    BY <2>1, LeavesFits DEF IInv
<1>6. Fits(r)'
  <2> USE <1>3 DEF InFlight
  <2>1. Fits(r)
    BY DEF IInv
  <2>2. RunFits(r)'
    BY <2>1 DEF Fits, StatusFits, RunFits, Before, WorkerFits, IInv
  <2>3. StatusFits(r)'
    BY <2>1 DEF IInv, TypeOK, Fits, StatusFits, RunFits, Before
  <2>4. StopsFit(r)'
    BY <2>1 DEF Fits, StopsFit, Stoppers, Stopping
  <2>5. Accounted(r)'
    BY <2>1 DEF IInv, TypeOK, Fits, Accounted, RunFits, StopsFit, Stoppers, Before
  <2>6. Stoppable(r)'
    BY <2>1 DEF IInv, TypeOK, Fits, Stoppable, StatusFits, RunFits, StopsFit, Stoppers, Before,
       WorkerFits
  <2> QED
    BY <2>2, <2>3, <2>4, <2>5, <2>6 DEF Fits
<1>7. ThreadsFit'
  <2>1. external' = external /\ conversation' = conversation /\ newThreads' = newThreads
    BY DEF CancelReturns, tables, provider, processes, Over, Ended
  <2>2. worker' = worker
    BY <1>3 DEF CancelReturns, tables, provider, processes, Over, Ended, IInv, TypeOK
  <2>3. \A u \in Runs : status[u] \notin {"absent", "queued"} =>
                         status'[u] \notin {"absent", "queued"}
    BY <1>3 DEF CancelReturns, tables, provider, processes, Over, Ended, IInv, TypeOK
  <2> QED
    BY <1>4, <2>1, <2>2, <2>3 DEF IInv, WorkerFits, ThreadsFit, Answered, ConversationFits,
       Command
<1> QED
  BY <1>2, <1>4, <1>5, <1>6, <1>7 DEF IInv

LEMMA StopReturnsKeeps ==
    ASSUME IInv, NEW r \in Runs, StopReturns(r)
    PROVE  IInv'
<1> USE NoneIsNoRun
<1>1. stops["shutdown"][r] = "killed" \/ process[r] = "exited"
  BY DEF StopReturns, tables, provider, processes, Over, InFlight, Stopping, IInv, TypeOK,
     WorkerFits
<1>2. TypeOK'
  BY DEF StopReturns, tables, provider, processes, Over, IInv, TypeOK, RunStatuses, Pcs,
     InTurn, Levels, Stoppers
<1>3. /\ daemon' = daemon
      /\ worker' = worker
      /\ status'[r] = status[r]
      /\ turnId'[r] = turnId[r]
      /\ process'[r] = process[r]
      /\ conversation'[r] = conversation[r]
      /\ left'[r] = left[r]
      /\ r \in active' <=> r \in active
      /\ stops'["worker"][r] = stops["worker"][r]
      /\ stops'["cancel"][r] = stops["cancel"][r]
      /\ stops'["shutdown"][r] = "no"
  BY <1>1 DEF StopReturns, tables, provider, processes, Over, IInv, TypeOK, Stoppers
<1>4. WorkerFits'
  BY <1>1, <1>3 DEF IInv, WorkerFits, Stopping
<1>5. ASSUME NEW u \in Runs, u # r PROVE Fits(u)'
  <2>1. Leaves(u)
    BY <1>1, <1>3, <1>5 DEF StopReturns, tables, provider, processes, Over, Leaves, IInv,
       TypeOK, Stoppers, WorkerFits
  <2> QED
    BY <2>1, LeavesFits DEF IInv
<1>6. Fits(r)'
  <2> USE <1>1, <1>3 DEF InFlight
  <2>1. Fits(r)
    BY DEF IInv
  <2>2. RunFits(r)'
    BY <2>1 DEF Fits, StatusFits, RunFits, Before, WorkerFits, IInv
  <2>3. StatusFits(r)'
    BY <2>1 DEF IInv, TypeOK, Fits, StatusFits, RunFits, Before
  <2>4. StopsFit(r)'
    BY <2>1 DEF Fits, StopsFit, Stoppers, Stopping
  <2>5. Accounted(r)'
    BY <2>1 DEF IInv, TypeOK, Fits, Accounted, RunFits, StopsFit, Stoppers, Before
  <2>6. Stoppable(r)'
    BY <2>1 DEF IInv, TypeOK, Fits, Stoppable, StatusFits, RunFits, StopsFit, Stoppers, Before,
       WorkerFits
  <2> QED
    BY <2>2, <2>3, <2>4, <2>5, <2>6 DEF Fits
<1>7. ThreadsFit'
  <2>1. external' = external /\ conversation' = conversation /\ newThreads' = newThreads
    BY DEF StopReturns, tables, provider, processes, Over
  <2>2. worker' = worker
    BY <1>1, <1>3 DEF StopReturns, tables, provider, processes, Over, IInv, TypeOK
  <2>3. \A u \in Runs : status[u] \notin {"absent", "queued"} =>
                         status'[u] \notin {"absent", "queued"}
    BY <1>3 DEF StopReturns, tables, provider, processes, Over, IInv, TypeOK
  <2> QED
    BY <1>4, <2>1, <2>2, <2>3 DEF IInv, WorkerFits, ThreadsFit, Answered, ConversationFits,
       Command
<1> QED
  BY <1>2, <1>4, <1>5, <1>6, <1>7 DEF IInv

LEMMA ProbeKeeps ==
    ASSUME IInv, Probe
    PROVE  IInv'
<1> USE NoneIsNoRun
<1>r. PICK r \in Runs : r = worker.run
  BY DEF Probe, IInv, TypeOK, WorkerFits
<1> USE <1>r
<1>1. worker.run = r /\ worker.pc = "checking"
  BY DEF Probe, tables, provider, processes, InFlight, Stopping, IInv, TypeOK, WorkerFits
<1>2. TypeOK'
  BY DEF Probe, tables, provider, processes, IInv, TypeOK, RunStatuses, Pcs, InTurn, Levels,
     Stoppers
<1>3. /\ daemon' = daemon
      /\ worker'.run = r /\ worker'.pc = "probing"
      /\ status'[r] = status[r]
      /\ turnId'[r] = turnId[r]
      /\ process'[r] = process[r]
      /\ conversation'[r] = conversation[r]
      /\ left'[r] = left[r]
      /\ r \in active' <=> r \in active
      /\ \A by \in Stoppers : stops'[by][r] = stops[by][r]
  BY <1>1 DEF Probe, tables, provider, processes, IInv, TypeOK, Stoppers
<1>4. WorkerFits'
  BY <1>1, <1>3 DEF IInv, WorkerFits, Stopping
<1>5. ASSUME NEW u \in Runs, u # r PROVE Fits(u)'
  <2>1. Leaves(u)
    BY <1>1, <1>3, <1>5 DEF Probe, tables, provider, processes, Leaves, IInv, TypeOK, Stoppers,
       WorkerFits
  <2> QED
    BY <2>1, LeavesFits DEF IInv
<1>6. Fits(r)'
  <2> USE <1>1, <1>3 DEF InFlight
  <2>1. Fits(r)
    BY DEF IInv
  <2>2. RunFits(r)'
    BY <2>1 DEF Fits, StatusFits, RunFits, Before, WorkerFits, IInv
  <2>3. StatusFits(r)'
    BY <2>1 DEF IInv, TypeOK, Fits, StatusFits, RunFits, Before
  <2>4. StopsFit(r)'
    BY <2>1 DEF Fits, StopsFit, Stoppers, Stopping
  <2>5. Accounted(r)'
    BY <2>1 DEF IInv, TypeOK, Fits, Accounted, RunFits, StopsFit, Stoppers, Before
  <2>6. Stoppable(r)'
    BY <2>1 DEF IInv, TypeOK, Fits, Stoppable, StatusFits, RunFits, StopsFit, Stoppers, Before,
       WorkerFits
  <2> QED
    BY <2>2, <2>3, <2>4, <2>5, <2>6 DEF Fits
<1>7. ThreadsFit'
  <2>1. external' = external /\ conversation' = conversation /\ newThreads' = newThreads
    BY DEF Probe, tables, provider, processes
  <2>2. /\ worker'.thread = worker.thread /\ worker'.run = worker.run /\ worker.run # None
        /\ {worker.pc, worker'.pc} \subseteq {"checking", "probing"}
    BY <1>1, <1>3 DEF Probe, IInv, TypeOK
  <2> QED
    BY <2>1, <2>2 DEF IInv, ThreadsFit, Answered, ConversationFits, Command
<1> QED
  BY <1>2, <1>4, <1>5, <1>6, <1>7 DEF IInv

LEMMA OpenKeeps ==
    ASSUME IInv, NEW r \in Runs, Open(r)
    PROVE  IInv'
<1> USE NoneIsNoRun
<1>1. worker.run = r /\ worker.pc \in {"checking", "probing"}
  BY DEF Open, tables, provider, processes, RecordedAt, Idle, InFlight, Stopping, IInv, TypeOK,
     WorkerFits
<1>2. TypeOK'
  BY DEF Open, tables, provider, processes, RecordedAt, Idle, IInv, TypeOK, RunStatuses, Pcs,
     InTurn, Levels, Stoppers
<1>3. /\ daemon' = daemon
      /\ \/ worker'.run = None /\ worker'.pc = IF daemon = "up" THEN "idle" ELSE "gone"
         \/ worker'.run = r /\ worker'.pc = "spawning"
      /\ status'[r] = status[r]
      /\ turnId'[r] = turnId[r]
      /\ process'[r] = process[r]
      /\ conversation'[r] = conversation[r]
      /\ left'[r] = left[r]
      /\ r \in active' <=> r \in active
      /\ \A by \in Stoppers : stops'[by][r] = stops[by][r]
  BY <1>1 DEF Open, tables, provider, processes, RecordedAt, Idle, IInv, TypeOK, Stoppers
<1>4. WorkerFits'
  BY <1>1, <1>3 DEF IInv, WorkerFits, Stopping
<1>5. ASSUME NEW u \in Runs, u # r PROVE Fits(u)'
  <2>1. Leaves(u)
    BY <1>1, <1>3, <1>5 DEF Open, tables, provider, processes, RecordedAt, Idle, Leaves, IInv,
       TypeOK, Stoppers, WorkerFits
  <2> QED
    BY <2>1, LeavesFits DEF IInv
<1>6. Fits(r)'
  <2> USE <1>1, <1>3 DEF InFlight
  <2>1. Fits(r)
    BY DEF IInv
  <2>2. RunFits(r)'
    BY <2>1 DEF Fits, StatusFits, RunFits, Before, WorkerFits, IInv
  <2>3. StatusFits(r)'
    BY <2>1 DEF IInv, TypeOK, Fits, StatusFits, RunFits, Before
  <2>4. StopsFit(r)'
    BY <2>1 DEF Fits, StopsFit, Stoppers, Stopping
  <2>5. Accounted(r)'
    BY <2>1 DEF IInv, TypeOK, Fits, Accounted, RunFits, StopsFit, Stoppers, Before
  <2>6. Stoppable(r)'
    BY <2>1 DEF IInv, TypeOK, Fits, Stoppable, StatusFits, RunFits, StopsFit, Stoppers, Before,
       WorkerFits
  <2> QED
    BY <2>2, <2>3, <2>4, <2>5, <2>6 DEF Fits
<1>7. ThreadsFit'
  <2> DEFINE thread == IF worker.thread = None THEN r ELSE worker.thread
  <2>1. external' = external /\ conversation' = conversation /\ status' = status
    BY DEF Open, RecordedAt, tables, processes
  <2>2. /\ newThreads' \subseteq newThreads \cup {thread}
        /\ thread \in newThreads' <=> worker.thread = None \/ thread \in newThreads'
        /\ worker.thread = None => thread \in newThreads'
        /\ worker.thread # None => newThreads' \subseteq newThreads
    BY DEF Open
  <2>3. worker'.pc = "spawning" => worker'.thread = thread
    BY DEF Open, IInv, TypeOK, Idle
  <2>4. thread \in Runs /\ status[thread] \notin {"absent", "queued"}
    BY <1>1 DEF IInv, TypeOK, ThreadsFit, Answered, Fits, RunFits, StatusFits
  <2>5. IF worker.thread = None THEN conversation[thread] = "none" ELSE Answered(thread)
    BY <1>1 DEF IInv, TypeOK, ThreadsFit
  <2>6. external # None => Answered(external)
    BY DEF IInv, ThreadsFit
  <2> QED
    BY <1>3, <2>1, <2>2, <2>3, <2>4, <2>5, <2>6 DEF ThreadsFit, Answered, ConversationFits,
       Command
<1> QED
  BY <1>2, <1>4, <1>5, <1>6, <1>7 DEF IInv

LEMMA SpawnedStreamsKeeps ==
    ASSUME IInv, NEW r \in Runs, Spawned(r), status[r] \in InFlight
    PROVE  IInv'
<1>0. /\ worker.pc = "spawning" /\ worker.run = r
      /\ process' = [process EXCEPT ![r] = "alive"] /\ active' = active \cup {r}
      /\ status' = [status EXCEPT ![r] = "streaming"] /\ turnId' = [turnId EXCEPT ![r] = TRUE]
      /\ worker' = [worker EXCEPT !.pc = "reading"]
      /\ conversation' = IF Command(worker.thread) = "--resume" THEN conversation
                         ELSE [conversation EXCEPT ![worker.thread] = "begun"]
      /\ UNCHANGED <<left, daemon, crashes, external, provider, stops>>
  BY DEF Spawned, Reading, WorkerStops
<1> USE NoneIsNoRun
<1>1. worker.run = r /\ worker.pc = "spawning" /\ status[r] \in InFlight
  BY <1>0 DEF tables, provider, processes, InFlight, Stopping, IInv, TypeOK, WorkerFits
<1>2. TypeOK'
  BY <1>0 DEF tables, provider, processes, IInv, TypeOK, RunStatuses, Pcs, InTurn, Levels,
     Stoppers
<1>3. /\ daemon' = daemon
      /\ worker'.run = r /\ worker'.pc = "reading"
      /\ status'[r] = "streaming"
      /\ turnId'[r] = TRUE
      /\ process'[r] = "alive"
      /\ left'[r] = left[r]
      /\ r \in active'
      /\ \A by \in Stoppers : stops'[by][r] = stops[by][r]
  BY <1>0, <1>1 DEF tables, provider, processes, IInv, TypeOK, Stoppers
<1>4. WorkerFits'
  BY <1>1, <1>3 DEF IInv, WorkerFits, Stopping
<1>5. ASSUME NEW u \in Runs, u # r PROVE Fits(u)'
  <2>c. status[u] \in {"absent", "queued"} => conversation'[u] = conversation[u]
    BY <1>0, <1>1 DEF IInv, TypeOK, ThreadsFit, tables, provider, processes
  <2>1. Leaves(u)
    BY <1>0, <1>1, <1>3, <1>5, <2>c DEF tables, provider, processes, Leaves, IInv, TypeOK,
       Stoppers, WorkerFits
  <2> QED
    BY <2>1, LeavesFits DEF IInv
<1>6. Fits(r)'
  <2> USE <1>1, <1>3 DEF InFlight
  <2>1. Fits(r)
    BY DEF IInv
  <2>2. RunFits(r)'
    BY <2>1 DEF Fits, StatusFits, RunFits, Before, WorkerFits, IInv
  <2>3. StatusFits(r)'
    BY <2>1 DEF IInv, TypeOK, Fits, StatusFits, RunFits, Before
  <2>4. StopsFit(r)'
    BY <2>1 DEF Fits, StopsFit, Stoppers, Stopping, RunFits, Before
  <2>5. Accounted(r)'
    BY <2>1 DEF IInv, TypeOK, Fits, Accounted, RunFits, StopsFit, Stoppers, Before
  <2>6. Stoppable(r)'
    BY <2>1 DEF IInv, TypeOK, Fits, Stoppable, StatusFits, RunFits, StopsFit, Stoppers, Before,
       WorkerFits
  <2> QED
    BY <2>2, <2>3, <2>4, <2>5, <2>6 DEF Fits
<1>7. ThreadsFit'
  <2>1. /\ external' = external /\ newThreads' = newThreads
        /\ conversation' = IF worker.thread \in newThreads
                           THEN [conversation EXCEPT ![worker.thread] = "begun"] ELSE conversation
    BY <1>0 DEF Command, provider
  <2>2. worker'.thread = worker.thread /\ worker'.run = r /\ worker'.pc = "reading"
    BY <1>0, <1>3 DEF IInv, TypeOK
  <2>3. worker.thread \in Runs /\ status[worker.thread] \notin {"absent", "queued"}
    BY <1>1 DEF IInv, ThreadsFit
  <2>4. status'[worker.thread] \notin {"absent", "queued"}
    BY <1>0, <2>3 DEF IInv, TypeOK
  <2>5. (external # None => Answered(external))'
    BY <2>1, <2>3 DEF IInv, TypeOK, ThreadsFit, Answered
  <2> QED
    BY <2>1, <2>2, <2>3, <2>4, <2>5 DEF ThreadsFit, ConversationFits
<1> QED
  BY <1>2, <1>4, <1>5, <1>6, <1>7 DEF IInv

LEMMA SpawnedAbandonsKeeps ==
    ASSUME IInv, NEW r \in Runs, Spawned(r), status[r] \notin InFlight
    PROVE  IInv'
<1>0. /\ worker.pc = "spawning" /\ worker.run = r
      /\ process' = [process EXCEPT ![r] = "alive"] /\ active' = active \cup {r}
      /\ worker' = Idle
      /\ left' = [left EXCEPT ![r] = "abandoned"]
      /\ UNCHANGED <<status, turnId, conversation, daemon, crashes, external, provider, stops>>
  BY DEF Spawned, Reading, WorkerStops
<1> USE NoneIsNoRun
<1>1. worker.run = r /\ worker.pc = "spawning" /\ status[r] \notin InFlight
  BY <1>0 DEF tables, provider, processes, Idle, InFlight, Stopping, IInv, TypeOK, WorkerFits
<1>2. TypeOK'
  BY <1>0 DEF tables, provider, processes, Idle, IInv, TypeOK, RunStatuses, Pcs, InTurn,
     Levels, Stoppers
<1>3. /\ daemon' = daemon
      /\ worker'.run = None /\ worker'.pc = IF daemon = "up" THEN "idle" ELSE "gone"
      /\ status'[r] = status[r]
      /\ turnId'[r] = turnId[r]
      /\ process'[r] = "alive"
      /\ left'[r] = "abandoned"
      /\ r \in active'
      /\ \A by \in Stoppers : stops'[by][r] = stops[by][r]
  BY <1>0, <1>1 DEF tables, provider, processes, Idle, IInv, TypeOK, Stoppers
<1>4. WorkerFits'
  BY <1>1, <1>3 DEF IInv, WorkerFits, Stopping
<1>5. ASSUME NEW u \in Runs, u # r PROVE Fits(u)'
  <2>c. status[u] \in {"absent", "queued"} => conversation'[u] = conversation[u]
    BY <1>0, <1>1 DEF IInv, TypeOK, ThreadsFit, tables, provider, processes
  <2>1. Leaves(u)
    BY <1>0, <1>1, <1>3, <1>5, <2>c DEF tables, provider, processes, Idle, Leaves, IInv,
       TypeOK, Stoppers, WorkerFits
  <2> QED
    BY <2>1, LeavesFits DEF IInv
<1>6. Fits(r)'
  <2> USE <1>1, <1>3 DEF InFlight
  <2>1. Fits(r)
    BY DEF IInv
  <2>2. RunFits(r)'
    BY <2>1 DEF Fits, StatusFits, RunFits, Before, WorkerFits, IInv
  <2>3. StatusFits(r)'
    BY <2>1 DEF IInv, TypeOK, Fits, StatusFits, RunFits, Before
  <2>4. StopsFit(r)'
    BY <2>1 DEF Fits, StopsFit, Stoppers, Stopping, RunFits, Before
  <2>5. Accounted(r)'
    BY <2>1 DEF IInv, TypeOK, Fits, Accounted, RunFits, StopsFit, Stoppers, Before
  <2>6. Stoppable(r)'
    BY <2>1 DEF IInv, TypeOK, Fits, Stoppable, StatusFits, RunFits, StopsFit, Stoppers, Before,
       WorkerFits
  <2> QED
    BY <2>2, <2>3, <2>4, <2>5, <2>6 DEF Fits
<1>7. ThreadsFit'
  <2>1. external' = external /\ conversation' = conversation /\ newThreads' = newThreads
    BY <1>0 DEF provider
  <2> QED
    BY <1>3, <2>1 DEF IInv, ThreadsFit, Answered, ConversationFits, Command
<1> QED
  BY <1>2, <1>4, <1>5, <1>6, <1>7 DEF IInv

LEMMA ResultEndsKeeps ==
    ASSUME IInv, NEW r \in Runs, NEW success \in BOOLEAN, Result(r, success), status[r] \in InFlight
    PROVE  IInv'
<1>0. /\ worker.pc = "reading" /\ worker.run = r
      /\ newThreads' = IF success THEN newThreads \ {worker.thread} ELSE newThreads
      /\ conversation' = IF success THEN [conversation EXCEPT ![worker.thread] = "answered"]
                         ELSE conversation
      /\ status' = [status EXCEPT ![r] = IF success THEN "completed" ELSE "failed"]
      /\ external' = IF success THEN worker.thread ELSE external
      /\ worker' = [worker EXCEPT !.pc = "exiting"]
      /\ stops' = [stops EXCEPT !["worker"][r] = "waiting"]
      /\ UNCHANGED <<active, left, daemon, crashes, turnId, health, probing, resumed, process>>
  BY DEF Result, Reading, WorkerStops
<1> USE NoneIsNoRun
<1>1. worker.run = r /\ worker.pc = "reading" /\ status[r] \in InFlight
  BY <1>0 DEF tables, provider, processes, InFlight, Stopping, IInv, TypeOK, WorkerFits
<1>2. TypeOK'
  BY <1>0 DEF tables, provider, processes, IInv, TypeOK, RunStatuses, Pcs, InTurn, Levels,
     Stoppers
<1>3. /\ daemon' = daemon
      /\ worker'.run = r /\ worker'.pc = "exiting"
      /\ status'[r] \in {"completed", "failed"}
      /\ turnId'[r] = turnId[r]
      /\ process'[r] = process[r]
      /\ left'[r] = left[r]
      /\ r \in active' <=> r \in active
      /\ stops'["worker"][r] = "waiting"
      /\ stops'["cancel"][r] = stops["cancel"][r]
      /\ stops'["shutdown"][r] = stops["shutdown"][r]
  BY <1>0, <1>1 DEF tables, provider, processes, IInv, TypeOK, Stoppers
<1>4. WorkerFits'
  BY <1>1, <1>3 DEF IInv, WorkerFits, Stopping
<1>5. ASSUME NEW u \in Runs, u # r PROVE Fits(u)'
  <2>c. status[u] \in {"absent", "queued"} => conversation'[u] = conversation[u]
    BY <1>0, <1>1 DEF IInv, TypeOK, ThreadsFit, tables, provider, processes
  <2>1. Leaves(u)
    <3>1. status'[u] = status[u] /\ \A b \in Stoppers : stops'[b][u] = stops[b][u]
      <4>1. \A b \in Stoppers : stops'[b][u] = stops[b][u]
        BY <1>0, <1>5, OneStopMoves DEF Stoppers
      <4>2. status'[u] = status[u]
        BY <1>0, <1>5 DEF IInv, TypeOK
      <4> QED
        BY <4>1, <4>2
    <3>2. u \in active' <=> u \in active
      BY <1>0, <1>5
    <3> QED
      BY <1>0, <1>1, <1>3, <1>5, <2>c, <3>1, <3>2 DEF Leaves
  <2> QED
    BY <2>1, LeavesFits DEF IInv
<1>6. Fits(r)'
  <2> USE <1>1, <1>3 DEF InFlight
  <2>1. Fits(r)
    BY DEF IInv
  <2>2. RunFits(r)'
    BY <2>1 DEF Fits, StatusFits, RunFits, Before, WorkerFits, IInv
  <2>3. StatusFits(r)'
    BY <2>1 DEF IInv, TypeOK, Fits, StatusFits, RunFits, Before
  <2>4. StopsFit(r)'
    BY <2>1 DEF Fits, StopsFit, Stoppers, Stopping
  <2>5. Accounted(r)'
    BY <2>1 DEF IInv, TypeOK, Fits, Accounted, RunFits, StopsFit, Stoppers, Before
  <2>6. Stoppable(r)'
    BY <2>1 DEF IInv, TypeOK, Fits, Stoppable, StatusFits, RunFits, StopsFit, Stoppers, Before,
       WorkerFits
  <2> QED
    BY <2>2, <2>3, <2>4, <2>5, <2>6 DEF Fits
<1>7. ThreadsFit'
  <2>1. worker'.thread = worker.thread /\ worker'.run = r /\ worker'.pc = "exiting"
    BY <1>0, <1>3 DEF IInv, TypeOK
  <2>2. worker.thread \in Runs /\ status[worker.thread] \notin {"absent", "queued"}
    BY <1>1 DEF IInv, ThreadsFit
  <2>3. status'[worker.thread] \notin {"absent", "queued"}
    BY <1>0, <2>2 DEF IInv, TypeOK
  <2>4. (external # None => Answered(external))'
    BY <1>0, <2>2 DEF IInv, TypeOK, ThreadsFit, Answered
  <2> QED
    BY <2>1, <2>2, <2>3, <2>4 DEF ThreadsFit, ConversationFits
<1> QED
  BY <1>2, <1>4, <1>5, <1>6, <1>7 DEF IInv

LEMMA ResultAbandonsKeeps ==
    ASSUME IInv, NEW r \in Runs, NEW success \in BOOLEAN, Result(r,
           success), status[r] \notin InFlight
    PROVE  IInv'
<1>0. /\ worker.pc = "reading" /\ worker.run = r
      /\ newThreads' = IF success THEN newThreads \ {worker.thread} ELSE newThreads
      /\ conversation' = IF success THEN [conversation EXCEPT ![worker.thread] = "answered"]
                         ELSE conversation
      /\ worker' = Idle
      /\ active' = active \ {r}
      /\ left' = [left EXCEPT ![r] = "abandoned"]
      /\ UNCHANGED <<status, external, stops, daemon, crashes, turnId, health, probing,
                     resumed, process>>
  BY DEF Result, Reading, WorkerStops
<1> USE NoneIsNoRun
<1>1. worker.run = r /\ worker.pc = "reading" /\ status[r] \notin InFlight
  BY <1>0 DEF tables, provider, processes, Idle, InFlight, Stopping, IInv, TypeOK, WorkerFits
<1>2. TypeOK'
  BY <1>0 DEF tables, provider, processes, Idle, IInv, TypeOK, RunStatuses, Pcs, InTurn,
     Levels, Stoppers
<1>3. /\ daemon' = daemon
      /\ worker'.run = None /\ worker'.pc = IF daemon = "up" THEN "idle" ELSE "gone"
      /\ status'[r] = status[r]
      /\ turnId'[r] = turnId[r]
      /\ process'[r] = process[r]
      /\ left'[r] = "abandoned"
      /\ r \notin active'
      /\ \A by \in Stoppers : stops'[by][r] = stops[by][r]
  BY <1>0, <1>1 DEF tables, provider, processes, Idle, IInv, TypeOK, Stoppers
<1>4. WorkerFits'
  BY <1>1, <1>3 DEF IInv, WorkerFits, Stopping
<1>5. ASSUME NEW u \in Runs, u # r PROVE Fits(u)'
  <2>c. status[u] \in {"absent", "queued"} => conversation'[u] = conversation[u]
    BY <1>0, <1>1 DEF IInv, TypeOK, ThreadsFit, tables, provider, processes
  <2>1. Leaves(u)
    BY <1>0, <1>1, <1>3, <1>5, <2>c DEF tables, provider, processes, Idle, Leaves, IInv,
       TypeOK, Stoppers, WorkerFits
  <2> QED
    BY <2>1, LeavesFits DEF IInv
<1>6. Fits(r)'
  <2> USE <1>1, <1>3 DEF InFlight
  <2>1. Fits(r)
    BY DEF IInv
  <2>2. RunFits(r)'
    BY <2>1 DEF Fits, StatusFits, RunFits, Before, WorkerFits, IInv
  <2>3. StatusFits(r)'
    BY <2>1 DEF IInv, TypeOK, Fits, StatusFits, RunFits, Before
  <2>4. StopsFit(r)'
    BY <2>1 DEF Fits, StopsFit, Stoppers, Stopping
  <2>5. Accounted(r)'
    BY <2>1 DEF IInv, TypeOK, Fits, Accounted, RunFits, StopsFit, Stoppers, Before
  <2>6. Stoppable(r)'
    BY <2>1 DEF IInv, TypeOK, Fits, Stoppable, StatusFits, RunFits, StopsFit, Stoppers, Before,
       WorkerFits
  <2> QED
    BY <2>2, <2>3, <2>4, <2>5, <2>6 DEF Fits
<1>7. ThreadsFit'
  <2>1. worker.thread \in Runs
    BY <1>1 DEF IInv, ThreadsFit
  <2>2. (external # None => Answered(external))'
    BY <1>0, <2>1 DEF IInv, TypeOK, ThreadsFit, Answered
  <2>3. external' = external
    BY <1>0
  <2> QED
    BY <1>3, <2>2, <2>3 DEF ThreadsFit, ConversationFits, Answered
<1> QED
  BY <1>2, <1>4, <1>5, <1>6, <1>7 DEF IInv

LEMMA TimeOutStopsKeeps ==
    ASSUME IInv, NEW r \in Runs, TimeOut(r), worker.pc \in Cancelled
    PROVE  IInv'
<1>0. /\ worker.run = r /\ daemon = "up" /\ worker.pc \in Cancelled
      /\ worker' = [worker EXCEPT !.pc = "cancelling", !.timed = TRUE]
      /\ stops' = [stops EXCEPT !["worker"][r] = "closed"]
      /\ UNCHANGED <<status, active, left, daemon, crashes, turnId, external, provider,
                     process, conversation>>
  BY DEF TimeOut, Cancelled, WorkerStops
<1> USE NoneIsNoRun
<1>1. worker.run = r /\ worker.pc \in Cancelled /\ daemon = "up"
  BY <1>0 DEF tables, provider, processes, Cancelled, InFlight, Stopping, IInv, TypeOK,
     WorkerFits
<1>2. TypeOK'
  BY <1>0 DEF tables, provider, processes, Cancelled, IInv, TypeOK, RunStatuses, Pcs, InTurn,
     Levels, Stoppers
<1>3. /\ daemon' = daemon
      /\ worker'.run = r /\ worker'.pc = "cancelling"
      /\ status'[r] = status[r]
      /\ turnId'[r] = turnId[r]
      /\ process'[r] = process[r]
      /\ conversation'[r] = conversation[r]
      /\ left'[r] = left[r]
      /\ r \in active' <=> r \in active
      /\ stops'["worker"][r] = "closed"
      /\ stops'["cancel"][r] = stops["cancel"][r]
      /\ stops'["shutdown"][r] = stops["shutdown"][r]
  BY <1>0, <1>1 DEF tables, provider, processes, Cancelled, IInv, TypeOK, Stoppers
<1>4. WorkerFits'
  BY <1>1, <1>3 DEF IInv, WorkerFits, Stopping
<1>5. ASSUME NEW u \in Runs, u # r PROVE Fits(u)'
  <2>1. Leaves(u)
    BY <1>0, <1>1, <1>3, <1>5 DEF tables, provider, processes, Cancelled, Leaves, IInv, TypeOK,
       Stoppers, WorkerFits
  <2> QED
    BY <2>1, LeavesFits DEF IInv
<1>6. Fits(r)'
  <2> USE <1>1, <1>3 DEF InFlight
  <2>1. Fits(r)
    BY DEF IInv
  <2>2. RunFits(r)'
    BY <2>1 DEF Fits, StatusFits, RunFits, Before, WorkerFits, IInv, Cancelled
  <2>3. StatusFits(r)'
    BY <2>1 DEF IInv, TypeOK, Fits, StatusFits, RunFits, Before
  <2>4. StopsFit(r)'
    BY <2>1 DEF Fits, StopsFit, Stoppers, Stopping
  <2>5. Accounted(r)'
    BY <2>1 DEF IInv, TypeOK, Fits, Accounted, RunFits, StopsFit, Stoppers, Before
  <2>6. Stoppable(r)'
    BY <2>1 DEF IInv, TypeOK, Fits, Stoppable, StatusFits, RunFits, StopsFit, Stoppers, Before,
       WorkerFits
  <2> QED
    BY <2>2, <2>3, <2>4, <2>5, <2>6 DEF Fits
<1>7. ThreadsFit'
  <2>1. external' = external /\ conversation' = conversation /\ newThreads' = newThreads
    BY <1>0 DEF tables, provider, processes, Cancelled
  <2>2. worker'.thread = worker.thread /\ worker'.run = worker.run /\ worker.run # None
        /\ {worker.pc, worker'.pc} \cap {"checking", "probing", "spawning"} = {}
    BY <1>0, <1>1, <1>3 DEF tables, provider, processes, Cancelled, IInv, TypeOK
  <2>3. \A u \in Runs : status[u] \notin {"absent", "queued"} =>
                         status'[u] \notin {"absent", "queued"}
    BY <1>0, <1>3 DEF tables, provider, processes, Cancelled, IInv, TypeOK
  <2> QED
    BY <1>4, <2>1, <2>2, <2>3 DEF IInv, WorkerFits, ThreadsFit, Answered, ConversationFits,
       Command
<1> QED
  BY <1>2, <1>4, <1>5, <1>6, <1>7 DEF IInv

LEMMA TimeOutAgainKeeps ==
    ASSUME IInv, NEW r \in Runs, TimeOut(r),
           worker.pc = "overflowed", Interruptible(r) /\ status[r] # "deleted"
    PROVE  IInv'
<1>0. /\ worker.run = r /\ daemon = "up" /\ worker.pc = "overflowed"
      /\ worker' = [worker EXCEPT !.timed = TRUE]
      /\ stops' = [stops EXCEPT !["worker"][r] = "closed"]
      /\ UNCHANGED <<status, active, left, daemon, crashes, turnId, external, provider,
                     process, conversation>>
  BY DEF TimeOut, Cancelled, WorkerStops
<1> USE NoneIsNoRun
<1>1. worker.run = r /\ worker.pc = "overflowed" /\ daemon = "up"
  BY <1>0 DEF tables, provider, processes, Cancelled, InFlight, Stopping, IInv, TypeOK,
     WorkerFits
<1>2. TypeOK'
  BY <1>0 DEF tables, provider, processes, Cancelled, IInv, TypeOK, RunStatuses, Pcs, InTurn,
     Levels, Stoppers
<1>3. /\ daemon' = daemon
      /\ worker'.run = r /\ worker'.pc = "overflowed"
      /\ status'[r] = status[r]
      /\ turnId'[r] = turnId[r]
      /\ process'[r] = process[r]
      /\ conversation'[r] = conversation[r]
      /\ left'[r] = left[r]
      /\ r \in active' <=> r \in active
      /\ stops'["worker"][r] = "closed"
      /\ stops'["cancel"][r] = stops["cancel"][r]
      /\ stops'["shutdown"][r] = stops["shutdown"][r]
  BY <1>0, <1>1 DEF tables, provider, processes, Cancelled, IInv, TypeOK, Stoppers
<1>4. WorkerFits'
  BY <1>1, <1>3 DEF IInv, WorkerFits, Stopping
<1>5. ASSUME NEW u \in Runs, u # r PROVE Fits(u)'
  <2>1. Leaves(u)
    BY <1>0, <1>1, <1>3, <1>5 DEF tables, provider, processes, Cancelled, Leaves, IInv, TypeOK,
       Stoppers, WorkerFits
  <2> QED
    BY <2>1, LeavesFits DEF IInv
<1>6. Fits(r)'
  <2> USE <1>1, <1>3 DEF InFlight
  <2>1. Fits(r)
    BY DEF IInv
  <2>2. RunFits(r)'
    BY <2>1 DEF Fits, StatusFits, RunFits, Before, WorkerFits, IInv, Cancelled
  <2>3. StatusFits(r)'
    BY <2>1 DEF IInv, TypeOK, Fits, StatusFits, RunFits, Before
  <2>4. StopsFit(r)'
    BY <2>1 DEF Fits, StopsFit, Stoppers, Stopping
  <2>5. Accounted(r)'
    BY <2>1 DEF IInv, TypeOK, Fits, Accounted, RunFits, StopsFit, Stoppers, Before
  <2>6. Stoppable(r)'
    BY <2>1 DEF IInv, TypeOK, Fits, Stoppable, StatusFits, RunFits, StopsFit, Stoppers, Before,
       WorkerFits
  <2> QED
    BY <2>2, <2>3, <2>4, <2>5, <2>6 DEF Fits
<1>7. ThreadsFit'
  <2>1. external' = external /\ conversation' = conversation /\ newThreads' = newThreads
    BY <1>0 DEF tables, provider, processes, Cancelled
  <2>2. worker'.thread = worker.thread /\ worker'.run = worker.run /\ worker.run # None
        /\ {worker.pc, worker'.pc} \cap {"checking", "probing", "spawning"} = {}
    BY <1>0, <1>1, <1>3 DEF tables, provider, processes, Cancelled, IInv, TypeOK
  <2>3. \A u \in Runs : status[u] \notin {"absent", "queued"} =>
                         status'[u] \notin {"absent", "queued"}
    BY <1>0, <1>3 DEF tables, provider, processes, Cancelled, IInv, TypeOK
  <2> QED
    BY <1>4, <2>1, <2>2, <2>3 DEF IInv, WorkerFits, ThreadsFit, Answered, ConversationFits,
       Command
<1> QED
  BY <1>2, <1>4, <1>5, <1>6, <1>7 DEF IInv

LEMMA TimeOutCutsShortKeeps ==
    ASSUME IInv, NEW r \in Runs, TimeOut(r),
           worker.pc = "overflowed", ~(Interruptible(r) /\ status[r] # "deleted")
    PROVE  IInv'
<1>0. /\ worker.run = r /\ daemon = "up" /\ worker.pc = "overflowed"
      /\ worker' = Idle
      /\ stops' = [stops EXCEPT !["worker"][r] = "no"]
      /\ active' = active \ {r}
      /\ left' = [left EXCEPT ![r] = "cut short"]
      /\ UNCHANGED <<status, daemon, crashes, turnId, external, provider, process, conversation>>
  BY DEF TimeOut, Cancelled, WorkerStops
<1> USE NoneIsNoRun
<1>1. worker.run = r /\ worker.pc = "overflowed" /\ daemon = "up"
  BY <1>0 DEF tables, provider, processes, Cancelled, Idle, InFlight, Stopping, IInv, TypeOK,
     WorkerFits
<1>2. TypeOK'
  BY <1>0 DEF tables, provider, processes, Cancelled, Idle, IInv, TypeOK, RunStatuses, Pcs,
     InTurn, Levels, Stoppers
<1>3. /\ daemon' = daemon
      /\ worker'.run = None /\ worker'.pc = "idle"
      /\ status'[r] = status[r]
      /\ turnId'[r] = turnId[r]
      /\ process'[r] = process[r]
      /\ conversation'[r] = conversation[r]
      /\ left'[r] = "cut short"
      /\ r \notin active'
      /\ stops'["worker"][r] = "no"
      /\ stops'["cancel"][r] = stops["cancel"][r]
      /\ stops'["shutdown"][r] = stops["shutdown"][r]
  BY <1>0, <1>1 DEF tables, provider, processes, Cancelled, Idle, IInv, TypeOK, Stoppers
<1>4. WorkerFits'
  BY <1>1, <1>3 DEF IInv, WorkerFits, Stopping
<1>5. ASSUME NEW u \in Runs, u # r PROVE Fits(u)'
  <2>1. Leaves(u)
    <3>1. left'[u] = left[u] /\ \A b \in Stoppers : stops'[b][u] = stops[b][u]
      <4>1. \A b \in Stoppers : stops'[b][u] = stops[b][u]
        <5>1. stops' = [stops EXCEPT !["worker"][r] = "no"] /\ "worker" \in Stoppers
          BY <1>0, <1>1 DEF Stoppers
        <5> QED
          BY <1>5, <5>1, OneStopMoves
      <4>2. left'[u] = left[u]
        BY <1>0, <1>5 DEF IInv, TypeOK
      <4> QED
        BY <4>1, <4>2
    <3>2. u \in active' <=> u \in active
      BY <1>0, <1>5
    <3> QED
      BY <1>0, <1>1, <1>3, <1>5, <3>1, <3>2 DEF Leaves
  <2> QED
    BY <2>1, LeavesFits DEF IInv
<1>6. Fits(r)'
  <2> USE <1>1, <1>3 DEF InFlight
  <2>1. Fits(r)
    BY DEF IInv
  <2>2. RunFits(r)'
    BY <2>1 DEF Fits, StatusFits, RunFits, Before, WorkerFits, IInv, Cancelled
  <2>3. StatusFits(r)'
    BY <2>1 DEF IInv, TypeOK, Fits, StatusFits, RunFits, Before
  <2>4. StopsFit(r)'
    BY <2>1 DEF Fits, StopsFit, Stoppers, Stopping
  <2>5. Accounted(r)'
    BY <2>1 DEF IInv, TypeOK, Fits, Accounted, RunFits, StopsFit, Stoppers, Before
  <2>6. Stoppable(r)'
    BY <2>1 DEF IInv, TypeOK, Fits, Stoppable, StatusFits, RunFits, StopsFit, Stoppers, Before,
       WorkerFits
  <2> QED
    BY <2>2, <2>3, <2>4, <2>5, <2>6 DEF Fits
<1>7. ThreadsFit'
  <2>1. external' = external /\ conversation' = conversation /\ newThreads' = newThreads
    BY <1>0 DEF tables, provider, processes, Cancelled, Idle
  <2>2. worker'.run = None
    BY <1>0, <1>1, <1>3 DEF tables, provider, processes, Cancelled, Idle, IInv, TypeOK
  <2>3. \A u \in Runs : status[u] \notin {"absent", "queued"} =>
                         status'[u] \notin {"absent", "queued"}
    BY <1>0, <1>3 DEF tables, provider, processes, Cancelled, Idle, IInv, TypeOK
  <2> QED
    BY <1>4, <2>1, <2>2, <2>3 DEF IInv, WorkerFits, ThreadsFit, Answered, ConversationFits,
       Command
<1> QED
  BY <1>2, <1>4, <1>5, <1>6, <1>7 DEF IInv

LEMMA TimeOutSpawningKeeps ==
    ASSUME IInv, NEW r \in Runs, TimeOut(r), worker.pc = "spawning"
    PROVE  IInv'
<1>0. /\ worker.run = r /\ daemon = "up" /\ worker.pc = "spawning"
      /\ worker' = Idle
      /\ status' = Ended(r, "failed")
      /\ UNCHANGED <<active, stops, left, daemon, crashes, turnId, external, provider,
                     process, conversation>>
  BY DEF TimeOut, Cancelled, WorkerStops
<1> USE NoneIsNoRun
<1>1. worker.run = r /\ worker.pc = "spawning" /\ daemon = "up"
  BY <1>0 DEF tables, provider, processes, Cancelled, Idle, Ended, InFlight, Stopping, IInv,
     TypeOK, WorkerFits
<1>2. TypeOK'
  BY <1>0 DEF tables, provider, processes, Cancelled, Idle, Ended, IInv, TypeOK, RunStatuses,
     Pcs, InTurn, Levels, Stoppers
<1>3. /\ daemon' = daemon
      /\ worker'.run = None /\ worker'.pc = "idle"
      /\ status'[r] = IF status[r] \in InFlight THEN "failed" ELSE status[r]
      /\ turnId'[r] = turnId[r]
      /\ process'[r] = process[r]
      /\ conversation'[r] = conversation[r]
      /\ left'[r] = left[r]
      /\ r \in active' <=> r \in active
      /\ \A by \in Stoppers : stops'[by][r] = stops[by][r]
  BY <1>0, <1>1 DEF tables, provider, processes, Cancelled, Idle, Ended, IInv, TypeOK, Stoppers
<1>4. WorkerFits'
  BY <1>1, <1>3 DEF IInv, WorkerFits, Stopping
<1>5. ASSUME NEW u \in Runs, u # r PROVE Fits(u)'
  <2>1. Leaves(u)
    BY <1>0, <1>1, <1>3, <1>5 DEF tables, provider, processes, Cancelled, Idle, Ended, Leaves,
       IInv, TypeOK, Stoppers, WorkerFits
  <2> QED
    BY <2>1, LeavesFits DEF IInv
<1>6. Fits(r)'
  <2> USE <1>1, <1>3 DEF InFlight
  <2>1. Fits(r)
    BY DEF IInv
  <2>2. RunFits(r)'
    BY <2>1 DEF Fits, StatusFits, RunFits, Before, WorkerFits, IInv, Cancelled
  <2>3. StatusFits(r)'
    BY <2>1 DEF IInv, TypeOK, Fits, StatusFits, RunFits, Before
  <2>4. StopsFit(r)'
    BY <2>1 DEF Fits, StopsFit, Stoppers, Stopping
  <2>5. Accounted(r)'
    BY <2>1 DEF IInv, TypeOK, Fits, Accounted, RunFits, StopsFit, Stoppers, Before
  <2>6. Stoppable(r)'
    BY <2>1 DEF IInv, TypeOK, Fits, Stoppable, StatusFits, RunFits, StopsFit, Stoppers, Before,
       WorkerFits
  <2> QED
    BY <2>2, <2>3, <2>4, <2>5, <2>6 DEF Fits
<1>7. ThreadsFit'
  <2>1. external' = external /\ conversation' = conversation /\ newThreads' = newThreads
    BY <1>0 DEF tables, provider, processes, Cancelled, Idle, Ended
  <2>2. worker'.run = None
    BY <1>0, <1>1, <1>3 DEF tables, provider, processes, Cancelled, Idle, Ended, IInv, TypeOK
  <2>3. \A u \in Runs : status[u] \notin {"absent", "queued"} =>
                         status'[u] \notin {"absent", "queued"}
    BY <1>0, <1>3 DEF tables, provider, processes, Cancelled, Idle, Ended, IInv, TypeOK
  <2> QED
    BY <1>4, <2>1, <2>2, <2>3 DEF IInv, WorkerFits, ThreadsFit, Answered, ConversationFits,
       Command
<1> QED
  BY <1>2, <1>4, <1>5, <1>6, <1>7 DEF IInv

LEMMA EscalateKillsKeeps ==
    ASSUME IInv, NEW by \in Stoppers, NEW r \in Runs, Escalate(by, r), stops[by][r] = "terminated"
    PROVE  IInv'
<1> USE NoneIsNoRun
<1>1. process[r] = "alive" /\ stops[by][r] = "terminated"
  BY DEF Escalate, tables, provider, processes, Kills, After, InFlight, Stopping, IInv, TypeOK,
     WorkerFits
<1>2. TypeOK'
  <2>1. After(stops[by][r]) \in Levels
    BY <1>1 DEF After, Levels
  <2>2. stops' \in [Stoppers -> [Runs -> Levels]]
    BY <2>1 DEF Escalate, IInv, TypeOK
  <2>3. process' \in [Runs -> {"none", "alive", "exited"}]
    BY <1>1 DEF Escalate, Kills, IInv, TypeOK
  <2> QED
    BY <2>2, <2>3 DEF Escalate, tables, provider, IInv, TypeOK
<1>3. /\ daemon' = daemon
      /\ worker' = worker
      /\ status'[r] = status[r]
      /\ turnId'[r] = turnId[r]
      /\ process'[r] = "exited"
      /\ conversation'[r] = conversation[r]
      /\ left'[r] = left[r]
      /\ r \in active' <=> r \in active
      /\ \A b \in Stoppers : IF b = by THEN stops'[b][r] = "killed" ELSE stops'[b][r] = stops[b][r]
  <2>1. After(stops[by][r]) = "killed"
    BY <1>1 DEF After
  <2>2. stops' = [stops EXCEPT ![by][r] = "killed"]
    BY <2>1 DEF Escalate
  <2>3. \A b \in Stoppers : IF b = by THEN stops'[b][r] = "killed" ELSE stops'[b][r] = stops[b][r]
    <3>1. stops'[by][r] = "killed" /\ \A b \in Stoppers : b # by => stops'[b][r] = stops[b][r]
      <4>1. stops \in [Stoppers -> [Runs -> Levels]]
        BY DEF IInv, TypeOK
      <4> QED
        BY <2>2, <4>1
    <3> QED
      BY <3>1
  <2>4. process'[r] = "exited"
    BY <1>1 DEF Escalate, Kills, IInv, TypeOK
  <2> QED
    BY <2>3, <2>4 DEF Escalate, tables
<1>4. WorkerFits'
  BY <1>1, <1>3 DEF IInv, WorkerFits, Stopping
<1>5. ASSUME NEW u \in Runs, u # r PROVE Fits(u)'
  <2>1. Leaves(u)
    <3>1. /\ UNCHANGED <<daemon, worker, status, turnId, active, conversation, left>>
          /\ stops' = [stops EXCEPT ![by][r] = After(stops[by][r])]
          /\ process' = process \/ process' = [process EXCEPT ![r] = "exited"]
      BY DEF Escalate, tables
    <3>2. process'[u] = process[u] /\ \A b \in Stoppers : stops'[b][u] = stops[b][u]
      <4>1. \A b \in Stoppers : stops'[b][u] = stops[b][u]
        <5>1. PICK level : stops' = [stops EXCEPT ![by][r] = level]
          BY <3>1
        <5> QED
          BY <1>5, <5>1, OneStopMoves
      <4>2. process'[u] = process[u]
        BY <1>5, <3>1 DEF IInv, TypeOK
      <4> QED
        BY <4>1, <4>2
    <3> QED
      BY <3>1, <3>2 DEF Leaves
  <2> QED
    BY <2>1, LeavesFits DEF IInv
<1>6. Fits(r)'
  <2> USE <1>1, <1>3 DEF InFlight
  <2>1. Fits(r)
    BY DEF IInv
  <2>2. RunFits(r)'
    BY <2>1 DEF Fits, StatusFits, RunFits, Before, WorkerFits, IInv
  <2>3. StatusFits(r)'
    BY <2>1 DEF IInv, TypeOK, Fits, StatusFits, RunFits, Before
  <2>4. StopsFit(r)'
    BY <2>1 DEF Fits, StopsFit, Stoppers, Stopping
  <2>5. Accounted(r)'
    BY <2>1 DEF IInv, TypeOK, Fits, Accounted, RunFits, StopsFit, Stoppers, Before
  <2>6. Stoppable(r)'
    BY <2>1 DEF IInv, TypeOK, Fits, Stoppable, StatusFits, RunFits, StopsFit, Stoppers, Before,
       WorkerFits
  <2> QED
    BY <2>2, <2>3, <2>4, <2>5, <2>6 DEF Fits
<1>7. ThreadsFit'
  <2>1. external' = external /\ conversation' = conversation /\ newThreads' = newThreads
    BY DEF Escalate, tables, provider, processes, Kills, After
  <2>2. worker' = worker
    BY <1>1, <1>3 DEF Escalate, tables, provider, processes, Kills, After, IInv, TypeOK
  <2>3. \A u \in Runs : status[u] \notin {"absent", "queued"} =>
                         status'[u] \notin {"absent", "queued"}
    BY <1>3 DEF Escalate, tables, provider, processes, Kills, After, IInv, TypeOK
  <2> QED
    BY <1>4, <2>1, <2>2, <2>3 DEF IInv, WorkerFits, ThreadsFit, Answered, ConversationFits,
       Command
<1> QED
  BY <1>2, <1>4, <1>5, <1>6, <1>7 DEF IInv

LEMMA EscalateGoesKeeps ==
    ASSUME IInv, NEW by \in Stoppers, NEW r \in Runs, Escalate(by, r), stops[by][r] # "terminated"
    PROVE  IInv'
<1> USE NoneIsNoRun
<1>1. process[r] = "alive" /\ stops[by][r] \in {"waiting", "closed"}
  BY DEF Escalate, tables, provider, processes, Kills, After, InFlight, Stopping, IInv, TypeOK,
     WorkerFits
<1>2. TypeOK'
  <2>1. After(stops[by][r]) \in Levels
    BY <1>1 DEF After, Levels
  <2>2. stops' \in [Stoppers -> [Runs -> Levels]]
    BY <2>1 DEF Escalate, IInv, TypeOK
  <2>3. process' = process
    BY <1>1 DEF Escalate, Kills
  <2> QED
    BY <2>2, <2>3 DEF Escalate, tables, provider, IInv, TypeOK
<1>3. /\ daemon' = daemon
      /\ worker' = worker
      /\ status'[r] = status[r]
      /\ turnId'[r] = turnId[r]
      /\ process'[r] = process[r]
      /\ conversation'[r] = conversation[r]
      /\ left'[r] = left[r]
      /\ r \in active' <=> r \in active
      /\ \A b \in Stoppers : IF b = by THEN stops'[b][r] \in {"closed", "terminated"}
                                ELSE stops'[b][r] = stops[b][r]
  <2>1. After(stops[by][r]) \in {"closed", "terminated"}
    BY <1>1 DEF After
  <2>2. PICK level \in {"closed", "terminated"} : stops' = [stops EXCEPT ![by][r] = level]
    BY <2>1 DEF Escalate
  <2>3. \A b \in Stoppers : IF b = by THEN stops'[b][r] \in {"closed", "terminated"}
                            ELSE stops'[b][r] = stops[b][r]
    <3>1. stops'[by][r] = level /\ \A b \in Stoppers : b # by => stops'[b][r] = stops[b][r]
      <4>1. stops \in [Stoppers -> [Runs -> Levels]]
        BY DEF IInv, TypeOK
      <4> QED
        BY <2>2, <4>1
    <3> QED
      BY <3>1
  <2>4. process' = process
    BY <1>1 DEF Escalate, Kills
  <2> QED
    BY <2>3, <2>4 DEF Escalate, tables
<1>4. WorkerFits'
  BY <1>1, <1>3 DEF IInv, WorkerFits, Stopping
<1>5. ASSUME NEW u \in Runs, u # r PROVE Fits(u)'
  <2>1. Leaves(u)
    <3>1. /\ UNCHANGED <<daemon, worker, status, turnId, active, conversation, left>>
          /\ stops' = [stops EXCEPT ![by][r] = After(stops[by][r])]
          /\ process' = process \/ process' = [process EXCEPT ![r] = "exited"]
      BY DEF Escalate, tables
    <3>2. process'[u] = process[u] /\ \A b \in Stoppers : stops'[b][u] = stops[b][u]
      <4>1. \A b \in Stoppers : stops'[b][u] = stops[b][u]
        <5>1. PICK level : stops' = [stops EXCEPT ![by][r] = level]
          BY <3>1
        <5> QED
          BY <1>5, <5>1, OneStopMoves
      <4>2. process'[u] = process[u]
        BY <1>5, <3>1 DEF IInv, TypeOK
      <4> QED
        BY <4>1, <4>2
    <3> QED
      BY <3>1, <3>2 DEF Leaves
  <2> QED
    BY <2>1, LeavesFits DEF IInv
<1>6. Fits(r)'
  <2> USE <1>1, <1>3 DEF InFlight
  <2>1. Fits(r)
    BY DEF IInv
  <2>2. RunFits(r)'
    BY <2>1 DEF Fits, StatusFits, RunFits, Before, WorkerFits, IInv
  <2>3. StatusFits(r)'
    BY <2>1 DEF IInv, TypeOK, Fits, StatusFits, RunFits, Before
  <2>4. StopsFit(r)'
    BY <2>1 DEF Fits, StopsFit, Stoppers, Stopping
  <2>5. Accounted(r)'
    BY <2>1 DEF IInv, TypeOK, Fits, Accounted, RunFits, StopsFit, Stoppers, Before
  <2>6. Stoppable(r)'
    BY <2>1 DEF IInv, TypeOK, Fits, Stoppable, StatusFits, RunFits, StopsFit, Stoppers, Before,
       WorkerFits
  <2> QED
    BY <2>2, <2>3, <2>4, <2>5, <2>6 DEF Fits
<1>7. ThreadsFit'
  <2>1. external' = external /\ conversation' = conversation /\ newThreads' = newThreads
    BY DEF Escalate, tables, provider, processes, Kills, After
  <2>2. worker' = worker
    BY <1>1, <1>3 DEF Escalate, tables, provider, processes, Kills, After, IInv, TypeOK
  <2>3. \A u \in Runs : status[u] \notin {"absent", "queued"} =>
                         status'[u] \notin {"absent", "queued"}
    BY <1>3 DEF Escalate, tables, provider, processes, Kills, After, IInv, TypeOK
  <2> QED
    BY <1>4, <2>1, <2>2, <2>3 DEF IInv, WorkerFits, ThreadsFit, Answered, ConversationFits,
       Command
<1> QED
  BY <1>2, <1>4, <1>5, <1>6, <1>7 DEF IInv

LEMMA HealthKeeps ==
    ASSUME IInv, HealthProbes \/ HealthProbed
    PROVE  IInv'
<1>1. UNCHANGED <<daemon, tables, worker, newThreads, resumed, processes>>
  BY DEF HealthProbes, HealthProbed
<1>2. TypeOK' /\ WorkerFits'
  BY <1>1 DEF IInv, TypeOK, WorkerFits, tables, processes
<1>3. ASSUME NEW u \in Runs PROVE Fits(u)'
  <2>1. Leaves(u)
    BY <1>1 DEF Leaves, tables, processes
  <2> QED
    BY <2>1, LeavesFits DEF IInv
<1>4. ThreadsFit'
  BY <1>1 DEF IInv, ThreadsFit, Answered, ConversationFits, Command, tables, processes
<1> QED
  BY <1>2, <1>3, <1>4 DEF IInv

LEMMA DeleteSessionKeeps ==
    ASSUME IInv, DeleteSession
    PROVE  IInv'
<1>1. /\ status' = [r \in Runs |-> "deleted"] /\ external' = None
      /\ UNCHANGED <<daemon, turnId, worker, provider, processes>>
  BY DEF DeleteSession
<1>2. TypeOK' /\ WorkerFits'
  BY <1>1 DEF IInv, TypeOK, RunStatuses, WorkerFits, provider, processes
<1>3. ASSUME NEW u \in Runs PROVE Fits(u)'
  <2>1. /\ status'[u] = "deleted" /\ (u \in active' <=> u \in active)
        /\ UNCHANGED <<daemon, worker, process, left, stops>>
    BY <1>1 DEF processes
  <2>2. Fits(u)
    BY DEF IInv
  <2>3. RunFits(u)'
    BY <2>1, <2>2 DEF Fits, RunFits
  <2>4. StatusFits(u)' /\ Stoppable(u)'
    BY <2>1 DEF StatusFits, Stoppable
  <2>5. StopsFit(u)'
    BY <2>1, <2>2 DEF Fits, StopsFit
  <2>6. Accounted(u)'
    BY <2>1, <2>2 DEF Fits, Accounted
  <2> QED
    BY <2>3, <2>4, <2>5, <2>6 DEF Fits
<1>4. ThreadsFit'
  BY <1>1, <1>2 DEF IInv, TypeOK, ThreadsFit, Answered, ConversationFits, Command, provider,
     processes
<1> QED
  BY <1>2, <1>3, <1>4 DEF IInv

\* What a shutdown does to the process of a run: stop() takes it out of _active, the worker
\* goes on stopping it, or closes the turn, or it is left.
LEMMA ShutdownKeeps ==
    ASSUME IInv, Shutdown
    PROVE  IInv'
<1> DEFINE cutShort == worker.pc = "cancelling" \/ (worker.pc = "overflowed" /\ worker.timed)
           known == IF worker.pc = "cancelling" THEN active \ {worker.run} ELSE active
           own == IF worker.pc \in Cancelled THEN "closed" ELSE "no"
<1>1. /\ daemon = "up" /\ daemon' = "stopping" /\ active' = {}
      /\ worker' = IF worker.pc \in Cancelled THEN [worker EXCEPT !.pc = "cancelling"]
                   ELSE IF worker.pc = "closing" THEN worker
                   ELSE [pc |-> "gone", run |-> None, thread |-> None, timed |-> FALSE]
      /\ left' = IF worker.run # None /\ cutShort
                 THEN [left EXCEPT ![worker.run] = "cut short"] ELSE left
      /\ stops' = [by \in Stoppers |-> [q \in Runs |->
                     CASE by = "shutdown" -> IF q \in known THEN "closed" ELSE "no"
                       [] by = "worker" -> IF q = worker.run THEN own ELSE "no"
                       [] OTHER -> stops[by][q]]]
      /\ UNCHANGED <<tables, newThreads, resumed, process, conversation>>
  BY DEF Shutdown
<1> HIDE DEF cutShort, known, own
<1> USE NoneIsNoRun
<1>2. /\ worker.pc \in Cancelled =>
            worker'.pc = "cancelling" /\ worker'.run = worker.run /\ worker'.thread = worker.thread
      /\ worker.pc = "closing" => worker' = worker
      /\ worker.pc \notin Cancelled \cup {"closing"} => worker'.pc = "gone" /\ worker'.run = None
      /\ "closing" \notin Cancelled
  BY <1>1 DEF IInv, TypeOK, Cancelled
<1>3. /\ worker.pc \in Cancelled \cup {"closing"} => worker.run # None
      /\ worker.run \in Runs \cup {None}
  BY DEF IInv, TypeOK, WorkerFits, Cancelled
<1>4. ASSUME NEW u \in Runs
      PROVE  /\ stops'["shutdown"][u] = IF u \in known THEN "closed" ELSE "no"
             /\ stops'["worker"][u] = IF u = worker.run THEN own ELSE "no"
             /\ stops'["cancel"][u] = stops["cancel"][u]
             /\ left'[u] = IF u = worker.run /\ cutShort THEN "cut short" ELSE left[u]
  BY <1>1 DEF Stoppers, IInv, TypeOK
<1>5. TypeOK'
  <2>1. stops' \in [Stoppers -> [Runs -> Levels]]
    <3>1. ASSUME NEW by \in Stoppers, NEW q \in Runs
          PROVE  (CASE by = "shutdown" -> IF q \in known THEN "closed" ELSE "no"
                    [] by = "worker" -> IF q = worker.run THEN own ELSE "no"
                    [] OTHER -> stops[by][q]) \in Levels
      <4>0. own \in Levels
        BY DEF own, Levels
      <4>1. stops[by][q] \in Levels
        <5>1. stops \in [Stoppers -> [Runs -> Levels]]
          BY DEF IInv, TypeOK
        <5> QED
          BY <3>1, <5>1
      <4>2. CASE by = "shutdown"
        BY <3>1, <4>2 DEF Levels
      <4>3. CASE by = "worker"
        BY <3>1, <4>0, <4>3 DEF Levels
      <4>4. CASE by = "cancel"
        BY <3>1, <4>1, <4>4
      <4> QED
        BY <3>1, <4>2, <4>3, <4>4 DEF Stoppers
    <3> QED
      BY <1>1, <3>1
  <2>2. left' \in [Runs -> {"no", "abandoned", "raised", "cut short", "outlived"}]
    BY <1>1 DEF IInv, TypeOK
  <2>3. worker' \in [pc : Pcs, run : Runs \cup {None}, thread : Runs \cup {None}, timed : BOOLEAN]
    BY <1>1 DEF IInv, TypeOK, Pcs, InTurn
  <2> QED
    BY <1>1, <2>1, <2>2, <2>3 DEF IInv, TypeOK, tables
<1>6. WorkerFits'
  BY <1>1, <1>2, <1>3 DEF WorkerFits
<1>7. ASSUME NEW u \in Runs PROVE Fits(u)'
  <2> USE <1>2
  <2>0. /\ daemon = "up" /\ daemon' = "stopping"
        /\ stops'["shutdown"][u] = IF u \in known THEN "closed" ELSE "no"
        /\ stops'["worker"][u] = IF u = worker.run THEN own ELSE "no"
        /\ stops'["cancel"][u] = stops["cancel"][u]
        /\ left'[u] = IF u = worker.run /\ cutShort THEN "cut short" ELSE left[u]
    BY <1>1, <1>4, <1>7
  <2> USE <2>0
  <2>1. Fits(u) /\ WorkerFits
    BY <1>7 DEF IInv
  <2>2. UNCHANGED <<status, turnId, process, conversation>> /\ u \notin active'
    BY <1>1 DEF tables
  <2>3. worker.run = u => left[u] = IF worker.pc = "closing" THEN "raised" ELSE "no"
    BY <2>1 DEF Fits, RunFits
  <2>p. worker.pc \in Cancelled \cup Before
                     \cup {"overflowed", "cancelling", "closing", "idle", "gone"}
    BY DEF IInv, TypeOK, Pcs, InTurn, Cancelled, Before
  <2>s. process[u] = "alive" => worker.run = u \/ left[u] # "no"
    BY <2>1 DEF Fits, StopsFit, Accounted
  <2>a. worker.run = u /\ worker.pc \in Cancelled \cup {"overflowed", "cancelling"} => u \in active
    BY <2>1 DEF Fits, RunFits, Before, Cancelled
  <2>n. worker.run = u /\ worker.pc \in Before \cup {"idle", "gone"} => process[u] = "none"
    BY <2>1 DEF Fits, RunFits, WorkerFits
  <2>c. /\ worker.pc = "cancelling" => cutShort
        /\ (cutShort => worker.pc \in {"cancelling", "overflowed"})
    BY DEF cutShort
  <2>m. u \in active => u \in known \/ (worker.run = u /\ worker.pc = "cancelling")
    BY DEF known
  <2>4. RunFits(u)'
    BY <2>1, <2>2, <2>c DEF Fits, RunFits, WorkerFits, Before, Cancelled
  <2>5. StatusFits(u)'
    BY <2>1, <2>2 DEF Fits, StatusFits, RunFits
  <2>6. StopsFit(u)'
    BY <2>1, <2>2 DEF Fits, StopsFit, Stoppers, Stopping, own
  <2>7. Accounted(u)'
    BY <2>1, <2>2, <2>3, <2>p, <2>s, <2>a, <2>n, <2>c, <2>m DEF Fits, Accounted
  <2>8. Stoppable(u)'
    BY <2>1, <2>2, <2>3, <2>p, <2>a, <2>c, <2>m DEF Fits, Stoppable, StopsFit
  <2> QED
    BY <2>4, <2>5, <2>6, <2>7, <2>8 DEF Fits
<1>8. ThreadsFit'
  <2>1. UNCHANGED <<status, external, newThreads, conversation>>
    BY <1>1 DEF tables
  <2>2. worker'.pc \in {"gone", "cancelling", "closing"}
    BY <1>1, <1>2
  <2> QED
    BY <1>2, <1>3, <2>1, <2>2 DEF IInv, ThreadsFit, Answered, ConversationFits, Cancelled
<1> QED
  BY <1>5, <1>6, <1>7, <1>8 DEF IInv

\* The end of the daemon: it has exited, or it has crashed.
LEMMA EndsKeeps ==
    ASSUME IInv, daemon # "off", daemon' = "off", Ends,
           worker'.pc = "gone", worker'.run = None, TypeOK',
           UNCHANGED <<tables, process, conversation>>,
           \A r \in Runs : \/ process[r] = "alive" /\ left'[r] = "outlived"
                           \/ left'[r] = left[r] /\ process[r] # "alive"
                           \/ left'[r] = left[r] /\ worker.run = None /\ stops["shutdown"][r] = "no"
    PROVE  IInv'
<1> USE NoneIsNoRun
<1>1. WorkerFits'
  BY DEF WorkerFits
<1>2. ASSUME NEW u \in Runs PROVE Fits(u)'
  <2>1. Fits(u)
    BY DEF IInv
  <2>2. \A by \in Stoppers : stops'[by][u] = "no"
    BY DEF Ends
  <2>3. UNCHANGED <<status, turnId, process, conversation>>
    BY DEF tables
  <2>4. RunFits(u)' /\ Stoppable(u)'
    BY <1>2 DEF RunFits, Stoppable
  <2>5. StatusFits(u)'
    BY <2>1, <2>3 DEF Fits, StatusFits
  <2>6. StopsFit(u)'
    BY <2>2 DEF StopsFit, Stoppers
  <2>7. Accounted(u)'
    BY <1>2, <2>1, <2>3 DEF Fits, Accounted
  <2> QED
    BY <2>4, <2>5, <2>6, <2>7 DEF Fits
<1>3. ThreadsFit'
  BY DEF IInv, ThreadsFit, Answered, ConversationFits, Ends, tables
<1> QED
  BY <1>1, <1>2, <1>3 DEF IInv

LEMMA ExitsKeeps ==
    ASSUME IInv, Exits
    PROVE  IInv'
<1>1. worker'.pc = "gone" /\ worker'.run = None /\ worker.run = None
  BY DEF Exits, IInv, WorkerFits
<1>2. TypeOK'
  BY DEF Exits, Ends, IInv, TypeOK, tables, Levels, Stoppers
<1> QED
  BY <1>1, <1>2, EndsKeeps DEF Exits

LEMMA CrashKeeps ==
    ASSUME IInv, Crash
    PROVE  IInv'
<1>1. worker'.pc = "gone" /\ worker'.run = None
  BY DEF Crash
<1>2. TypeOK'
  BY DEF Crash, Ends, IInv, TypeOK, tables, Levels, Stoppers, Pcs
<1>3. \A r \in Runs : left'[r] = IF process[r] = "alive" THEN "outlived" ELSE left[r]
  BY DEF Crash
<1> QED
  BY <1>1, <1>2, <1>3, EndsKeeps DEF Crash

LEMMA StartKeeps ==
    ASSUME IInv, Start
    PROVE  IInv'
<1> USE NoneIsNoRun
<1>1. /\ daemon = "off" /\ daemon' = "up"
      /\ \A u \in Runs : status'[u] = IF status[u] \in {"starting", "streaming", "queued"}
                                      THEN "interrupted" ELSE status[u]
      /\ UNCHANGED <<turnId, external, provider, processes>>
  BY DEF Start, InFlight
<1>2. worker'.pc = "idle" /\ worker'.run = None /\ worker.run = None
  BY DEF Start, IInv, TypeOK, WorkerFits
<1>3. TypeOK'
  BY DEF Start, provider, processes, IInv, TypeOK, RunStatuses, Pcs
<1>4. WorkerFits'
  BY <1>1, <1>2 DEF WorkerFits
<1>5. ASSUME NEW u \in Runs PROVE Fits(u)'
  <2> USE <1>1, <1>2, <1>5
  <2>1. Fits(u)
    BY DEF IInv
  <2>2. UNCHANGED <<turnId, process, conversation, left, stops>>
    BY DEF processes
  <2>3. RunFits(u)' /\ Stoppable(u)'
    BY DEF RunFits, Stoppable
  <2>4. StatusFits(u)'
    BY <2>1, <2>2 DEF Fits, StatusFits
  <2>5. StopsFit(u)'
    BY <2>1, <2>2 DEF Fits, StopsFit, Stoppers
  <2>6. Accounted(u)'
    BY <2>1, <2>2 DEF Fits, Accounted, StatusFits
  <2> QED
    BY <2>3, <2>4, <2>5, <2>6 DEF Fits
<1>6. ThreadsFit'
  BY <1>1, <1>2 DEF IInv, ThreadsFit, Answered, ConversationFits, provider, processes
<1> QED
  BY <1>3, <1>4, <1>5, <1>6 DEF IInv

-----------------------------------------------------------------------------
(* The invariant holds.                                                    *)

LEMMA InitIInv == Init => IInv
<1> SUFFICES ASSUME Init PROVE IInv
  OBVIOUS
<1> USE NoneIsNoRun
<1>1. TypeOK
  BY DEF Init, TypeOK, Idle, RunStatuses, Pcs, Levels, Stoppers
<1>2. WorkerFits /\ worker.pc = "idle" /\ worker.run = None
  BY DEF Init, WorkerFits, Idle
<1>3. ASSUME NEW u \in Runs PROVE Fits(u)
  BY <1>2, <1>3 DEF Init, Fits, RunFits, StatusFits, StopsFit, Accounted, Stoppable, Stoppers
<1>4. ThreadsFit
  BY <1>2 DEF Init, ThreadsFit, ConversationFits
<1> QED
  BY <1>1, <1>2, <1>3, <1>4 DEF IInv

LEMMA StutterKeeps == IInv /\ UNCHANGED vars => IInv'
<1> SUFFICES ASSUME IInv, UNCHANGED vars PROVE IInv'
  OBVIOUS
<1>1. UNCHANGED <<daemon, tables, worker, newThreads, resumed, processes>>
  BY DEF vars, provider
<1>2. TypeOK' /\ WorkerFits'
  BY <1>1 DEF IInv, TypeOK, WorkerFits, tables, processes
<1>3. ASSUME NEW u \in Runs PROVE Fits(u)'
  <2>1. Leaves(u)
    BY <1>1 DEF Leaves, tables, processes
  <2> QED
    BY <2>1, LeavesFits DEF IInv
<1>4. ThreadsFit'
  BY <1>1 DEF IInv, ThreadsFit, Answered, ConversationFits, Command, tables, processes
<1> QED
  BY <1>2, <1>3, <1>4 DEF IInv

LEMMA TimeOutKeeps == \A r \in Runs : IInv /\ TimeOut(r) => IInv'
<1> SUFFICES ASSUME NEW r \in Runs, IInv, TimeOut(r) PROVE IInv'
  OBVIOUS
<1>1. \/ worker.pc \in Cancelled
      \/ worker.pc = "overflowed" /\ Interruptible(r) /\ status[r] # "deleted"
      \/ worker.pc = "overflowed" /\ ~(Interruptible(r) /\ status[r] # "deleted")
      \/ worker.pc = "spawning"
  BY DEF TimeOut
<1> QED
  BY <1>1, TimeOutStopsKeeps, TimeOutAgainKeeps, TimeOutCutsShortKeeps, TimeOutSpawningKeeps

LEMMA TurnStepKeeps == \A r \in Runs : IInv /\ TurnStep(r) => IInv'
<1> SUFFICES ASSUME NEW r \in Runs, IInv, TurnStep(r) PROVE IInv'
  OBVIOUS
<1>1. CASE ProbeFails(r)
  BY <1>1, ProbeFailsKeeps
<1>2. CASE Open(r)
  BY <1>2, OpenKeeps
<1>3. CASE SpawnFails(r)
  BY <1>3, SpawnFailsKeeps
<1>4. CASE Spawned(r)
  BY <1>4, SpawnedStreamsKeeps, SpawnedAbandonsKeeps
<1>5. CASE Abandon(r)
  BY <1>5, AbandonKeeps
<1>6. CASE EndOfOutput(r)
  BY <1>6, EndOfOutputKeeps
<1>7. CASE EofExits(r)
  BY <1>7, EofExitsKeeps
<1>8. CASE Silent(r)
  BY <1>8, SilentKeeps
<1>9. CASE Overflow(r)
  BY <1>9, OverflowKeeps
<1>10. CASE Raises(r)
  BY <1>10, RaisesKeeps
<1>11. CASE Closed(r)
  BY <1>11, ClosedKeeps
<1>12. CASE Finish(r)
  BY <1>12, FinishKeeps
<1>13. CASE TimeOut(r)
  BY <1>13, TimeOutKeeps
<1>14. CASE \E success \in BOOLEAN : Result(r, success)
  BY <1>14, ResultEndsKeeps, ResultAbandonsKeeps
<1> QED
  BY <1>1, <1>2, <1>3, <1>4, <1>5, <1>6, <1>7, <1>8, <1>9, <1>10, <1>11, <1>12, <1>13, <1>14
     DEF TurnStep

LEMMA NextIInv == IInv /\ [Next]_vars => IInv'
<1> SUFFICES ASSUME IInv, [Next]_vars PROVE IInv'
  OBVIOUS
<1>1. CASE HealthProbes \/ HealthProbed
  BY <1>1, HealthKeeps
<1>2. CASE Probe
  BY <1>2, ProbeKeeps
<1>3. ASSUME NEW r \in Runs, Enqueue(r) \/ Take(r) \/ TurnStep(r) \/ Exit(r) PROVE IInv'
  BY <1>3, EnqueueKeeps, TakeKeeps, TurnStepKeeps, ExitKeeps
<1>4. ASSUME NEW r \in Runs, CancelAtOnce(r) \/ Cancel(r) \/ CancelReturns(r) \/ StopReturns(r)
      PROVE  IInv'
  BY <1>4, CancelAtOnceKeeps, CancelKeeps, CancelReturnsKeeps, StopReturnsKeeps
<1>5. ASSUME NEW r \in Runs, NEW by \in Stoppers, Escalate(by, r) PROVE IInv'
  BY <1>5, EscalateKillsKeeps, EscalateGoesKeeps
<1>6. CASE DeleteSession \/ Shutdown \/ Exits \/ Crash \/ Start
  BY <1>6, DeleteSessionKeeps, ShutdownKeeps, ExitsKeeps, CrashKeeps, StartKeeps
<1>7. CASE UNCHANGED vars
  BY <1>7, StutterKeeps
<1> QED
  BY <1>1, <1>2, <1>3, <1>4, <1>5, <1>6, <1>7 DEF Next

\* What every reachable state of the daemon, the runs, the processes and the threads is.
LEMMA Invariance == Spec => []IInv
<1> QED
  BY InitIInv, NextIInv, PTL DEF Spec

-----------------------------------------------------------------------------
(* The properties.                                                         *)

\* No process of the CLI is forgotten unnoticed: one that lives belongs to the turn at work
\* or is being stopped, or it was left behind in one of the ways Reaped names, whatever
\* cancel requests, timeouts, shutdowns, deletions and crashes meet in the middle of a turn.
THEOREM NoProcessForgotten == Spec => []Reaped
<1>1. IInv => Reaped
  <2> SUFFICES ASSUME IInv, NEW r \in Runs, process[r] = "alive"
               PROVE  \/ worker.run = r
                      \/ \E by \in Stoppers : stops[by][r] # "no"
                      \/ left[r] = "abandoned" /\ status[r] \in {"cancelled", "deleted"}
                      \/ left[r] = "raised"
                         /\ status[r] \in {"failed", "cancelled", "deleted", "interrupted"}
                      \/ left[r] \in {"cut short", "outlived"}
    BY DEF Reaped
  <2>1. Accounted(r) /\ left[r] \in {"no", "abandoned", "raised", "cut short", "outlived"}
    BY DEF IInv, TypeOK, Fits
  <2> QED
    BY <2>1 DEF Accounted, Stoppers
<1> QED
  BY <1>1, Invariance, PTL

\* A turn creates a conversation the CLI does not have, or resumes one that has answered:
\* _new_threads, which a restart empties, and the thread recorded in the database agree
\* with what the CLI keeps (_turn_command, create_thread, resume_thread).
THEOREM ConversationsFit == Spec => []ConversationFits
<1>1. IInv => ConversationFits
  BY DEF IInv, ThreadsFit
<1> QED
  BY <1>1, Invariance, PTL

\* Only a cancel request cancels a run.
LEMMA WhoCancels ==
    ASSUME IInv, Next, NEW u \in Runs, status[u] # "cancelled", status'[u] = "cancelled"
    PROVE  CancelAtOnce(u) \/ CancelReturns(u)
<1> USE DEF IInv, TypeOK, tables
<1>1. CASE HealthProbes \/ HealthProbed \/ Probe
  BY <1>1 DEF HealthProbes, HealthProbed, Probe
<1>2. ASSUME NEW r \in Runs, Enqueue(r) \/ Take(r) \/ Exit(r) \/ Cancel(r) \/ StopReturns(r)
      PROVE  FALSE
  BY <1>2 DEF Enqueue, Take, Exit, Cancel, StopReturns
<1>3. ASSUME NEW r \in Runs, TurnStep(r) PROVE FALSE
  <2>1. CASE ProbeFails(r) \/ SpawnFails(r) \/ EofExits(r) \/ Closed(r) \/ Finish(r)
    BY <1>3, <2>1 DEF ProbeFails, SpawnFails, EofExits, Closed, Finish, Ended
  <2>2. CASE Open(r) \/ Abandon(r) \/ EndOfOutput(r) \/ Silent(r) \/ Raises(r)
    BY <1>3, <2>2 DEF Open, Abandon, EndOfOutput, Silent, Raises
  <2>3. CASE Spawned(r)
    BY <1>3, <2>3 DEF Spawned
  <2>4. CASE Overflow(r)
    BY <1>3, <2>4 DEF Overflow
  <2>5. CASE TimeOut(r)
    <3>1. status' = status \/ status' = Ended(r, "failed")
      BY <2>5 DEF TimeOut
    <3> QED
      BY <1>3, <3>1 DEF Ended
  <2>6. ASSUME NEW success \in BOOLEAN, Result(r, success) PROVE FALSE
    <3>1. \/ status' = status
          \/ status' = [status EXCEPT ![r] = IF success THEN "completed" ELSE "failed"]
      BY <2>6 DEF Result
    <3> QED
      BY <1>3, <3>1
  <2> QED
    BY <1>3, <2>1, <2>2, <2>3, <2>4, <2>5, <2>6 DEF TurnStep
<1>4. ASSUME NEW r \in Runs, CancelAtOnce(r) PROVE CancelAtOnce(u)
  <2>1. r = u
    BY <1>4 DEF CancelAtOnce
  <2> QED
    BY <1>4, <2>1
<1>5. ASSUME NEW r \in Runs, CancelReturns(r) PROVE CancelReturns(u)
  <2>1. r = u
    BY <1>5 DEF CancelReturns, Ended
  <2> QED
    BY <1>5, <2>1
<1>6. ASSUME NEW r \in Runs, NEW by \in Stoppers, Escalate(by, r) PROVE FALSE
  BY <1>6 DEF Escalate
<1>7. CASE DeleteSession \/ Shutdown \/ Exits \/ Crash \/ Start
  <2>1. status' = status \/ status' = [r \in Runs |-> "deleted"]
        \/ status' = [r \in Runs |-> IF status[r] \in InFlight \cup {"queued"} THEN "interrupted"
                                      ELSE status[r]]
    <3>1. CASE DeleteSession
      BY <3>1 DEF DeleteSession
    <3>2. CASE Shutdown
      BY <3>2 DEF Shutdown
    <3>3. CASE Exits \/ Crash
      BY <3>3 DEF Exits, Crash
    <3>4. CASE Start
      BY <3>4 DEF Start
    <3> QED
      BY <1>7, <3>1, <3>2, <3>3, <3>4
  <2> QED
    BY <2>1
<1> QED
  BY <1>1, <1>2, <1>3, <1>4, <1>5, <1>6, <1>7 DEF Next

\* A cancel request for a streaming turn of a recorded thread leaves no process behind: it
\* has exited, or run_turn no longer held it, or stop() has it (queue.py cancel).
THEOREM CancelLeavesNothing == Spec => CancelStops
<1> DEFINE Stops == \A r \in Runs :
             status[r] = "streaming" /\ status'[r] = "cancelled" /\ external # None =>
                 \/ process'[r] = "exited"
                 \/ left[r] \in {"raised", "cut short"}
                 \/ stops["shutdown"][r] # "no"
<1>1. IInv /\ Next => Stops
  <2> SUFFICES ASSUME IInv, Next, NEW r \in Runs, status[r] = "streaming",
                      status'[r] = "cancelled", external # None
               PROVE  \/ process'[r] = "exited"
                      \/ left[r] \in {"raised", "cut short"}
                      \/ stops["shutdown"][r] # "no"
    OBVIOUS
  <2>1. Fits(r) /\ process[r] \in {"none", "alive", "exited"}
    BY DEF IInv, TypeOK
  <2>2. process[r] # "none" /\ turnId[r] = TRUE
    BY <2>1 DEF Fits, StatusFits
  <2>3. CASE CancelAtOnce(r)
    <3>1. /\ daemon # "off" /\ process' = process
          /\ ~(external # None /\ turnId[r] /\ r \in active /\ process[r] = "alive")
      BY <2>3 DEF CancelAtOnce, Interruptible, processes
    <3>2. r \notin active \/ process[r] # "alive"
      BY <2>2, <3>1
    <3> QED
      BY <2>1, <2>2, <3>1, <3>2 DEF Fits, Stoppable
  <2>4. CASE CancelReturns(r)
    <3>1. process' = process /\ (stops["cancel"][r] = "killed" \/ process[r] = "exited")
      BY <2>4 DEF CancelReturns, Over
    <3> QED
      BY <2>1, <3>1 DEF Fits, StopsFit, Stoppers
  <2>5. status[r] # "cancelled"
    OBVIOUS
  <2> QED
    BY <2>3, <2>4, <2>5, WhoCancels
<1>2. IInv /\ [Next]_vars => [Stops]_vars
  BY <1>1
<1>3. Spec => [][Stops]_vars
  BY <1>2, Invariance, PTL DEF Spec
<1> QED
  BY <1>3 DEF CancelStops
=============================================================================
