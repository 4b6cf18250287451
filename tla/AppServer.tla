------------------------------ MODULE AppServer ------------------------------
(***************************************************************************)
(* The Codex provider (agents/app_server.py) in its registry               *)
(* (agents/registry.py): one asyncio loop in which the queue's worker runs *)
(* turns, the runtime status polls health and restarts a failed provider,  *)
(* and PATCH /settings replaces the provider by one with another           *)
(* executable.  Every await is a point where another task goes on.         *)
(*                                                                         *)
(* A provider is a Python object with at most one process of its own; a    *)
(* process has a reader task that feeds its object's notification queue.   *)
(* X_Y is the mutant Y of definition X.                                    *)
(***************************************************************************)
EXTENDS Naturals, Sequences

CONSTANTS
    Providers,  \* the provider objects, of which one is registered
    First,      \* the one registered at startup
    None,       \* no task, no provider
    Capacity,   \* notifications a provider keeps (2048 in the code)
    MaxSlots,   \* bound on processes alive or remembered at once
    MaxTurns,   \* bound on turns
    MaxFaults   \* bound on crashes, failed starts, unanswered requests, missing logins

ASSUME AppServerAssumption ==
    /\ First \in Providers /\ None \notin Providers
    /\ {Capacity, MaxSlots} \subseteq Nat \ {0}
    /\ {MaxTurns, MaxFaults} \subseteq Nat

Tasks == {"worker", "poll", "patch"}
Slots == 1..MaxSlots
Statuses == {"stopped", "starting", "ready", "unavailable", "error"}

VARIABLES
    proc,       \* the processes: "free", "alive" or "dead"
    owner,      \* the provider whose start() created it (First once it has gone)
    reading,    \* processes whose reader task has not ended
    work,       \* the turn a process is working on, or 0
    process,    \* _process of each provider, or 0
    status,     \* _health of each provider
    notes,      \* _notifications of each provider
    registered, \* the provider of the registry
    fresh,      \* providers that have never been registered
    lock,       \* the start lock of a provider's registration: its holder
    pc,         \* where each task is: at, with which provider and process
    broken,     \* tasks whose pending request has been failed by stop() or the reader
    turn,       \* the latest turn
    outcome,    \* how it ended for the queue
    finished,   \* history: the app-server has completed it
    lost,       \* history: its process died or was stopped under it (neither, once it failed)
    overlap,    \* history: a start has met another start or stop, or the last reader's end
    faults

processes == <<proc, owner, reading, work>>
objects == <<process, status, notes>>
registry == <<registered, fresh, lock>>
turns == <<turn, outcome, finished, lost>>

vars == <<processes, objects, registry, pc, broken, turns, overlap, faults>>

Idle == [at |-> "idle", obj |-> None, pid |-> 0]
At(t, step) == pc[t].at = step
Goto(t, step, o, p) == [pc EXCEPT ![t] = [at |-> step, obj |-> o, pid |-> p]]

Running(o) == process[o] # 0 /\ proc[process[o]] = "alive"
Health(o) == IF process[o] # 0 /\ proc[process[o]] = "dead" THEN "error" ELSE status[o]

\* The tasks that await an answer of a provider.
Waiting(o) == {t \in Tasks : pc[t].obj = o /\ pc[t].at \in {"handshake", "request"}}
Queued(o, note) == IF Len(notes[o]) < Capacity THEN Append(notes[o], note) ELSE notes[o]
Fault == faults < MaxFaults /\ faults' = faults + 1

(***************************************************************************)
(* start() and stop() of a provider, as steps of the task that calls them  *)
(***************************************************************************)

Overlaps(o) ==
    overlap' = (overlap \/ \E t \in Tasks :
        pc[t].obj = o /\ pc[t].at \in {"spawn", "handshake", "exit", "stopping"})

\* start(): up to the creation of the process.
EnterStart(t, o) ==
    /\ status' = [status EXCEPT ![o] = "starting"]
    /\ notes' = [notes EXCEPT ![o] = <<>>]
    /\ pc' = Goto(t, "spawn", o, 0)
    /\ Overlaps(o)

\* What follows in the task once start() has returned or raised, the provider's health
\* being h: a turn, or the release of the start lock.
AfterStart(t, o, h) ==
    IF t # "worker"
    THEN /\ pc' = [pc EXCEPT ![t] = Idle]
         /\ lock' = [x \in Providers |-> IF lock[x] = t THEN None ELSE lock[x]]
         /\ UNCHANGED <<work, outcome>>
    ELSE /\ IF h = "ready"
            THEN /\ pc' = Goto(t, "request", o, process[o])
                 /\ work' = [work EXCEPT ![process[o]] = turn]
                 /\ UNCHANGED outcome
            ELSE /\ pc' = [pc EXCEPT ![t] = Idle]
                 /\ outcome' = "failed"
                 /\ UNCHANGED work
         /\ UNCHANGED lock

\* A slot is free again once nothing refers to its process.
Unused(p) ==
    /\ proc[p] # "alive" /\ p \notin reading
    /\ \A o \in Providers : process[o] # p
    /\ \A t \in Tasks : pc[t].pid # p
FreeSlots == {p \in Slots : Unused(p)}

Spawned(t) ==
    /\ At(t, "spawn")
    /\ FreeSlots # {}
    /\ LET o == pc[t].obj
           p == CHOOSE x \in FreeSlots : \A y \in FreeSlots : x <= y
       IN  /\ proc' = [proc EXCEPT ![p] = "alive"]
           /\ owner' = [owner EXCEPT ![p] = o]
           /\ reading' = reading \cup {p}
           /\ work' = [work EXCEPT ![p] = 0]
           /\ process' = [process EXCEPT ![o] = p]
           /\ pc' = Goto(t, "handshake", o, p)
    /\ UNCHANGED <<status, notes, registry, broken, turns, faults, overlap>>

SpawnFails(t) ==
    /\ At(t, "spawn")
    /\ IF FreeSlots = {} THEN UNCHANGED faults ELSE Fault
    /\ status' = [status EXCEPT ![pc[t].obj] = "unavailable"]
    /\ AfterStart(t, pc[t].obj, "unavailable")
    /\ UNCHANGED <<proc, owner, reading, process, notes, registered, fresh, broken, turn,
                   finished, lost, overlap>>

\* The app-server has answered; the user is signed in with it, or not.
Initialized(t, signedIn) ==
    /\ At(t, "handshake") /\ t \notin broken
    /\ Running(pc[t].obj)
    /\ IF signedIn THEN UNCHANGED faults ELSE Fault
    /\ LET h == IF signedIn THEN "ready" ELSE "unavailable" IN
        /\ status' = [status EXCEPT ![pc[t].obj] = h]
        /\ AfterStart(t, pc[t].obj, h)
    /\ UNCHANGED <<proc, owner, reading, process, notes, registered, fresh, broken, turn,
                   finished, lost, overlap>>

\* start() gives up: an answer is an error or too late, or the request has been failed.
StartFails(t) ==
    /\ At(t, "handshake")
    /\ LET o == pc[t].obj IN
        /\ IF t \in broken \/ ~Running(o) THEN UNCHANGED faults ELSE Fault
        /\ process' = [process EXCEPT ![o] = 0]
        /\ pc' = Goto(t, "exit", o, process[o])
    /\ broken' = broken \ {t}
    /\ UNCHANGED <<processes, status, notes, registry, turns, overlap>>

Lost(p) == lost \/ (p # 0 /\ pc["worker"].pid = p /\ pc["worker"].at \in {"request", "turn"})

\* stop() has ended the process it found (EOF, SIGTERM, SIGKILL), cancelled the reader
\* and failed what is pending.
Ended(p) ==
    /\ proc' = [x \in Slots |-> IF x = p THEN "free" ELSE proc[x]]
    /\ owner' = [x \in Slots |-> IF x = p THEN First ELSE owner[x]]
    /\ reading' = reading \ {p}
    /\ lost' = Lost(p)

StartStopped(t) ==
    /\ At(t, "exit")
    /\ LET o == pc[t].obj IN
        /\ Ended(pc[t].pid)
        /\ broken' = broken \cup Waiting(o)
        /\ status' = [status EXCEPT ![o] = "error"]
        /\ AfterStart(t, o, "error")
    /\ UNCHANGED <<process, notes, registered, fresh, turn, finished, faults, overlap>>

(***************************************************************************)
(* The queue's worker                                                      *)
(***************************************************************************)

\* _ensure_provider_ready
WorkerBegins ==
    /\ At("worker", "idle")
    /\ turn < MaxTurns
    /\ turn' = turn + 1 /\ finished' = FALSE /\ lost' = FALSE
    /\ LET o == registered IN
        CASE Health(o) = "ready" ->
               /\ pc' = Goto("worker", "request", o, process[o])
               /\ work' = IF process[o] = 0 THEN work
                          ELSE [work EXCEPT ![process[o]] = turn + 1]
               /\ broken' = IF process[o] = 0 THEN broken \cup {"worker"} ELSE broken
               /\ outcome' = "none"
               /\ UNCHANGED <<status, notes, overlap>>
          [] Health(o) # "ready" /\ Running(o) ->
               /\ outcome' = "failed"
               /\ UNCHANGED <<status, notes, pc, work, broken, overlap>>
          [] OTHER ->
               EnterStart("worker", o) /\ outcome' = "none" /\ UNCHANGED <<work, broken>>
    /\ UNCHANGED <<proc, owner, reading, process, registry, faults>>

TurnStarted ==
    /\ At("worker", "request") /\ "worker" \notin broken
    /\ proc[pc["worker"].pid] = "alive"
    /\ pc' = [pc EXCEPT !["worker"].at = "turn"]
    /\ UNCHANGED <<processes, objects, registry, broken, turns, faults, overlap>>

EndTurn(how) ==
    /\ outcome' = how
    /\ finished' = (finished /\ how = "completed") /\ lost' = (lost /\ how = "exited")
    /\ pc' = [pc EXCEPT !["worker"] = Idle]

\* turn/start raises: answered too late, or failed with the process.
RequestFails ==
    /\ At("worker", "request")
    /\ IF "worker" \in broken \/ proc[pc["worker"].pid] # "alive" THEN UNCHANGED faults ELSE Fault
    /\ broken' = broken \ {"worker"}
    /\ EndTurn("failed")
    /\ UNCHANGED <<processes, objects, registry, turn, overlap>>

\* run_turn takes a notification: its own, or the end of the transport.
TakeNote_AnyTurn ==
    /\ At("worker", "turn")
    /\ LET o == pc["worker"].obj IN
        /\ notes[o] # <<>>
        /\ notes' = [notes EXCEPT ![o] = Tail(@)]
        /\ LET note == Head(notes[o]) IN
            CASE note.kind = "closed" -> EndTurn("exited")
              [] note.kind = "completed" -> EndTurn("completed")
              [] OTHER -> UNCHANGED <<pc, outcome, finished, lost>>
    /\ UNCHANGED <<processes, process, status, registry, broken, turn, faults, overlap>>
TakeNote ==
    /\ At("worker", "turn")
    /\ LET o == pc["worker"].obj IN
        /\ notes[o] # <<>>
        /\ notes' = [notes EXCEPT ![o] = Tail(@)]
        /\ LET note == Head(notes[o]) IN
            CASE note.kind = "closed" -> EndTurn("exited")
              [] note.kind = "completed" /\ note.turn = turn -> EndTurn("completed")
              [] OTHER -> UNCHANGED <<pc, outcome, finished, lost>>
    /\ UNCHANGED <<processes, process, status, registry, broken, turn, faults, overlap>>

\* Nothing came for inactivity_timeout_seconds.
Inactive ==
    /\ At("worker", "turn")
    /\ notes[pc["worker"].obj] = <<>>
    /\ EndTurn("failed")
    /\ UNCHANGED <<processes, objects, registry, broken, turn, faults, overlap>>

(***************************************************************************)
(* The registry                                                            *)
(***************************************************************************)

\* registry.health(refresh=True), a retry being due.
WantsStart(o) == Health(o) \notin {"ready", "starting"}

HealthUnderLock(t, o) ==
    IF WantsStart(o) /\ ~Running(o)
    THEN lock' = [lock EXCEPT ![o] = t] /\ EnterStart(t, o)
    ELSE pc' = [pc EXCEPT ![t] = Idle] /\ UNCHANGED <<lock, status, notes, overlap>>

PollBegins_WhenStopped ==
    /\ At("poll", "idle")
    /\ Health(registered) = "stopped"
    /\ IF lock[registered] = None
       THEN HealthUnderLock("poll", registered)
       ELSE pc' = Goto("poll", "lock", registered, 0) /\ UNCHANGED <<lock, status, notes, overlap>>
    /\ UNCHANGED <<processes, process, registered, fresh, broken, turns, faults>>
PollBegins ==
    /\ At("poll", "idle")
    /\ WantsStart(registered)
    /\ IF lock[registered] = None
       THEN HealthUnderLock("poll", registered)
       ELSE pc' = Goto("poll", "lock", registered, 0) /\ UNCHANGED <<lock, status, notes, overlap>>
    /\ UNCHANGED <<processes, process, registered, fresh, broken, turns, faults>>

PollLocked ==
    /\ At("poll", "lock")
    /\ lock[pc["poll"].obj] = None
    /\ HealthUnderLock("poll", pc["poll"].obj)
    /\ UNCHANGED <<processes, process, registered, fresh, broken, turns, faults>>

\* replace(): the new provider takes the place of the old, with a lock of its own, and
\* replace_provider asks for its health, which starts it.
Replaced(n) ==
    /\ registered' = n
    /\ fresh' = fresh \ {n}
    /\ lock' = [lock EXCEPT ![n] = "patch"]

\* replace_provider: no run of the provider is queued or under way.
PatchBegins(n) ==
    /\ At("patch", "idle")
    /\ At("worker", "idle")
    /\ n \in fresh
    /\ process' = [process EXCEPT ![registered] = 0]
    /\ IF process[registered] # 0
       THEN /\ pc' = Goto("patch", "stopping", registered, process[registered])
            /\ UNCHANGED <<status, notes, registered, fresh, lock, broken>>
       ELSE /\ broken' = broken \cup Waiting(registered)
            /\ status' = [status EXCEPT ![registered] = "stopped", ![n] = "starting"]
            /\ pc' = Goto("patch", "spawn", n, 0)
            /\ Replaced(n)
            /\ UNCHANGED notes
    /\ UNCHANGED <<processes, turns, faults, overlap>>

PatchStopped(n) ==
    /\ At("patch", "stopping")
    /\ n \in fresh
    /\ Ended(pc["patch"].pid)
    /\ broken' = broken \cup Waiting(pc["patch"].obj)
    /\ status' = [status EXCEPT ![pc["patch"].obj] = "stopped", ![n] = "starting"]
    /\ pc' = Goto("patch", "spawn", n, 0)
    /\ Replaced(n)
    /\ work' = [work EXCEPT ![pc["patch"].pid] = 0]
    /\ UNCHANGED <<process, notes, turn, outcome, finished, faults, overlap>>

(***************************************************************************)
(* The processes and their readers                                         *)
(***************************************************************************)

\* The app-server completes its turn.
Completes(p) ==
    /\ proc[p] = "alive" /\ p \in reading
    /\ work[p] # 0
    /\ notes' = [notes EXCEPT ![owner[p]] =
                    Queued(owner[p], [kind |-> "completed", turn |-> work[p]])]
    /\ work' = [work EXCEPT ![p] = 0]
    /\ finished' = (finished \/ (work[p] = turn /\ outcome = "none"))
    /\ UNCHANGED <<proc, owner, reading, process, status, registry, pc, broken, turn, outcome,
                   lost, faults, overlap>>

Crash(p) ==
    /\ proc[p] = "alive"
    /\ Fault
    /\ proc' = [proc EXCEPT ![p] = "dead"]
    /\ work' = [work EXCEPT ![p] = 0]
    /\ lost' = Lost(p)
    /\ UNCHANGED <<owner, reading, objects, registry, pc, broken, turn, outcome, finished, overlap>>

\* The reader sees the end of the output.
ReaderEnds(p) ==
    /\ p \in reading /\ proc[p] = "dead"
    /\ reading' = reading \ {p}
    /\ owner' = [owner EXCEPT ![p] = First]
    /\ LET o == owner[p] IN
        IF process[o] = p
        THEN /\ status' = [status EXCEPT ![o] = "error"]
             /\ notes' = [notes EXCEPT ![o] = Queued(o, [kind |-> "closed", turn |-> 0])]
             /\ broken' = broken \cup Waiting(o)
             /\ Overlaps(o)
        ELSE UNCHANGED <<status, notes, broken, overlap>>
    /\ UNCHANGED <<proc, work, process, registry, pc, turns, faults>>

(***************************************************************************)
(* The specification                                                       *)
(***************************************************************************)

Init ==
    /\ proc = [p \in Slots |-> "free"] /\ owner = [p \in Slots |-> First]
    /\ reading = {} /\ work = [p \in Slots |-> 0]
    /\ process = [o \in Providers |-> 0] /\ status = [o \in Providers |-> "stopped"]
    /\ notes = [o \in Providers |-> <<>>]
    /\ registered = First /\ fresh = Providers \ {First}
    /\ lock = [o \in Providers |-> None]
    /\ pc = [t \in Tasks |-> Idle] /\ broken = {}
    /\ turn = 0 /\ outcome = "none"
    /\ finished = FALSE /\ lost = FALSE /\ overlap = FALSE /\ faults = 0

Starting(t) ==
    Spawned(t) \/ SpawnFails(t) \/ (\E signedIn \in BOOLEAN : Initialized(t, signedIn)) \/ StartFails(t)
    \/ StartStopped(t)
Working == WorkerBegins \/ TurnStarted \/ RequestFails \/ TakeNote \/ Inactive
Reading == \E p \in Slots : ReaderEnds(p)
Polling == PollBegins \/ PollLocked
Patching == \E n \in Providers : PatchBegins(n) \/ PatchStopped(n)

Next ==
    \/ \E t \in Tasks : Starting(t)
    \/ Working \/ Reading \/ Polling \/ Patching
    \/ \E p \in Slots : Crash(p) \/ Completes(p)

Spec == Init /\ [][Next]_vars

\* Timeouts pass, answers come or are given up, the status is polled: each task goes on
\* when it can, and so do the readers.
WorkerGoesOn == Starting("worker") \/ TurnStarted \/ RequestFails \/ TakeNote \/ Inactive
PollGoesOn == Starting("poll") \/ Polling
PatchGoesOn == Starting("patch") \/ \E n \in Providers : PatchStopped(n)

FairSpec ==
    Spec /\ WF_vars(WorkerGoesOn) /\ WF_vars(PollGoesOn) /\ WF_vars(PatchGoesOn) /\ WF_vars(Reading)

(***************************************************************************)
(* Properties                                                              *)
(***************************************************************************)

\* A turn counts as completed only if the app-server has completed that very turn, and as
\* failed with the transport only if its own process ended: late notifications of a turn
\* given up, or of an earlier process, are not taken for its own - unless two starts met,
\* or the reader of the earlier process ended only while the next was being created
\* (app_server.py _notification_for, start, _read_stdout).
TrueOutcome ==
    /\ outcome = "completed" => finished
    /\ outcome = "exited" => lost \/ overlap

\* "The next scheduled refresh will retry": a registered provider whose process has died
\* or whose start has failed does not stay in error, unless a start of the provider has
\* met another one, or the stop of one (registry.py health, polled by the runtime status).
RecoversAlone == (Health(registered) = "error") ~> (Health(registered) # "error" \/ overlap)

(***************************************************************************)
(* What the documents say and the code does not keep: see the README       *)
(***************************************************************************)

\* The same without the exception.  Not so: two starts that meet leave a process of which
\* the provider knows nothing, or an error beside a process that runs.
Recovers == (Health(registered) = "error") ~> (Health(registered) # "error")

\* "The server owns the Codex process tree and shuts it down in a controlled order": a
\* process that is alive is the one of the registered provider, or a task has it in hand.
\* Not so when two starts met, or a replaced provider was started once more.
Owned ==
    \A p \in Slots : proc[p] = "alive" =>
        \/ process[registered] = p
        \/ \E t \in Tasks : pc[t].pid = p

=============================================================================
