--------------------------- MODULE ServerLifecycle ---------------------------
(***************************************************************************)
(* The life of the server process, and of the controllers that start and   *)
(* stop it: DaemonController, run by the launcher's action thread, its     *)
(* monitor and the command line, each a process or thread of its own, and  *)
(* run_server.  They share the runtime directory: the descriptor           *)
(* server.json, the control token, lifecycle.lock and server.lock.         *)
(*                                                                         *)
(* A step is one access to what is shared, with what follows from it.      *)
(* status() takes no lock and yet removes a stale descriptor and its       *)
(* token; start, stop and force_stop hold lifecycle.lock, while a server   *)
(* removes its files under server.lock only: any step may come between.    *)
(*                                                                         *)
(* A definition named X_Y is the mutant Y of X: no action uses it, and the *)
(* checks show which property notices it in the place of X.                *)
(***************************************************************************)
EXTENDS Naturals

CONSTANTS
    Controllers,   \* whoever holds a DaemonController
    Pids,          \* process ids, which the system gives out again
    None,          \* no file, no process, no lock owner
    Commands,      \* what controllers are asked to do
    MaxProcesses,  \* bound on the processes ever created
    MaxCommands,   \* bound on the commands given to controllers
    MaxFaults,     \* bound on processes and controllers ended from outside
    MaxPolls       \* bound on the rounds of a waiting loop before its timeout

Processes == 1..MaxProcesses   \* in the order of their create_time

AllCommands ==
    {"status", "start", "stop", "stop_force", "force", "restart", "restart_force"}

ASSUME LifecycleAssumption ==
    /\ Commands \subseteq AllCommands
    /\ {MaxProcesses, MaxCommands, MaxFaults, MaxPolls} \subseteq Nat
    /\ None \notin Controllers \cup Pids \cup Nat

VARIABLES
    stage,          \* per process, how far it has come
    pid,            \* per process, its pid
    leaving,        \* server processes with should_exit set
    serverLock,     \* the process that owns server.lock
    port,           \* the process that listens on the port
    descriptor,     \* server.json
    token,          \* the control token in its file
    lifecycleLock,  \* the controller that owns lifecycle.lock
    at,             \* per controller, where it is in its method
    local,          \* the variables of that method
    commands,       \* commands given so far
    faults,         \* ends from outside so far
    signalled       \* processes sent a signal by force_stop

processes == <<stage, pid, leaving, serverLock, port>>
files == <<descriptor, token>>
controllers == <<lifecycleLock, at, local>>
history == <<commands, faults, signalled>>
vars == <<processes, files, controllers, history>>

(***************************************************************************)
(* Processes                                                               *)
(***************************************************************************)

\* A server loads its modules, owns server.lock, listens, is described, removes its
\* files, and exits; strangers are other programs of the user.
Owning == {"locked", "serving", "ready", "dropping", "droppingToken"}
Stages == {"unborn", "boot", "exiting", "dead", "stranger", "gone"} \cup Owning

Descriptors == [pid : Pids, created : Processes, started : BOOLEAN]
Tokens == 1..(2 * MaxProcesses)

Alive(p) == stage[p] \notin {"unborn", "dead", "gone"}

Matches_PidOnly(d) == \E p \in Processes : Alive(p) /\ pid[p] = d.pid
Matches(d) == \E p \in Processes : Alive(p) /\ pid[p] = d.pid /\ p = d.created

\* The health endpoint may still fail to answer in time.
Serves(p) == port = p /\ stage[p] \in {"serving", "ready"}

Newborn(p) == stage[p] = "unborn" /\ \A q \in 1..(p - 1) : stage[q] # "unborn"

Born(p, i, s) ==
    /\ Newborn(p)
    /\ \A q \in Processes : Alive(q) => pid[q] # i
    /\ stage' = [stage EXCEPT ![p] = s]
    /\ pid' = [pid EXCEPT ![p] = i]
    /\ UNCHANGED <<leaving, serverLock, port>>

\* The system takes back the lock and the port of a process that ends.
Ends(p) ==
    /\ stage' = [stage EXCEPT ![p] = IF @ = "stranger" THEN "gone" ELSE "dead"]
    /\ serverLock' = IF serverLock = p THEN None ELSE serverLock
    /\ port' = IF port = p THEN None ELSE port
    /\ UNCHANGED <<pid, leaving>>

\* SIGTERM or Ctrl+C: the handlers are there once the modules are loaded.
Signal(p) ==
    IF stage[p] \in Owning \cup {"exiting"}
    THEN leaving' = leaving \cup {p} /\ UNCHANGED <<stage, pid, serverLock, port>>
    ELSE Ends(p)

(***************************************************************************)
(* run_server                                                              *)
(***************************************************************************)

Goes(p, from, to) ==
    /\ stage[p] = from
    /\ stage' = [stage EXCEPT ![p] = to]
    /\ UNCHANGED <<pid, leaving>>

TakeServerLock_Anyway(p) ==
    /\ Goes(p, "boot", "locked")
    /\ serverLock' = p
    /\ token' = IF token = None THEN MaxProcesses + p ELSE token
    /\ UNCHANGED <<port, descriptor>>
TakeServerLock(p) ==
    /\ serverLock = None
    /\ Goes(p, "boot", "locked")
    /\ serverLock' = p
    /\ token' = IF token = None THEN MaxProcesses + p ELSE token
    /\ UNCHANGED <<port, descriptor>>

\* Another server owns the lock: return 2.
ServerLockTaken(p) ==
    /\ serverLock # None
    /\ Goes(p, "boot", "dead")
    /\ UNCHANGED <<serverLock, port, files>>

Bind(p) ==
    /\ port = None
    /\ Goes(p, "locked", "serving")
    /\ port' = p
    /\ UNCHANGED <<serverLock, files>>

Describe(p) ==
    /\ Goes(p, "serving", "ready")
    /\ descriptor' = [pid |-> pid[p], created |-> p, started |-> TRUE]
    /\ UNCHANGED <<serverLock, port, token>>

ClosePort(p) ==
    /\ p \in leaving
    /\ Serves(p)
    /\ port' = None
    /\ UNCHANGED <<stage, pid, leaving, serverLock, files>>

\* The finally clause: the files go if the descriptor is the server's own.
Finally(p, from) ==
    /\ IF descriptor # None /\ descriptor.pid = pid[p] /\ descriptor.created = p
       THEN Goes(p, from, "dropping") /\ UNCHANGED serverLock
       ELSE Goes(p, from, "exiting") /\ serverLock' = None
    /\ UNCHANGED <<port, files>>

BindFails(p) == port # None /\ Finally(p, "locked")

\* Connections and lifespan are closed.
ServeReturns(p) == p \in leaving /\ port # p /\ Finally(p, "ready")

DropDescriptor(p) ==
    /\ Goes(p, "dropping", "droppingToken")
    /\ descriptor' = None
    /\ UNCHANGED <<serverLock, port, token>>

DropToken(p) ==
    /\ Goes(p, "droppingToken", "exiting")
    /\ token' = None
    /\ serverLock' = None
    /\ UNCHANGED <<port, descriptor>>

Exit(p) == stage[p] = "exiting" /\ Ends(p) /\ UNCHANGED files

Server(p) ==
    \/ TakeServerLock(p) \/ ServerLockTaken(p) \/ Bind(p) \/ BindFails(p) \/ Describe(p)
    \/ ClosePort(p) \/ ServeReturns(p) \/ DropDescriptor(p) \/ DropToken(p) \/ Exit(p)

\* `elsewise run` in a terminal takes no lifecycle lock.
RunForeground(p, i) == Born(p, i, "boot") /\ UNCHANGED files

\* Another program gets a pid that is free again, or listens on the port.
Stranger(p, i) == Born(p, i, "stranger") /\ UNCHANGED files

StrangerBinds(p) ==
    /\ stage[p] = "stranger"
    /\ port = None
    /\ port' = p
    /\ UNCHANGED <<stage, pid, leaving, serverLock, files>>

Fails ==
    /\ faults < MaxFaults
    /\ faults' = faults + 1
    /\ UNCHANGED <<commands, signalled>>

Interrupt(p) == stage[p] \in {"boot"} \cup Owning /\ Signal(p) /\ UNCHANGED files

Crash(p) == Alive(p) /\ Ends(p) /\ UNCHANGED files

(***************************************************************************)
(* DaemonController                                                        *)
(***************************************************************************)

Methods == {"status", "start", "stop", "force"}
Results == {"running", "starting", "unresponsive", "stopped", "port_conflict", "error"}
Places == {"idle", "acquire", "load", "judge", "dropToken", "port",
           "writeToken", "launch", "describe", "wait", "dropChildToken",
           "reload", "readToken", "await", "terminate", "kill", "verify", "cleanToken",
           "done"}

Locals == [
    command : AllCommands,                  \* what the controller was asked to do
    method : Methods,                     \* the method it executes for it
    back : {"begin", "wait", "done"},     \* what comes after status()
    seen : Descriptors \cup {None},       \* the descriptor it has loaded
    target : Processes \cup {None},       \* the process it launched, or is to kill
    proof : Tokens \cup {None},           \* the token it has read
    accepted : BOOLEAN,                   \* was a shutdown request answered with 200?
    polls : 0..MaxPolls,                  \* rounds of the loop it waits in
    result : Results]                     \* the state of the last ServerStatus

Fresh(command, method) ==
    [command |-> command, method |-> method, back |-> "done", seen |-> None,
     target |-> None, proof |-> None, accepted |-> FALSE, polls |-> 0, result |-> "stopped"]

Go(c, where) == at' = [at EXCEPT ![c] = where]
Private == UNCHANGED <<processes, files, lifecycleLock, history>>

Enter(c, command, method) ==
    /\ Go(c, IF method = "status" THEN "load" ELSE "acquire")
    /\ local' = [local EXCEPT ![c] = Fresh(command, method)]

Rest(c) ==
    /\ Go(c, "idle")
    /\ local' = [local EXCEPT ![c] = Fresh("status", "status")]

FirstMethod(m) == IF m \in {"restart", "restart_force", "stop_force"} THEN "stop" ELSE m

Command(c, m) ==
    /\ at[c] = "idle"
    /\ commands < MaxCommands
    /\ commands' = commands + 1
    /\ Enter(c, m, FirstMethod(m))
    /\ UNCHANGED <<processes, files, lifecycleLock, faults, signalled>>

\* force_stop, unlike the others, does not begin with a status().
Acquire(c) ==
    /\ at[c] = "acquire"
    /\ lifecycleLock = None
    /\ lifecycleLock' = c
    /\ Go(c, IF local[c].method = "force" THEN "reload" ELSE "load")
    /\ local' = [local EXCEPT ![c].back = "begin"]
    /\ UNCHANGED <<processes, files, history>>

\* status() ---------------------------------------------------------------

Load(c) ==
    /\ at[c] = "load"
    /\ local' = [local EXCEPT ![c].seen = descriptor]
    /\ Go(c, IF descriptor = None THEN "port" ELSE "judge")
    /\ Private

\* What start and stop do with the status they begin with, or wait for.
AfterStatus(c, status) ==
    CASE local[c].back = "done" -> "done"
      [] local[c].back = "wait" -> IF status = "running" THEN "done" ELSE "wait"
      [] local[c].method = "start" ->
            IF status \in {"running", "starting", "port_conflict"} THEN "done"
            ELSE "writeToken"
      [] OTHER -> IF status \in {"stopped", "port_conflict"} THEN "done" ELSE "reload"

StatusReturns(c, status) ==
    /\ Go(c, AfterStatus(c, status))
    /\ local' = [local EXCEPT ![c].result = status, ![c].back = "done", ![c].seen = None]
    /\ Private

JudgeLive(c) ==
    /\ at[c] = "judge"
    /\ Matches(local[c].seen)
    /\ \/ (\E p \in Processes : Serves(p)) /\ StatusReturns(c, "running")
       \/ StatusReturns(c, IF local[c].seen.started THEN "unresponsive" ELSE "starting")

\* A process that has ended stays so: seeing it and removing the file are one step.
Remove(c, to) ==
    /\ descriptor' = None
    /\ Go(c, to)
    /\ UNCHANGED <<processes, token, lifecycleLock, local, history>>

RemoveToken(c, to, status) ==
    /\ token' = None
    /\ Go(c, to)
    /\ local' = [local EXCEPT ![c].result = status]
    /\ UNCHANGED <<processes, descriptor, lifecycleLock, history>>

RemoveStale(c) == at[c] = "judge" /\ ~Matches(local[c].seen) /\ Remove(c, "dropToken")

RemoveStaleToken(c) == at[c] = "dropToken" /\ RemoveToken(c, "port", local[c].result)

LookAtPort(c) ==
    /\ at[c] = "port"
    /\ StatusReturns(c, IF port = None THEN "stopped" ELSE "port_conflict")

\* start() ----------------------------------------------------------------

WriteToken(c) ==
    /\ at[c] = "writeToken"
    /\ \E p \in Processes : Newborn(p) /\ token' = p
    /\ Go(c, "launch")
    /\ UNCHANGED <<processes, descriptor, lifecycleLock, local, history>>

Launch(c, p, i) ==
    /\ at[c] = "launch"
    /\ Born(p, i, "boot")
    /\ local' = [local EXCEPT ![c].target = p]
    /\ Go(c, "describe")
    /\ UNCHANGED <<files, lifecycleLock, history>>

Returns(c, status) ==
    /\ Go(c, "done")
    /\ local' = [local EXCEPT ![c].result = status]
    /\ Private

\* OSError or RuntimeError.
StartFails(c) == at[c] \in {"writeToken", "launch"} /\ Returns(c, "error")

SaveStarted(c) ==
    /\ at[c] = "describe"
    /\ LET p == local[c].target IN
        descriptor' = [pid |-> pid[p], created |-> p, started |-> FALSE]
    /\ Go(c, "wait")
    /\ UNCHANGED <<processes, token, lifecycleLock, local, history>>

Waits(c) == local[c].polls < MaxPolls

WaitPoll(c) ==
    /\ at[c] = "wait"
    /\ Waits(c)
    /\ Alive(local[c].target)
    /\ local' = [local EXCEPT ![c].polls = @ + 1, ![c].back = "wait"]
    /\ Go(c, "load")
    /\ Private

RemoveChild(c) ==
    /\ at[c] = "wait"
    /\ Waits(c)
    /\ ~Alive(local[c].target)
    /\ Remove(c, "dropChildToken")

RemoveChildToken(c) == at[c] = "dropChildToken" /\ RemoveToken(c, "done", "error")

\* The deadline of start, or of stop.
Timeout(c) == at[c] \in {"wait", "await"} /\ ~Waits(c) /\ Returns(c, "unresponsive")

\* stop() -----------------------------------------------------------------

\* What the descriptor names is what stop and force_stop deal with from here on.
Named(c) == descriptor # None /\ (local[c].method = "force" \/ Matches(descriptor))

Reload(c) ==
    /\ at[c] = "reload"
    /\ IF Named(c)
       THEN /\ Go(c, IF local[c].method = "stop" THEN "readToken" ELSE "terminate")
            /\ local' = [local EXCEPT ![c].seen = descriptor]
       ELSE /\ Go(c, "load")
            /\ local' = [local EXCEPT ![c].back = "done"]
    /\ Private

ReadToken(c) ==
    /\ at[c] = "readToken"
    /\ local' = [local EXCEPT ![c].proof = token]
    /\ Go(c, "await")
    /\ Private

RemoveStopped_OnAccept(c) ==
    /\ at[c] = "await"
    /\ Waits(c)
    /\ local[c].accepted \/ ~Matches(local[c].seen)
    /\ Remove(c, "cleanToken")
RemoveStopped(c) ==
    /\ at[c] = "await"
    /\ Waits(c)
    /\ ~Matches(local[c].seen)
    /\ Remove(c, "cleanToken")

AwaitPoll(c) ==
    /\ at[c] = "await"
    /\ Waits(c)
    /\ Matches(local[c].seen)
    /\ local' = [local EXCEPT ![c].polls = @ + 1]
    /\ UNCHANGED at
    /\ Private

\* _control_post: an answer that comes too late counts as a refusal.
PostReturns(c, inTime) == local' = [local EXCEPT ![c].accepted = inTime]

\* POST /api/runtime/shutdown to whoever serves the port.  It compares the token
\* with the file.
Request(c, p, answered) ==
    /\ at[c] = "await"
    /\ Waits(c)
    /\ Matches(local[c].seen)
    /\ Serves(p)
    /\ local[c].proof # None
    /\ local[c].proof = token
    /\ ~local[c].accepted
    /\ leaving' = leaving \cup {p}
    /\ PostReturns(c, answered)
    /\ UNCHANGED <<stage, pid, serverLock, port, files, lifecycleLock, at, history>>

RemoveStoppedToken(c) == at[c] = "cleanToken" /\ RemoveToken(c, "done", "stopped")

\* force_stop() -----------------------------------------------------------

\* psutil.Process keeps the create_time: signals reach the process verified here.
Terminate(c, p) ==
    /\ at[c] = "terminate"
    /\ Matches(local[c].seen)
    /\ Alive(p)
    /\ pid[p] = local[c].seen.pid
    /\ Signal(p)
    /\ signalled' = signalled \cup {p}
    /\ local' = [local EXCEPT ![c].target = p]
    /\ Go(c, "kill")
    /\ UNCHANGED <<files, lifecycleLock, commands, faults>>

\* It ended within terminate_timeout, is killed after it, or withstands.
Kill(c) ==
    /\ at[c] = "kill"
    /\ \/ Alive(local[c].target) /\ Ends(local[c].target)
       \/ UNCHANGED processes
    /\ Go(c, "verify")
    /\ UNCHANGED <<files, lifecycleLock, local, history>>

StillThere(c) == at[c] = "verify" /\ Matches(local[c].seen) /\ Returns(c, "error")

RemoveForced(c) ==
    /\ at[c] \in {"terminate", "verify"}
    /\ ~Matches(local[c].seen)
    /\ Remove(c, "cleanToken")

\* The call returns ---------------------------------------------------------

\* The method that follows in cli.py and in restart(), if any.
NextMethod(command, method, status) ==
    CASE /\ command \in {"stop_force", "restart_force"}
         /\ method = "stop"
         /\ status = "unresponsive" -> "force"
      [] /\ command \in {"restart", "restart_force"}
         /\ method \in {"stop", "force"}
         /\ status = "stopped" -> "start"
      [] OTHER -> None

Unlock(c) == lifecycleLock' = IF lifecycleLock = c THEN None ELSE lifecycleLock

Return(c) ==
    /\ at[c] = "done"
    /\ Unlock(c)
    /\ LET next == NextMethod(local[c].command, local[c].method, local[c].result) IN
        IF next = None THEN Rest(c) ELSE Enter(c, local[c].command, next)
    /\ UNCHANGED <<processes, files, history>>

\* The launcher or the command ends; the server it launched is detached.
ControllerEnds(c) ==
    /\ at[c] # "idle"
    /\ Unlock(c)
    /\ Rest(c)
    /\ UNCHANGED <<processes, files>>

Method(c) ==
    \/ Load(c) \/ JudgeLive(c) \/ RemoveStale(c) \/ RemoveStaleToken(c) \/ LookAtPort(c)
    \/ WriteToken(c) \/ (\E p \in Processes, i \in Pids : Launch(c, p, i)) \/ StartFails(c)
    \/ SaveStarted(c) \/ WaitPoll(c) \/ RemoveChild(c) \/ RemoveChildToken(c) \/ Timeout(c)
    \/ Reload(c) \/ ReadToken(c) \/ RemoveStopped(c) \/ AwaitPoll(c)
    \/ (\E p \in Processes, answered \in BOOLEAN : Request(c, p, answered))
    \/ RemoveStoppedToken(c)
    \/ (\E p \in Processes : Terminate(c, p)) \/ Kill(c) \/ StillThere(c) \/ RemoveForced(c)
    \/ Return(c)

(***************************************************************************)
(* The specification                                                       *)
(***************************************************************************)

Init ==
    /\ stage = [p \in Processes |-> "unborn"]
    /\ pid = [p \in Processes |-> None]
    /\ leaving = {}
    /\ serverLock = None
    /\ port = None
    /\ descriptor = None
    /\ token = None
    /\ lifecycleLock = None
    /\ at = [c \in Controllers |-> "idle"]
    /\ local = [c \in Controllers |-> Fresh("status", "status")]
    /\ commands = 0
    /\ faults = 0
    /\ signalled = {}

ProcessStep(p) ==
    /\ \/ Server(p) /\ UNCHANGED history
       \/ StrangerBinds(p) /\ UNCHANGED history
       \/ (\E i \in Pids : RunForeground(p, i) \/ Stranger(p, i)) /\ UNCHANGED history
       \/ (Interrupt(p) \/ Crash(p)) /\ Fails
    /\ UNCHANGED controllers

ControllerStep(c) ==
    \/ \E m \in Commands : Command(c, m)
    \/ Acquire(c)
    \/ Method(c)
    \/ ControllerEnds(c) /\ Fails

Next ==
    \/ \E p \in Processes : ProcessStep(p)
    \/ \E c \in Controllers : ControllerStep(c)

Spec == Init /\ [][Next]_vars

(***************************************************************************)
(* Properties                                                              *)
(***************************************************************************)

\* The variables have their types.
TypeOK ==
    /\ stage \in [Processes -> Stages]
    /\ pid \in [Processes -> Pids \cup {None}]
    /\ leaving \subseteq Processes
    /\ serverLock \in Processes \cup {None}
    /\ port \in Processes \cup {None}
    /\ descriptor \in Descriptors \cup {None}
    /\ token \in Tokens \cup {None}
    /\ lifecycleLock \in Controllers \cup {None}
    /\ at \in [Controllers -> Places]
    /\ local \in [Controllers -> Locals]
    /\ commands \in 0..MaxCommands
    /\ faults \in 0..MaxFaults
    /\ signalled \subseteq Processes

\* A controller is in start, stop or force_stop.
Inside(c) == at[c] \notin {"idle", "acquire"} /\ local[c].method # "status"

\* Whatever several launchers and terminals do at once, one server at most is past
\* server.lock, and it listens from bind to exit request; one controller at most
\* is in start, stop or force_stop, and none that has left them keeps the lock
\* (runtime/locking.py, server_runner.py).
OneServer ==
    /\ \A p, q \in Processes : stage[p] \in Owning /\ stage[q] \in Owning => p = q
    /\ \A p \in Processes :
        stage[p] \in {"serving", "ready"} /\ p \notin leaving => port = p
    /\ \A c \in Controllers : Inside(c) <=> lifecycleLock = c

\* force_stop signals server processes only, though the system may have given the
\* pid of the descriptor to another program since (runtime/process.py).
StrangersSpared == \A p \in signalled : stage[p] \notin {"stranger", "gone"}

\* A stop or force_stop that answers "stopped" after it dealt with a process has
\* seen that process end, not merely agree to: a restart relies on it, since the
\* old server holds server.lock until then (controller.py stop, force_stop).
StoppedIsDead ==
    \A c \in Controllers :
        /\ local[c].method \in {"stop", "force"}
        /\ at[c] = "done"
        /\ local[c].result = "stopped"
        /\ local[c].seen # None
        => ~Alive(local[c].seen.created)

(***************************************************************************)
(* What the documents say and the code does not keep: see the README       *)
(***************************************************************************)

\* "Reopening the launcher finds and manages the existing server": when no call is
\* under way, a server that runs is described, and there is a token to stop it with.  Not
\* so after a start that met a server which did not answer.
ServerManaged ==
    \A p \in Processes :
        /\ stage[p] = "ready"
        /\ p \notin leaving
        /\ \A c \in Controllers : at[c] = "idle"
        => /\ descriptor # None
           /\ descriptor.created = p
           /\ token # None

=============================================================================
