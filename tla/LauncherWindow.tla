---------------------------- MODULE LauncherWindow ----------------------------
(***************************************************************************)
(* The desktop launcher: its window, run by the Tk thread, the one thread  *)
(* LifecycleActionRunner starts for an action on the server, and the       *)
(* monitor thread.  The threads talk to the window through event_queue     *)
(* only; a result is queued after the runner is free again, so the user    *)
(* may have started the next action when it is handled.                    *)
(*                                                                         *)
(* The server is seen through the outcomes of DaemonController's methods   *)
(* (ServerLifecycle is their detail): up, down, or alive without an answer.*)
(* A definition named X_Y is the mutant Y of X.                            *)
(***************************************************************************)
EXTENDS Naturals, Sequences

CONSTANTS
    NoThread,    \* no thread, nothing read
    MaxClicks,   \* bound on the clicks of the user, answers to a dialog not counted
    MaxUpsets,   \* bound on crashes and hangs of the server, and on restyled windows
    MaxEvents,   \* bound on the events in the queue
    StopOnExit   \* the setting stop_server_on_exit

Servers == {"up", "hung", "down"}
Statuses == {"running", "unresponsive", "stopped", "error"}
Actions == {"start", "stop", "restart", "wait_restart", "stop_close", "force_stop", "force_close"}
Buttons == {"start", "stop", "restart"}
Dialogs == {"restart_recording", "restart_work", "force_stop", "force_close", "close_recording"}
Steps == {"start", "stop", "force", "drain", "poll", "undrain", "done"}
Threads == [action : Actions, step : Steps, result : Statuses]

ASSUME LauncherAssumption ==
    /\ {MaxClicks, MaxUpsets, MaxEvents} \subseteq Nat /\ StopOnExit \in BOOLEAN
    /\ NoThread \notin Threads \cup Statuses

VARIABLES
    server,      \* the server process
    draining,    \* does its agent queue turn work away?
    work,        \* its agent runs, queued or running
    thread,      \* the action under way: its name, next step and result
    late,        \* results of threads that have left the runner and not yet queued them
    monitor,     \* the status the monitor has read and not yet queued
    events,      \* event_queue
    status,      \* current_status
    pending,     \* pending_action
    waiting,     \* restart_waiting
    cancel,      \* restart_cancel
    enabled,     \* the buttons that can be clicked
    dialogs,     \* the questions on the screen
    closing, closed,
    clicks, upsets

daemon == <<server, draining, work>>
threads == <<thread, late, monitor>>
view == <<status, pending, waiting, cancel, enabled, dialogs, closing, closed>>
bounds == <<clicks, upsets>>
windowVars == <<daemon, threads, events, view, bounds>>

Reads(s) == CASE s = "up" -> "running" [] s = "hung" -> "unresponsive" [] s = "down" -> "stopped"

(***************************************************************************)
(* The server                                                              *)
(***************************************************************************)

Fault == upsets < MaxUpsets /\ upsets' = upsets + 1 /\ UNCHANGED clicks

ServerFails ==
    /\ server # "down"
    /\ \E s \in {"hung", "down"} \ {server} :
        /\ server' = s
        /\ work' = IF s = "down" THEN 0 ELSE work
        /\ draining' = (s # "down" /\ draining)
    /\ Fault
    /\ UNCHANGED <<threads, events, view>>

ServerRecovers ==
    /\ server = "hung"
    /\ server' = "up"
    /\ UNCHANGED <<draining, work, threads, events, view, bounds>>

StartWork ==
    /\ server = "up" /\ ~draining /\ work = 0
    /\ work' = 1
    /\ UNCHANGED <<server, draining, threads, events, view, bounds>>

EndWork ==
    /\ server = "up" /\ work = 1
    /\ work' = 0
    /\ UNCHANGED <<server, draining, threads, events, view, bounds>>

(***************************************************************************)
(* The action thread                                                       *)
(***************************************************************************)

FirstStep(action) ==
    CASE action = "start" -> "start"
      [] action = "wait_restart" -> "drain"
      [] action \in {"force_stop", "force_close"} -> "force"
      [] OTHER -> "stop"

Begun(action) == [action |-> action, step |-> FirstStep(action), result |-> "stopped"]

At(step) == thread # NoThread /\ thread.step = step
GoesTo(step) == thread' = [thread EXCEPT !.step = step]
Finishes(result) == thread' = [thread EXCEPT !.step = "done", !.result = result]

Threaded == UNCHANGED <<late, monitor, events, view, bounds>>
DaemonIs(s) ==
    /\ server' = s
    /\ work' = IF s = "down" THEN 0 ELSE work
    /\ draining' = (s # "down" /\ draining)

\* A server that does not answer is not taken over: start launches one that exits.
Start ==
    /\ At("start")
    /\ CASE server = "up" -> Finishes("running") /\ UNCHANGED daemon
         [] server = "hung" ->
              (\E r \in {"error", "unresponsive"} : Finishes(r)) /\ UNCHANGED daemon
         [] server = "down" ->
              \/ DaemonIs("up") /\ Finishes("running")
              \/ DaemonIs("hung") /\ Finishes("unresponsive")
              \/ UNCHANGED daemon /\ Finishes("error")
    /\ Threaded

Stop ==
    /\ At("stop")
    /\ \/ /\ DaemonIs("down")
          /\ IF thread.action \in {"restart", "wait_restart"}
             THEN GoesTo("start") ELSE Finishes("stopped")
       \/ server # "down" /\ UNCHANGED daemon /\ Finishes("unresponsive")
    /\ Threaded

ForceStop ==
    /\ At("force")
    /\ \/ DaemonIs("down") /\ Finishes("stopped")
       \/ server # "down" /\ UNCHANGED daemon /\ Finishes("error")
    /\ Threaded

\* POST /api/runtime/agent-drain, at the server.
Draining(on) == draining' = on

\* set_agent_drain(True); its answer may come too late.
Drain_NotSent ==
    /\ At("drain")
    /\ IF server = "up" THEN GoesTo("poll") ELSE Finishes("error")
    /\ UNCHANGED daemon
    /\ Threaded
Drain ==
    /\ At("drain")
    /\ IF server = "up"
       THEN Draining(TRUE) /\ (GoesTo("poll") \/ Finishes("error"))
       ELSE UNCHANGED draining /\ Finishes("error")
    /\ UNCHANGED <<server, work>>
    /\ Threaded

\* runtime_status_payload: no payload counts as no work.
NoWork == server # "up" \/ work = 0
Poll ==
    /\ At("poll")
    /\ IF cancel THEN GoesTo("undrain")
       ELSE NoWork /\ GoesTo("stop")
    /\ UNCHANGED daemon
    /\ Threaded

Undrain ==
    /\ At("undrain")
    /\ IF server = "up" THEN Draining(FALSE) ELSE UNCHANGED draining
    /\ Finishes(Reads(server))
    /\ UNCHANGED <<server, work>>
    /\ Threaded

\* The runner is released first, the result queued after that.
Release ==
    /\ At("done")
    /\ thread.result \notin late
    /\ late' = late \cup {thread.result}
    /\ thread' = NoThread
    /\ UNCHANGED <<daemon, monitor, events, view, bounds>>

Event(kind, s) == [kind |-> kind, status |-> s]

QueueResult(s) ==
    /\ s \in late
    /\ Len(events) < MaxEvents
    /\ late' = late \ {s}
    /\ events' = Append(events, Event("action", s))
    /\ UNCHANGED <<daemon, thread, monitor, view, bounds>>

Thread ==
    \/ Start \/ Stop \/ ForceStop \/ Drain \/ Poll \/ Undrain \/ Release
    \/ \E s \in Statuses : QueueResult(s)

(***************************************************************************)
(* RuntimeMonitor                                                          *)
(***************************************************************************)

Queued(kind) == \E i \in DOMAIN events : events[i].kind = kind

ReadStatus_WhileRunning ==
    /\ monitor = NoThread /\ ~closed /\ status = "running"
    /\ monitor' = Reads(server)
    /\ UNCHANGED <<daemon, thread, late, events, view, bounds>>
ReadStatus ==
    /\ monitor = NoThread /\ ~closed
    /\ monitor' = Reads(server)
    /\ UNCHANGED <<daemon, thread, late, events, view, bounds>>

\* One event of the monitor in the queue at a time is a bound: it leaves room for results.
QueueStatus ==
    /\ monitor # NoThread
    /\ Len(events) < MaxEvents /\ ~Queued("lifecycle")
    /\ events' = Append(events, Event("lifecycle", monitor))
    /\ monitor' = NoThread
    /\ UNCHANGED <<daemon, thread, late, view, bounds>>

(***************************************************************************)
(* The window                                                              *)
(***************************************************************************)

\* OverviewFrame.set_lifecycle
Offered(s, busy) ==
    IF busy THEN {}
    ELSE CASE s = "stopped" -> {"start"}
           [] s = "running" -> {"stop", "restart"}
           [] s = "unresponsive" -> {"stop"}
           [] s = "error" -> {}

RunAction_Regardless(action, more) ==
    /\ thread' = IF thread = NoThread THEN Begun(action) ELSE thread
    /\ pending' = action
    /\ enabled' = Offered(status, TRUE) \cup more
\* _run_action, when `more` buttons are enabled after it.
RunAction(action, more) ==
    IF thread = NoThread
    THEN /\ thread' = Begun(action)
         /\ pending' = action
         /\ enabled' = Offered(status, TRUE) \cup more
    ELSE /\ enabled' = enabled \cup more
         /\ UNCHANGED <<thread, pending>>

FinalClose ==
    /\ closed' = TRUE
    /\ closing' = TRUE
    /\ cancel' = TRUE
    /\ dialogs' = {}
    /\ IF waiting /\ server = "up" THEN Draining(FALSE) ELSE UNCHANGED draining

\* _finish_action names the action by pending_action.
FinishAction(s) ==
    /\ pending' = ""
    /\ waiting' = FALSE
    /\ enabled' = Offered(s, FALSE) \cup (IF waiting THEN {"restart"} ELSE {})
    /\ IF pending \in {"stop_close", "force_close"} /\ s = "stopped"
       THEN FinalClose
       ELSE /\ dialogs' = dialogs \cup
                 (CASE s # "unresponsive" -> {}
                    [] pending \in {"stop_close", "force_close"} -> {"force_close"}
                    [] pending = "stop" -> {"force_stop"}
                    [] OTHER -> {})
            /\ UNCHANGED <<closing, closed, cancel, draining>>

\* _drain_event_queue, one event.
HandleAction ==
    /\ ~closed /\ events # <<>> /\ Head(events).kind = "action"
    /\ events' = Tail(events)
    /\ status' = Head(events).status
    /\ FinishAction(Head(events).status)
    /\ UNCHANGED <<server, work, threads, bounds>>

HandleStatus ==
    /\ ~closed /\ events # <<>> /\ Head(events).kind = "lifecycle"
    /\ events' = Tail(events)
    /\ status' = Head(events).status
    /\ enabled' = Offered(Head(events).status, FALSE)
    /\ UNCHANGED <<daemon, threads, pending, waiting, cancel, dialogs, closing, closed, bounds>>

\* A runtime payload with new interface settings rebuilds the window, and destroys the
\* dialogs on it.  What else a payload tells is read by the user's actions: it is as old
\* as the queue makes it, and the model lets it say anything.
Restyle ==
    /\ ~closed
    /\ Fault
    /\ dialogs' = {}
    /\ enabled' = Offered(status, FALSE)
    /\ UNCHANGED <<daemon, threads, events, status, pending, waiting, cancel, closing, closed>>

Handle == HandleAction \/ HandleStatus

(***************************************************************************)
(* The user                                                                *)
(***************************************************************************)

Click == ~closed /\ clicks < MaxClicks /\ clicks' = clicks + 1 /\ UNCHANGED upsets
Choose(d) == ~closed /\ d \in dialogs /\ UNCHANGED bounds
Unread == UNCHANGED <<late, monitor, events, status>>

\* A dialog grabs the input of the window; its close button does not go there.
ClickButton(b) ==
    /\ Click
    /\ dialogs = {} /\ b \in enabled
    /\ b = "restart" => ~waiting
    /\ RunAction(b, {})
    /\ UNCHANGED <<daemon, waiting, cancel, dialogs, closing, closed>>
    /\ Unread

\* _request_restart asks first, or is the Cancel of a waiting restart.
ClickRestart ==
    /\ Click
    /\ dialogs = {} /\ "restart" \in enabled
    /\ \/ waiting /\ cancel' = TRUE /\ UNCHANGED dialogs
       \/ /\ ~waiting /\ UNCHANGED cancel
          /\ \E d \in {"restart_recording", "restart_work"} : dialogs' = {d}
    /\ UNCHANGED <<daemon, thread, pending, waiting, enabled, closing, closed>>
    /\ Unread

\* Cancel, or the close button of the dialog, which calls nothing back.
Dismiss(d) ==
    /\ Choose(d)
    /\ dialogs' = dialogs \ {d}
    /\ closing' \in {closing} \cup (IF d = "force_close" THEN {FALSE} ELSE {})
    /\ UNCHANGED <<daemon, thread, pending, waiting, cancel, enabled, closed>>
    /\ Unread

\* restart_now and force_stop.
Confirm(d) ==
    /\ d # "close_recording" /\ Choose(d)
    /\ dialogs' = dialogs \ {d}
    /\ RunAction(IF d \in {"restart_recording", "restart_work"} THEN "restart" ELSE d, {})
    /\ UNCHANGED <<daemon, waiting, cancel, closing, closed>>
    /\ Unread

\* _wait_and_restart
WaitAndRestart ==
    /\ Choose("restart_work")
    /\ dialogs' = dialogs \ {"restart_work"}
    /\ cancel' = FALSE
    /\ waiting' = TRUE
    /\ RunAction("wait_restart", {"restart"})
    /\ UNCHANGED <<daemon, closing, closed>>
    /\ Unread

\* _stop_and_close
StopAndClose(remaining) ==
    /\ closing' = TRUE
    /\ dialogs' = remaining
    /\ RunAction("stop_close", {})
    /\ UNCHANGED <<daemon, waiting, cancel, closed>>

CloseNow ==
    /\ FinalClose
    /\ UNCHANGED <<server, work, thread, pending, waiting, enabled>>

\* close_launcher, by the window's close button or by Ctrl+C.
CloseLauncher ==
    /\ Click
    /\ ~closing
    /\ IF ~StopOnExit \/ status # "running" THEN CloseNow
       ELSE \/ /\ dialogs' = dialogs \cup {"close_recording"}
               /\ UNCHANGED <<daemon, thread, pending, waiting, cancel, enabled, closing, closed>>
            \/ StopAndClose(dialogs)
    /\ Unread

ConfirmClose ==
    /\ Choose("close_recording")
    /\ CloseNow \/ StopAndClose(dialogs \ {"close_recording"})
    /\ Unread

User ==
    \/ \E b \in Buttons : ClickButton(b)
    \/ ClickRestart \/ WaitAndRestart \/ CloseLauncher \/ ConfirmClose
    \/ \E d \in Dialogs : Dismiss(d) \/ Confirm(d)

(***************************************************************************)
(* The specification                                                       *)
(***************************************************************************)

WindowInit ==
    /\ server \in {"up", "down"}
    /\ draining = FALSE
    /\ work = 0
    /\ thread = NoThread
    /\ late = {}
    /\ monitor = NoThread
    /\ events = <<>>
    /\ status = "stopped"
    /\ pending = ""
    /\ waiting = FALSE
    /\ cancel = FALSE
    /\ enabled = {"start"}
    /\ dialogs = {}
    /\ closing = FALSE
    /\ closed = FALSE
    /\ clicks = 0
    /\ upsets = 0

WindowNext ==
    \/ ServerFails \/ ServerRecovers \/ StartWork \/ EndWork
    \/ Thread
    \/ ReadStatus \/ QueueStatus
    \/ Handle \/ Restyle
    \/ User

WindowSpec == WindowInit /\ [][WindowNext]_windowVars

\* Threads and the Tk loop go on by themselves, agent runs end by their timeouts.
\* Nothing is assumed of the user, nor of a server that hangs.
FairSpec ==
    /\ WindowSpec
    /\ WF_windowVars(Thread) /\ WF_windowVars(ReadStatus) /\ WF_windowVars(QueueStatus)
    /\ WF_windowVars(Handle) /\ WF_windowVars(EndWork)

(***************************************************************************)
(* Properties                                                              *)
(***************************************************************************)

\* A result of an action thread that the window has still to handle.
Outstanding == late # {} \/ Queued("action")

\* What the window shows as under way is: a pending action is the one that runs, or a
\* result is still to come that ends it; the same for a restart that waits for agent
\* work, also when its thread could not start (app.py _run_action, _finish_action).
WindowBacked ==
    ~closed =>
        /\ pending # "" => Outstanding \/ (thread # NoThread /\ thread.action = pending)
        /\ waiting => Outstanding \/ thread # NoThread

\* A restart that waits for agent work gets its turn or is given up: with the queue
\* draining, work that ends is not followed by more (app.py _wait_and_restart).
WaitingEnds == waiting ~> (~waiting \/ closed)

\* Whatever stale results and readings come out of order, once the server stays as it
\* is the window comes to show that, and nothing else (launcher/monitor.py).
StatusSettles ==
    \A s \in Servers : <>[](server = s) => <>[](closed \/ status = Reads(s))

(***************************************************************************)
(* What the documents say and the code does not keep: see the README       *)
(***************************************************************************)

\* "stop-server performs bounded graceful shutdown before closing and exposes the
\* confirmed force-stop path only after timeout": a launcher that is closing is
\* stopping the server, asks, or closes; it never just stays.  It does when another action
\* was under way.
CloseCompletes ==
    closing /\ ~closed =>
        \/ thread # NoThread /\ thread.action \in {"stop_close", "force_close"}
        \/ pending \in {"stop_close", "force_close"} /\ Outstanding
        \/ "force_close" \in dialogs

=============================================================================
