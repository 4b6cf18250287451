------------------------ MODULE ServerLifecycleProofs ------------------------
(***************************************************************************)
(* Proofs about the server process and its controllers, and about the      *)
(* window of the launcher, whose action thread runs the methods of such a  *)
(* controller: for all values of the constants, any number of processes,   *)
(* controllers, commands, clicks and faults.                               *)
(***************************************************************************)
EXTENDS ServerLifecycle, LauncherWindow, TLAPS

-----------------------------------------------------------------------------
(* The inductive invariant.                                                *)

\* Processes that are or were servers: of this program, not strangers.
Ours == {"boot", "exiting", "dead"} \cup Owning

\* A descriptor tells the truth about a server process, alive or not.
Truthful(d) == stage[d.created] \in Ours /\ pid[d.created] = d.pid

\* The pids of live processes differ.
PidsDiffer ==
    /\ \A p \in Processes : stage[p] # "unborn" => pid[p] \in Pids
    /\ \A p, q \in Processes : Alive(p) /\ Alive(q) /\ pid[p] = pid[q] => p = q

\* Who serves owns server.lock, and listens until asked to exit.
ServersOwn ==
    /\ \A p \in Processes : stage[p] \in Owning => serverLock = p
    /\ \A p \in Processes : stage[p] \in {"serving", "ready"} /\ p \notin leaving => port = p

\* What a controller remembers of processes.
Remembers(c) ==
    /\ at[c] \in {"describe", "kill"} => local[c].target # None
    /\ at[c] = "terminate" => local[c].seen # None
    /\ local[c].target # None => stage[local[c].target] \in Ours
    /\ local[c].seen # None => Truthful(local[c].seen)
    /\ \/ at[c] = "cleanToken"
       \/ at[c] = "done" /\ local[c].result = "stopped"
       => local[c].seen = None \/ ~Alive(local[c].seen.created)

\* A controller and lifecycle.lock.
Locks(c) ==
    /\ at[c] = "acquire" => local[c].method # "status"
    /\ Inside(c) <=> lifecycleLock = c

IInv ==
    /\ TypeOK
    /\ PidsDiffer
    /\ ServersOwn
    /\ descriptor # None => Truthful(descriptor)
    /\ \A p \in signalled : stage[p] \in Ours
    /\ \A c \in Controllers : Remembers(c) /\ Locks(c)

LEMMA InitInv == Init => IInv
<1> SUFFICES ASSUME Init PROVE IInv
  OBVIOUS
<1>1. TypeOK
  BY LifecycleAssumption
  DEF Init, TypeOK, Stages, Fresh, Locals, AllCommands, Methods, Results, Places,
      LifecycleAssumption
<1>2. PidsDiffer /\ ServersOwn
  BY DEF Init, PidsDiffer, ServersOwn, Alive, Owning
<1>3. \A c \in Controllers : Remembers(c) /\ Locks(c)
  BY LifecycleAssumption
  DEF Init, Remembers, Locks, Inside, Fresh, LifecycleAssumption
<1> QED
  BY <1>1, <1>2, <1>3 DEF Init, IInv

-----------------------------------------------------------------------------
(* Processes.                                                              *)

\* A step of the process p, or a signal or a request that reaches it.
Lives(p) ==
    \/ Server(p)
    \/ StrangerBinds(p)
    \/ \E i \in Pids, s \in {"boot", "stranger"} : Born(p, i, s)
    \/ Alive(p) /\ (Signal(p) \/ Ends(p))
    \/ leaving' = leaving \cup {p} /\ UNCHANGED <<stage, pid, serverLock, port>>

\* Every step leaves the processes alone or is one of those.
LEMMA ProcessStepOrNone ==
    ASSUME IInv, [Next]_vars
    PROVE  UNCHANGED processes \/ \E p \in Processes : Lives(p)
<1> DEFINE Goal == UNCHANGED processes \/ \E p \in Processes : Lives(p)
<1>1. ASSUME NEW p \in Processes, ProcessStep(p) PROVE Goal
  <2>1. CASE Interrupt(p)
    BY <2>1 DEF Interrupt, Lives, Alive, Owning
  <2>2. CASE Crash(p)
    BY <2>2 DEF Crash, Lives
  <2>3. ASSUME NEW i \in Pids, RunForeground(p, i) \/ Stranger(p, i) PROVE Goal
    BY <2>3 DEF RunForeground, Stranger, Lives
  <2> QED BY <1>1, <2>1, <2>2, <2>3 DEF ProcessStep, Lives
<1>2. ASSUME NEW c \in Controllers, NEW p \in Processes, NEW i \in Pids, Launch(c, p, i)
      PROVE  Goal
  BY <1>2 DEF Launch, Lives
<1>3. ASSUME NEW c \in Controllers, NEW p \in Processes, NEW answered \in BOOLEAN,
             Request(c, p, answered)
      PROVE  Goal
  BY <1>3 DEF Request, Lives
<1>4. ASSUME NEW c \in Controllers, NEW p \in Processes, Terminate(c, p) PROVE Goal
  BY <1>4 DEF Terminate, Lives
<1>5. ASSUME NEW c \in Controllers, Kill(c) PROVE Goal
  <2>1. local[c].target \in Processes
    BY <1>5 DEF Kill, IInv, Remembers, TypeOK, Locals
  <2> QED BY <1>5, <2>1 DEF Kill, Lives
<1>6. ASSUME NEW c \in Controllers, ControllerStep(c) PROVE Goal
  <2> SUFFICES ASSUME ~(\E p \in Processes, i \in Pids : Launch(c, p, i)),
                      ~(\E p \in Processes, answered \in BOOLEAN : Request(c, p, answered)),
                      ~(\E p \in Processes : Terminate(c, p)), ~Kill(c)
               PROVE  UNCHANGED processes
    BY <1>2, <1>3, <1>4, <1>5
  <2> QED
    BY <1>6
    DEF ControllerStep, Command, Acquire, ControllerEnds, Method, Private,
        Load, JudgeLive, StatusReturns, RemoveStale, Remove, RemoveStaleToken, RemoveToken,
        LookAtPort, WriteToken, StartFails, Returns, SaveStarted, WaitPoll, RemoveChild,
        RemoveChildToken, Timeout, Reload, ReadToken, RemoveStopped, AwaitPoll,
        RemoveStoppedToken, StillThere, RemoveForced, Return
<1>7. CASE UNCHANGED vars
  BY <1>7 DEF vars
<1> HIDE DEF Goal
<1> QED
  BY <1>1, <1>6, <1>7 DEF Next, Goal

ProcessTypes ==
    /\ stage \in [Processes -> Stages]
    /\ pid \in [Processes -> Pids \cup {None}]
    /\ leaving \subseteq Processes
    /\ serverLock \in Processes \cup {None}
    /\ port \in Processes \cup {None}

\* What happens to the stage and the pid of one process q when p makes a step.
LEMMA LifeStep ==
    ASSUME ProcessTypes, NEW p \in Processes, Lives(p)
    PROVE  /\ ProcessTypes'
           /\ \A q \in Processes \ {p} : stage'[q] = stage[q] /\ pid'[q] = pid[q]
           /\ stage[p] # "unborn" => pid'[p] = pid[p] /\ stage'[p] # "unborn"
           /\ stage[p] \in Ours => stage'[p] \in Ours
           /\ Alive(p)' => Alive(p) \/ stage[p] = "unborn"
           /\ stage[p] = "unborn" => \/ stage'[p] = "unborn" /\ pid'[p] = pid[p]
                                     \/ \E i \in Pids, s \in {"boot", "stranger"} : Born(p, i, s)
<1> DEFINE Goal ==
           /\ ProcessTypes'
           /\ \A q \in Processes \ {p} : stage'[q] = stage[q] /\ pid'[q] = pid[q]
           /\ stage[p] # "unborn" => pid'[p] = pid[p] /\ stage'[p] # "unborn"
           /\ stage[p] \in Ours => stage'[p] \in Ours
           /\ Alive(p)' => Alive(p) \/ stage[p] = "unborn"
           /\ stage[p] = "unborn" => \/ stage'[p] = "unborn" /\ pid'[p] = pid[p]
                                     \/ \E i \in Pids, s \in {"boot", "stranger"} : Born(p, i, s)
<1> USE DEF ProcessTypes, Stages, Owning, Ours, Alive
<1>1. ASSUME Alive(p), Ends(p) PROVE Goal
  BY <1>1 DEF Ends
<1>2. ASSUME Alive(p), Signal(p) PROVE Goal
  BY <1>1, <1>2 DEF Signal
<1>3. ASSUME NEW i \in Pids, NEW s \in {"boot", "stranger"}, Born(p, i, s) PROVE Goal
  BY <1>3 DEF Born, Newborn
<1>4. CASE TakeServerLock(p) \/ ServerLockTaken(p)
  BY <1>4 DEF TakeServerLock, ServerLockTaken, Goes
<1>5. CASE Bind(p) \/ Describe(p)
  BY <1>5 DEF Bind, Describe, Goes
<1>6. CASE ClosePort(p) \/ StrangerBinds(p)
  BY <1>6 DEF ClosePort, StrangerBinds
<1>7. CASE BindFails(p) \/ ServeReturns(p)
  BY <1>7 DEF BindFails, ServeReturns, Finally, Goes
<1>8. CASE DropDescriptor(p) \/ DropToken(p)
  BY <1>8 DEF DropDescriptor, DropToken, Goes
<1>9. CASE Exit(p)
  BY <1>1, <1>9 DEF Exit
<1>10. CASE leaving' = leaving \cup {p} /\ UNCHANGED <<stage, pid, serverLock, port>>
  BY <1>10
<1> QED
  BY <1>1, <1>2, <1>3, <1>4, <1>5, <1>6, <1>7, <1>8, <1>9, <1>10 DEF Lives, Server

\* So a process that was born keeps its pid and stays of this program, and a dead one
\* stays dead.
LEMMA ProcessKept ==
    ASSUME IInv, [Next]_vars, NEW q \in Processes
    PROVE  /\ stage[q] # "unborn" => pid'[q] = pid[q] /\ stage'[q] # "unborn"
           /\ stage[q] \in Ours => stage'[q] \in Ours
           /\ stage[q] \in Ours /\ ~Alive(q) => ~Alive(q)'
<1>1. CASE UNCHANGED processes
  BY <1>1 DEF processes, Alive
<1>2. ASSUME NEW p \in Processes, Lives(p)
      PROVE  /\ stage[q] # "unborn" => pid'[q] = pid[q] /\ stage'[q] # "unborn"
             /\ stage[q] \in Ours => stage'[q] \in Ours
             /\ stage[q] \in Ours /\ ~Alive(q) => ~Alive(q)'
  <2>1. ProcessTypes
    BY DEF IInv, TypeOK, ProcessTypes
  <2>2. CASE q = p
    BY <1>2, <2>1, <2>2, LifeStep DEF Ours, Owning
  <2>3. CASE q # p
    BY <1>2, <2>1, <2>3, LifeStep DEF Alive
  <2> QED BY <2>2, <2>3
<1> QED
  BY <1>1, <1>2, ProcessStepOrNone

LEMMA PidsDifferStep ==
    ASSUME IInv, [Next]_vars
    PROVE  PidsDiffer'
<1>0. ProcessTypes
  BY DEF IInv, TypeOK, ProcessTypes
<1>1. CASE UNCHANGED processes
  BY <1>1 DEF processes, PidsDiffer, Alive, IInv
<1>2. ASSUME NEW p \in Processes, Lives(p) PROVE PidsDiffer'
  <2>1. CASE \E i \in Pids, s \in {"boot", "stranger"} : Born(p, i, s)
    <3>1. PICK i \in Pids, s \in {"boot", "stranger"} : Born(p, i, s)
      BY <2>1
    <3>2. /\ pid'[p] = i /\ stage'[p] # "unborn"
          /\ \A q \in Processes \ {p} : stage'[q] = stage[q] /\ pid'[q] = pid[q]
          /\ \A q \in Processes : Alive(q) => pid[q] # i
      BY <1>0, <3>1 DEF Born, ProcessTypes
    <3> QED BY <3>2 DEF PidsDiffer, Alive, IInv
  <2>2. CASE ~ \E i \in Pids, s \in {"boot", "stranger"} : Born(p, i, s)
    <3>1. /\ \A q \in Processes : pid'[q] = pid[q]
          /\ \A q \in Processes : stage'[q] # "unborn" => stage[q] # "unborn"
          /\ \A q \in Processes : Alive(q)' => Alive(q)
      BY <1>0, <1>2, <2>2, LifeStep DEF Alive
    <3> QED BY <3>1 DEF PidsDiffer, IInv
  <2> QED BY <2>1, <2>2
<1> QED
  BY <1>1, <1>2, ProcessStepOrNone

LEMMA ServersOwnStep ==
    ASSUME IInv, [Next]_vars
    PROVE  ServersOwn'
<1>0. ProcessTypes /\ ServersOwn /\ None \notin Processes
  BY LifecycleAssumption DEF IInv, TypeOK, ProcessTypes, LifecycleAssumption, Processes
<1>1. CASE UNCHANGED processes
  BY <1>1 DEF processes, ServersOwn, IInv
<1>2. ASSUME NEW p \in Processes, Lives(p) PROVE ServersOwn'
  <2> USE <1>0 DEF ProcessTypes, ServersOwn, Owning
  <2>1. ASSUME Ends(p) PROVE ServersOwn'
    BY <2>1 DEF Ends
  <2>2. CASE Signal(p)
    BY <2>1, <2>2 DEF Signal
  <2>3. ASSUME NEW i \in Pids, NEW s \in {"boot", "stranger"}, Born(p, i, s)
        PROVE  ServersOwn'
    BY <2>3 DEF Born
  <2>4. CASE TakeServerLock(p)
    BY <2>4 DEF TakeServerLock, Goes
  <2>5. CASE ServerLockTaken(p)
    BY <2>5 DEF ServerLockTaken, Goes
  <2>6. CASE Bind(p)
    BY <2>6 DEF Bind, Goes
  <2>7. CASE Describe(p)
    BY <2>7 DEF Describe, Goes
  <2>8. CASE ClosePort(p)
    BY <2>8 DEF ClosePort, Serves
  <2>9. CASE StrangerBinds(p)
    BY <2>9 DEF StrangerBinds
  <2>10. CASE BindFails(p)
    BY <2>10 DEF BindFails, Finally, Goes
  <2>11. CASE ServeReturns(p)
    BY <2>11 DEF ServeReturns, Finally, Goes
  <2>12. CASE DropDescriptor(p)
    BY <2>12 DEF DropDescriptor, Goes
  <2>13. CASE DropToken(p)
    BY <2>13 DEF DropToken, Goes
  <2>14. CASE Exit(p)
    BY <2>1, <2>14 DEF Exit
  <2>15. CASE leaving' = leaving \cup {p} /\ UNCHANGED <<stage, pid, serverLock, port>>
    BY <2>15
  <2> QED
    BY <1>2, <2>1, <2>2, <2>3, <2>4, <2>5, <2>6, <2>7, <2>8, <2>9, <2>10, <2>11, <2>12,
       <2>13, <2>14, <2>15 DEF Lives, Server
<1> QED
  BY <1>1, <1>2, ProcessStepOrNone

-----------------------------------------------------------------------------
(* The files and the signals.                                              *)

\* What a server or a controller may leave in server.json and in the token's file.
LEMMA FilesStep ==
    ASSUME IInv, [Next]_vars
    PROVE  /\ \/ descriptor' \in {descriptor, None}
              \/ \E p \in Processes, b \in BOOLEAN :
                    /\ stage[p] \in Ours
                    /\ descriptor' = [pid |-> pid[p], created |-> p, started |-> b]
           /\ token' \in Tokens \cup {None}
<1> DEFINE Kept == descriptor' \in {descriptor, None}
           Written == \E p \in Processes, b \in BOOLEAN :
                    /\ stage[p] \in Ours
                    /\ descriptor' = [pid |-> pid[p], created |-> p, started |-> b]
           Proof == token' \in Tokens \cup {None}
<1>0. token \in Tokens \cup {None}
  BY DEF IInv, TypeOK
<1>1. \A p \in Processes : p \in Tokens /\ MaxProcesses + p \in Tokens
  BY LifecycleAssumption DEF Processes, Tokens, LifecycleAssumption
<1>2. ASSUME UNCHANGED files PROVE Kept /\ Proof
  BY <1>0, <1>2 DEF files
<1>3. ASSUME NEW p \in Processes, Server(p) PROVE (Kept \/ Written) /\ Proof
  <2>1. CASE TakeServerLock(p)
    BY <1>0, <1>1, <2>1 DEF TakeServerLock
  <2>2. CASE Describe(p)
    BY <1>0, <2>2 DEF Describe, Goes, Ours, Owning
  <2>3. CASE DropDescriptor(p) \/ DropToken(p)
    BY <1>0, <2>3 DEF DropDescriptor, DropToken
  <2>4. CASE ServerLockTaken(p) \/ Bind(p) \/ BindFails(p) \/ ClosePort(p) \/ ServeReturns(p)
             \/ Exit(p)
    BY <1>2, <2>4 DEF ServerLockTaken, Bind, BindFails, ClosePort, ServeReturns, Finally, Exit
  <2> QED BY <1>3, <2>1, <2>2, <2>3, <2>4 DEF Server
<1>4. ASSUME NEW p \in Processes, ProcessStep(p) PROVE (Kept \/ Written) /\ Proof
  <2>1. CASE Server(p)
    BY <1>3, <2>1
  <2>2. CASE ~Server(p)
    BY <1>2, <1>4, <2>2
    DEF ProcessStep, StrangerBinds, RunForeground, Stranger, Interrupt, Crash
  <2> QED BY <2>1, <2>2
<1>5. ASSUME NEW c \in Controllers, SaveStarted(c) PROVE Written /\ Proof
  <2>1. local[c].target \in Processes /\ stage[local[c].target] \in Ours
    BY <1>5 DEF SaveStarted, IInv, Remembers, TypeOK, Locals
  <2> QED BY <1>0, <1>5, <2>1 DEF SaveStarted
<1>6. ASSUME NEW c \in Controllers, WriteToken(c) PROVE Kept /\ Proof
  BY <1>1, <1>6 DEF WriteToken
<1>7. ASSUME NEW c \in Controllers, NEW where \in Places,
             Remove(c, where) \/ \E r \in Results : RemoveToken(c, where, r)
      PROVE  Kept /\ Proof
  BY <1>0, <1>7 DEF Remove, RemoveToken
<1>8. ASSUME NEW c \in Controllers,
             \/ RemoveStale(c) \/ RemoveStaleToken(c) \/ RemoveChild(c) \/ RemoveChildToken(c)
             \/ RemoveStopped(c) \/ RemoveStoppedToken(c) \/ RemoveForced(c)
      PROVE  Kept /\ Proof
  BY <1>0, <1>8
  DEF RemoveStale, RemoveStaleToken, RemoveChild, RemoveChildToken, RemoveStopped,
      RemoveStoppedToken, RemoveForced, Remove, RemoveToken
<1>9. ASSUME NEW c \in Controllers, ControllerStep(c) PROVE (Kept \/ Written) /\ Proof
  <2> SUFFICES ASSUME ~SaveStarted(c), ~WriteToken(c),
                      ~(\/ RemoveStale(c) \/ RemoveStaleToken(c) \/ RemoveChild(c)
                        \/ RemoveChildToken(c) \/ RemoveStopped(c) \/ RemoveStoppedToken(c)
                        \/ RemoveForced(c))
               PROVE  UNCHANGED files
    BY <1>2, <1>5, <1>6, <1>8
  <2> QED
    BY <1>9
    DEF ControllerStep, Command, Acquire, ControllerEnds, Method, Private, Load, JudgeLive,
        StatusReturns, LookAtPort, Launch, StartFails, Returns, WaitPoll, Timeout, Reload,
        ReadToken, AwaitPoll, Request, Terminate, Kill, StillThere, Return
<1>10. ASSUME UNCHANGED vars PROVE Kept /\ Proof
  BY <1>2, <1>10 DEF vars
<1> HIDE DEF Kept, Written, Proof
<1>11. (Kept \/ Written) /\ Proof
  BY <1>4, <1>9, <1>10 DEF Next
<1> QED
  BY <1>11 DEF Kept, Written, Proof

\* The descriptor tells the truth, if there is one, after a step too; so does every
\* descriptor that told it before.
LEMMA TruthStep ==
    ASSUME IInv, [Next]_vars
    PROVE  /\ descriptor' # None => Truthful(descriptor)'
           /\ descriptor' \in Descriptors \cup {None}
           /\ \A d \in Descriptors : Truthful(d) => Truthful(d)'
<1>1. ASSUME NEW d \in Descriptors, Truthful(d) PROVE Truthful(d)'
  <2>1. d.created \in Processes /\ stage[d.created] # "unborn"
    BY <1>1 DEF Descriptors, Truthful, Ours, Owning
  <2> QED BY <1>1, <2>1, ProcessKept DEF Truthful
<1>2. descriptor \in Descriptors \cup {None} /\ (descriptor # None => Truthful(descriptor))
  BY DEF IInv, TypeOK
<1>3. CASE descriptor' \in {descriptor, None}
  BY <1>1, <1>2, <1>3 DEF Truthful
<1>4. ASSUME NEW p \in Processes, NEW b \in BOOLEAN, stage[p] \in Ours,
             descriptor' = [pid |-> pid[p], created |-> p, started |-> b]
      PROVE  Truthful(descriptor)' /\ descriptor' \in Descriptors
  <2>1. stage[p] # "unborn" /\ pid[p] \in Pids
    BY <1>4 DEF Ours, Owning, IInv, PidsDiffer
  <2>2. stage'[p] \in Ours /\ pid'[p] = pid[p]
    BY <1>4, <2>1, ProcessKept
  <2>3. descriptor' \in Descriptors
    BY <1>4, <2>1 DEF Descriptors
  <2>4. descriptor'.created = p /\ descriptor'.pid = pid[p]
    BY <1>4
  <2> QED BY <2>2, <2>3, <2>4 DEF Truthful
<1> QED
  BY <1>1, <1>3, <1>4, FilesStep, <1>2

\* A live process with the pid of a truthful descriptor that matches is the server
\* the descriptor was written for.
LEMMA MatchIsOurs ==
    ASSUME IInv, NEW d \in Descriptors, Truthful(d)
    PROVE  /\ Matches(d) <=> Alive(d.created)
           /\ \A p \in Processes : Matches(d) /\ Alive(p) /\ pid[p] = d.pid => p = d.created
BY DEF Descriptors, Truthful, Matches, IInv, PidsDiffer

LEMMA SignalledStep ==
    ASSUME IInv, [Next]_vars
    PROVE  signalled' \subseteq Processes /\ \A p \in signalled' : stage'[p] \in Ours
<1>0. signalled \subseteq Processes /\ \A p \in signalled : stage[p] \in Ours
  BY DEF IInv, TypeOK
<1>1. CASE UNCHANGED signalled
  BY <1>0, <1>1, ProcessKept
<1>2. ASSUME NEW c \in Controllers, NEW p \in Processes, Terminate(c, p)
      PROVE  signalled' \subseteq Processes /\ \A q \in signalled' : stage'[q] \in Ours
  <2>1. local[c].seen \in Descriptors /\ Truthful(local[c].seen)
    BY <1>2 DEF Terminate, IInv, TypeOK, Locals, Remembers
  <2>2. p = local[c].seen.created
    BY <1>2, <2>1, MatchIsOurs DEF Terminate
  <2>3. stage[p] \in Ours
    BY <2>1, <2>2 DEF Truthful
  <2> QED BY <1>0, <1>2, <2>3, ProcessKept DEF Terminate
<1>3. ASSUME NEW p \in Processes, ProcessStep(p) PROVE UNCHANGED signalled
  BY <1>3 DEF ProcessStep, history, Fails
<1>4. ASSUME NEW c \in Controllers, ControllerStep(c),
             ~ \E p \in Processes : Terminate(c, p)
      PROVE  UNCHANGED signalled
  BY <1>4
  DEF ControllerStep, Command, Acquire, ControllerEnds, Fails, Method, Private, Load,
      JudgeLive, StatusReturns, RemoveStale, Remove, RemoveStaleToken, RemoveToken,
      LookAtPort, WriteToken, Launch, StartFails, Returns, SaveStarted, WaitPoll,
      RemoveChild, RemoveChildToken, Timeout, Reload, ReadToken, RemoveStopped, AwaitPoll,
      Request, RemoveStoppedToken, Kill, StillThere, RemoveForced, Return, history
<1> QED
  BY <1>1, <1>2, <1>3, <1>4 DEF Next, vars, history

-----------------------------------------------------------------------------
(* Controllers.                                                            *)

ControllerTypes ==
    /\ lifecycleLock \in Controllers \cup {None}
    /\ at \in [Controllers -> Places]
    /\ local \in [Controllers -> Locals]

\* What a step of the controller c does to its variables and to no other's.
Moves(c) ==
    /\ ControllerTypes'
    /\ \A d \in Controllers \ {c} : at'[d] = at[d] /\ local'[d] = local[d]

\* What it remembers after it: the process it launched or is to kill, the descriptor,
\* and, once it has found a process dead, that the descriptor names that process.
Recalls(c) ==
    /\ at'[c] \in {"describe", "kill"} => local'[c].target # None
    /\ at'[c] = "terminate" => local'[c].seen # None
    /\ \/ local'[c].target \in {local[c].target, None}
       \/ stage'[local'[c].target] \in Ours
    /\ local'[c].seen \in {local[c].seen, descriptor, None}
    /\ \/ at'[c] = "cleanToken"
       \/ at'[c] = "done" /\ local'[c].result = "stopped"
       => \/ local'[c].seen = None
          \/ local'[c].seen = local[c].seen /\ ~Alive(local[c].seen.created)

\* A step within a method: the lock and the method stay.
Within(c) ==
    /\ at[c] \notin {"idle", "acquire"} /\ at'[c] \notin {"idle", "acquire"}
    /\ local'[c].method = local[c].method
    /\ UNCHANGED lifecycleLock

\* The methods, from one access to what is shared to the next.
LEMMA WithinMethod ==
    ASSUME IInv, NEW c \in Controllers, Method(c), ~Return(c)
    PROVE  Moves(c) /\ Recalls(c) /\ Within(c)
<1> DEFINE Goal == Moves(c) /\ Recalls(c) /\ Within(c)
<1>0. /\ ControllerTypes
      /\ local[c] \in Locals /\ at[c] \in Places
      /\ descriptor \in Descriptors \cup {None} /\ token \in Tokens \cup {None}
      /\ at[c] \in {"describe", "kill"} => local[c].target # None
      /\ at[c] = "terminate" => local[c].seen # None
      /\ \/ at[c] = "cleanToken"
         \/ at[c] = "done" /\ local[c].result = "stopped"
         => local[c].seen = None \/ ~Alive(local[c].seen.created)
  BY DEF IInv, TypeOK, ControllerTypes, Remembers
<1>a. local[c].seen # None => (Matches(local[c].seen) <=> Alive(local[c].seen.created))
  BY MatchIsOurs DEF IInv, TypeOK, Locals, Remembers
<1> USE <1>0 DEF ControllerTypes, Moves, Recalls, Within, Locals, Places, Methods, Results,
                 Private, Go
<1>1. CASE Load(c)
  BY <1>1 DEF Load
<1>2. ASSUME NEW st \in Results, StatusReturns(c, st), at[c] \in {"judge", "port"}
      PROVE  Goal
  <2>1. AfterStatus(c, st) \in {"done", "wait", "writeToken", "reload"}
    BY DEF AfterStatus
  <2>2. /\ at'[c] \in {"done", "wait", "writeToken", "reload"}
        /\ local'[c] = [local[c] EXCEPT !.result = st, !.back = "done", !.seen = None]
        /\ \A d \in Controllers \ {c} : at'[d] = at[d] /\ local'[d] = local[d]
    BY <1>2, <2>1 DEF StatusReturns
  <2>3. local'[c] \in Locals
    BY <2>2
  <2>4. ControllerTypes' /\ UNCHANGED lifecycleLock
    BY <1>2, <2>1, <2>3 DEF StatusReturns
  <2> QED BY <1>2, <2>2, <2>4
<1>3. CASE JudgeLive(c) \/ LookAtPort(c)
  BY <1>2, <1>3 DEF JudgeLive, LookAtPort
<1>4. CASE RemoveStale(c) \/ RemoveChild(c)
  BY <1>4 DEF RemoveStale, RemoveChild, Remove
<1>5. CASE RemoveStopped(c) \/ RemoveForced(c)
  BY <1>5, <1>a DEF RemoveStopped, RemoveForced, Remove
<1>6. CASE RemoveStaleToken(c)
  BY <1>6 DEF RemoveStaleToken, RemoveToken
<1>7. CASE RemoveChildToken(c) \/ RemoveStoppedToken(c)
  BY <1>7 DEF RemoveChildToken, RemoveStoppedToken, RemoveToken
<1>8. CASE WriteToken(c)
  BY <1>8 DEF WriteToken
<1>9. ASSUME NEW p \in Processes, NEW i \in Pids, Launch(c, p, i) PROVE Goal
  <2>1. stage'[p] = "boot" /\ p # None
    BY <1>9, LifecycleAssumption
    DEF Launch, Born, IInv, TypeOK, LifecycleAssumption, Processes
  <2> QED BY <1>9, <2>1 DEF Launch, Ours
<1>10. ASSUME NEW st \in Results \ {"stopped"}, Returns(c, st),
              at[c] \notin {"idle", "acquire"}
       PROVE  Goal
  BY <1>10 DEF Returns
<1>11. CASE StartFails(c) \/ Timeout(c) \/ StillThere(c)
  BY <1>10, <1>11 DEF StartFails, Timeout, StillThere
<1>12. CASE SaveStarted(c)
  BY <1>12 DEF SaveStarted
<1>13. CASE WaitPoll(c) \/ AwaitPoll(c)
  <2>1. Waits(c) => local[c].polls + 1 \in 0..MaxPolls
    BY LifecycleAssumption DEF Waits, LifecycleAssumption
  <2> QED BY <1>13, <2>1 DEF WaitPoll, AwaitPoll
<1>14. CASE Reload(c)
  BY <1>14 DEF Reload, Named
<1>15. CASE ReadToken(c)
  BY <1>15 DEF ReadToken
<1>16. ASSUME NEW p \in Processes, NEW answered \in BOOLEAN, Request(c, p, answered)
       PROVE  Goal
  BY <1>16 DEF Request, PostReturns
<1>17. ASSUME NEW p \in Processes, Terminate(c, p) PROVE Goal
  <2>1. local[c].seen \in Descriptors /\ Truthful(local[c].seen)
    BY <1>17 DEF Terminate, IInv, TypeOK, Locals, Remembers
  <2>2. stage[p] \in Ours
    BY <1>17, <2>1, MatchIsOurs DEF Terminate, Truthful
  <2>3. stage'[p] \in Ours
    BY <1>17, <2>2 DEF Terminate, Signal, Ends, Ours, Owning, IInv, TypeOK
  <2>4. p # None
    BY LifecycleAssumption DEF LifecycleAssumption, Processes
  <2> QED BY <1>17, <2>3, <2>4 DEF Terminate
<1>18. CASE Kill(c)
  BY <1>18 DEF Kill
<1> HIDE <1>0 DEF ControllerTypes, Moves, Recalls, Within, Locals, Places, Methods, Results,
                  Private, Go
<1>19. ASSUME \/ \E p \in Processes, i \in Pids : Launch(c, p, i)
              \/ \E p \in Processes, answered \in BOOLEAN : Request(c, p, answered)
              \/ \E p \in Processes : Terminate(c, p)
       PROVE  Goal
  BY <1>9, <1>16, <1>17, <1>19
<1> QED
  BY <1>1, <1>3, <1>4, <1>5, <1>6, <1>7, <1>8, <1>11, <1>12, <1>13, <1>14, <1>15,
     <1>18, <1>19 DEF Method

\* A step that enters or leaves a method keeps Locks.
LEMMA BetweenMethods ==
    ASSUME IInv, NEW c \in Controllers,
           \/ (\E m \in Commands : Command(c, m)) \/ Acquire(c) \/ Return(c)
           \/ ControllerEnds(c)
    PROVE  Moves(c) /\ Recalls(c) /\ \A d \in Controllers : Locks(d)'
<1> DEFINE Goal == Moves(c) /\ Recalls(c) /\ \A d \in Controllers : Locks(d)'
<1>0. /\ ControllerTypes /\ None \notin Controllers
      /\ local[c] \in Locals /\ at[c] \in Places
      /\ \A d \in Controllers : Locks(d)
  BY LifecycleAssumption DEF IInv, TypeOK, ControllerTypes, LifecycleAssumption
<1>1. ASSUME NEW m \in AllCommands, NEW method \in Methods
      PROVE  Fresh(m, method) \in Locals
  BY <1>1, LifecycleAssumption DEF Fresh, Locals, Results, LifecycleAssumption
<1>2. ASSUME Unlock(c), Rest(c) PROVE Goal
  <2>1. Fresh("status", "status") \in Locals
    BY <1>1 DEF AllCommands, Methods
  <2>2. /\ at'[c] = "idle" /\ local'[c] = Fresh("status", "status")
        /\ Moves(c)
    BY <1>0, <1>2, <2>1 DEF Unlock, Rest, Go, Moves, ControllerTypes, Places
  <2>3. Recalls(c)
    BY <2>2 DEF Recalls, Fresh
  <2>4. \A d \in Controllers : Locks(d)'
    BY <1>0, <1>2, <2>2 DEF Unlock, Moves, Locks, Inside
  <2> QED BY <2>2, <2>3, <2>4
<1>3. ASSUME NEW m \in AllCommands, NEW method \in Methods, Enter(c, m, method), Unlock(c)
      PROVE  Goal
  <2>1. Fresh(m, method) \in Locals
    BY <1>1
  <2>2. /\ at'[c] = (IF method = "status" THEN "load" ELSE "acquire")
        /\ local'[c] = Fresh(m, method)
        /\ Moves(c)
    BY <1>0, <1>3, <2>1 DEF Unlock, Enter, Go, Moves, ControllerTypes, Places
  <2>3. Recalls(c)
    BY <2>2 DEF Recalls, Fresh
  <2>4. local'[c].method = method
    BY <2>2 DEF Fresh
  <2>5. \A d \in Controllers : Locks(d)'
    BY <1>0, <1>3, <2>2, <2>4 DEF Unlock, Moves, Locks, Inside
  <2> QED BY <2>2, <2>3, <2>5
<1>4. ASSUME NEW m \in Commands, Command(c, m) PROVE Goal
  <2>1. m \in AllCommands /\ FirstMethod(m) \in Methods
    BY LifecycleAssumption DEF LifecycleAssumption, AllCommands, FirstMethod, Methods
  <2>2. Unlock(c)
    BY <1>0, <1>4 DEF Command, Unlock, Locks, Inside
  <2> QED BY <1>3, <1>4, <2>1, <2>2 DEF Command
<1>5. CASE Acquire(c)
  <2>1. /\ at'[c] \in {"reload", "load"} /\ lifecycleLock' = c
        /\ local'[c].method = local[c].method /\ local'[c].seen = local[c].seen
        /\ local'[c].target = local[c].target
        /\ Moves(c)
    BY <1>0, <1>5 DEF Acquire, Go, Moves, ControllerTypes, Places, Locals
  <2>2. Recalls(c)
    BY <2>1 DEF Recalls
  <2>3. \A d \in Controllers : Locks(d)'
    BY <1>0, <1>5, <2>1 DEF Acquire, Moves, Locks, Inside
  <2> QED BY <2>1, <2>2, <2>3
<1>6. CASE Return(c)
  <2> DEFINE next == NextMethod(local[c].command, local[c].method, local[c].result)
  <2>1. CASE next = None
    BY <1>2, <1>6, <2>1 DEF Return
  <2>2. CASE next # None
    <3>1. next \in Methods
      BY <2>2 DEF NextMethod, Methods
    <3>2. local[c].command \in AllCommands
      BY <1>0 DEF Locals
    <3> QED BY <1>3, <1>6, <2>2, <3>1, <3>2 DEF Return
  <2> QED BY <2>1, <2>2
<1>7. CASE ControllerEnds(c)
  BY <1>2, <1>7 DEF ControllerEnds
<1> QED
  BY <1>4, <1>5, <1>6, <1>7

LEMMA ControllersKept ==
    ASSUME IInv, [Next]_vars
    PROVE  ControllerTypes' /\ \A d \in Controllers : Remembers(d)' /\ Locks(d)'
<1>0. ControllerTypes /\ \A d \in Controllers : Remembers(d) /\ Locks(d)
  BY DEF IInv, TypeOK, ControllerTypes
\* What a controller remembers stays true whatever the processes and the others do.
<1>1. ASSUME NEW d \in Controllers, at'[d] = at[d], local'[d] = local[d]
      PROVE  Remembers(d)'
  <2>1. local[d] \in Locals /\ Remembers(d)
    BY <1>0 DEF ControllerTypes
  <2>2. local[d].target # None => stage'[local[d].target] \in Ours
    BY <2>1, ProcessKept DEF Remembers, Locals
  <2>3. local[d].seen # None =>
          /\ stage'[local[d].seen.created] \in Ours
          /\ pid'[local[d].seen.created] = local[d].seen.pid
          /\ ~Alive(local[d].seen.created) =>
               stage'[local[d].seen.created] \in {"unborn", "dead", "gone"}
    <3>1. local[d].seen # None =>
            /\ local[d].seen.created \in Processes
            /\ stage[local[d].seen.created] \in Ours
            /\ pid[local[d].seen.created] = local[d].seen.pid
      BY <2>1 DEF Remembers, Truthful, Locals, Descriptors
    <3> QED BY <3>1, ProcessKept DEF Alive, Ours, Owning
  <2>4. local[d].seen # None =>
          (~Alive(local[d].seen.created) => ~Alive(local[d].seen.created)')
    BY <1>1, <2>3 DEF Alive
  <2> QED BY <1>1, <2>1, <2>2, <2>3, <2>4 DEF Remembers, Truthful
<1>2. ASSUME NEW c \in Controllers, Moves(c), Recalls(c) PROVE Remembers(c)'
  <2>1. /\ local[c] \in Locals /\ Remembers(c)
        /\ local'[c] \in Locals
    BY <1>0, <1>2 DEF ControllerTypes, Moves
  <2>2. local'[c].target # None => stage'[local'[c].target] \in Ours
    <3>1. local[c].target # None => stage'[local[c].target] \in Ours
      BY <2>1, ProcessKept DEF Remembers, Locals
    <3> QED BY <1>2, <3>1 DEF Recalls
  <2>3. local'[c].seen # None =>
          /\ stage'[local'[c].seen.created] \in Ours
          /\ pid'[local'[c].seen.created] = local'[c].seen.pid
    <3>1. local[c].seen # None =>
            local[c].seen \in Descriptors /\ Truthful(local[c].seen)
      BY <2>1 DEF Remembers, Locals
    <3>2. descriptor # None => descriptor \in Descriptors /\ Truthful(descriptor)
      BY DEF IInv, TypeOK
    <3>3. local'[c].seen # None =>
            local'[c].seen \in Descriptors
            /\ stage[local'[c].seen.created] \in Ours
            /\ pid[local'[c].seen.created] = local'[c].seen.pid
      BY <1>2, <3>1, <3>2 DEF Recalls, Truthful
    <3>4. local'[c].seen # None =>
            /\ stage'[local'[c].seen.created] \in Ours
            /\ pid'[local'[c].seen.created] = local'[c].seen.pid
      BY <3>3, ProcessKept DEF Descriptors, Ours, Owning
    <3> QED BY <3>4
  <2>4. \/ at'[c] = "cleanToken"
        \/ at'[c] = "done" /\ local'[c].result = "stopped"
        => \/ local'[c].seen = None
           \/ stage'[local'[c].seen.created] \in {"unborn", "dead", "gone"}
    <3>1. local[c].seen # None =>
            local[c].seen.created \in Processes /\ stage[local[c].seen.created] \in Ours
      BY <2>1 DEF Remembers, Truthful, Locals, Descriptors
    <3>2. local[c].seen # None /\ ~Alive(local[c].seen.created) =>
            stage'[local[c].seen.created] \in {"unborn", "dead", "gone"}
      BY <3>1, ProcessKept DEF Alive
    <3> QED BY <1>2, <3>2 DEF Recalls
  <2>5. (\A d \in Controllers : Truthful(local[d].seen)' <=>
             /\ stage'[local'[d].seen.created] \in Ours
             /\ pid'[local'[d].seen.created] = local'[d].seen.pid)
        /\ (\A d \in Controllers : Alive(local[d].seen.created)' <=>
             stage'[local'[d].seen.created] \notin {"unborn", "dead", "gone"})
    BY DEF Truthful, Alive
  <2> QED BY <1>2, <2>2, <2>3, <2>4, <2>5 DEF Recalls, Remembers
<1>3. ASSUME NEW c \in Controllers, Moves(c), Recalls(c), \A d \in Controllers : Locks(d)'
      PROVE  ControllerTypes' /\ \A d \in Controllers : Remembers(d)' /\ Locks(d)'
  BY <1>1, <1>2, <1>3 DEF Moves
<1>4. ASSUME NEW c \in Controllers, Moves(c), Within(c)
      PROVE  \A d \in Controllers : Locks(d)'
  BY <1>0, <1>4 DEF Moves, Within, Locks, Inside
<1>5. ASSUME NEW c \in Controllers, ControllerStep(c)
      PROVE  ControllerTypes' /\ \A d \in Controllers : Remembers(d)' /\ Locks(d)'
  <2>1. CASE Method(c) /\ ~Return(c)
    BY <1>3, <1>4, <2>1, WithinMethod
  <2>2. CASE \/ (\E m \in Commands : Command(c, m)) \/ Acquire(c) \/ Return(c)
             \/ ControllerEnds(c)
    BY <1>3, <2>2, BetweenMethods
  <2> QED BY <1>5, <2>1, <2>2 DEF ControllerStep
<1>6. ASSUME UNCHANGED controllers
      PROVE  ControllerTypes' /\ \A d \in Controllers : Remembers(d)' /\ Locks(d)'
  BY <1>0, <1>1, <1>6 DEF controllers, ControllerTypes, Locks, Inside
<1> QED
  BY <1>5, <1>6 DEF Next, ProcessStep, vars

\* The bounds on commands and faults.
LEMMA CountersStep ==
    ASSUME IInv, [Next]_vars
    PROVE  commands' \in 0..MaxCommands /\ faults' \in 0..MaxFaults
<1>0. /\ commands \in 0..MaxCommands /\ faults \in 0..MaxFaults
      /\ MaxCommands \in Nat /\ MaxFaults \in Nat
  BY LifecycleAssumption DEF IInv, TypeOK, LifecycleAssumption
<1>1. \/ UNCHANGED <<commands, faults>>
      \/ commands < MaxCommands /\ commands' = commands + 1 /\ UNCHANGED faults
      \/ faults < MaxFaults /\ faults' = faults + 1 /\ UNCHANGED commands
  <2>1. ASSUME NEW p \in Processes, ProcessStep(p)
        PROVE  UNCHANGED history \/ Fails
    BY <2>1 DEF ProcessStep
  <2>2. ASSUME NEW c \in Controllers, Method(c) PROVE UNCHANGED <<commands, faults>>
    BY <2>2
    DEF Method, Private, Load, JudgeLive, StatusReturns, RemoveStale, Remove,
        RemoveStaleToken, RemoveToken, LookAtPort, WriteToken, Launch, StartFails, Returns,
        SaveStarted, WaitPoll, RemoveChild, RemoveChildToken, Timeout, Reload, ReadToken,
        RemoveStopped, AwaitPoll, Request, RemoveStoppedToken, Terminate, Kill, StillThere,
        RemoveForced, Return, history
  <2>3. ASSUME NEW c \in Controllers, ControllerStep(c), ~Method(c)
        PROVE  \/ UNCHANGED <<commands, faults>>
               \/ commands < MaxCommands /\ commands' = commands + 1 /\ UNCHANGED faults
               \/ Fails
    BY <2>3 DEF ControllerStep, Command, Acquire, history
  <2> QED BY <2>1, <2>2, <2>3 DEF Next, vars, history, Fails
<1> QED
  BY <1>0, <1>1

-----------------------------------------------------------------------------
(* The theorems.                                                           *)

LEMMA Invariance == Spec => []IInv
<1>1. IInv /\ [Next]_vars => IInv'
  <2> SUFFICES ASSUME IInv, [Next]_vars PROVE IInv'
    OBVIOUS
  <2>1. ProcessTypes'
    <3>1. ProcessTypes
      BY DEF IInv, TypeOK, ProcessTypes
    <3> QED BY <3>1, ProcessStepOrNone, LifeStep DEF processes, ProcessTypes
  <2>2. TypeOK'
    BY <2>1, TruthStep, FilesStep, ControllersKept, CountersStep, SignalledStep
    DEF TypeOK, ProcessTypes, ControllerTypes
  <2> QED
    BY <2>2, PidsDifferStep, ServersOwnStep, TruthStep, SignalledStep, ControllersKept
    DEF IInv
<1> QED
  BY <1>1, InitInv, PTL DEF Spec

\* The runtime directory, the processes and the controllers are well formed in every
\* state: no step of a method loads, removes or judges a descriptor or a process that is
\* not one.
THEOREM LifecycleTyped == Spec => []TypeOK
<1>1. IInv => TypeOK
  BY DEF IInv
<1> QED BY <1>1, Invariance, PTL

\* One server at most is past server.lock and listens, and one controller at most is in
\* start, stop or force_stop, for any number of terminals and launchers, and whichever of
\* them are killed meanwhile.
THEOREM OneServerAlways == Spec => []OneServer
<1>1. IInv => OneServer
  BY LifecycleAssumption
  DEF IInv, ServersOwn, Locks, OneServer, LifecycleAssumption, Processes
<1> QED BY <1>1, Invariance, PTL

\* force_stop signals no program but the server's, however often the system gives the
\* pid of the descriptor out again: pid and creation time are compared before the signal.
THEOREM StrangersSparedAlways == Spec => []StrangersSpared
<1>1. IInv => StrangersSpared
  BY DEF IInv, StrangersSpared, Ours, Owning
<1> QED BY <1>1, Invariance, PTL

\* A stop or force_stop that answers "stopped" for a process it dealt with answers so
\* when the process has ended, and a process that has ended stays so: what a restart
\* relies on.
THEOREM StoppedDead == Spec => []StoppedIsDead
<1>1. IInv => StoppedIsDead
  BY DEF IInv, Remembers, StoppedIsDead
<1> QED BY <1>1, Invariance, PTL

\* Whatever removes, writes and reads server.json in between, the descriptor and every
\* copy of it a controller still holds names a process of this program by the pid it had
\* from birth: a stale descriptor is stale only because that process has ended.
THEOREM DescriptorsTruthful ==
    Spec => [](/\ descriptor # None => Truthful(descriptor)
               /\ \A c \in Controllers : local[c].seen # None => Truthful(local[c].seen))
<1>1. IInv => /\ descriptor # None => Truthful(descriptor)
              /\ \A c \in Controllers : local[c].seen # None => Truthful(local[c].seen)
  BY DEF IInv, Remembers
<1> QED BY <1>1, Invariance, PTL
-----------------------------------------------------------------------------
(* The window of the launcher (module LauncherWindow), whose action thread  *)
(* runs the methods of a controller.                                        *)

Events == [kind : {"action", "lifecycle"}, status : Statuses]

WindowTyped ==
    /\ server \in Servers
    /\ thread \in Threads \cup {NoThread}
    /\ late \subseteq Statuses
    /\ monitor \in Statuses \cup {NoThread}
    /\ events \in Seq(Events)
    /\ pending \in Actions \cup {""} /\ waiting \in BOOLEAN /\ closed \in BOOLEAN

\* What a result in the queue does: it stays there until the window handles it.
LEMMA ResultsStay ==
    ASSUME events \in Seq(Events)
    PROVE  /\ \A e \in Events : events' = Append(events, e) =>
                 /\ events' \in Seq(Events)
                 /\ Queued("action") \/ e.kind = "action" => Queued("action")'
           /\ events # <<>> /\ events' = Tail(events) =>
                 /\ events' \in Seq(Events) /\ Head(events) \in Events
                 /\ Head(events).kind # "action" /\ Queued("action") => Queued("action")'
<1>1. ASSUME NEW e \in Events, events' = Append(events, e)
      PROVE  /\ events' \in Seq(Events)
             /\ Queued("action") \/ e.kind = "action" => Queued("action")'
  <2>1. /\ events' \in Seq(Events) /\ DOMAIN events' = 1..(Len(events) + 1) /\ Len(events) \in Nat
        /\ DOMAIN events = 1..Len(events)
        /\ \A i \in 1..Len(events) : events'[i] = events[i]
        /\ events'[Len(events) + 1] = e
    BY <1>1
  <2> QED
    BY <2>1 DEF Queued
<1>2. ASSUME events # <<>>, events' = Tail(events)
      PROVE  /\ events' \in Seq(Events) /\ Head(events) \in Events
             /\ Head(events).kind # "action" /\ Queued("action") => Queued("action")'
  <2>1. Len(events) \in Nat \ {0} /\ DOMAIN events = 1..Len(events) /\ Head(events) = events[1]
    BY <1>2
  <2>2. events' \in Seq(Events) /\ Len(events') = Len(events) - 1
    BY <1>2
  <2>3. DOMAIN events' = 1..(Len(events) - 1) /\ \A i \in DOMAIN events' : events'[i] = events[i + 1]
    BY <1>2, <2>1, <2>2
  <2>4. Head(events) \in Events
    BY <2>1
  <2>5. ASSUME Head(events).kind # "action", Queued("action")
        PROVE  Queued("action")'
    <3>1. PICK i \in 1..Len(events) : events[i].kind = "action"
      BY <2>1, <2>5 DEF Queued
    <3>2. i # 1 /\ i - 1 \in DOMAIN events' /\ events'[i - 1] = events[i]
      BY <2>1, <2>3, <2>5, <3>1
    <3> QED
      BY <3>1, <3>2 DEF Queued
  <2> QED
    BY <2>2, <2>4, <2>5
<1> QED
  BY <1>1, <1>2

\* A step leaves the window backed if it ends no thread without a result, and takes no
\* result away.
LEMMA BackedKept ==
    ASSUME WindowBacked, closed' = closed,
           pending' = pending, waiting' = waiting,
           Outstanding => Outstanding',
           thread # NoThread => \/ Outstanding'
                                \/ thread' # NoThread /\ thread'.action = thread.action
    PROVE  WindowBacked'
<1>1. ASSUME ~closed', pending' # ""
      PROVE  Outstanding' \/ (thread' # NoThread /\ thread'.action = pending')
  BY <1>1 DEF WindowBacked
<1>2. ASSUME ~closed', waiting'
      PROVE  Outstanding' \/ thread' # NoThread
  BY <1>2 DEF WindowBacked
<1> QED
  BY <1>1, <1>2 DEF WindowBacked

\* Typing and what the window shows together are inductive.
WindowInv == WindowTyped /\ WindowBacked

LEMMA WindowStep ==
    ASSUME WindowInv, [WindowNext]_windowVars
    PROVE  WindowInv'
<1> USE DEF WindowInv
<1>0. NoThread \notin Threads
  BY LauncherAssumption DEF LauncherAssumption
<1>1. thread # NoThread => thread \in Threads
  BY DEF WindowTyped
<1>2. ASSUME UNCHANGED <<thread, late, events, pending, waiting, closed>>,
             server' \in Servers, monitor' \in Statuses \cup {NoThread}
      PROVE  WindowInv'
  <2>1. WindowTyped'
    BY <1>2 DEF WindowTyped
  <2>2. Outstanding' <=> Outstanding
    BY <1>2 DEF Outstanding, Queued
  <2> QED
    BY <1>2, <2>1, <2>2 DEF WindowBacked
\* A step of the thread that leaves its action.
<1>3. ASSUME NEW s \in Steps, NEW r \in Statuses, thread # NoThread,
             thread' = [thread EXCEPT !.step = s, !.result = r],
             UNCHANGED <<late, monitor, events, pending, waiting, closed>>, server' \in Servers
      PROVE  WindowInv'
  <2>1. thread' \in Threads /\ thread'.action = thread.action
    BY <1>1, <1>3 DEF Threads
  <2>2. WindowTyped'
    BY <1>3, <2>1 DEF WindowTyped
  <2>3. Outstanding' <=> Outstanding
    BY <1>3 DEF Outstanding, Queued
  <2> QED
    BY <1>0, <1>3, <2>1, <2>2, <2>3, BackedKept
\* The window starts an action, or has one under way.
<1>4. ASSUME NEW action \in Actions, NEW more, RunAction(action, more),
             UNCHANGED <<server, late, monitor, events, closed>>, waiting' \in BOOLEAN,
             waiting' = waiting \/ action = "wait_restart"
      PROVE  WindowInv'
  <2>1. Outstanding' <=> Outstanding
    BY <1>4 DEF Outstanding, Queued
  <2>2. CASE thread = NoThread
    <3>1. thread' = Begun(action) /\ pending' = action
      BY <1>4, <2>2 DEF RunAction
    <3>2. thread' \in Threads /\ thread'.action = action
      BY <3>1 DEF Begun, FirstStep, Threads, Steps, Statuses, Actions
    <3>3. WindowTyped'
      BY <1>4, <3>1, <3>2 DEF WindowTyped
    <3>4. WindowBacked'
      BY <1>0, <3>1, <3>2 DEF WindowBacked
    <3> QED
      BY <3>3, <3>4
  <2>3. CASE thread # NoThread
    <3>1. thread' = thread /\ pending' = pending
      BY <1>4, <2>3 DEF RunAction
    <3>2. WindowTyped'
      BY <1>4, <3>1 DEF WindowTyped
    <3>3. WindowBacked'
      BY <1>4, <2>1, <2>3, <3>1 DEF WindowBacked
    <3> QED
      BY <3>2, <3>3
  <2> QED
    BY <2>2, <2>3
\* The window closes.
<1>5. ASSUME closed' = TRUE, UNCHANGED <<server, thread, late, monitor>>, events' \in Seq(Events),
             pending' \in Actions \cup {""}, waiting' \in BOOLEAN
      PROVE  WindowInv'
  BY <1>5 DEF WindowTyped, WindowBacked
<1>6. \A s \in Servers : Reads(s) \in Statuses
  BY DEF Servers, Reads, Statuses
<1>7. CASE UNCHANGED windowVars
  BY <1>2, <1>7 DEF windowVars, daemon, threads, view, WindowTyped
<1>8. CASE ServerFails \/ ServerRecovers \/ StartWork \/ EndWork
  <2>1. server' \in Servers
    BY <1>8 DEF ServerFails, ServerRecovers, StartWork, EndWork, WindowTyped, Servers
  <2> QED
    BY <1>2, <1>8, <2>1
    DEF ServerFails, ServerRecovers, StartWork, EndWork, threads, view, WindowTyped
<1>9. CASE Start \/ Stop \/ ForceStop \/ Drain \/ Poll \/ Undrain
  <2>1. thread \in Threads /\ thread # NoThread
    BY <1>1, <1>9 DEF Start, Stop, ForceStop, Drain, Poll, Undrain, At
  <2>2. UNCHANGED <<late, monitor, events, pending, waiting, closed>>
    BY <1>9 DEF Start, Stop, ForceStop, Drain, Poll, Undrain, Threaded, view
  <2>3. server' \in Servers
    BY <1>9
    DEF Start, Stop, ForceStop, Drain, Poll, Undrain, DaemonIs, daemon, WindowTyped,
        Servers
  <2>4. \A s \in Steps : GoesTo(s) => thread' = [thread EXCEPT !.step = s, !.result = thread.result]
    BY <2>1 DEF GoesTo, Threads
  <2>5. \A r : Finishes(r) => thread' = [thread EXCEPT !.step = "done", !.result = r]
    BY DEF Finishes
  <2>6. \/ \E s \in Steps : GoesTo(s)
        \/ \E r \in Statuses : Finishes(r)
    <3>1. Reads(server) \in Statuses
      BY <1>6 DEF WindowTyped
    <3>2. CASE Start
      BY <3>2 DEF Start, Statuses, WindowTyped, Servers
    <3>3. CASE Stop
      BY <3>3 DEF Stop, Statuses, Steps
    <3>4. CASE ForceStop
      BY <3>4 DEF ForceStop, Statuses
    <3>5. CASE Drain
      BY <3>5 DEF Drain, Statuses, Steps
    <3>6. CASE Poll
      BY <3>6 DEF Poll, Steps
    <3>7. CASE Undrain
      BY <3>1, <3>7 DEF Undrain
    <3> QED
      BY <1>9, <3>2, <3>3, <3>4, <3>5, <3>6, <3>7
  <2>7. "done" \in Steps /\ thread.result \in Statuses
    BY <2>1 DEF Steps, Threads
  <2> QED
    BY <1>3, <2>1, <2>2, <2>3, <2>4, <2>5, <2>6, <2>7
<1>10. CASE Release
  <2>1. /\ thread \in Threads /\ late' = late \cup {thread.result} /\ thread' = NoThread
        /\ UNCHANGED <<server, monitor, events, pending, waiting, closed>>
    BY <1>1, <1>10 DEF Release, At, daemon, view
  <2>2. WindowTyped'
    BY <2>1 DEF WindowTyped, Threads
  <2>3. Outstanding'
    BY <2>1 DEF Outstanding
  <2> QED
    BY <2>2, <2>3 DEF WindowBacked
<1>11. ASSUME NEW s \in Statuses, QueueResult(s)
       PROVE  WindowInv'
  <2>1. /\ [kind |-> "action", status |-> s] \in Events
        /\ events' = Append(events, [kind |-> "action", status |-> s])
        /\ late' = late \ {s} /\ UNCHANGED <<server, thread, monitor, pending, waiting, closed>>
    BY <1>11 DEF QueueResult, Event, Events, daemon, view
  <2>2. events' \in Seq(Events) /\ Queued("action")'
    <3>1. events \in Seq(Events)
      BY DEF WindowTyped
    <3> QED
      BY <2>1, <3>1, ResultsStay
  <2>3. WindowTyped'
    BY <2>1, <2>2 DEF WindowTyped
  <2>4. Outstanding'
    BY <2>2 DEF Outstanding
  <2> QED
    BY <2>3, <2>4 DEF WindowBacked
<1>12. CASE ReadStatus
  <2>1. monitor' \in Statuses \cup {NoThread} /\ server' = server
    BY <1>6, <1>12 DEF ReadStatus, WindowTyped, daemon
  <2> QED
    BY <1>2, <1>12, <2>1 DEF ReadStatus, view, WindowTyped
<1>13. CASE QueueStatus
  <2>1. /\ monitor \in Statuses /\ monitor' = NoThread
        /\ events' = Append(events, [kind |-> "lifecycle", status |-> monitor])
        /\ UNCHANGED <<server, thread, late, pending, waiting, closed>>
    BY <1>13 DEF QueueStatus, Event, WindowTyped, daemon, view
  <2>2. events \in Seq(Events) /\ [kind |-> "lifecycle", status |-> monitor] \in Events
    BY <2>1 DEF WindowTyped, Events
  <2>3. events' \in Seq(Events) /\ (Queued("action") => Queued("action")')
    BY <2>1, <2>2, ResultsStay
  <2>4. WindowTyped'
    BY <2>1, <2>3 DEF WindowTyped
  <2>5. Outstanding => Outstanding'
    BY <2>1, <2>3 DEF Outstanding
  <2> QED
    BY <2>1, <2>4, <2>5, BackedKept
\* The result of an action clears what was pending and waiting.
<1>14. CASE HandleAction
  <2>1. /\ events # <<>> /\ events' = Tail(events) /\ pending' = "" /\ waiting' = FALSE
        /\ UNCHANGED <<server, thread, late, monitor>>
    BY <1>14 DEF HandleAction, FinishAction, threads
  <2>2. events' \in Seq(Events)
    BY <2>1, ResultsStay DEF WindowTyped
  <2>3. closed' \in BOOLEAN
    BY <1>14 DEF HandleAction, FinishAction, FinalClose, WindowTyped
  <2> QED
    BY <2>1, <2>2, <2>3 DEF WindowTyped, WindowBacked
<1>15. CASE HandleStatus
  <2>1. /\ events # <<>> /\ events' = Tail(events) /\ Head(events).kind = "lifecycle"
        /\ UNCHANGED <<server, thread, late, monitor, pending, waiting, closed>>
    BY <1>15 DEF HandleStatus, daemon, threads
  <2>2. events' \in Seq(Events) /\ (Queued("action") => Queued("action")')
    BY <2>1, ResultsStay DEF WindowTyped
  <2>3. WindowTyped'
    BY <2>1, <2>2 DEF WindowTyped
  <2>4. Outstanding => Outstanding'
    BY <2>1, <2>2 DEF Outstanding
  <2> QED
    BY <2>1, <2>3, <2>4, BackedKept
<1>16. CASE Restyle
  BY <1>2, <1>16 DEF Restyle, daemon, threads, WindowTyped
<1>17. ASSUME NEW b \in Buttons, ClickButton(b)
       PROVE  WindowInv'
  <2>1. b \in Actions /\ RunAction(b, {})
    BY <1>17 DEF ClickButton, Buttons, Actions
  <2> QED
    BY <1>4, <1>17, <2>1 DEF ClickButton, Unread, daemon, WindowTyped
<1>18. CASE ClickRestart
  BY <1>2, <1>18 DEF ClickRestart, Unread, daemon, WindowTyped
<1>19. CASE WaitAndRestart
  <2>1. RunAction("wait_restart", {"restart"}) /\ "wait_restart" \in Actions
    BY <1>19 DEF WaitAndRestart, Actions
  <2> QED
    BY <1>4, <1>19, <2>1 DEF WaitAndRestart, Unread, daemon
<1>20. ASSUME NEW remaining, StopAndClose(remaining), Unread
       PROVE  WindowInv'
  <2>1. RunAction("stop_close", {}) /\ "stop_close" \in Actions
    BY <1>20 DEF StopAndClose, Actions
  <2> QED
    BY <1>4, <1>20, <2>1 DEF StopAndClose, Unread, daemon, WindowTyped
<1>21. CASE CloseNow /\ Unread
  BY <1>5, <1>21 DEF CloseNow, FinalClose, Unread, WindowTyped
<1>22. CASE CloseLauncher
  <2>1. CASE CloseNow
    BY <1>21, <1>22, <2>1 DEF CloseLauncher
  <2>2. CASE StopAndClose(dialogs)
    BY <1>20, <1>22, <2>2 DEF CloseLauncher
  <2>3. CASE UNCHANGED <<server, draining, work, thread, pending, waiting, closed>>
    BY <1>2, <1>22, <2>3 DEF CloseLauncher, Unread, WindowTyped
  <2> QED
    BY <1>22, <2>1, <2>2, <2>3 DEF CloseLauncher, daemon
<1>23. CASE ConfirmClose
  BY <1>20, <1>21, <1>23 DEF ConfirmClose
<1>24. ASSUME NEW d \in Dialogs, Dismiss(d)
       PROVE  WindowInv'
  BY <1>2, <1>24 DEF Dismiss, Unread, daemon, WindowTyped
<1>25. ASSUME NEW d \in Dialogs, Confirm(d)
       PROVE  WindowInv'
  <2>1. PICK action \in Actions : RunAction(action, {})
    BY <1>25 DEF Confirm, Dialogs, Actions
  <2> QED
    BY <1>4, <1>25, <2>1 DEF Confirm, Unread, daemon, WindowTyped
<1> QED
  BY <1>7, <1>8, <1>9, <1>10, <1>11, <1>12, <1>13, <1>14, <1>15, <1>16, <1>17, <1>18, <1>19, <1>22,
     <1>23, <1>24, <1>25
  DEF WindowNext, Thread, Handle, User

\* However many actions, faults and events: what the window shows as under way is under way,
\* or a result is to come that ends it; a waiting restart too, when its thread could not
\* start (launcher/app.py _run_action, _finish_action, _wait_and_restart).
THEOREM WindowAlwaysBacked ==
    WindowSpec => []WindowBacked
<1>1. WindowInit => WindowInv
  <2>1. WindowInit => WindowTyped
    <3>1. <<>> \in Seq(Events)
      OBVIOUS
    <3> QED
      BY <3>1 DEF WindowInit, WindowTyped, Servers
  <2>2. WindowInit => WindowBacked
    BY DEF WindowInit, WindowBacked
  <2> QED
    BY <2>1, <2>2 DEF WindowInv
<1>2. WindowInv /\ [WindowNext]_windowVars => WindowInv'
  BY WindowStep
<1>3. WindowInv => WindowBacked
  BY DEF WindowInv
<1> QED
  BY <1>1, <1>2, <1>3, PTL DEF WindowSpec
=============================================================================
