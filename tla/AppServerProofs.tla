---------------------------- MODULE AppServerProofs ----------------------------
(***************************************************************************)
(* Proofs about the Codex provider, for any number of provider objects,    *)
(* processes, turns, faults and any capacity of the notification queues:   *)
(* TrueOutcome of module AppServer.                                        *)
(***************************************************************************)
EXTENDS AppServer, WellFoundedInduction, TLAPS

-----------------------------------------------------------------------------
(* The inductive invariant.                                                *)

Pids == Slots \cup {0}
Notes == [kind : {"completed", "closed"}, turn : Nat]
Steps == {"idle", "spawn", "handshake", "exit", "request", "turn", "lock", "stopping"}

TypeOK ==
    /\ proc \in [Slots -> {"free", "alive", "dead"}] /\ owner \in [Slots -> Providers]
    /\ reading \subseteq Slots /\ work \in [Slots -> Nat]
    /\ process \in [Providers -> Pids] /\ status \in [Providers -> Statuses]
    /\ notes \in [Providers -> Seq(Notes)]
    /\ registered \in Providers /\ fresh \subseteq Providers
    /\ pc \in [Tasks -> [at : Steps, obj : Providers \cup {None}, pid : Pids]]
    /\ broken \subseteq Tasks /\ turn \in Nat
    /\ outcome \in {"none", "completed", "exited", "failed"}
    /\ finished \in BOOLEAN /\ lost \in BOOLEAN /\ overlap \in BOOLEAN

\* The steps of a start, or the stop of one that failed.
InStart == {"spawn", "handshake", "exit"}
Starts(t, o) == pc[t].obj = o /\ pc[t].at \in InStart

\* What the notification queue of a provider tells.
Members(s) == {s[i] : i \in DOMAIN s}
Told(o) == Members(notes[o])
Closed(o) == \E note \in Told(o) : note.kind = "closed"

\* Which steps a task can be at.  All but an idle task have a provider, and a request that
\* was sent to no process has been failed.
TaskFits(t) ==
    /\ t # "worker" => pc[t].at \in InStart \cup {"idle", "lock", "stopping"}
    /\ t = "worker" => pc[t].at \in InStart \cup {"idle", "request", "turn"}
    /\ pc[t].at # "idle" => pc[t].obj \in Providers
    /\ pc[t].at = "request" /\ pc[t].pid = 0 => t \in broken
    /\ pc[t].at = "turn" => pc[t].pid # 0

\* A process belongs to one provider, and who stops one has taken it from the provider.
ProcessFits(o) ==
    process[o] # 0 =>
        /\ proc[process[o]] # "free"
        /\ \A u \in Providers : process[u] = process[o] => u = o
        /\ \A t \in Tasks : pc[t].at \in {"exit", "stopping"} => pc[t].pid # process[o]

\* A provider that was never registered is untouched.
FreshFits(n) ==
    n \in fresh =>
        /\ n # registered /\ process[n] = 0 /\ ~Closed(n)
        /\ \A t \in Tasks : pc[t].obj # n

\* Notifications and processes name turns up to the latest; the completion of the latest
\* is one that has happened.
TurnsFit ==
    /\ \A p \in Slots : work[p] <= turn
    /\ \A o \in Providers : \A note \in Told(o) :
          /\ note.turn <= turn
          /\ note.kind = "completed" /\ note.turn = turn /\ outcome = "none" => finished = TRUE
    /\ pc["worker"].at # "idle" => outcome = "none"
    /\ outcome = "completed" => finished = TRUE

\* Unless starts have met: one start at a time, of a provider that is not ready and has
\* told nothing of an end; one that is ready has told none either.
StartFits(o) ==
    overlap = FALSE =>
        /\ \A t, u \in Tasks : Starts(t, o) /\ Starts(u, o) => t = u
        /\ \A t \in Tasks : Starts(t, o) => status[o] # "ready"
        /\ \A t \in Tasks : Starts(t, o) /\ pc[t].at # "exit" => ~Closed(o)
        /\ status[o] = "ready" => ~Closed(o)

\* The worker has a turn at a process.
Engaged == pc["worker"].at \in {"request", "turn"} /\ pc["worker"].pid # 0
\* Unless that process is lost, or starts have met, it is alive and still the provider's,
\* nobody starts the provider, and its queue tells of no end.
TurnFits ==
    /\ Engaged /\ lost = FALSE => proc[pc["worker"].pid] = "alive"
    /\ Engaged /\ lost = FALSE /\ overlap = FALSE =>
          \A o \in Providers : pc["worker"].obj = o =>
              process[o] = pc["worker"].pid /\ ~Closed(o) /\ \A t \in Tasks : ~Starts(t, o)
    /\ outcome = "exited" => lost = TRUE \/ overlap = TRUE

TasksFit == \A t \in Tasks : TaskFits(t)
ProcessesFit == \A o \in Providers : ProcessFits(o)
FreshOnesFit == \A n \in Providers : FreshFits(n)
StartsFit == \A o \in Providers : StartFits(o)

IInv ==
    /\ TypeOK /\ TasksFit /\ ProcessesFit /\ FreshOnesFit /\ TurnsFit /\ StartsFit /\ TurnFits

-----------------------------------------------------------------------------
(* Lemmas.                                                                 *)

LEMMA NoneIsNoProvider == None \notin Providers /\ 0 \notin Slots /\ Slots \subseteq Nat
BY AppServerAssumption DEF Slots

LEMMA Typed ==
    ASSUME IInv
    PROVE  /\ \A q \in Providers : process[q] \in Slots \cup {0}
           /\ \A v \in Tasks : pc[v].pid \in Slots \cup {0} /\ pc[v].obj \in Providers \cup {None}
           /\ registered \in Providers /\ {"worker", "poll", "patch"} \subseteq Tasks
BY DEF IInv, TypeOK, Tasks, Pids

\* What taking from a queue and adding to it do to its members.
LEMMA MembersOf ==
    ASSUME NEW S, NEW s \in Seq(S)
    PROVE  /\ Members(<<>>) = {}
           /\ Members(s) \subseteq S
           /\ s # <<>> => Head(s) \in Members(s) /\ Tail(s) \in Seq(S) /\ Members(Tail(s)) \subseteq
                  Members(s)
           /\ \A x \in S : Append(s, x) \in Seq(S) /\ Members(Append(s, x)) = Members(s) \cup {x}
<1>1. Members(<<>>) = {}
  BY DEF Members
<1>2. Members(s) \subseteq S
  BY DEF Members
<1>3. ASSUME s # <<>>
      PROVE  Head(s) \in Members(s) /\ Tail(s) \in Seq(S) /\ Members(Tail(s)) \subseteq Members(s)
  <2>1. Len(s) \in Nat \ {0} /\ DOMAIN s = 1..Len(s)
    BY <1>3
  <2>2. Head(s) = s[1] /\ 1 \in DOMAIN s
    BY <1>3, <2>1
  <2>3. Tail(s) \in Seq(S) /\ Len(Tail(s)) = Len(s) - 1
    BY <1>3
  <2>4. \A i \in DOMAIN Tail(s) : Tail(s)[i] = s[i + 1] /\ i + 1 \in DOMAIN s
    BY <1>3, <2>1, <2>3
  <2> QED
    BY <2>2, <2>3, <2>4 DEF Members
<1>4. ASSUME NEW x \in S
      PROVE  Append(s, x) \in Seq(S) /\ Members(Append(s, x)) = Members(s) \cup {x}
  <2>1. /\ Append(s, x) \in Seq(S) /\ DOMAIN Append(s, x) = 1..(Len(s) + 1)
        /\ DOMAIN s = 1..Len(s) /\ Len(s) \in Nat
        /\ \A i \in 1..Len(s) : Append(s, x)[i] = s[i]
        /\ Append(s, x)[Len(s) + 1] = x
    OBVIOUS
  <2> QED
    BY <2>1 DEF Members
<1> QED
  BY <1>1, <1>2, <1>3, <1>4

\* The slot Spawned chooses is a free one.
LEMMA LeastSlot ==
    ASSUME NEW S \in SUBSET Slots, S # {}
    PROVE  (CHOOSE x \in S : \A y \in S : x <= y) \in S
<1>1. S \subseteq Nat
  BY NoneIsNoProvider
<1>2. PICK x \in S : \A y \in S : ~ (<<y, x>> \in OpToRel(<, Nat))
  BY <1>1, NatLessThanWellFounded, WFMin
<1>3. \A y \in S : ~ (y < x)
  BY <1>1, <1>2 DEF OpToRel
<1>4. \A y \in S : x <= y
  BY <1>1, <1>3
<1> QED
  BY <1>2, <1>4

-----------------------------------------------------------------------------
(* What keeps the parts of the invariant.                                  *)

\* A step keeps ProcessesFit if providers only lose processes, the ones they keep do not go,
\* and who takes one in hand takes it from its provider.
LEMMA ProcessesKept ==
    ASSUME ProcessesFit,
           \A q \in Providers : process'[q] \in {process[q], 0},
           \A q \in Providers : process'[q] # 0 => proc'[process'[q]] # "free",
           \A v \in Tasks : pc'[v].at \in {"exit", "stopping"} =>
              \/ pc[v].at \in {"exit", "stopping"} /\ pc'[v].pid = pc[v].pid
              \/ \A q \in Providers : process'[q] # 0 => process'[q] # pc'[v].pid
    PROVE  ProcessesFit'
<1>1. ASSUME NEW q \in Providers, process'[q] # 0
      PROVE  /\ proc'[process'[q]] # "free"
             /\ \A u \in Providers : process'[u] = process'[q] => u = q
             /\ \A v \in Tasks : pc'[v].at \in {"exit", "stopping"} => pc'[v].pid # process'[q]
  <2>1. process'[q] = process[q] /\ ProcessFits(q)
    BY <1>1 DEF ProcessesFit
  <2> QED
    BY <1>1, <2>1 DEF ProcessFits
<1> QED
  BY <1>1 DEF ProcessesFit, ProcessFits

\* A step keeps FreshOnesFit if it makes none fresh and gives a fresh one nothing.
LEMMA FreshOnesKept ==
    ASSUME FreshOnesFit, fresh' \subseteq fresh, registered' \notin fresh',
           \A n \in fresh' : process'[n] = process[n] \/ process'[n] = 0,
           \A n \in fresh' : Closed(n)' => Closed(n),
           \A v \in Tasks : pc'[v].obj = pc[v].obj \/ pc'[v].obj \notin fresh'
    PROVE  FreshOnesFit'
<1>1. ASSUME NEW n \in Providers, n \in fresh'
      PROVE  n # registered' /\ process'[n] = 0 /\ ~Closed(n)' /\ \A v \in Tasks : pc'[v].obj # n
  BY <1>1 DEF FreshOnesFit, FreshFits
<1> QED
  BY <1>1 DEF FreshOnesFit, FreshFits

\* A step keeps StartsFit if it starts nothing, makes no provider ready that tells of an end
\* or is being started, and closes none that is ready or being started.
LEMMA StartsKept ==
    ASSUME StartsFit, overlap' = FALSE => overlap = FALSE,
           \A v \in Tasks, q \in Providers : Starts(v, q)' =>
              Starts(v, q) /\ (pc'[v].at # "exit" => pc[v].at # "exit"),
           overlap' = FALSE => \A q \in Providers :
              /\ status'[q] = "ready" =>
                    \/ status[q] = "ready"
                    \/ ~Closed(q)' /\ \A v \in Tasks : ~Starts(v, q)'
              /\ Closed(q)' =>
                    \/ Closed(q)
                    \/ status'[q] # "ready" /\ \A v \in Tasks : Starts(v, q)' => pc'[v].at = "exit"
    PROVE  StartsFit'
<1>1. ASSUME NEW q \in Providers, overlap' = FALSE
      PROVE  /\ \A v, u \in Tasks : Starts(v, q)' /\ Starts(u, q)' => v = u
             /\ \A v \in Tasks : Starts(v, q)' => status'[q] # "ready"
             /\ \A v \in Tasks : Starts(v, q)' /\ pc'[v].at # "exit" => ~Closed(q)'
             /\ status'[q] = "ready" => ~Closed(q)'
  <2>1. /\ \A v, u \in Tasks : Starts(v, q) /\ Starts(u, q) => v = u
        /\ \A v \in Tasks : Starts(v, q) => status[q] # "ready"
        /\ \A v \in Tasks : Starts(v, q) /\ pc[v].at # "exit" => ~Closed(q)
        /\ status[q] = "ready" => ~Closed(q)
    BY <1>1 DEF StartsFit, StartFits
  <2> QED
    BY <1>1, <2>1
<1> QED
  BY <1>1 DEF StartsFit, StartFits

\* A step within a turn, or one that fails it, keeps TurnsFit.
LEMMA TurnsKept ==
    ASSUME TypeOK, TurnsFit, turn' = turn,
           \A p \in Slots : work'[p] \in {work[p], 0, turn},
           \A q \in Providers : Told(q)' \subseteq Told(q),
           \/ outcome' = outcome /\ finished' = finished /\ (pc'["worker"].at # "idle" =>
                       pc["worker"].at # "idle")
           \/ outcome' = "failed" /\ pc'["worker"].at = "idle"
    PROVE  TurnsFit'
<1>1. ASSUME NEW p \in Slots PROVE work'[p] <= turn'
  <2>1. work[p] \in Nat /\ turn \in Nat
    BY DEF TypeOK
  <2>2. work[p] <= turn
    BY DEF TurnsFit
  <2> QED
    BY <2>1, <2>2
<1>2. ASSUME NEW q \in Providers, NEW note \in Told(q)'
      PROVE  /\ note.turn <= turn'
             /\ note.kind = "completed" /\ note.turn = turn' /\ outcome' = "none" => finished' = TRUE
  BY <1>2 DEF TurnsFit
<1>3. (pc'["worker"].at # "idle" => outcome' = "none") /\ (outcome' = "completed" => finished' = TRUE)
  BY DEF TurnsFit
<1> QED
  BY <1>1, <1>2, <1>3 DEF TurnsFit

\* So does one that begins a turn: no notification names it yet.
LEMMA TurnBegun ==
    ASSUME TypeOK, TurnsFit, turn' = turn + 1,
           \A p \in Slots : work'[p] \in {work[p], 0, turn + 1},
           \A q \in Providers : Told(q)' \subseteq Told(q),
           outcome' = "none" \/ (outcome' = "failed" /\ pc'["worker"].at = "idle")
    PROVE  TurnsFit'
<1>1. ASSUME NEW p \in Slots PROVE work'[p] <= turn'
  <2>1. work[p] \in Nat /\ turn \in Nat
    BY DEF TypeOK
  <2>2. work[p] <= turn
    BY DEF TurnsFit
  <2> QED
    BY <2>1, <2>2
<1>2. ASSUME NEW q \in Providers, NEW note \in Told(q)'
      PROVE  note.turn <= turn' /\ note.turn # turn'
  <2>1. note \in Told(q) /\ note.turn <= turn
    BY <1>2 DEF TurnsFit
  <2>2. note.turn \in Nat /\ turn \in Nat
    <3>1. notes[q] \in Seq(Notes) /\ turn \in Nat
      BY DEF TypeOK
    <3>2. note \in Notes
      BY <2>1, <3>1, MembersOf DEF Told
    <3> QED
      BY <3>1, <3>2 DEF Notes
  <2> QED
    BY <2>1, <2>2
<1> QED
  BY <1>1, <1>2 DEF TurnsFit

\* A step keeps TurnFits if it takes nothing of its process or its provider from the turn
\* without being the loss of the process, or one that starts meet at.
LEMMA TurnKept ==
    ASSUME TurnFits, lost' = FALSE => lost = FALSE, overlap' = FALSE => overlap = FALSE,
           outcome' = "exited" => outcome = "exited" /\ (lost = TRUE => lost' = TRUE) /\ (overlap =
                       TRUE => overlap' = TRUE),
           Engaged' =>
              /\ Engaged /\ pc'["worker"].pid = pc["worker"].pid /\ pc'["worker"].obj =
                     pc["worker"].obj
              /\ lost' = FALSE => proc'[pc["worker"].pid] = proc[pc["worker"].pid]
              /\ lost' = FALSE /\ overlap' = FALSE => \A q \in Providers : pc["worker"].obj = q =>
                    /\ process'[q] = process[q]
                    /\ Closed(q)' => Closed(q)
                    /\ \A v \in Tasks : Starts(v, q)' => Starts(v, q)
    PROVE  TurnFits'
<1>1. outcome' = "exited" => lost' = TRUE \/ overlap' = TRUE
  BY DEF TurnFits
<1>2. Engaged' /\ lost' = FALSE => proc'[pc'["worker"].pid] = "alive"
  BY DEF TurnFits
<1>3. ASSUME Engaged', lost' = FALSE, overlap' = FALSE, NEW q \in Providers, pc'["worker"].obj = q
      PROVE  process'[q] = pc'["worker"].pid /\ ~Closed(q)' /\ \A v \in Tasks : ~Starts(v, q)'
  BY <1>3 DEF TurnFits
<1> QED
  BY <1>1, <1>2, <1>3 DEF TurnFits

\* So does a step after which the worker has no turn at a process.
LEMMA TurnFree ==
    ASSUME TurnFits, ~Engaged',
           outcome' = "exited" => outcome = "exited" /\ (lost = TRUE => lost' = TRUE) /\ (overlap =
                       TRUE => overlap' = TRUE)
    PROVE  TurnFits'
BY DEF TurnFits

\* What is remembered stays so.
LEMMA LostFits ==
    ASSUME TypeOK, NEW p, lost' = Lost(p)
    PROVE  /\ lost' \in BOOLEAN /\ (lost = TRUE => lost' = TRUE)
           /\ lost' = FALSE => lost = FALSE /\ ~(Engaged /\ pc["worker"].pid = p)
<1>1. lost = TRUE \/ lost = FALSE
  BY DEF TypeOK
<1>2. CASE lost = TRUE
  BY <1>2 DEF Lost
<1>3. CASE lost = FALSE
  <2>1. lost' = (p # 0 /\ pc["worker"].pid = p /\ pc["worker"].at \in {"request", "turn"})
    BY <1>3 DEF Lost
  <2> QED
    BY <1>3, <2>1 DEF Engaged
<1> QED
  BY <1>1, <1>2, <1>3

LEMMA OverlapFits ==
    ASSUME TypeOK, NEW o, Overlaps(o)
    PROVE  /\ overlap' \in BOOLEAN /\ (overlap = TRUE => overlap' = TRUE)
           /\ overlap' = FALSE => overlap = FALSE /\ \A u \in Tasks :
                 pc[u].obj = o => pc[u].at \notin {"spawn", "handshake", "exit", "stopping"}
<1> DEFINE meets == \E u \in Tasks : pc[u].obj = o /\ pc[u].at \in {"spawn", "handshake", "exit",
            "stopping"}
<1>1. overlap = TRUE \/ overlap = FALSE
  BY DEF TypeOK
<1>2. overlap' = (overlap \/ meets)
  BY DEF Overlaps
<1>3. CASE overlap = TRUE
  BY <1>2, <1>3
<1>4. CASE overlap = FALSE
  <2>1. overlap' = meets
    BY <1>2, <1>4
  <2> QED
    BY <1>4, <2>1
<1> QED
  BY <1>1, <1>3, <1>4

\* A step that starts a provider keeps StartsFit, if nobody else was at it.
LEMMA StartsMade ==
    ASSUME StartsFit, NEW t \in Tasks, NEW o \in Providers,
           overlap' = FALSE => overlap = FALSE /\ \A v \in Tasks : ~Starts(v, o),
           \A v \in Tasks, q \in Providers : Starts(v, q)' =>
              \/ v = t /\ q = o
              \/ Starts(v, q) /\ (pc'[v].at # "exit" => pc[v].at # "exit"),
           status'[o] # "ready", ~Closed(o)',
           \A q \in Providers \ {o} :
              (status'[q] = "ready" => status[q] = "ready") /\ (Closed(q)' => Closed(q))
    PROVE  StartsFit'
<1>1. ASSUME NEW q \in Providers, overlap' = FALSE
      PROVE  /\ \A v, u \in Tasks : Starts(v, q)' /\ Starts(u, q)' => v = u
             /\ \A v \in Tasks : Starts(v, q)' => status'[q] # "ready"
             /\ \A v \in Tasks : Starts(v, q)' /\ pc'[v].at # "exit" => ~Closed(q)'
             /\ status'[q] = "ready" => ~Closed(q)'
  <2>1. CASE q = o
    BY <1>1, <2>1
  <2>2. CASE q # o
    <3>1. /\ \A v, u \in Tasks : Starts(v, q) /\ Starts(u, q) => v = u
          /\ \A v \in Tasks : Starts(v, q) => status[q] # "ready"
          /\ \A v \in Tasks : Starts(v, q) /\ pc[v].at # "exit" => ~Closed(q)
          /\ status[q] = "ready" => ~Closed(q)
      BY <1>1 DEF StartsFit, StartFits
    <3> QED
      BY <1>1, <2>2, <3>1
  <2> QED
    BY <2>1, <2>2
<1> QED
  BY <1>1 DEF StartsFit, StartFits

-----------------------------------------------------------------------------
(* What the actions do to what the proof is about: all but lock and faults. *)

\* The process of a start is created.
Spawns(t, p) ==
    /\ pc[t].at = "spawn"
    /\ Unused(p)
    /\ proc' = [proc EXCEPT ![p] = "alive"]
    /\ owner' \in [Slots -> Providers]
    /\ reading' = reading \cup {p}
    /\ work' = [work EXCEPT ![p] = 0]
    /\ process' = [process EXCEPT ![pc[t].obj] = p]
    /\ pc' = [pc EXCEPT ![t] = [at |-> "handshake", obj |-> pc[t].obj, pid |-> p]]
    /\ UNCHANGED <<status, notes, registered, fresh, broken, turn, outcome, finished, lost, overlap>>

\* A start ends without a login, or without a process.
GivesUp(t) ==
    /\ pc[t].at \in {"spawn", "handshake"}
    /\ status' = [status EXCEPT ![pc[t].obj] = "unavailable"]
    /\ pc' = [pc EXCEPT ![t] = [at |-> "idle", obj |-> None, pid |-> 0]]
    /\ outcome' = IF t = "worker" THEN "failed" ELSE outcome
    /\ UNCHANGED <<proc, owner, reading, work, process, notes, registered, fresh, broken, turn,
           finished, lost, overlap>>

\* A start of the poll or of a patch ends with a provider that is ready.
Readies(t) ==
    /\ t # "worker"
    /\ pc[t].at = "handshake"
    /\ Running(pc[t].obj)
    /\ status' = [status EXCEPT ![pc[t].obj] = "ready"]
    /\ pc' = [pc EXCEPT ![t] = [at |-> "idle", obj |-> None, pid |-> 0]]
    /\ UNCHANGED <<proc, owner, reading, work, process, notes, registered, fresh, broken, turn,
           outcome, finished, lost, overlap>>

\* A start of the worker ends with the request for its turn.
ReadiesTurn ==
    /\ pc["worker"].at = "handshake"
    /\ Running(pc["worker"].obj)
    /\ status' = [status EXCEPT ![pc["worker"].obj] = "ready"]
    /\ pc' = [pc EXCEPT !["worker"] = [at |-> "request", obj |-> pc["worker"].obj, pid |->
           process[pc["worker"].obj]]]
    /\ work' = [work EXCEPT ![process[pc["worker"].obj]] = turn]
    /\ UNCHANGED <<proc, owner, reading, process, notes, registered, fresh, broken, turn, outcome,
           finished, lost, overlap>>

\* A start gives up and stops its process.
Fails(t) ==
    /\ pc[t].at = "handshake"
    /\ process' = [process EXCEPT ![pc[t].obj] = 0]
    /\ pc' = [pc EXCEPT ![t] = [at |-> "exit", obj |-> pc[t].obj, pid |-> process[pc[t].obj]]]
    /\ broken' = broken \ {t}
    /\ UNCHANGED <<proc, owner, reading, work, status, notes, registered, fresh, turn, outcome,
           finished, lost, overlap>>

\* The process of a start that has failed has ended.
Stopped(t) ==
    /\ pc[t].at = "exit"
    /\ Ended(pc[t].pid)
    /\ broken \subseteq broken' /\ broken' \subseteq Tasks
    /\ status' = [status EXCEPT ![pc[t].obj] = "error"]
    /\ pc' = [pc EXCEPT ![t] = [at |-> "idle", obj |-> None, pid |-> 0]]
    /\ outcome' = IF t = "worker" THEN "failed" ELSE outcome
    /\ UNCHANGED <<work, process, notes, registered, fresh, turn, finished, overlap>>

\* The poll starts a provider that does not run.
PollStarts(o) ==
    /\ pc["poll"].at \in {"idle", "lock"}
    /\ o \notin fresh
    /\ ~Running(o)
    /\ status' = [status EXCEPT ![o] = "starting"]
    /\ notes' = [notes EXCEPT ![o] = <<>>]
    /\ pc' = [pc EXCEPT !["poll"] = [at |-> "spawn", obj |-> o, pid |-> 0]]
    /\ Overlaps(o)
    /\ UNCHANGED <<proc, owner, reading, work, process, registered, fresh, broken, turn, outcome,
           finished, lost>>

\* The worker starts a provider that does not run.
TurnStarts(o) ==
    /\ pc["worker"].at = "idle"
    /\ o \notin fresh
    /\ ~Running(o)
    /\ status' = [status EXCEPT ![o] = "starting"]
    /\ notes' = [notes EXCEPT ![o] = <<>>]
    /\ pc' = [pc EXCEPT !["worker"] = [at |-> "spawn", obj |-> o, pid |-> 0]]
    /\ Overlaps(o)
    /\ turn' = turn + 1 /\ finished' = FALSE /\ lost' = FALSE /\ outcome' = "none"
    /\ UNCHANGED <<proc, owner, reading, work, process, registered, fresh, broken>>

\* The worker sends a turn to a provider that is ready.
TurnGoes(o) ==
    /\ pc["worker"].at = "idle"
    /\ o \notin fresh
    /\ Health(o) = "ready"
    /\ pc' = [pc EXCEPT !["worker"] = [at |-> "request", obj |-> o, pid |-> process[o]]]
    /\ work' = IF process[o] = 0 THEN work ELSE [work EXCEPT ![process[o]] = turn + 1]
    /\ broken' = IF process[o] = 0 THEN broken \cup {"worker"} ELSE broken
    /\ turn' = turn + 1 /\ finished' = FALSE /\ lost' = FALSE /\ outcome' = "none"
    /\ UNCHANGED <<proc, owner, reading, process, status, notes, registered, fresh, overlap>>

\* The provider runs and is not ready: the turn fails.
TurnRefused ==
    /\ pc["worker"].at = "idle"
    /\ turn' = turn + 1 /\ finished' = FALSE /\ lost' = FALSE /\ outcome' = "failed"
    /\ UNCHANGED <<proc, owner, reading, work, process, status, notes, registered, fresh, pc,
           broken, overlap>>

\* The app-server has accepted the turn.
TurnAnswered ==
    /\ pc["worker"].at = "request"
    /\ "worker" \notin broken
    /\ pc' = [pc EXCEPT !["worker"].at = "turn"]
    /\ UNCHANGED <<proc, owner, reading, work, process, status, notes, registered, fresh, broken,
           turn, outcome, finished, lost, overlap>>

\* The turn ends: by a notification, for want of one, or because the request has failed.
TurnEnds(how) ==
    /\ pc["worker"].at \in {"request", "turn"}
    /\ how = "completed" => \E note \in Told(pc["worker"].obj) : note.kind = "completed" /\
           note.turn = turn
    /\ how = "exited" => pc["worker"].at = "turn" /\ Closed(pc["worker"].obj)
    /\ EndTurn(how)
    /\ notes' \in [Providers -> Seq(Notes)] /\ \A q \in Providers : Told(q)' \subseteq Told(q)
    /\ broken \ {"worker"} \subseteq broken' /\ broken' \subseteq broken
    /\ UNCHANGED <<proc, owner, reading, work, process, status, registered, fresh, turn, overlap>>

\* The worker takes a notification that is not of its turn.
NoteSkipped ==
    /\ notes' \in [Providers -> Seq(Notes)] /\ \A q \in Providers : Told(q)' \subseteq Told(q)
    /\ UNCHANGED <<proc, owner, reading, work, process, status, registered, fresh, pc, broken, turn,
           outcome, finished, lost, overlap>>

\* The poll waits for the start lock, or has nothing to do.
PollWaits(at, o) ==
    /\ pc["poll"].at \in {"idle", "lock"}
    /\ at = "lock" => o \in Providers \ fresh
    /\ at = "idle" => o = None
    /\ pc' = [pc EXCEPT !["poll"] = [at |-> at, obj |-> o, pid |-> 0]]
    /\ UNCHANGED <<proc, owner, reading, work, process, status, notes, registered, fresh, broken,
           turn, outcome, finished, lost, overlap>>

\* A patch stops the provider it replaces.
PatchStops ==
    /\ pc["patch"].at = "idle"
    /\ pc["worker"].at = "idle"
    /\ process[registered] # 0
    /\ process' = [process EXCEPT ![registered] = 0]
    /\ pc' = [pc EXCEPT !["patch"] = [at |-> "stopping", obj |-> registered, pid |->
           process[registered]]]
    /\ UNCHANGED <<proc, owner, reading, work, status, notes, registered, fresh, broken, turn,
           outcome, finished, lost, overlap>>

\* A patch replaces a provider without a process.
PatchReplaces(n) ==
    /\ pc["patch"].at = "idle"
    /\ pc["worker"].at = "idle"
    /\ n \in fresh
    /\ process' = [process EXCEPT ![registered] = 0]
    /\ process[registered] = 0
    /\ broken \subseteq broken' /\ broken' \subseteq Tasks
    /\ status' = [status EXCEPT ![registered] = "stopped", ![n] = "starting"]
    /\ pc' = [pc EXCEPT !["patch"] = [at |-> "spawn", obj |-> n, pid |-> 0]]
    /\ registered' = n /\ fresh' = fresh \ {n}
    /\ UNCHANGED <<proc, owner, reading, work, notes, turn, outcome, finished, lost, overlap>>

\* A patch replaces the provider it has stopped.
PatchReplacesStopped(n) ==
    /\ pc["patch"].at = "stopping"
    /\ n \in fresh
    /\ Ended(pc["patch"].pid)
    /\ broken \subseteq broken' /\ broken' \subseteq Tasks
    /\ status' = [status EXCEPT ![pc["patch"].obj] = "stopped", ![n] = "starting"]
    /\ pc' = [pc EXCEPT !["patch"] = [at |-> "spawn", obj |-> n, pid |-> 0]]
    /\ registered' = n /\ fresh' = fresh \ {n}
    /\ work' = [work EXCEPT ![pc["patch"].pid] = 0]
    /\ UNCHANGED <<process, notes, turn, outcome, finished, overlap>>

\* The app-server completes the turn it works on.
TurnCompletes(p) ==
    /\ work[p] # 0
    /\ notes' \in [Providers -> Seq(Notes)]
    /\ \A q \in Providers : Told(q)' \subseteq Told(q) \cup {[kind |-> "completed", turn |-> work[p]]}
    /\ work' = [work EXCEPT ![p] = 0]
    /\ finished' = (finished \/ (work[p] = turn /\ outcome = "none"))
    /\ UNCHANGED <<proc, owner, reading, process, status, registered, fresh, pc, broken, turn,
           outcome, lost, overlap>>

\* A process dies.
Crashes(p) ==
    /\ proc[p] = "alive"
    /\ proc' = [proc EXCEPT ![p] = "dead"]
    /\ work' = [work EXCEPT ![p] = 0]
    /\ lost' = Lost(p)
    /\ UNCHANGED <<owner, reading, process, status, notes, registered, fresh, pc, broken, turn,
           outcome, finished, overlap>>

\* The reader of a process that is nobody's any more ends.
ReaderLeaves ==
    /\ reading' \subseteq Slots
    /\ owner' \in [Slots -> Providers]
    /\ UNCHANGED <<proc, work, process, status, notes, registered, fresh, pc, broken, turn, outcome,
           finished, lost, overlap>>

\* The reader of a provider's process sees the end of its output.
ReaderTells(p, o) ==
    /\ proc[p] = "dead" /\ process[o] = p
    /\ reading' \subseteq Slots
    /\ owner' \in [Slots -> Providers]
    /\ status' = [status EXCEPT ![o] = "error"]
    /\ notes' \in [Providers -> Seq(Notes)]
    /\ \A q \in Providers : q # o => Told(q)' = Told(q)
    /\ Told(o)' \subseteq Told(o) \cup {[kind |-> "closed", turn |-> 0]}
    /\ broken \subseteq broken' /\ broken' \subseteq Tasks
    /\ Overlaps(o)
    /\ UNCHANGED <<proc, work, process, registered, fresh, pc, turn, outcome, finished, lost>>

-----------------------------------------------------------------------------
(* Each of them keeps the invariant.                                       *)

LEMMA SpawnsKeeps ==
    ASSUME IInv, NEW t \in Tasks, NEW p \in Slots, Spawns(t, p)
    PROVE  IInv'
<1> USE NoneIsNoProvider DEF IInv
<1>1. /\ pc[t].at = "spawn" /\ pc[t].obj \in Providers
      /\ Unused(p) /\ p # 0
      /\ \A q \in Slots : proc'[q] = IF q = p THEN "alive" ELSE proc[q]
      /\ \A q \in Providers : process'[q] = IF q = pc[t].obj THEN p ELSE process[q]
      /\ \A q \in Slots : work'[q] = IF q = p THEN 0 ELSE work[q]
      /\ \A u \in Tasks : u # t => pc'[u] = pc[u]
      /\ pc'[t].at = "handshake" /\ pc'[t].obj = pc[t].obj /\ pc'[t].pid = p
      /\ \A q \in Providers : Told(q)' = Told(q)
      /\ UNCHANGED <<status, registered, fresh, broken, turn, outcome, finished, lost, overlap>>
  BY Typed DEF Spawns, TypeOK, TasksFit, TaskFits, Told, Members, Tasks
<1>2. TypeOK'
  BY <1>1 DEF Spawns, TypeOK, Steps, Pids, Statuses, Tasks
<1>3. TasksFit'
  BY Typed, <1>1 DEF TasksFit, TaskFits, InStart
<1>4. ProcessesFit'
  <2>1. ASSUME NEW q \in Providers, process'[q] # 0
        PROVE  /\ proc'[process'[q]] # "free"
               /\ \A u \in Providers : process'[u] = process'[q] => u = q
               /\ \A v \in Tasks : pc'[v].at \in {"exit", "stopping"} => pc'[v].pid # process'[q]
    <3>1. CASE q = pc[t].obj
      BY Typed, <1>1, <2>1, <3>1 DEF Unused
    <3>2. CASE q # pc[t].obj
      <4>1. process'[q] = process[q] /\ process[q] # p /\ process[q] \in Slots
        BY Typed, <1>1, <2>1, <3>2 DEF Unused
      <4>2. ProcessFits(q)
        BY DEF ProcessesFit
      <4>3. \A u \in Providers : process'[u] = process[q] => u = q
        BY <1>1, <4>1, <4>2 DEF ProcessFits
      <4>4. \A v \in Tasks : pc'[v].at \in {"exit", "stopping"} => pc'[v].pid # process[q]
        BY <1>1, <4>1, <4>2 DEF ProcessFits
      <4>5. proc'[process[q]] # "free"
        BY <1>1, <4>1, <4>2 DEF ProcessFits
      <4> QED
        BY <4>1, <4>3, <4>4, <4>5
    <3> QED
      BY <3>1, <3>2
  <2> QED
    BY <2>1 DEF ProcessesFit, ProcessFits
<1>5. FreshOnesFit'
  BY Typed, <1>1, FreshOnesKept DEF FreshOnesFit, FreshFits, Closed
<1>6. TurnsFit'
  BY Typed, <1>1, TurnsKept
<1>7. StartsFit'
  BY Typed, <1>1, StartsKept DEF Starts, InStart, Closed
<1>8. TurnFits'
  <2>1. CASE t = "worker"
    BY Typed, <1>1, <2>1, TurnFree DEF Engaged
  <2>2. CASE t # "worker"
    <3>1. Engaged' => Engaged /\ pc["worker"].pid # p /\ pc["worker"].pid \in Slots
      BY Typed, <1>1, <2>2 DEF Engaged, Unused
    <3>2. Engaged /\ lost = FALSE /\ overlap = FALSE => pc["worker"].obj # pc[t].obj
      BY <1>1 DEF TurnFits, Starts, InStart
    <3>3. \A v \in Tasks, q \in Providers : Starts(v, q)' => Starts(v, q)
      BY <1>1 DEF Starts, InStart
    <3> QED
      BY Typed, <1>1, <2>2, <3>1, <3>2, <3>3, TurnKept DEF Closed
  <2> QED
    BY <2>1, <2>2
<1> QED
  BY <1>2, <1>3, <1>4, <1>5, <1>6, <1>7, <1>8 DEF IInv

LEMMA GivesUpKeeps ==
    ASSUME IInv, NEW t \in Tasks, GivesUp(t)
    PROVE  IInv'
<1> USE NoneIsNoProvider DEF IInv
<1>1. /\ pc[t].at \in {"spawn", "handshake"} /\ pc[t].obj \in Providers
      /\ \A q \in Providers : status'[q] = IF q = pc[t].obj THEN "unavailable" ELSE status[q]
      /\ \A u \in Tasks : u # t => pc'[u] = pc[u]
      /\ pc'[t].at = "idle" /\ pc'[t].obj = None /\ pc'[t].pid = 0
      /\ outcome' = IF t = "worker" THEN "failed" ELSE outcome
      /\ \A q \in Providers : Told(q)' = Told(q)
      /\ UNCHANGED <<proc, work, process, registered, fresh, broken, turn, finished, lost, overlap>>
  BY Typed DEF GivesUp, TypeOK, TasksFit, TaskFits, Told, Members, Tasks
<1>2. TypeOK'
  BY <1>1 DEF GivesUp, TypeOK, Steps, Pids, Statuses, Tasks
<1>3. TasksFit'
  BY Typed, <1>1 DEF TasksFit, TaskFits, InStart
<1>4. ProcessesFit'
  BY Typed, <1>1, ProcessesKept DEF ProcessesFit, ProcessFits
<1>5. FreshOnesFit'
  BY Typed, <1>1, FreshOnesKept DEF FreshOnesFit, FreshFits, Closed
<1>6. TurnsFit'
  <2>1. CASE t = "worker"
    BY Typed, <1>1, <2>1, TurnsKept
  <2>2. CASE t # "worker"
    BY Typed, <1>1, <2>2, TurnsKept
  <2> QED
    BY <2>1, <2>2
<1>7. StartsFit'
  BY Typed, <1>1, StartsKept DEF Starts, InStart, Closed
<1>8. TurnFits'
  <2>1. CASE t = "worker"
    BY Typed, <1>1, <2>1, TurnFree DEF Engaged
  <2>2. CASE t # "worker"
    BY Typed, <1>1, <2>2, TurnKept DEF Engaged, Starts, InStart, Closed
  <2> QED
    BY <2>1, <2>2
<1> QED
  BY <1>2, <1>3, <1>4, <1>5, <1>6, <1>7, <1>8 DEF IInv

LEMMA ReadiesKeeps ==
    ASSUME IInv, NEW t \in Tasks, Readies(t)
    PROVE  IInv'
<1> USE NoneIsNoProvider DEF IInv
<1>1. /\ t # "worker" /\ pc[t].at = "handshake" /\ pc[t].obj \in Providers
      /\ Running(pc[t].obj)
      /\ \A q \in Providers : status'[q] = IF q = pc[t].obj THEN "ready" ELSE status[q]
      /\ \A u \in Tasks : u # t => pc'[u] = pc[u]
      /\ pc'[t].at = "idle" /\ pc'[t].obj = None /\ pc'[t].pid = 0
      /\ \A q \in Providers : Told(q)' = Told(q)
      /\ UNCHANGED <<proc, work, process, registered, fresh, broken, turn, outcome, finished, lost,
             overlap>>
  BY Typed DEF Readies, TypeOK, TasksFit, TaskFits, Told, Members, Tasks
<1>2. TypeOK'
  BY <1>1 DEF Readies, TypeOK, Steps, Pids, Statuses, Tasks
<1>3. TasksFit'
  BY Typed, <1>1 DEF TasksFit, TaskFits, InStart
<1>4. ProcessesFit'
  BY Typed, <1>1, ProcessesKept DEF ProcessesFit, ProcessFits
<1>5. FreshOnesFit'
  BY Typed, <1>1, FreshOnesKept DEF FreshOnesFit, FreshFits, Closed
<1>6. TurnsFit'
  BY Typed, <1>1, TurnsKept
<1>7. StartsFit'
  <2>1. overlap = FALSE => ~Closed(pc[t].obj) /\ \A v \in Tasks : Starts(v, pc[t].obj) => v = t
    BY Typed, <1>1 DEF StartsFit, StartFits, Starts, InStart
  <2>2. \A v \in Tasks, q \in Providers : Starts(v, q)' => Starts(v, q) /\ v # t
    BY Typed, <1>1 DEF Starts, InStart
  <2>3. \A q \in Providers : Closed(q)' => Closed(q)
    BY <1>1 DEF Closed
  <2> QED
    BY Typed, <1>1, <2>1, <2>2, <2>3, StartsKept
<1>8. TurnFits'
  BY Typed, <1>1, TurnKept DEF Engaged, Starts, InStart, Closed
<1> QED
  BY <1>2, <1>3, <1>4, <1>5, <1>6, <1>7, <1>8 DEF IInv

LEMMA ReadiesTurnKeeps ==
    ASSUME IInv, ReadiesTurn
    PROVE  IInv'
<1> USE NoneIsNoProvider DEF IInv
<1>1. /\ pc["worker"].at = "handshake" /\ pc["worker"].obj \in Providers
      /\ Running(pc["worker"].obj)
      /\ \A q \in Providers : status'[q] = IF q = pc["worker"].obj THEN "ready" ELSE status[q]
      /\ \A u \in Tasks : u # "worker" => pc'[u] = pc[u]
      /\ pc'["worker"].at = "request" /\ pc'["worker"].obj = pc["worker"].obj /\ pc'["worker"].pid =
             process[pc["worker"].obj]
      /\ \A q \in Slots : work'[q] = IF q = process[pc["worker"].obj] THEN turn ELSE work[q]
      /\ \A q \in Providers : Told(q)' = Told(q)
      /\ UNCHANGED <<proc, process, registered, fresh, broken, turn, outcome, finished, lost, overlap>>
  <2>1. /\ pc["worker"].at = "handshake" /\ pc["worker"].obj \in Providers
        /\ Running(pc["worker"].obj)
    BY Typed DEF ReadiesTurn, TasksFit, TaskFits
  <2>2. \A q \in Providers : status'[q] = IF q = pc["worker"].obj THEN "ready" ELSE status[q]
    BY <2>1 DEF ReadiesTurn, TypeOK
  <2>3. /\ \A u \in Tasks : u # "worker" => pc'[u] = pc[u]
        /\ pc'["worker"].at = "request" /\ pc'["worker"].obj = pc["worker"].obj
        /\ pc'["worker"].pid = process[pc["worker"].obj]
    BY Typed DEF ReadiesTurn, TypeOK
  <2>4. \A q \in Slots : work'[q] = IF q = process[pc["worker"].obj] THEN turn ELSE work[q]
    BY DEF ReadiesTurn, TypeOK
  <2>5. \A q \in Providers : Told(q)' = Told(q)
    BY DEF ReadiesTurn, Told, Members
  <2> QED
    BY <2>1, <2>2, <2>3, <2>4, <2>5 DEF ReadiesTurn
<1>2. TypeOK'
  <2>1. pc' \in [Tasks -> [at : Steps, obj : Providers \cup {None}, pid : Pids]]
    BY <1>1 DEF ReadiesTurn, TypeOK, Steps
  <2>2. status' \in [Providers -> Statuses] /\ work' \in [Slots -> Nat]
    BY DEF ReadiesTurn, TypeOK, Statuses
  <2> QED
    BY <2>1, <2>2 DEF ReadiesTurn, TypeOK
<1>3. TasksFit'
  BY Typed, <1>1 DEF TasksFit, TaskFits, InStart, Running
<1>4. ProcessesFit'
  BY Typed, <1>1, ProcessesKept DEF ProcessesFit, ProcessFits
<1>5. FreshOnesFit'
  BY Typed, <1>1, FreshOnesKept DEF FreshOnesFit, FreshFits, Closed
<1>6. TurnsFit'
  BY Typed, <1>1, TurnsKept
<1>7. StartsFit'
  <2>1. overlap = FALSE => ~Closed(pc["worker"].obj) /\ \A v \in Tasks : Starts(v, pc["worker"].obj)
              => v = "worker"
    BY Typed, <1>1 DEF StartsFit, StartFits, Starts, InStart
  <2>2. \A v \in Tasks, q \in Providers : Starts(v, q)' => Starts(v, q) /\ v # "worker"
    BY Typed, <1>1 DEF Starts, InStart
  <2>3. \A q \in Providers : Closed(q)' => Closed(q)
    BY <1>1 DEF Closed
  <2> QED
    BY Typed, <1>1, <2>1, <2>2, <2>3, StartsKept
<1>8. TurnFits'
  <2>1. outcome' = "exited" => lost' = TRUE \/ overlap' = TRUE
    BY <1>1 DEF TurnFits
  <2>2. proc'[pc'["worker"].pid] = "alive"
    BY <1>1 DEF Running
  <2>3. overlap' = FALSE => ~Closed(pc["worker"].obj) /\ \A v \in Tasks : Starts(v,
              pc["worker"].obj) => v = "worker"
    BY Typed, <1>1 DEF StartsFit, StartFits, Starts, InStart
  <2>4. \A q \in Providers : Closed(q)' => Closed(q)
    BY <1>1 DEF Closed
  <2>5. \A v \in Tasks, q \in Providers : Starts(v, q)' => Starts(v, q) /\ v # "worker"
    BY Typed, <1>1 DEF Starts, InStart
  <2> QED
    BY <1>1, <2>1, <2>2, <2>3, <2>4, <2>5 DEF TurnFits
<1> QED
  BY <1>2, <1>3, <1>4, <1>5, <1>6, <1>7, <1>8 DEF IInv

LEMMA FailsKeeps ==
    ASSUME IInv, NEW t \in Tasks, Fails(t)
    PROVE  IInv'
<1> USE NoneIsNoProvider DEF IInv
<1>1. /\ pc[t].at = "handshake" /\ pc[t].obj \in Providers
      /\ \A q \in Providers : process'[q] = IF q = pc[t].obj THEN 0 ELSE process[q]
      /\ \A u \in Tasks : u # t => pc'[u] = pc[u]
      /\ pc'[t].at = "exit" /\ pc'[t].obj = pc[t].obj /\ pc'[t].pid = process[pc[t].obj]
      /\ broken' = broken \ {t}
      /\ \A q \in Providers : Told(q)' = Told(q)
      /\ UNCHANGED <<proc, work, status, registered, fresh, turn, outcome, finished, lost, overlap>>
  BY Typed DEF Fails, TypeOK, TasksFit, TaskFits, Told, Members, Tasks
<1>2. TypeOK'
  BY <1>1 DEF Fails, TypeOK, Steps, Pids, Statuses, Tasks
<1>3. TasksFit'
  <2>1. ASSUME NEW v \in Tasks
        PROVE  TaskFits(v)'
    <3>1. CASE v = t
      BY Typed, <1>1, <2>1, <3>1 DEF TasksFit, TaskFits, InStart
    <3>2. CASE v # t
      BY Typed, <1>1, <2>1, <3>2 DEF TasksFit, TaskFits, InStart
    <3> QED
      BY <3>1, <3>2
  <2> QED
    BY <2>1 DEF TasksFit
<1>4. ProcessesFit'
  BY Typed, <1>1, ProcessesKept DEF ProcessesFit, ProcessFits
<1>5. FreshOnesFit'
  BY Typed, <1>1, FreshOnesKept DEF FreshOnesFit, FreshFits, Closed
<1>6. TurnsFit'
  BY Typed, <1>1, TurnsKept
<1>7. StartsFit'
  BY Typed, <1>1, StartsKept DEF Starts, InStart, Closed
<1>8. TurnFits'
  <2>1. CASE t = "worker"
    BY Typed, <1>1, <2>1, TurnFree DEF Engaged
  <2>2. CASE t # "worker"
    <3>1. Engaged /\ lost = FALSE /\ overlap = FALSE => pc["worker"].obj # pc[t].obj
      BY <1>1 DEF TurnFits, Starts, InStart
    <3>2. \A v \in Tasks, q \in Providers : Starts(v, q)' => Starts(v, q)
      BY <1>1 DEF Starts, InStart
    <3> QED
      BY Typed, <1>1, <2>2, <3>1, <3>2, TurnKept DEF Engaged, Closed
  <2> QED
    BY <2>1, <2>2
<1> QED
  BY <1>2, <1>3, <1>4, <1>5, <1>6, <1>7, <1>8 DEF IInv

LEMMA StoppedKeeps ==
    ASSUME IInv, NEW t \in Tasks, Stopped(t)
    PROVE  IInv'
<1> USE NoneIsNoProvider DEF IInv
<1>0. /\ lost' \in BOOLEAN
      /\ lost = TRUE => lost' = TRUE
      /\ lost' = FALSE => lost = FALSE /\ ~(Engaged /\ pc["worker"].pid = pc[t].pid)
  BY LostFits DEF Stopped, Ended
<1>1. /\ pc[t].at = "exit" /\ pc[t].obj \in Providers
      /\ broken \subseteq broken'
      /\ \A q \in Slots : proc'[q] = IF q = pc[t].pid THEN "free" ELSE proc[q]
      /\ \A q \in Providers : status'[q] = IF q = pc[t].obj THEN "error" ELSE status[q]
      /\ \A u \in Tasks : u # t => pc'[u] = pc[u]
      /\ pc'[t].at = "idle" /\ pc'[t].obj = None /\ pc'[t].pid = 0
      /\ outcome' = IF t = "worker" THEN "failed" ELSE outcome
      /\ \A q \in Providers : Told(q)' = Told(q)
      /\ UNCHANGED <<work, process, registered, fresh, turn, finished, overlap>>
  BY Typed DEF Stopped, TypeOK, TasksFit, TaskFits, Ended, Told, Members, Tasks
<1>2. TypeOK'
  <2>1. /\ proc' \in [Slots -> {"free", "alive", "dead"}] /\ owner' \in [Slots -> Providers]
        /\ reading' \subseteq Slots
    BY AppServerAssumption DEF Stopped, Ended, TypeOK
  <2>2. pc' \in [Tasks -> [at : Steps, obj : Providers \cup {None}, pid : Pids]]
    BY Typed DEF Stopped, TypeOK, Idle, Steps, Pids
  <2>3. status' \in [Providers -> Statuses] /\ fresh' \subseteq Providers /\ registered' \in
              Providers /\ broken' \subseteq Tasks
    BY Typed DEF Stopped, TypeOK, Statuses
  <2>4. outcome' \in {"none", "completed", "exited", "failed"}
    BY DEF Stopped, TypeOK
  <2> QED
    BY <1>1, <1>0, <2>1, <2>2, <2>3, <2>4 DEF Stopped, TypeOK
<1>3. TasksFit'
  BY Typed, <1>1, <1>0 DEF TasksFit, TaskFits, InStart
<1>4. ProcessesFit'
  <2>1. \A q \in Providers : process[q] # 0 => process[q] # pc[t].pid /\ proc[process[q]] # "free"
    BY Typed, <1>1 DEF ProcessesFit, ProcessFits
  <2> QED
    BY Typed, <1>1, <1>0, <2>1, ProcessesKept
<1>5. FreshOnesFit'
  BY Typed, <1>1, <1>0, FreshOnesKept DEF FreshOnesFit, FreshFits, Closed
<1>6. TurnsFit'
  <2>1. CASE t = "worker"
    BY Typed, <1>1, <1>0, <2>1, TurnsKept
  <2>2. CASE t # "worker"
    BY Typed, <1>1, <1>0, <2>2, TurnsKept
  <2> QED
    BY <2>1, <2>2
<1>7. StartsFit'
  BY Typed, <1>1, <1>0, StartsKept DEF Starts, InStart, Closed
<1>8. TurnFits'
  <2>1. CASE t = "worker"
    BY Typed, <1>1, <1>0, <2>1, TurnFree DEF Engaged
  <2>2. CASE t # "worker"
    <3>1. Engaged' => Engaged /\ pc["worker"].pid \in Slots
      BY Typed, <1>1, <1>0, <2>2 DEF Engaged
    <3>2. \A v \in Tasks, q \in Providers : Starts(v, q)' => Starts(v, q)
      BY <1>1 DEF Starts, InStart
    <3> QED
      BY Typed, <1>1, <1>0, <2>2, <3>1, <3>2, TurnKept DEF Closed
  <2> QED
    BY <2>1, <2>2
<1> QED
  BY <1>2, <1>3, <1>4, <1>5, <1>6, <1>7, <1>8 DEF IInv

LEMMA PollStartsKeeps ==
    ASSUME IInv, NEW o \in Providers, PollStarts(o)
    PROVE  IInv'
<1> USE NoneIsNoProvider DEF IInv
<1>0. /\ overlap' \in BOOLEAN
      /\ overlap = TRUE => overlap' = TRUE
      /\ overlap' = FALSE => overlap = FALSE /\ \A u \in Tasks : pc[u].obj = o => pc[u].at \notin
             {"spawn", "handshake", "exit", "stopping"}
  BY OverlapFits DEF PollStarts
<1>1. /\ pc["poll"].at \in {"idle", "lock"}
      /\ o \notin fresh /\ ~Running(o)
      /\ \A q \in Providers : status'[q] = IF q = o THEN "starting" ELSE status[q]
      /\ \A q \in Providers : Told(q)' = IF q = o THEN {} ELSE Told(q)
      /\ \A u \in Tasks : u # "poll" => pc'[u] = pc[u]
      /\ pc'["poll"].at = "spawn" /\ pc'["poll"].obj = o /\ pc'["poll"].pid = 0
      /\ UNCHANGED <<proc, work, process, registered, fresh, broken, turn, outcome, finished, lost>>
  BY Typed DEF PollStarts, TypeOK, TasksFit, TaskFits, Told, Members, Tasks
<1>2. TypeOK'
  BY <1>1, <1>0 DEF PollStarts, TypeOK, Steps, Pids, Statuses, Tasks
<1>3. TasksFit'
  BY Typed, <1>1, <1>0 DEF TasksFit, TaskFits, InStart
<1>4. ProcessesFit'
  BY Typed, <1>1, <1>0, ProcessesKept DEF ProcessesFit, ProcessFits
<1>5. FreshOnesFit'
  BY Typed, <1>1, <1>0, FreshOnesKept DEF FreshOnesFit, FreshFits, Closed
<1>6. TurnsFit'
  BY Typed, <1>1, <1>0, TurnsKept
<1>7. StartsFit'
  <2>1. overlap' = FALSE => overlap = FALSE /\ \A v \in Tasks : ~Starts(v, o)
    BY Typed, <1>1, <1>0 DEF Starts, InStart
  <2>2. \A v \in Tasks, q \in Providers : Starts(v, q)' =>
           \/ v = "poll" /\ q = o
           \/ Starts(v, q) /\ (pc'[v].at # "exit" => pc[v].at # "exit")
    BY Typed, <1>1 DEF Starts, InStart
  <2>3. ~Closed(o)' /\ \A q \in Providers \ {o} : Closed(q)' => Closed(q)
    BY <1>1 DEF Closed
  <2>4. status'[o] # "ready" /\ \A q \in Providers \ {o} : status'[q] = "ready" => status[q] = "ready"
    BY Typed, <1>1
  <2>5. "poll" \in Tasks
    BY Typed
  <2> QED
    BY <2>1, <2>2, <2>3, <2>4, <2>5, StartsMade
<1>8. TurnFits'
  <2>1. Engaged /\ lost = FALSE /\ overlap = FALSE => pc["worker"].obj # o
    BY DEF TurnFits, Engaged, PollStarts, Running
  <2>2. Engaged' => Engaged /\ pc'["worker"] = pc["worker"]
    BY Typed, <1>1 DEF Engaged
  <2>3. \A v \in Tasks, q \in Providers : q # o /\ Starts(v, q)' => Starts(v, q)
    BY Typed, <1>1 DEF Starts, InStart
  <2>4. \A q \in Providers : Closed(q)' => Closed(q)
    BY <1>1 DEF Closed
  <2> QED
    BY Typed, <1>1, <1>0, <2>1, <2>2, <2>3, <2>4, TurnKept
<1> QED
  BY <1>2, <1>3, <1>4, <1>5, <1>6, <1>7, <1>8 DEF IInv

LEMMA TurnStartsKeeps ==
    ASSUME IInv, NEW o \in Providers, TurnStarts(o)
    PROVE  IInv'
<1> USE NoneIsNoProvider DEF IInv
<1>0. /\ overlap' \in BOOLEAN
      /\ overlap = TRUE => overlap' = TRUE
      /\ overlap' = FALSE => overlap = FALSE /\ \A u \in Tasks : pc[u].obj = o => pc[u].at \notin
             {"spawn", "handshake", "exit", "stopping"}
  BY OverlapFits DEF TurnStarts
<1>1. /\ pc["worker"].at = "idle"
      /\ o \notin fresh
      /\ turn' = turn + 1 /\ finished' = FALSE /\ lost' = FALSE /\ outcome' = "none"
      /\ \A q \in Providers : status'[q] = IF q = o THEN "starting" ELSE status[q]
      /\ \A q \in Providers : Told(q)' = IF q = o THEN {} ELSE Told(q)
      /\ \A u \in Tasks : u # "worker" => pc'[u] = pc[u]
      /\ pc'["worker"].at = "spawn" /\ pc'["worker"].obj = o /\ pc'["worker"].pid = 0
      /\ UNCHANGED <<proc, work, process, registered, fresh, broken>>
  BY Typed DEF TurnStarts, TypeOK, TasksFit, TaskFits, Told, Members, Tasks
<1>2. TypeOK'
  <2>1. turn' \in Nat /\ finished' \in BOOLEAN /\ lost' \in BOOLEAN
    <3>1. turn \in Nat /\ turn' = turn + 1
      BY <1>1 DEF TypeOK
    <3>2. turn' \in Nat
      BY <3>1
    <3>3. finished' \in BOOLEAN /\ lost' \in BOOLEAN
      BY <1>1, Zenon
    <3> QED
      BY <3>2, <3>3
  <2>2. pc' \in [Tasks -> [at : Steps, obj : Providers \cup {None}, pid : Pids]]
    BY Typed DEF TurnStarts, TypeOK, Steps, Pids
  <2>3. notes' \in [Providers -> Seq(Notes)] /\ status' \in [Providers -> Statuses]
    BY DEF TurnStarts, TypeOK, Statuses
  <2> QED
    BY <1>1, <1>0, <2>1, <2>2, <2>3 DEF TurnStarts, TypeOK
<1>3. TasksFit'
  BY Typed, <1>1, <1>0 DEF TasksFit, TaskFits, InStart
<1>4. ProcessesFit'
  BY Typed, <1>1, <1>0, ProcessesKept DEF ProcessesFit, ProcessFits
<1>5. FreshOnesFit'
  BY Typed, <1>1, <1>0, FreshOnesKept DEF FreshOnesFit, FreshFits, Closed
<1>6. TurnsFit'
  <2>1. \A q \in Providers : Told(q)' \subseteq Told(q)
    BY <1>1
  <2>2. turn' = turn + 1 /\ outcome' = "none"
    BY <1>1
  <2>3. \A p \in Slots : work'[p] \in {work[p], 0, turn + 1}
    BY <1>1
  <2> QED
    BY <2>1, <2>2, <2>3, TurnBegun
<1>7. StartsFit'
  <2>1. overlap' = FALSE => overlap = FALSE /\ \A v \in Tasks : ~Starts(v, o)
    BY Typed, <1>1, <1>0 DEF Starts, InStart
  <2>2. \A v \in Tasks, q \in Providers : Starts(v, q)' =>
           \/ v = "worker" /\ q = o
           \/ Starts(v, q) /\ (pc'[v].at # "exit" => pc[v].at # "exit")
    BY Typed, <1>1 DEF Starts, InStart
  <2>3. ~Closed(o)' /\ \A q \in Providers \ {o} : Closed(q)' => Closed(q)
    BY <1>1 DEF Closed
  <2>4. status'[o] # "ready" /\ \A q \in Providers \ {o} : status'[q] = "ready" => status[q] = "ready"
    BY Typed, <1>1
  <2>5. "worker" \in Tasks
    BY Typed
  <2> QED
    BY <2>1, <2>2, <2>3, <2>4, <2>5, StartsMade
<1>8. TurnFits'
  <2>1. ~Engaged'
    BY <1>1 DEF Engaged
  <2> QED
    BY <1>1, <2>1, TurnFree
<1> QED
  BY <1>2, <1>3, <1>4, <1>5, <1>6, <1>7, <1>8 DEF IInv

LEMMA TurnGoesKeeps ==
    ASSUME IInv, NEW o \in Providers, TurnGoes(o)
    PROVE  IInv'
<1> USE NoneIsNoProvider DEF IInv
<1>1. /\ pc["worker"].at = "idle"
      /\ o \notin fresh
      /\ Health(o) = "ready"
      /\ broken' = IF process[o] = 0 THEN broken \cup {"worker"} ELSE broken
      /\ turn' = turn + 1 /\ finished' = FALSE /\ lost' = FALSE /\ outcome' = "none"
      /\ \A u \in Tasks : u # "worker" => pc'[u] = pc[u]
      /\ pc'["worker"].at = "request" /\ pc'["worker"].obj = o /\ pc'["worker"].pid = process[o]
      /\ \A q \in Slots : work'[q] = IF q = process[o] THEN turn + 1 ELSE work[q]
      /\ \A q \in Providers : Told(q)' = Told(q)
      /\ UNCHANGED <<proc, process, status, registered, fresh, overlap>>
  BY Typed DEF TurnGoes, TypeOK, TasksFit, TaskFits, Told, Members, Tasks
<1>2. TypeOK'
  <2>1. turn' \in Nat /\ finished' \in BOOLEAN /\ lost' \in BOOLEAN
    <3>1. turn \in Nat /\ turn' = turn + 1
      BY <1>1 DEF TypeOK
    <3>2. turn' \in Nat
      BY <3>1
    <3>3. finished' \in BOOLEAN /\ lost' \in BOOLEAN
      BY <1>1, Zenon
    <3> QED
      BY <3>2, <3>3
  <2>2. pc' \in [Tasks -> [at : Steps, obj : Providers \cup {None}, pid : Pids]]
    BY Typed DEF TurnGoes, TypeOK, Steps, Pids
  <2>3. work' \in [Slots -> Nat] /\ broken' \subseteq Tasks
    <3>1. turn + 1 \in Nat
      BY DEF TypeOK
    <3> QED
      BY Typed, <3>1 DEF TurnGoes, TypeOK
  <2> QED
    BY <1>1, <2>1, <2>2, <2>3 DEF TurnGoes, TypeOK
<1>3. TasksFit'
  BY Typed, <1>1 DEF TasksFit, TaskFits, InStart
<1>4. ProcessesFit'
  BY Typed, <1>1, ProcessesKept DEF ProcessesFit, ProcessFits
<1>5. FreshOnesFit'
  BY Typed, <1>1, FreshOnesKept DEF FreshOnesFit, FreshFits, Closed
<1>6. TurnsFit'
  <2>1. \A q \in Providers : Told(q)' \subseteq Told(q)
    BY <1>1
  <2>2. turn' = turn + 1 /\ outcome' = "none"
    BY <1>1
  <2>3. \A p \in Slots : work'[p] \in {work[p], 0, turn + 1}
    BY <1>1
  <2> QED
    BY <2>1, <2>2, <2>3, TurnBegun, Zenon
<1>7. StartsFit'
  BY Typed, <1>1, StartsKept DEF Starts, InStart, Closed
<1>8. TurnFits'
  <2>1. outcome' # "exited"
    BY <1>1
  <2>2. process[o] # 0 => proc[process[o]] = "alive" /\ process[o] \in Slots
    <3>1. process[o] # 0 => proc[process[o]] # "free" /\ proc[process[o]] # "dead"
      BY <1>1 DEF ProcessesFit, ProcessFits, Health
    <3> QED
      BY Typed, <3>1 DEF TypeOK
  <2>3. overlap = FALSE => ~Closed(o) /\ \A v \in Tasks : ~Starts(v, o)
    BY <1>1 DEF StartsFit, StartFits, Health
  <2>4. \A q \in Providers : Closed(q)' => Closed(q)
    BY <1>1 DEF Closed
  <2>5. \A v \in Tasks, q \in Providers : Starts(v, q)' => Starts(v, q)
    BY Typed, <1>1 DEF Starts, InStart
  <2> QED
    BY Typed, <1>1, <2>1, <2>2, <2>3, <2>4, <2>5 DEF TurnFits, Engaged
<1> QED
  BY <1>2, <1>3, <1>4, <1>5, <1>6, <1>7, <1>8 DEF IInv

LEMMA TurnRefusedKeeps ==
    ASSUME IInv, TurnRefused
    PROVE  IInv'
<1> USE NoneIsNoProvider DEF IInv
<1>1. /\ pc["worker"].at = "idle"
      /\ turn' = turn + 1 /\ finished' = FALSE /\ lost' = FALSE /\ outcome' = "failed"
      /\ \A q \in Providers : Told(q)' = Told(q)
      /\ UNCHANGED <<proc, work, process, status, registered, fresh, pc, broken, overlap>>
  BY Typed DEF TurnRefused, TypeOK, TasksFit, TaskFits, Told, Members, Tasks
<1>2. TypeOK'
  <2>1. turn' \in Nat /\ finished' \in BOOLEAN /\ lost' \in BOOLEAN
    <3>1. turn \in Nat /\ turn' = turn + 1
      BY <1>1 DEF TypeOK
    <3>2. turn' \in Nat
      BY <3>1
    <3>3. finished' \in BOOLEAN /\ lost' \in BOOLEAN
      BY <1>1, Zenon
    <3> QED
      BY <3>2, <3>3
  <2> QED
    BY <1>1, <2>1 DEF TurnRefused, TypeOK
<1>3. TasksFit'
  BY Typed, <1>1 DEF TasksFit, TaskFits, InStart
<1>4. ProcessesFit'
  BY Typed, <1>1, ProcessesKept DEF ProcessesFit, ProcessFits
<1>5. FreshOnesFit'
  BY Typed, <1>1, FreshOnesKept DEF FreshOnesFit, FreshFits, Closed
<1>6. TurnsFit'
  BY Typed, <1>1, TurnBegun
<1>7. StartsFit'
  BY Typed, <1>1, StartsKept DEF Starts, InStart, Closed
<1>8. TurnFits'
  <2>1. ~Engaged'
    BY <1>1 DEF Engaged
  <2> QED
    BY <1>1, <2>1, TurnFree
<1> QED
  BY <1>2, <1>3, <1>4, <1>5, <1>6, <1>7, <1>8 DEF IInv

LEMMA TurnAnsweredKeeps ==
    ASSUME IInv, TurnAnswered
    PROVE  IInv'
<1> USE NoneIsNoProvider DEF IInv
<1>1. /\ pc["worker"].at = "request" /\ "worker" \notin broken
      /\ \A u \in Tasks : u # "worker" => pc'[u] = pc[u]
      /\ pc'["worker"].at = "turn" /\ pc'["worker"].obj = pc["worker"].obj /\ pc'["worker"].pid =
             pc["worker"].pid
      /\ \A q \in Providers : Told(q)' = Told(q)
      /\ UNCHANGED <<proc, work, process, status, registered, fresh, broken, turn, outcome,
             finished, lost, overlap>>
  BY Typed DEF TurnAnswered, TypeOK, TasksFit, TaskFits, Told, Members, Tasks
<1>2. TypeOK'
  BY <1>1 DEF TurnAnswered, TypeOK, Steps, Pids, Statuses, Tasks
<1>3. TasksFit'
  BY Typed, <1>1 DEF TasksFit, TaskFits, InStart
<1>4. ProcessesFit'
  BY Typed, <1>1, ProcessesKept DEF ProcessesFit, ProcessFits
<1>5. FreshOnesFit'
  BY Typed, <1>1, FreshOnesKept DEF FreshOnesFit, FreshFits, Closed
<1>6. TurnsFit'
  BY Typed, <1>1, TurnsKept
<1>7. StartsFit'
  BY Typed, <1>1, StartsKept DEF Starts, InStart, Closed
<1>8. TurnFits'
  BY Typed, <1>1, TurnKept DEF Engaged, Starts, InStart, Closed
<1> QED
  BY <1>2, <1>3, <1>4, <1>5, <1>6, <1>7, <1>8 DEF IInv

LEMMA TurnEndsKeeps ==
    ASSUME IInv, NEW how \in {"completed", "exited", "failed"}, TurnEnds(how)
    PROVE  IInv'
<1> USE NoneIsNoProvider DEF IInv
<1>1. /\ pc["worker"].at \in {"request", "turn"}
      /\ how = "completed" => \E note \in Told(pc["worker"].obj) : note.kind = "completed" /\
             note.turn = turn
      /\ how = "exited" => pc["worker"].at = "turn" /\ Closed(pc["worker"].obj)
      /\ \A q \in Providers : Told(q)' \subseteq Told(q)
      /\ broken \ {"worker"} \subseteq broken'
      /\ outcome' = how
      /\ finished' = (finished /\ how = "completed")
      /\ lost' = (lost /\ how = "exited")
      /\ \A u \in Tasks : u # "worker" => pc'[u] = pc[u]
      /\ pc'["worker"].at = "idle" /\ pc'["worker"].obj = None /\ pc'["worker"].pid = 0
      /\ UNCHANGED <<proc, work, process, status, registered, fresh, turn, overlap>>
  BY Typed DEF TurnEnds, TypeOK, TasksFit, TaskFits, EndTurn, Idle, Tasks
<1>2. TypeOK'
  BY <1>1 DEF TurnEnds, TypeOK, EndTurn, Idle, Steps, Pids, Statuses, Tasks
<1>3. TasksFit'
  BY Typed, <1>1 DEF TasksFit, TaskFits, InStart
<1>4. ProcessesFit'
  BY Typed, <1>1, ProcessesKept DEF ProcessesFit, ProcessFits
<1>5. FreshOnesFit'
  BY Typed, <1>1, FreshOnesKept DEF FreshOnesFit, FreshFits, Closed
<1>6. TurnsFit'
  <2>1. how = "completed" => finished' = TRUE
    <3>1. ASSUME how = "completed" PROVE finished = TRUE
      <4>1. PICK note \in Told(pc["worker"].obj) : note.kind = "completed" /\ note.turn = turn
        BY <1>1, <3>1
      <4>2. pc["worker"].obj \in Providers /\ outcome = "none"
        BY Typed, <1>1 DEF TasksFit, TaskFits, TurnsFit
      <4> QED
        BY <4>1, <4>2 DEF TurnsFit
    <3> QED
      BY <1>1, <3>1
  <2>2. ASSUME NEW p \in Slots PROVE work'[p] <= turn'
    BY <1>1 DEF TurnsFit
  <2>3. ASSUME NEW q \in Providers, NEW note \in Told(q)'
        PROVE  note.turn <= turn'
    BY <1>1, <2>3 DEF TurnsFit
  <2> QED
    BY <1>1, <2>1, <2>2, <2>3 DEF TurnsFit
<1>7. StartsFit'
  BY Typed, <1>1, StartsKept DEF Starts, InStart, Closed
<1>8. TurnFits'
  <2>1. ~Engaged'
    BY <1>1 DEF Engaged
  <2>2. ASSUME how = "exited" PROVE lost' = TRUE \/ overlap = TRUE
    <3>1. Engaged /\ pc["worker"].obj \in Providers /\ Closed(pc["worker"].obj)
      BY Typed, <1>1, <2>2 DEF Engaged, TasksFit, TaskFits
    <3>2. ~(lost = FALSE /\ overlap = FALSE)
      BY <3>1 DEF TurnFits
    <3>3. lost = TRUE \/ overlap = TRUE
      BY <3>2 DEF TypeOK
    <3>4. lost' = lost
      <4>1. lost' = (lost /\ TRUE)
        BY <1>1, <2>2
      <4> QED
        BY <4>1 DEF TypeOK
    <3> QED
      BY <3>3, <3>4
  <2> QED
    BY <1>1, <2>1, <2>2 DEF TurnFits
<1> QED
  BY <1>2, <1>3, <1>4, <1>5, <1>6, <1>7, <1>8 DEF IInv

LEMMA NoteSkippedKeeps ==
    ASSUME IInv, NoteSkipped
    PROVE  IInv'
<1> USE NoneIsNoProvider DEF IInv
<1>1. /\ \A q \in Providers : Told(q)' \subseteq Told(q)
      /\ UNCHANGED <<proc, work, process, status, registered, fresh, pc, broken, turn, outcome,
             finished, lost, overlap>>
  BY Typed DEF NoteSkipped, TypeOK, TasksFit, TaskFits, Tasks
<1>2. TypeOK'
  BY <1>1 DEF NoteSkipped, TypeOK, Steps, Pids, Statuses, Tasks
<1>3. TasksFit'
  BY Typed, <1>1 DEF TasksFit, TaskFits, InStart
<1>4. ProcessesFit'
  BY Typed, <1>1, ProcessesKept DEF ProcessesFit, ProcessFits
<1>5. FreshOnesFit'
  BY Typed, <1>1, FreshOnesKept DEF FreshOnesFit, FreshFits, Closed
<1>6. TurnsFit'
  BY Typed, <1>1, TurnsKept
<1>7. StartsFit'
  BY Typed, <1>1, StartsKept DEF Starts, InStart, Closed
<1>8. TurnFits'
  BY Typed, <1>1, TurnKept DEF Engaged, Starts, InStart, Closed
<1> QED
  BY <1>2, <1>3, <1>4, <1>5, <1>6, <1>7, <1>8 DEF IInv

LEMMA PollWaitsKeeps ==
    ASSUME IInv, NEW at \in {"idle", "lock"}, NEW o \in Providers \cup {None}, PollWaits(at, o)
    PROVE  IInv'
<1> USE NoneIsNoProvider DEF IInv
<1>1. /\ pc["poll"].at \in {"idle", "lock"}
      /\ at = "lock" => o \in Providers \ fresh
      /\ at = "idle" => o = None
      /\ \A u \in Tasks : u # "poll" => pc'[u] = pc[u]
      /\ pc'["poll"].at = at /\ pc'["poll"].obj = o /\ pc'["poll"].pid = 0
      /\ \A q \in Providers : Told(q)' = Told(q)
      /\ UNCHANGED <<proc, work, process, status, registered, fresh, broken, turn, outcome,
             finished, lost, overlap>>
  BY Typed DEF PollWaits, TypeOK, TasksFit, TaskFits, Told, Members, Tasks
<1>2. TypeOK'
  BY <1>1 DEF PollWaits, TypeOK, Steps, Pids, Statuses, Tasks
<1>3. TasksFit'
  BY Typed, <1>1 DEF TasksFit, TaskFits, InStart
<1>4. ProcessesFit'
  BY Typed, <1>1, ProcessesKept DEF ProcessesFit, ProcessFits
<1>5. FreshOnesFit'
  BY Typed, <1>1, FreshOnesKept DEF FreshOnesFit, FreshFits, Closed
<1>6. TurnsFit'
  BY Typed, <1>1, TurnsKept
<1>7. StartsFit'
  BY Typed, <1>1, StartsKept DEF Starts, InStart, Closed
<1>8. TurnFits'
  BY Typed, <1>1, TurnKept DEF Engaged, Starts, InStart, Closed
<1> QED
  BY <1>2, <1>3, <1>4, <1>5, <1>6, <1>7, <1>8 DEF IInv

LEMMA PatchStopsKeeps ==
    ASSUME IInv, PatchStops
    PROVE  IInv'
<1> USE NoneIsNoProvider DEF IInv
<1>1. /\ pc["patch"].at = "idle" /\ pc["worker"].at = "idle"
      /\ process[registered] # 0
      /\ \A q \in Providers : process'[q] = IF q = registered THEN 0 ELSE process[q]
      /\ \A u \in Tasks : u # "patch" => pc'[u] = pc[u]
      /\ pc'["patch"].at = "stopping" /\ pc'["patch"].obj = registered /\ pc'["patch"].pid =
             process[registered]
      /\ \A q \in Providers : Told(q)' = Told(q)
      /\ UNCHANGED <<proc, work, status, registered, fresh, broken, turn, outcome, finished, lost,
             overlap>>
  BY Typed DEF PatchStops, TypeOK, TasksFit, TaskFits, Told, Members, Tasks
<1>2. TypeOK'
  BY <1>1 DEF PatchStops, TypeOK, Steps, Pids, Statuses, Tasks
<1>3. TasksFit'
  BY Typed, <1>1 DEF TasksFit, TaskFits, InStart
<1>4. ProcessesFit'
  BY Typed, <1>1, ProcessesKept DEF ProcessesFit, ProcessFits
<1>5. FreshOnesFit'
  BY Typed, <1>1, FreshOnesKept DEF FreshOnesFit, FreshFits, Closed
<1>6. TurnsFit'
  BY Typed, <1>1, TurnsKept
<1>7. StartsFit'
  BY Typed, <1>1, StartsKept DEF Starts, InStart, Closed
<1>8. TurnFits'
  BY Typed, <1>1, TurnKept DEF Engaged, Starts, InStart, Closed
<1> QED
  BY <1>2, <1>3, <1>4, <1>5, <1>6, <1>7, <1>8 DEF IInv

LEMMA PatchReplacesKeeps ==
    ASSUME IInv, NEW n \in Providers, PatchReplaces(n)
    PROVE  IInv'
<1> USE NoneIsNoProvider DEF IInv
<1>1. /\ pc["patch"].at = "idle" /\ pc["worker"].at = "idle"
      /\ n \in fresh
      /\ broken \subseteq broken'
      /\ \A q \in Providers : process'[q] = process[q]
      /\ \A q \in Providers : status'[q] = IF q = n THEN "starting" ELSE IF q = registered THEN
             "stopped" ELSE status[q]
      /\ registered' = n /\ fresh' = fresh \ {n}
      /\ \A u \in Tasks : u # "patch" => pc'[u] = pc[u]
      /\ pc'["patch"].at = "spawn" /\ pc'["patch"].obj = n /\ pc'["patch"].pid = 0
      /\ \A q \in Providers : Told(q)' = Told(q)
      /\ UNCHANGED <<proc, work, turn, outcome, finished, lost, overlap>>
  BY Typed DEF PatchReplaces, TypeOK, TasksFit, TaskFits, Told, Members, Tasks
<1>2. TypeOK'
  BY <1>1 DEF PatchReplaces, TypeOK, Steps, Pids, Statuses, Tasks
<1>3. TasksFit'
  BY Typed, <1>1 DEF TasksFit, TaskFits, InStart
<1>4. ProcessesFit'
  BY Typed, <1>1, ProcessesKept DEF ProcessesFit, ProcessFits
<1>5. FreshOnesFit'
  BY Typed, <1>1, FreshOnesKept DEF FreshOnesFit, FreshFits, Closed
<1>6. TurnsFit'
  BY Typed, <1>1, TurnsKept
<1>7. StartsFit'
  <2>1. overlap' = FALSE => overlap = FALSE /\ \A v \in Tasks : ~Starts(v, n)
    BY Typed, <1>1 DEF FreshOnesFit, FreshFits, Starts
  <2>2. \A v \in Tasks, q \in Providers : Starts(v, q)' =>
           \/ v = "patch" /\ q = n
           \/ Starts(v, q) /\ (pc'[v].at # "exit" => pc[v].at # "exit")
    BY Typed, <1>1 DEF Starts, InStart
  <2>3. ~Closed(n)' /\ \A q \in Providers \ {n} : Closed(q)' => Closed(q)
    BY <1>1 DEF Closed, FreshOnesFit, FreshFits
  <2>4. status'[n] # "ready" /\ \A q \in Providers \ {n} : status'[q] = "ready" => status[q] = "ready"
    BY Typed, <1>1
  <2>5. "patch" \in Tasks
    BY Typed
  <2> QED
    BY <2>1, <2>2, <2>3, <2>4, <2>5, StartsMade
<1>8. TurnFits'
  BY Typed, <1>1, TurnKept DEF Engaged, Starts, InStart, Closed
<1> QED
  BY <1>2, <1>3, <1>4, <1>5, <1>6, <1>7, <1>8 DEF IInv

LEMMA PatchReplacesStoppedKeeps ==
    ASSUME IInv, NEW n \in Providers, PatchReplacesStopped(n)
    PROVE  IInv'
<1> USE NoneIsNoProvider DEF IInv
<1>0. /\ lost' \in BOOLEAN
      /\ lost = TRUE => lost' = TRUE
      /\ lost' = FALSE => lost = FALSE /\ ~(Engaged /\ pc["worker"].pid = pc["patch"].pid)
  BY LostFits DEF PatchReplacesStopped, Ended
<1>1. /\ pc["patch"].at = "stopping" /\ pc["patch"].obj \in Providers
      /\ n \in fresh
      /\ broken \subseteq broken'
      /\ \A q \in Slots : proc'[q] = IF q = pc["patch"].pid THEN "free" ELSE proc[q]
      /\ \A q \in Providers : status'[q] = IF q = n THEN "starting" ELSE IF q = pc["patch"].obj THEN
             "stopped" ELSE status[q]
      /\ registered' = n /\ fresh' = fresh \ {n}
      /\ \A u \in Tasks : u # "patch" => pc'[u] = pc[u]
      /\ pc'["patch"].at = "spawn" /\ pc'["patch"].obj = n /\ pc'["patch"].pid = 0
      /\ \A q \in Slots : work'[q] = IF q = pc["patch"].pid THEN 0 ELSE work[q]
      /\ \A q \in Providers : Told(q)' = Told(q)
      /\ UNCHANGED <<process, turn, outcome, finished, overlap>>
  BY Typed DEF PatchReplacesStopped, TypeOK, TasksFit, TaskFits, Ended, Told, Members, Tasks
<1>2. TypeOK'
  <2>1. /\ proc' \in [Slots -> {"free", "alive", "dead"}] /\ owner' \in [Slots -> Providers]
        /\ reading' \subseteq Slots /\ work' \in [Slots -> Nat]
    BY AppServerAssumption DEF PatchReplacesStopped, Ended, TypeOK
  <2>2. pc' \in [Tasks -> [at : Steps, obj : Providers \cup {None}, pid : Pids]]
    BY Typed DEF PatchReplacesStopped, TypeOK, Idle, Steps, Pids
  <2>3. status' \in [Providers -> Statuses] /\ fresh' \subseteq Providers /\ registered' \in
              Providers /\ broken' \subseteq Tasks
    BY Typed DEF PatchReplacesStopped, TypeOK, Statuses
  <2>4. outcome' \in {"none", "completed", "exited", "failed"}
    BY DEF PatchReplacesStopped, TypeOK
  <2> QED
    BY <1>1, <1>0, <2>1, <2>2, <2>3, <2>4 DEF PatchReplacesStopped, TypeOK
<1>3. TasksFit'
  BY Typed, <1>1, <1>0 DEF TasksFit, TaskFits, InStart
<1>4. ProcessesFit'
  <2>1. \A q \in Providers : process[q] # 0 => process[q] # pc["patch"].pid /\ proc[process[q]] #
              "free"
    BY Typed, <1>1 DEF ProcessesFit, ProcessFits
  <2> QED
    BY Typed, <1>1, <1>0, <2>1, ProcessesKept
<1>5. FreshOnesFit'
  BY Typed, <1>1, <1>0, FreshOnesKept DEF FreshOnesFit, FreshFits, Closed
<1>6. TurnsFit'
  BY Typed, <1>1, <1>0, TurnsKept
<1>7. StartsFit'
  <2>1. overlap' = FALSE => overlap = FALSE /\ \A v \in Tasks : ~Starts(v, n)
    BY Typed, <1>1 DEF FreshOnesFit, FreshFits, Starts
  <2>2. \A v \in Tasks, q \in Providers : Starts(v, q)' =>
           \/ v = "patch" /\ q = n
           \/ Starts(v, q) /\ (pc'[v].at # "exit" => pc[v].at # "exit")
    BY Typed, <1>1 DEF Starts, InStart
  <2>3. ~Closed(n)' /\ \A q \in Providers \ {n} : Closed(q)' => Closed(q)
    BY <1>1 DEF Closed, FreshOnesFit, FreshFits
  <2>4. status'[n] # "ready" /\ \A q \in Providers \ {n} : status'[q] = "ready" => status[q] = "ready"
    BY Typed, <1>1
  <2>5. "patch" \in Tasks
    BY Typed
  <2> QED
    BY <2>1, <2>2, <2>3, <2>4, <2>5, StartsMade
<1>8. TurnFits'
  <2>1. Engaged' => Engaged /\ pc'["worker"] = pc["worker"] /\ pc["worker"].pid \in Slots
    BY Typed, <1>1 DEF Engaged
  <2>2. pc["worker"].obj # n
    BY Typed, <1>1 DEF FreshOnesFit, FreshFits
  <2>3. \A v \in Tasks, q \in Providers : q # n /\ Starts(v, q)' => Starts(v, q)
    BY Typed, <1>1 DEF Starts, InStart
  <2>4. \A q \in Providers : Closed(q)' => Closed(q)
    BY <1>1 DEF Closed
  <2> QED
    BY Typed, <1>1, <1>0, <2>1, <2>2, <2>3, <2>4, TurnKept
<1> QED
  BY <1>2, <1>3, <1>4, <1>5, <1>6, <1>7, <1>8 DEF IInv

LEMMA TurnCompletesKeeps ==
    ASSUME IInv, NEW p \in Slots, TurnCompletes(p)
    PROVE  IInv'
<1> USE NoneIsNoProvider DEF IInv
<1>1. /\ \A q \in Providers : Told(q)' \subseteq Told(q) \cup {[kind |-> "completed", turn |->
            work[p]]}
      /\ \A q \in Slots : work'[q] = IF q = p THEN 0 ELSE work[q]
      /\ finished' = (finished \/ (work[p] = turn /\ outcome = "none"))
      /\ UNCHANGED <<proc, process, status, registered, fresh, pc, broken, turn, outcome, lost,
             overlap>>
  BY Typed DEF TurnCompletes, TypeOK, TasksFit, TaskFits, Tasks
<1>2. TypeOK'
  BY <1>1 DEF TurnCompletes, TypeOK, Steps, Pids, Statuses, Tasks
<1>3. TasksFit'
  BY Typed, <1>1 DEF TasksFit, TaskFits, InStart
<1>4. ProcessesFit'
  BY Typed, <1>1, ProcessesKept DEF ProcessesFit, ProcessFits
<1>5. FreshOnesFit'
  BY Typed, <1>1, FreshOnesKept DEF FreshOnesFit, FreshFits, Closed
<1>6. TurnsFit'
  <2>1. /\ work[p] = turn /\ outcome = "none" => finished' = TRUE
        /\ finished = TRUE => finished' = TRUE
    BY <1>1
  <2>2. \A q \in Slots : work'[q] <= turn'
    BY <1>1 DEF TurnsFit, TypeOK
  <2>3. ASSUME NEW q \in Providers, NEW note \in Told(q)'
        PROVE  /\ note.turn <= turn'
               /\ note.kind = "completed" /\ note.turn = turn' /\ outcome' = "none" => finished' = TRUE
    <3>1. CASE note \in Told(q)
      BY <1>1, <2>1, <3>1 DEF TurnsFit
    <3>2. CASE note = [kind |-> "completed", turn |-> work[p]]
      BY <1>1, <2>1, <3>2 DEF TurnsFit
    <3> QED
      BY <1>1, <2>3, <3>1, <3>2
  <2> QED
    BY <1>1, <2>1, <2>2, <2>3 DEF TurnsFit
<1>7. StartsFit'
  <2>1. \A q \in Providers : Closed(q)' => Closed(q)
    BY <1>1 DEF Closed
  <2>2. \A v \in Tasks, q \in Providers : Starts(v, q)' <=> Starts(v, q)
    BY <1>1 DEF Starts
  <2> QED
    BY Typed, <1>1, <2>1, <2>2, StartsKept
<1>8. TurnFits'
  <2>1. \A q \in Providers : Closed(q)' => Closed(q)
    BY <1>1 DEF Closed
  <2>2. \A v \in Tasks, q \in Providers : Starts(v, q)' <=> Starts(v, q)
    BY <1>1 DEF Starts
  <2> QED
    BY Typed, <1>1, <2>1, <2>2, TurnKept DEF Engaged
<1> QED
  BY <1>2, <1>3, <1>4, <1>5, <1>6, <1>7, <1>8 DEF IInv

LEMMA CrashesKeeps ==
    ASSUME IInv, NEW p \in Slots, Crashes(p)
    PROVE  IInv'
<1> USE NoneIsNoProvider DEF IInv
<1>0. /\ lost' \in BOOLEAN
      /\ lost = TRUE => lost' = TRUE
      /\ lost' = FALSE => lost = FALSE /\ ~(Engaged /\ pc["worker"].pid = p)
  BY LostFits DEF Crashes
<1>1. /\ proc[p] = "alive"
      /\ \A q \in Slots : proc'[q] = IF q = p THEN "dead" ELSE proc[q]
      /\ \A q \in Slots : work'[q] = IF q = p THEN 0 ELSE work[q]
      /\ \A q \in Providers : Told(q)' = Told(q)
      /\ UNCHANGED <<process, status, registered, fresh, pc, broken, turn, outcome, finished, overlap>>
  BY Typed DEF Crashes, TypeOK, TasksFit, TaskFits, Told, Members, Tasks
<1>2. TypeOK'
  BY <1>1, <1>0 DEF Crashes, TypeOK, Steps, Pids, Statuses, Tasks
<1>3. TasksFit'
  BY Typed, <1>1, <1>0 DEF TasksFit, TaskFits, InStart
<1>4. ProcessesFit'
  BY Typed, <1>1, <1>0, ProcessesKept DEF ProcessesFit, ProcessFits
<1>5. FreshOnesFit'
  BY Typed, <1>1, <1>0, FreshOnesKept DEF FreshOnesFit, FreshFits, Closed
<1>6. TurnsFit'
  BY Typed, <1>1, <1>0, TurnsKept
<1>7. StartsFit'
  BY Typed, <1>1, <1>0, StartsKept DEF Starts, InStart, Closed
<1>8. TurnFits'
  BY Typed, <1>1, <1>0, TurnKept DEF Engaged, Starts, InStart, Closed
<1> QED
  BY <1>2, <1>3, <1>4, <1>5, <1>6, <1>7, <1>8 DEF IInv

LEMMA ReaderLeavesKeeps ==
    ASSUME IInv, ReaderLeaves
    PROVE  IInv'
<1> USE NoneIsNoProvider DEF IInv
<1>1. /\ reading' \subseteq Slots
      /\ \A q \in Providers : Told(q)' = Told(q)
      /\ UNCHANGED <<proc, work, process, status, registered, fresh, pc, broken, turn, outcome,
             finished, lost, overlap>>
  BY Typed DEF ReaderLeaves, TypeOK, TasksFit, TaskFits, Told, Members, Tasks
<1>2. TypeOK'
  BY <1>1 DEF ReaderLeaves, TypeOK, Steps, Pids, Statuses, Tasks
<1>3. TasksFit'
  BY Typed, <1>1 DEF TasksFit, TaskFits, InStart
<1>4. ProcessesFit'
  BY Typed, <1>1, ProcessesKept DEF ProcessesFit, ProcessFits
<1>5. FreshOnesFit'
  BY Typed, <1>1, FreshOnesKept DEF FreshOnesFit, FreshFits, Closed
<1>6. TurnsFit'
  BY Typed, <1>1, TurnsKept
<1>7. StartsFit'
  BY Typed, <1>1, StartsKept DEF Starts, InStart, Closed
<1>8. TurnFits'
  BY Typed, <1>1, TurnKept DEF Engaged, Starts, InStart, Closed
<1> QED
  BY <1>2, <1>3, <1>4, <1>5, <1>6, <1>7, <1>8 DEF IInv

LEMMA ReaderTellsKeeps ==
    ASSUME IInv, NEW p \in Slots, NEW o \in Providers, ReaderTells(p, o)
    PROVE  IInv'
<1> USE NoneIsNoProvider DEF IInv
<1>0. /\ overlap' \in BOOLEAN
      /\ overlap = TRUE => overlap' = TRUE
      /\ overlap' = FALSE => overlap = FALSE /\ \A u \in Tasks : pc[u].obj = o => pc[u].at \notin
             {"spawn", "handshake", "exit", "stopping"}
  BY OverlapFits DEF ReaderTells
<1>1. /\ proc[p] = "dead" /\ process[o] = p
      /\ \A q \in Providers : q # o => Told(q)' = Told(q)
      /\ Told(o)' \subseteq Told(o) \cup {[kind |-> "closed", turn |-> 0]}
      /\ broken \subseteq broken'
      /\ \A q \in Providers : status'[q] = IF q = o THEN "error" ELSE status[q]
      /\ UNCHANGED <<proc, work, process, registered, fresh, pc, turn, outcome, finished, lost>>
  BY Typed DEF ReaderTells, TypeOK, TasksFit, TaskFits, Tasks
<1>2. TypeOK'
  BY <1>1, <1>0 DEF ReaderTells, TypeOK, Steps, Pids, Statuses, Tasks
<1>3. TasksFit'
  BY Typed, <1>1, <1>0 DEF TasksFit, TaskFits, InStart
<1>4. ProcessesFit'
  BY Typed, <1>1, <1>0, ProcessesKept DEF ProcessesFit, ProcessFits
<1>5. FreshOnesFit'
  BY Typed, <1>1, <1>0, FreshOnesKept DEF FreshOnesFit, FreshFits, Closed
<1>6. TurnsFit'
  <2>1. ASSUME NEW q \in Providers, NEW note \in Told(q)'
        PROVE  /\ note.turn <= turn'
               /\ note.kind = "completed" /\ note.turn = turn' /\ outcome' = "none" => finished' = TRUE
    <3>1. CASE note \in Told(q)
      BY <1>1, <3>1 DEF TurnsFit
    <3>2. CASE note = [kind |-> "closed", turn |-> 0]
      <4>1. turn \in Nat
        BY DEF TypeOK
      <4> QED
        BY <1>1, <3>2, <4>1
    <3> QED
      BY <1>1, <2>1, <3>1, <3>2
  <2> QED
    BY <1>1, <2>1 DEF TurnsFit
<1>7. StartsFit'
  BY Typed, <1>1, <1>0, StartsKept DEF Starts, InStart, Closed
<1>8. TurnFits'
  <2>1. Engaged /\ lost = FALSE /\ overlap = FALSE => pc["worker"].obj # o
    BY <1>1 DEF TurnFits
  <2>2. \A q \in Providers : q # o /\ Closed(q)' => Closed(q)
    BY <1>1 DEF Closed
  <2>3. \A v \in Tasks, q \in Providers : Starts(v, q)' <=> Starts(v, q)
    BY <1>1 DEF Starts
  <2>4. Engaged' <=> Engaged
    BY <1>1 DEF Engaged
  <2> QED
    BY Typed, <1>1, <1>0, <2>1, <2>2, <2>3, <2>4, TurnKept
<1> QED
  BY <1>2, <1>3, <1>4, <1>5, <1>6, <1>7, <1>8 DEF IInv

-----------------------------------------------------------------------------
(* Every action of the specification is one of them.                       *)

LEMMA StartIsOne ==
    ASSUME IInv, NEW t \in Tasks, Starting(t)
    PROVE  IInv'
<1> USE NoneIsNoProvider
<1>1. /\ pc[t].at # "idle" => pc[t].obj \in Providers
      /\ pc[t].obj \in Providers => process[pc[t].obj] \in Slots \cup {0}
      /\ pc[t].pid \in Slots \cup {0} /\ owner \in [Slots -> Providers]
      /\ broken \subseteq Tasks /\ reading \subseteq Slots
  BY DEF IInv, TypeOK, TasksFit, TaskFits, Pids
<1>2. CASE Spawned(t)
  <2>1. PICK p \in FreeSlots : p = CHOOSE x \in FreeSlots : \A y \in FreeSlots : x <= y
    <3>1. FreeSlots \subseteq Slots /\ FreeSlots # {}
      BY <1>2 DEF FreeSlots, Spawned
    <3> QED
      BY <3>1, LeastSlot
  <2>2. p \in Slots /\ Unused(p)
    BY <2>1 DEF FreeSlots
  <2>3. Spawns(t, p)
    BY <1>1, <1>2, <2>1, <2>2 DEF Spawned, Spawns, At, Goto, registry, turns
  <2> QED
    BY <2>2, <2>3, SpawnsKeeps
<1>3. CASE SpawnFails(t)
  <2>1. GivesUp(t)
    BY <1>3 DEF SpawnFails, GivesUp, AfterStart, At, Idle
  <2> QED
    BY <2>1, GivesUpKeeps
<1>4. ASSUME NEW signedIn \in BOOLEAN, Initialized(t, signedIn)
      PROVE  IInv'
  <2>1. CASE signedIn = FALSE
    <3>1. GivesUp(t)
      BY <1>4, <2>1 DEF Initialized, GivesUp, AfterStart, At, Idle
    <3> QED
      BY <3>1, GivesUpKeeps
  <2>2. CASE signedIn = TRUE /\ t = "worker"
    <3>1. ReadiesTurn
      BY <1>4, <2>2 DEF Initialized, ReadiesTurn, AfterStart, At, Goto
    <3> QED
      BY <3>1, ReadiesTurnKeeps
  <2>3. CASE signedIn = TRUE /\ t # "worker"
    <3>1. Readies(t)
      BY <1>4, <2>3 DEF Initialized, Readies, AfterStart, At, Idle
    <3> QED
      BY <3>1, ReadiesKeeps
  <2> QED
    BY <2>1, <2>2, <2>3
<1>5. CASE StartFails(t)
  <2>1. Fails(t)
    BY <1>5 DEF StartFails, Fails, At, Goto, processes, registry, turns
  <2> QED
    BY <2>1, FailsKeeps
<1>6. CASE StartStopped(t)
  <2>1. broken' = broken \cup Waiting(pc[t].obj) /\ Waiting(pc[t].obj) \subseteq Tasks
    BY <1>6 DEF StartStopped, Waiting
  <2>2. Stopped(t)
    BY <1>1, <1>6, <2>1 DEF StartStopped, Stopped, AfterStart, At, Idle
  <2> QED
    BY <2>2, StoppedKeeps
<1> QED
  BY <1>2, <1>3, <1>4, <1>5, <1>6 DEF Starting

LEMMA WorkIsOne ==
    ASSUME IInv, Working
    PROVE  IInv'
<1> USE NoneIsNoProvider
<1>1. CASE WorkerBegins
  <2>1. registered \in Providers /\ registered \notin fresh
    BY DEF IInv, TypeOK, FreshOnesFit, FreshFits
  <2>2. CASE Health(registered) = "ready"
    <3>1. TurnGoes(registered)
      BY <1>1, <2>1, <2>2 DEF WorkerBegins, TurnGoes, At, Goto, registry
    <3> QED
      BY <2>1, <3>1, TurnGoesKeeps
  <2>3. CASE Health(registered) # "ready" /\ Running(registered)
    <3>1. TurnRefused
      BY <1>1, <2>1, <2>3 DEF WorkerBegins, TurnRefused, At, registry
    <3> QED
      BY <3>1, TurnRefusedKeeps
  <2>4. CASE Health(registered) # "ready" /\ ~Running(registered)
    <3>1. TurnStarts(registered)
      BY <1>1, <2>1, <2>4 DEF WorkerBegins, TurnStarts, EnterStart, At, Goto, registry
    <3> QED
      BY <2>1, <3>1, TurnStartsKeeps
  <2> QED
    BY <2>2, <2>3, <2>4
<1>2. CASE TurnStarted
  <2>1. TurnAnswered
    BY <1>2 DEF TurnStarted, TurnAnswered, At, processes, objects, registry, turns
  <2> QED
    BY <2>1, TurnAnsweredKeeps
<1>3. CASE RequestFails
  <2>1. notes' \in [Providers -> Seq(Notes)] /\ \A q \in Providers : Told(q)' \subseteq Told(q)
    BY <1>3 DEF RequestFails, objects, IInv, TypeOK, Told
  <2>2. TurnEnds("failed")
    BY <1>3, <2>1 DEF RequestFails, TurnEnds, At, processes, objects, registry
  <2> QED
    BY <2>2, TurnEndsKeeps
<1>4. CASE Inactive
  <2>1. notes' \in [Providers -> Seq(Notes)] /\ \A q \in Providers : Told(q)' \subseteq Told(q)
    BY <1>4 DEF Inactive, objects, IInv, TypeOK, Told
  <2>2. TurnEnds("failed")
    BY <1>4, <2>1 DEF Inactive, TurnEnds, At, processes, objects, registry
  <2> QED
    BY <2>2, TurnEndsKeeps
<1>5. CASE TakeNote
  <2> DEFINE o == pc["worker"].obj
             note == Head(notes[o])
  <2>1. o \in Providers /\ notes \in [Providers -> Seq(Notes)] /\ "worker" \in Tasks
    BY <1>5 DEF TakeNote, At, IInv, TypeOK, TasksFit, TaskFits, Tasks
  <2>2. notes[o] \in Seq(Notes) /\ notes[o] # <<>> /\ notes' = [notes EXCEPT ![o] = Tail(notes[o])]
    BY <1>5, <2>1 DEF TakeNote
  <2>3. note \in Told(o) /\ Tail(notes[o]) \in Seq(Notes) /\ Members(Tail(notes[o])) \subseteq Told(o)
    BY <2>2, MembersOf DEF Told
  <2>4. notes' \in [Providers -> Seq(Notes)]
    BY <2>1, <2>2, <2>3
  <2>5. \A q \in Providers : notes'[q] = IF q = o THEN Tail(notes[o]) ELSE notes[q]
    BY <2>1, <2>2
  <2>6. \A q \in Providers : Told(q)' \subseteq Told(q)
    BY <2>3, <2>5 DEF Told
  <2> HIDE DEF o, note
  <2>7. CASE note.kind = "closed"
    <3>1. Closed(o) /\ EndTurn("exited")
      BY <1>5, <2>3, <2>7 DEF TakeNote, Closed, o, note
    <3>2. TurnEnds("exited")
      BY <1>5, <2>4, <2>6, <3>1 DEF TakeNote, TurnEnds, At, processes, registry, o
    <3> QED
      BY <3>2, TurnEndsKeeps
  <2>8. CASE note.kind = "completed" /\ note.turn = turn
    <3>1. EndTurn("completed")
      BY <1>5, <2>8 DEF TakeNote, o, note
    <3>2. TurnEnds("completed")
      BY <1>5, <2>3, <2>4, <2>6, <2>8, <3>1 DEF TakeNote, TurnEnds, At, processes, registry, o
    <3> QED
      BY <3>2, TurnEndsKeeps
  <2>9. CASE ~(note.kind = "closed") /\ ~(note.kind = "completed" /\ note.turn = turn)
    <3>1. UNCHANGED <<pc, outcome, finished, lost>>
      BY <1>5, <2>9 DEF TakeNote, o, note
    <3>2. NoteSkipped
      BY <1>5, <2>4, <2>6, <3>1 DEF TakeNote, NoteSkipped, processes, registry
    <3> QED
      BY <3>2, NoteSkippedKeeps
  <2> QED
    BY <2>7, <2>8, <2>9
<1> QED
  BY <1>1, <1>2, <1>3, <1>4, <1>5 DEF Working

\* What the poll does with the start lock, or without.
LEMMA PollIsOne ==
    ASSUME IInv, Polling
    PROVE  IInv'
<1> USE NoneIsNoProvider
<1>1. ASSUME NEW o \in Providers, o \notin fresh, pc["poll"].at \in {"idle", "lock"},
             HealthUnderLock("poll", o),
             UNCHANGED <<processes, process, registered, fresh, broken, turns>>
      PROVE  IInv'
  <2>1. CASE WantsStart(o) /\ ~Running(o)
    <3>1. PollStarts(o)
      BY <1>1, <2>1 DEF HealthUnderLock, EnterStart, PollStarts, Goto, processes, turns
    <3> QED
      BY <3>1, PollStartsKeeps
  <2>2. CASE ~(WantsStart(o) /\ ~Running(o))
    <3>1. PollWaits("idle", None)
      BY <1>1, <2>2 DEF HealthUnderLock, PollWaits, Idle, processes, turns
    <3> QED
      BY <3>1, PollWaitsKeeps
  <2> QED
    BY <2>1, <2>2
<1>2. CASE PollBegins
  <2>1. registered \in Providers /\ registered \notin fresh
    BY DEF IInv, TypeOK, FreshOnesFit, FreshFits
  <2>2. CASE lock[registered] = None
    BY <1>1, <1>2, <2>1, <2>2 DEF PollBegins, At
  <2>3. CASE lock[registered] # None
    <3>1. PollWaits("lock", registered)
      BY <1>2, <2>1, <2>3 DEF PollBegins, PollWaits, At, Goto, processes, turns
    <3> QED
      BY <2>1, <3>1, PollWaitsKeeps
  <2> QED
    BY <2>2, <2>3
<1>3. CASE PollLocked
  <2>1. pc["poll"].obj \in Providers /\ pc["poll"].obj \notin fresh /\ "poll" \in Tasks
    BY <1>3 DEF PollLocked, At, IInv, TypeOK, TasksFit, TaskFits, FreshOnesFit, FreshFits, Tasks
  <2> QED
    BY <1>1, <1>3, <2>1 DEF PollLocked, At
<1> QED
  BY <1>2, <1>3 DEF Polling

LEMMA PatchIsOne ==
    ASSUME IInv, Patching
    PROVE  IInv'
<1> USE NoneIsNoProvider
<1>1. PICK n \in Providers : PatchBegins(n) \/ PatchStopped(n)
  BY DEF Patching
<1>2. broken \subseteq Tasks /\ \A o : Waiting(o) \subseteq Tasks
  BY DEF IInv, TypeOK, Waiting
<1>3. CASE PatchBegins(n) /\ process[registered] # 0
  <2>1. PatchStops
    BY <1>3 DEF PatchBegins, PatchStops, At, Goto, processes, turns
  <2> QED
    BY <2>1, PatchStopsKeeps
<1>4. CASE PatchBegins(n) /\ process[registered] = 0
  <2>1. PatchReplaces(n)
    BY <1>2, <1>4 DEF PatchBegins, PatchReplaces, Replaced, At, Goto, processes, turns
  <2> QED
    BY <2>1, PatchReplacesKeeps
<1>5. CASE PatchStopped(n)
  <2>1. PatchReplacesStopped(n)
    BY <1>2, <1>5 DEF PatchStopped, PatchReplacesStopped, Replaced, At, Goto
  <2> QED
    BY <2>1, PatchReplacesStoppedKeeps
<1> QED
  BY <1>1, <1>3, <1>4, <1>5

\* What a queue of notifications tells once it has been given another, or is full.
LEMMA QueuedTells ==
    ASSUME TypeOK, NEW o \in Providers, NEW note \in Notes,
           notes' = [notes EXCEPT ![o] = Queued(o, note)]
    PROVE  /\ notes' \in [Providers -> Seq(Notes)]
           /\ \A q \in Providers : q # o => Told(q)' = Told(q)
           /\ Told(o)' \subseteq Told(o) \cup {note}
<1>1. notes \in [Providers -> Seq(Notes)] /\ notes[o] \in Seq(Notes)
  BY DEF TypeOK
<1>2. Queued(o, note) \in Seq(Notes) /\ Members(Queued(o, note)) \subseteq Told(o) \cup {note}
  <2>1. Append(notes[o], note) \in Seq(Notes) /\ Members(Append(notes[o], note)) = Members(notes[o])
              \cup {note}
    BY <1>1, MembersOf
  <2>2. CASE Len(notes[o]) < Capacity
    BY <2>1, <2>2 DEF Queued, Told
  <2>3. CASE ~(Len(notes[o]) < Capacity)
    BY <1>1, <2>3 DEF Queued, Told
  <2> QED
    BY <2>2, <2>3
<1>3. \A q \in Providers : notes'[q] = IF q = o THEN Queued(o, note) ELSE notes[q]
  BY <1>1
<1>4. notes' \in [Providers -> Seq(Notes)]
  BY <1>1, <1>2
<1> QED
  BY <1>2, <1>3, <1>4 DEF Told

LEMMA ProcessIsOne ==
    ASSUME IInv, NEW p \in Slots, Crash(p) \/ Completes(p) \/ ReaderEnds(p)
    PROVE  IInv'
<1> USE NoneIsNoProvider
<1>1. TypeOK /\ owner[p] \in Providers /\ work[p] \in Nat /\ reading \subseteq Slots
      /\ owner \in [Slots -> Providers] /\ broken \subseteq Tasks
  BY DEF IInv, TypeOK
<1>2. CASE Crash(p)
  <2>1. Crashes(p)
    BY <1>2 DEF Crash, Crashes, objects, registry
  <2> QED
    BY <2>1, CrashesKeeps
<1>3. CASE Completes(p)
  <2>1. [kind |-> "completed", turn |-> work[p]] \in Notes
    BY <1>1 DEF Notes
  <2>2. PICK o \in Providers, note \in Notes : o = owner[p] /\ note = [kind |-> "completed", turn
              |-> work[p]]
    BY <1>1, <2>1
  <2>3. notes' = [notes EXCEPT ![o] = Queued(o, note)]
    BY <1>3, <2>2 DEF Completes
  <2>4. /\ notes' \in [Providers -> Seq(Notes)]
        /\ \A q \in Providers : Told(q)' \subseteq Told(q) \cup {note}
    BY <1>1, <2>3, QueuedTells
  <2>5. TurnCompletes(p)
    BY <1>3, <2>2, <2>4 DEF Completes, TurnCompletes, registry
  <2> QED
    BY <2>5, TurnCompletesKeeps
<1>4. CASE ReaderEnds(p) /\ process[owner[p]] = p
  <2>1. PICK o \in Providers : o = owner[p]
    BY <1>1
  <2>2. notes' = [notes EXCEPT ![o] = Queued(o, [kind |-> "closed", turn |-> 0])] /\ [kind |->
              "closed", turn |-> 0] \in Notes
    BY <1>4, <2>1 DEF ReaderEnds, Notes
  <2>3. /\ notes' \in [Providers -> Seq(Notes)]
        /\ \A q \in Providers : q # o => Told(q)' = Told(q)
        /\ Told(o)' \subseteq Told(o) \cup {[kind |-> "closed", turn |-> 0]}
    BY <1>1, <2>2, QueuedTells
  <2>4. broken' = broken \cup Waiting(o) /\ Waiting(o) \subseteq Tasks
    BY <1>4, <2>1 DEF ReaderEnds, Waiting
  <2>5. reading' \subseteq Slots /\ owner' \in [Slots -> Providers]
    BY <1>1, <1>4, AppServerAssumption DEF ReaderEnds
  <2>6. ReaderTells(p, o)
    BY <1>1, <1>4, <2>1, <2>3, <2>4, <2>5 DEF ReaderEnds, ReaderTells, registry, turns
  <2> QED
    BY <2>6, ReaderTellsKeeps
<1>5. CASE ReaderEnds(p) /\ process[owner[p]] # p
  <2>1. reading' \subseteq Slots /\ owner' \in [Slots -> Providers]
    BY <1>1, <1>5, AppServerAssumption DEF ReaderEnds
  <2>2. ReaderLeaves
    BY <1>5, <2>1 DEF ReaderEnds, ReaderLeaves, registry, turns
  <2> QED
    BY <2>2, ReaderLeavesKeeps
<1> QED
  BY <1>2, <1>3, <1>4, <1>5

-----------------------------------------------------------------------------
(* The invariant and the theorem.                                          *)

LEMMA Initially == Init => IInv
<1> SUFFICES ASSUME Init PROVE IInv
  OBVIOUS
<1> USE NoneIsNoProvider
<1>1. TypeOK
  <2>1. /\ proc \in [Slots -> {"free", "alive", "dead"}] /\ owner \in [Slots -> Providers]
        /\ reading \subseteq Slots /\ work \in [Slots -> Nat]
        /\ registered \in Providers /\ fresh \subseteq Providers /\ broken \subseteq Tasks
    BY AppServerAssumption DEF Init
  <2>2. process \in [Providers -> Pids] /\ status \in [Providers -> Statuses]
    BY DEF Init, Pids, Statuses
  <2>3. notes \in [Providers -> Seq(Notes)]
    <3>1. <<>> \in Seq(Notes)
      OBVIOUS
    <3> QED
      BY <3>1 DEF Init
  <2>4. pc \in [Tasks -> [at : Steps, obj : Providers \cup {None}, pid : Pids]]
    <3>1. Idle \in [at : Steps, obj : Providers \cup {None}, pid : Pids]
      BY DEF Idle, Steps, Pids
    <3> QED
      BY <3>1 DEF Init
  <2>5. /\ turn \in Nat /\ outcome \in {"none", "completed", "exited", "failed"}
        /\ finished \in BOOLEAN /\ lost \in BOOLEAN /\ overlap \in BOOLEAN
    BY DEF Init
  <2> QED
    BY <2>1, <2>2, <2>3, <2>4, <2>5 DEF TypeOK
<1>2. \A t \in Tasks : pc[t].at = "idle" /\ pc[t].obj = None /\ pc[t].pid = 0
  BY DEF Init, Idle
<1>3. \A o \in Providers : Told(o) = {} /\ process[o] = 0 /\ status[o] = "stopped"
  <2>1. Members(<<>>) = {}
    BY DEF Members
  <2> QED
    BY <2>1 DEF Init, Told
<1>4. "worker" \in Tasks /\ registered = First /\ fresh = Providers \ {First} /\ outcome = "none" /\
            lost = FALSE
      /\ turn = 0 /\ \A p \in Slots : work[p] = 0
  BY DEF Init, Tasks
<1>5. TasksFit /\ ProcessesFit
  BY <1>2, <1>3 DEF TasksFit, TaskFits, InStart, ProcessesFit, ProcessFits
<1>6. FreshOnesFit
  BY <1>2, <1>3, <1>4 DEF FreshOnesFit, FreshFits, Closed
<1>7. TurnsFit
  <2>1. \A p \in Slots : work[p] <= turn
    BY <1>4
  <2> QED
    BY <1>2, <1>3, <1>4, <2>1 DEF TurnsFit
<1>8. StartsFit
  BY <1>2, <1>3 DEF StartsFit, StartFits, Starts, InStart, Closed
<1>9. TurnFits
  BY <1>2, <1>4 DEF TurnFits, Engaged
<1> QED
  BY <1>1, <1>5, <1>6, <1>7, <1>8, <1>9 DEF IInv

LEMMA NothingMoves ==
    ASSUME IInv, UNCHANGED vars
    PROVE  IInv'
<1>1. /\ proc' = proc /\ owner' = owner /\ reading' = reading /\ work' = work /\ process' = process
      /\ status' = status /\ notes' = notes /\ registered' = registered /\ fresh' = fresh /\ pc' = pc
      /\ broken' = broken /\ turn' = turn /\ outcome' = outcome /\ finished' = finished /\ lost' = lost
      /\ overlap' = overlap
  BY DEF vars, processes, objects, registry, turns
<1>2. TypeOK' /\ TasksFit' /\ ProcessesFit'
  BY <1>1 DEF IInv, TypeOK, TasksFit, TaskFits, ProcessesFit, ProcessFits
<1>3. \A o \in Providers : Closed(o)' = Closed(o) /\ Told(o)' = Told(o)
  BY <1>1 DEF Closed, Told
<1>4. FreshOnesFit' /\ TurnsFit'
  BY <1>1, <1>3 DEF IInv, FreshOnesFit, FreshFits, TurnsFit
<1>5. StartsFit' /\ TurnFits'
  BY <1>1, <1>3 DEF IInv, StartsFit, StartFits, Starts, TurnFits, Engaged
<1> QED
  BY <1>2, <1>4, <1>5 DEF IInv

LEMMA Invariance == Spec => []IInv
<1>1. ASSUME IInv, [Next]_vars
      PROVE  IInv'
  <2>1. CASE UNCHANGED vars
    BY <1>1, <2>1, NothingMoves
  <2>2. ASSUME NEW t \in Tasks, Starting(t)
        PROVE  IInv'
    BY <1>1, <2>2, StartIsOne
  <2>3. CASE Working
    BY <1>1, <2>3, WorkIsOne
  <2>4. CASE Reading
    BY <1>1, <2>4, ProcessIsOne DEF Reading
  <2>5. CASE Polling
    BY <1>1, <2>5, PollIsOne
  <2>6. CASE Patching
    BY <1>1, <2>6, PatchIsOne
  <2>7. ASSUME NEW p \in Slots, Crash(p) \/ Completes(p)
        PROVE  IInv'
    BY <1>1, <2>7, ProcessIsOne
  <2> QED
    BY <1>1, <2>1, <2>2, <2>3, <2>4, <2>5, <2>6, <2>7 DEF Next
<1> QED
  BY <1>1, Initially, PTL DEF Spec

\* Whatever the number of providers, processes, turns and faults: a turn counts as completed
\* only if the app-server has completed that very turn, and as failed with the transport only
\* if its own process was lost - or if starts of the provider had met
\* (app_server.py _notification_for, start, _read_stdout).
THEOREM OutcomesTrue == Spec => []TrueOutcome
<1>1. IInv => TrueOutcome
  BY DEF IInv, TurnsFit, TurnFits, TrueOutcome
<1> QED
  BY <1>1, Invariance, PTL

=============================================================================
