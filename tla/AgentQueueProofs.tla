-------------------------- MODULE AgentQueueProofs --------------------------
(* Proofs about the agent queue, for all values of its constants.          *)
EXTENDS AgentQueue, FiniteSetTheorems, WellFoundedInduction, TLAPS

-----------------------------------------------------------------------------
(* The rows: what steps may do to sessions and numbers.                    *)

Kept == Active \cup Terminal

\* Runs belong to sessions, and a session's thread lives as long as its runs.
Linked == \A r \in Runs :
    /\ runs[r].status # "absent" => runs[r].session \in Sessions
    /\ runs[r].status \in Kept => ThreadOf(r).status = "present"
    /\ runs[r].status = "deleted" => ThreadOf(r).status = "deleted"

\* The clock is ahead of the numbers it hands out.
Bounded ==
    /\ \A r \in Runs : runs[r].seq <= clock /\ runs[r].created <= clock
    /\ \A q \in stamped : q.seq <= clock /\ q.created <= clock

\* A step that neither adds nor deletes rows.
SameRows ==
    /\ \A r \in Runs :
          /\ runs'[r].session = runs[r].session
          /\ runs'[r].seq = runs[r].seq
          /\ runs'[r].created = runs[r].created
          /\ \/ runs'[r].status = runs[r].status
             \/ runs[r].status \in Kept /\ runs'[r].status \in Kept
    /\ \A s \in Sessions : threads'[s].status = threads[s].status
    /\ clock' = clock

\* The steps of the worker, of cancels, of providers, and a restart.
WorkStep ==
    \/ \E r \in Runs : WorkerStep(r) \/ CancelStep(r)
    \/ ProviderStep
    \/ Restart

LEMMA Rows ==
    ASSUME NEW rec \in RunRecord
    PROVE  /\ \A st \in Kept \cup {"deleted"} : [rec EXCEPT !.status = st] \in RunRecord
           /\ [rec EXCEPT !.status = "streaming", !.turn = TRUE] \in RunRecord
BY DEF RunRecord, Kept, Active, InFlight, Terminal

LEMMA NewRow ==
    ASSUME NEW s \in Sessions, NEW n \in Nat, NEW at \in Nat
    PROVE  QueuedRun(s, n, at) \in RunRecord
BY DEF QueuedRun, RunRecord, Active

LEMMA NewThread ==
    ASSUME NEW t \in ThreadRecord
    PROVE  /\ \A r \in Runs : [t EXCEPT !.external = r] \in ThreadRecord
           /\ [t EXCEPT !.status = "present"] \in ThreadRecord
           /\ [status |-> "deleted", external |-> None] \in ThreadRecord
BY DEF ThreadRecord

\* The greatest element of a bounded set of numbers.
LEMMA HighestIs ==
    ASSUME NEW S \in SUBSET Nat, S # {}, NEW b \in Nat, \A n \in S : n <= b
    PROVE  Highest(S) \in S /\ \A m \in S : m <= Highest(S)
<1> DEFINE T == {k \in Nat : \A n \in S : n <= k}
<1>1. T # {} /\ T \subseteq Nat
  OBVIOUS
<1>2. PICK x \in T : \A y \in T : ~ (<<y, x>> \in OpToRel(<, Nat))
  BY <1>1, NatLessThanWellFounded, WFMin
<1>3. \A y \in T : ~ (y < x)
  BY <1>2 DEF OpToRel
<1>4. x \in S
  <2>1. CASE x = 0
    <3>1. PICK n \in S : TRUE
      OBVIOUS
    <3>2. n = 0
      BY <2>1, <3>1
    <3> QED BY <2>1, <3>2
  <2>2. CASE x # 0
    <3>1. x - 1 \in Nat /\ x - 1 < x
      BY <2>2
    <3>2. x - 1 \notin T
      BY <1>3, <3>1
    <3>3. PICK n \in S : ~ (n <= x - 1)
      BY <3>1, <3>2
    <3>4. n <= x
      BY <1>2
    <3>5. n = x
      BY <3>3, <3>4
    <3> QED BY <3>5
  <2> QED BY <2>1, <2>2
<1>5. \E n \in S : \A m \in S : m <= n
  BY <1>4
<1> QED
  BY <1>5 DEF Highest

-----------------------------------------------------------------------------
(* Types.                                                                  *)

LEMMA TypeInit == Init => TypeOK /\ Linked
<1> SUFFICES ASSUME Init PROVE TypeOK /\ Linked
  OBVIOUS
<1>1. [status |-> "absent", session |-> None, seq |-> 0, created |-> 0, turn |-> FALSE]
        \in RunRecord
  BY DEF RunRecord
<1>2. [status |-> "absent", external |-> None] \in ThreadRecord
  BY DEF ThreadRecord
<1>3. runs \in [Runs -> RunRecord] /\ threads \in [Sessions -> ThreadRecord]
  BY <1>1, <1>2 DEF Init
<1>4. TypeOK
  BY <1>3 DEF Init, TypeOK, Steps
<1>5. Linked
  BY DEF Init, Linked, Kept, Active, InFlight, Terminal
<1> QED
  BY <1>4, <1>5

\* The next number of a session is above all the others.
LEMMA NextIs ==
    ASSUME TypeOK, Bounded, NEW s \in Sessions
    PROVE  /\ NextSequence(s) \in Nat \ {0}
           /\ NextSequence(s) <= clock + 1
           /\ \A r \in Of(s) : runs[r].seq < NextSequence(s)
           /\ \/ NextSequence(s) = 1
              \/ \E r \in Of(s) : NextSequence(s) = runs[r].seq + 1
<1> DEFINE S == {0} \cup {runs[r].seq : r \in Of(s)}
<1>1. \A r \in Of(s) : r \in Runs /\ runs[r].seq \in Nat /\ runs[r].seq <= clock
  BY DEF Of, TypeOK, RunRecord, Bounded
<1>2. S \in SUBSET Nat /\ S # {} /\ clock \in Nat /\ \A n \in S : n <= clock
  BY <1>1 DEF TypeOK
<1> DEFINE h == Highest(S)
<1>3. h \in S /\ \A m \in S : m <= h
  BY <1>2, HighestIs
<1>4. NextSequence(s) = h + 1
  BY DEF NextSequence
<1>5. h \in Nat /\ h <= clock /\ \A r \in Of(s) : runs[r].seq <= h
  BY <1>2, <1>3
<1>6. h = 0 \/ \E r \in Of(s) : h = runs[r].seq
  BY <1>3
<1> HIDE DEF h, S
<1> QED
  BY <1>1, <1>2, <1>4, <1>5, <1>6

\* What an end of a run makes of its row is a row.
LEMMA EndTypes ==
    ASSUME TypeOK, NEW r \in Runs
    PROVE  /\ \A st \in Kept \cup {"deleted"} :
                 [runs EXCEPT ![r].status = st] \in [Runs -> RunRecord]
           /\ FailRun(r) \in [Runs -> RunRecord]
           /\ Cancelled(r) \in [Runs -> RunRecord]
           /\ AfterCancel(r) \in [Runs -> RunRecord]
<1>1. \A st \in Kept \cup {"deleted"} : [runs[r] EXCEPT !.status = st] \in RunRecord
  BY Rows DEF TypeOK
<1>2. \A st \in Kept \cup {"deleted"} :
         [runs EXCEPT ![r].status = st] \in [Runs -> RunRecord]
  BY <1>1 DEF TypeOK
<1>3. {"failed", "cancelled"} \subseteq Kept
  BY DEF Kept, Terminal
<1> QED
  BY <1>2, <1>3 DEF TypeOK, FailRun, Cancelled, AfterCancel

LEMMA TypeStep == TypeOK /\ Linked /\ Bounded /\ [Next]_vars => TypeOK'
<1> SUFFICES ASSUME TypeOK, Linked, Bounded, [Next]_vars PROVE TypeOK'
  OBVIOUS
<1> USE DEF requestVars, providerVars
<1>0. /\ Kept \cup {"deleted"} = {"queued", "starting", "streaming", "completed",
                                  "failed", "cancelled", "interrupted", "deleted"}
      /\ None \notin Runs
      /\ Released = [pc |-> "idle", run |-> None, thread |-> None]
  BY AgentQueueAssumption
     DEF AgentQueueAssumption, Kept, Active, InFlight, Terminal, Released
<1>1. ASSUME NEW s \in Sessions, NEW r \in Runs, StartAgent(s, r) PROVE TypeOK'
  <2>1. clock' \in Nat
    BY <1>1 DEF StartAgent, TypeOK
  <2>2. QueuedRun(s, 1, clock') \in RunRecord
    BY <2>1, NewRow
  <2>3. runs' \in [Runs -> RunRecord]
    BY <1>1, <2>2 DEF StartAgent, TypeOK
  <2>4. threads' \in [Sessions -> ThreadRecord]
    BY <1>1, NewThread DEF StartAgent, TypeOK
  <2> QED BY <1>1, <2>1, <2>3, <2>4 DEF StartAgent, TypeOK
<1>2. ASSUME NEW s \in Sessions, EnqueueCheck(s) PROVE TypeOK'
  BY <1>2 DEF EnqueueCheck, TypeOK
<1>3. ASSUME NEW s \in Sessions, EnqueueStamp(s) PROVE TypeOK'
  <2>1. clock' \in Nat \ {0}
    BY <1>3 DEF EnqueueStamp, TypeOK
  <2>2. checked' \in [Sessions -> Nat]
    BY <1>3 DEF EnqueueStamp, TypeOK
  <2>3. NextSequence(s) \in Nat \ {0}
    BY NextIs
  <2>4. stamped' \subseteq Request
    BY <1>3, <2>1, <2>3 DEF EnqueueStamp, TypeOK, Request
  <2> QED BY <1>3, <2>1, <2>2, <2>4 DEF EnqueueStamp, TypeOK
<1>4. ASSUME NEW q \in stamped, NEW r \in Runs, EnqueueInsert(q, r) PROVE TypeOK'
  <2>1. q.session \in Sessions /\ q.seq \in Nat /\ q.created \in Nat
    BY DEF TypeOK, Request
  <2>2. QueuedRun(q.session, q.seq, q.created) \in RunRecord
    BY <2>1, NewRow
  <2> QED BY <1>4, <2>2 DEF EnqueueInsert, TypeOK
<1>5. ASSUME NEW q \in stamped, EnqueueFails(q) PROVE TypeOK'
  BY <1>5 DEF EnqueueFails, TypeOK
<1>6. ASSUME NEW s \in Sessions, DeleteSession(s) PROVE TypeOK'
  <2>1. \A r \in Runs : [runs[r] EXCEPT !.status = "deleted"] \in RunRecord
    BY Rows DEF TypeOK
  <2>2. runs' \in [Runs -> RunRecord]
    BY <1>6, <2>1 DEF DeleteSession, TypeOK
  <2>3. threads' \in [Sessions -> ThreadRecord]
    BY <1>6, NewThread DEF DeleteSession, TypeOK
  <2> QED BY <1>6, <2>2, <2>3 DEF DeleteSession, TypeOK
<1>7. ASSUME NEW r \in Runs, Take(r) PROVE TypeOK'
  <2>1. runs[r].session \in Sessions
    BY <1>7 DEF Take, NextQueued, Queue, Linked
  <2>2. ThreadOf(r).external \in Runs \cup {None}
    BY <2>1 DEF ThreadOf, TypeOK, ThreadRecord
  <2>3. runs' \in [Runs -> RunRecord]
    BY <1>0, <1>7, EndTypes DEF Take
  <2> QED BY <1>0, <1>7, <2>2, <2>3 DEF Take, TypeOK, Steps
<1>8. ASSUME NEW r \in Runs, StartCodex(r) PROVE TypeOK'
  BY <1>8 DEF StartCodex, TypeOK
<1>9. ASSUME NEW r \in Runs, ProviderReady(r) PROVE TypeOK'
  BY <1>0, <1>9 DEF ProviderReady, TypeOK, Steps
<1>10. ASSUME NEW r \in Runs, CreateThread(r) PROVE TypeOK'
  <2>1. threads' \in [Sessions -> ThreadRecord]
    BY <1>10, NewThread DEF CreateThread, TypeOK
  <2>2. worker' \in [pc : Steps, run : Runs \cup {None}, thread : Runs \cup {None}]
        /\ worker'.pc = worker.pc /\ worker'.run = worker.run
    BY <1>10 DEF CreateThread, TypeOK
  <2> QED BY <1>10, <2>1, <2>2 DEF CreateThread, TypeOK
<1>11. ASSUME NEW r \in Runs, ResumeThread(r) PROVE TypeOK'
  <2>1. worker.thread \in Runs
    BY <1>11 DEF ResumeThread, NeedsThread, TypeOK
  <2> QED BY <1>0, <1>11, <2>1 DEF ResumeThread, TypeOK, Steps
<1>12. ASSUME NEW r \in Runs, BeginTurn(r) PROVE TypeOK'
  BY <1>0, <1>12 DEF BeginTurn, TypeOK, Steps
<1>13. ASSUME NEW r \in Runs, Started(r) PROVE TypeOK'
  <2>1. [runs[r] EXCEPT !.status = "streaming", !.turn = TRUE] \in RunRecord
    BY Rows DEF TypeOK
  <2>2. runs' \in [Runs -> RunRecord]
    BY <1>13, <2>1 DEF Started, TypeOK
  <2> QED BY <1>0, <1>13, <2>2 DEF Started, TypeOK, Steps
<1>14. ASSUME NEW r \in Runs, Abandon(r) PROVE TypeOK'
  BY <1>0, <1>14 DEF Abandon, TypeOK, Steps
<1>15. ASSUME NEW r \in Runs, Completed(r) PROVE TypeOK'
  <2>1. threads' \in [Sessions -> ThreadRecord]
    BY <1>15, NewThread DEF Completed, TypeOK
  <2>2. runs' \in [Runs -> RunRecord]
    BY <1>0, <1>15, EndTypes DEF Completed
  <2> QED BY <1>0, <1>15, <2>1, <2>2 DEF Completed, TypeOK, Steps
<1>16. ASSUME NEW r \in Runs, EndsBadly(r) PROVE TypeOK'
  <2>1. runs' \in [Runs -> RunRecord]
    BY <1>0, <1>16, EndTypes DEF EndsBadly
  <2> QED BY <1>0, <1>16, <2>1 DEF EndsBadly, TypeOK, Steps
<1>17. ASSUME NEW r \in Runs, Overflow(r) PROVE TypeOK'
  <2>1. runs' \in [Runs -> RunRecord]
    BY <1>0, <1>17, EndTypes DEF Overflow
  <2> QED BY <1>0, <1>17, <2>1 DEF Overflow, TypeOK, Steps
<1>18. ASSUME NEW r \in Runs, StepFails(r) PROVE TypeOK'
  BY <1>0, <1>18, EndTypes DEF StepFails, TypeOK, Steps
<1>19. ASSUME NEW r \in Runs, TimeOut(r) PROVE TypeOK'
  <2>1. runs' \in [Runs -> RunRecord]
    BY <1>19, EndTypes DEF TimeOut, TypeOK
  <2>2. turns' \in [Runs -> Runs \cup {None}]
    BY <1>19 DEF TimeOut, TypeOK
  <2>3. /\ worker' \in [pc : Steps, run : Runs \cup {None}, thread : Runs \cup {None}]
        /\ worker'.pc = "idle" <=> worker'.run = None
    BY <1>0, <1>19 DEF TimeOut, TypeOK, Steps
  <2> QED BY <1>19, <2>1, <2>2, <2>3 DEF TimeOut, TypeOK
<1>20. ASSUME NEW r \in Runs, InterruptReturns(r) PROVE TypeOK'
  <2>1. runs' \in [Runs -> RunRecord]
    BY <1>20, EndTypes DEF InterruptReturns, TypeOK
  <2>2. turns' \in [Runs -> Runs \cup {None}]
    BY <1>20 DEF InterruptReturns, TypeOK
  <2> QED BY <1>0, <1>20, <2>1, <2>2 DEF InterruptReturns, TypeOK, Steps
<1>21. ASSUME NEW r \in Runs, CancelAtOnce(r) \/ CancelReturns(r) PROVE TypeOK'
  <2>1. runs' \in [Runs -> RunRecord]
    BY <1>21, EndTypes DEF CancelAtOnce, CancelReturns
  <2> QED BY <1>21, <2>1 DEF CancelAtOnce, CancelReturns, TypeOK
<1>22. ASSUME NEW r \in Runs, CancelTurn(r) \/ InterruptLands(r) \/ CancelFails(r)
       PROVE TypeOK'
  BY <1>22 DEF CancelTurn, InterruptLands, CancelFails, TypeOK
<1>23. ASSUME NEW r \in Runs, TurnEnds(r) \/ InactivityTimeout(r) PROVE TypeOK'
  BY <1>23 DEF TurnEnds, InactivityTimeout, SilentOutcome, TypeOK
<1>24. ASSUME CodexDies \/ HealthStartsCodex PROVE TypeOK'
  BY <1>24 DEF CodexDies, HealthStartsCodex, TypeOK
<1>25. ASSUME Restart PROVE TypeOK'
  <2>1. \A r \in Runs : [runs[r] EXCEPT !.status = "interrupted"] \in RunRecord
    BY <1>0, Rows DEF TypeOK
  <2>2. runs' \in [Runs -> RunRecord]
    BY <1>25, <2>1 DEF Restart, TypeOK
  <2> QED BY <1>25, <2>2 DEF Restart, TypeOK, Steps
<1>26. ASSUME UNCHANGED vars PROVE TypeOK'
  BY <1>26 DEF vars, TypeOK
<1> HIDE DEF requestVars, providerVars
<1> QED
  BY <1>1, <1>2, <1>3, <1>4, <1>5, <1>6, <1>7, <1>8, <1>9, <1>10, <1>11, <1>12, <1>13,
     <1>14, <1>15, <1>16, <1>17, <1>18, <1>19, <1>20, <1>21, <1>22, <1>23, <1>24, <1>25,
     <1>26
     DEF Next, RequestStep, WorkerStep, CancelStep, ProviderStep

-----------------------------------------------------------------------------
(* The steps that leave the rows alone.                                    *)

\* The worker, cancels, providers and a restart change a run's status among
\* those of existing runs, and nothing else that the queue goes by.
LEMMA WorkKeepsRows == TypeOK /\ WorkStep => SameRows
<1> SUFFICES ASSUME TypeOK, WorkStep PROVE SameRows
  OBVIOUS
<1> USE DEF requestVars, providerVars
<1>0. /\ {"queued", "starting", "streaming", "completed", "failed", "cancelled",
          "interrupted"} = Kept
      /\ Kept = InFlight \cup {"queued", "completed", "failed", "cancelled", "interrupted"}
      /\ \A r \in Runs : runs[r].status \in Kept \cup {"absent", "deleted"}
      /\ Kept \cap {"absent", "deleted"} = {}
  BY DEF Kept, Active, InFlight, Terminal, TypeOK, RunRecord
<1>a. runs \in [Runs -> RunRecord]
  BY DEF TypeOK
<1>1. ASSUME NEW r \in Runs, NEW st \in Kept, runs[r].status \in Kept,
             runs' = [runs EXCEPT ![r].status = st] \/ runs' = runs,
             UNCHANGED <<threads, clock>>
      PROVE  SameRows
  <2>1. CASE runs' = runs
    BY <1>1, <2>1 DEF SameRows
  <2>2. CASE runs' = [runs EXCEPT ![r].status = st]
    <3>1. /\ \A q \in Runs \ {r} : runs'[q] = runs[q]
          /\ runs'[r] = [runs[r] EXCEPT !.status = st]
      BY <1>a, <2>2
    <3>2. /\ runs'[r].session = runs[r].session
          /\ runs'[r].seq = runs[r].seq
          /\ runs'[r].created = runs[r].created
          /\ runs'[r].status = st
      BY <1>a, <3>1 DEF RunRecord
    <3> QED BY <1>1, <3>1, <3>2 DEF SameRows
  <2> QED BY <1>1, <2>1, <2>2
<1>b. ASSUME NEW r \in Runs, runs' \in {runs, FailRun(r)}, UNCHANGED <<threads, clock>>
      PROVE  SameRows
  <2>1. CASE runs[r].status \in Kept
    BY <1>0, <1>1, <1>b, <2>1 DEF FailRun
  <2>2. CASE runs[r].status \notin Kept
    <3>1. runs' = runs
      BY <1>0, <1>b, <2>2 DEF FailRun
    <3> QED BY <1>b, <3>1 DEF SameRows
  <2> QED BY <2>1, <2>2
<1>2. ASSUME NEW r \in Runs, Take(r) PROVE SameRows
  BY <1>0, <1>1, <1>2 DEF Take, NextQueued, Queue
<1>3. ASSUME NEW r \in Runs, StartCodex(r) \/ ProviderReady(r) \/ ResumeThread(r)
                             \/ BeginTurn(r) \/ Abandon(r)
      PROVE  SameRows
  BY <1>3 DEF StartCodex, ProviderReady, ResumeThread, BeginTurn, Abandon, SameRows
<1>4. ASSUME NEW r \in Runs, CreateThread(r) PROVE SameRows
  BY <1>4 DEF CreateThread, SameRows, TypeOK
<1>5. ASSUME NEW r \in Runs, Started(r) PROVE SameRows
  BY <1>0, <1>5 DEF Started, SameRows, TypeOK
<1>6. ASSUME NEW r \in Runs, Completed(r) PROVE SameRows
  <2>1. runs' = [runs EXCEPT ![r].status = "completed"] /\ clock' = clock
        /\ runs[r].status \in Kept
    BY <1>0, <1>6 DEF Completed
  <2>2. \A s \in Sessions : threads'[s].status = threads[s].status
    BY <1>6 DEF Completed, TypeOK
  <2> QED BY <1>0, <2>1, <2>2 DEF SameRows, TypeOK
<1>7. ASSUME NEW r \in Runs, EndsBadly(r) \/ Overflow(r) PROVE SameRows
  BY <1>0, <1>1, <1>7 DEF EndsBadly, Overflow
<1>8. ASSUME NEW r \in Runs, StepFails(r) PROVE SameRows
  BY <1>b, <1>8 DEF StepFails
<1>9. ASSUME NEW r \in Runs, TimeOut(r) PROVE SameRows
  <2>1. runs' \in {runs, FailRun(r)} /\ UNCHANGED <<threads, clock>>
    BY <1>9 DEF TimeOut
  <2> QED BY <1>b, <2>1
<1>10. ASSUME NEW r \in Runs, InterruptReturns(r) PROVE SameRows
  <2>1. runs' \in {runs, FailRun(r)} /\ UNCHANGED <<threads, clock>>
    BY <1>10 DEF InterruptReturns
  <2> QED BY <1>b, <2>1
<1>11. ASSUME NEW r \in Runs, CancelAtOnce(r) PROVE SameRows
  BY <1>0, <1>1, <1>11 DEF CancelAtOnce, Cancelled
<1>12. ASSUME NEW r \in Runs, CancelReturns(r) PROVE SameRows
  BY <1>0, <1>12 DEF CancelReturns, AfterCancel, Cancelled, SameRows, TypeOK
<1>13. ASSUME NEW r \in Runs, CancelTurn(r) \/ InterruptLands(r) \/ CancelFails(r)
                              \/ TurnEnds(r) \/ InactivityTimeout(r)
       PROVE  SameRows
  BY <1>13 DEF CancelTurn, InterruptLands, CancelFails, TurnEnds, InactivityTimeout,
               SameRows
<1>14. ASSUME CodexDies \/ HealthStartsCodex PROVE SameRows
  BY <1>14 DEF CodexDies, HealthStartsCodex, SameRows
<1>15. ASSUME Restart PROVE SameRows
  BY <1>0, <1>15 DEF Restart, SameRows, TypeOK, Kept
<1> HIDE DEF requestVars, providerVars
<1> QED
  BY <1>2, <1>3, <1>4, <1>5, <1>6, <1>7, <1>8, <1>9, <1>10, <1>11, <1>12, <1>13, <1>14,
     <1>15
     DEF WorkStep, WorkerStep, CancelStep, ProviderStep

\* A restart forgets the requests, the other steps leave them alone.
LEMMA WorkKeepsRequests ==
    WorkStep => \/ UNCHANGED <<checked, stamped>>
                \/ checked' = [s \in Sessions |-> 0] /\ stamped' = {}
<1> SUFFICES ASSUME WorkStep
             PROVE  \/ UNCHANGED <<checked, stamped>>
                    \/ checked' = [s \in Sessions |-> 0] /\ stamped' = {}
  OBVIOUS
<1> USE DEF requestVars
<1>1. ASSUME NEW r \in Runs, WorkerStep(r) PROVE UNCHANGED <<checked, stamped>>
  BY <1>1 DEF WorkerStep, Take, StartCodex, ProviderReady, CreateThread, ResumeThread,
     BeginTurn, Started, Abandon, Completed, EndsBadly, Overflow, StepFails, TimeOut,
     InterruptReturns
<1>2. ASSUME NEW r \in Runs, CancelStep(r) PROVE UNCHANGED <<checked, stamped>>
  BY <1>2 DEF CancelStep, CancelAtOnce, CancelTurn, InterruptLands, CancelReturns,
     CancelFails
<1>3. ASSUME ProviderStep PROVE UNCHANGED <<checked, stamped>>
  BY <1>3 DEF ProviderStep, TurnEnds, InactivityTimeout, CodexDies, HealthStartsCodex
<1>4. ASSUME Restart PROVE checked' = [s \in Sessions |-> 0] /\ stamped' = {}
  BY <1>4 DEF Restart
<1> HIDE DEF requestVars
<1> QED
  BY <1>1, <1>2, <1>3, <1>4 DEF WorkStep

LEMMA SameRowsKeepSets ==
    ASSUME SameRows, NEW s \in Sessions
    PROVE  Of(s)' = Of(s)
BY DEF SameRows, Of, Kept, Active, InFlight, Terminal

LEMMA LinkedStep == TypeOK /\ Linked /\ Bounded /\ [Next]_vars => Linked' /\ Bounded'
<1> SUFFICES ASSUME TypeOK, Linked, Bounded, [Next]_vars PROVE Linked' /\ Bounded'
  OBVIOUS
<1> USE DEF requestVars, providerVars
<1>0. /\ \A r \in Runs : runs[r] \in RunRecord
      /\ \A s \in Sessions : threads[s].status \in {"absent", "present", "deleted"}
      /\ \A r \in Runs : runs[r].status \in Kept \cup {"absent", "deleted"}
      /\ "queued" \in Kept /\ Kept \cap {"absent", "deleted"} = {}
      /\ Kept = Active \cup Terminal
      /\ clock \in Nat
  BY DEF TypeOK, RunRecord, ThreadRecord, Kept, Active, InFlight, Terminal
<1>1. ASSUME NEW s \in Sessions, NEW r \in Runs, StartAgent(s, r)
      PROVE  Linked' /\ Bounded'
  <2>1. runs' = [runs EXCEPT ![r] = QueuedRun(s, 1, clock')] /\ clock' = clock + 1
        /\ stamped' = stamped
    BY <1>1 DEF StartAgent
  <2>2. Linked'
    <3>1. \A q \in Runs : runs[q].status # "absent" => runs[q].session # s
      BY <1>0, <1>1 DEF StartAgent, Linked, ThreadOf
    <3>2. \A t \in Sessions : threads'[t].status = IF t = s THEN "present"
                                                   ELSE threads[t].status
      BY <1>1 DEF StartAgent, TypeOK
    <3> QED BY <1>0, <2>1, <3>1, <3>2 DEF Linked, ThreadOf, QueuedRun, TypeOK
  <2>3. Bounded'
    <3>1. runs'[r].seq = 1 /\ runs'[r].created = clock + 1
      BY <2>1 DEF QueuedRun, TypeOK
    <3>2. \A q \in Runs \ {r} : runs'[q] = runs[q]
      BY <2>1 DEF TypeOK
    <3> QED BY <1>0, <2>1, <3>1, <3>2 DEF Bounded, TypeOK, Request, RunRecord
  <2> QED BY <2>2, <2>3
<1>2. ASSUME NEW s \in Sessions, EnqueueCheck(s) PROVE Linked' /\ Bounded'
  BY <1>2 DEF EnqueueCheck, Linked, Bounded, ThreadOf
<1>3. ASSUME NEW s \in Sessions, EnqueueStamp(s) PROVE Linked' /\ Bounded'
  <2>1. Linked'
    BY <1>3 DEF EnqueueStamp, Linked, ThreadOf
  <2> DEFINE new == [session |-> s, seq |-> NextSequence(s), created |-> clock']
  <2>2. stamped' = stamped \cup {new} /\ clock' = clock + 1 /\ runs' = runs
    BY <1>3 DEF EnqueueStamp
  <2>3. new.seq <= clock' /\ new.created <= clock'
    BY <1>0, <2>2, NextIs
  <2> HIDE DEF new
  <2>4. Bounded'
    BY <1>0, <2>2, <2>3 DEF Bounded, TypeOK, Request, RunRecord
  <2> QED BY <2>1, <2>4
<1>4. ASSUME NEW q \in stamped, NEW r \in Runs, EnqueueInsert(q, r)
      PROVE  Linked' /\ Bounded'
  <2>1. runs' = [runs EXCEPT ![r] = QueuedRun(q.session, q.seq, q.created)]
        /\ UNCHANGED <<threads, clock>> /\ stamped' = stamped \ {q}
        /\ threads[q.session].status = "present" /\ q.session \in Sessions
    BY <1>4 DEF EnqueueInsert, TypeOK, Request
  <2>2. \A p \in Runs \ {r} : runs'[p] = runs[p]
    BY <2>1 DEF TypeOK
  <2>3. runs'[r] = QueuedRun(q.session, q.seq, q.created)
    BY <2>1 DEF TypeOK
  <2>4. Linked'
    BY <1>0, <2>1, <2>2, <2>3 DEF Linked, ThreadOf, QueuedRun
  <2>5. Bounded'
    BY <1>0, <2>1, <2>2, <2>3 DEF Bounded, QueuedRun
  <2> QED BY <2>4, <2>5
<1>5. ASSUME NEW q \in stamped, EnqueueFails(q) PROVE Linked' /\ Bounded'
  BY <1>5 DEF EnqueueFails, Linked, Bounded, ThreadOf
<1>6. ASSUME NEW s \in Sessions, DeleteSession(s) PROVE Linked' /\ Bounded'
  <2>1. \A r \in Runs :
          /\ runs'[r].session = runs[r].session
          /\ runs'[r].seq = runs[r].seq
          /\ runs'[r].created = runs[r].created
          /\ runs'[r].status = IF r \in Of(s) THEN "deleted" ELSE runs[r].status
    BY <1>0, <1>6 DEF DeleteSession, RunRecord
  <2>2. \A t \in Sessions :
          threads'[t].status = IF t = s THEN "deleted" ELSE threads[t].status
    BY <1>6 DEF DeleteSession, TypeOK
  <2>3. Linked'
    BY <1>0, <1>6, <2>1, <2>2 DEF Linked, ThreadOf, Of, DeleteSession
  <2>4. Bounded'
    BY <1>6, <2>1 DEF Bounded, DeleteSession
  <2> QED BY <2>3, <2>4
<1>7. ASSUME WorkStep PROVE Linked' /\ Bounded'
  <2>1. SameRows
    BY <1>7, WorkKeepsRows
  <2>2. stamped' \subseteq stamped
    BY <1>7, WorkKeepsRequests
  <2> QED BY <1>0, <2>1, <2>2 DEF SameRows, Linked, Bounded, ThreadOf
<1>8. ASSUME UNCHANGED vars PROVE Linked' /\ Bounded'
  BY <1>8 DEF vars, Linked, Bounded, ThreadOf
<1> HIDE DEF requestVars, providerVars
<1> QED
  BY <1>1, <1>2, <1>3, <1>4, <1>5, <1>6, <1>7, <1>8 DEF Next, RequestStep, WorkStep

LEMMA RowsAlways == Spec => [](TypeOK /\ Linked /\ Bounded)
<1>1. Init => TypeOK /\ Linked /\ Bounded
  <2>1. Init => Bounded
    BY DEF Init, Bounded
  <2> QED BY <2>1, TypeInit
<1>2. TypeOK /\ Linked /\ Bounded /\ [Next]_vars => (TypeOK /\ Linked /\ Bounded)'
  BY TypeStep, LinkedStep
<1> QED
  BY <1>1, <1>2, PTL DEF Spec

\* The tables, the requests, the worker and the providers are well formed in
\* every state.
THEOREM QueueTypeCorrect == Spec => []TypeOK
BY RowsAlways, PTL

-----------------------------------------------------------------------------
(* The run at work.                                                        *)

\* The worker's run has left the queue and has not ended well; no other run is
\* in flight.
AtWork ==
    /\ worker.run # None =>
          runs[worker.run].status \in InFlight \cup {"cancelled", "failed", "deleted"}
    /\ worker.pc = "overflowed" => runs[worker.run].status \in {"failed", "deleted"}
    /\ InFlightAtWorker

LEMMA AtWorkStep == TypeOK /\ Linked /\ AtWork /\ [Next]_vars => AtWork'
<1> SUFFICES ASSUME TypeOK, Linked, AtWork, [Next]_vars PROVE AtWork'
  OBVIOUS
<1> USE DEF requestVars, providerVars
<1>0. /\ runs \in [Runs -> RunRecord]
      /\ worker \in [pc : Steps, run : Runs \cup {None}, thread : Runs \cup {None}]
      /\ worker.pc = "idle" <=> worker.run = None
      /\ None \notin Runs
      /\ InFlight = {"starting", "streaming"}
      /\ Released = [pc |-> "idle", run |-> None, thread |-> None]
  BY AgentQueueAssumption DEF AgentQueueAssumption, TypeOK, InFlight, Released
<1>a. \A r \in Runs : /\ runs[r] \in RunRecord
                      /\ \A st : /\ [runs EXCEPT ![r].status = st][r].status = st
                                 /\ \A q \in Runs \ {r} :
                                       [runs EXCEPT ![r].status = st][q] = runs[q]
  BY <1>0 DEF RunRecord
\* A run that the worker lets go of has ended, or was ended by another.
<1>b. ASSUME NEW r \in Runs, worker.run = r, worker' = Released,
             \A q \in Runs \ {r} : runs'[q] = runs[q],
             runs'[r].status \notin InFlight
      PROVE  AtWork'
  BY <1>0, <1>b DEF AtWork, InFlightAtWorker
<1>c. ASSUME NEW r \in Runs, worker.run = r, worker' = Released, runs' = FailRun(r)
      PROVE  AtWork'
  <2>1. \A q \in Runs \ {r} : runs'[q] = runs[q]
    BY <1>0, <1>c DEF FailRun
  <2>2. runs'[r].status \notin InFlight
    BY <1>0, <1>a, <1>c DEF FailRun
  <2> QED BY <1>b, <1>c, <2>1, <2>2
\* Rows that are neither at work nor in flight come, change or go.
<1>d. ASSUME worker'.run = worker.run,
             worker'.pc = "overflowed" => worker.pc = "overflowed",
             \A q \in Runs : \/ runs'[q].status = runs[q].status
                             \/ runs[q].status = "absent" /\ runs'[q].status = "queued"
                             \/ runs'[q].status = "deleted"
                             \/ runs'[q].status = "cancelled" /\ runs[q].status = "queued"
                             \/ runs'[q].status = "cancelled" /\ runs[q].status \in InFlight
      PROVE  AtWork'
  BY <1>0, <1>d DEF AtWork, InFlightAtWorker
<1>1. ASSUME NEW s \in Sessions, NEW r \in Runs, StartAgent(s, r) PROVE AtWork'
  <2>1. \A q \in Runs : \/ runs'[q].status = runs[q].status
                        \/ runs[q].status = "absent" /\ runs'[q].status = "queued"
    BY <1>0, <1>1 DEF StartAgent, QueuedRun
  <2> QED BY <1>1, <1>d, <2>1 DEF StartAgent
<1>2. ASSUME NEW q \in stamped, NEW r \in Runs, EnqueueInsert(q, r) PROVE AtWork'
  <2>1. \A p \in Runs : \/ runs'[p].status = runs[p].status
                        \/ runs[p].status = "absent" /\ runs'[p].status = "queued"
    BY <1>0, <1>2 DEF EnqueueInsert, QueuedRun
  <2> QED BY <1>2, <1>d, <2>1 DEF EnqueueInsert
<1>3. ASSUME NEW s \in Sessions, DeleteSession(s) PROVE AtWork'
  <2>1. \A q \in Runs : \/ runs'[q].status = runs[q].status
                        \/ runs'[q].status = "deleted"
    BY <1>a, <1>3 DEF DeleteSession, RunRecord
  <2> QED BY <1>3, <1>d, <2>1 DEF DeleteSession
<1>4. ASSUME NEW s \in Sessions, EnqueueCheck(s) \/ EnqueueStamp(s) PROVE AtWork'
  BY <1>4, <1>d DEF EnqueueCheck, EnqueueStamp
<1>5. ASSUME NEW q \in stamped, EnqueueFails(q) PROVE AtWork'
  BY <1>5, <1>d DEF EnqueueFails
<1>6. ASSUME NEW r \in Runs, Take(r) PROVE AtWork'
  BY <1>0, <1>a, <1>6 DEF Take, AtWork, InFlightAtWorker
<1>7. ASSUME NEW r \in Runs, StartCodex(r) \/ ProviderReady(r) \/ CreateThread(r)
                             \/ BeginTurn(r)
      PROVE  AtWork'
  BY <1>0, <1>7, <1>d DEF StartCodex, ProviderReady, CreateThread, BeginTurn
<1>8. ASSUME NEW r \in Runs, ResumeThread(r) PROVE AtWork'
  <2>1. CASE ThreadOf(r).status = "present"
    BY <1>0, <1>8, <1>d, <2>1 DEF ResumeThread
  <2>2. CASE ThreadOf(r).status # "present"
    <3>1. runs[r].status \notin InFlight
      BY <2>2 DEF Linked, Kept, Active
    <3> QED BY <1>8, <1>b, <2>2, <3>1 DEF ResumeThread
  <2> QED BY <2>1, <2>2
<1>9. ASSUME NEW r \in Runs, Started(r) PROVE AtWork'
  <2>1. runs'[r].status = "streaming" /\ \A q \in Runs \ {r} : runs'[q] = runs[q]
    BY <1>0, <1>a, <1>9 DEF Started, RunRecord
  <2>2. worker'.run = r /\ worker'.pc = "streaming" /\ worker.run = r
    BY <1>0, <1>9 DEF Started
  <2> QED BY <1>0, <2>1, <2>2 DEF AtWork, InFlightAtWorker
<1>10. ASSUME NEW r \in Runs, Abandon(r) PROVE AtWork'
  BY <1>10, <1>b DEF Abandon
<1>11. ASSUME NEW r \in Runs, Completed(r) \/ EndsBadly(r) PROVE AtWork'
  <2>1. PICK st \in {"completed", "failed", "interrupted"} :
          runs' = [runs EXCEPT ![r].status = st]
    BY <1>11 DEF Completed, EndsBadly
  <2>2. runs'[r].status \notin InFlight /\ \A q \in Runs \ {r} : runs'[q] = runs[q]
    BY <1>0, <1>a, <2>1
  <2> QED BY <1>11, <1>b, <2>2 DEF Completed, EndsBadly
<1>12. ASSUME NEW r \in Runs, Overflow(r) PROVE AtWork'
  <2>1. runs'[r].status = "failed" /\ \A q \in Runs \ {r} : runs'[q] = runs[q]
    BY <1>a, <1>12 DEF Overflow
  <2>2. worker'.run = r /\ worker'.pc = "overflowed" /\ worker.run = r
    BY <1>0, <1>12 DEF Overflow
  <2> QED BY <1>0, <2>1, <2>2 DEF AtWork, InFlightAtWorker
<1>13. ASSUME NEW r \in Runs, StepFails(r) PROVE AtWork'
  BY <1>13, <1>c DEF StepFails
<1>14. ASSUME NEW r \in Runs, TimeOut(r) PROVE AtWork'
  <2>1. \/ worker' = Released /\ runs' = FailRun(r)
        \/ worker' = [worker EXCEPT !.pc = "timed_out"] /\ runs' = runs
    BY <1>14 DEF TimeOut
  <2> QED BY <1>0, <1>14, <1>c, <1>d, <2>1 DEF TimeOut
<1>15. ASSUME NEW r \in Runs, InterruptReturns(r) PROVE AtWork'
  <2>1. CASE worker.pc = "timed_out"
    BY <1>15, <1>c, <2>1 DEF InterruptReturns
  <2>2. CASE worker.pc = "overflowed"
    BY <1>0, <1>15, <1>b, <2>2 DEF InterruptReturns, AtWork
  <2> QED BY <1>15, <2>1, <2>2 DEF InterruptReturns
<1>16. ASSUME NEW r \in Runs, CancelAtOnce(r) \/ CancelReturns(r) PROVE AtWork'
  <2>1. \A q \in Runs : \/ runs'[q].status = runs[q].status
                        \/ runs'[q].status = "cancelled" /\ runs[q].status = "queued"
                        \/ runs'[q].status = "cancelled" /\ runs[q].status \in InFlight
    <3>1. \/ runs' = runs
          \/ runs' = Cancelled(r) /\ runs[r].status \in InFlight \cup {"queued"}
      BY <1>16 DEF CancelAtOnce, CancelReturns, AfterCancel
    <3>2. ASSUME runs' = Cancelled(r)
          PROVE  runs'[r].status = "cancelled" /\ \A q \in Runs \ {r} : runs'[q] = runs[q]
      <4>1. \A q \in Runs : runs'[q] = IF q = r THEN [runs[q] EXCEPT !.status = "cancelled"]
                                               ELSE runs[q]
        BY <1>a, <3>2 DEF Cancelled
      <4>2. [runs[r] EXCEPT !.status = "cancelled"].status = "cancelled"
        BY <1>a DEF RunRecord
      <4> QED BY <4>1, <4>2
    <3> QED BY <3>1, <3>2
  <2> QED BY <1>16, <1>d, <2>1 DEF CancelAtOnce, CancelReturns
<1>17. ASSUME NEW r \in Runs, CancelTurn(r) \/ InterruptLands(r) \/ CancelFails(r)
                              \/ TurnEnds(r) \/ InactivityTimeout(r)
       PROVE  AtWork'
  BY <1>17, <1>d DEF CancelTurn, InterruptLands, CancelFails, TurnEnds, InactivityTimeout
<1>18. ASSUME CodexDies \/ HealthStartsCodex PROVE AtWork'
  BY <1>18, <1>d DEF CodexDies, HealthStartsCodex
<1>19. ASSUME Restart PROVE AtWork'
  <2>1. \A q \in Runs : runs'[q].status \notin InFlight
    BY <1>a, <1>19 DEF Restart, RunRecord, Active, InFlight
  <2> QED BY <1>0, <1>19, <2>1 DEF Restart, AtWork, InFlightAtWorker
<1>20. ASSUME UNCHANGED vars PROVE AtWork'
  BY <1>20, <1>d DEF vars
<1> HIDE DEF requestVars, providerVars
<1> QED
  BY <1>1, <1>2, <1>3, <1>4, <1>5, <1>6, <1>7, <1>8, <1>9, <1>10, <1>11, <1>12, <1>13,
     <1>14, <1>15, <1>16, <1>17, <1>18, <1>19, <1>20
     DEF Next, RequestStep, WorkerStep, CancelStep, ProviderStep

LEMMA AtWorkAlways == Spec => []AtWork
<1>1. Init => AtWork
  BY DEF Init, AtWork, InFlightAtWorker, InFlight
<1>2. TypeOK /\ Linked /\ AtWork /\ [Next]_vars => AtWork'
  BY AtWorkStep
<1> QED
  BY <1>1, <1>2, RowsAlways, PTL DEF Spec

\* No run is left behind in flight: whatever fails, times out, is cancelled or
\* deleted, a starting or streaming run is the one the worker is busy with.
THEOREM NoneLeftInFlight == Spec => []InFlightAtWorker
<1>1. AtWork => InFlightAtWorker
  BY DEF AtWork
<1> QED
  BY <1>1, AtWorkAlways, PTL

-----------------------------------------------------------------------------
(* Threads and turns.                                                      *)

\* A run that the worker has not taken yet has no turn and no thread.
Unstarted == \A r \in Runs : runs[r].status \in {"absent", "queued"} =>
    /\ turns[r] = None
    /\ \A s \in Sessions : threads[s].external # r

\* The worker holds the recorded thread of its session, or a new Claude thread
\* of a session that has none recorded.
ThreadHeld ==
    worker.run # None /\ runs[worker.run].status # "deleted" =>
        IF worker.thread = worker.run /\ ~IsCodex(worker.run)
        THEN ThreadOf(worker.run).external = None
        ELSE worker.thread = ThreadOf(worker.run).external

\* A turn begins only for the run at work, and ends anywhere.
LEMMA TurnsBegin ==
    ASSUME TypeOK, Next
    PROVE  \A r \in Runs :
              \/ turns'[r] \in {None, turns[r]}
              \/ /\ worker.run = r
                 /\ turns'[r] = worker.thread
                 /\ worker.pc = "opening" \/ runs[r].status \in InFlight
<1> USE DEF requestVars, providerVars
<1>0. turns \in [Runs -> Runs \cup {None}]
  BY DEF TypeOK
<1> DEFINE Good == \A r \in Runs :
              \/ turns'[r] \in {None, turns[r]}
              \/ /\ worker.run = r
                 /\ turns'[r] = worker.thread
                 /\ worker.pc = "opening" \/ runs[r].status \in InFlight
<1>1. ASSUME NEW s \in Sessions, RequestStep(s) PROVE turns' = turns
  BY <1>1 DEF RequestStep, EnqueueCheck, EnqueueStamp, DeleteSession, StartAgent
<1>2. ASSUME NEW q \in stamped, EnqueueFails(q) \/ \E r \in Runs : EnqueueInsert(q, r)
      PROVE  turns' = turns
  BY <1>2 DEF EnqueueFails, EnqueueInsert
<1>3. ASSUME NEW r \in Runs, Take(r) \/ StartCodex(r) \/ ProviderReady(r)
                   \/ CreateThread(r) \/ ResumeThread(r) \/ Abandon(r) \/ Completed(r)
                   \/ EndsBadly(r) \/ Overflow(r) \/ StepFails(r)
      PROVE  turns' = turns
  BY <1>3 DEF Take, StartCodex, ProviderReady, CreateThread, ResumeThread, Abandon,
     Completed, EndsBadly, Overflow, StepFails
<1>4. ASSUME NEW r \in Runs, BeginTurn(r) PROVE Good
  BY <1>0, <1>4 DEF BeginTurn
<1>5. ASSUME NEW r \in Runs, Started(r) PROVE Good
  BY <1>0, <1>5 DEF Started
<1>6. ASSUME NEW r \in Runs, TimeOut(r) PROVE Good
  BY <1>0, <1>6 DEF TimeOut
<1>7. ASSUME NEW r \in Runs, InterruptReturns(r) PROVE Good
  BY <1>0, <1>7 DEF InterruptReturns
<1>8. ASSUME NEW r \in Runs, CancelStep(r) PROVE Good
  BY <1>0, <1>8 DEF CancelStep, CancelAtOnce, CancelTurn, InterruptLands, CancelReturns,
     CancelFails
<1>9. ASSUME ProviderStep PROVE Good
  BY <1>0, <1>9 DEF ProviderStep, TurnEnds, InactivityTimeout, CodexDies,
     HealthStartsCodex
<1>10. ASSUME Restart PROVE Good
  BY <1>10 DEF Restart
<1>11. turns' = turns => Good
  OBVIOUS
<1> HIDE DEF Good, requestVars, providerVars
<1>12. Good
  BY <1>1, <1>2, <1>3, <1>4, <1>5, <1>6, <1>7, <1>8, <1>9, <1>10, <1>11
     DEF Next, WorkerStep
<1> QED
  BY <1>12 DEF Good

\* The worker and the others never put a run into the queue.
LEMMA WorkLeavesQueue ==
    ASSUME TypeOK, WorkStep
    PROVE  \A r \in Runs : runs'[r].status \in {"absent", "queued"} =>
                               runs[r].status \in {"absent", "queued"}
<1> USE DEF requestVars, providerVars
<1>a. runs \in [Runs -> RunRecord]
  BY DEF TypeOK
<1> DEFINE Good == \A r \in Runs : runs'[r].status \in {"absent", "queued"} =>
                                       runs[r].status \in {"absent", "queued"}
<1>0. runs' = runs => Good
  OBVIOUS
<1>1. ASSUME NEW r \in Runs, NEW st, st \notin {"absent", "queued"},
             runs' = [runs EXCEPT ![r].status = st]
      PROVE  Good
  BY <1>a, <1>1 DEF RunRecord
<1>2. ASSUME NEW r \in Runs, runs' = FailRun(r) PROVE Good
  BY <1>0, <1>1, <1>2 DEF FailRun
<1>3. ASSUME NEW r \in Runs, Take(r) PROVE Good
  BY <1>1, <1>3 DEF Take
<1>4. ASSUME NEW r \in Runs, StartCodex(r) \/ ProviderReady(r) \/ CreateThread(r)
                             \/ ResumeThread(r) \/ BeginTurn(r) \/ Abandon(r)
      PROVE  Good
  BY <1>0, <1>4 DEF StartCodex, ProviderReady, CreateThread, ResumeThread, BeginTurn,
     Abandon
<1>5. ASSUME NEW r \in Runs, Started(r) PROVE Good
  BY <1>a, <1>5 DEF Started, RunRecord
<1>6. ASSUME NEW r \in Runs, Completed(r) \/ EndsBadly(r) \/ Overflow(r) PROVE Good
  <2>1. \E st \in {"completed", "failed", "interrupted"} :
          runs' = [runs EXCEPT ![r].status = st]
    BY <1>6 DEF Completed, EndsBadly, Overflow
  <2> QED BY <1>1, <2>1
<1>7. ASSUME NEW r \in Runs, StepFails(r) \/ TimeOut(r) \/ InterruptReturns(r) PROVE Good
  <2>1. runs' \in {runs, FailRun(r)}
    BY <1>7 DEF StepFails, TimeOut, InterruptReturns
  <2> QED BY <1>0, <1>2, <2>1
<1>8. ASSUME NEW r \in Runs, CancelStep(r) PROVE Good
  <2>1. runs' \in {runs, Cancelled(r)}
    BY <1>8 DEF CancelStep, CancelAtOnce, CancelTurn, InterruptLands, CancelReturns,
       CancelFails, AfterCancel
  <2> QED BY <1>0, <1>1, <2>1 DEF Cancelled
<1>9. ASSUME ProviderStep PROVE Good
  BY <1>0, <1>9 DEF ProviderStep, TurnEnds, InactivityTimeout, CodexDies,
     HealthStartsCodex
<1>10. ASSUME Restart PROVE Good
  BY <1>a, <1>10 DEF Restart, RunRecord, Active
<1> HIDE DEF Good, requestVars, providerVars
<1>11. Good
  BY <1>3, <1>4, <1>5, <1>6, <1>7, <1>8, <1>9, <1>10 DEF WorkStep, WorkerStep
<1> QED
  BY <1>11 DEF Good

\* Only the worker records threads: a new Codex one when it is created, a new
\* Claude one when its first turn completes.
LEMMA WorkKeepsThreads ==
    ASSUME TypeOK, WorkStep
    PROVE  \/ threads' = threads
           \/ /\ CreateThread(worker.run) /\ IsCodex(worker.run)
              /\ threads' = [threads EXCEPT ![runs[worker.run].session].external = worker.run]
           \/ /\ Completed(worker.run) /\ worker.thread = worker.run
              /\ threads' = [threads EXCEPT ![runs[worker.run].session].external = worker.run]
<1> USE DEF requestVars, providerVars
<1> DEFINE Good ==
           \/ threads' = threads
           \/ /\ CreateThread(worker.run) /\ IsCodex(worker.run)
              /\ threads' = [threads EXCEPT ![runs[worker.run].session].external = worker.run]
           \/ /\ Completed(worker.run) /\ worker.thread = worker.run
              /\ threads' = [threads EXCEPT ![runs[worker.run].session].external = worker.run]
<1>0. threads' = threads => Good
  OBVIOUS
<1>1. ASSUME NEW r \in Runs, CreateThread(r) PROVE Good
  <2>1. worker.run = r
    BY <1>1 DEF CreateThread
  <2>2. \/ threads' = threads
        \/ IsCodex(r) /\ threads' = [threads EXCEPT ![runs[r].session].external = r]
    BY <1>1 DEF CreateThread, RecordedAtOnce
  <2> QED BY <1>1, <2>1, <2>2
<1>2. ASSUME NEW r \in Runs, Completed(r) PROVE Good
  <2>1. worker.run = r
    BY <1>2 DEF Completed
  <2>2. \/ threads' = threads
        \/ /\ worker.thread = r
           /\ threads' = [threads EXCEPT ![runs[r].session].external = r]
    BY <1>2 DEF Completed
  <2> QED BY <1>2, <2>1, <2>2
<1>3. ASSUME NEW r \in Runs, Take(r) \/ StartCodex(r) \/ ProviderReady(r)
             \/ ResumeThread(r) \/ BeginTurn(r) \/ Started(r) \/ Abandon(r)
             \/ EndsBadly(r) \/ Overflow(r) \/ StepFails(r) \/ TimeOut(r)
             \/ InterruptReturns(r)
      PROVE  threads' = threads
  BY <1>3 DEF Take, StartCodex, ProviderReady, ResumeThread, BeginTurn, Started, Abandon,
     EndsBadly, Overflow, StepFails, TimeOut, InterruptReturns
<1>4. ASSUME NEW r \in Runs, CancelStep(r) PROVE threads' = threads
  BY <1>4 DEF CancelStep, CancelAtOnce, CancelTurn, InterruptLands, CancelReturns,
     CancelFails
<1>5. ASSUME ProviderStep PROVE threads' = threads
  BY <1>5 DEF ProviderStep, TurnEnds, InactivityTimeout, CodexDies, HealthStartsCodex
<1>6. ASSUME Restart PROVE threads' = threads
  BY <1>6 DEF Restart
<1> HIDE DEF Good, requestVars, providerVars
<1>7. Good
  BY <1>0, <1>1, <1>2, <1>3, <1>4, <1>5, <1>6 DEF WorkStep, WorkerStep
<1> QED
  BY <1>7 DEF Good

LEMMA UnstartedStep ==
    TypeOK /\ Linked /\ AtWork /\ Unstarted /\ [Next]_vars => Unstarted'
<1> SUFFICES ASSUME TypeOK, Linked, AtWork, Unstarted, [Next]_vars PROVE Unstarted'
  OBVIOUS
<1> USE DEF requestVars, providerVars
<1>0. /\ runs \in [Runs -> RunRecord]
      /\ threads \in [Sessions -> ThreadRecord]
      /\ worker \in [pc : Steps, run : Runs \cup {None}, thread : Runs \cup {None}]
      /\ None \notin Runs
      /\ "queued" \in Kept /\ "absent" \notin Kept
      /\ InFlight = {"starting", "streaming"}
  BY AgentQueueAssumption
     DEF AgentQueueAssumption, TypeOK, InFlight, Kept, Active, Terminal
\* Runs that have started stay so; a turn or a thread is theirs.
<1>a. ASSUME \A r \in Runs : runs'[r].status \in {"absent", "queued"} =>
                /\ runs[r].status \in {"absent", "queued"}
                /\ turns'[r] \in {None, turns[r]}
                /\ \A s \in Sessions : threads'[s].external \in {threads[s].external, None}
                                       \/ threads'[s].external # r
      PROVE  Unstarted'
  BY <1>0, <1>a DEF Unstarted
<1>b. ASSUME Next
      PROVE  \A r \in Runs : runs[r].status \in {"absent", "queued"} =>
                 turns'[r] \in {None, turns[r]}
  BY <1>0, <1>b, TurnsBegin DEF AtWork
<1>1. ASSUME NEW s \in Sessions, NEW r \in Runs, StartAgent(s, r) PROVE Unstarted'
  <2>1. \A q \in Runs : runs'[q].status \in {"absent", "queued"} =>
                             runs[q].status \in {"absent", "queued"}
    BY <1>0, <1>1 DEF StartAgent
  <2>2. turns' = turns /\ \A t \in Sessions : threads'[t].external = threads[t].external
    BY <1>0, <1>1 DEF StartAgent, ThreadRecord
  <2> QED BY <1>a, <2>1, <2>2
<1>2. ASSUME NEW q \in stamped, NEW r \in Runs, EnqueueInsert(q, r) PROVE Unstarted'
  <2>1. \A p \in Runs : runs'[p].status \in {"absent", "queued"} =>
                             runs[p].status \in {"absent", "queued"}
    BY <1>0, <1>2 DEF EnqueueInsert
  <2> QED BY <1>2, <1>a, <2>1 DEF EnqueueInsert
<1>3. ASSUME NEW s \in Sessions, EnqueueCheck(s) \/ EnqueueStamp(s) PROVE Unstarted'
  BY <1>3, <1>a DEF EnqueueCheck, EnqueueStamp
<1>4. ASSUME NEW q \in stamped, EnqueueFails(q) PROVE Unstarted'
  BY <1>4, <1>a DEF EnqueueFails
<1>5. ASSUME NEW s \in Sessions, DeleteSession(s) PROVE Unstarted'
  <2>1. \A q \in Runs : runs'[q].status \in {"absent", "queued"} =>
                             runs[q].status \in {"absent", "queued"}
    BY <1>0, <1>5 DEF DeleteSession, RunRecord
  <2>2. turns' = turns
        /\ \A t \in Sessions : threads'[t].external \in {threads[t].external, None}
    BY <1>0, <1>5 DEF DeleteSession
  <2> QED BY <1>a, <2>1, <2>2
<1>6. ASSUME WorkStep PROVE Unstarted'
  <2>1. \A r \in Runs : runs'[r].status \in {"absent", "queued"} =>
                             runs[r].status \in {"absent", "queued"}
    BY <1>6, WorkLeavesQueue
  <2>2. \A r \in Runs : runs[r].status \in {"absent", "queued"} =>
                 turns'[r] \in {None, turns[r]}
    BY <1>6, <1>b DEF Next, WorkStep
  <2>3. \A s \in Sessions : threads'[s].external \in {threads[s].external, worker.run}
    BY <1>0, <1>6, WorkKeepsThreads DEF ThreadRecord
  <2>4. \A r \in Runs : runs[r].status \in {"absent", "queued"} => worker.run # r
    BY <1>0 DEF AtWork
  <2> QED BY <1>a, <2>1, <2>2, <2>3, <2>4
<1>7. ASSUME UNCHANGED vars PROVE Unstarted'
  BY <1>7, <1>a DEF vars
<1> HIDE DEF requestVars, providerVars
<1> QED
  BY <1>1, <1>2, <1>3, <1>4, <1>5, <1>6, <1>7 DEF Next, RequestStep, WorkStep

LEMMA UnstartedAlways == Spec => []Unstarted
<1>1. Init => Unstarted
  BY AgentQueueAssumption DEF Init, Unstarted, AgentQueueAssumption
<1>2. TypeOK /\ Linked /\ AtWork /\ Unstarted /\ [Next]_vars => Unstarted'
  BY UnstartedStep
<1> QED
  BY <1>1, <1>2, RowsAlways, AtWorkAlways, PTL DEF Spec

\* The run at work is of a session, and a live one has a live thread.
LEMMA WorkerSession ==
    ASSUME TypeOK, Linked, AtWork, worker.run # None
    PROVE  /\ worker.run \in Runs
           /\ runs[worker.run].session \in Sessions
           /\ runs[worker.run].status \notin {"absent", "queued"}
           /\ runs[worker.run].status # "deleted" => worker.run \in Of(runs[worker.run].session)
<1>1. worker.run \in Runs
  BY DEF TypeOK
<1>2. runs[worker.run].status \in InFlight \cup {"cancelled", "failed", "deleted"}
  BY DEF AtWork
<1> QED
  BY <1>1, <1>2 DEF Linked, Of, InFlight, Active, Terminal

LEMMA ThreadHeldStep ==
    TypeOK /\ Linked /\ AtWork /\ Unstarted /\ ThreadHeld /\ [Next]_vars => ThreadHeld'
<1> SUFFICES ASSUME TypeOK, Linked, AtWork, Unstarted, ThreadHeld, [Next]_vars
             PROVE  ThreadHeld'
  OBVIOUS
<1> USE DEF requestVars, providerVars
<1>0. /\ runs \in [Runs -> RunRecord]
      /\ threads \in [Sessions -> ThreadRecord]
      /\ worker \in [pc : Steps, run : Runs \cup {None}, thread : Runs \cup {None}]
      /\ None \notin Runs
      /\ Released.run = None
  BY AgentQueueAssumption DEF AgentQueueAssumption, TypeOK, Released
<1> DEFINE Same == \A r \in Runs : r = worker.run /\ runs'[r].status # "deleted" =>
                      /\ runs[r].status # "deleted"
                      /\ runs'[r].session = runs[r].session
                      /\ threads'[runs[r].session].external
                            = threads[runs[r].session].external
<1>a. ASSUME worker'.run = None PROVE ThreadHeld'
  BY <1>a DEF ThreadHeld
<1>b. ASSUME worker'.run = worker.run, worker'.thread = worker.thread, Same
      PROVE  ThreadHeld'
  <2>1. CASE worker.run = None
    BY <1>a, <1>b, <2>1
  <2>2. CASE worker.run # None
    <3>1. worker.run \in Runs
      BY <1>0, <2>2
    <3> QED BY <1>b, <2>2, <3>1 DEF ThreadHeld, ThreadOf, IsCodex
  <2> QED BY <2>1, <2>2
<1>1. ASSUME NEW s \in Sessions, NEW r \in Runs, StartAgent(s, r) PROVE ThreadHeld'
  <2>1. worker.run # r
    BY <1>0, <1>1 DEF StartAgent, AtWork, InFlight
  <2>2. \A t \in Sessions : threads'[t].external = threads[t].external
    BY <1>0, <1>1 DEF StartAgent, ThreadRecord
  <2>3. \A q \in Runs \ {r} : runs'[q] = runs[q]
    BY <1>0, <1>1 DEF StartAgent
  <2>4. Same
    BY <1>0, <2>1, <2>2, <2>3, WorkerSession
  <2> QED BY <1>1, <1>b, <2>4 DEF StartAgent
<1>2. ASSUME NEW q \in stamped, NEW r \in Runs, EnqueueInsert(q, r) PROVE ThreadHeld'
  <2>1. worker.run # r
    BY <1>0, <1>2 DEF EnqueueInsert, AtWork, InFlight
  <2>2. \A p \in Runs \ {r} : runs'[p] = runs[p]
    BY <1>0, <1>2 DEF EnqueueInsert
  <2>3. Same
    BY <1>2, <2>1, <2>2 DEF EnqueueInsert
  <2> QED BY <1>2, <1>b, <2>3 DEF EnqueueInsert
<1>3. ASSUME NEW s \in Sessions, EnqueueCheck(s) \/ EnqueueStamp(s) PROVE ThreadHeld'
  BY <1>3, <1>b DEF EnqueueCheck, EnqueueStamp
<1>4. ASSUME NEW q \in stamped, EnqueueFails(q) PROVE ThreadHeld'
  BY <1>4, <1>b DEF EnqueueFails
<1>5. ASSUME NEW s \in Sessions, DeleteSession(s) PROVE ThreadHeld'
  <2>1. ASSUME NEW r \in Runs, r = worker.run, runs'[r].status # "deleted"
        PROVE  /\ runs[r].status # "deleted"
               /\ runs'[r].session = runs[r].session
               /\ threads'[runs[r].session] = threads[runs[r].session]
    <3>1. r \notin Of(s) /\ runs'[r] = runs[r]
      BY <1>0, <1>5, <2>1 DEF DeleteSession, RunRecord
    <3>2. runs[r].session \in Sessions /\ r \in Of(runs[r].session)
      BY <1>0, <2>1, <3>1, WorkerSession
    <3> QED BY <1>0, <1>5, <2>1, <3>1, <3>2 DEF DeleteSession
  <2> QED BY <1>5, <1>b, <2>1 DEF DeleteSession
<1>6. ASSUME NEW r \in Runs, Take(r) PROVE ThreadHeld'
  <2>1. worker' = [pc |-> "checking", run |-> r, thread |-> ThreadOf(r).external]
        /\ threads' = threads /\ runs[r].status = "queued"
    BY <1>6 DEF Take, NextQueued, Queue
  <2>2. runs'[r].session = runs[r].session /\ runs[r].session \in Sessions
    BY <1>0, <1>6, <2>1 DEF Take, Linked, RunRecord
  <2>3. ThreadOf(r).external # r
    BY <2>1, <2>2 DEF Unstarted, ThreadOf
  <2> QED BY <2>1, <2>2, <2>3 DEF ThreadHeld, ThreadOf
<1>7. ASSUME NEW r \in Runs, CreateThread(r) PROVE ThreadHeld'
  <2>1. /\ worker.run = r /\ worker.thread = None /\ runs' = runs
        /\ worker'.run = r /\ worker'.thread = r
        /\ threads' = IF IsCodex(r) THEN [threads EXCEPT ![runs[r].session].external = r]
                                    ELSE threads
    BY <1>0, <1>7 DEF CreateThread, NeedsThread, RecordedAtOnce
  <2>2. runs[r].session \in Sessions
    BY <1>0, <2>1, WorkerSession
  <2>3. runs[r].status # "deleted" => ThreadOf(r).external = None
    BY <1>0, <2>1 DEF ThreadHeld
  <2>4. IsCodex(r) => threads'[runs[r].session].external = r
    BY <1>0, <2>1, <2>2 DEF ThreadRecord
  <2> QED BY <2>1, <2>3, <2>4 DEF ThreadHeld, ThreadOf, IsCodex
<1>8. ASSUME NEW r \in Runs, StartCodex(r) \/ ProviderReady(r) \/ BeginTurn(r)
             \/ TurnEnds(r) \/ InactivityTimeout(r) \/ CancelTurn(r) \/ InterruptLands(r)
             \/ CancelFails(r)
      PROVE  ThreadHeld'
  BY <1>0, <1>8, <1>b DEF StartCodex, ProviderReady, BeginTurn, TurnEnds,
     InactivityTimeout, CancelTurn, InterruptLands, CancelFails
<1>9. ASSUME NEW r \in Runs, ResumeThread(r) PROVE ThreadHeld'
  BY <1>0, <1>9, <1>a, <1>b DEF ResumeThread
<1>10. ASSUME NEW r \in Runs, Abandon(r) \/ Completed(r) \/ EndsBadly(r) \/ StepFails(r)
              \/ InterruptReturns(r)
       PROVE  ThreadHeld'
  BY <1>0, <1>10, <1>a DEF Abandon, Completed, EndsBadly, StepFails, InterruptReturns
<1>11. ASSUME NEW r \in Runs, Started(r) \/ Overflow(r) \/ TimeOut(r) \/ CancelAtOnce(r)
              \/ CancelReturns(r)
       PROVE  ThreadHeld'
  <2>1. SameRows
    BY <1>11, WorkKeepsRows DEF WorkStep, WorkerStep, CancelStep
  <2>2. threads' = threads
    BY <1>11 DEF Started, Overflow, TimeOut, CancelAtOnce, CancelReturns
  <2>3. Same
    BY <2>1, <2>2 DEF SameRows, Kept, Active, InFlight, Terminal
  <2>4. \/ worker'.run = None
        \/ worker'.run = worker.run /\ worker'.thread = worker.thread
    BY <1>0, <1>11 DEF Started, Overflow, TimeOut, CancelAtOnce, CancelReturns
  <2> QED BY <1>a, <1>b, <2>3, <2>4
<1>12. ASSUME CodexDies \/ HealthStartsCodex PROVE ThreadHeld'
  BY <1>12, <1>b DEF CodexDies, HealthStartsCodex
<1>13. ASSUME Restart PROVE ThreadHeld'
  BY <1>13, <1>a DEF Restart
<1>14. ASSUME UNCHANGED vars PROVE ThreadHeld'
  BY <1>14, <1>b DEF vars
<1> HIDE DEF requestVars, providerVars, Same
<1> QED
  BY <1>1, <1>2, <1>3, <1>4, <1>5, <1>6, <1>7, <1>8, <1>9, <1>10, <1>11, <1>12, <1>13,
     <1>14
     DEF Next, RequestStep, WorkerStep, CancelStep, ProviderStep

LEMMA ThreadHeldAlways == Spec => []ThreadHeld
<1>1. Init => ThreadHeld
  BY DEF Init, ThreadHeld
<1>2. TypeOK /\ Linked /\ AtWork /\ Unstarted /\ ThreadHeld /\ [Next]_vars => ThreadHeld'
  BY ThreadHeldStep
<1> QED
  BY <1>1, <1>2, RowsAlways, AtWorkAlways, UnstartedAlways, PTL DEF Spec

\* A thread is recorded once: only for a session without one, and while no turn
\* changes.
LEMMA RecordedOnce ==
    ASSUME TypeOK, Linked, AtWork, ThreadHeld, WorkStep, NEW s \in Sessions
    PROVE  \/ threads'[s].external = threads[s].external
           \/ /\ threads[s].external = None
              /\ turns' = turns
<1> USE DEF requestVars, providerVars
<1> DEFINE w == worker.run
<1>0. threads \in [Sessions -> ThreadRecord] /\ None \notin Runs
  BY AgentQueueAssumption DEF AgentQueueAssumption, TypeOK
<1>1. CASE threads' = threads
  BY <1>1
<1>2. ASSUME NEW r \in Runs, worker.run = r, worker.thread = None \/ worker.thread = r,
             runs[r].status # "deleted",
             IsCodex(r) /\ worker.thread # None => threads'[s].external = threads[s].external
                                                   \/ ThreadOf(r).external # r,
             threads' = [threads EXCEPT ![runs[r].session].external = r],
             turns' = turns
      PROVE  \/ threads'[s].external = threads[s].external
             \/ threads[s].external = None /\ turns' = turns
  <2>1. CASE runs[r].session # s
    BY <1>0, <1>2, <2>1
  <2>2. CASE runs[r].session = s
    <3>1. worker.run # None
      BY <1>0, <1>2
    <3>2. threads[s].external = None \/ worker.thread = threads[s].external
      BY <1>2, <2>2, <3>1 DEF ThreadHeld, ThreadOf
    <3>3. threads'[s].external = r
      BY <1>0, <1>2, <2>2 DEF ThreadRecord
    <3> QED BY <1>2, <3>2, <3>3
  <2> QED BY <2>1, <2>2
<1>3. CASE /\ CreateThread(w) /\ IsCodex(w)
           /\ threads' = [threads EXCEPT ![runs[w].session].external = w]
  <2>1. worker.run # None
    <3>1. worker.pc # "idle"
      BY <1>3 DEF CreateThread
    <3> QED BY <3>1 DEF TypeOK
  <2>2. w \in Runs /\ worker.thread = None /\ turns' = turns
    BY <1>3, <2>1 DEF CreateThread, NeedsThread, TypeOK
  <2>3. ThreadOf(w).status = "present"
    BY <1>3 DEF CreateThread
  <2>4. runs[w].status # "deleted"
    BY <2>2, <2>3 DEF Linked
  <2> QED BY <1>2, <1>3, <2>2, <2>4
<1>4. CASE /\ Completed(w) /\ worker.thread = w
           /\ threads' = [threads EXCEPT ![runs[w].session].external = w]
  <2>1. worker.run # None
    <3>1. worker.pc # "idle"
      BY <1>4 DEF Completed
    <3> QED BY <3>1 DEF TypeOK
  <2>2. w \in Runs /\ turns' = turns /\ runs[w].status # "deleted"
    BY <1>4, <2>1 DEF Completed, TypeOK, InFlight
  <2>3. CASE IsCodex(w)
    <3>1. ThreadOf(w).external = w
      BY <1>4, <2>1, <2>2, <2>3 DEF ThreadHeld
    <3>2. threads'[s].external = threads[s].external
      BY <1>0, <1>4, <3>1 DEF ThreadOf, ThreadRecord
    <3> QED BY <3>2
  <2>4. CASE ~IsCodex(w)
    BY <1>2, <1>4, <2>2, <2>4
  <2> QED BY <2>3, <2>4
<1> QED
  BY <1>1, <1>3, <1>4, WorkKeepsThreads

LEMMA ThreadKeptStep ==
    TypeOK /\ Linked /\ AtWork /\ ThreadHeld /\ [Next]_vars =>
        \A s \in Sessions : threads[s].external # None =>
            threads'[s].external = threads[s].external \/ threads'[s].status = "deleted"
<1> SUFFICES ASSUME TypeOK, Linked, AtWork, ThreadHeld, [Next]_vars,
                    NEW s \in Sessions, threads[s].external # None
             PROVE  threads'[s].external = threads[s].external
                    \/ threads'[s].status = "deleted"
  OBVIOUS
<1> USE DEF requestVars, providerVars
<1>0. threads \in [Sessions -> ThreadRecord]
  BY DEF TypeOK
<1>1. CASE WorkStep
  BY <1>1, RecordedOnce
<1>2. ASSUME NEW t \in Sessions, RequestStep(t)
      PROVE  threads'[s].external = threads[s].external \/ threads'[s].status = "deleted"
  BY <1>0, <1>2 DEF RequestStep, EnqueueCheck, EnqueueStamp, DeleteSession, StartAgent,
     ThreadRecord
<1>3. ASSUME NEW q \in stamped, EnqueueFails(q) \/ \E r \in Runs : EnqueueInsert(q, r)
      PROVE  threads' = threads
  BY <1>3 DEF EnqueueFails, EnqueueInsert
<1>4. CASE UNCHANGED vars
  BY <1>4 DEF vars
<1> HIDE DEF requestVars, providerVars
<1> QED
  BY <1>1, <1>2, <1>3, <1>4 DEF Next, WorkStep

\* A recorded external thread is never replaced by another, however runs fail,
\* restart or are cancelled, until the session is deleted.
THEOREM ThreadsKept == Spec => ThreadKept
<1>1. TypeOK /\ Linked /\ AtWork /\ ThreadHeld /\ [Next]_vars =>
          [\A s \in Sessions : threads[s].external # None =>
              threads'[s].external = threads[s].external
              \/ threads'[s].status = "deleted"]_vars
  BY ThreadKeptStep
<1> QED
  BY <1>1, RowsAlways, AtWorkAlways, ThreadHeldAlways, PTL DEF Spec, ThreadKept

LEMMA OneThreadStep ==
    TypeOK /\ Linked /\ AtWork /\ Unstarted /\ ThreadHeld /\ OneThreadPerSession
        /\ [Next]_vars => OneThreadPerSession'
<1> SUFFICES ASSUME TypeOK, Linked, AtWork, Unstarted, ThreadHeld, OneThreadPerSession,
                    [Next]_vars,
                    NEW s \in Sessions \ ClaudeSessions, NEW r \in Runs, r \in Of(s)'
             PROVE  turns'[r] \in {None, threads'[s].external}
  BY DEF OneThreadPerSession, Of
<1> USE DEF requestVars, providerVars
<1>0. /\ runs \in [Runs -> RunRecord]
      /\ threads \in [Sessions -> ThreadRecord]
      /\ None \notin Runs
  BY AgentQueueAssumption DEF AgentQueueAssumption, TypeOK
<1>1. CASE WorkStep
  <2>1. r \in Of(s)
    BY <1>1, WorkKeepsRows, SameRowsKeepSets
  <2>2. turns[r] \in {None, threads[s].external}
    BY <2>1 DEF OneThreadPerSession
  <2>3. \/ turns'[r] \in {None, turns[r]}
        \/ worker.run = r /\ turns'[r] = worker.thread
    BY <1>1, TurnsBegin DEF Next, WorkStep
  <2>4. worker.run = r => worker.thread = threads[s].external
    BY <1>0, <2>1 DEF ThreadHeld, ThreadOf, Of, IsCodex, Active, InFlight, Terminal
  <2>5. turns'[r] \in {None, threads[s].external}
    BY <2>2, <2>3, <2>4
  <2> QED BY <1>1, <2>2, <2>5, RecordedOnce
<1>2. ASSUME NEW t \in Sessions, NEW q \in Runs, StartAgent(t, q)
      PROVE  turns'[r] \in {None, threads'[s].external}
  <2>1. turns' = turns /\ threads'[s].external = threads[s].external
    BY <1>0, <1>2 DEF StartAgent, ThreadRecord
  <2>2. r = q \/ r \in Of(s)
    BY <1>0, <1>2 DEF StartAgent, Of
  <2> QED BY <1>2, <2>1, <2>2 DEF StartAgent, Unstarted, OneThreadPerSession
<1>3. ASSUME NEW p \in stamped, NEW q \in Runs, EnqueueInsert(p, q)
      PROVE  turns'[r] \in {None, threads'[s].external}
  <2>1. r = q \/ r \in Of(s)
    BY <1>0, <1>3 DEF EnqueueInsert, Of
  <2> QED BY <1>3, <2>1 DEF EnqueueInsert, Unstarted, OneThreadPerSession
<1>4. ASSUME NEW t \in Sessions, EnqueueCheck(t) \/ EnqueueStamp(t)
      PROVE  turns'[r] \in {None, threads'[s].external}
  BY <1>4 DEF EnqueueCheck, EnqueueStamp, Of, OneThreadPerSession
<1>5. ASSUME NEW q \in stamped, EnqueueFails(q)
      PROVE  turns'[r] \in {None, threads'[s].external}
  BY <1>5 DEF EnqueueFails, Of, OneThreadPerSession
<1>6. ASSUME NEW t \in Sessions, DeleteSession(t)
      PROVE  turns'[r] \in {None, threads'[s].external}
  <2>1. r \in Of(s) /\ s # t
    BY <1>0, <1>6 DEF DeleteSession, Of, RunRecord, Active, InFlight, Terminal
  <2> QED BY <1>0, <1>6, <2>1 DEF DeleteSession, OneThreadPerSession
<1>7. CASE UNCHANGED vars
  BY <1>7 DEF vars, Of, OneThreadPerSession
<1> HIDE DEF requestVars, providerVars
<1> QED
  BY <1>1, <1>2, <1>3, <1>4, <1>5, <1>6, <1>7 DEF Next, RequestStep, WorkStep

\* Every turn of a Codex session executes on the session's one recorded thread.
THEOREM OneThread == Spec => []OneThreadPerSession
<1>1. Init => OneThreadPerSession
  BY DEF Init, OneThreadPerSession, Of
<1>2. TypeOK /\ Linked /\ AtWork /\ Unstarted /\ ThreadHeld /\ OneThreadPerSession
          /\ [Next]_vars => OneThreadPerSession'
  BY OneThreadStep
<1> QED
  BY <1>1, <1>2, RowsAlways, AtWorkAlways, UnstartedAlways, ThreadHeldAlways, PTL DEF Spec

-----------------------------------------------------------------------------
(* How turns end.                                                          *)

\* A terminal event waits only for a worker that listens, and says completed or
\* interrupted only of a turn that is over.  No turn precedes its beginning.
TurnsDue ==
    /\ outcome # "none" => worker.pc \in Listening
    /\ outcome \in {"completed", "interrupted"} => turns[worker.run] = None
    /\ worker.pc = "begin" /\ ~IsCodex(worker.run) => outcome = "none"
    /\ worker.pc \in {"checking", "opening"}
       \/ (worker.pc = "begin" /\ ~IsCodex(worker.run)) => turns[worker.run] = None

LEMMA TurnsDueStep ==
    TypeOK /\ Linked /\ AtWork /\ Unstarted /\ TurnsDue /\ [Next]_vars => TurnsDue'
<1> SUFFICES ASSUME TypeOK, Linked, AtWork, Unstarted, TurnsDue, [Next]_vars
             PROVE  TurnsDue'
  OBVIOUS
<1> USE DEF requestVars, providerVars, Listening
<1>0. /\ runs \in [Runs -> RunRecord]
      /\ worker \in [pc : Steps, run : Runs \cup {None}, thread : Runs \cup {None}]
      /\ worker.pc = "idle" <=> worker.run = None
      /\ turns \in [Runs -> Runs \cup {None}]
      /\ outcome \in {"none", "completed", "failed", "interrupted"}
      /\ None \notin Runs
      /\ Released = [pc |-> "idle", run |-> None, thread |-> None]
  BY AgentQueueAssumption DEF AgentQueueAssumption, TypeOK, Released
<1>a. ASSUME worker'.pc \notin {"checking", "opening", "begin", "streaming"},
             outcome' = "none"
      PROVE  TurnsDue'
  BY <1>a DEF TurnsDue
<1>b. ASSUME worker' = worker, outcome' = outcome,
             worker.run # None => turns'[worker.run] \in {None, turns[worker.run]},
             worker.run # None => runs'[worker.run].session = runs[worker.run].session
      PROVE  TurnsDue'
  BY <1>0, <1>b DEF TurnsDue, IsCodex
<1>1. ASSUME NEW s \in Sessions, NEW r \in Runs, StartAgent(s, r) PROVE TurnsDue'
  <2>1. worker.run # r
    BY <1>0, <1>1 DEF StartAgent, AtWork, InFlight
  <2> QED BY <1>0, <1>1, <1>b, <2>1 DEF StartAgent
<1>2. ASSUME NEW q \in stamped, NEW r \in Runs, EnqueueInsert(q, r) PROVE TurnsDue'
  <2>1. worker.run # r
    BY <1>0, <1>2 DEF EnqueueInsert, AtWork, InFlight
  <2> QED BY <1>0, <1>2, <1>b, <2>1 DEF EnqueueInsert
<1>3. ASSUME NEW s \in Sessions, EnqueueCheck(s) \/ EnqueueStamp(s) PROVE TurnsDue'
  BY <1>3, <1>b DEF EnqueueCheck, EnqueueStamp
<1>4. ASSUME NEW q \in stamped, EnqueueFails(q) PROVE TurnsDue'
  BY <1>4, <1>b DEF EnqueueFails
<1>5. ASSUME NEW s \in Sessions, DeleteSession(s) PROVE TurnsDue'
  <2>1. \A r \in Runs : runs'[r].session = runs[r].session
    BY <1>0, <1>5 DEF DeleteSession, RunRecord
  <2> QED BY <1>0, <1>5, <1>b, <2>1 DEF DeleteSession
<1>6. ASSUME NEW r \in Runs, Take(r) PROVE TurnsDue'
  <2>1. worker'.pc = "checking" /\ worker'.run = r /\ turns' = turns /\ outcome' = outcome
    BY <1>6 DEF Take
  <2>2. outcome = "none"
    BY <1>6 DEF Take, TurnsDue
  <2>3. turns[r] = None
    BY <1>6 DEF Take, NextQueued, Queue, Unstarted
  <2> QED BY <2>1, <2>2, <2>3 DEF TurnsDue
<1>7. ASSUME NEW r \in Runs, StartCodex(r) PROVE TurnsDue'
  BY <1>0, <1>7, <1>b DEF StartCodex
<1>8. ASSUME NEW r \in Runs, ProviderReady(r) \/ CreateThread(r) PROVE TurnsDue'
  <2>1. /\ worker.pc \in {"checking", "opening"}
        /\ worker'.pc \in {"checking", "opening"} /\ worker'.run = worker.run
        /\ turns' = turns /\ outcome' = outcome
    BY <1>0, <1>8 DEF ProviderReady, CreateThread
  <2> QED BY <2>1 DEF TurnsDue
<1>9. ASSUME NEW r \in Runs, ResumeThread(r) PROVE TurnsDue'
  <2>1. outcome = "none" /\ outcome' = outcome /\ turns' = turns /\ runs' = runs
    BY <1>9 DEF ResumeThread, TurnsDue
  <2>2. worker' = worker \/ worker' = Released
    BY <1>9 DEF ResumeThread
  <2> QED BY <1>0, <1>a, <1>b, <2>1, <2>2
<1>10. ASSUME NEW r \in Runs, BeginTurn(r) PROVE TurnsDue'
  <2>1. outcome = "none" /\ outcome' = outcome /\ turns[r] = None /\ runs' = runs
    BY <1>10 DEF BeginTurn, TurnsDue
  <2>2. worker'.pc = "begin" /\ worker'.run = r
    BY <1>0, <1>10 DEF BeginTurn
  <2>3. ~IsCodex(r) => turns' = turns
    BY <1>10 DEF BeginTurn
  <2> QED BY <2>1, <2>2, <2>3 DEF TurnsDue, IsCodex
<1>11. ASSUME NEW r \in Runs, Started(r) PROVE TurnsDue'
  <2>1. worker'.pc = "streaming" /\ worker'.run = r /\ worker.run = r /\ outcome' = outcome
    BY <1>0, <1>11 DEF Started
  <2>2. outcome = "none" \/ turns' = turns
    BY <1>11 DEF Started, TurnsDue
  <2> QED BY <2>1, <2>2 DEF TurnsDue
<1>12. ASSUME NEW r \in Runs, Abandon(r) \/ Completed(r) \/ EndsBadly(r) \/ Overflow(r)
                              \/ TimeOut(r)
       PROVE  TurnsDue'
  BY <1>0, <1>12, <1>a DEF Abandon, Completed, EndsBadly, Overflow, TimeOut
<1>13. ASSUME NEW r \in Runs, StepFails(r) \/ InterruptReturns(r) PROVE TurnsDue'
  <2>1. outcome = "none" /\ outcome' = outcome /\ worker' = Released
    BY <1>13 DEF StepFails, InterruptReturns, TurnsDue
  <2> QED BY <1>0, <1>a, <2>1
<1>14. ASSUME NEW r \in Runs, CancelAtOnce(r) \/ CancelReturns(r) PROVE TurnsDue'
  <2>1. \A q \in Runs : runs'[q].session = runs[q].session
    BY <1>14, WorkKeepsRows DEF WorkStep, CancelStep, SameRows
  <2> QED BY <1>0, <1>14, <1>b, <2>1 DEF CancelAtOnce, CancelReturns
<1>15. ASSUME NEW r \in Runs, CancelTurn(r) \/ CancelFails(r) PROVE TurnsDue'
  BY <1>15, <1>b DEF CancelTurn, CancelFails
<1>16. ASSUME NEW r \in Runs, InterruptLands(r) \/ TurnEnds(r) PROVE TurnsDue'
  <2>1. /\ worker' = worker /\ runs' = runs
        /\ turns[r] # None
        /\ turns' = [turns EXCEPT ![r] = None]
        /\ \/ outcome' = outcome
           \/ worker.run = r /\ worker.pc \in Listening
    BY <1>16 DEF InterruptLands, TurnEnds
  <2>2. CASE outcome' = outcome
    BY <1>0, <1>b, <2>1, <2>2
  <2>3. CASE worker.run = r /\ worker.pc \in Listening
    <3>1. turns'[worker.run] = None
      BY <1>0, <2>1, <2>3
    <3>2. ~(worker.pc = "begin" /\ ~IsCodex(worker.run))
      BY <2>1, <2>3 DEF TurnsDue
    <3> QED BY <2>1, <2>3, <3>1, <3>2 DEF TurnsDue, IsCodex
  <2> QED BY <2>1, <2>2, <2>3
<1>17. ASSUME NEW r \in Runs, InactivityTimeout(r) PROVE TurnsDue'
  <2>1. worker' = worker /\ worker.pc = "streaming" /\ outcome' = "failed"
    BY <1>17 DEF InactivityTimeout, SilentOutcome
  <2> QED BY <2>1 DEF TurnsDue
<1>18. ASSUME CodexDies PROVE TurnsDue'
  <2>1. /\ worker' = worker /\ runs' = runs
        /\ turns' = [r \in Runs |-> IF IsCodex(r) THEN None ELSE turns[r]]
        /\ \/ outcome' = outcome
           \/ /\ worker.run # None /\ IsCodex(worker.run)
              /\ worker.pc \in Listening /\ outcome' = "failed"
    BY <1>18 DEF CodexDies
  <2>2. CASE outcome' = outcome
    BY <1>0, <1>b, <2>1, <2>2
  <2>3. CASE /\ worker.run # None /\ IsCodex(worker.run)
             /\ worker.pc \in Listening /\ outcome' = "failed"
    BY <2>1, <2>3 DEF TurnsDue, IsCodex
  <2> QED BY <2>1, <2>2, <2>3
<1>19. ASSUME HealthStartsCodex PROVE TurnsDue'
  BY <1>19, <1>b DEF HealthStartsCodex
<1>20. ASSUME Restart PROVE TurnsDue'
  BY <1>20, <1>a DEF Restart
<1>21. ASSUME UNCHANGED vars PROVE TurnsDue'
  BY <1>21, <1>b DEF vars
<1> HIDE DEF requestVars, providerVars
<1> QED
  BY <1>1, <1>2, <1>3, <1>4, <1>5, <1>6, <1>7, <1>8, <1>9, <1>10, <1>11, <1>12, <1>13,
     <1>14, <1>15, <1>16, <1>17, <1>18, <1>19, <1>20, <1>21
     DEF Next, RequestStep, WorkerStep, CancelStep, ProviderStep

LEMMA TurnsDueAlways == Spec => []TurnsDue
<1>1. Init => TurnsDue
  BY DEF Init, TurnsDue
<1>2. TypeOK /\ Linked /\ AtWork /\ Unstarted /\ TurnsDue /\ [Next]_vars => TurnsDue'
  BY TurnsDueStep
<1> QED
  BY <1>1, <1>2, RowsAlways, AtWorkAlways, UnstartedAlways, PTL DEF Spec

\* A step leaves a run's status alone, begins it, deletes it, or ends it; one
\* that ends well, or is reported interrupted, has no turn any more.
Moves(r) ==
    \/ runs'[r].status = runs[r].status
    \/ runs[r].status = "absent" /\ runs'[r].status = "queued"
    \/ runs'[r].status = "deleted"
    \/ /\ runs[r].status \in Active
       /\ runs'[r].status \in InFlight \cup {"cancelled", "failed"}
    \/ /\ runs[r].status \in Active
       /\ runs'[r].status \in {"completed", "interrupted"}
       /\ turns'[r] = None

LEMMA StatusMoves ==
    ASSUME TypeOK, Linked, AtWork, TurnsDue, [Next]_vars
    PROVE  \A r \in Runs : Moves(r)
<1> USE DEF requestVars, providerVars
<1> DEFINE Good == \A r \in Runs : Moves(r)
<1>0. /\ runs \in [Runs -> RunRecord]
      /\ None \notin Runs
      /\ InFlight = {"starting", "streaming"} /\ Active = {"queued"} \cup InFlight
  BY AgentQueueAssumption DEF AgentQueueAssumption, TypeOK, InFlight, Active
<1>a. runs' = runs => Good
  BY DEF Moves
<1>b. ASSUME NEW r \in Runs, NEW st, runs[r].status \in Active,
             runs' = [runs EXCEPT ![r].status = st],
             \/ st \in InFlight \cup {"cancelled", "failed"}
             \/ st \in {"completed", "interrupted"} /\ turns'[r] = None
      PROVE  Good
  <2>1. runs'[r].status = st /\ \A q \in Runs \ {r} : runs'[q] = runs[q]
    BY <1>0, <1>b DEF RunRecord
  <2> QED BY <1>b, <2>1 DEF Moves
<1>c. ASSUME NEW r \in Runs, worker.run = r, runs' = FailRun(r) PROVE Good
  <2>1. runs[r].status \in InFlight \cup {"cancelled", "failed", "deleted"}
    BY <1>0, <1>c DEF AtWork
  <2>2. runs' = runs \/ (runs[r].status \in Active
                         /\ runs' = [runs EXCEPT ![r].status = "failed"])
    BY <1>0, <1>c, <2>1 DEF FailRun
  <2> QED BY <1>a, <1>b, <2>2
<1>1. ASSUME NEW s \in Sessions, NEW r \in Runs, StartAgent(s, r) PROVE Good
  BY <1>0, <1>1 DEF StartAgent, QueuedRun, Moves
<1>2. ASSUME NEW q \in stamped, NEW r \in Runs, EnqueueInsert(q, r) PROVE Good
  BY <1>0, <1>2 DEF EnqueueInsert, QueuedRun, Moves
<1>3. ASSUME NEW s \in Sessions, EnqueueCheck(s) \/ EnqueueStamp(s) PROVE Good
  BY <1>3, <1>a DEF EnqueueCheck, EnqueueStamp
<1>4. ASSUME NEW q \in stamped, EnqueueFails(q) PROVE Good
  BY <1>4, <1>a DEF EnqueueFails
<1>5. ASSUME NEW s \in Sessions, DeleteSession(s) PROVE Good
  BY <1>0, <1>5 DEF DeleteSession, Moves, RunRecord
<1>6. ASSUME NEW r \in Runs, Take(r) PROVE Good
  BY <1>0, <1>6, <1>b DEF Take, NextQueued, Queue
<1>7. ASSUME NEW r \in Runs, StartCodex(r) \/ ProviderReady(r) \/ CreateThread(r)
                             \/ ResumeThread(r) \/ BeginTurn(r) \/ Abandon(r)
      PROVE  Good
  BY <1>7, <1>a DEF StartCodex, ProviderReady, CreateThread, ResumeThread, BeginTurn,
     Abandon
<1>8. ASSUME NEW r \in Runs, Started(r) PROVE Good
  BY <1>0, <1>8 DEF Started, Moves, RunRecord
<1>9. ASSUME NEW r \in Runs, Completed(r) PROVE Good
  <2>1. turns'[r] = None
    BY <1>9 DEF Completed, TurnsDue
  <2> QED BY <1>0, <1>9, <1>b, <2>1 DEF Completed
<1>10. ASSUME NEW r \in Runs, EndsBadly(r) PROVE Good
  <2>1. outcome = "failed" \/ (outcome = "interrupted" /\ turns'[r] = None)
    BY <1>10 DEF EndsBadly, TurnsDue
  <2> QED BY <1>0, <1>10, <1>b, <2>1 DEF EndsBadly
<1>11. ASSUME NEW r \in Runs, Overflow(r) PROVE Good
  BY <1>0, <1>11, <1>b DEF Overflow
<1>12. ASSUME NEW r \in Runs, StepFails(r) \/ TimeOut(r) \/ InterruptReturns(r) PROVE Good
  <2>1. worker.run = r /\ runs' \in {runs, FailRun(r)}
    BY <1>12 DEF StepFails, TimeOut, InterruptReturns
  <2> QED BY <1>a, <1>c, <2>1
<1>13. ASSUME NEW r \in Runs, CancelAtOnce(r) \/ CancelReturns(r) PROVE Good
  <2>1. runs' = runs \/ (runs[r].status \in Active /\ runs' = Cancelled(r))
    BY <1>0, <1>13 DEF CancelAtOnce, CancelReturns, AfterCancel
  <2> QED BY <1>a, <1>b, <2>1 DEF Cancelled
<1>14. ASSUME NEW r \in Runs, CancelTurn(r) \/ InterruptLands(r) \/ CancelFails(r)
              \/ TurnEnds(r) \/ InactivityTimeout(r)
       PROVE  Good
  BY <1>14, <1>a DEF CancelTurn, InterruptLands, CancelFails, TurnEnds, InactivityTimeout
<1>15. ASSUME CodexDies \/ HealthStartsCodex PROVE Good
  BY <1>15, <1>a DEF CodexDies, HealthStartsCodex
<1>16. ASSUME Restart PROVE Good
  BY <1>0, <1>16 DEF Restart, Moves, RunRecord
<1>17. ASSUME UNCHANGED vars PROVE Good
  BY <1>17, <1>a DEF vars
<1> HIDE DEF Good, requestVars, providerVars
<1>18. Good
  BY <1>1, <1>2, <1>3, <1>4, <1>5, <1>6, <1>7, <1>8, <1>9, <1>10, <1>11, <1>12, <1>13,
     <1>14, <1>15, <1>16, <1>17
     DEF Next, RequestStep, WorkerStep, CancelStep, ProviderStep
<1> QED
  BY <1>18 DEF Good

\* A run that has ended stays as it ended, whatever the provider, a cancel or a
\* restart does later, until its session is deleted.
THEOREM EndedStaysEnded == Spec => EndedRunsKept
<1>1. TypeOK /\ Linked /\ AtWork /\ TurnsDue /\ [Next]_vars =>
          [\A r \in Runs : runs[r].status \in Terminal =>
              runs'[r].status \in {runs[r].status, "deleted"}]_vars
  <2> SUFFICES ASSUME TypeOK, Linked, AtWork, TurnsDue, [Next]_vars,
                      NEW r \in Runs, runs[r].status \in Terminal
               PROVE  runs'[r].status \in {runs[r].status, "deleted"}
    OBVIOUS
  <2>1. Moves(r)
    BY StatusMoves
  <2>2. runs[r].status \notin Active \cup {"absent"}
    BY DEF Terminal, Active, InFlight
  <2> QED BY <2>1, <2>2 DEF Moves
<1> QED
  BY <1>1, RowsAlways, AtWorkAlways, TurnsDueAlways, PTL DEF Spec, EndedRunsKept

LEMMA TurnsAccountedStep ==
    TypeOK /\ Linked /\ AtWork /\ Unstarted /\ TurnsDue /\ TurnsAccounted /\ [Next]_vars
        => TurnsAccounted'
<1> SUFFICES ASSUME TypeOK, Linked, AtWork, Unstarted, TurnsDue, TurnsAccounted,
                    [Next]_vars, NEW r \in Runs, turns'[r] # None
             PROVE  runs'[r].status \in InFlight \cup {"cancelled", "failed", "deleted"}
  BY DEF TurnsAccounted
<1>1. Moves(r)
  BY StatusMoves
<1>2. \/ turns'[r] = turns[r]
      \/ worker.run = r
  BY TurnsBegin DEF vars
<1>3. runs[r].status \in InFlight \cup {"cancelled", "failed", "deleted"}
  BY <1>2, AgentQueueAssumption DEF AgentQueueAssumption, TurnsAccounted, AtWork
<1> QED
  BY <1>1, <1>3 DEF Moves, InFlight

\* A turn executes only for a run in flight, or for one that was cancelled,
\* failed or deleted while its turn could not be interrupted.
THEOREM TurnsAreAccounted == Spec => []TurnsAccounted
<1>1. Init => TurnsAccounted
  BY DEF Init, TurnsAccounted
<1>2. TypeOK /\ Linked /\ AtWork /\ Unstarted /\ TurnsDue /\ TurnsAccounted /\ [Next]_vars
          => TurnsAccounted'
  BY TurnsAccountedStep
<1> QED
  BY <1>1, <1>2, RowsAlways, AtWorkAlways, UnstartedAlways, TurnsDueAlways, PTL DEF Spec

-----------------------------------------------------------------------------
(* The numbers and the limit of the queue.                                 *)

\* Only sessions with a thread have requests at work, and finitely many.
Requested ==
    /\ IsFiniteSet(stamped)
    /\ \A s \in Sessions : threads[s].status = "absent" =>
          checked[s] = 0 /\ \A q \in stamped : q.session # s

\* The rows and the stamped requests of a session agree in number and time, and
\* no request is more than one number ahead of the rows.
Numbered == \A s \in Sessions : threads[s].status = "present" =>
    /\ \A q, r \in Of(s) :
          /\ q # r => runs[q].seq # runs[r].seq
          /\ runs[q].seq < runs[r].seq => runs[q].created < runs[r].created
    /\ \A q \in stamped : q.session = s =>
          /\ q.seq = 1 \/ \E r \in Of(s) : q.seq <= runs[r].seq + 1
          /\ \A r \in Of(s) :
                /\ runs[r].seq < q.seq => runs[r].created < q.created
                /\ q.seq < runs[r].seq => q.created < runs[r].created
          /\ \A p \in stamped : p.session = s /\ p.seq < q.seq => p.created < q.created

\* A new row joins the rows of its session alone.
LEMMA RowAdded ==
    ASSUME NEW s \in Sessions, NEW r \in Runs, NEW n \in Nat, NEW at \in Nat,
           runs[r].status = "absent", runs'[r] = QueuedRun(s, n, at),
           \A q \in Runs \ {r} : runs'[q] = runs[q]
    PROVE  /\ Of(s)' = Of(s) \cup {r} /\ r \notin Of(s)
           /\ ActiveOf(s)' = ActiveOf(s) \cup {r} /\ r \notin ActiveOf(s)
           /\ \A t \in Sessions \ {s} : Of(t)' = Of(t) /\ ActiveOf(t)' = ActiveOf(t)
           /\ runs'[r].seq = n /\ runs'[r].created = at
<1>1. runs'[r] = QueuedRun(s, n, at) /\ \A q \in Runs \ {r} : runs'[q] = runs[q]
  OBVIOUS
<1>2. /\ runs'[r].session = s /\ runs'[r].status = "queued"
      /\ runs'[r].seq = n /\ runs'[r].created = at
  BY <1>1 DEF QueuedRun
<1>3. "absent" \notin Active \cup Terminal /\ "queued" \in Active
  BY DEF Active, InFlight, Terminal
<1>4. /\ Of(s)' = Of(s) \cup {r} /\ r \notin Of(s)
      /\ \A t \in Sessions \ {s} : Of(t)' = Of(t)
  BY <1>1, <1>2, <1>3 DEF Of
<1>5. /\ ActiveOf(s)' = ActiveOf(s) \cup {r} /\ r \notin ActiveOf(s)
      /\ \A t \in Sessions \ {s} : ActiveOf(t)' = ActiveOf(t)
  BY <1>1, <1>2, <1>3, <1>4 DEF ActiveOf, Of
<1> QED
  BY <1>1, <1>2, <1>4, <1>5

\* The deletion of a session takes its rows and no others.
LEMMA RowsDeleted ==
    ASSUME TypeOK, NEW s \in Sessions, DeleteSession(s)
    PROVE  /\ \A t \in Sessions \ {s} : /\ Of(t)' = Of(t) /\ ActiveOf(t)' = ActiveOf(t)
                                        /\ threads'[t] = threads[t]
           /\ threads'[s].status = "deleted"
           /\ \A r \in Runs : /\ runs'[r].seq = runs[r].seq
                              /\ runs'[r].created = runs[r].created
<1>1. /\ runs \in [Runs -> RunRecord] /\ threads \in [Sessions -> ThreadRecord]
      /\ "deleted" \notin Active \cup Terminal
  BY DEF TypeOK, Active, InFlight, Terminal
<1>2. \A r \in Runs : /\ runs'[r].session = runs[r].session
                      /\ runs'[r].seq = runs[r].seq
                      /\ runs'[r].created = runs[r].created
                      /\ runs'[r].status = IF r \in Of(s) THEN "deleted" ELSE runs[r].status
  BY <1>1 DEF DeleteSession, RunRecord
<1>3. \A t \in Sessions \ {s} : Of(t)' = Of(t)
  BY <1>1, <1>2 DEF Of
<1>4. \A t \in Sessions \ {s} : ActiveOf(t)' = ActiveOf(t)
  BY <1>1, <1>2, <1>3 DEF ActiveOf, Of
<1> QED
  BY <1>1, <1>2, <1>3, <1>4 DEF DeleteSession

LEMMA RequestedStep ==
    TypeOK /\ Requested /\ [Next]_vars => Requested'
<1> SUFFICES ASSUME TypeOK, Requested, [Next]_vars PROVE Requested'
  OBVIOUS
<1> USE DEF requestVars, providerVars
<1>0. threads \in [Sessions -> ThreadRecord] /\ checked \in [Sessions -> Nat]
  BY DEF TypeOK
<1>a. ASSUME stamped' \subseteq stamped,
             \A s \in Sessions : checked'[s] \in {checked[s], 0},
             \A s \in Sessions : threads'[s].status = "absent" => threads[s].status = "absent"
      PROVE  Requested'
  BY <1>a, FS_Subset DEF Requested
<1>1. ASSUME NEW s \in Sessions, NEW r \in Runs, StartAgent(s, r) PROVE Requested'
  BY <1>0, <1>1, <1>a DEF StartAgent, ThreadRecord
<1>2. ASSUME NEW s \in Sessions, EnqueueCheck(s) PROVE Requested'
  BY <1>0, <1>2 DEF EnqueueCheck, Requested
<1>3. ASSUME NEW s \in Sessions, EnqueueStamp(s) PROVE Requested'
  <2> DEFINE new == [session |-> s, seq |-> NextSequence(s), created |-> clock + 1]
  <2>1. /\ stamped' = stamped \cup {new} /\ new.session = s /\ checked[s] > 0
        /\ checked' = [checked EXCEPT ![s] = @ - 1] /\ threads' = threads
    BY <1>3 DEF EnqueueStamp
  <2> HIDE DEF new
  <2>2. IsFiniteSet(stamped')
    BY <2>1, FS_AddElement DEF Requested
  <2>3. threads[s].status # "absent"
    BY <1>0, <2>1 DEF Requested
  <2> QED BY <1>0, <2>1, <2>2, <2>3 DEF Requested
<1>4. ASSUME NEW q \in stamped, EnqueueFails(q) \/ \E r \in Runs : EnqueueInsert(q, r)
      PROVE  Requested'
  BY <1>4, <1>a DEF EnqueueFails, EnqueueInsert
<1>5. ASSUME NEW s \in Sessions, DeleteSession(s) PROVE Requested'
  <2>1. \A t \in Sessions : threads'[t].status = "absent" => threads[t].status = "absent"
    BY <1>5, RowsDeleted
  <2> QED BY <1>5, <1>a, <2>1 DEF DeleteSession
<1>6. ASSUME WorkStep PROVE Requested'
  <2>1. \A s \in Sessions : threads'[s].status = threads[s].status
    BY <1>6, WorkKeepsRows DEF SameRows
  <2> QED BY <1>6, <1>a, <2>1, WorkKeepsRequests
<1>7. ASSUME UNCHANGED vars PROVE Requested'
  BY <1>7 DEF vars, Requested
<1> HIDE DEF requestVars, providerVars
<1> QED
  BY <1>1, <1>2, <1>3, <1>4, <1>5, <1>6, <1>7 DEF Next, RequestStep, WorkStep

LEMMA NumberedStep ==
    TypeOK /\ Linked /\ Bounded /\ Requested /\ Numbered /\ [Next]_vars => Numbered'
<1> SUFFICES ASSUME TypeOK, Linked, Bounded, Requested, Numbered, [Next]_vars
             PROVE  Numbered'
  OBVIOUS
<1> USE DEF requestVars, providerVars
<1>0. /\ \A r \in Runs : runs[r].seq \in Nat /\ runs[r].created \in Nat
      /\ threads \in [Sessions -> ThreadRecord]
      /\ \A q \in stamped : /\ q.session \in Sessions
                            /\ q.seq \in Nat \ {0} /\ q.created \in Nat \ {0}
      /\ clock \in Nat
      /\ \A s \in Sessions : Of(s) \subseteq Runs
  BY DEF TypeOK, RunRecord, Request, Of
\* The rows of a session stay as they are, and its requests do or fail.
<1>a. ASSUME \A s \in Sessions : threads'[s].status = "present" =>
                 threads[s].status = "present" /\ Of(s)' = Of(s),
             \A r \in Runs : runs'[r].seq = runs[r].seq /\ runs'[r].created = runs[r].created,
             stamped' \subseteq stamped
      PROVE  Numbered'
  BY <1>0, <1>a DEF Numbered
<1>1. ASSUME NEW s \in Sessions, NEW r \in Runs, StartAgent(s, r) PROVE Numbered'
  <2>1. /\ runs[r].status = "absent" /\ runs' = [runs EXCEPT ![r] = QueuedRun(s, 1, clock + 1)]
        /\ threads[s].status = "absent" /\ stamped' = stamped
        /\ \A t \in Sessions \ {s} : threads'[t] = threads[t]
    BY <1>0, <1>1 DEF StartAgent
  <2>2. Of(s) = {} /\ \A q \in stamped : q.session # s
    BY <1>0, <2>1 DEF Requested, Linked, Of, ThreadOf, Kept
  <2>3. clock + 1 \in Nat /\ 1 \in Nat
    BY <1>0
  <2>4. /\ Of(s)' = {r} /\ \A t \in Sessions \ {s} : Of(t)' = Of(t)
        /\ \A q \in Runs \ {r} : runs'[q] = runs[q]
        /\ runs'[r].seq = 1
        /\ \A t \in Sessions \ {s} : r \notin Of(t)
    <3>1. \A t \in Sessions : r \notin Of(t)
      BY <2>1 DEF Of, Active, InFlight, Terminal
    <3>2. PICK at \in Nat : at = clock + 1
      BY <2>3
    <3>3. runs'[r] = QueuedRun(s, 1, at) /\ \A q \in Runs \ {r} : runs'[q] = runs[q]
      BY <2>1, <3>2 DEF TypeOK
    <3>4. /\ Of(s)' = Of(s) \cup {r} /\ \A t \in Sessions \ {s} : Of(t)' = Of(t)
          /\ runs'[r].seq = 1
      BY <2>1, <2>3, <3>3, RowAdded
    <3> QED BY <2>2, <3>1, <3>3, <3>4
  <2>5. ASSUME NEW t \in Sessions, t # s, threads'[t].status = "present"
        PROVE  Of(t)' = Of(t) /\ threads[t].status = "present"
               /\ \A q \in Of(t) : runs'[q] = runs[q]
    BY <1>0, <2>1, <2>4, <2>5
  <2> QED BY <1>0, <2>1, <2>2, <2>4, <2>5 DEF Numbered
<1>2. ASSUME NEW s \in Sessions, EnqueueCheck(s) PROVE Numbered'
  BY <1>2, <1>a DEF EnqueueCheck, Of
<1>3. ASSUME NEW s \in Sessions, EnqueueStamp(s) PROVE Numbered'
  <2> DEFINE new == [session |-> s, seq |-> NextSequence(s), created |-> clock + 1]
  <2>1. /\ stamped' = stamped \cup {new} /\ runs' = runs /\ threads' = threads
        /\ \A t \in Sessions : Of(t)' = Of(t)
    BY <1>3 DEF EnqueueStamp, Of
  <2>2. PICK n \in Nat \ {0} : n = NextSequence(s)
    BY NextIs
  <2>3. /\ \A r \in Of(s) : runs[r].seq < n
        /\ n = 1 \/ \E r \in Of(s) : n = runs[r].seq + 1
    BY <2>2, NextIs
  <2>4. new.session = s /\ new.seq = n /\ new.created = clock + 1
    BY <2>2
  <2> HIDE DEF new
  <2>5. ASSUME threads[s].status = "present", NEW p \in stamped, p.session = s
        PROVE  p.seq <= n /\ p.created < new.created
    <3>1. p.created <= clock
      BY DEF Bounded
    <3>2. p.seq = 1 \/ \E r \in Of(s) : p.seq <= runs[r].seq + 1
      BY <2>5 DEF Numbered
    <3> QED BY <1>0, <2>2, <2>3, <2>4, <3>1, <3>2
  <2>6. ASSUME NEW r \in Of(s) PROVE runs[r].seq < new.seq /\ runs[r].created < new.created
    <3>1. runs[r].created <= clock
      BY <1>0 DEF Bounded
    <3> QED BY <1>0, <2>3, <2>4, <3>1
  <2>7. ASSUME NEW t \in Sessions, threads[t].status = "present",
               NEW q \in stamped', q.session = t
        PROVE  /\ q.seq = 1 \/ \E r \in Of(t) : q.seq <= runs[r].seq + 1
               /\ \A r \in Of(t) :
                     /\ runs[r].seq < q.seq => runs[r].created < q.created
                     /\ q.seq < runs[r].seq => q.created < runs[r].created
               /\ \A p \in stamped' : p.session = t /\ p.seq < q.seq => p.created < q.created
    <3>1. CASE q \in stamped
      <4>1. /\ q.seq = 1 \/ \E r \in Of(t) : q.seq <= runs[r].seq + 1
            /\ \A r \in Of(t) :
                  /\ runs[r].seq < q.seq => runs[r].created < q.created
                  /\ q.seq < runs[r].seq => q.created < runs[r].created
            /\ \A p \in stamped : p.session = t /\ p.seq < q.seq => p.created < q.created
        BY <2>7, <3>1 DEF Numbered
      <4>2. t = s => ~(new.seq < q.seq)
        BY <1>0, <2>2, <2>4, <2>5, <2>7, <3>1
      <4> QED BY <2>1, <2>4, <4>1, <4>2
    <3>2. CASE q = new
      <4>1. t = s
        BY <2>4, <2>7, <3>2
      <4>2. q.seq = 1 \/ \E r \in Of(t) : q.seq <= runs[r].seq + 1
        BY <1>0, <2>2, <2>3, <2>4, <3>2, <4>1
      <4>3. \A r \in Of(t) : /\ runs[r].seq < q.seq => runs[r].created < q.created
                             /\ ~(q.seq < runs[r].seq)
        BY <1>0, <2>2, <2>4, <2>6, <3>2, <4>1
      <4>4. \A p \in stamped' : p.session = t /\ p.seq < q.seq => p.created < q.created
        BY <2>1, <2>2, <2>4, <2>5, <2>7, <3>2, <4>1
      <4> QED BY <4>2, <4>3, <4>4
    <3> QED BY <2>1, <2>7, <3>1, <3>2
  <2> QED BY <2>1, <2>7 DEF Numbered
<1>4. ASSUME NEW q \in stamped, NEW r \in Runs, EnqueueInsert(q, r) PROVE Numbered'
  <2> DEFINE s == q.session
  <2>1. /\ runs[r].status = "absent" /\ runs' = [runs EXCEPT ![r] = QueuedRun(s, q.seq, q.created)]
        /\ threads[s].status = "present" /\ stamped' = stamped \ {q} /\ threads' = threads
        /\ \A p \in Of(s) : runs[p].seq # q.seq
    BY <1>4 DEF EnqueueInsert, NumberTaken
  <2>2. /\ Of(s)' = Of(s) \cup {r} /\ \A t \in Sessions \ {s} : Of(t)' = Of(t)
        /\ \A p \in Runs \ {r} : runs'[p] = runs[p]
        /\ runs'[r].seq = q.seq /\ runs'[r].created = q.created
    <3>1. PICK n \in Nat, at \in Nat, t \in Sessions :
              n = q.seq /\ at = q.created /\ t = q.session
      BY <1>0
    <3>2. runs'[r] = QueuedRun(t, n, at) /\ \A p \in Runs \ {r} : runs'[p] = runs[p]
      BY <2>1, <3>1 DEF TypeOK
    <3>3. /\ Of(t)' = Of(t) \cup {r} /\ \A u \in Sessions \ {t} : Of(u)' = Of(u)
          /\ runs'[r].seq = n /\ runs'[r].created = at
      BY <2>1, <3>2, RowAdded
    <3>4. Of(s)' = Of(t)'
      BY <3>1 DEF Of
    <3>5. Of(s) = Of(t)
      BY <3>1
    <3> QED BY <3>1, <3>2, <3>3, <3>4, <3>5
  <2>3. \A t \in Sessions : r \notin Of(t)
    BY <2>1 DEF Of, Active, InFlight, Terminal
  <2>4. s \in Sessions
    BY <1>0
  <2>5. /\ \A p \in Of(s) :
              /\ runs[p].seq < q.seq => runs[p].created < q.created
              /\ q.seq < runs[p].seq => q.created < runs[p].created
        /\ \A p \in stamped : p.session = s =>
              /\ p.seq < q.seq => p.created < q.created
              /\ q.seq < p.seq => q.created < p.created
    BY <2>1, <2>4 DEF Numbered
  <2>6. ASSUME NEW t \in Sessions, threads'[t].status = "present",
               NEW p1 \in Of(t)', NEW p2 \in Of(t)'
        PROVE  /\ p1 # p2 => runs'[p1].seq # runs'[p2].seq
               /\ runs'[p1].seq < runs'[p2].seq => runs'[p1].created < runs'[p2].created
    <3>1. \A p \in Of(t) : runs'[p] = runs[p]
      BY <1>0, <2>2, <2>3
    <3>2. CASE p1 \in Of(t) /\ p2 \in Of(t)
      BY <2>1, <2>6, <3>1, <3>2 DEF Numbered
    <3>3. CASE t = s /\ (p1 = r \/ p2 = r)
      BY <1>0, <2>1, <2>2, <2>5, <3>1, <3>3
    <3> QED BY <2>2, <2>6, <3>2, <3>3
  <2>7. ASSUME NEW t \in Sessions, threads'[t].status = "present",
               NEW p \in stamped', p.session = t
        PROVE  /\ p.seq = 1 \/ \E x \in Of(t)' : p.seq <= runs'[x].seq + 1
               /\ \A x \in Of(t)' :
                     /\ runs'[x].seq < p.seq => runs'[x].created < p.created
                     /\ p.seq < runs'[x].seq => p.created < runs'[x].created
               /\ \A x \in stamped' : x.session = t /\ x.seq < p.seq => x.created < p.created
    <3>1. \A x \in Of(t) : runs'[x] = runs[x] /\ x \in Of(t)'
      BY <1>0, <2>2, <2>3
    <3>2. p \in stamped /\ stamped' \subseteq stamped
      BY <2>1, <2>7
    <3>3. /\ p.seq = 1 \/ \E x \in Of(t) : p.seq <= runs[x].seq + 1
          /\ \A x \in Of(t) :
                /\ runs[x].seq < p.seq => runs[x].created < p.created
                /\ p.seq < runs[x].seq => p.created < runs[x].created
          /\ \A x \in stamped : x.session = t /\ x.seq < p.seq => x.created < p.created
      BY <2>1, <2>7, <3>2 DEF Numbered
    <3>4. \A x \in Of(t)' \ Of(t) : t = s /\ x = r
      BY <2>2
    <3>5. \A x \in Of(t)' :
                /\ runs'[x].seq < p.seq => runs'[x].created < p.created
                /\ p.seq < runs'[x].seq => p.created < runs'[x].created
      BY <2>2, <2>5, <2>7, <3>1, <3>2, <3>3, <3>4
    <3>6. p.seq = 1 \/ \E x \in Of(t)' : p.seq <= runs'[x].seq + 1
      BY <3>1, <3>3
    <3> QED BY <3>2, <3>3, <3>5, <3>6
  <2> QED BY <2>6, <2>7 DEF Numbered
<1>5. ASSUME NEW q \in stamped, EnqueueFails(q) PROVE Numbered'
  BY <1>5, <1>a DEF EnqueueFails, Of
<1>6. ASSUME NEW s \in Sessions, DeleteSession(s) PROVE Numbered'
  BY <1>6, <1>a, RowsDeleted DEF DeleteSession
<1>7. ASSUME WorkStep PROVE Numbered'
  <2>1. SameRows /\ \A s \in Sessions : Of(s)' = Of(s)
    BY <1>7, WorkKeepsRows, SameRowsKeepSets
  <2>2. stamped' \subseteq stamped
    BY <1>7, WorkKeepsRequests
  <2> QED BY <1>a, <2>1, <2>2 DEF SameRows
<1>8. ASSUME UNCHANGED vars PROVE Numbered'
  BY <1>8, <1>a DEF vars, Of
<1> HIDE DEF requestVars, providerVars
<1> QED
  BY <1>1, <1>2, <1>3, <1>4, <1>5, <1>6, <1>7, <1>8 DEF Next, RequestStep, WorkStep

LEMMA NumbersAlways == Spec => [](Requested /\ Numbered)
<1>1. Init => Requested /\ Numbered
  BY FS_EmptySet DEF Init, Requested, Numbered
<1>2. TypeOK /\ Linked /\ Bounded /\ Requested /\ Numbered /\ [Next]_vars
          => (Requested /\ Numbered)'
  BY RequestedStep, NumberedStep
<1> QED
  BY <1>1, <1>2, RowsAlways, PTL DEF Spec

LEMMA NumberedGives == TypeOK /\ Linked /\ Numbered => QueueNumbered
<1> SUFFICES ASSUME TypeOK, Linked, Numbered, NEW s \in Sessions,
                    NEW q \in Of(s), NEW r \in Of(s)
             PROVE  /\ q # r => runs[q].seq # runs[r].seq
                    /\ runs[q].seq < runs[r].seq => runs[q].created < runs[r].created
  BY DEF QueueNumbered
<1>1. threads[s].status = "present"
  BY DEF Linked, Of, ThreadOf, Kept
<1> QED
  BY <1>1 DEF Numbered

\* The numbers of a session's runs are unique and agree with their times, though
\* requests read the last number without a lock: the unique index refuses one
\* that comes second, and no request is more than one number ahead.
THEOREM QueueIsNumbered == Spec => []QueueNumbered
BY NumberedGives, RowsAlways, NumbersAlways, PTL

\* Only the worker starts a queued run, and it takes the next one.
LEMMA StartsNext ==
    ASSUME TypeOK, Linked, AtWork, [Next]_vars, NEW r \in Runs,
           runs[r].status = "queued", runs'[r].status = "starting"
    PROVE  r \in NextQueued
<1> USE DEF requestVars, providerVars
<1>0. runs \in [Runs -> RunRecord]
  BY DEF TypeOK
<1>a. runs' # runs
  OBVIOUS
<1>b. ASSUME NEW q \in Runs, NEW st, runs' = [runs EXCEPT ![q].status = st]
      PROVE  st = "starting" /\ q = r
  BY <1>0, <1>b DEF RunRecord
<1>1. ASSUME NEW s \in Sessions, NEW q \in Runs, StartAgent(s, q) PROVE FALSE
  BY <1>0, <1>1 DEF StartAgent, QueuedRun
<1>2. ASSUME NEW p \in stamped, NEW q \in Runs, EnqueueInsert(p, q) PROVE FALSE
  BY <1>0, <1>2 DEF EnqueueInsert, QueuedRun
<1>3. ASSUME NEW s \in Sessions, EnqueueCheck(s) \/ EnqueueStamp(s) PROVE FALSE
  BY <1>3, <1>a DEF EnqueueCheck, EnqueueStamp
<1>4. ASSUME NEW q \in stamped, EnqueueFails(q) PROVE FALSE
  BY <1>4, <1>a DEF EnqueueFails
<1>5. ASSUME NEW s \in Sessions, DeleteSession(s) PROVE FALSE
  BY <1>0, <1>5 DEF DeleteSession, RunRecord
<1>6. ASSUME NEW q \in Runs, Take(q) PROVE r \in NextQueued
  BY <1>6, <1>b DEF Take
<1>7. ASSUME NEW q \in Runs, StartCodex(q) \/ ProviderReady(q) \/ CreateThread(q)
                             \/ ResumeThread(q) \/ BeginTurn(q) \/ Abandon(q)
      PROVE  FALSE
  BY <1>7, <1>a DEF StartCodex, ProviderReady, CreateThread, ResumeThread, BeginTurn,
     Abandon
<1>8. ASSUME NEW q \in Runs, Started(q) PROVE FALSE
  BY <1>0, <1>8 DEF Started, RunRecord
<1>9. ASSUME NEW q \in Runs, Completed(q) \/ EndsBadly(q) \/ Overflow(q) PROVE FALSE
  <2>1. \E st \in {"completed", "failed", "interrupted"} :
          runs' = [runs EXCEPT ![q].status = st]
    BY <1>9 DEF Completed, EndsBadly, Overflow
  <2> QED BY <1>b, <2>1
<1>10. ASSUME NEW q \in Runs, StepFails(q) \/ TimeOut(q) \/ InterruptReturns(q) PROVE FALSE
  <2>1. runs' \in {runs, FailRun(q)}
    BY <1>10 DEF StepFails, TimeOut, InterruptReturns
  <2> QED BY <1>a, <1>b, <2>1 DEF FailRun
<1>11. ASSUME NEW q \in Runs, CancelStep(q) PROVE FALSE
  <2>1. runs' \in {runs, Cancelled(q)}
    BY <1>11 DEF CancelStep, CancelAtOnce, CancelTurn, InterruptLands, CancelReturns,
       CancelFails, AfterCancel
  <2> QED BY <1>a, <1>b, <2>1 DEF Cancelled
<1>12. ASSUME ProviderStep PROVE FALSE
  BY <1>12, <1>a DEF ProviderStep, TurnEnds, InactivityTimeout, CodexDies,
     HealthStartsCodex
<1>13. ASSUME Restart PROVE FALSE
  BY <1>0, <1>13 DEF Restart, RunRecord
<1>14. ASSUME UNCHANGED vars PROVE FALSE
  BY <1>14, <1>a DEF vars
<1> HIDE DEF requestVars, providerVars
<1> QED
  BY <1>1, <1>2, <1>3, <1>4, <1>5, <1>6, <1>7, <1>8, <1>9, <1>10, <1>11, <1>12, <1>13,
     <1>14
     DEF Next, RequestStep, WorkerStep

\* The runs of a session start in the order of their queue numbers, though the
\* worker goes by their creation times.
THEOREM SessionsAreFifo == Spec => SessionFifo
<1>1. TypeOK /\ Linked /\ AtWork /\ QueueNumbered /\ [Next]_vars =>
          [\A s \in Sessions : \A q, r \in Of(s) :
              runs[r].status = "queued" /\ runs'[r].status = "starting" =>
                  ~(runs[q].status = "queued" /\ runs[q].seq < runs[r].seq)]_vars
  <2> SUFFICES ASSUME TypeOK, Linked, AtWork, QueueNumbered, [Next]_vars,
                      NEW s \in Sessions, NEW q \in Of(s), NEW r \in Of(s),
                      runs[r].status = "queued", runs'[r].status = "starting",
                      runs[q].status = "queued", runs[q].seq < runs[r].seq
               PROVE  FALSE
    OBVIOUS
  <2>1. q \in Runs /\ r \in Runs
    BY DEF Of
  <2>2. r \in NextQueued
    BY <2>1, StartsNext
  <2>3. runs[q].created < runs[r].created
    BY DEF QueueNumbered
  <2>4. q \in Queue /\ q # r
    BY <2>1 DEF Queue, TypeOK, RunRecord
  <2> QED BY <2>2, <2>3, <2>4 DEF NextQueued, Before
<1> QED
  BY <1>1, RowsAlways, AtWorkAlways, QueueIsNumbered, PTL DEF Spec, SessionFifo

\* The runs of a session that have not ended and its requests at work.
Backlog == \A s \in Sessions : threads[s].status # "deleted" =>
    Cardinality(ActiveOf(s)) + Requests(s) <= MaxQueued + MaxRequests - 1

StampedOf(s) == {q \in stamped : q.session = s}

LEMMA Counts ==
    ASSUME TypeOK, Requested, NEW s \in Sessions
    PROVE  /\ IsFiniteSet(ActiveOf(s)) /\ Cardinality(ActiveOf(s)) \in Nat
           /\ IsFiniteSet(StampedOf(s)) /\ Cardinality(StampedOf(s)) \in Nat
           /\ checked[s] \in Nat
           /\ Requests(s) = checked[s] + Cardinality(StampedOf(s))
<1>1. ActiveOf(s) \subseteq Runs /\ IsFiniteSet(Runs)
  BY AgentQueueAssumption DEF AgentQueueAssumption, ActiveOf, Of
<1>2. IsFiniteSet(ActiveOf(s)) /\ Cardinality(ActiveOf(s)) \in Nat
  BY <1>1, FS_Subset, FS_CardinalityType
<1>3. StampedOf(s) \subseteq stamped
  BY DEF StampedOf
<1>4. IsFiniteSet(StampedOf(s)) /\ Cardinality(StampedOf(s)) \in Nat
  BY <1>3, FS_Subset, FS_CardinalityType DEF Requested
<1> QED
  BY <1>2, <1>4 DEF Requests, StampedOf, TypeOK

\* An element more adds at most one.
LEMMA OneMore ==
    ASSUME NEW S, NEW x, IsFiniteSet(S)
    PROVE  Cardinality(S \cup {x}) <= Cardinality(S) + 1
<1>1. Cardinality(S) \in Nat
  BY FS_CardinalityType
<1>2. Cardinality(S \cup {x}) = Cardinality(S) \/ Cardinality(S \cup {x}) = Cardinality(S) + 1
  BY FS_AddElement
<1> QED
  BY <1>1, <1>2

LEMMA BacklogStep ==
    TypeOK /\ Linked /\ AtWork /\ TurnsDue /\ Requested /\ Backlog /\ [Next]_vars
        /\ TypeOK' /\ Requested' => Backlog'
<1> SUFFICES ASSUME TypeOK, Linked, AtWork, TurnsDue, Requested, Backlog, [Next]_vars,
                    TypeOK', Requested',
                    NEW s \in Sessions, threads'[s].status # "deleted"
             PROVE  (Cardinality(ActiveOf(s)) + Requests(s) <= MaxQueued + MaxRequests - 1)'
  BY DEF Backlog
<1> USE DEF requestVars, providerVars
<1> DEFINE Limit == MaxQueued + MaxRequests - 1
           Fits == Cardinality(ActiveOf(s))' + Requests(s)' <= Limit
<1>0. /\ IsFiniteSet(ActiveOf(s)) /\ Cardinality(ActiveOf(s)) \in Nat
      /\ IsFiniteSet(StampedOf(s)) /\ Cardinality(StampedOf(s)) \in Nat
      /\ checked[s] \in Nat
      /\ Requests(s) = checked[s] + Cardinality(StampedOf(s))
  BY Counts
<1>p. /\ IsFiniteSet(ActiveOf(s)') /\ Cardinality(ActiveOf(s)') \in Nat
      /\ IsFiniteSet(StampedOf(s)') /\ Cardinality(StampedOf(s)') \in Nat
      /\ checked'[s] \in Nat
      /\ Requests(s)' = checked'[s] + Cardinality(StampedOf(s)')
  <2>1. /\ IsFiniteSet(ActiveOf(s))' /\ (Cardinality(ActiveOf(s)) \in Nat)'
        /\ IsFiniteSet(StampedOf(s))' /\ (Cardinality(StampedOf(s)) \in Nat)'
        /\ (checked[s] \in Nat)'
        /\ (Requests(s) = checked[s] + Cardinality(StampedOf(s)))'
    BY Counts, PTL
  <2> QED BY <2>1
<1>m. /\ MaxQueued \in Nat \ {0} /\ MaxRequests \in Nat \ {0}
  BY AgentQueueAssumption DEF AgentQueueAssumption
<1>o. threads[s].status # "deleted" => Cardinality(ActiveOf(s)) + Requests(s) <= Limit
  BY DEF Backlog
<1>a. ASSUME threads[s].status # "deleted",
             Cardinality(ActiveOf(s)') <= Cardinality(ActiveOf(s)),
             checked'[s] <= checked[s],
             Cardinality(StampedOf(s)') <= Cardinality(StampedOf(s))
      PROVE  Fits
  BY <1>0, <1>p, <1>m, <1>o, <1>a
<1>b. ASSUME ActiveOf(s)' = ActiveOf(s), checked' = checked, stamped' = stamped,
             threads[s].status # "deleted"
      PROVE  Fits
  <2>1. StampedOf(s)' = StampedOf(s)
    BY <1>b DEF StampedOf
  <2> QED BY <1>0, <1>a, <1>b, <2>1
<1>c. threads \in [Sessions -> ThreadRecord] /\ checked \in [Sessions -> Nat]
  BY DEF TypeOK
<1>1. ASSUME NEW t \in Sessions, NEW r \in Runs, StartAgent(t, r) PROVE Fits
  <2>1. /\ runs[r].status = "absent" /\ UNCHANGED <<checked, stamped>>
        /\ runs'[r] = QueuedRun(t, 1, clock + 1) /\ \A q \in Runs \ {r} : runs'[q] = runs[q]
        /\ threads[t].status = "absent" /\ \A u \in Sessions \ {t} : threads'[u] = threads[u]
        /\ clock + 1 \in Nat
    BY <1>c, <1>1 DEF StartAgent, TypeOK
  <2>2. PICK at \in Nat : at = clock + 1
    BY <2>1
  <2>3. /\ ActiveOf(t)' = ActiveOf(t) \cup {r}
        /\ \A u \in Sessions \ {t} : ActiveOf(u)' = ActiveOf(u)
    BY <2>1, <2>2, RowAdded
  <2>4. CASE t # s
    BY <1>b, <2>1, <2>3, <2>4
  <2>5. CASE t = s
    <3>1. ActiveOf(s) = {}
      BY <2>1, <2>5 DEF ActiveOf, Of, Linked, ThreadOf, Kept
    <3>2. Cardinality(ActiveOf(s)') = 1
      BY <2>3, <2>5, <3>1, FS_Singleton
    <3>3. checked'[s] = 0 /\ StampedOf(s)' = {}
      BY <2>1, <2>5 DEF Requested, StampedOf
    <3>4. Cardinality(StampedOf(s)') = 0
      BY <3>3, FS_EmptySet
    <3>5. Requests(s)' = 0
      BY <1>p, <3>3, <3>4
    <3> QED BY <1>m, <3>2, <3>5
  <2> QED BY <2>4, <2>5
<1>2. ASSUME NEW t \in Sessions, EnqueueCheck(t) PROVE Fits
  <2>1. /\ ActiveOf(s)' = ActiveOf(s) /\ stamped' = stamped /\ threads' = threads
        /\ checked' = [checked EXCEPT ![t] = @ + 1]
        /\ Cardinality(ActiveOf(t)) < MaxQueued /\ Requests(t) < MaxRequests
    BY <1>2 DEF EnqueueCheck, HasRoom, ActiveOf, Of
  <2>2. StampedOf(s)' = StampedOf(s)
    BY <2>1 DEF StampedOf
  <2>3. CASE t # s
    BY <1>0, <1>a, <1>c, <2>1, <2>2, <2>3
  <2>4. CASE t = s
    <3>1. checked'[s] = checked[s] + 1
      BY <1>c, <2>1, <2>4
    <3> QED BY <1>0, <1>p, <1>m, <2>1, <2>2, <2>4, <3>1
  <2> QED BY <2>3, <2>4
<1>3. ASSUME NEW t \in Sessions, EnqueueStamp(t) PROVE Fits
  <2> DEFINE new == [session |-> t, seq |-> NextSequence(t), created |-> clock + 1]
  <2>1. /\ ActiveOf(s)' = ActiveOf(s) /\ threads' = threads /\ checked[t] > 0
        /\ checked' = [checked EXCEPT ![t] = @ - 1]
        /\ stamped' = stamped \cup {new} /\ new.session = t
    BY <1>3 DEF EnqueueStamp, ActiveOf, Of
  <2> HIDE DEF new
  <2>2. CASE t # s
    <3>1. StampedOf(s)' = StampedOf(s)
      BY <2>1, <2>2 DEF StampedOf
    <3> QED BY <1>0, <1>a, <1>c, <2>1, <2>2, <3>1
  <2>3. CASE t = s
    <3>1. StampedOf(s)' = StampedOf(s) \cup {new}
      BY <2>1, <2>3 DEF StampedOf
    <3>2. Cardinality(StampedOf(s)') <= Cardinality(StampedOf(s)) + 1
      BY <1>0, <3>1, OneMore
    <3>3. checked'[s] = checked[s] - 1
      BY <1>c, <2>1, <2>3
    <3> QED BY <1>0, <1>p, <1>m, <1>o, <2>1, <3>2, <3>3
  <2> QED BY <2>2, <2>3
<1>4. ASSUME NEW q \in stamped, NEW r \in Runs, EnqueueInsert(q, r) PROVE Fits
  <2>1. PICK n \in Nat, at \in Nat, t \in Sessions :
            n = q.seq /\ at = q.created /\ t = q.session
    BY DEF TypeOK, Request
  <2>2. /\ runs[r].status = "absent" /\ checked' = checked /\ threads' = threads
        /\ runs'[r] = QueuedRun(t, n, at) /\ \A p \in Runs \ {r} : runs'[p] = runs[p]
        /\ stamped' = stamped \ {q}
    BY <1>4, <2>1 DEF EnqueueInsert, TypeOK
  <2>3. /\ ActiveOf(t)' = ActiveOf(t) \cup {r} /\ r \notin ActiveOf(t)
        /\ \A u \in Sessions \ {t} : ActiveOf(u)' = ActiveOf(u)
    BY <2>2, RowAdded
  <2>4. CASE t # s
    <3>1. StampedOf(s)' = StampedOf(s)
      BY <2>1, <2>2, <2>4 DEF StampedOf
    <3> QED BY <1>0, <1>a, <2>2, <2>3, <2>4, <3>1
  <2>5. CASE t = s
    <3>1. StampedOf(s)' = StampedOf(s) \ {q} /\ q \in StampedOf(s)
      BY <2>1, <2>2, <2>5 DEF StampedOf
    <3>2. Cardinality(StampedOf(s)') = Cardinality(StampedOf(s)) - 1
      BY <1>0, <3>1, FS_RemoveElement
    <3>3. Cardinality(ActiveOf(s)') = Cardinality(ActiveOf(s)) + 1
      BY <1>0, <2>3, <2>5, FS_AddElement
    <3> QED BY <1>0, <1>p, <1>m, <1>o, <2>2, <3>2, <3>3
  <2> QED BY <2>4, <2>5
<1>5. ASSUME NEW q \in stamped, EnqueueFails(q) PROVE Fits
  <2>1. /\ ActiveOf(s)' = ActiveOf(s) /\ checked' = checked /\ threads' = threads
        /\ StampedOf(s)' \subseteq StampedOf(s)
    BY <1>5 DEF EnqueueFails, ActiveOf, Of, StampedOf
  <2>2. Cardinality(StampedOf(s)') <= Cardinality(StampedOf(s))
    BY <1>0, <2>1, FS_Subset
  <2> QED BY <1>0, <1>a, <2>1, <2>2
<1>6. ASSUME NEW t \in Sessions, DeleteSession(t) PROVE Fits
  <2>1. t # s
    BY <1>6, RowsDeleted
  <2> QED BY <1>6, <1>b, <2>1, RowsDeleted DEF DeleteSession
<1>7. ASSUME WorkStep PROVE Fits
  <2>1. SameRows /\ Of(s)' = Of(s)
    BY <1>7, WorkKeepsRows, SameRowsKeepSets
  <2>2. ActiveOf(s)' \subseteq ActiveOf(s)
    <3>1. \A r \in Of(s) : Moves(r)
      BY StatusMoves DEF Of
    <3>2. \A r \in Of(s) : runs'[r].status \in Active => runs[r].status \in Active
      BY <3>1 DEF Moves, Of, Active, InFlight, Terminal
    <3> QED BY <2>1, <3>2 DEF ActiveOf
  <2>3. Cardinality(ActiveOf(s)') <= Cardinality(ActiveOf(s))
    BY <1>0, <2>2, FS_Subset
  <2>4. checked'[s] \in {checked[s], 0} /\ StampedOf(s)' \subseteq StampedOf(s)
    BY <1>7, WorkKeepsRequests DEF StampedOf
  <2>5. Cardinality(StampedOf(s)') <= Cardinality(StampedOf(s))
    BY <1>0, <2>4, FS_Subset
  <2>6. threads[s].status # "deleted"
    BY <2>1 DEF SameRows
  <2> QED BY <1>0, <1>a, <2>3, <2>4, <2>5, <2>6
<1>8. ASSUME UNCHANGED vars PROVE Fits
  BY <1>8, <1>b DEF vars, ActiveOf, Of
<1> HIDE DEF requestVars, providerVars, Fits
<1>9. Fits
  BY <1>1, <1>2, <1>3, <1>4, <1>5, <1>6, <1>7, <1>8 DEF Next, RequestStep, WorkStep
<1> QED
  BY <1>9 DEF Fits

LEMMA BacklogAlways == Spec => []Backlog
<1>1. Init => Backlog
  <2> SUFFICES ASSUME Init, NEW s \in Sessions
               PROVE  Cardinality(ActiveOf(s)) + Requests(s) <= MaxQueued + MaxRequests - 1
    BY DEF Backlog
  <2>1. ActiveOf(s) = {} /\ {q \in stamped : q.session = s} = {} /\ checked[s] = 0
    BY DEF Init, ActiveOf, Of, Active, InFlight, Terminal
  <2>2. Cardinality({}) = 0
    BY FS_EmptySet
  <2>3. Cardinality(ActiveOf(s)) = 0 /\ Requests(s) = 0
    BY <2>1, <2>2 DEF Requests
  <2> QED BY <2>3, AgentQueueAssumption DEF AgentQueueAssumption
<1>2. TypeOK /\ Linked /\ AtWork /\ TurnsDue /\ Requested /\ Backlog /\ [Next]_vars
          /\ TypeOK' /\ Requested' => Backlog'
  BY BacklogStep
<1> QED
  BY <1>1, <1>2, RowsAlways, AtWorkAlways, TurnsDueAlways, NumbersAlways, PTL DEF Spec

\* The queue of a session never holds more than its limit and the requests that
\* were let in together, less one: every run or request that is in has been let
\* in, and the last to be let in saw less than the limit.
THEOREM QueueIsBounded == Spec => []QueueBounded
<1>1. TypeOK /\ Linked /\ Requested /\ Backlog => QueueBounded
  <2> SUFFICES ASSUME TypeOK, Linked, Requested, Backlog, NEW s \in Sessions
               PROVE  Cardinality(ActiveOf(s)) <= MaxQueued + MaxRequests - 1
    BY DEF QueueBounded
  <2>0. MaxQueued \in Nat \ {0} /\ MaxRequests \in Nat \ {0}
    BY AgentQueueAssumption DEF AgentQueueAssumption
  <2>1. CASE threads[s].status # "deleted"
    BY <2>0, <2>1, Counts DEF Backlog
  <2>2. CASE threads[s].status = "deleted"
    <3>1. ActiveOf(s) = {}
      BY <2>2 DEF ActiveOf, Of, Linked, ThreadOf, Kept
    <3> QED BY <2>0, <3>1, FS_EmptySet
  <2> QED BY <2>1, <2>2
<1> QED
  BY <1>1, RowsAlways, NumbersAlways, BacklogAlways, PTL

=============================================================================
