---------------------------- MODULE SettingsProofs ----------------------------
(* Proofs about the global settings, for any number of PATCH requests with   *)
(* any keys, of failures, crashes and damages.                               *)
EXTENDS ServerSettings, TLAPS

-----------------------------------------------------------------------------
(* The inductive invariant.                                                *)

Writes == {"keep", "primary", "seed", "backup"}
Settings == [keys : [Keys -> Nat], version : Nat]
Stored == [state : {"missing", "damaged", "valid"}, value : Settings]
Put == [provider : Executables, was : Nat]
Steps == {"idle", "validating", "replacing", "replaced", "update", "saving", "rollback"}
Requests == [at : Steps, keys : SUBSET Keys, to : Nat, current : Settings,
             todo : Seq(Executables), replaced : Seq(Put)]

FilesTyped ==
    /\ primary \in Stored /\ backup \in Stored
    /\ previous \in Settings
    /\ job \in [task : Tasks \cup {Nobody}, saves : BOOLEAN, todo : Seq(Writes), value : Settings]
TasksTyped ==
    /\ running \in [Executables -> Nat]
    /\ pc \in [Tasks -> Requests]
    /\ asked \in Nat /\ damages \in Nat /\ unrepaired \in BOOLEAN

\* What the two files are between any two writes: never both lost, and where they
\* differ, the backup holds the value before the latest change.
FilesFit ==
    /\ primary.state = "damaged" => damages > 0 /\ backup.state # "damaged"
    /\ primary.state = "missing" => backup.state = "missing"
    /\ backup.state = "missing" => previous = Defaults
    /\ primary.state = "valid" /\ backup.state = "valid" =>
          backup.value \in {primary.value, previous}

\* How far a save has come, and what it has left behind;
Saving ==
    \/ job.todo = <<"keep", "primary", "seed">>
    \/ /\ job.todo = <<"primary", "seed">>
       /\ primary.state = "valid" =>
             /\ backup.state # "missing"
             /\ backup.state = "valid" => backup.value = primary.value
    \/ /\ job.todo = <<"seed">>
       /\ primary.state # "missing"
       /\ primary.state = "valid" => primary.value = job.value

\* and a repair.
Repairing ==
    \/ /\ job.todo = <<"primary">>
       /\ primary.state = "damaged"
       /\ backup.state = "valid" /\ backup.value = job.value
    \/ /\ job.todo = <<"primary", "backup">>
       /\ primary.state = "damaged"
       /\ backup.state = "missing" /\ job.value = Defaults
    \/ /\ job.todo = <<"backup">>
       /\ primary.state # "missing"
       /\ primary.state = "valid" => primary.value = Defaults
       /\ backup.state = "missing" /\ job.value = Defaults

JobFits ==
    IF job.task = Nobody THEN job.todo = <<>> /\ job.saves = FALSE
    ELSE IF job.saves = TRUE THEN Saving
    ELSE Repairing

FilesInv == FilesTyped /\ FilesFit /\ JobFits

-----------------------------------------------------------------------------
(* What each request knows of the settings.                                *)

\* The settings of this task are still to be written.
Unwritten(t) == job.task = t /\ job.saves = TRUE /\ job.todo # <<"seed">>

Saver(t) == job.task = t /\ job.saves = TRUE => pc[t].at = "saving"

\* The prompts a request has begun with may be old.
Outdated(k) == k \in Prompts /\ (Prompts \in mixed \/ damages > 0)

\* What a save is about to write changes what the request has asked for, no more.
WritesOwn(t) ==
    Unwritten(t) =>
        /\ primary.state # "damaged" =>
              \A k \in Keys \ pc[t].keys : job.value.keys[k] = Loaded.keys[k] \/ Outdated(k)
        /\ t \in Patches => \A k \in pc[t].keys : job.value.keys[k] = pc[t].to

BeforeSave == {"validating", "replacing", "replaced", "update"}

PromptsKnown(t) ==
    pc[t].at \in BeforeSave /\ Prompts \cap pc[t].keys # {} =>
        \A k \in Prompts : pc[t].current.keys[k] = Loaded.keys[k] \/ Outdated(k)

Placed(t) ==
    /\ pc[t].at = "idle" => pc[t] = Idle
    /\ t \notin Patches =>
          /\ pc[t].at \in {"idle", "update", "saving"}
          /\ Executables \cap pc[t].keys = {} /\ pc[t].replaced = <<>>
    /\ t = "launcher" => pc[t].at # "update"

Overlapping ==
    \A t, u \in Tasks : \A g \in {Prompts, Executables} :
        t # u /\ g \cap pc[t].keys # {} /\ g \cap pc[u].keys # {} => g \in mixed

-----------------------------------------------------------------------------
(* What each request has done to the providers.                            *)

Clean == Executables \notin mixed /\ unrepaired = FALSE /\ damages = 0

ReplacedBy(t, p) == \E i \in DOMAIN pc[t].replaced : pc[t].replaced[i].provider = p
ToReplace(t, p) == \E i \in DOMAIN pc[t].todo : pc[t].todo[i] = p

\* A request that may still be rolled back.
InHand(t) == pc[t].at \in {"replacing", "replaced", "update", "rollback"} \/ Unwritten(t)

ListsFit(t) ==
    /\ \A i \in DOMAIN pc[t].replaced : pc[t].replaced[i].provider \in pc[t].keys
    /\ \A i, j \in DOMAIN pc[t].replaced :
          pc[t].replaced[i].provider = pc[t].replaced[j].provider => i = j
    /\ \A i \in DOMAIN pc[t].todo : pc[t].todo[i] \in pc[t].keys
    /\ \A i, j \in DOMAIN pc[t].todo : pc[t].todo[i] = pc[t].todo[j] => i = j
    /\ pc[t].at \in BeforeSave =>
          \A p \in Executables : ~(ToReplace(t, p) /\ ReplacedBy(t, p))
    /\ pc[t].at = "validating" => pc[t].replaced = <<>>
    /\ pc[t].at = "replacing" => pc[t].todo # <<>>
    /\ pc[t].at = "update" \/ Unwritten(t) => pc[t].todo = <<>>
    /\ pc[t].at \in {"replaced", "rollback"} => pc[t].replaced # <<>>

\* What a request has replaced runs what it asks for, and the file has what it ran before.
PutsFit(t) ==
    Clean /\ InHand(t) => \A i \in DOMAIN pc[t].replaced :
        /\ running[pc[t].replaced[i].provider] = pc[t].to
        /\ pc[t].replaced[i].was = Loaded.keys[pc[t].replaced[i].provider]

\* A request for an executable the file does not have has replaced it or will.
CoversFit(t) ==
    Clean /\ (pc[t].at \in BeforeSave \/ Unwritten(t)) =>
        \A p \in Executables \cap pc[t].keys :
            pc[t].to = Loaded.keys[p] \/ ToReplace(t, p) \/ ReplacedBy(t, p)

\* A provider that does not run what the file has was replaced by a request in hand.
RunningFits ==
    Clean => \A p \in Executables :
        running[p] = Loaded.keys[p] \/ \E t \in Tasks : InHand(t) /\ ReplacedBy(t, p)

Fits(t) ==
    /\ Saver(t) /\ WritesOwn(t) /\ PromptsKnown(t) /\ Placed(t)
    /\ ListsFit(t) /\ PutsFit(t) /\ CoversFit(t)

TasksInv ==
    /\ TasksTyped
    /\ \A t \in Tasks : Fits(t)
    /\ Overlapping /\ RunningFits

IInv == FilesInv /\ TasksInv

-----------------------------------------------------------------------------
(* The files.                                                              *)

LEMMA DefaultsTyped == Defaults \in Settings
BY DEF Defaults, Settings

LEMMA LoadedTyped ==
    ASSUME FilesTyped
    PROVE  Loaded \in Settings
BY DefaultsTyped DEF FilesTyped, Loaded, Stored

\* A step of the register: what changes is the value, and then the value before it is
\* kept, or the value before it is back.
Registered == previous' = Loaded \/ (previous' = previous /\ Loaded' \in {Loaded, previous})

\* A write of the settings of the holder of the lock,
SaveWritten ==
    /\ job.saves = TRUE /\ job.todo # <<"seed">> /\ job.task # Nobody
    /\ Loaded' = job.value
    /\ job'.task = job.task /\ job'.todo = <<"seed">>

\* and any other.
Unseen ==
    /\ primary.state # "damaged" => Loaded' = Loaded
    /\ job' = job \/ job'.task = Nobody \/ (job'.task = job.task /\ job'.saves = job.saves)
    /\ \A t \in Tasks : Unwritten(t)' <=> Unwritten(t)
    /\ \A t \in Tasks : Unwritten(t) => job'.value = job.value /\ primary' = primary

LEMMA WritesLeft ==
    /\ Tail(<<"keep", "primary", "seed">>) = <<"primary", "seed">>
    /\ Tail(<<"primary", "seed">>) = <<"seed">>
    /\ Tail(<<"primary", "backup">>) = <<"backup">>
    /\ <<"keep", "primary", "seed">> \in Seq(Writes) /\ <<"primary", "backup">> \in Seq(Writes)
    /\ <<"primary", "seed">> \in Seq(Writes) /\ <<"primary">> \in Seq(Writes)
    /\ <<"seed">> \in Seq(Writes) /\ <<"backup">> \in Seq(Writes) /\ <<>> \in Seq(Writes)
<1>1. ASSUME NEW a, NEW b, NEW c PROVE Tail(<<a, b, c>>) = <<b, c>> /\ Tail(<<a, b>>) = <<b>>
  OBVIOUS
<1>2. ASSUME NEW S, NEW a \in S, NEW b \in S, NEW c \in S
      PROVE  <<a>> \in Seq(S) /\ <<a, b>> \in Seq(S) /\ <<a, b, c>> \in Seq(S)
  OBVIOUS
<1> QED BY <1>1, <1>2 DEF Writes

LEMMA WriteKeeps ==
    ASSUME FilesInv, Write
    PROVE  /\ FilesInv'
           /\ Registered
           /\ SaveWritten \/ Unseen
<1> USE DEF FilesInv
<1>0. job.task \in Tasks /\ job.task # Nobody
  BY DEF Write, JobFits, FilesTyped
<1>1. Loaded \in Settings /\ job.value \in Settings /\ Free.task = Nobody /\ Free.saves = FALSE
      /\ Free.todo = <<>> /\ Free \in [task : Tasks \cup {Nobody}, saves : BOOLEAN,
                                       todo : Seq(Writes), value : Settings]
  BY LoadedTyped, DefaultsTyped DEF Free, FilesTyped
\* What the lock's holder is left with.
<1> DEFINE Rest(s) == /\ job'.task = job.task /\ job'.saves = job.saves
                      /\ job'.value = job.value /\ job'.todo = s
<1>2. ASSUME job.todo # <<>>, Len(job.todo) # 1, Tail(job.todo) \in Seq(Writes)
      PROVE  Rest(Tail(job.todo)) /\ job' \in [task : Tasks \cup {Nobody}, saves : BOOLEAN,
                                               todo : Seq(Writes), value : Settings]
  BY <1>2 DEF Write, FilesTyped
<1>3. UNCHANGED damages /\ WriteFile
  BY DEF Write
<1>a. CASE job.saves = TRUE /\ job.todo = <<"keep", "primary", "seed">>
  <2>1. Rest(<<"primary", "seed">>) /\ FilesTyped'
    <3>1. job.todo # <<>> /\ Len(job.todo) # 1 /\ Tail(job.todo) = <<"primary", "seed">>
          /\ <<"primary", "seed">> \in Seq(Writes)
      BY <1>a, WritesLeft
    <3>2. Rest(<<"primary", "seed">>) /\ job' \in [task : Tasks \cup {Nobody}, saves : BOOLEAN,
                                   todo : Seq(Writes), value : Settings]
      BY <3>1, <1>2
    <3>3. primary' \in Stored /\ backup' \in Stored /\ previous' \in Settings
      BY <1>a, <1>1, <1>3 DEF WriteFile, Step, FilesTyped, Stored
    <3> QED BY <3>2, <3>3 DEF FilesTyped
  <2>2. primary' = primary /\ previous' = previous
        /\ backup' = IF primary.state = "valid" THEN primary ELSE backup
    BY <1>a, <1>3 DEF WriteFile, Step
  <2>3. FilesFit' /\ Loaded' = Loaded
    BY <2>2, <1>3 DEF FilesFit, FilesTyped, Stored, Loaded
  <2>4. JobFits'
    BY <2>1, <2>2, <1>0, <1>a DEF JobFits, Saving
  <2>5. Unseen
    BY <2>1, <2>2, <2>3, <1>a DEF Unseen, Unwritten
  <2> QED BY <2>1, <2>2, <2>3, <2>4, <2>5 DEF Registered
<1>b. CASE job.saves = TRUE /\ job.todo = <<"primary", "seed">>
  <2>1. Rest(<<"seed">>) /\ FilesTyped'
    <3>1. job.todo # <<>> /\ Len(job.todo) # 1 /\ Tail(job.todo) = <<"seed">>
          /\ <<"seed">> \in Seq(Writes)
      BY <1>b, WritesLeft
    <3>2. Rest(<<"seed">>) /\ job' \in [task : Tasks \cup {Nobody}, saves : BOOLEAN,
                                   todo : Seq(Writes), value : Settings]
      BY <3>1, <1>2
    <3>3. primary' \in Stored /\ backup' \in Stored /\ previous' \in Settings
      BY <1>b, <1>1, <1>3 DEF WriteFile, Step, FilesTyped, Stored, Valid
    <3> QED BY <3>2, <3>3 DEF FilesTyped
  <2>2. primary' = Valid(job.value) /\ previous' = Loaded /\ backup' = backup
    BY <1>b, <1>3 DEF WriteFile, Step
  <2>3. primary'.state = "valid" /\ primary'.value = job.value /\ Loaded' = job.value
    BY <2>2 DEF Valid, Loaded
  <2>4. primary.state = "valid" => backup.state # "missing"
                                   /\ (backup.state = "valid" => backup.value = primary.value)
    BY <1>0, <1>b DEF JobFits, Saving
  <2>5. FilesFit'
    BY <2>2, <2>3, <2>4, <1>3 DEF FilesFit, FilesTyped, Stored, Loaded
  <2>6. JobFits'
    BY <2>1, <2>3, <1>0, <1>b DEF JobFits, Saving
  <2> QED BY <2>1, <2>2, <2>3, <2>5, <2>6, <1>0, <1>b DEF SaveWritten, Registered
<1>c. CASE job.saves = TRUE /\ job.todo = <<"seed">>
  <2>1. job' = Free /\ FilesTyped'
    BY <1>c, <1>1, <1>3 DEF Write, WriteFile, Step, FilesTyped, Stored, Valid
  <2>2. primary' = primary /\ previous' = previous
        /\ backup' = IF backup.state = "valid" THEN backup ELSE Valid(job.value)
    BY <1>c, <1>3 DEF WriteFile, Step
  <2>3. /\ primary.state # "missing"
        /\ primary.state = "valid" => primary.value = job.value
    BY <1>0, <1>c DEF JobFits, Saving
  <2>4. FilesFit'
    BY <2>2, <2>3, <1>3 DEF FilesFit, FilesTyped, Stored, Loaded, Valid
  <2>5. primary.state # "damaged" => Loaded' = Loaded
    BY <2>2, <2>3 DEF FilesTyped, Stored, Loaded
  <2>6. Registered
    <3>1. CASE primary.state = "damaged" /\ backup.state # "valid"
      BY <3>1, <2>2 DEF Registered, FilesFit, FilesTyped, Stored, Loaded
    <3> QED BY <3>1, <2>2, <2>5 DEF Registered, Loaded
  <2>7. JobFits' /\ Unseen
    BY <2>1, <2>5, <1>0, <1>1, <1>c, SettingsAssumption
    DEF JobFits, Unseen, Unwritten, SettingsAssumption, Tasks
  <2> QED BY <2>1, <2>4, <2>6, <2>7
<1>d. CASE job.saves = FALSE /\ job.todo = <<"primary">>
  <2>1. job' = Free /\ FilesTyped'
    BY <1>d, <1>1, <1>3 DEF Write, WriteFile, Step, FilesTyped, Stored, Valid
  <2>2. primary' = Valid(job.value) /\ previous' = previous /\ backup' = backup
    BY <1>d, <1>3 DEF WriteFile, Step
  <2>3. primary.state = "damaged" /\ backup.state = "valid" /\ backup.value = job.value
    BY <1>0, <1>d DEF JobFits, Repairing
  <2>4. FilesFit' /\ Loaded' = Loaded
    BY <2>2, <2>3, <1>3 DEF FilesFit, FilesTyped, Stored, Loaded, Valid
  <2>5. JobFits' /\ Unseen
    BY <2>1, <2>4, <1>0, <1>1, <1>d, SettingsAssumption
    DEF JobFits, Unseen, Unwritten, SettingsAssumption, Tasks
  <2> QED BY <2>1, <2>2, <2>4, <2>5 DEF Registered
<1>e. CASE job.saves = FALSE /\ job.todo = <<"primary", "backup">>
  <2>1. Rest(<<"backup">>) /\ FilesTyped'
    <3>1. job.todo # <<>> /\ Len(job.todo) # 1 /\ Tail(job.todo) = <<"backup">>
          /\ <<"backup">> \in Seq(Writes)
      BY <1>e, WritesLeft
    <3>2. Rest(<<"backup">>) /\ job' \in [task : Tasks \cup {Nobody}, saves : BOOLEAN,
                                   todo : Seq(Writes), value : Settings]
      BY <3>1, <1>2
    <3>3. primary' \in Stored /\ backup' \in Stored /\ previous' \in Settings
      BY <1>e, <1>1, <1>3 DEF WriteFile, Step, FilesTyped, Stored, Valid
    <3> QED BY <3>2, <3>3 DEF FilesTyped
  <2>2. primary' = Valid(job.value) /\ previous' = previous /\ backup' = backup
    BY <1>e, <1>3 DEF WriteFile, Step
  <2>3. primary.state = "damaged" /\ backup.state = "missing" /\ job.value = Defaults
    BY <1>0, <1>e DEF JobFits, Repairing
  <2>4. FilesFit' /\ Loaded' = Loaded
    BY <2>2, <2>3, <1>3 DEF FilesFit, FilesTyped, Stored, Loaded, Valid
  <2>5. JobFits' /\ Unseen
    BY <2>1, <2>2, <2>3, <2>4, <1>0, <1>e DEF JobFits, Repairing, Unseen, Unwritten, Valid
  <2> QED BY <2>1, <2>2, <2>4, <2>5 DEF Registered
<1>f. CASE job.saves = FALSE /\ job.todo = <<"backup">>
  <2>1. job' = Free /\ FilesTyped'
    BY <1>f, <1>1, <1>3 DEF Write, WriteFile, Step, FilesTyped, Stored, Valid
  <2>2. primary' = primary /\ previous' = previous /\ backup' = Valid(job.value)
    BY <1>f, <1>3 DEF WriteFile, Step
  <2>3. /\ primary.state # "missing"
        /\ primary.state = "valid" => primary.value = Defaults
        /\ backup.state = "missing" /\ job.value = Defaults
    BY <1>0, <1>f DEF JobFits, Repairing
  <2>4. FilesFit' /\ Loaded' = Loaded
    BY <2>2, <2>3, <1>3 DEF FilesFit, FilesTyped, Stored, Loaded, Valid
  <2>5. JobFits' /\ Unseen
    BY <2>1, <2>4, <1>0, <1>1, <1>f, SettingsAssumption
    DEF JobFits, Unseen, Unwritten, SettingsAssumption, Tasks
  <2> QED BY <2>1, <2>2, <2>4, <2>5 DEF Registered
<1> QED
  BY <1>0, <1>a, <1>b, <1>c, <1>d, <1>e, <1>f DEF JobFits, Saving, Repairing, FilesTyped

LEMMA RecoverKeeps ==
    ASSUME FilesInv, NEW t \in Tasks, Recover(t)
    PROVE  /\ FilesInv' /\ Loaded' = Loaded /\ previous' = previous
           /\ job.task = Nobody /\ job'.saves = FALSE
<1>1. t # Nobody
  BY SettingsAssumption DEF SettingsAssumption, Tasks
<1>2. /\ job' = [task |-> t, saves |-> FALSE, todo |-> Repairs, value |-> Loaded]
      /\ UNCHANGED <<primary, backup, previous, damages>> /\ Repairs # <<>> /\ job.task = Nobody
  BY DEF Recover, Unlocked
<1>3. Repairs \in Seq(Writes)
  BY WritesLeft DEF Repairs
<1>4. FilesTyped' /\ Loaded' = Loaded
  BY <1>2, <1>3, LoadedTyped DEF FilesInv, FilesTyped, Loaded
<1>5. /\ job'.task = t /\ job'.saves = FALSE /\ job'.todo = Repairs /\ job'.value = Loaded
  BY <1>2
<1>6. \/ Repairs = <<"primary">> /\ primary.state = "damaged" /\ backup.state = "valid"
      \/ Repairs = <<"primary", "backup">> /\ primary.state = "damaged" /\ backup.state = "missing"
  BY <1>2 DEF Repairs, FilesInv, FilesTyped, FilesFit, Stored
<1>7. JobFits'
  BY <1>1, <1>2, <1>5, <1>6 DEF JobFits, Repairing, Loaded
<1> QED
  BY <1>2, <1>4, <1>5, <1>7 DEF FilesInv, FilesFit

LEMMA HoldKeeps ==
    ASSUME FilesInv, NEW t \in Tasks, NEW v \in Settings,
           job' = [task |-> t, saves |-> TRUE, todo |-> Saves, value |-> v],
           UNCHANGED <<primary, backup, previous, damages>>
    PROVE  /\ FilesInv' /\ Loaded' = Loaded
           /\ job'.task = t /\ job'.saves = TRUE /\ job'.value = v /\ job'.todo # <<"seed">>
<1>1. job'.task = t /\ job'.saves = TRUE /\ job'.value = v
      /\ job'.todo = <<"keep", "primary", "seed">> /\ job'.todo # <<"seed">>
  BY DEF Saves
<1>2. t # Nobody
  BY SettingsAssumption DEF SettingsAssumption, Tasks
<1>3. FilesTyped' /\ Loaded' = Loaded
  BY WritesLeft DEF FilesInv, FilesTyped, Loaded, Saves
<1> QED
  BY <1>1, <1>2, <1>3 DEF FilesInv, FilesFit, JobFits, Saving

LEMMA ReleaseKeeps ==
    ASSUME FilesInv, job' = Free \/ job' = job, UNCHANGED <<primary, backup, previous, damages>>
    PROVE  FilesInv' /\ Loaded' = Loaded /\ Free.task = Nobody
<1>1. Free.task = Nobody /\ Free.saves = FALSE /\ Free.todo = <<>>
      /\ Free \in [task : Tasks \cup {Nobody}, saves : BOOLEAN, todo : Seq(Writes), value : Settings]
  BY DefaultsTyped DEF Free
<1> QED
  BY <1>1 DEF FilesInv, FilesTyped, FilesFit, JobFits, Saving, Repairing, Loaded

LEMMA DamageKeeps ==
    ASSUME FilesInv, TasksTyped, Damage
    PROVE  /\ FilesInv' /\ Registered /\ damages' > 0 /\ damages' \in Nat
           /\ primary'.state # "damaged" => primary.state # "damaged" /\ Loaded' = Loaded
<1>1. /\ damages' = damages + 1 /\ damages \in Nat
      /\ primary.state # "damaged" /\ backup.state # "damaged"
      /\ UNCHANGED <<previous, job>>
  BY DEF Damage, TasksTyped
<1>2. CASE /\ primary.state = "valid"
           /\ primary' = [state |-> "damaged", value |-> Defaults]
           /\ UNCHANGED backup
  <2>1. primary'.state = "damaged" /\ primary' \in Stored
    BY <1>2, DefaultsTyped DEF Stored
  <2>2. FilesTyped'
    BY <1>1, <1>2, <2>1 DEF FilesInv, FilesTyped
  <2>3. FilesFit'
    BY <1>1, <1>2, <2>1 DEF FilesInv, FilesFit
  <2>4. JobFits'
    BY <1>1, <1>2, <2>1 DEF FilesInv, JobFits, Saving, Repairing
  <2>5. Registered
    BY <1>1, <1>2, <2>1 DEF FilesInv, FilesTyped, FilesFit, Registered, Loaded, Stored
  <2> QED BY <1>1, <2>1, <2>2, <2>3, <2>4, <2>5 DEF FilesInv
<1>3. CASE /\ backup.state = "valid"
           /\ backup' = [state |-> "damaged", value |-> Defaults]
           /\ UNCHANGED primary
  <2>1. backup'.state = "damaged" /\ backup' \in Stored
    BY <1>3, DefaultsTyped DEF Stored
  <2>2. FilesTyped'
    BY <1>1, <1>3, <2>1 DEF FilesInv, FilesTyped
  <2>3. FilesFit' /\ primary.state = "valid"
    BY <1>1, <1>3, <2>1 DEF FilesInv, FilesTyped, FilesFit, Stored
  <2>4. JobFits'
    BY <1>1, <1>3, <2>1, <2>3 DEF FilesInv, JobFits, Saving, Repairing
  <2>5. Loaded' = Loaded
    BY <1>3, <2>3 DEF Loaded
  <2> QED BY <1>1, <1>3, <2>2, <2>3, <2>4, <2>5 DEF FilesInv, Registered
<1> QED
  BY <1>2, <1>3 DEF Damage

-----------------------------------------------------------------------------
(* Steps that only touch the files.                                        *)

LEMMA UnseenKeeps ==
    ASSUME TasksInv, UNCHANGED <<pc, running, asked, mixed, unrepaired>>,
           damages' \in Nat, damages' >= damages, Loaded' = Loaded \/ damages' > 0,
           \A t \in Tasks : Unwritten(t)' <=> Unwritten(t),
           \A t \in Tasks : Unwritten(t) =>
                /\ job'.value = job.value
                /\ primary'.state # "damaged" => primary.state # "damaged" /\ Loaded' = Loaded,
           \A t \in Tasks : job'.task = t /\ job'.saves = TRUE => job.task = t /\ job.saves = TRUE
    PROVE  TasksInv'
<1>1. TasksTyped' /\ damages \in Nat
  BY DEF TasksInv, TasksTyped
<1>2. Clean' => Clean /\ Loaded' = Loaded
  BY <1>1 DEF Clean
<1>3. \A k : Outdated(k) => Outdated(k)'
  BY <1>1 DEF Outdated
<1>4. ASSUME NEW t \in Tasks PROVE Fits(t)'
  <2>0. Fits(t)
    BY DEF TasksInv
  <2>1. Saver(t)' /\ Placed(t)'
    BY <2>0 DEF Fits, Saver, Placed
  <2>2. WritesOwn(t)'
    BY <2>0, <1>3 DEF Fits, WritesOwn
  <2>3. PromptsKnown(t)'
    BY <2>0, <1>1, <1>3 DEF Fits, PromptsKnown, Outdated
  <2>4. ListsFit(t)'
    BY <2>0 DEF Fits, ListsFit, ToReplace, ReplacedBy
  <2>5. PutsFit(t)'
    BY <2>0, <1>2 DEF Fits, PutsFit, InHand
  <2>6. CoversFit(t)'
    BY <2>0, <1>2 DEF Fits, CoversFit, ToReplace, ReplacedBy
  <2> QED BY <2>1, <2>2, <2>3, <2>4, <2>5, <2>6 DEF Fits
<1>5. Overlapping' /\ RunningFits'
  BY <1>2 DEF TasksInv, Overlapping, RunningFits, InHand, ReplacedBy
<1> QED BY <1>1, <1>4, <1>5 DEF TasksInv

LEMMA PutTyped ==
    ASSUME TasksTyped, NEW t \in Tasks, NEW i \in DOMAIN pc[t].replaced
    PROVE  pc[t].replaced[i].provider \in Executables /\ pc[t].replaced[i].was \in Nat
<1>1. pc[t] \in Requests
  BY DEF TasksTyped
<1>2. pc[t].replaced \in Seq(Put)
  BY <1>1 DEF Requests
<1>3. pc[t].replaced[i] \in Put
  BY <1>2
<1> QED BY <1>3 DEF Put

\* What a step changes of the settings: nothing a request that is not at work has set.
OwnOnly ==
    \A k \in Keys : Loaded'.keys[k] # Loaded.keys[k] /\ primary.state # "damaged" =>
        k \in pc[job.task].keys \/ Outdated(k)

LEMMA SavedKeeps ==
    ASSUME IInv, SaveWritten, FilesInv',
           UNCHANGED <<pc, running, asked, mixed, unrepaired, damages>>
    PROVE  TasksInv' /\ OwnOnly
<1> DEFINE u == job.task
<1>1. /\ u \in Tasks /\ Unwritten(u) /\ Fits(u) /\ pc[u].at = "saving"
      /\ Loaded' = job.value
      /\ \A t \in Tasks : ~Unwritten(t)'
      /\ \A t \in Tasks \ {u} : ~Unwritten(t)
  BY DEF SaveWritten, Unwritten, IInv, FilesInv, FilesTyped, TasksInv, Fits, Saver
<1>2. damages = 0 => primary.state # "damaged"
  BY DEF IInv, FilesInv, FilesFit
<1>3. primary.state # "damaged" =>
        \A k \in Keys \ pc[u].keys : Loaded'.keys[k] = Loaded.keys[k] \/ Outdated(k)
  BY <1>1 DEF Fits, WritesOwn
<1>4. \A p \in Executables : p \in Keys /\ p \notin Prompts /\ ~Outdated(p)
  BY DEF Executables, Keys, Prompts, Outdated
<1>5. Prompts \subseteq Keys
  BY DEF Keys
<1>6. ASSUME Clean, NEW p \in Executables, p \notin pc[u].keys
      PROVE  Loaded'.keys[p] = Loaded.keys[p]
  BY <1>2, <1>3, <1>4, <1>6 DEF Clean
<1>7. ASSUME Clean, NEW t \in Tasks \ {u}, NEW p \in Executables, p \in pc[t].keys
      PROVE  Loaded'.keys[p] = Loaded.keys[p] /\ p \notin pc[u].keys
  <2>1. p \notin pc[u].keys
    BY <1>1, <1>7 DEF IInv, TasksInv, Overlapping, Clean
  <2> QED BY <2>1, <1>6, <1>7
<1>8. TasksTyped'
  BY DEF IInv, TasksInv, TasksTyped
<1>9. ASSUME NEW t \in Tasks PROVE Fits(t)'
  <2>0. Fits(t)
    BY DEF IInv, TasksInv
  <2>1. Saver(t)' /\ Placed(t)' /\ WritesOwn(t)'
    BY <2>0, <1>1 DEF Fits, Saver, Placed, WritesOwn, SaveWritten, IInv, FilesInv, FilesTyped
  <2>2. PromptsKnown(t)'
    <3>1. SUFFICES ASSUME pc[t].at \in BeforeSave, Prompts \cap pc[t].keys # {},
                          NEW k \in Prompts, ~Outdated(k)
                   PROVE  pc[t].current.keys[k] = Loaded'.keys[k]
      BY DEF PromptsKnown, Outdated
    <3>2. t # u /\ Prompts \notin mixed /\ primary.state # "damaged"
      BY <1>1, <1>2, <3>1, <1>8 DEF BeforeSave, Outdated, TasksTyped
    <3>3. k \notin pc[u].keys
      BY <1>1, <3>1, <3>2 DEF IInv, TasksInv, Overlapping
    <3> QED BY <3>1, <3>2, <3>3, <1>3, <1>5, <2>0 DEF Fits, PromptsKnown
  <2>3. ListsFit(t)'
    BY <2>0, <1>1 DEF Fits, ListsFit, ToReplace, ReplacedBy
  <2>4. PutsFit(t)'
    <3>1. SUFFICES ASSUME Clean, InHand(t)', NEW i \in DOMAIN pc[t].replaced
                   PROVE  /\ running[pc[t].replaced[i].provider] = pc[t].to
                          /\ pc[t].replaced[i].was = Loaded'.keys[pc[t].replaced[i].provider]
      BY DEF PutsFit, Clean
    <3>2. t # u /\ InHand(t)
      BY <1>1, <3>1 DEF InHand
    <3>3. pc[t].replaced[i].provider \in Executables \cap pc[t].keys
      BY <2>0, <3>1, PutTyped DEF Fits, ListsFit, IInv, TasksInv
    <3> QED BY <3>1, <3>2, <3>3, <1>7, <2>0 DEF Fits, PutsFit
  <2>5. CoversFit(t)'
    <3>1. SUFFICES ASSUME Clean, pc[t].at \in BeforeSave, NEW p \in Executables \cap pc[t].keys
                   PROVE  pc[t].to = Loaded'.keys[p] \/ ToReplace(t, p) \/ ReplacedBy(t, p)
      BY <1>1 DEF CoversFit, Clean, ToReplace, ReplacedBy
    <3>2. t # u
      BY <1>1, <3>1 DEF BeforeSave
    <3> QED BY <3>1, <3>2, <1>7, <2>0 DEF Fits, CoversFit
  <2> QED BY <2>1, <2>2, <2>3, <2>4, <2>5 DEF Fits
<1>10. Overlapping'
  BY DEF IInv, TasksInv, Overlapping
<1>11. RunningFits'
  <2>1. SUFFICES ASSUME Clean, NEW p \in Executables, running[p] # Loaded'.keys[p]
                 PROVE  \E t \in Tasks : InHand(t)' /\ ReplacedBy(t, p)
    BY DEF RunningFits, Clean, ReplacedBy
  <2>2. ASSUME NEW t \in Tasks, ReplacedBy(t, p) PROVE p \in pc[t].keys
    BY <2>2 DEF ReplacedBy, IInv, TasksInv, Fits, ListsFit
  <2>3. p \notin pc[u].keys
    <3>1. SUFFICES ASSUME p \in pc[u].keys PROVE FALSE
      OBVIOUS
    <3>2. u \in Patches
      BY <1>1, <3>1 DEF Fits, Placed
    <3>3. Loaded'.keys[p] = pc[u].to /\ ~ToReplace(u, p)
      BY <1>1, <3>1, <3>2 DEF Fits, WritesOwn, ListsFit, ToReplace
    <3>4. ~ReplacedBy(u, p)
      BY <1>1, <2>1, <3>3 DEF Fits, PutsFit, InHand, ReplacedBy
    <3>5. running[p] # Loaded.keys[p]
      BY <1>1, <2>1, <3>1, <3>3, <3>4 DEF Fits, CoversFit
    <3>6. PICK t \in Tasks : ReplacedBy(t, p)
      BY <2>1, <3>5 DEF IInv, TasksInv, RunningFits
    <3> QED BY <1>7, <2>1, <2>2, <3>1, <3>4, <3>6
  <2>4. PICK t \in Tasks : InHand(t) /\ ReplacedBy(t, p)
    BY <1>6, <2>1, <2>3 DEF IInv, TasksInv, RunningFits
  <2>5. t # u
    BY <2>2, <2>3, <2>4
  <2> QED BY <1>1, <2>4, <2>5 DEF InHand
<1>12. OwnOnly
  BY <1>3 DEF OwnOnly
<1> QED BY <1>8, <1>9, <1>10, <1>11, <1>12 DEF TasksInv

-----------------------------------------------------------------------------
(* Steps of one task.                                                      *)

\* Task t goes on, and its file lock with it; the other tasks see no more than the
\* providers it has asked for.
Moves(t) ==
    /\ Loaded' = Loaded /\ UNCHANGED <<primary, damages>>
    /\ \E q \in Requests : pc' = [pc EXCEPT ![t] = q]
    /\ running' \in [Executables -> Nat] /\ asked' \in Nat
    /\ unrepaired' \in BOOLEAN /\ (unrepaired = TRUE => unrepaired' = TRUE)
    /\ mixed \subseteq mixed'
    /\ job' = job \/ (job.task \in {Nobody, t} /\ job'.task \in {Nobody, t})
    /\ \A p \in Executables : running'[p] # running[p] => p \in pc[t].keys

\* The keys a task begins with meet those of the others.
Notices(t) ==
    \A u \in Tasks : \A g \in {Prompts, Executables} :
        u # t /\ g \cap pc'[t].keys # {} /\ g \cap pc[u].keys # {} => g \in mixed'

LEMMA MovesKeep ==
    ASSUME TasksInv, NEW t \in Tasks, Moves(t)
    PROVE  /\ TasksTyped'
           /\ \A u \in Tasks \ {t} : pc'[u] = pc[u] /\ Fits(u)'
           /\ \A u \in Tasks \ {t} : InHand(u) => InHand(u)'
           /\ Notices(t) => Overlapping'
           /\ Clean' => Clean
<1>1. PICK q \in Requests : pc' = [pc EXCEPT ![t] = q]
  BY DEF Moves
<1>2. TasksTyped' /\ \A u \in Tasks \ {t} : pc'[u] = pc[u]
  BY <1>1 DEF TasksInv, TasksTyped, Moves
<1>3. Clean' => Clean
  BY DEF Clean, Moves
<1>4. \A k : Outdated(k) => Outdated(k)'
  BY DEF Outdated, Moves
<1>5. \A u \in Tasks \ {t} : /\ Unwritten(u)' <=> Unwritten(u)
                             /\ Unwritten(u) => job' = job
                             /\ job'.task = u => job' = job
  BY SettingsAssumption DEF Moves, Unwritten, SettingsAssumption, Tasks
<1>6. ASSUME NEW u \in Tasks \ {t} PROVE Fits(u)' /\ (InHand(u) => InHand(u)')
  <2>0. Fits(u) /\ pc'[u] = pc[u] /\ Loaded' = Loaded /\ primary' = primary
    BY <1>2 DEF TasksInv, Moves
  <2>1. Saver(u)' /\ Placed(u)' /\ ListsFit(u)'
    BY <2>0, <1>5 DEF Fits, Saver, Placed, ListsFit, ToReplace, ReplacedBy
  <2>2. WritesOwn(u)' /\ PromptsKnown(u)'
    BY <2>0, <1>4, <1>5 DEF Fits, WritesOwn, PromptsKnown
  <2>3. PutsFit(u)'
    <3>1. SUFFICES ASSUME Clean', InHand(u)', NEW i \in DOMAIN pc[u].replaced
                   PROVE  /\ running'[pc[u].replaced[i].provider] = pc[u].to
                          /\ pc[u].replaced[i].was = Loaded.keys[pc[u].replaced[i].provider]
      BY <2>0 DEF PutsFit
    <3>2. pc[u].replaced[i].provider \in Executables \cap pc[u].keys
      BY <2>0, <3>1, PutTyped DEF Fits, ListsFit, TasksInv
    <3>3. running'[pc[u].replaced[i].provider] = running[pc[u].replaced[i].provider]
      BY <1>3, <3>1, <3>2 DEF Moves, TasksInv, Overlapping, Clean
    <3> QED BY <1>3, <1>5, <2>0, <3>1, <3>3 DEF Fits, PutsFit, InHand
  <2>4. CoversFit(u)'
    BY <1>3, <1>5, <2>0 DEF Fits, CoversFit, ToReplace, ReplacedBy
  <2>5. InHand(u) => InHand(u)'
    BY <1>5, <2>0 DEF InHand
  <2> QED BY <2>1, <2>2, <2>3, <2>4, <2>5 DEF Fits
<1>7. Notices(t) => Overlapping'
  BY <1>2 DEF Notices, Overlapping, TasksInv, Moves
<1> QED BY <1>2, <1>3, <1>6, <1>7

\* A task that keeps its keys meets no others, and one that keeps what it has replaced
\* leaves the providers accounted for.
LEMMA KeysKept ==
    ASSUME TasksInv, NEW t \in Tasks, Moves(t), pc'[t].keys \subseteq pc[t].keys
    PROVE  Notices(t)
BY DEF Notices, Moves, TasksInv, Overlapping

LEMMA RunningKept ==
    ASSUME TasksInv, NEW t \in Tasks, Moves(t),
           Clean' => \A p \in Executables : running'[p] # Loaded.keys[p] =>
                \/ running'[p] = running[p] /\ ~(InHand(t) /\ ReplacedBy(t, p))
                \/ InHand(t)' /\ ReplacedBy(t, p)'
    PROVE  RunningFits'
<1>1. SUFFICES ASSUME Clean', NEW p \in Executables, running'[p] # Loaded'.keys[p]
               PROVE  \E u \in Tasks : InHand(u)' /\ ReplacedBy(u, p)'
  BY DEF RunningFits
<1>2. Clean /\ Loaded' = Loaded
  BY <1>1, MovesKeep DEF Moves
<1>3. CASE running'[p] = running[p] /\ ~(InHand(t) /\ ReplacedBy(t, p))
  <2>1. PICK u \in Tasks : InHand(u) /\ ReplacedBy(u, p)
    BY <1>1, <1>2, <1>3 DEF TasksInv, RunningFits
  <2> QED BY <2>1, <1>3, MovesKeep DEF ReplacedBy
<1> QED BY <1>1, <1>2, <1>3

LEMMA MoveKeeps ==
    ASSUME TasksInv, NEW t \in Tasks, Moves(t), Fits(t)', Notices(t), RunningFits'
    PROVE  TasksInv'
BY MovesKeep DEF TasksInv

LEMMA IdleFacts ==
    /\ Idle \in Requests /\ Idle.at = "idle" /\ Idle.keys = {} /\ Idle.to = 0
    /\ Idle.current = Defaults /\ Idle.todo = <<>> /\ Idle.replaced = <<>>
BY DefaultsTyped DEF Idle, Requests, Steps

\* The names of the patches, of the reset and of the launcher differ.
LEMMA TaskNames ==
    /\ Patches \subseteq Tasks /\ "reset" \in Tasks \ Patches /\ "launcher" \in Tasks \ Patches
    /\ Nobody \notin Tasks
BY SettingsAssumption DEF Tasks, SettingsAssumption

LEMMA SameFiles ==
    ASSUME UNCHANGED files
    PROVE  Loaded' = Loaded /\ UNCHANGED <<primary, backup, previous, job>>
BY DEF files, Loaded

\* A task that ends leaves nothing behind, if the providers are accounted for.
LEMMA EndKeeps ==
    ASSUME TasksInv, NEW t \in Tasks, Moves(t), pc' = [pc EXCEPT ![t] = Idle],
           ~(job'.task = t /\ job'.saves = TRUE), RunningFits'
    PROVE  TasksInv'
<1>1. pc'[t] = Idle
  BY DEF TasksInv, TasksTyped
<1>2. Notices(t)
  BY <1>1, IdleFacts DEF Notices
<1>3. Saver(t)' /\ WritesOwn(t)' /\ PromptsKnown(t)' /\ Placed(t)'
  BY <1>1, IdleFacts DEF Saver, WritesOwn, Unwritten, PromptsKnown, Placed, BeforeSave
<1>4. ListsFit(t)'
  BY <1>1, IdleFacts DEF ListsFit, ReplacedBy, ToReplace, Unwritten, BeforeSave
<1>5. PutsFit(t)' /\ CoversFit(t)'
  BY <1>1, IdleFacts DEF PutsFit, CoversFit, InHand, Unwritten, BeforeSave
<1> QED BY <1>2, <1>3, <1>4, <1>5, MoveKeeps DEF Fits

LEMMA RaiseKeeps ==
    ASSUME TasksInv, NEW t \in Tasks, Moves(t), Raise(t), running' = running,
           ~(job'.task = t /\ job'.saves = TRUE),
           pc[t].replaced # <<>> => InHand(t) \/ ~Clean'
    PROVE  TasksInv'
<1>1. CASE pc[t].replaced = <<>>
  <2>1. \A p : ~ReplacedBy(t, p)
    BY <1>1 DEF ReplacedBy
  <2>2. RunningFits'
    BY <2>1, RunningKept
  <2> QED BY <1>1, <2>2, EndKeeps DEF Raise
<1>2. CASE pc[t].replaced # <<>>
  <2>0. Fits(t) /\ t \in Patches
    BY <1>2 DEF TasksInv, Fits, Placed
  <2>1. /\ pc'[t].at = "rollback" /\ pc'[t].keys = pc[t].keys /\ pc'[t].to = pc[t].to
        /\ pc'[t].todo = pc[t].todo /\ pc'[t].replaced = pc[t].replaced
    BY <1>2 DEF Raise, Goto, TasksInv, TasksTyped, Requests
  <2>2. Notices(t) /\ Loaded' = Loaded
    BY <2>1, KeysKept DEF Moves
  <2>3. RunningFits'
    <3>1. CASE InHand(t)
      BY <2>1, <2>2, <3>1, RunningKept DEF InHand, ReplacedBy
    <3>2. CASE ~Clean'
      BY <3>2 DEF RunningFits
    <3> QED BY <3>1, <3>2, <1>2
  <2>4. Saver(t)' /\ WritesOwn(t)' /\ PromptsKnown(t)' /\ Placed(t)' /\ CoversFit(t)'
    BY <2>0, <2>1, TaskNames
    DEF Saver, WritesOwn, Unwritten, PromptsKnown, Placed, CoversFit, BeforeSave
  <2>5. ListsFit(t)'
    BY <1>2, <2>0, <2>1 DEF Fits, ListsFit, ReplacedBy, ToReplace, Unwritten, BeforeSave
  <2>6. PutsFit(t)'
    BY <1>2, <2>0, <2>1, <2>2, MovesKeep DEF Fits, PutsFit
  <2> QED BY <2>2, <2>3, <2>4, <2>5, <2>6, MoveKeeps DEF Fits
<1> QED BY <1>1, <1>2

-----------------------------------------------------------------------------
(* PATCH /settings.                                                        *)

LEMMA ReplacingFits ==
    ASSUME NEW keys \in SUBSET Keys, NEW x \in Nat
    PROVE  /\ Replacing(keys, x) \in Seq(Executables)
           /\ \A p \in Executables :
                (\E i \in DOMAIN Replacing(keys, x) : Replacing(keys, x)[i] = p)
                    <=> (p \in keys /\ x # Loaded.keys[p])
           /\ \A i, j \in DOMAIN Replacing(keys, x) :
                Replacing(keys, x)[i] = Replacing(keys, x)[j] => i = j
<1> DEFINE Of(p) == IF p \in keys /\ x # Loaded.keys[p] THEN <<p>> ELSE <<>>
           L == Replacing(keys, x)
<1>1. L = Of("codex") \o Of("claude")
  BY DEF Replacing
<1>2. /\ Of("codex") = IF "codex" \in keys /\ x # Loaded.keys["codex"] THEN <<"codex">> ELSE <<>>
      /\ Of("claude") = IF "claude" \in keys /\ x # Loaded.keys["claude"] THEN <<"claude">> ELSE <<>>
  OBVIOUS
<1>3. ASSUME NEW a, NEW b
      PROVE  /\ <<>> \o <<>> = <<>> /\ <<a>> \o <<>> = <<a>> /\ <<>> \o <<b>> = <<b>>
  OBVIOUS
<1> HIDE DEF L, Of
<1>4. \/ L = <<>> /\ Of("codex") = <<>> /\ Of("claude") = <<>>
      \/ L = <<"codex">> /\ Of("codex") = <<"codex">> /\ Of("claude") = <<>>
      \/ L = <<"claude">> /\ Of("codex") = <<>> /\ Of("claude") = <<"claude">>
      \/ L = <<"codex">> \o <<"claude">> /\ Of("codex") = <<"codex">> /\ Of("claude") = <<"claude">>
  BY <1>1, <1>2, <1>3
<1>5. \/ L = <<>> /\ \A p \in Executables : ~(p \in keys /\ x # Loaded.keys[p])
      \/ L = <<"codex">> /\ \A p \in Executables : (p \in keys /\ x # Loaded.keys[p]) <=> p = "codex"
      \/ L = <<"claude">> /\ \A p \in Executables : (p \in keys /\ x # Loaded.keys[p]) <=> p = "claude"
      \/ L = <<"codex">> \o <<"claude">> /\ \A p \in Executables : p \in keys /\ x # Loaded.keys[p]
  BY <1>2, <1>4 DEF Executables
<1>6. /\ L \in Seq(Executables)
      /\ \A p \in Executables : (\E i \in DOMAIN L : L[i] = p) <=> (p \in keys /\ x # Loaded.keys[p])
      /\ \A i, j \in DOMAIN L : L[i] = L[j] => i = j
  <2>0. "codex" \in Executables /\ "claude" \in Executables /\ "codex" # "claude"
    BY DEF Executables
  <2>1. CASE L = <<>>
    BY <2>1, <1>5
  <2>2. CASE L = <<"codex">>
    BY <2>0, <2>2, <1>5
  <2>3. CASE L = <<"claude">>
    BY <2>0, <2>3, <1>5
  <2>4. CASE L = <<"codex">> \o <<"claude">>
    <3>1. /\ <<"codex">> \in Seq(Executables) /\ <<"claude">> \in Seq(Executables)
          /\ Len(<<"codex">>) = 1 /\ Len(<<"claude">>) = 1
      BY <2>0
    <3>2. L \in Seq(Executables) /\ Len(L) = 2 /\ L[1] = "codex" /\ L[2] = "claude"
      BY <2>4, <3>1
    <3> QED BY <2>0, <2>4, <3>2, <1>5 DEF Executables
  <2> QED BY <2>1, <2>2, <2>3, <2>4, <1>5
<1> QED BY <1>6 DEF L

LEMMA PatchBeginsKeeps ==
    ASSUME IInv, NEW r \in Patches, NEW body \in Bodies, NEW x \in {0, asked + 1},
           PatchBegins(r, body, x)
    PROVE  TasksInv'
<1> DEFINE todo == Replacing(body, x)
           next == IF "agent" \in body THEN "validating" ELSE Proceed(r, todo)
           q == [at |-> next, keys |-> body, to |-> x, current |-> Loaded,
                 todo |-> todo, replaced |-> <<>>]
<1>1. /\ r \in Tasks /\ Fits(r) /\ pc[r] = Idle /\ asked' = asked + 1 /\ asked \in Nat
      /\ body \in SUBSET Keys /\ x \in Nat /\ TasksTyped /\ Loaded \in Settings
  BY TaskNames, SettingsAssumption, LoadedTyped
  DEF PatchBegins, At, IInv, FilesInv, TasksInv, TasksTyped, Fits, Placed, SettingsAssumption
<1>2. /\ todo \in Seq(Executables)
      /\ \A p \in Executables : (\E i \in DOMAIN todo : todo[i] = p)
                                    <=> (p \in body /\ x # Loaded.keys[p])
      /\ \A i, j \in DOMAIN todo : todo[i] = todo[j] => i = j
  BY <1>1, ReplacingFits
<1>3. pc' = [pc EXCEPT ![r] = q] /\ UNCHANGED <<files, running, unrepaired, damages>>
      /\ Unlocked /\ Meets(body)
  BY DEF PatchBegins, CanLoad, providers
<1> HIDE DEF todo
<1>4. next \in {"validating", "update", "replacing"} /\ (next = "update" => todo = <<>>)
      /\ (next = "replacing" => todo # <<>>)
  BY DEF Proceed
<1> HIDE DEF next
<1>5. q \in Requests
  BY <1>1, <1>2, <1>4 DEF Requests, Steps
<1>6. /\ pc'[r].at = next /\ pc'[r].keys = body /\ pc'[r].to = x /\ pc'[r].current = Loaded
      /\ pc'[r].todo = todo /\ pc'[r].replaced = <<>>
  BY <1>1, <1>3 DEF TasksTyped
<1>7. Loaded' = Loaded /\ primary' = primary /\ job' = job /\ job.task = Nobody
  BY <1>3, SameFiles DEF Unlocked
<1>8. Moves(r)
  <2>1. mixed \subseteq mixed' /\ asked' \in Nat
    BY <1>1, <1>3 DEF Meets
  <2> HIDE DEF q
  <2>2. \E z \in Requests : pc' = [pc EXCEPT ![r] = z]
    BY <1>3, <1>5
  <2> QED BY <1>1, <1>3, <1>7, <2>1, <2>2 DEF Moves, TasksTyped
<1>9. Notices(r)
  BY <1>1, <1>3, <1>6 DEF Notices, Meets
<1>10. \A p : ~ReplacedBy(r, p)
  BY <1>1, IdleFacts DEF ReplacedBy
<1>11. RunningFits'
  BY <1>1, <1>3, <1>8, <1>10, RunningKept DEF IInv
<1>12. Saver(r)' /\ WritesOwn(r)' /\ PromptsKnown(r)' /\ Placed(r)'
  BY <1>1, <1>4, <1>6, <1>7, TaskNames DEF Saver, WritesOwn, Unwritten, PromptsKnown, Placed
<1>13. ListsFit(r)' /\ PutsFit(r)'
  <2>1. \A i \in DOMAIN todo : todo[i] \in Executables
    BY <1>2
  <2> QED
    BY <1>2, <1>4, <1>6, <1>7, TaskNames, <2>1 DEF ListsFit, PutsFit, ReplacedBy, ToReplace, Unwritten
<1>14. CoversFit(r)'
  BY <1>2, <1>6, <1>7 DEF CoversFit, ToReplace
<1> QED BY <1>1, <1>8, <1>9, <1>11, <1>12, <1>13, <1>14, MoveKeeps DEF Fits, IInv

\* A step of task r that touches neither the files nor their lock.
LEMMA OwnMove ==
    ASSUME TasksInv, NEW r \in Tasks, UNCHANGED <<files, damages, asked, mixed>>,
           NEW q \in Requests, pc' = [pc EXCEPT ![r] = q],
           running' \in [Executables -> Nat],
           \A p \in Executables : running'[p] # running[p] => p \in pc[r].keys,
           unrepaired' \in BOOLEAN, unrepaired = TRUE => unrepaired' = TRUE
    PROVE  Moves(r) /\ Loaded' = Loaded /\ job' = job /\ pc'[r] = q
<1>1. Loaded' = Loaded /\ UNCHANGED <<primary, job>>
  BY SameFiles
<1>2. \E z \in Requests : pc' = [pc EXCEPT ![r] = z]
  OBVIOUS
<1> QED BY <1>1, <1>2 DEF Moves, TasksInv, TasksTyped

\* A request whose validation or replacement has ended goes on to the next one.
LEMMA ProceedKeeps ==
    ASSUME IInv, NEW r \in Patches, pc[r].at \in {"validating", "replaced"},
           pc' = Goto(r, Proceed(r, pc[r].todo)),
           UNCHANGED <<files, running, asked, mixed, unrepaired, damages>>
    PROVE  TasksInv'
<1> DEFINE next == Proceed(r, pc[r].todo)
           q == [pc[r] EXCEPT !.at = next]
<1>1. r \in Tasks /\ Fits(r) /\ TasksInv /\ TasksTyped /\ pc[r] \in Requests
  BY TaskNames DEF IInv, TasksInv, TasksTyped
<1>2. next \in {"update", "replacing"} /\ (next = "update" => pc[r].todo = <<>>)
      /\ (next = "replacing" => pc[r].todo # <<>>)
  BY DEF Proceed
<1> HIDE DEF next
<1>3. /\ q \in Requests /\ q.at = next /\ q.keys = pc[r].keys /\ q.to = pc[r].to
      /\ q.current = pc[r].current /\ q.todo = pc[r].todo /\ q.replaced = pc[r].replaced
      /\ pc' = [pc EXCEPT ![r] = q]
  BY <1>1, <1>2 DEF Requests, Steps, Goto, next, TasksTyped
<1> HIDE DEF q
<1>4. Moves(r) /\ Loaded' = Loaded /\ job' = job /\ pc'[r] = q
  BY <1>1, <1>3, OwnMove DEF TasksTyped
<1>5. Notices(r)
  BY <1>1, <1>3, <1>4, KeysKept
<1>6. \A p : ReplacedBy(r, p)' <=> ReplacedBy(r, p)
  BY <1>3, <1>4 DEF ReplacedBy
<1>7. InHand(r)' /\ ~Unwritten(r)' /\ ~Unwritten(r)
  BY <1>1, <1>2, <1>3, <1>4 DEF InHand, Unwritten, Fits, Saver
<1>8. RunningFits'
  BY <1>1, <1>4, <1>6, <1>7, RunningKept
<1>9. Saver(r)' /\ WritesOwn(r)' /\ PromptsKnown(r)' /\ Placed(r)'
  <2>1. Saver(r)' /\ WritesOwn(r)' /\ Placed(r)'
    BY <1>1, <1>2, <1>3, <1>4, <1>7, TaskNames DEF Fits, Saver, WritesOwn, Placed
  <2>2. PromptsKnown(r)'
    BY <1>1, <1>2, <1>3, <1>4, SameFiles DEF Fits, PromptsKnown, BeforeSave, Outdated
  <2> QED BY <2>1, <2>2
<1>10. ListsFit(r)' /\ CoversFit(r)'
  <2>1. ListsFit(r)'
    BY <1>1, <1>2, <1>3, <1>4, <1>7 DEF Fits, ListsFit, ReplacedBy, ToReplace, BeforeSave
  <2>2. CoversFit(r)'
    BY <1>1, <1>2, <1>3, <1>4, <1>7, MovesKeep DEF Fits, CoversFit, ReplacedBy, ToReplace, BeforeSave
  <2> QED BY <2>1, <2>2
<1>11. PutsFit(r)'
  BY <1>1, <1>3, <1>4, MovesKeep DEF Fits, PutsFit, InHand, ListsFit
<1> QED BY <1>1, <1>4, <1>5, <1>8, <1>9, <1>10, <1>11, MoveKeeps DEF Fits

LEMMA InvalidKeeps ==
    ASSUME IInv, NEW r \in Patches, Invalid(r)
    PROVE  TasksInv'
<1>1. r \in Tasks /\ Fits(r) /\ TasksInv /\ pc[r].at = "validating" /\ pc[r].replaced = <<>>
      /\ pc' = [pc EXCEPT ![r] = Idle] /\ UNCHANGED <<files, running, asked, mixed, unrepaired, damages>>
  BY TaskNames DEF IInv, TasksInv, Invalid, At, Fits, ListsFit, providers
<1>2. Moves(r) /\ job' = job
  BY <1>1, OwnMove, IdleFacts DEF TasksInv, TasksTyped
<1>3. \A p : ~ReplacedBy(r, p)
  BY <1>1 DEF ReplacedBy
<1>4. RunningFits'
  BY <1>1, <1>2, <1>3, RunningKept
<1>5. ~(job'.task = r /\ job'.saves = TRUE)
  BY <1>1, <1>2 DEF Fits, Saver
<1> QED BY <1>1, <1>2, <1>4, <1>5, EndKeeps

LEMMA TailElements ==
    ASSUME NEW S, NEW s \in Seq(S), s # <<>>
    PROVE  /\ Tail(s) \in Seq(S)
           /\ \A i \in DOMAIN Tail(s) : i \in Nat /\ i + 1 \in DOMAIN s /\ Tail(s)[i] = s[i + 1]
           /\ \A i \in DOMAIN s : i = 1 \/ (i - 1 \in DOMAIN Tail(s) /\ Tail(s)[i - 1] = s[i])
<1>1. /\ Tail(s) \in Seq(S) /\ Len(s) \in Nat /\ Len(s) # 0
      /\ DOMAIN s = 1..Len(s) /\ Len(Tail(s)) = Len(s) - 1
  OBVIOUS
<1>2. DOMAIN Tail(s) = 1..(Len(s) - 1)
  BY <1>1
<1>3. \A i \in 1..(Len(s) - 1) : Tail(s)[i] = s[i + 1]
  BY <1>1
<1>4. \A i \in 2..Len(s) : i - 1 \in 1..(Len(s) - 1) /\ (i - 1) + 1 = i
  BY <1>1
<1> QED BY <1>1, <1>2, <1>3, <1>4

LEMMA ReplaceKeeps ==
    ASSUME IInv, NEW r \in Patches, Replace(r)
    PROVE  TasksInv'
<1> DEFINE h == Head(pc[r].todo)
           e == [provider |-> h, was |-> running[h]]
           todo == Tail(pc[r].todo)
           replaced == Append(pc[r].replaced, e)
           q == [pc[r] EXCEPT !.at = "replaced", !.todo = todo, !.replaced = replaced]
<1>1. r \in Tasks /\ Fits(r) /\ TasksInv /\ TasksTyped /\ pc[r] \in Requests
      /\ pc[r].at = "replacing" /\ pc[r].todo # <<>>
  BY TaskNames DEF IInv, TasksInv, TasksTyped, Replace, At, Fits, ListsFit
<1>2. /\ pc[r].todo \in Seq(Executables) /\ pc[r].replaced \in Seq(Put)
      /\ h \in Executables /\ h = pc[r].todo[1] /\ 1 \in DOMAIN pc[r].todo
  BY <1>1 DEF Requests
<1>3. e \in Put /\ e.provider = h /\ e.was = running[h]
  BY <1>1, <1>2 DEF Put, TasksTyped
<1>4. /\ todo \in Seq(Executables)
      /\ \A i \in DOMAIN todo : i + 1 \in DOMAIN pc[r].todo /\ todo[i] = pc[r].todo[i + 1]
      /\ \A i \in DOMAIN pc[r].todo : i = 1 \/ (i - 1 \in DOMAIN todo /\ todo[i - 1] = pc[r].todo[i])
      /\ DOMAIN todo \subseteq Nat
  BY <1>1, <1>2, TailElements
<1>5. /\ replaced \in Seq(Put) /\ replaced # <<>>
      /\ \A i \in DOMAIN pc[r].replaced : i \in DOMAIN replaced /\ replaced[i] = pc[r].replaced[i]
      /\ Len(replaced) \in DOMAIN replaced /\ replaced[Len(replaced)] = e
      /\ \A i \in DOMAIN replaced : i \in DOMAIN pc[r].replaced \/ i = Len(replaced)
  <2> DEFINE n == Len(pc[r].replaced)
  <2>1. n \in Nat /\ DOMAIN pc[r].replaced = 1..n
    BY <1>2
  <2>2. replaced \in Seq(Put) /\ Len(replaced) = n + 1
    BY <1>2, <1>3
  <2>3. /\ DOMAIN replaced = 1..(n + 1)
        /\ \A i \in 1..n : replaced[i] = pc[r].replaced[i]
        /\ replaced[n + 1] = e
    BY <1>2, <1>3, <2>1
  <2> HIDE DEF n, replaced, e
  <2> QED BY <2>1, <2>2, <2>3
<1>6. /\ running' = [running EXCEPT ![h] = pc[r].to]
      /\ UNCHANGED <<files, asked, mixed, unrepaired, damages>>
      /\ pc' = [pc EXCEPT ![r].at = "replaced", ![r].todo = Tail(@),
                          ![r].replaced = Append(@, [provider |-> h, was |-> running[h]])]
  BY DEF Replace
<1> HIDE DEF h, e, todo, replaced
<1>7. /\ q \in Requests /\ q.at = "replaced" /\ q.keys = pc[r].keys /\ q.to = pc[r].to
      /\ q.current = pc[r].current /\ q.todo = todo /\ q.replaced = replaced
  BY <1>1, <1>4, <1>5 DEF Requests, Steps
<1>8. pc' = [pc EXCEPT ![r] = q]
  BY <1>6, <1>1 DEF todo, replaced, e, TasksTyped, Requests
<1> HIDE DEF q
<1>9. /\ \A p : ToReplace(r, p) => p = h \/ \E i \in DOMAIN todo : todo[i] = p
      /\ \A p : (\E i \in DOMAIN todo : todo[i] = p) => ToReplace(r, p)
      /\ ToReplace(r, h) /\ h \in pc[r].keys
  <2>1. ToReplace(r, h) /\ h \in pc[r].keys
    BY <1>1, <1>2 DEF ToReplace, Fits, ListsFit
  <2>2. ASSUME NEW p, ToReplace(r, p) PROVE p = h \/ \E i \in DOMAIN todo : todo[i] = p
    <3>1. PICK i \in DOMAIN pc[r].todo : pc[r].todo[i] = p
      BY <2>2 DEF ToReplace
    <3> QED BY <3>1, <1>2, <1>4
  <2>3. ASSUME NEW p, NEW i \in DOMAIN todo, todo[i] = p PROVE ToReplace(r, p)
    BY <2>3, <1>4 DEF ToReplace
  <2> QED BY <2>1, <2>2, <2>3
<1>10. \A i \in DOMAIN todo : todo[i] # h
  BY <1>1, <1>2, <1>4 DEF Fits, ListsFit
<1>11. ~ReplacedBy(r, h)
  BY <1>1, <1>2, <1>9 DEF Fits, ListsFit, BeforeSave
<1>12. /\ running' \in [Executables -> Nat] /\ running'[h] = pc[r].to
       /\ \A p \in Executables : p # h => running'[p] = running[p]
  BY <1>1, <1>2, <1>6 DEF TasksTyped, Requests
<1>13. Moves(r) /\ Loaded' = Loaded /\ job' = job /\ pc'[r] = q
  <2>1. \A p \in Executables : running'[p] # running[p] => p \in pc[r].keys
    BY <1>9, <1>12
  <2>2. unrepaired' \in BOOLEAN /\ (unrepaired = TRUE => unrepaired' = TRUE)
    BY <1>1, <1>6 DEF TasksTyped
  <2> QED BY <1>1, <1>6, <1>7, <1>8, <1>12, <2>1, <2>2, OwnMove
<1>14. Notices(r)
  BY <1>1, <1>7, <1>13, KeysKept
<1>15. /\ \A p : ReplacedBy(r, p)' <=> p = h \/ ReplacedBy(r, p)
       /\ \A p : ToReplace(r, p)' <=> ToReplace(r, p) /\ p # h
  <2>1. pc'[r].todo = todo /\ pc'[r].replaced = replaced
    BY <1>7, <1>13
  <2>2. \A p : ToReplace(r, p)' <=> \E i \in DOMAIN todo : todo[i] = p
    BY <2>1 DEF ToReplace
  <2>3. \A p : ReplacedBy(r, p)' <=> \E i \in DOMAIN replaced : replaced[i].provider = p
    BY <2>1 DEF ReplacedBy
  <2>4. ASSUME NEW p PROVE ReplacedBy(r, p)' <=> p = h \/ ReplacedBy(r, p)
    BY <2>3, <1>3, <1>5 DEF ReplacedBy
  <2> QED BY <2>2, <2>4, <1>9, <1>10
<1>16. InHand(r)' /\ ~Unwritten(r)' /\ InHand(r)
  BY <1>1, <1>7, <1>13 DEF InHand, Unwritten, Fits, Saver
<1>17. RunningFits'
  BY <1>1, <1>12, <1>13, <1>15, <1>16, RunningKept
<1>18. Saver(r)' /\ WritesOwn(r)' /\ PromptsKnown(r)' /\ Placed(r)'
  BY <1>1, <1>6, <1>7, <1>13, <1>16, TaskNames
  DEF Fits, Saver, WritesOwn, PromptsKnown, Placed, BeforeSave, Outdated
<1>19. ListsFit(r)'
  <2>1. /\ \A i \in DOMAIN replaced : replaced[i].provider \in pc[r].keys
        /\ \A i \in DOMAIN todo : todo[i] \in pc[r].keys
    BY <1>1, <1>3, <1>4, <1>5, <1>9 DEF Fits, ListsFit
  <2>2. \A i, j \in DOMAIN replaced : replaced[i].provider = replaced[j].provider => i = j
    BY <1>1, <1>3, <1>5, <1>11 DEF Fits, ListsFit, ReplacedBy
  <2>3. \A i, j \in DOMAIN todo : todo[i] = todo[j] => i = j
    <3>1. SUFFICES ASSUME NEW i \in DOMAIN todo, NEW j \in DOMAIN todo, todo[i] = todo[j]
                   PROVE  i = j
      OBVIOUS
    <3>2. i + 1 = j + 1
      BY <1>1, <1>4, <3>1 DEF Fits, ListsFit
    <3> QED BY <3>1, <3>2, <1>4
  <2>4. \A p \in Executables : ~(ToReplace(r, p)' /\ ReplacedBy(r, p)')
    BY <1>1, <1>15 DEF Fits, ListsFit, BeforeSave
  <2> QED BY <1>5, <1>7, <1>13, <1>16, <2>1, <2>2, <2>3, <2>4 DEF ListsFit
<1>20. PutsFit(r)'
  <2>1. SUFFICES ASSUME Clean', NEW i \in DOMAIN replaced
                 PROVE  /\ running'[replaced[i].provider] = pc[r].to
                        /\ replaced[i].was = Loaded.keys[replaced[i].provider]
    BY <1>7, <1>13 DEF PutsFit
  <2>2. Clean
    BY <1>1, <1>13, <2>1, MovesKeep
  <2>3. CASE replaced[i] = e
    <3>1. running[h] = Loaded.keys[h]
      <4>1. SUFFICES ASSUME NEW t \in Tasks, ReplacedBy(t, h) PROVE FALSE
        BY <1>1, <1>2, <2>2 DEF TasksInv, RunningFits
      <4>2. t # r /\ h \in pc[t].keys
        BY <1>1, <1>11, <4>1 DEF ReplacedBy, TasksInv, Fits, ListsFit
      <4> QED BY <1>1, <1>2, <1>9, <2>2, <4>2 DEF TasksInv, Overlapping, Clean
    <3> QED BY <1>3, <1>12, <2>3, <3>1
  <2>4. CASE i \in DOMAIN pc[r].replaced /\ replaced[i] = pc[r].replaced[i]
    <3>1. replaced[i].provider # h /\ replaced[i].provider \in Executables
      BY <1>1, <1>11, <2>4, PutTyped DEF ReplacedBy
    <3> QED BY <1>1, <1>12, <1>16, <2>2, <2>4, <3>1 DEF Fits, PutsFit
  <2> QED BY <1>5, <2>1, <2>3, <2>4
<1>21. CoversFit(r)'
  BY <1>1, <1>7, <1>13, <1>15, MovesKeep DEF Fits, CoversFit, BeforeSave
<1> QED BY <1>1, <1>13, <1>14, <1>17, <1>18, <1>19, <1>20, <1>21, MoveKeeps DEF Fits

\* What Raise does is a move.
LEMMA RaiseMoves ==
    ASSUME TasksInv, NEW t \in Tasks, Raise(t)
    PROVE  \E q \in Requests : pc' = [pc EXCEPT ![t] = q]
<1>1. pc[t] \in Requests /\ pc \in [Tasks -> Requests]
  BY DEF TasksInv, TasksTyped
<1>2. [pc[t] EXCEPT !.at = "rollback"] \in Requests
  BY <1>1 DEF Requests, Steps
<1>3. pc' = [pc EXCEPT ![t] = Idle] \/ pc' = [pc EXCEPT ![t] = [pc[t] EXCEPT !.at = "rollback"]]
  BY <1>1 DEF Raise, Goto
<1> QED BY <1>2, <1>3, IdleFacts

LEMMA ReplaceFailsKeeps ==
    ASSUME IInv, NEW r \in Patches, ReplaceFails(r)
    PROVE  TasksInv'
<1>1. /\ r \in Tasks /\ Fits(r) /\ TasksInv /\ TasksTyped /\ pc[r].at = "replacing" /\ Raise(r)
      /\ UNCHANGED <<files, running, asked, mixed, unrepaired, damages>>
  BY TaskNames DEF IInv, TasksInv, ReplaceFails, At, providers
<1>2. Moves(r) /\ job' = job
  BY <1>1, RaiseMoves, OwnMove DEF TasksTyped
<1>3. InHand(r) /\ ~(job'.task = r /\ job'.saves = TRUE)
  BY <1>1, <1>2 DEF InHand, Fits, Saver
<1> QED BY <1>1, <1>2, <1>3, RaiseKeeps

LEMMA DoneKeeps ==
    ASSUME IInv, NEW t \in Tasks, Done(t)
    PROVE  TasksInv'
<1>1. /\ Fits(t) /\ TasksInv /\ TasksTyped /\ pc[t].at = "saving" /\ job.task # t
      /\ pc' = [pc EXCEPT ![t] = Idle]
      /\ UNCHANGED <<files, running, asked, mixed, unrepaired, damages>>
  BY DEF IInv, TasksInv, Done, At, providers
<1>2. Moves(t) /\ job' = job
  BY <1>1, OwnMove, IdleFacts DEF TasksTyped
<1>3. ~InHand(t)
  BY <1>1 DEF InHand, Unwritten
<1> QED BY <1>1, <1>2, <1>3, RunningKept, EndKeeps

LEMMA EmitFailsKeeps ==
    ASSUME IInv, NEW r \in Patches, EmitFails(r)
    PROVE  TasksInv'
<1>1. /\ r \in Tasks /\ Fits(r) /\ TasksInv /\ TasksTyped /\ pc[r].at = "saving" /\ job.task # r
      /\ Raise(r) /\ UNCHANGED <<files, running, asked, mixed, damages>>
  BY TaskNames DEF IInv, TasksInv, EmitFails, At, providers
<1>2. /\ unrepaired' \in BOOLEAN /\ (unrepaired = TRUE => unrepaired' = TRUE)
      /\ pc[r].replaced # <<>> => unrepaired' = TRUE
  BY <1>1 DEF EmitFails, TasksTyped
<1>3. Moves(r) /\ job' = job
  BY <1>1, <1>2, RaiseMoves, OwnMove DEF TasksTyped
<1>4. pc[r].replaced # <<>> => ~Clean'
  BY <1>2 DEF Clean
<1> QED BY <1>1, <1>3, <1>4, RaiseKeeps

LEMMA WriteFailsKeeps ==
    ASSUME IInv, WriteFails
    PROVE  TasksInv'
<1> DEFINE t == job.task
<1>1. /\ t \in Tasks /\ TasksInv /\ TasksTyped /\ job.saves = TRUE
      /\ Raise(t) /\ job' = Free /\ Fits(t)
      /\ UNCHANGED <<primary, backup, previous, running, asked, mixed, damages>>
  BY DEF IInv, FilesInv, FilesTyped, TasksInv, WriteFails, providers
<1>2. /\ unrepaired' \in BOOLEAN /\ (unrepaired = TRUE => unrepaired' = TRUE)
      /\ job.todo = <<"seed">> /\ pc[t].replaced # <<>> => unrepaired' = TRUE
  <2>1. unrepaired' = (unrepaired \/ (Step("seed") /\ pc[t].replaced # <<>>))
    BY DEF WriteFails
  <2>2. job.todo = <<"seed">> => Step("seed")
    BY DEF Step
  <2>3. unrepaired \in BOOLEAN
    BY <1>1 DEF TasksTyped
  <2> HIDE DEF t
  <2> QED BY <2>1, <2>2, <2>3
<1>3. Loaded' = Loaded /\ Free.task = Nobody /\ t # Nobody
  BY <1>1, TaskNames DEF Loaded, Free
<1>4. Moves(t)
  <2>1. \E q \in Requests : pc' = [pc EXCEPT ![t] = q]
    BY <1>1, RaiseMoves
  <2> QED BY <1>1, <1>2, <1>3, <2>1 DEF Moves, TasksTyped
<1>5. pc[t].replaced # <<>> => InHand(t) \/ ~Clean'
  BY <1>1, <1>2 DEF Clean, InHand, Unwritten
<1> QED BY <1>1, <1>3, <1>4, <1>5, RaiseKeeps

LEMMA RolledBackKeeps ==
    ASSUME IInv, NEW r \in Patches, NEW isBusy \in BOOLEAN, RolledBack(r, isBusy)
    PROVE  TasksInv'
<1> DEFINE n == Len(pc[r].replaced)
           put == pc[r].replaced[n]
           less == SubSeq(pc[r].replaced, 1, n - 1)
           q == [pc[r] EXCEPT !.replaced = less]
<1>1. r \in Tasks /\ Fits(r) /\ TasksInv /\ TasksTyped /\ pc[r] \in Requests
      /\ pc[r].at = "rollback" /\ pc[r].replaced # <<>> /\ pc[r].replaced \in Seq(Put)
  BY TaskNames DEF IInv, TasksInv, TasksTyped, RolledBack, At, Fits, ListsFit, Requests
<1>2. /\ n \in Nat \ {0} /\ n \in DOMAIN pc[r].replaced /\ DOMAIN pc[r].replaced = 1..n
      /\ less \in Seq(Put) /\ DOMAIN less = 1..(n - 1)
      /\ \A i \in 1..(n - 1) : less[i] = pc[r].replaced[i]
  BY <1>1
<1>3. put.provider \in Executables /\ put.was \in Nat /\ put.provider \in pc[r].keys
  BY <1>1, <1>2, PutTyped DEF Fits, ListsFit
<1>4. /\ running' = IF isBusy THEN running ELSE [running EXCEPT ![put.provider] = put.was]
      /\ UNCHANGED <<files, asked, mixed, damages>>
      /\ pc' = IF n = 1 THEN [pc EXCEPT ![r] = Idle] ELSE [pc EXCEPT ![r].replaced = less]
  BY <1>1 DEF RolledBack, TasksTyped
<1>5. /\ unrepaired' \in BOOLEAN /\ (unrepaired = TRUE => unrepaired' = TRUE)
      /\ isBusy => unrepaired' = TRUE
  BY <1>1 DEF RolledBack, TasksTyped
<1> HIDE DEF n, put, less
<1>6. /\ running' \in [Executables -> Nat]
      /\ \A p \in Executables : p # put.provider => running'[p] = running[p]
      /\ ~isBusy => running'[put.provider] = put.was
  BY <1>1, <1>3, <1>4 DEF TasksTyped
<1>7. \A p \in Executables : running'[p] # running[p] => p \in pc[r].keys
  BY <1>3, <1>6
<1>8. Clean' => ~isBusy
  BY <1>5 DEF Clean
<1>9. ~Unwritten(r) /\ InHand(r)
  BY <1>1 DEF InHand, Unwritten, Fits, Saver
<1>10. Clean => /\ put.was = Loaded.keys[put.provider]
                /\ \A p \in Executables : ReplacedBy(r, p) => p = put.provider
                                             \/ \E i \in 1..(n - 1) : less[i].provider = p
  BY <1>1, <1>2, <1>9 DEF Fits, PutsFit, ReplacedBy, put
<1>11. CASE n = 1
  <2>1. pc' = [pc EXCEPT ![r] = Idle]
    BY <1>4, <1>11
  <2>2. Moves(r) /\ Loaded' = Loaded /\ job' = job
    BY <1>1, <1>4, <1>5, <1>6, <1>7, <2>1, IdleFacts, OwnMove
  <2>3. RunningFits'
    <3>1. SUFFICES ASSUME Clean', NEW p \in Executables, running'[p] # Loaded.keys[p]
                   PROVE  running'[p] = running[p] /\ ~ReplacedBy(r, p)
      BY <1>1, <2>2, RunningKept
    <3>2. Clean /\ p # put.provider
      BY <1>1, <1>6, <1>8, <1>10, <2>2, <3>1, MovesKeep
    <3> QED BY <1>2, <1>6, <1>10, <1>11, <3>2
  <2>4. ~(job'.task = r /\ job'.saves = TRUE)
    BY <1>1, <2>2 DEF Fits, Saver
  <2> QED BY <1>1, <2>1, <2>2, <2>3, <2>4, EndKeeps
<1>12. CASE n # 1
  <2>1. /\ q \in Requests /\ q.at = "rollback" /\ q.keys = pc[r].keys /\ q.to = pc[r].to
        /\ q.current = pc[r].current /\ q.todo = pc[r].todo /\ q.replaced = less
        /\ pc' = [pc EXCEPT ![r] = q]
    BY <1>1, <1>2, <1>4, <1>12 DEF Requests, Steps, TasksTyped
  <2> HIDE DEF q
  <2>2. Moves(r) /\ Loaded' = Loaded /\ job' = job /\ pc'[r] = q
    BY <1>1, <1>4, <1>5, <1>6, <1>7, <2>1, OwnMove
  <2>3. Notices(r)
    BY <1>1, <2>1, <2>2, KeysKept
  <2>4. \A p : ReplacedBy(r, p)' <=> \E i \in 1..(n - 1) : less[i].provider = p
    BY <1>2, <2>1, <2>2 DEF ReplacedBy
  <2>5. InHand(r)' /\ ~Unwritten(r)'
    BY <1>9, <2>1, <2>2 DEF InHand, Unwritten
  <2>6. RunningFits'
    <3>1. SUFFICES ASSUME Clean', NEW p \in Executables, running'[p] # Loaded.keys[p]
                   PROVE  \/ running'[p] = running[p] /\ ~ReplacedBy(r, p)
                          \/ InHand(r)' /\ ReplacedBy(r, p)'
      BY <1>1, <2>2, RunningKept
    <3>2. Clean /\ p # put.provider
      BY <1>1, <1>6, <1>8, <1>10, <2>2, <3>1, MovesKeep
    <3> QED BY <1>6, <1>10, <2>4, <2>5, <3>2
  <2>7. Saver(r)' /\ WritesOwn(r)' /\ PromptsKnown(r)' /\ Placed(r)' /\ CoversFit(r)'
    BY <1>1, <2>1, <2>2, <2>5, TaskNames
    DEF Fits, Saver, WritesOwn, PromptsKnown, Placed, CoversFit, BeforeSave
  <2>8. ListsFit(r)'
    <3>1. /\ pc'[r].at = "rollback" /\ pc'[r].keys = pc[r].keys /\ pc'[r].todo = pc[r].todo
          /\ pc'[r].replaced = less /\ less # <<>> /\ DOMAIN less \subseteq DOMAIN pc[r].replaced
          /\ \A i \in DOMAIN less : less[i] = pc[r].replaced[i]
      BY <1>2, <1>12, <2>1, <2>2
    <3>2. ListsFit(r)
      BY <1>1 DEF Fits
    <3>3. /\ \A i \in DOMAIN less : less[i].provider \in pc[r].keys
          /\ \A i, j \in DOMAIN less : less[i].provider = less[j].provider => i = j
      BY <3>1, <3>2 DEF ListsFit
    <3>4. /\ \A i \in DOMAIN pc[r].todo : pc[r].todo[i] \in pc[r].keys
          /\ \A i, j \in DOMAIN pc[r].todo : pc[r].todo[i] = pc[r].todo[j] => i = j
      BY <3>2 DEF ListsFit
    <3> QED BY <2>5, <3>1, <3>3, <3>4 DEF ListsFit, BeforeSave
  <2>9. PutsFit(r)'
    <3>1. SUFFICES ASSUME Clean', NEW i \in 1..(n - 1)
                   PROVE  /\ running'[less[i].provider] = pc[r].to
                          /\ less[i].was = Loaded.keys[less[i].provider]
      BY <1>2, <2>1, <2>2 DEF PutsFit
    <3>2. Clean /\ i \in DOMAIN pc[r].replaced /\ less[i] = pc[r].replaced[i] /\ i # n
      BY <1>1, <1>2, <2>2, <3>1, MovesKeep
    <3>3. less[i].provider # put.provider /\ less[i].provider \in Executables
      BY <1>1, <1>2, <3>2, PutTyped DEF Fits, ListsFit, put
    <3> QED BY <1>1, <1>6, <1>9, <3>2, <3>3 DEF Fits, PutsFit
  <2> QED BY <1>1, <2>2, <2>3, <2>6, <2>7, <2>8, <2>9, MoveKeeps DEF Fits
<1> QED BY <1>11, <1>12

-----------------------------------------------------------------------------
(* Saves begin.                                                            *)

\* The task that takes the lock to save is the only one with settings to write.
LEMMA HoldMoves ==
    ASSUME IInv, NEW t \in Tasks, NEW keys, NEW version, Hold(t, keys, version),
           [keys |-> keys, version |-> version] \in Settings,
           UNCHANGED <<primary, backup, previous, running, mixed, unrepaired, damages>>,
           asked' \in Nat, NEW q \in Requests, pc' = [pc EXCEPT ![t] = q]
    PROVE  /\ Moves(t) /\ pc'[t] = q /\ FilesInv' /\ Loaded' = Loaded
           /\ Unwritten(t)' /\ job'.task = t /\ job.task = Nobody
           /\ job'.value.keys = keys
<1>1. job' = [task |-> t, saves |-> TRUE, todo |-> Saves,
              value |-> [keys |-> keys, version |-> version]] /\ job.task = Nobody
  BY DEF Hold, CanLoad, Unlocked
<1>2. FilesInv' /\ Loaded' = Loaded /\ job'.task = t /\ job'.saves = TRUE /\ job'.todo # <<"seed">>
      /\ job'.value = [keys |-> keys, version |-> version]
  BY <1>1, HoldKeeps DEF IInv
<1>3. \E z \in Requests : pc' = [pc EXCEPT ![t] = z]
  OBVIOUS
<1>4. Moves(t)
  BY <1>1, <1>2, <1>3 DEF Moves, IInv, TasksInv, TasksTyped
<1> QED BY <1>1, <1>2, <1>4 DEF Unwritten, IInv, TasksInv, TasksTyped

LEMMA UpdateKeeps ==
    ASSUME IInv, NEW t \in Tasks, Update(t)
    PROVE  TasksInv' /\ FilesInv' /\ Loaded' = Loaded /\ previous' = previous
<1> DEFINE q == [pc[t] EXCEPT !.at = "saving"]
           keys == Merged(t)
           version == VersionAfter(t)
<1>1. /\ Fits(t) /\ TasksInv /\ TasksTyped /\ pc[t] \in Requests /\ pc[t].at = "update"
      /\ Loaded \in Settings
  BY LoadedTyped DEF IInv, FilesInv, TasksInv, TasksTyped, Update, At
<1>2. pc[t].to \in Nat /\ pc[t].current \in Settings /\ pc[t].keys \subseteq Keys
      /\ Prompts \subseteq Keys
  BY <1>1 DEF Requests, Keys
<1>3. /\ Hold(t, keys, version) /\ pc' = Goto(t, "saving")
      /\ UNCHANGED <<primary, backup, previous, running, mixed, unrepaired, damages, asked>>
  BY DEF Update, providers
<1>4. keys \in [Keys -> Nat] /\ version \in Nat
  BY <1>1, <1>2 DEF Merged, VersionAfter, Settings
<1>5. /\ \A k \in pc[t].keys : keys[k] = pc[t].to
      /\ \A k \in Keys \ pc[t].keys : keys[k] = Loaded.keys[k]
            \/ (k \in Prompts /\ Prompts \cap pc[t].keys # {} /\ keys[k] = pc[t].current.keys[k])
  BY <1>2 DEF Merged
<1>6. [keys |-> keys, version |-> version] \in Settings
  BY <1>4 DEF Settings
<1> HIDE DEF keys, version
<1>7. /\ q \in Requests /\ q.at = "saving" /\ q.keys = pc[t].keys /\ q.to = pc[t].to
      /\ q.current = pc[t].current /\ q.todo = pc[t].todo /\ q.replaced = pc[t].replaced
      /\ pc' = [pc EXCEPT ![t] = q]
  BY <1>1, <1>3 DEF Requests, Steps, Goto, TasksTyped
<1> HIDE DEF q
<1>8. /\ Moves(t) /\ pc'[t] = q /\ FilesInv' /\ Loaded' = Loaded
      /\ Unwritten(t)' /\ job'.task = t /\ job.task = Nobody /\ job'.value.keys = keys
  BY <1>1, <1>3, <1>6, <1>7, HoldMoves DEF TasksTyped
<1>9. Notices(t)
  BY <1>1, <1>7, <1>8, KeysKept
<1>10. InHand(t) /\ InHand(t)' /\ \A p : ReplacedBy(t, p)' <=> ReplacedBy(t, p)
  BY <1>1, <1>7, <1>8 DEF InHand, ReplacedBy
<1>11. RunningFits'
  BY <1>1, <1>3, <1>8, <1>10, RunningKept
<1>12. WritesOwn(t)'
  <2>1. ASSUME NEW k \in Keys \ pc[t].keys PROVE keys[k] = Loaded.keys[k] \/ Outdated(k)
    BY <1>1, <1>5 DEF Fits, PromptsKnown, BeforeSave
  <2>2. \A k : Outdated(k)' <=> Outdated(k)
    BY <1>3 DEF Outdated
  <2> QED BY <2>1, <2>2, <1>5, <1>7, <1>8 DEF WritesOwn
<1>13. Saver(t)' /\ PromptsKnown(t)' /\ Placed(t)'
  BY <1>1, <1>7, <1>8 DEF Fits, Saver, PromptsKnown, Placed, BeforeSave
<1>14. ListsFit(t)' /\ CoversFit(t)'
  BY <1>1, <1>7, <1>8, MovesKeep
  DEF Fits, ListsFit, CoversFit, ReplacedBy, ToReplace, BeforeSave
<1>15. PutsFit(t)'
  BY <1>1, <1>3, <1>7, <1>8, <1>10, MovesKeep DEF Fits, PutsFit
<1> QED BY <1>1, <1>3, <1>8, <1>9, <1>11, <1>12, <1>13, <1>14, <1>15, MoveKeeps DEF Fits

-----------------------------------------------------------------------------
(* The reset of the prompts, the launcher, the server's end.               *)

LEMMA ResetBeginsKeeps ==
    ASSUME IInv, ResetBegins
    PROVE  TasksInv'
<1> DEFINE t == "reset"
<1>1. /\ t \in Tasks \ Patches /\ Fits(t) /\ TasksInv /\ TasksTyped /\ pc[t] = Idle
      /\ Loaded \in Settings /\ asked' \in Nat
  BY TaskNames, LoadedTyped
  DEF IInv, FilesInv, TasksInv, TasksTyped, ResetBegins, At, Fits, Placed
<1>2. PICK i \in Requests : i = Idle
  BY IdleFacts
<1>3. PICK q : q = [i EXCEPT !.at = "update", !.keys = Prompts, !.current = Loaded]
  OBVIOUS
<1>4. /\ q \in Requests /\ q.at = "update" /\ q.keys = Prompts /\ q.current = Loaded
      /\ q.to = 0 /\ q.todo = <<>> /\ q.replaced = <<>>
  BY <1>1, <1>2, <1>3, IdleFacts DEF Requests, Steps, Keys
<1>5. /\ pc' = [pc EXCEPT ![t] = q] /\ Meets(Prompts) /\ job.task = Nobody
      /\ UNCHANGED <<files, running, unrepaired, damages>>
  BY <1>2, <1>3 DEF ResetBegins, providers, CanLoad, Unlocked
<1>6. Loaded' = Loaded /\ UNCHANGED <<primary, job>> /\ pc'[t] = q
  BY <1>1, <1>5, SameFiles DEF TasksTyped
<1>7. Moves(t)
  <2>1. \E z \in Requests : pc' = [pc EXCEPT ![t] = z]
    BY <1>4, <1>5
  <2>2. mixed \subseteq mixed'
    BY <1>5 DEF Meets
  <2> QED BY <1>1, <1>5, <1>6, <2>1, <2>2 DEF Moves, TasksTyped
<1>8. Notices(t)
  BY <1>1, <1>4, <1>5, <1>6 DEF Notices, Meets
<1>9. \A p : ~ReplacedBy(t, p)
  BY <1>1, IdleFacts DEF ReplacedBy
<1>10. RunningFits'
  BY <1>1, <1>5, <1>7, <1>9, RunningKept
<1>11. /\ Prompts \cap Executables = {} /\ Prompts \subseteq Keys
       /\ ~Unwritten(t)' /\ t # "launcher" /\ job'.task # t
  BY <1>1, <1>5, <1>6, TaskNames DEF Prompts, Executables, Unwritten, Keys
<1>12. Saver(t)' /\ WritesOwn(t)' /\ PromptsKnown(t)' /\ Placed(t)'
  <2>1. Saver(t)' /\ WritesOwn(t)' /\ PromptsKnown(t)'
    BY <1>4, <1>6, <1>11 DEF Saver, WritesOwn, PromptsKnown
  <2>2. Placed(t)'
    BY <1>4, <1>6, <1>11 DEF Placed
  <2> QED BY <2>1, <2>2
<1>13. ListsFit(t)' /\ PutsFit(t)' /\ CoversFit(t)'
  BY <1>4, <1>6, <1>11 DEF ListsFit, PutsFit, CoversFit, ReplacedBy, ToReplace
<1> QED BY <1>1, <1>7, <1>8, <1>10, <1>12, <1>13, MoveKeeps DEF Fits

LEMMA LauncherSavesKeeps ==
    ASSUME IInv, LauncherSaves
    PROVE  TasksInv' /\ FilesInv' /\ Loaded' = Loaded /\ previous' = previous
<1> DEFINE t == "launcher"
           keys == [Loaded.keys EXCEPT !["theme"] = asked + 1]
<1>1. /\ t \in Tasks \ Patches /\ Fits(t) /\ TasksInv /\ TasksTyped /\ pc[t] = Idle
      /\ Loaded \in Settings /\ asked \in Nat /\ asked' \in Nat
  BY TaskNames, LoadedTyped
  DEF IInv, FilesInv, TasksInv, TasksTyped, LauncherSaves, At, Fits, Placed
<1>2. PICK i \in Requests : i = Idle
  BY IdleFacts
<1>3. PICK q : q = [i EXCEPT !.at = "saving", !.keys = {"theme"}]
  OBVIOUS
<1>4. /\ q \in Requests /\ q.at = "saving" /\ q.keys = {"theme"}
      /\ q.to = 0 /\ q.todo = <<>> /\ q.replaced = <<>>
  BY <1>1, <1>2, <1>3, IdleFacts DEF Requests, Steps, Keys
<1>5. /\ pc' = [pc EXCEPT ![t] = q] /\ Hold(t, keys, Loaded.version)
      /\ UNCHANGED <<primary, backup, previous, running, mixed, unrepaired, damages>>
  BY <1>2, <1>3 DEF LauncherSaves, providers
<1>6. /\ [keys |-> keys, version |-> Loaded.version] \in Settings
      /\ \A k \in Keys \ {"theme"} : keys[k] = Loaded.keys[k]
  BY <1>1 DEF Settings, Keys
<1> HIDE DEF keys
<1>7. /\ Moves(t) /\ pc'[t] = q /\ FilesInv' /\ Loaded' = Loaded
      /\ Unwritten(t)' /\ job'.task = t /\ job.task = Nobody /\ job'.value.keys = keys
  BY <1>1, <1>4, <1>5, <1>6, HoldMoves
<1>8. Notices(t)
  BY <1>4, <1>7 DEF Notices, Prompts, Executables
<1>9. \A p : ~ReplacedBy(t, p)
  BY <1>1, IdleFacts DEF ReplacedBy
<1>10. RunningFits'
  BY <1>1, <1>5, <1>7, <1>9, RunningKept
<1>11. Saver(t)' /\ WritesOwn(t)' /\ PromptsKnown(t)' /\ Placed(t)'
  BY <1>1, <1>4, <1>6, <1>7
  DEF Saver, WritesOwn, PromptsKnown, Placed, BeforeSave, Executables
<1>12. ListsFit(t)' /\ PutsFit(t)' /\ CoversFit(t)'
  BY <1>4, <1>7 DEF ListsFit, PutsFit, CoversFit, ReplacedBy, ToReplace, Executables
<1> QED BY <1>1, <1>5, <1>7, <1>8, <1>10, <1>11, <1>12, MoveKeeps DEF Fits

LEMMA RestartKeeps ==
    ASSUME IInv, Restart
    PROVE  TasksInv' /\ FilesInv' /\ Loaded' = Loaded /\ previous' = previous
<1>1. /\ TasksInv /\ TasksTyped /\ FilesInv /\ Loaded \in Settings
      /\ UNCHANGED <<primary, backup, previous, asked, mixed, unrepaired, damages>>
      /\ job' = Free \/ (job' = job /\ job.task = "launcher")
      /\ pc' = [t \in Tasks |-> IF t = "launcher" THEN pc[t] ELSE Idle]
      /\ running' = [p \in Executables |-> Loaded.keys[p]]
  BY LoadedTyped DEF IInv, FilesInv, TasksInv, Restart
<1>2. FilesInv' /\ Loaded' = Loaded /\ Free.task = Nobody
  BY <1>1, ReleaseKeeps
<1>3. TasksTyped'
  BY <1>1, IdleFacts DEF TasksTyped, Settings, Keys
<1>4. ASSUME NEW t \in Tasks, t # "launcher" PROVE Fits(t)' /\ pc'[t].keys = {}
  <2>1. pc'[t] = Idle /\ ~Unwritten(t)' /\ job'.task # t
    BY <1>1, <1>2, <1>4, TaskNames DEF Unwritten
  <2>2. Saver(t)' /\ WritesOwn(t)' /\ PromptsKnown(t)' /\ Placed(t)'
    BY <1>4, <2>1, IdleFacts DEF Saver, WritesOwn, PromptsKnown, Placed, BeforeSave
  <2>3. ListsFit(t)' /\ PutsFit(t)' /\ CoversFit(t)'
    BY <2>1, IdleFacts
    DEF ListsFit, PutsFit, CoversFit, InHand, ReplacedBy, ToReplace, BeforeSave
  <2> QED BY <2>1, <2>2, <2>3, IdleFacts DEF Fits
<1>5. ASSUME NEW t \in Tasks, t = "launcher" PROVE Fits(t)'
  <2>1. pc'[t] = pc[t] /\ Fits(t) /\ t \notin Patches
    BY <1>1, <1>5, TaskNames DEF TasksInv
  <2>2. job'.task = t => job' = job
    BY <1>1, <1>2, TaskNames
  <2>3. Saver(t)' /\ WritesOwn(t)' /\ PromptsKnown(t)' /\ Placed(t)'
    BY <1>1, <1>2, <2>1, <2>2
    DEF Fits, Saver, WritesOwn, PromptsKnown, Placed, Unwritten, Outdated
  <2>4. ListsFit(t)' /\ PutsFit(t)' /\ CoversFit(t)'
    BY <2>1, <2>2
    DEF Fits, Placed, ListsFit, PutsFit, CoversFit, ReplacedBy, ToReplace, Unwritten
  <2> QED BY <2>3, <2>4 DEF Fits
<1>6. Overlapping'
  BY <1>4 DEF Overlapping
<1>7. RunningFits'
  BY <1>1, <1>2 DEF RunningFits
<1> QED BY <1>1, <1>2, <1>3, <1>4, <1>5, <1>6, <1>7 DEF TasksInv

-----------------------------------------------------------------------------
(* Every step.                                                             *)

LEMMA InitInv == Init => IInv
<1> SUFFICES ASSUME Init PROVE IInv
  OBVIOUS
<1>1. /\ primary = Missing /\ backup = Missing /\ previous = Defaults /\ job = Free
      /\ running = [p \in Executables |-> 0] /\ pc = [t \in Tasks |-> Idle]
      /\ asked = 0 /\ unrepaired = FALSE /\ damages = 0
  BY DEF Init
<1>2. /\ Missing \in Stored /\ Missing.state = "missing"
      /\ Free.task = Nobody /\ Free.saves = FALSE /\ Free.todo = <<>>
      /\ Free \in [task : Tasks \cup {Nobody}, saves : BOOLEAN, todo : Seq(Writes), value : Settings]
  BY DefaultsTyped DEF Missing, Stored, Free
<1>3. FilesInv
  BY <1>1, <1>2, DefaultsTyped DEF FilesInv, FilesTyped, FilesFit, JobFits
<1>4. TasksTyped
  BY <1>1, IdleFacts DEF TasksTyped
<1>5. ASSUME NEW t \in Tasks PROVE Fits(t)
  <2>1. pc[t] = Idle /\ ~Unwritten(t) /\ job.task # t
    BY <1>1, <1>2, TaskNames DEF Unwritten
  <2>2. Saver(t) /\ WritesOwn(t) /\ PromptsKnown(t) /\ Placed(t)
    BY <2>1, IdleFacts DEF Saver, WritesOwn, PromptsKnown, Placed, BeforeSave
  <2>3. ListsFit(t) /\ PutsFit(t) /\ CoversFit(t)
    BY <2>1, IdleFacts
    DEF ListsFit, PutsFit, CoversFit, InHand, ReplacedBy, ToReplace, BeforeSave
  <2> QED BY <2>2, <2>3 DEF Fits
<1>6. Overlapping
  BY <1>1, IdleFacts DEF Overlapping
<1>7. RunningFits
  <2>1. \A p \in Executables : running[p] = 0 /\ Loaded.keys[p] = 0
    BY <1>1, <1>2 DEF Loaded, Defaults, Keys
  <2> QED BY <2>1 DEF RunningFits
<1> QED BY <1>3, <1>4, <1>5, <1>6, <1>7 DEF IInv, TasksInv

LEMMA FilesKept ==
    ASSUME IInv, UNCHANGED <<files, damages>>
    PROVE  FilesInv' /\ Loaded' = Loaded /\ previous' = previous
BY SameFiles, ReleaseKeeps DEF IInv

\* A step keeps the invariant, takes one step of the register, and changes no setting
\* that another request has set.
LEMMA EveryStep ==
    ASSUME IInv, [Next]_vars
    PROVE  /\ IInv'
           /\ Registered
           /\ damages' = damages => OwnOnly
<1> DEFINE Still == FilesInv' /\ TasksInv' /\ Loaded' = Loaded /\ previous' = previous
           Goal == /\ IInv' /\ Registered
                   /\ damages' = damages => OwnOnly
<1>0. ASSUME Still PROVE Goal
  BY <1>0 DEF IInv, Registered, OwnOnly
<1>1. ASSUME NEW r \in Patches, NEW body \in Bodies, NEW x \in {0, asked + 1},
             PatchBegins(r, body, x)
      PROVE  Still
  BY <1>1, PatchBeginsKeeps, FilesKept DEF PatchBegins
<1>2. ASSUME NEW r \in Patches, Validated(r) \/ ReplaceEnds(r) PROVE Still
  <2>1. /\ pc[r].at \in {"validating", "replaced"} /\ pc' = Goto(r, Proceed(r, pc[r].todo))
        /\ UNCHANGED <<files, running, asked, mixed, unrepaired, damages>>
    BY <1>2 DEF Validated, ReplaceEnds, At, providers
  <2> QED BY <2>1, ProceedKeeps, FilesKept
<1>3. ASSUME NEW r \in Patches, Invalid(r) \/ Replace(r) \/ ReplaceFails(r) \/ EmitFails(r)
      PROVE  Still
  <2>1. UNCHANGED <<files, damages>>
    BY <1>3 DEF Invalid, Replace, ReplaceFails, EmitFails
  <2> QED
    BY <1>3, <2>1, FilesKept, InvalidKeeps, ReplaceKeeps, ReplaceFailsKeeps, EmitFailsKeeps
<1>4. ASSUME NEW r \in Patches, NEW isBusy \in BOOLEAN, RolledBack(r, isBusy) PROVE Still
  <2>1. UNCHANGED <<files, damages>>
    BY <1>4 DEF RolledBack
  <2> QED BY <1>4, <2>1, FilesKept, RolledBackKeeps
<1>5. ASSUME NEW t \in Tasks, Done(t) PROVE Still
  <2>1. UNCHANGED <<files, damages>>
    BY <1>5 DEF Done
  <2> QED BY <1>5, <2>1, FilesKept, DoneKeeps
<1>6. ASSUME NEW t \in Tasks, Update(t) PROVE Still
  BY <1>6, UpdateKeeps
<1>7. ASSUME NEW t \in Tasks, Recover(t) PROVE Still
  <2>1. /\ FilesInv' /\ Loaded' = Loaded /\ previous' = previous
        /\ job.task = Nobody /\ job'.saves = FALSE
    BY <1>7, RecoverKeeps DEF IInv
  <2>2. UNCHANGED <<pc, running, asked, mixed, unrepaired, damages>>
    BY <1>7 DEF Recover, providers
  <2>3. \A u \in Tasks : ~Unwritten(u) /\ ~Unwritten(u)'
    BY <2>1, TaskNames DEF Unwritten
  <2>4. damages' \in Nat /\ damages' >= damages
    BY <2>2 DEF IInv, TasksInv, TasksTyped
  <2> QED BY <2>1, <2>2, <2>3, <2>4, UnseenKeeps DEF IInv
<1>8. ASSUME WriteFails PROVE Still
  <2>1. FilesInv' /\ Loaded' = Loaded /\ previous' = previous
    BY <1>8, ReleaseKeeps DEF WriteFails, IInv
  <2> QED BY <1>8, <2>1, WriteFailsKeeps
<1>9. ASSUME ResetBegins PROVE Still
  <2>1. UNCHANGED <<files, damages>>
    BY <1>9 DEF ResetBegins
  <2> QED BY <1>9, <2>1, FilesKept, ResetBeginsKeeps
<1>10. ASSUME LauncherSaves \/ Restart PROVE Still
  BY <1>10, LauncherSavesKeeps, RestartKeeps
<1>11. ASSUME UNCHANGED vars PROVE Still
  <2>1. UNCHANGED <<files, pc, running, asked, mixed, unrepaired, damages>>
    BY <1>11 DEF vars, providers
  <2>2. /\ FilesInv' /\ Loaded' = Loaded /\ previous' = previous
        /\ primary' = primary /\ job' = job
    BY <2>1, FilesKept, SameFiles
  <2>3. damages' \in Nat /\ damages' >= damages
    BY <2>1 DEF IInv, TasksInv, TasksTyped
  <2>4. \A u \in Tasks : Unwritten(u)' <=> Unwritten(u)
    BY <2>2 DEF Unwritten
  <2> QED BY <2>1, <2>2, <2>3, <2>4, UnseenKeeps DEF IInv
<1>12. ASSUME Write PROVE Goal
  <2>1. /\ FilesInv' /\ Registered
        /\ SaveWritten \/ Unseen
    BY <1>12, WriteKeeps DEF IInv
  <2>2. UNCHANGED <<pc, running, asked, mixed, unrepaired, damages>>
    BY <1>12 DEF Write, providers
  <2>3. CASE SaveWritten
    BY <2>1, <2>2, <2>3, SavedKeeps DEF IInv
  <2>4. CASE Unseen
    <3>1. damages \in Nat /\ damages' = damages /\ TasksInv
      BY <2>2 DEF IInv, TasksInv, TasksTyped
    <3>2. Loaded' = Loaded \/ damages' > 0
      BY <2>4, <3>1 DEF Unseen, IInv, FilesInv, FilesFit
    <3>3. \A t \in Tasks : job'.task = t /\ job'.saves = TRUE => job.task = t /\ job.saves = TRUE
      BY <2>4, TaskNames DEF Unseen
    <3>4. \A t \in Tasks : Unwritten(t) =>
                /\ job'.value = job.value
                /\ primary'.state # "damaged" => primary.state # "damaged" /\ Loaded' = Loaded
      BY <2>4 DEF Unseen
    <3>5. TasksInv'
      <4>1. damages' \in Nat /\ damages' >= damages
        BY <3>1
      <4>2. \A t \in Tasks : Unwritten(t)' <=> Unwritten(t)
        BY <2>4 DEF Unseen
      <4> QED BY <2>2, <3>1, <3>2, <3>3, <3>4, <4>1, <4>2, UnseenKeeps
    <3>6. OwnOnly
      BY <2>4 DEF Unseen, OwnOnly
    <3> QED BY <2>1, <3>5, <3>6 DEF IInv
  <2> QED BY <2>1, <2>3, <2>4
<1>13. ASSUME Damage PROVE Goal
  <2>1. /\ FilesInv' /\ Registered /\ damages' > 0 /\ damages' \in Nat
        /\ primary'.state # "damaged" => primary.state # "damaged" /\ Loaded' = Loaded
    BY <1>13, DamageKeeps DEF IInv, TasksInv
  <2>2. UNCHANGED <<job, pc, running, asked, mixed, unrepaired>> /\ damages' = damages + 1
        /\ damages \in Nat
    BY <1>13 DEF Damage, providers, IInv, TasksInv, TasksTyped
  <2>3. \A u \in Tasks : Unwritten(u)' <=> Unwritten(u)
    BY <2>2 DEF Unwritten
  <2>4. damages' >= damages /\ damages' # damages
    BY <2>2
  <2>5. TasksInv'
    BY <2>1, <2>2, <2>3, <2>4, UnseenKeeps DEF IInv
  <2> QED BY <2>1, <2>4, <2>5 DEF IInv
<1> HIDE DEF Goal, Still
<1>14. ASSUME Next PROVE Goal
  <2>1. ASSUME NEW r \in Patches, PatchGoesOn(r) PROVE Goal
    BY <2>1, <1>0, <1>2, <1>3, <1>4 DEF PatchGoesOn
  <2>2. ASSUME SaveGoesOn PROVE Goal
    BY <2>2, <1>0, <1>5, <1>6, <1>7, <1>8, <1>12 DEF SaveGoesOn
  <2> QED
    BY <2>1, <2>2, <1>14, <1>0, <1>1, <1>9, <1>10, <1>13 DEF Next
<1> QED
  BY <1>0, <1>11, <1>14 DEF Goal

-----------------------------------------------------------------------------
(* The theorems.                                                           *)

LEMMA Invariance == Spec => []IInv
<1>1. IInv /\ [Next]_vars => IInv'
  BY EveryStep
<1> QED
  BY <1>1, InitInv, PTL DEF Spec

\* Settings.json and its backup are a register, whatever crash or failure strikes between
\* two of their writes and whoever writes them: a change takes effect at once or not at
\* all, and damage to one of them brings back at most the value before the latest change.
THEOREM SettingsImplementRegister == Spec => Registers
<1>1. Init => Register!Init
  BY DEF Init, Register!Init, Missing, Loaded
<1>2. IInv /\ [Next]_vars => [Register!Change \/ Register!Damage]_<<Loaded, previous>>
  <2> SUFFICES ASSUME IInv, [Next]_vars
               PROVE  [Register!Change \/ Register!Damage]_<<Loaded, previous>>
    OBVIOUS
  <2>1. Registered
    BY EveryStep
  <2> QED BY <2>1 DEF Registered, Register!Change, Register!Damage
<1> QED
  BY <1>1, <1>2, Invariance, PTL DEF Spec, Registers, Register!Spec

\* No request takes back what another has set: PATCH requests that wait at their awaits,
\* the reset in its thread and the launcher each change the settings they have asked for,
\* except that requests for prompts that overlap, or damage, may undo prompts.
THEOREM KeysNeverRevert == Spec => NoKeyReverts
<1>1. IInv /\ [Next]_vars =>
        \A k \in Keys :
          (Loaded'.keys[k] # Loaded.keys[k] /\ damages' = damages /\ primary.state # "damaged")
            => \/ k \in pc[job.task].keys
               \/ k \in Prompts /\ (Prompts \in mixed \/ damages > 0)
  BY EveryStep DEF OwnOnly, Outdated
<1> QED
  BY <1>1, Invariance, PTL DEF Spec, NoKeyReverts

\* When all requests have ended, the providers run what the file has: a request that
\* fails has put back every provider it had replaced, in whatever order the awaits of
\* several requests end - unless requests for executables have met, a failure followed the
\* save or struck the rollback, or the file was damaged.
THEOREM ProvidersAlwaysMatch == Spec => []ProvidersMatch
<1>1. IInv => ProvidersMatch
  <2>0. SUFFICES ASSUME IInv, \A r \in Patches : At(r, "idle"), Clean,
                        NEW p \in Executables
                 PROVE  running[p] = Loaded.keys[p]
    <3>1. IInv => unrepaired = TRUE \/ unrepaired = FALSE
      BY DEF IInv, TasksInv, TasksTyped
    <3>2. unrepaired = TRUE => unrepaired
      OBVIOUS
    <3>3. IInv /\ ~Clean => Executables \in mixed \/ unrepaired \/ damages > 0
      BY <3>1, <3>2 DEF Clean, IInv, TasksInv, TasksTyped
    <3> QED BY <3>3 DEF ProvidersMatch
  <2>1. ASSUME NEW t \in Tasks, ReplacedBy(t, p) PROVE FALSE
    BY <2>0, <2>1, IdleFacts DEF ReplacedBy, IInv, TasksInv, Fits, Placed, At
  <2> QED BY <2>0, <2>1 DEF IInv, TasksInv, RunningFits
<1> QED BY <1>1, Invariance, PTL
=============================================================================
