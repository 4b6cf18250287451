---------------------------- MODULE ServerSettings ----------------------------
(***************************************************************************)
(* The global settings: settings.json with its backup                      *)
(* (settings/json_store.py, settings/config.py), PATCH /settings and the   *)
(* reset of the prompts (api/router.py) in the server, and the launcher,   *)
(* which writes the file itself when the server does not answer.           *)
(*                                                                         *)
(* A PATCH runs on the event loop and gives way where it awaits: while an  *)
(* agent selection is validated and while a provider is replaced.  The     *)
(* reset runs in a thread.  Every access to the files is under one file    *)
(* lock, which ends with the process that holds it.  A setting is a        *)
(* number: 0 is its default, n what the n-th request has asked for.        *)
(* X_Y is the mutant Y of definition X.                                    *)
(***************************************************************************)
EXTENDS Naturals, Sequences, FiniteSets

CONSTANTS
    Patches,     \* PATCH requests that may be under way together
    Bodies,      \* the sets of keys a PATCH may carry
    Nobody,      \* no task
    MaxRequests, \* bound on requests
    MaxFaults,   \* bound on busy providers, failed events and crashes
    MaxDamages   \* bound on damage to the files

Prompts == {"en", "ru"}
Executables == {"codex", "claude"}
Keys == {"theme", "agent"} \cup Prompts \cup Executables

ASSUME SettingsAssumption ==
    /\ Bodies \subseteq SUBSET Keys
    /\ Nobody \notin Patches \cup {"reset", "launcher"}
    /\ Patches \cap {"reset", "launcher"} = {}
    /\ {MaxRequests, MaxFaults, MaxDamages} \subseteq Nat

Tasks == Patches \cup {"reset", "launcher"}

\* GlobalSettings: the keys and the version of the prompts.
Defaults == [keys |-> [k \in Keys |-> 0], version |-> 1]
Content == [keys : [Keys -> 0..MaxRequests], version : 1..(MaxRequests + 1)]

VARIABLES
    primary,    \* settings.json
    backup,     \* settings.json.bak
    previous,   \* history: the value before the latest change
    job,        \* the holder of the file lock, the writes left, the value it saves
    running,    \* the executable of each registered provider
    reconfigure,\* _provider_reconfigure_lock: its holder
    loop,       \* the PATCH that has not given the event loop back
    pc,         \* the tasks
    asked,      \* how many requests there have been
    mixed,      \* history: requests for executables, or for prompts, have overlapped
    unrepaired, \* history: a request failed after its save, or could not roll back
    faults, damages

files == <<primary, backup, previous, job>>
providers == <<running, reconfigure>>
vars == <<files, providers, loop, pc, asked, mixed, unrepaired, faults, damages>>

(***************************************************************************)
(* RecoverableJsonFile                                                     *)
(***************************************************************************)

File == [state : {"missing", "damaged", "valid"}, value : Content]
Valid(v) == [state |-> "valid", value |-> v]
Missing == [state |-> "missing", value |-> Defaults]
Free == [task |-> Nobody, saves |-> FALSE, todo |-> <<>>, value |-> Defaults]

\* load(): what it returns,
Loaded_IgnoreBackup == IF primary.state = "valid" THEN primary.value ELSE Defaults
Loaded ==
    CASE primary.state = "valid" -> primary.value
      [] primary.state # "valid" /\ backup.state = "valid" -> backup.value
      [] OTHER -> Defaults

\* and the files it repairs first.
Repairs ==
    CASE primary.state = "valid" -> <<>>
      [] primary.state # "valid" /\ backup.state = "valid" -> <<"primary">>
      [] primary.state = "damaged" /\ backup.state # "valid" -> <<"primary", "backup">>
      [] OTHER -> <<>>

\* save(): the present value becomes the backup, the new one the value, and the backup
\* too if there is none.
Saves == <<"keep", "primary", "seed">>

Unlocked == job.task = Nobody
\* A load that finds nothing to repair.
CanLoad == Unlocked /\ Repairs = <<>>

\* A task takes the lock for a load that has something to repair: the load itself
\* follows, and finds nothing to do.
Recover(t) ==
    /\ Unlocked /\ Repairs # <<>>
    /\ pc[t].at \in {"idle", "update"}
    /\ job' = [task |-> t, saves |-> FALSE, todo |-> Repairs, value |-> Loaded]
    /\ UNCHANGED <<primary, backup, previous, providers, loop, pc, asked, mixed, unrepaired,
                   faults, damages>>

\* update(changes): the settings are loaded and saved under one hold of the lock.
Hold(t, keys, version) ==
    /\ CanLoad
    /\ job' = [task |-> t, saves |-> TRUE, todo |-> Saves,
                value |-> [keys |-> keys, version |-> version]]

\* One atomic write of the task that holds the lock.
Step(f) == Head(job.todo) = f
WriteFile ==
    /\ primary' = IF Step("primary") THEN Valid(job.value) ELSE primary
    /\ backup' = CASE Step("keep") /\ primary.state = "valid" -> primary
                   [] Step("backup") -> Valid(job.value)
                   [] Step("seed") /\ backup.state # "valid" -> Valid(job.value)
                   [] OTHER -> backup
    /\ previous' = IF Step("primary") /\ job.saves THEN Loaded ELSE previous

Write ==
    /\ job.todo # <<>>
    /\ WriteFile
    /\ job' = IF Len(job.todo) = 1 THEN Free ELSE [job EXCEPT !.todo = Tail(@)]
    /\ UNCHANGED <<providers, loop, pc, asked, mixed, unrepaired, faults, damages>>

\* Something else damages one of two readable files.
Damage ==
    /\ damages < MaxDamages
    /\ damages' = damages + 1
    /\ primary.state # "damaged" /\ backup.state # "damaged"
    /\ \/ /\ primary.state = "valid"
          /\ primary' = [state |-> "damaged", value |-> Defaults]
          /\ UNCHANGED backup
       \/ /\ backup.state = "valid"
          /\ backup' = [state |-> "damaged", value |-> Defaults]
          /\ UNCHANGED primary
    /\ UNCHANGED <<previous, job, providers, loop, pc, asked, mixed, unrepaired, faults>>

(***************************************************************************)
(* PATCH /settings                                                         *)
(***************************************************************************)

Idle == [at |-> "idle", keys |-> {}, to |-> 0, current |-> Defaults, todo |-> <<>>, replaced |-> <<>>]
At(t, step) == pc[t].at = step
Goto(t, step) == [pc EXCEPT ![t].at = step]
Fault == faults < MaxFaults /\ faults' = faults + 1

\* The groups of settings whose requests may disturb each other.
Meets(keys) ==
    mixed' = mixed \cup {g \in {Prompts, Executables} :
        g \cap keys # {} /\ \E t \in Tasks : g \cap pc[t].keys # {}}

\* The executables a PATCH has to replace, in the order of the code.
Replacing(keys, x) ==
    LET Of(p) == IF p \in keys /\ x # Loaded.keys[p] THEN <<p>> ELSE <<>>
    IN  Of("codex") \o Of("claude")

\* Once the selection is valid: the executables, or at once the update.
Proceed(r, todo) == IF todo = <<>> THEN "update" ELSE "replacing"

PatchBegins(r, body, x) ==
    /\ At(r, "idle") /\ loop = Nobody
    /\ CanLoad
    /\ asked < MaxRequests /\ asked' = asked + 1
    /\ LET todo == Replacing(body, x)
           next == IF "agent" \in body THEN "validating" ELSE Proceed(r, todo)
       IN  /\ pc' = [pc EXCEPT ![r] = [at |-> next, keys |-> body, to |-> x, current |-> Loaded,
                                      todo |-> todo, replaced |-> <<>>]]
           /\ loop' = IF next = "update" THEN r ELSE Nobody
    /\ Meets(body)
    /\ UNCHANGED <<files, providers, unrepaired, faults, damages>>

\* _validate_agent_selection has returned, or raised a 422.
Validated(r) ==
    /\ At(r, "validating") /\ loop = Nobody
    /\ LET next == Proceed(r, pc[r].todo) IN
        /\ pc' = Goto(r, next)
        /\ loop' = IF next = "update" THEN r ELSE Nobody
    /\ UNCHANGED <<files, providers, asked, mixed, unrepaired, faults, damages>>

Invalid(r) ==
    /\ At(r, "validating") /\ loop = Nobody
    /\ pc' = [pc EXCEPT ![r] = Idle]
    /\ UNCHANGED <<files, providers, loop, asked, mixed, unrepaired, faults, damages>>

\* An exception ends the request, once what it has replaced is rolled back.
Raise(r) ==
    pc' = IF pc[r].replaced = <<>> THEN [pc EXCEPT ![r] = Idle] ELSE Goto(r, "rollback")

\* replace_provider: the lock is taken, the new provider stands in place of the old, and
\* its health is awaited;
Replace(r) ==
    /\ At(r, "replacing") /\ loop = Nobody
    /\ reconfigure = Nobody
    /\ LET p == Head(pc[r].todo) IN
        /\ running' = [running EXCEPT ![p] = pc[r].to]
        /\ pc' = [pc EXCEPT ![r].at = "replaced", ![r].todo = Tail(@),
                           ![r].replaced = Append(@, [provider |-> p, was |-> running[p]])]
    /\ reconfigure' = r
    /\ UNCHANGED <<files, loop, asked, mixed, unrepaired, faults, damages>>

\* or runs of the provider are queued, or its process does not stop.
ReplaceFails(r) ==
    /\ At(r, "replacing") /\ loop = Nobody
    /\ reconfigure = Nobody
    /\ Fault
    /\ Raise(r)
    /\ UNCHANGED <<files, providers, loop, asked, mixed, unrepaired, damages>>

\* The lock is free and the request goes on before anyone who waits for it.
ReplaceEnds_KeepLock(r) ==
    /\ At(r, "replaced") /\ loop = Nobody
    /\ LET next == Proceed(r, pc[r].todo) IN
        /\ pc' = Goto(r, next)
        /\ loop' = IF next = "update" THEN r ELSE Nobody
        /\ reconfigure' = IF next = "update" THEN Nobody ELSE r
    /\ UNCHANGED <<files, running, asked, mixed, unrepaired, faults, damages>>
ReplaceEnds(r) ==
    /\ At(r, "replaced") /\ loop = Nobody
    /\ LET next == Proceed(r, pc[r].todo) IN
        /\ pc' = Goto(r, next)
        /\ loop' = IF next = "update" THEN r ELSE Nobody
    /\ reconfigure' = Nobody
    /\ UNCHANGED <<files, running, asked, mixed, unrepaired, faults, damages>>

\* The changes of a PATCH: a language's prompt is merged into the prompts it began with.
Merged(r) ==
    [k \in Keys |->
        CASE k \in pc[r].keys -> pc[r].to
          [] k \in Prompts \ pc[r].keys /\ pc[r].keys \cap Prompts # {} -> pc[r].current.keys[k]
          [] OTHER -> Loaded.keys[k]]
VersionAfter(t) ==
    IF pc[t].keys \cap Prompts # {} THEN pc[t].current.version + 1 ELSE Loaded.version

Update_Stale(t) ==
    /\ At(t, "update")
    /\ Hold(t, [k \in Keys |-> IF k \in pc[t].keys THEN pc[t].to ELSE pc[t].current.keys[k]],
            VersionAfter(t))
    /\ pc' = Goto(t, "saving")
    /\ UNCHANGED <<primary, backup, previous, providers, loop, asked, mixed, unrepaired, faults, damages>>
Update(t) ==
    /\ At(t, "update")
    /\ Hold(t, Merged(t), VersionAfter(t))
    /\ pc' = Goto(t, "saving")
    /\ UNCHANGED <<primary, backup, previous, providers, loop, asked, mixed, unrepaired, faults, damages>>

\* The settings are saved and settings.changed is emitted.
Done(t) ==
    /\ At(t, "saving") /\ job.task # t
    /\ pc' = [pc EXCEPT ![t] = Idle]
    /\ loop' = IF loop = t THEN Nobody ELSE loop
    /\ UNCHANGED <<files, providers, asked, mixed, unrepaired, faults, damages>>

\* The event is not: the database is locked.
EmitFails(r) ==
    /\ At(r, "saving") /\ job.task # r
    /\ Fault
    /\ Raise(r)
    /\ loop' = Nobody
    /\ unrepaired' = (unrepaired \/ pc[r].replaced # <<>>)
    /\ UNCHANGED <<files, providers, asked, mixed, damages>>

\* A write fails, or the launcher dies in it: the task lets the lock go.
WriteFails ==
    /\ job.task # Nobody /\ job.saves
    /\ Fault
    /\ job' = Free
    /\ Raise(job.task)
    /\ loop' = IF loop = job.task THEN Nobody ELSE loop
    /\ unrepaired' = (unrepaired \/ (Step("seed") /\ pc[job.task].replaced # <<>>))
    /\ UNCHANGED <<primary, backup, previous, providers, asked, mixed, damages>>

\* The providers replaced are put back, the last one first; one that is busy stays.
RolledBack_FirstOnly(r, isBusy) ==
    /\ At(r, "rollback") /\ loop = Nobody
    /\ reconfigure = Nobody
    /\ running' = [running EXCEPT ![pc[r].replaced[1].provider] = pc[r].replaced[1].was]
    /\ pc' = [pc EXCEPT ![r] = Idle]
    /\ UNCHANGED <<files, reconfigure, loop, asked, mixed, unrepaired, faults, damages>>
RolledBack(r, isBusy) ==
    /\ At(r, "rollback") /\ loop = Nobody
    /\ reconfigure = Nobody
    /\ LET n == Len(pc[r].replaced)
           put == pc[r].replaced[n]
       IN  /\ IF isBusy THEN Fault /\ UNCHANGED running
              ELSE running' = [running EXCEPT ![put.provider] = put.was] /\ UNCHANGED faults
           /\ pc' = IF n = 1 THEN [pc EXCEPT ![r] = Idle]
                    ELSE [pc EXCEPT ![r].replaced = SubSeq(@, 1, n - 1)]
    /\ unrepaired' = (unrepaired \/ isBusy)
    /\ UNCHANGED <<files, reconfigure, loop, asked, mixed, damages>>

(***************************************************************************)
(* The reset of the prompts, the launcher, the server's end                *)
(***************************************************************************)

ResetBegins ==
    /\ At("reset", "idle")
    /\ CanLoad
    /\ asked < MaxRequests /\ asked' = asked + 1
    /\ pc' = [pc EXCEPT !["reset"] = [Idle EXCEPT !.at = "update", !.keys = Prompts, !.current = Loaded]]
    /\ Meets(Prompts)
    /\ UNCHANGED <<files, providers, loop, unrepaired, faults, damages>>

\* _save_global_settings, when the server is off or has not answered its PATCH in time.
LauncherSaves ==
    /\ At("launcher", "idle")
    /\ asked < MaxRequests /\ asked' = asked + 1
    /\ Hold("launcher", [Loaded.keys EXCEPT !["theme"] = asked + 1], Loaded.version)
    /\ pc' = [pc EXCEPT !["launcher"] = [Idle EXCEPT !.at = "saving", !.keys = {"theme"}]]
    /\ UNCHANGED <<primary, backup, previous, providers, loop, mixed, unrepaired, faults, damages>>

\* The server dies, and starts again with the providers of the file.
Restart ==
    /\ Fault
    /\ pc' = [t \in Tasks |-> IF t = "launcher" THEN pc[t] ELSE Idle]
    /\ loop' = Nobody /\ reconfigure' = Nobody
    /\ job' = IF job.task = "launcher" THEN job ELSE Free
    /\ running' = [p \in Executables |-> Loaded.keys[p]]
    /\ UNCHANGED <<primary, backup, previous, asked, mixed, unrepaired, damages>>

(***************************************************************************)
(* The specification                                                       *)
(***************************************************************************)

Init ==
    /\ primary = Missing /\ backup = Missing /\ previous = Defaults /\ job = Free
    /\ running = [p \in Executables |-> 0]
    /\ reconfigure = Nobody /\ loop = Nobody
    /\ pc = [t \in Tasks |-> Idle]
    /\ asked = 0 /\ mixed = {} /\ unrepaired = FALSE /\ faults = 0 /\ damages = 0

PatchGoesOn(r) ==
    \/ Validated(r) \/ Invalid(r) \/ Replace(r) \/ ReplaceFails(r) \/ ReplaceEnds(r)
    \/ EmitFails(r) \/ \E isBusy \in BOOLEAN : RolledBack(r, isBusy)
SaveGoesOn == Write \/ WriteFails \/ (\E t \in Tasks : Recover(t) \/ Update(t) \/ Done(t))

Next ==
    \/ \E r \in Patches, body \in Bodies, x \in {0, asked + 1} : PatchBegins(r, body, x)
    \/ \E r \in Patches : PatchGoesOn(r)
    \/ SaveGoesOn
    \/ ResetBegins \/ LauncherSaves \/ Restart \/ Damage

Spec == Init /\ [][Next]_vars

\* Every await of a PATCH returns or raises, and whoever holds the file lock goes on.
FairSpec == Spec /\ (\A r \in Patches : WF_vars(PatchGoesOn(r))) /\ WF_vars(SaveGoesOn)

(***************************************************************************)
(* Properties                                                              *)
(***************************************************************************)

\* The two files are a register: whatever crash strikes between their writes, a change
\* takes effect at once or not at all, and damage to one of them brings back at most the
\* value before the latest change (RecoverableJsonFile.load, save).
Register == INSTANCE SettingsRegister WITH value <- Loaded
Registers == Register!Spec

\* No request takes back what another one has set: a setting changes only in the save of
\* a request for it, except that requests for prompts under way together may undo each
\* other's, or the damage that has come in between (SettingsStore.update under one hold of the lock, update_settings).
NoKeyReverts ==
    [][\A k \in Keys :
        (Loaded'.keys[k] # Loaded.keys[k] /\ damages' = damages /\ primary.state # "damaged")
            => \/ k \in pc[job.task].keys
               \/ k \in Prompts /\ (Prompts \in mixed \/ damages > 0)]_vars

\* When no request is under way, the providers run the executables of the file: a request
\* that fails puts back those it has replaced.  Not so after requests for executables have
\* met, a failure that followed the save or struck the rollback, or damage to the file
\* (update_settings, replace_provider).
ProvidersMatch ==
    (\A r \in Patches : At(r, "idle")) =>
        \/ \A p \in Executables : running[p] = Loaded.keys[p]
        \/ Executables \in mixed \/ unrepaired \/ damages > 0

\* A request that has begun ends: the locks of the event loop, of the providers and of the
\* file do not wait for each other (update_settings, replace_provider, FileLock).
RequestsEnd == \A r \in Patches : (pc[r].at # "idle") ~> (pc[r].at = "idle")

=============================================================================
