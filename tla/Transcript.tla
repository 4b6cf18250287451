----------------------------- MODULE Transcript -----------------------------
(***************************************************************************)
(* What the recording core promises about transcripts, without segments,   *)
(* sources, grace periods, tasks, threads or restarts: one recorder at a   *)
(* time; captions written for the recorder; a caption revised upward until *)
(* it is final and then left alone; unfinished captions discarded only     *)
(* when their session is not the recorder.                                 *)
(***************************************************************************)
EXTENDS Naturals

CONSTANTS Sessions, Keys, None

VARIABLES
    recorder,  \* the recording session, or None
    entries    \* per key, the caption stored under it, or None

vars == <<recorder, entries>>

Of(s) == {k \in Keys : entries[k] # None /\ entries[k].session_id = s}
UnfinishedOf(s) == {k \in Of(s) : ~entries[k].final}
Without(gone) == [k \in Keys |-> IF k \in gone THEN None ELSE entries[k]]

Init == recorder = None /\ entries = [k \in Keys |-> None]

Begin(s) ==
    /\ recorder = None
    /\ recorder' = s
    /\ UNCHANGED entries

\* Recording ends; with a restart, the unfinished captions go at once.
End ==
    /\ recorder # None
    /\ recorder' = None
    /\ entries' \in {entries, Without(UnfinishedOf(recorder))}

Write(k) ==
    /\ recorder # None
    /\ entries[k] = None
    /\ entries'[k] # None
    /\ entries'[k].session_id = recorder
    /\ entries' = [entries EXCEPT ![k] = entries'[k]]
    /\ UNCHANGED recorder

\* Once recording has ended a caption can be finalized, not otherwise revised.
Revise(k) ==
    /\ entries[k] # None
    /\ ~entries[k].final
    /\ entries'[k] # None
    /\ entries'[k].session_id = entries[k].session_id
    /\ entries'[k].revision >= entries[k].revision
    /\ recorder = None => entries'[k].final
    /\ entries' = [entries EXCEPT ![k] = entries'[k]]
    /\ UNCHANGED recorder

Discard(s) ==
    /\ s # recorder
    /\ entries' = Without(UnfinishedOf(s))
    /\ UNCHANGED recorder

Erase(s) ==
    /\ entries' = Without(Of(s))
    /\ recorder' = IF recorder = s THEN None ELSE recorder

Next ==
    \/ \E s \in Sessions : Begin(s) \/ Discard(s) \/ Erase(s)
    \/ End
    \/ \E k \in Keys : Write(k) \/ Revise(k)

Spec == Init /\ [][Next]_vars
=============================================================================
