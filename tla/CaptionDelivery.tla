--------------------------- MODULE CaptionDelivery ---------------------------
(***************************************************************************)
(* What the extension and the daemon promise of an event together, without *)
(* sockets, queues, storage or session scopes: the extension takes an      *)
(* event once and keeps it until the daemon has answered it, unless it     *)
(* drops it by a decision it records; the daemon answers an event once,    *)
(* and only then may the event enter a transcript.                         *)
(***************************************************************************)
CONSTANTS Events, Sessions, None

VARIABLES
    kept,      \* events the extension is answerable for
    dropped,   \* events it gave up and recorded as given up
    answered,  \* events the daemon has answered
    entered    \* per event, the session whose transcript it entered, or None

vars == <<kept, dropped, answered, entered>>

Taken == kept \cup dropped \cup answered

Init ==
    /\ kept = {}
    /\ dropped = {}
    /\ answered = {}
    /\ entered = [e \in Events |-> None]

Keep(e) ==
    /\ e \notin Taken
    /\ kept' = kept \cup {e}
    /\ UNCHANGED <<dropped, answered, entered>>

TurnAway(e) ==
    /\ e \notin Taken
    /\ dropped' = dropped \cup {e}
    /\ UNCHANGED <<kept, answered, entered>>

\* An event given up may be on its way already, and is answered all the same.
Answer(e) ==
    /\ e \in Taken \ answered
    /\ answered' = answered \cup {e}
    /\ \E s \in Sessions \cup {None} : entered' = [entered EXCEPT ![e] = s]
    /\ UNCHANGED <<kept, dropped>>

Release(e) ==
    /\ e \in kept \cap answered
    /\ kept' = kept \ {e}
    /\ UNCHANGED <<dropped, answered, entered>>

Drop(given) ==
    /\ kept' = kept \ given
    /\ dropped' = dropped \cup given
    /\ UNCHANGED <<answered, entered>>

Next ==
    \/ \E e \in Events : Keep(e) \/ TurnAway(e) \/ Answer(e) \/ Release(e)
    \/ \E given \in SUBSET kept : Drop(given)

Spec == Init /\ [][Next]_vars
=============================================================================
