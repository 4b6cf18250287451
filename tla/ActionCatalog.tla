---------------------------- MODULE ActionCatalog -----------------------------
(***************************************************************************)
(* The actions and the presets a session chooses from: ButtonService,      *)
(* ActionPresetService and what SessionService does with a preset          *)
(* (services/buttons.py, services/action_presets.py, services/sessions.py, *)
(* the routes, the foreign keys of persistence/models.py).                 *)
(*                                                                         *)
(* The handlers run on a pool of threads.  SQLite takes its lock before    *)
(* the first write, so a request is two steps: it reads and checks, and it *)
(* writes and commits.  An id is never used again.  Left out: the text of  *)
(* an action, its key, and definition_version.                             *)
(* X_Y is the mutant Y of definition X.                                    *)
(***************************************************************************)
EXTENDS Naturals, Sequences, FiniteSets, Excerpt

CONSTANTS
    Buttons,       \* ids of actions
    Presets,       \* ids of presets
    Default,       \* the id of the Default preset
    Sessions,
    Names,         \* names a preset may get
    DefaultName,
    lower,         \* the name in lower case
    Lists,         \* lists of actions a request may ask for
    Factory,       \* the actions the migration installs in Default
    Null,          \* no preset, or what a request leaves as it is
    MaxPresets,    \* MAX_ACTION_PRESETS
    MaxActions,    \* MAX_ACTIONS
    MaxPerPreset,  \* MAX_ACTIONS_PER_PRESET
    MaxOpen,       \* bound on the requests at work at once
    MaxRequests    \* bound on all requests

ASSUME CatalogAssumption ==
    /\ Default \in Presets /\ Null \notin Presets \cup Sessions /\ DefaultName \in Names
    /\ {MaxPresets, MaxActions, MaxPerPreset, MaxOpen, MaxRequests} \subseteq Nat
    /\ Lists \cup {Factory} \subseteq Seq(Buttons)

VARIABLES
    buttons,   \* "absent", "present" or "deleted"
    presets,   \* likewise
    name,      \* of each preset
    items,     \* the actions of each preset, in their order
    session,   \* of each session, whether it exists or has started, and its preset
    lock,      \* the request that holds transition_lock, or Null
    open,      \* the requests that have read and not yet written
    made,      \* the number of requests there have been
    asked      \* history: the list of the last request that set the items of a preset

catalog == <<buttons, presets, name, items, asked>>
vars == <<catalog, session, lock, open, made>>

Present(table) == {x \in DOMAIN table : table[x] = "present"}

\* transaction: a request that has passed its checks writes next.
Opens(request) ==
    /\ made < MaxRequests /\ Cardinality(open) < MaxOpen
    /\ made' = made + 1
    /\ open' = open \cup {[request EXCEPT !.id = made]}

\* It commits or fails.
Closes(request) == open' = open \ {request} /\ UNCHANGED made

(***************************************************************************)
(* Actions                                                                 *)
(***************************************************************************)

CreateButton(b) ==
    /\ buttons[b] = "absent"
    /\ Cardinality(Present(buttons)) < MaxActions
    /\ Opens([id |-> 0, op |-> "create button", b |-> b])
    /\ UNCHANGED <<catalog, session, lock>>

ButtonCreated(r) ==
    /\ r.op = "create button"
    /\ buttons' = IF buttons[r.b] = "absent" THEN [buttons EXCEPT ![r.b] = "present"] ELSE buttons
    /\ Closes(r)
    /\ UNCHANGED <<presets, name, items, asked, session, lock>>

DeleteButton(b) ==
    /\ b \in Present(buttons)
    /\ Opens([id |-> 0, op |-> "delete button", b |-> b])
    /\ UNCHANGED <<catalog, session, lock>>

\* The items go by cascade.
Cascade(p, b) == Kept(items[p], Buttons \ {b})

ButtonDeleted(r) ==
    /\ r.op = "delete button"
    /\ buttons' = [buttons EXCEPT ![r.b] = "deleted"]
    /\ items' = [p \in Presets |-> Cascade(p, r.b)]
    /\ Closes(r)
    /\ UNCHANGED <<presets, name, asked, session, lock>>

(***************************************************************************)
(* Presets                                                                 *)
(***************************************************************************)

\* _validate_name and _validate_button_ids.
FreeName(n, p) == \A q \in Present(presets) \ {p} : lower[name[q]] # lower[n]

Items(list) == {list[i] : i \in 1..Len(list)}
ValidList(list) ==
    /\ Len(list) <= MaxPerPreset /\ Cardinality(Items(list)) = Len(list)
    /\ Items(list) \subseteq Present(buttons)

CreatePreset(p, n, list) ==
    /\ presets[p] = "absent"
    /\ Cardinality(Present(presets)) < MaxPresets
    /\ FreeName(n, p) /\ ValidList(list)
    /\ Opens([id |-> 0, op |-> "create preset", p |-> p, name |-> n, list |-> list])
    /\ UNCHANGED <<catalog, session, lock>>

\* The constraints of the database: names differ, in their case at least, and items refer
\* to actions.
Storable(p, n, list) ==
    /\ n # Null => \A q \in Present(presets) \ {p} : name[q] # n
    /\ list # Null => Items(list) \subseteq Present(buttons)

\* _replace_items.
Replaced_Appended(p, list) == IF list = Null THEN items[p] ELSE items[p] \o list
Replaced(p, list) == IF list = Null THEN items[p] ELSE list

Stored(p, n, list) ==
    /\ name' = [name EXCEPT ![p] = IF n = Null THEN @ ELSE n]
    /\ items' = [items EXCEPT ![p] = Replaced(p, list)]
    /\ asked' = [asked EXCEPT ![p] = IF list = Null THEN @ ELSE list]

PresetCreated(r) ==
    /\ r.op = "create preset"
    /\ IF presets[r.p] = "absent" /\ Storable(r.p, r.name, r.list)
       THEN presets' = [presets EXCEPT ![r.p] = "present"] /\ Stored(r.p, r.name, r.list)
       ELSE UNCHANGED <<presets, name, items, asked>>
    /\ Closes(r)
    /\ UNCHANGED <<buttons, session, lock>>

\* A name that is what it was is not written.  Default keeps its name.
UpdatePreset(p, n, list) ==
    /\ p \in Present(presets)
    /\ n # Null => FreeName(n, p) /\ (p = Default => n = name[p])
    /\ list # Null => ValidList(list)
    /\ Opens([id |-> 0, op |-> "update preset", p |-> p,
              name |-> IF n = name[p] THEN Null ELSE n, list |-> list])
    /\ UNCHANGED <<catalog, session, lock>>

PresetUpdated(r) ==
    /\ r.op = "update preset"
    /\ IF r.p \in Present(presets) /\ Storable(r.p, r.name, r.list)
       THEN Stored(r.p, r.name, r.list)
       ELSE UNCHANGED <<name, items, asked>>
    /\ Closes(r)
    /\ UNCHANGED <<buttons, presets, session, lock>>

DeletePreset(p) ==
    /\ p \in Present(presets) \ {Default}
    /\ Opens([id |-> 0, op |-> "delete preset", p |-> p])
    /\ UNCHANGED <<catalog, session, lock>>

\* Its sessions move to Default; the foreign key alone would leave them with none.
MovedTo_Null == Null
MovedTo == Default

PresetDeleted(r) ==
    /\ r.op = "delete preset"
    /\ presets' = [presets EXCEPT ![r.p] = "deleted"]
    /\ items' = [items EXCEPT ![r.p] = <<>>] /\ asked' = [asked EXCEPT ![r.p] = <<>>]
    /\ session' = [s \in Sessions |-> IF session[s].preset = r.p
                                     THEN [session[s] EXCEPT !.preset = MovedTo]
                                     ELSE session[s]]
    /\ Closes(r)
    /\ UNCHANGED <<buttons, name, lock>>

(***************************************************************************)
(* Sessions                                                                *)
(***************************************************************************)

\* _resolve_action_preset_id.
Resolved(p) == IF p = Null THEN Default ELSE p

CreateSession(s, p) ==
    /\ session[s].status = "absent"
    /\ Resolved(p) \in Present(presets)
    /\ Opens([id |-> 0, op |-> "create session", s |-> s, p |-> Resolved(p)])
    /\ UNCHANGED <<catalog, session, lock>>

SessionCreated(r) ==
    /\ r.op = "create session"
    /\ session' = IF session[r.s].status = "absent" /\ r.p \in Present(presets)
                  THEN [session EXCEPT ![r.s] = [status |-> "created", preset |-> r.p]]
                  ELSE session
    /\ Closes(r)
    /\ UNCHANGED <<catalog, lock>>

\* update and start hold transition_lock to the end of their transactions.
Unlocked_Always == TRUE
Unlocked == lock = Null

UpdateSession(s, p) ==
    /\ Unlocked
    /\ session[s].status = "created"
    /\ Resolved(p) \in Present(presets)
    /\ Opens([id |-> 0, op |-> "update session", s |-> s,
              p |-> IF session[s].preset = Resolved(p) THEN Null ELSE Resolved(p)])
    /\ lock' = s
    /\ UNCHANGED <<catalog, session>>

SessionUpdated(r) ==
    /\ r.op = "update session"
    /\ session' = IF r.p \in Present(presets) THEN [session EXCEPT ![r.s].preset = r.p] ELSE session
    /\ lock' = Null
    /\ Closes(r)
    /\ UNCHANGED catalog

StartSession(s) ==
    /\ Unlocked /\ session[s].status = "created"
    /\ session' = [session EXCEPT ![s].status = "started"]
    /\ UNCHANGED <<catalog, lock, open, made>>

(***************************************************************************)
(* The specification                                                       *)
(***************************************************************************)

\* The migration installs actions and presets: here Default and its actions.
Init ==
    /\ buttons = [b \in Buttons |-> IF b \in Items(Factory) THEN "present" ELSE "absent"]
    /\ presets = [p \in Presets |-> IF p = Default THEN "present" ELSE "absent"]
    /\ name = [p \in Presets |-> DefaultName]
    /\ items = [p \in Presets |-> IF p = Default THEN Factory ELSE <<>>] /\ asked = items
    /\ session = [s \in Sessions |-> [status |-> "absent", preset |-> Null]]
    /\ lock = Null /\ open = {} /\ made = 0

Commits(r) ==
    \/ ButtonCreated(r) \/ ButtonDeleted(r)
    \/ PresetCreated(r) \/ PresetUpdated(r) \/ PresetDeleted(r)
    \/ SessionCreated(r) \/ SessionUpdated(r)

Next ==
    \/ \E b \in Buttons : CreateButton(b) \/ DeleteButton(b)
    \/ \E p \in Presets :
        \/ \E n \in Names, list \in Lists : CreatePreset(p, n, list)
        \/ \E n \in Names \cup {Null}, list \in Lists \cup {Null} : UpdatePreset(p, n, list)
        \/ DeletePreset(p)
    \/ \E s \in Sessions :
        \/ \E p \in Presets \cup {Null} : CreateSession(s, p) \/ UpdateSession(s, p)
        \/ StartSession(s)
    \/ \E r \in open : Commits(r)

Spec == Init /\ [][Next]_vars

(***************************************************************************)
(* Properties                                                              *)
(***************************************************************************)

\* A session always has a preset that exists, whatever is deleted while it is created or
\* changed: Default is the fallback.
SessionsServed ==
    \A s \in Sessions : session[s].status # "absent" => session[s].preset \in Present(presets)

\* The preset of a session that has started changes only because it is deleted
\* (SessionService.update, which checks started_at and writes later).
PresetLocked ==
    [][\A s \in Sessions :
        session[s].status = "started" /\ session'[s].preset # session[s].preset =>
            /\ session'[s].preset = Default
            /\ session[s].preset \notin Present(presets')]_vars

\* A preset has the actions of one request, in their order, less those deleted since, and
\* never a mixture of two.
TakenWhole ==
    \A p \in Presets : items[p] = Kept(asked[p], Present(buttons))

=============================================================================
