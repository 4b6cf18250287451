---------------------------- MODULE PageProofs ----------------------------
(***************************************************************************)
(* Proofs about what the web page works with, for every value of the       *)
(* constants: actions, presets and sessions (module ActionCatalog), the    *)
(* context of an agent request (AgentContext) and the live feed (UiFeed).  *)
(* The modules have no variable in common; the lemmas about lists serve    *)
(* the first two.                                                          *)
(***************************************************************************)
EXTENDS ActionCatalog, AgentContext, UiFeed, SequenceTheorems, WellFoundedInduction, TLAPS

-----------------------------------------------------------------------------
(* The catalog: the inductive invariant.                                   *)

PresetTypes ==
    /\ presets \in [Presets -> {"absent", "present", "deleted"}]
    /\ session \in [Sessions -> [status : {"absent", "created", "started"},
                                 preset : Presets \cup {Null}]]

\* What the checks of a request leave behind for its writes.
Checked(r) ==
    /\ r.op \in {"create button", "delete button"} => r.b \in Buttons
    /\ r.op \in {"create preset", "update preset"} => r.p \in Presets /\ r.list \in Lists \cup {Null}
    /\ r.op = "delete preset" => r.p \in Presets \ {Default}
    /\ r.op = "create session" => r.s \in Sessions
    /\ r.op = "update session" => r.s \in Sessions

\* Who changes the preset of a session holds transition_lock, alone, and the session
\* has not started.
Exclusive ==
    /\ \A r \in open : r.op = "update session" =>
          lock = r.s /\ session[r.s].status = "created"
    /\ \A q, r \in open : q.op = "update session" /\ r.op = "update session" => q = r

IInv ==
    /\ PresetTypes
    /\ Default \in Present(presets)
    /\ \A r \in open : Checked(r)
    /\ Exclusive
    /\ SessionsServed

LEMMA InitInv == Init => IInv
BY CatalogAssumption
DEF Init, IInv, PresetTypes, Present, Checked, Exclusive, SessionsServed, CatalogAssumption

-----------------------------------------------------------------------------
(* Steps.                                                                  *)

\* What a request that has passed its checks adds to the open ones.
Added(r) ==
    /\ open' = open \cup {r}
    /\ UNCHANGED <<buttons, presets, items, asked, session>>
    /\ Checked(r)
    /\ IF r.op = "update session"
       THEN lock = Null /\ lock' = r.s /\ session[r.s].status = "created"
       ELSE UNCHANGED lock

LEMMA AddedKeeps ==
    ASSUME IInv, NEW r, Added(r)
    PROVE  IInv'
<1>0. Null \notin Sessions
  BY CatalogAssumption DEF CatalogAssumption
<1>1. Exclusive'
  <2>1. CASE r.op = "update session"
    <3>1. \A q \in open : q.op # "update session"
      BY <1>0, <2>1 DEF IInv, Added, Exclusive, Checked
    <3> QED BY <2>1, <3>1 DEF IInv, Added, Exclusive, Checked
  <2>2. CASE r.op # "update session"
    BY <2>2 DEF IInv, Added, Exclusive
  <2> QED BY <2>1, <2>2
<1> QED
  BY <1>1 DEF IInv, Added, PresetTypes, Present, Checked, SessionsServed

\* Every first step of a request adds one that has been checked.
LEMMA Opening ==
    ASSUME IInv,
           \/ \E b \in Buttons : CreateButton(b) \/ DeleteButton(b)
           \/ \E p \in Presets :
                \/ \E n \in Names, list \in Lists : CreatePreset(p, n, list)
                \/ \E n \in Names \cup {Null}, list \in Lists \cup {Null} :
                      UpdatePreset(p, n, list)
                \/ DeletePreset(p)
           \/ \E s \in Sessions, p \in Presets \cup {Null} :
                CreateSession(s, p) \/ UpdateSession(s, p)
    PROVE  \E r : Added(r)
<1> USE DEF Opens, catalog
<1>1. ASSUME NEW b \in Buttons, CreateButton(b)
      PROVE  \E r : Added(r)
  <2>1. PICK q : q = [id |-> 0, op |-> "create button", b |-> b]
    OBVIOUS
  <2>2. PICK r : r = [q EXCEPT !.id = made]
    OBVIOUS
  <2>3. /\ r.op = "create button" /\ r.b = b
    BY <2>1, <2>2
  <2>4. open' = open \cup {r}
    BY <1>1, <2>1, <2>2 DEF CreateButton
  <2> QED BY <1>1, <2>3, <2>4 DEF CreateButton, Added, Checked
<1>2. ASSUME NEW b \in Buttons, DeleteButton(b)
      PROVE  \E r : Added(r)
  <2>1. PICK q : q = [id |-> 0, op |-> "delete button", b |-> b]
    OBVIOUS
  <2>2. PICK r : r = [q EXCEPT !.id = made]
    OBVIOUS
  <2>3. /\ r.op = "delete button" /\ r.b = b
    BY <2>1, <2>2
  <2>4. open' = open \cup {r}
    BY <1>2, <2>1, <2>2 DEF DeleteButton
  <2> QED BY <1>2, <2>3, <2>4 DEF DeleteButton, Added, Checked
<1>3. ASSUME NEW p \in Presets, NEW n \in Names, NEW list \in Lists, CreatePreset(p, n, list)
      PROVE  \E r : Added(r)
  <2>1. PICK q : q = [id |-> 0, op |-> "create preset", p |-> p, name |-> n, list |-> list]
    OBVIOUS
  <2>2. PICK r : r = [q EXCEPT !.id = made]
    OBVIOUS
  <2>3. /\ r.op = "create preset" /\ r.p = p /\ r.list = list
    BY <2>1, <2>2
  <2>4. open' = open \cup {r}
    BY <1>3, <2>1, <2>2 DEF CreatePreset
  <2> QED BY <1>3, <2>3, <2>4 DEF CreatePreset, Added, Checked
<1>4. ASSUME NEW p \in Presets, NEW n \in Names \cup {Null}, NEW list \in Lists \cup {Null},
             UpdatePreset(p, n, list)
      PROVE  \E r : Added(r)
  <2>1. PICK q : q = [id |-> 0, op |-> "update preset", p |-> p,
                     name |-> IF n = name[p] THEN Null ELSE n, list |-> list]
    OBVIOUS
  <2>2. PICK r : r = [q EXCEPT !.id = made]
    OBVIOUS
  <2>3. /\ r.op = "update preset" /\ r.p = p /\ r.list = list
    BY <2>1, <2>2
  <2>4. open' = open \cup {r}
    BY <1>4, <2>1, <2>2 DEF UpdatePreset
  <2> QED BY <1>4, <2>3, <2>4 DEF UpdatePreset, Added, Checked
<1>5. ASSUME NEW p \in Presets, DeletePreset(p)
      PROVE  \E r : Added(r)
  <2>1. PICK q : q = [id |-> 0, op |-> "delete preset", p |-> p]
    OBVIOUS
  <2>2. PICK r : r = [q EXCEPT !.id = made]
    OBVIOUS
  <2>3. /\ r.op = "delete preset" /\ r.p = p
    BY <2>1, <2>2
  <2>4. open' = open \cup {r}
    BY <1>5, <2>1, <2>2 DEF DeletePreset
  <2> QED BY <1>5, <2>3, <2>4 DEF DeletePreset, Added, Checked
<1>6. ASSUME NEW s \in Sessions, NEW p \in Presets \cup {Null}, CreateSession(s, p)
      PROVE  \E r : Added(r)
  <2>1. PICK q : q = [id |-> 0, op |-> "create session", s |-> s, p |-> Resolved(p)]
    OBVIOUS
  <2>2. PICK r : r = [q EXCEPT !.id = made]
    OBVIOUS
  <2>3. /\ r.op = "create session" /\ r.s = s
    BY <2>1, <2>2
  <2>4. open' = open \cup {r}
    BY <1>6, <2>1, <2>2 DEF CreateSession
  <2> QED BY <1>6, <2>3, <2>4 DEF CreateSession, Added, Checked
<1>7. ASSUME NEW s \in Sessions, NEW p \in Presets \cup {Null}, UpdateSession(s, p)
      PROVE  \E r : Added(r)
  <2>1. PICK q : q = [id |-> 0, op |-> "update session", s |-> s,
                     p |-> IF session[s].preset = Resolved(p) THEN Null ELSE Resolved(p)]
    OBVIOUS
  <2>2. PICK r : r = [q EXCEPT !.id = made]
    OBVIOUS
  <2>3. /\ r.op = "update session" /\ r.s = s
    BY <2>1, <2>2
  <2>4. open' = open \cup {r}
    BY <1>7, <2>1, <2>2 DEF UpdateSession
  <2> QED BY <1>7, <2>3, <2>4 DEF UpdateSession, Unlocked, Added, Checked
<1> QED
  BY <1>1, <1>2, <1>3, <1>4, <1>5, <1>6, <1>7

\* The preset of a session that has started is not what a request for it changes.
Lasting(s) ==
    session[s].status = "started" /\ session'[s].preset # session[s].preset =>
        /\ session'[s].preset = Default
        /\ session[s].preset \notin Present(presets')

\* A request that leaves the sessions and the lock alone, and takes no preset away.
LEMMA HarmlessKeeps ==
    ASSUME IInv, open' \subseteq open, UNCHANGED <<session, lock>>, PresetTypes',
           \A p \in Presets : presets[p] = "present" => presets'[p] = "present"
    PROVE  IInv' /\ \A s \in Sessions : Lasting(s)
BY DEF IInv, PresetTypes, Present, Exclusive, SessionsServed, Lasting, Checked

LEMMA PresetDeletedKeeps ==
    ASSUME IInv, NEW r \in open, PresetDeleted(r)
    PROVE  IInv' /\ \A s \in Sessions : Lasting(s)
<1>0. /\ PresetTypes /\ r.p \in Presets \ {Default}
      /\ Default \in Presets /\ Null \notin Presets
  BY CatalogAssumption DEF PresetDeleted, IInv, Checked, CatalogAssumption
<1>1. \A s \in Sessions : /\ session'[s].status = session[s].status
                          /\ session'[s].preset = IF session[s].preset = r.p THEN Default
                                                  ELSE session[s].preset
  BY <1>0 DEF PresetDeleted, MovedTo, PresetTypes
<1>2. /\ presets'[r.p] = "deleted"
      /\ \A p \in Presets \ {r.p} : presets'[p] = presets[p]
      /\ DOMAIN presets = Presets /\ DOMAIN presets' = Presets
  BY <1>0 DEF PresetDeleted, PresetTypes
<1>3. PresetTypes'
  BY <1>0 DEF PresetDeleted, MovedTo, PresetTypes
<1>4. open' \subseteq open /\ lock' = lock
  BY DEF PresetDeleted, Closes
<1>5. Default \in Present(presets)'
  BY <1>0, <1>2 DEF IInv, Present
<1>6. SessionsServed'
  BY <1>0, <1>1, <1>2 DEF IInv, SessionsServed, Present
<1>7. Exclusive'
  BY <1>1, <1>4 DEF IInv, Exclusive, Checked
<1>8. \A s \in Sessions : Lasting(s)
  BY <1>1, <1>2 DEF Lasting, Present
<1> QED
  BY <1>3, <1>4, <1>5, <1>6, <1>7, <1>8 DEF IInv, Checked

LEMMA SessionCreatedKeeps ==
    ASSUME IInv, NEW r \in open, SessionCreated(r)
    PROVE  IInv' /\ \A s \in Sessions : Lasting(s)
<1>0. PresetTypes /\ r.s \in Sessions
  BY DEF SessionCreated, IInv, Checked
<1>1. open' \subseteq open /\ UNCHANGED <<lock, presets>>
  BY DEF SessionCreated, Closes, catalog
<1>2. CASE session' = session
  BY <1>0, <1>1, <1>2, HarmlessKeeps DEF PresetTypes
<1>3. CASE /\ session[r.s].status = "absent" /\ r.p \in Present(presets)
           /\ session' = [session EXCEPT ![r.s] = [status |-> "created", preset |-> r.p]]
  <2>1. /\ \A s \in Sessions \ {r.s} : session'[s] = session[s]
        /\ session'[r.s].status = "created" /\ session'[r.s].preset = r.p
    BY <1>0, <1>3 DEF PresetTypes
  <2>2. PresetTypes'
    BY <1>0, <1>1, <1>3 DEF PresetTypes, Present
  <2>3. SessionsServed'
    BY <1>1, <1>3, <2>1 DEF IInv, SessionsServed
  <2>4. Exclusive'
    BY <1>1, <1>3, <2>1 DEF IInv, Exclusive, Checked
  <2>5. \A s \in Sessions : Lasting(s)
    BY <1>3, <2>1 DEF Lasting
  <2> QED BY <1>1, <2>2, <2>3, <2>4, <2>5 DEF IInv, Checked
<1> QED
  BY <1>2, <1>3 DEF SessionCreated

LEMMA SessionUpdatedKeeps ==
    ASSUME IInv, NEW r \in open, SessionUpdated(r)
    PROVE  IInv' /\ \A s \in Sessions : Lasting(s)
<1>0. /\ PresetTypes /\ r.s \in Sessions /\ session[r.s].status = "created"
      /\ r.op = "update session"
  BY DEF SessionUpdated, IInv, Checked, Exclusive
<1>1. open' = open \ {r} /\ UNCHANGED presets
  BY DEF SessionUpdated, Closes, catalog
<1>2. \A q \in open' : q.op # "update session"
  BY <1>0, <1>1 DEF IInv, Exclusive
<1>3. /\ \A s \in Sessions \ {r.s} : session'[s] = session[s]
      /\ session'[r.s].status = "created"
      /\ session'[r.s].preset = session[r.s].preset \/ session'[r.s].preset \in Present(presets)
  BY <1>0 DEF SessionUpdated, PresetTypes
<1>4. PresetTypes'
  BY <1>0, <1>1 DEF SessionUpdated, PresetTypes, Present
<1>5. SessionsServed'
  BY <1>0, <1>1, <1>3 DEF IInv, SessionsServed
<1>6. \A s \in Sessions : Lasting(s)
  BY <1>0, <1>3 DEF Lasting
<1> QED
  BY <1>1, <1>2, <1>4, <1>5, <1>6 DEF IInv, Checked, Exclusive

LEMMA StartKeeps ==
    ASSUME IInv, NEW s \in Sessions, StartSession(s)
    PROVE  IInv' /\ \A t \in Sessions : Lasting(t)
<1>0. PresetTypes /\ Null \notin Sessions
  BY CatalogAssumption DEF IInv, CatalogAssumption
<1>1. UNCHANGED <<open, lock, presets>> /\ lock = Null
  BY DEF StartSession, catalog, Unlocked
<1>2. \A q \in open : q.op # "update session"
  BY <1>0, <1>1 DEF IInv, Exclusive, Checked
<1>3. \A t \in Sessions : /\ session'[t].preset = session[t].preset
                          /\ session[t].status = "absent" <=> session'[t].status = "absent"
  BY <1>0 DEF StartSession, PresetTypes
<1>4. PresetTypes'
  BY <1>0, <1>1 DEF StartSession, PresetTypes
<1> QED
  BY <1>1, <1>2, <1>3, <1>4 DEF IInv, Checked, Exclusive, SessionsServed, Lasting

LEMMA Step ==
    ASSUME IInv, [Next]_vars
    PROVE  IInv' /\ \A s \in Sessions : Lasting(s)
<1> DEFINE Goal == IInv' /\ \A s \in Sessions : Lasting(s)
<1>1. ASSUME NEW r \in open,
             ButtonCreated(r) \/ ButtonDeleted(r) \/ PresetCreated(r) \/ PresetUpdated(r)
      PROVE  Goal
  <2>1. open' \subseteq open /\ UNCHANGED <<session, lock>>
    BY <1>1 DEF ButtonCreated, ButtonDeleted, PresetCreated, PresetUpdated, Closes
  <2>2. PresetTypes' /\ \A p \in Presets : presets[p] = "present" => presets'[p] = "present"
    BY <1>1, <2>1
    DEF ButtonCreated, ButtonDeleted, PresetCreated, PresetUpdated, IInv, PresetTypes
  <2> QED BY <2>1, <2>2, HarmlessKeeps
<1>2. ASSUME NEW r \in open, Commits(r) PROVE Goal
  BY <1>1, <1>2, PresetDeletedKeeps, SessionCreatedKeeps, SessionUpdatedKeeps DEF Commits
<1>3. ASSUME \E r : Added(r) PROVE Goal
  <2>1. PICK r : Added(r)
    BY <1>3
  <2>2. \A s \in Sessions : Lasting(s)
    BY <2>1 DEF Added, Lasting
  <2> QED BY <2>1, <2>2, AddedKeeps
<1>4. ASSUME UNCHANGED vars PROVE Goal
  <2>1. UNCHANGED <<presets, session, open, lock>>
    BY <1>4 DEF vars, catalog
  <2> QED BY <2>1, HarmlessKeeps DEF IInv, PresetTypes
<1> HIDE DEF Goal
<1>5. Goal
  BY <1>2, <1>3, <1>4, Opening, StartKeeps DEF Next, Goal
<1> QED
  BY <1>5 DEF Goal

-----------------------------------------------------------------------------
(* Lists: what Kept computes, by induction on sets of numbers and of lists.  *)

\* What holds of 0 and is passed on holds up to N: induction on a set of numbers.
LEMMA UpTo ==
    ASSUME NEW N \in Nat, NEW G, 0 \in G,
           \A n \in 0..N : n < N /\ n \in G => n + 1 \in G
    PROVE  \A n \in 0..N : n \in G
<1> SUFFICES ASSUME NEW n \in 0..N, n \notin G PROVE FALSE
  OBVIOUS
<1> DEFINE T == {k \in Nat : k <= N /\ k \notin G}
<1>1. T # {} /\ T \subseteq Nat
  OBVIOUS
<1>2. PICK x \in T : \A y \in T : ~ (<<y, x>> \in OpToRel(<, Nat))
  BY <1>1, NatLessThanWellFounded, WFMin
<1>3. \A y \in T : ~ (y < x)
  BY <1>2 DEF OpToRel
<1>4. x # 0 /\ x - 1 \in Nat /\ x - 1 \notin T
  BY <1>3
<1>5. x - 1 \in G /\ x - 1 \in 0..N /\ x - 1 < N
  BY <1>4
<1>6. (x - 1) + 1 \in G
  BY <1>5
<1> QED BY <1>6

\* The prefixes of a list, thinned out to a set.
Thinned(f, list, S, n) ==
    f = [i \in 0..n |->
            IF i = 0 THEN <<>>
            ELSE IF list[i] \in S THEN Append(f[i - 1], list[i]) ELSE f[i - 1]]

LEMMA ThinnedExists ==
    ASSUME NEW T, NEW list \in Seq(T), NEW S
    PROVE  \E f : Thinned(f, list, S, Len(list))
<1> DEFINE N == Len(list)
           G == {n \in 0..N : \E f : Thinned(f, list, S, n)}
<1>0. N \in Nat
  OBVIOUS
<1>1. 0 \in G
  <2>1. Thinned([i \in 0..0 |-> <<>>], list, S, 0)
    BY DEF Thinned
  <2> QED BY <1>0, <2>1
<1>2. ASSUME NEW n \in 0..N, n < N, n \in G
      PROVE  n + 1 \in G
  <2>1. PICK f : Thinned(f, list, S, n)
    BY <1>2
  <2> DEFINE top == IF list[n + 1] \in S THEN Append(f[n], list[n + 1]) ELSE f[n]
             g == [i \in 0..(n + 1) |-> IF i = n + 1 THEN top ELSE f[i]]
  <2>2. \A i \in 0..n : f[i] = IF i = 0 THEN <<>>
                               ELSE IF list[i] \in S THEN Append(f[i - 1], list[i]) ELSE f[i - 1]
    BY <2>1 DEF Thinned
  <2>3. \A i \in 0..(n + 1) : g[i] = IF i = 0 THEN <<>>
                     ELSE IF list[i] \in S THEN Append(g[i - 1], list[i]) ELSE g[i - 1]
    <3> TAKE i \in 0..(n + 1)
    <3>1. CASE i = n + 1
      <4>1. i # 0 /\ i - 1 = n /\ g[i - 1] = f[n] /\ g[i] = top
        BY <3>1
      <4> QED BY <3>1, <4>1
    <3>2. CASE i # n + 1
      <4>1. i \in 0..n /\ g[i] = f[i] /\ (i # 0 => g[i - 1] = f[i - 1])
        BY <3>2
      <4> QED BY <2>2, <4>1
    <3> QED BY <3>1, <3>2
  <2> HIDE DEF top
  <2>4. Thinned(g, list, S, n + 1)
    BY <2>3 DEF Thinned
  <2>5. \E h : Thinned(h, list, S, n + 1)
    <3> HIDE DEF g
    <3> QED BY <2>4
  <2>6. n + 1 \in 0..N
    BY <1>0, <1>2
  <2> QED BY <2>5, <2>6
<1> HIDE DEF G, N
<1>3. \A n \in 0..N : n < N /\ n \in G => n + 1 \in G
  BY <1>2
<1>4. \A n \in 0..N : n \in G
  BY <1>0, <1>1, <1>3, UpTo
<1>5. N \in G
  BY <1>0, <1>4
<1> QED BY <1>5 DEF G, N

\* What Kept is, prefix by prefix.
LEMMA KeptIs ==
    ASSUME NEW T, NEW list \in Seq(T), NEW S
    PROVE  \E f : Thinned(f, list, S, Len(list)) /\ Kept(list, S) = f[Len(list)]
<1> DEFINE F == CHOOSE f : Thinned(f, list, S, Len(list))
<1>1. Thinned(F, list, S, Len(list))
  BY ThinnedExists
<1>2. Kept(list, S) = F[Len(list)]
  BY DEF Kept, Thinned
<1> QED BY <1>1, <1>2

LEMMA KeptPrefix ==
    ASSUME NEW T, NEW list \in Seq(T), NEW S, NEW f, NEW N \in Nat, N <= Len(list),
           Thinned(f, list, S, N)
    PROVE  /\ f[0] = <<>>
           /\ \A n \in 0..N : f[n] \in Seq(T)
           /\ \A n \in 1..N : f[n] = IF list[n] \in S THEN Append(f[n - 1], list[n]) ELSE f[n - 1]
<1>1. \A i \in 0..N : f[i] = IF i = 0 THEN <<>>
                               ELSE IF list[i] \in S THEN Append(f[i - 1], list[i]) ELSE f[i - 1]
  BY DEF Thinned
<1>2. f[0] = <<>>
  BY <1>1
<1> DEFINE G == {n \in 0..N : f[n] \in Seq(T)}
<1>3. 0 \in G
  <2>1. f[0] \in Seq(T)
    BY <1>2, EmptySeq
  <2> QED BY <2>1
<1>4. \A n \in 0..N : n < N /\ n \in G => n + 1 \in G
  <2> SUFFICES ASSUME NEW n \in 0..N, n < N, n \in G PROVE n + 1 \in G
    OBVIOUS
  <2>1. n + 1 \in 0..N /\ n + 1 # 0 /\ (n + 1) - 1 = n /\ list[n + 1] \in T
    OBVIOUS
  <2>2. f[n + 1] = IF list[n + 1] \in S THEN Append(f[n], list[n + 1]) ELSE f[n]
    BY <1>1, <2>1
  <2>3. f[n + 1] \in Seq(T)
    BY <2>1, <2>2
  <2> QED BY <2>1, <2>3
<1> HIDE DEF G
<1>5. \A n \in 0..N : n \in G
  BY <1>3, <1>4, UpTo
<1> QED BY <1>1, <1>2, <1>5 DEF G

\* Kept of a longer list.
LEMMA KeptAppend ==
    ASSUME NEW T, NEW list \in Seq(T), NEW x \in T, NEW S
    PROVE  Kept(Append(list, x), S) = IF x \in S THEN Append(Kept(list, S), x) ELSE Kept(list, S)
<1> DEFINE longer == Append(list, x)
           N == Len(list)
<1>0. /\ N \in Nat /\ longer \in Seq(T) /\ Len(longer) = N + 1 /\ longer[N + 1] = x
      /\ \A i \in 1..N : longer[i] = list[i]
  BY AppendProperties
<1>1. PICK f : Thinned(f, list, S, N) /\ Kept(list, S) = f[N]
  BY KeptIs
<1>2. PICK g : Thinned(g, longer, S, N + 1) /\ Kept(longer, S) = g[N + 1]
  BY <1>0, KeptIs
<1> HIDE DEF longer, N
<1>3. /\ f[0] = <<>>
      /\ \A n \in 1..N : f[n] = IF list[n] \in S THEN Append(f[n - 1], list[n]) ELSE f[n - 1]
  BY <1>0, <1>1, KeptPrefix DEF N
<1>4. /\ g[0] = <<>>
      /\ \A n \in 1..(N + 1) :
            g[n] = IF longer[n] \in S THEN Append(g[n - 1], longer[n]) ELSE g[n - 1]
  BY <1>0, <1>2, KeptPrefix
<1> DEFINE G == {n \in 0..N : f[n] = g[n]}
<1>5. 0 \in G
  BY <1>0, <1>3, <1>4
<1>6. \A n \in 0..N : n < N /\ n \in G => n + 1 \in G
  <2> SUFFICES ASSUME NEW n \in 0..N, n < N, n \in G PROVE n + 1 \in G
    OBVIOUS
  <2>1. n + 1 \in 1..N /\ (n + 1) - 1 = n /\ longer[n + 1] = list[n + 1] /\ n + 1 \in 1..(N + 1)
    BY <1>0
  <2>2. f[n + 1] = g[n + 1]
    BY <1>3, <1>4, <2>1
  <2> QED BY <2>1, <2>2
<1> HIDE DEF G
<1>7. N \in G
  <2>1. \A n \in 0..N : n \in G
    BY <1>0, <1>5, <1>6, UpTo
  <2> QED BY <1>0, <2>1
<1>8. g[N + 1] = IF x \in S THEN Append(g[N], x) ELSE g[N]
  BY <1>0, <1>4
<1> QED BY <1>1, <1>2, <1>7, <1>8 DEF G, longer

LEMMA KeptEmpty ==
    ASSUME NEW S PROVE Kept(<<>>, S) = <<>>
<1>1. <<>> \in Seq({}) /\ Len(<<>>) = 0
  BY EmptySeq
<1>2. PICK f : Thinned(f, <<>>, S, 0) /\ Kept(<<>>, S) = f[0]
  BY <1>1, KeptIs
<1> QED BY <1>2 DEF Thinned

\* A fact of lists that Append preserves holds of all: induction on a set of lists.
LEMMA ListInduction ==
    ASSUME NEW T, NEW G, <<>> \in G,
           \A list \in Seq(T), x \in T : list \in G => Append(list, x) \in G
    PROVE  Seq(T) \subseteq G
<1> SUFFICES ASSUME NEW list \in Seq(T) PROVE list \in G
  OBVIOUS
<1> DEFINE H == {n \in 0..Len(list) : SubSeq(list, 1, n) \in G}
<1>1. 0 \in H
  <2>1. SubSeq(list, 1, 0) = <<>>
    BY SubSeqEmpty
  <2>2. 0 \in 0..Len(list)
    OBVIOUS
  <2> QED BY <2>1, <2>2
<1>2. \A n \in 0..Len(list) : n < Len(list) /\ n \in H => n + 1 \in H
  <2> SUFFICES ASSUME NEW n \in 0..Len(list), n < Len(list), n \in H PROVE n + 1 \in H
    OBVIOUS
  <2>1. n + 1 \in 1..Len(list) /\ list[n + 1] \in T /\ SubSeq(list, 1, n) \in Seq(T)
    BY SubSeqProperties
  <2>2. SubSeq(list, 1, n + 1) = Append(SubSeq(list, 1, n), list[n + 1])
    <3>1. /\ 1 \in 1..Len(list) /\ n + 1 \in 1..Len(list) /\ (n + 1) - 1 = n
      BY <2>1
    <3>2. SubSeq(list, 1, n + 1) = SubSeq(list, 1, n) \o <<list[n + 1]>>
      BY <3>1, SubSeqRecursiveSecond
    <3> QED BY <2>1, <3>2, AppendIsConcat
  <2>3. SubSeq(list, 1, n) \in G
    OBVIOUS
  <2>4. SubSeq(list, 1, n + 1) \in G
    BY <2>1, <2>2, <2>3
  <2> QED BY <2>1, <2>4
<1>3. PICK N : N = Len(list)
  OBVIOUS
<1>4. SubSeq(list, 1, Len(list)) \in G
  <2>1. N \in Nat
    BY <1>3
  <2> HIDE DEF H
  <2>2. \A n \in 0..N : n < N /\ n \in H => n + 1 \in H
    BY <1>2, <1>3
  <2>3. \A n \in 0..N : n \in H
    BY <1>1, <2>1, <2>2, UpTo
  <2>4. N \in H
    BY <2>1, <2>3
  <2> QED BY <1>3, <2>4 DEF H
<1>5. SubSeq(list, 1, Len(list)) = list
  BY SubSeqFull
<1> QED BY <1>4, <1>5

\* Kept keeps to the set and to the list, and twice is once with both sets.
LEMMA KeptFacts ==
    ASSUME NEW T, NEW list \in Seq(T), NEW S, NEW R
    PROVE  /\ Kept(list, S) \in Seq(T)
           /\ Kept(Kept(list, S), R) = Kept(list, S \cap R)
           /\ Items(list) \subseteq S => Kept(list, S) = list
<1> DEFINE P1(l) == Kept(l, S) \in Seq(T)
           P2(l) == Kept(Kept(l, S), R) = Kept(l, S \cap R)
           P3(l) == Items(l) \subseteq S => Kept(l, S) = l
           G == {l \in Seq(T) : P1(l) /\ P2(l) /\ P3(l)}
<1>1. <<>> \in G
  BY KeptEmpty, EmptySeq
<1>2. \A l \in Seq(T), x \in T : l \in G => Append(l, x) \in G
  <2> SUFFICES ASSUME NEW l \in Seq(T), NEW x \in T, P1(l), P2(l), P3(l)
               PROVE  Append(l, x) \in G
    OBVIOUS
  <2>1. Append(l, x) \in Seq(T) /\ Items(Append(l, x)) = Items(l) \cup {x}
    BY AppendProperties DEF Items
  <2>2. \A K : Kept(Append(l, x), K) = IF x \in K THEN Append(Kept(l, K), x) ELSE Kept(l, K)
    BY KeptAppend
  <2>0. Kept(l, S) \in Seq(T)
    OBVIOUS
  <2>3. P1(Append(l, x))
    <3>1. Append(Kept(l, S), x) \in Seq(T)
      BY <2>0, AppendProperties
    <3> QED BY <2>0, <2>2, <3>1
  <2>4. P2(Append(l, x))
    <3>1. x \in S => Kept(Append(Kept(l, S), x), R) =
                       IF x \in R THEN Append(Kept(Kept(l, S), R), x) ELSE Kept(Kept(l, S), R)
      <4>1. PICK k : k = Kept(l, S)
        OBVIOUS
      <4>2. k \in Seq(T)
        BY <2>0, <4>1
      <4>3. Kept(Append(k, x), R) = IF x \in R THEN Append(Kept(k, R), x) ELSE Kept(k, R)
        BY <4>2, KeptAppend
      <4> QED BY <4>1, <4>3
    <3>2. P2(l)
      OBVIOUS
    <3> QED BY <2>2, <3>1, <3>2
  <2>5. P3(Append(l, x))
    BY <2>1, <2>2
  <2> QED BY <2>1, <2>3, <2>4, <2>5
<1> HIDE DEF G
<1>3. list \in G
  BY <1>1, <1>2, ListInduction
<1> QED BY <1>3 DEF G

\* Only the members of the list matter.
LEMMA KeptSame ==
    ASSUME NEW T, NEW S, NEW R, NEW list \in Seq(T),
           \A x \in Items(list) : x \in S <=> x \in R
    PROVE  Kept(list, S) = Kept(list, R)
<1> DEFINE P(l) == (\A x \in Items(l) : x \in S <=> x \in R) => Kept(l, S) = Kept(l, R)
           G == {l \in Seq(T) : P(l)}
<1>1. <<>> \in G
  BY KeptEmpty, EmptySeq
<1>2. \A l \in Seq(T), x \in T : l \in G => Append(l, x) \in G
  <2> SUFFICES ASSUME NEW l \in Seq(T), NEW x \in T, P(l)
               PROVE  Append(l, x) \in G
    OBVIOUS
  <2>1. Append(l, x) \in Seq(T) /\ Items(Append(l, x)) = Items(l) \cup {x}
    BY AppendProperties DEF Items
  <2>2. \A K : Kept(Append(l, x), K) = IF x \in K THEN Append(Kept(l, K), x) ELSE Kept(l, K)
    BY KeptAppend
  <2>3. P(Append(l, x))
    BY <2>1, <2>2
  <2> QED BY <2>1, <2>3
<1> HIDE DEF G
<1>3. list \in G
  BY <1>1, <1>2, ListInduction
<1> QED BY <1>3 DEF G

\* A list of values, each made from the one before it.
Chain(f, start, step, n) ==
    f = [i \in 0..n |-> IF i = 0 THEN start ELSE step[<<f[i - 1], i>>]]

LEMMA Recursion ==
    ASSUME NEW D, NEW start \in D, NEW N \in Nat, NEW step \in [D \X (1..N) -> D]
    PROVE  \E f : Chain(f, start, step, N)
<1> DEFINE G == {n \in 0..N : \E f : Chain(f, start, step, n)}
<1>1. 0 \in G
  <2>1. Chain([i \in 0..0 |-> start], start, step, 0)
    BY DEF Chain
  <2> QED BY <2>1
<1>2. ASSUME NEW n \in 0..N, n < N, n \in G PROVE n + 1 \in G
  <2>1. PICK f : Chain(f, start, step, n)
    BY <1>2
  <2> DEFINE g == [i \in 0..(n + 1) |-> IF i = n + 1 THEN step[<<f[n], n + 1>>] ELSE f[i]]
  <2>2. \A i \in 0..n : f[i] = IF i = 0 THEN start ELSE step[<<f[i - 1], i>>]
    BY <2>1 DEF Chain
  <2>3. \A i \in 0..(n + 1) : g[i] = IF i = 0 THEN start ELSE step[<<g[i - 1], i>>]
    <3> TAKE i \in 0..(n + 1)
    <3>1. CASE i = n + 1
      <4>1. i # 0 /\ i - 1 = n /\ g[i - 1] = f[n] /\ g[i] = step[<<f[n], n + 1>>]
        BY <3>1
      <4> QED BY <3>1, <4>1
    <3>2. CASE i # n + 1
      <4>1. i \in 0..n /\ g[i] = f[i] /\ (i # 0 => g[i - 1] = f[i - 1])
        BY <3>2
      <4> QED BY <2>2, <4>1
    <3> QED BY <3>1, <3>2
  <2>4. Chain(g, start, step, n + 1)
    BY <2>3 DEF Chain
  <2>5. \E h : Chain(h, start, step, n + 1)
    <3> HIDE DEF g
    <3> QED BY <2>4
  <2>6. n + 1 \in 0..N
    BY <1>2
  <2> QED BY <2>5, <2>6
<1> HIDE DEF G
<1>3. \A n \in 0..N : n \in G
  BY <1>1, <1>2, UpTo
<1> QED BY <1>3 DEF G

\* and every one of them is of the same kind.
LEMMA RecursionTyped ==
    ASSUME NEW D, NEW start \in D, NEW N \in Nat, NEW step \in [D \X (1..N) -> D], NEW f,
           Chain(f, start, step, N)
    PROVE  /\ f[0] = start
           /\ \A i \in 1..N : f[i] = step[<<f[i - 1], i>>]
           /\ \A i \in 0..N : f[i] \in D
<1>1. \A i \in 0..N : f[i] = IF i = 0 THEN start ELSE step[<<f[i - 1], i>>]
  BY DEF Chain
<1>5. f[0] = start
  <2>1. 0 \in 0..N
    OBVIOUS
  <2> QED BY <1>1, <2>1
<1>6. \A i \in 1..N : f[i] = step[<<f[i - 1], i>>]
  <2> TAKE i \in 1..N
  <2>1. i \in 0..N /\ i # 0
    OBVIOUS
  <2> QED BY <1>1, <2>1
<1> DEFINE G == {n \in 0..N : f[n] \in D}
<1>2. 0 \in G
  BY <1>5
<1>3. ASSUME NEW n \in 0..N, n < N, n \in G PROVE n + 1 \in G
  <2>1. n + 1 \in 1..N /\ n + 1 \in 0..N /\ n + 1 # 0 /\ (n + 1) - 1 = n
    BY <1>3
  <2>2. f[n + 1] = step[<<f[n], n + 1>>]
    BY <1>1, <2>1
  <2>3. <<f[n], n + 1>> \in D \X (1..N)
    BY <1>3, <2>1
  <2> QED BY <2>1, <2>2, <2>3
<1> HIDE DEF G
<1>4. \A n \in 0..N : n \in G
  BY <1>2, <1>3, UpTo
<1> QED BY <1>4, <1>5, <1>6 DEF G

\* The members of what is kept, and its last item.
LEMMA KeptItems ==
    ASSUME NEW T, NEW list \in Seq(T), NEW S
    PROVE  Items(Kept(list, S)) = Items(list) \cap S
<1> DEFINE P(l) == Items(Kept(l, S)) = Items(l) \cap S
           G == {l \in Seq(T) : P(l)}
<1>1. <<>> \in G
  BY KeptEmpty, EmptySeq DEF Items
<1>2. \A l \in Seq(T), x \in T : l \in G => Append(l, x) \in G
  <2> SUFFICES ASSUME NEW l \in Seq(T), NEW x \in T, P(l)
               PROVE  Append(l, x) \in G
    OBVIOUS
  <2>1. \A k \in Seq(T) : Append(k, x) \in Seq(T) /\ Items(Append(k, x)) = Items(k) \cup {x}
    BY AppendProperties DEF Items
  <2>2. Kept(Append(l, x), S) = IF x \in S THEN Append(Kept(l, S), x) ELSE Kept(l, S)
    BY KeptAppend
  <2>3. Kept(l, S) \in Seq(T)
    BY KeptFacts
  <2>4. P(Append(l, x))
    BY <2>1, <2>2, <2>3
  <2> QED BY <2>1, <2>4
<1> HIDE DEF G
<1>3. list \in G
  BY <1>1, <1>2, ListInduction
<1> QED BY <1>3 DEF G

LEMMA KeptLast ==
    ASSUME NEW T, NEW list \in Seq(T), NEW S, list # <<>>, list[Len(list)] \in S
    PROVE  Kept(list, S) # <<>> /\ Kept(list, S)[Len(Kept(list, S))] = list[Len(list)]
<1>1. PICK l \in Seq(T), x \in T : list = Append(l, x)
  BY SequenceEmptyOrAppend
<1>2. list[Len(list)] = x
  BY <1>1, AppendProperties
<1>3. PICK k : k = Kept(l, S)
  OBVIOUS
<1>4. k \in Seq(T)
  BY <1>3, KeptFacts
<1>5. Kept(list, S) = Append(k, x)
  BY <1>1, <1>2, <1>3, KeptAppend
<1> QED BY <1>2, <1>4, <1>5, AppendProperties

\* A set of numbers has a least one, and, with a bound, a largest.
LEMMA LeastAndLargest ==
    /\ \A S \in SUBSET Nat : S # {} => \E x \in S : \A y \in S : x <= y
    /\ \A N \in Nat : \A S \in SUBSET (0..N) : S # {} => \E x \in S : \A y \in S : x >= y
<1>1. ASSUME NEW S \in SUBSET Nat, S # {} PROVE \E x \in S : \A y \in S : x <= y
  <2>1. PICK x \in S : \A y \in S : ~ (<<y, x>> \in OpToRel(<, Nat))
    BY <1>1, NatLessThanWellFounded, WFMin
  <2>2. \A y \in S : ~ (y < x)
    BY <2>1 DEF OpToRel
  <2> QED BY <2>2
<1>2. ASSUME NEW N \in Nat, NEW S \in SUBSET (0..N), S # {}
      PROVE  \E x \in S : \A y \in S : x >= y
  <2>1. PICK R : R = {N - x : x \in S}
    OBVIOUS
  <2>2. R \in SUBSET Nat /\ R # {}
    <3>1. \A x \in S : N - x \in Nat
      OBVIOUS
    <3> QED BY <1>2, <2>1, <3>1
  <2>3. PICK z \in R : \A y \in R : z <= y
    BY <1>1, <2>2
  <2>4. PICK x \in S : z = N - x
    BY <2>1
  <2>5. \A y \in S : N - x <= N - y
    BY <2>1, <2>3, <2>4
  <2> QED BY <2>5
<1> QED BY <1>1, <1>2

\* The newest items of a list.
LEMMA NewestFacts ==
    ASSUME NEW T, NEW list \in Seq(T), NEW n \in 0..Len(list)
    PROVE  /\ Newest(list, n) \in Seq(T) /\ Len(Newest(list, n)) = n
           /\ \A i \in 1..n : Newest(list, n)[i] = list[Len(list) - n + i]
           /\ n = Len(list) => Newest(list, n) = list
<1>1. PICK m : m = Len(list) - n + 1
  OBVIOUS
<1>2. Newest(list, n) = SubSeq(list, m, Len(list)) /\ m \in Int /\ Len(list) \in Nat
      /\ \A i \in m..Len(list) : list[i] \in T
  BY <1>1 DEF Newest
<1>3. /\ Newest(list, n) \in Seq(T)
      /\ Len(Newest(list, n)) = IF m <= Len(list) THEN Len(list) - m + 1 ELSE 0
      /\ \A i \in 1..(Len(list) - m + 1) : Newest(list, n)[i] = list[m + i - 1]
  BY <1>2, SubSeqProperties
<1>4. Len(Newest(list, n)) = n /\ \A i \in 1..n : Newest(list, n)[i] = list[Len(list) - n + i]
  BY <1>1, <1>2, <1>3
<1>5. n = Len(list) => Newest(list, n) = list
  BY <1>3, <1>4, SeqEqual
<1> QED BY <1>3, <1>4, <1>5

LEMMA NewestTwice ==
    ASSUME NEW T, NEW list \in Seq(T), NEW c \in 0..Len(list), NEW n \in 0..c
    PROVE  Newest(Newest(list, c), n) = Newest(list, n)
<1>1. PICK l : l = Newest(list, c)
  OBVIOUS
<1>2. n \in 0..Len(list)
  OBVIOUS
<1>3. /\ l \in Seq(T) /\ Len(l) = c
      /\ \A i \in 1..c : l[i] = list[Len(list) - c + i]
  BY <1>1, NewestFacts
<1>4. /\ Newest(l, n) \in Seq(T) /\ Len(Newest(l, n)) = n
      /\ \A i \in 1..n : Newest(l, n)[i] = l[c - n + i]
  BY <1>3, NewestFacts
<1>5. /\ Newest(list, n) \in Seq(T) /\ Len(Newest(list, n)) = n
      /\ \A i \in 1..n : Newest(list, n)[i] = list[Len(list) - n + i]
  BY <1>2, NewestFacts
<1>6. \A i \in 1..n : l[c - n + i] = list[Len(list) - n + i]
  BY <1>3
<1>7. Newest(l, n) = Newest(list, n)
  BY <1>4, <1>5, <1>6, SeqEqual
<1> QED BY <1>1, <1>7

\* Lists whose items follow one another in an order.
Follows(l, R) == \A i, j \in 1..Len(l) : i < j => <<l[i], l[j]>> \in R

LEMMA FollowsAppend ==
    ASSUME NEW T, NEW R, NEW l \in Seq(T), NEW x \in T
    PROVE  Follows(Append(l, x), R) <=> Follows(l, R) /\ \A y \in Items(l) : <<y, x>> \in R
<1>1. /\ Len(Append(l, x)) = Len(l) + 1 /\ Len(l) \in Nat
      /\ \A i \in 1..Len(l) : Append(l, x)[i] = l[i]
      /\ Append(l, x)[Len(l) + 1] = x
  BY AppendProperties, LenProperties
<1> PICK N : N = Len(l)
  OBVIOUS
<1>2. ASSUME Follows(Append(l, x), R) PROVE Follows(l, R) /\ \A y \in Items(l) : <<y, x>> \in R
  <2>1. ASSUME NEW i \in 1..N, NEW j \in 1..N, i < j PROVE <<l[i], l[j]>> \in R
    <3>1. i \in 1..(N + 1) /\ j \in 1..(N + 1)
      BY <1>1, <2>1
    <3> QED BY <1>1, <1>2, <2>1, <3>1 DEF Follows
  <2>2. ASSUME NEW i \in 1..N PROVE <<l[i], x>> \in R
    <3>1. i \in 1..(N + 1) /\ N + 1 \in 1..(N + 1) /\ i < N + 1
      BY <1>1, <2>2
    <3> QED BY <1>1, <1>2, <3>1 DEF Follows
  <2> QED BY <2>1, <2>2 DEF Follows, Items
<1>3. ASSUME Follows(l, R), \A y \in Items(l) : <<y, x>> \in R PROVE Follows(Append(l, x), R)
  <2> SUFFICES ASSUME NEW i \in 1..(N + 1), NEW j \in 1..(N + 1), i < j
               PROVE  <<Append(l, x)[i], Append(l, x)[j]>> \in R
    BY <1>1 DEF Follows
  <2>1. i \in 1..N /\ l[i] \in Items(l)
    BY <1>1 DEF Items
  <2>2. CASE j = N + 1
    BY <1>1, <1>3, <2>1, <2>2
  <2>3. CASE j # N + 1
    <3>1. j \in 1..N
      BY <1>1, <2>3
    <3> QED BY <1>1, <1>3, <2>1, <3>1 DEF Follows
  <2> QED BY <2>2, <2>3
<1> QED BY <1>2, <1>3

LEMMA FollowsConcat ==
    ASSUME NEW T, NEW R, NEW s \in Seq(T), NEW t \in Seq(T)
    PROVE  /\ s \o t \in Seq(T) /\ Items(s \o t) = Items(s) \cup Items(t)
           /\ Follows(s, R) /\ Follows(t, R) /\ (\A x \in Items(s), y \in Items(t) : <<x, y>> \in R)
                => Follows(s \o t, R)
<1> PICK l, m, n : l = s \o t /\ m = Len(s) /\ n = Len(t)
  OBVIOUS
<1>1. /\ l \in Seq(T) /\ Len(l) = m + n /\ m \in Nat /\ n \in Nat
      /\ \A i \in 1..(m + n) : l[i] = IF i <= m THEN s[i] ELSE t[i - m]
  BY ConcatProperties, LenProperties
<1>2. \A i \in 1..m : i \in 1..(m + n) /\ l[i] = s[i] /\ s[i] \in Items(s)
  BY <1>1 DEF Items
<1>3. \A i \in 1..n : m + i \in 1..(m + n) /\ l[m + i] = t[i]
  <2> TAKE i \in 1..n
  <2>1. m + i \in 1..(m + n) /\ ~ (m + i <= m) /\ (m + i) - m = i
    BY <1>1
  <2> QED BY <1>1, <2>1
<1>4. \A i \in 1..(m + n) : i \in 1..m \/ (i - m \in 1..n /\ l[i] = t[i - m] /\ t[i - m] \in Items(t))
  BY <1>1 DEF Items
<1>5. Items(l) = Items(s) \cup Items(t)
  <2>1. Items(l) \subseteq Items(s) \cup Items(t)
    BY <1>1, <1>2, <1>4 DEF Items
  <2>2. Items(s) \subseteq Items(l)
    BY <1>1, <1>2 DEF Items
  <2>3. Items(t) \subseteq Items(l)
    BY <1>1, <1>3 DEF Items
  <2> QED BY <2>1, <2>2, <2>3
<1>6. ASSUME Follows(s, R), Follows(t, R), \A x \in Items(s), y \in Items(t) : <<x, y>> \in R
      PROVE  Follows(l, R)
  <2> SUFFICES ASSUME NEW i \in 1..(m + n), NEW j \in 1..(m + n), i < j
               PROVE  <<l[i], l[j]>> \in R
    BY <1>1 DEF Follows
  <2>1. CASE j \in 1..m
    <3>1. i \in 1..m
      BY <1>1, <2>1
    <3> QED BY <1>2, <1>6, <2>1, <3>1 DEF Follows
  <2>2. CASE j \notin 1..m /\ i \in 1..m
    BY <1>2, <1>4, <1>6, <2>2
  <2>3. CASE j \notin 1..m /\ i \notin 1..m
    <3>1. /\ i - m \in 1..n /\ l[i] = t[i - m]
          /\ j - m \in 1..n /\ l[j] = t[j - m]
      BY <1>4, <2>3
    <3>2. i - m < j - m
      BY <1>1
    <3> QED BY <1>6, <3>1, <3>2 DEF Follows
  <2> QED BY <2>1, <2>2, <2>3
<1> QED BY <1>1, <1>5, <1>6

LEMMA KeptFollows ==
    ASSUME NEW T, NEW R, NEW list \in Seq(T), NEW S, Follows(list, R)
    PROVE  Follows(Kept(list, S), R)
<1> DEFINE P(l) == Follows(l, R) => Follows(Kept(l, S), R)
           G == {l \in Seq(T) : P(l)}
<1>1. <<>> \in G
  BY KeptEmpty, EmptySeq DEF Follows
<1>2. \A l \in Seq(T), x \in T : l \in G => Append(l, x) \in G
  <2> SUFFICES ASSUME NEW l \in Seq(T), NEW x \in T, P(l), Follows(Append(l, x), R)
               PROVE  Append(l, x) \in Seq(T) /\ Follows(Kept(Append(l, x), S), R)
    BY AppendProperties
  <2>1. Follows(l, R) /\ \A y \in Items(l) : <<y, x>> \in R
    BY FollowsAppend
  <2>2. PICK k : k = Kept(l, S)
    OBVIOUS
  <2>3. k \in Seq(T) /\ Items(k) \subseteq Items(l) /\ Follows(k, R)
    <3>1. k \in Seq(T)
      BY <2>2, KeptFacts
    <3>2. Items(k) \subseteq Items(l)
      BY <2>2, KeptItems
    <3>3. Follows(k, R)
      BY <2>1, <2>2
    <3> QED BY <3>1, <3>2, <3>3
  <2>4. Follows(Append(k, x), R)
    BY <2>1, <2>3, FollowsAppend
  <2>5. Kept(Append(l, x), S) = IF x \in S THEN Append(k, x) ELSE k
    BY <2>2, KeptAppend
  <2> QED BY <2>3, <2>4, <2>5, AppendProperties
<1> HIDE DEF G
<1>3. list \in G
  BY <1>1, <1>2, ListInduction
<1> QED BY <1>3 DEF G

-----------------------------------------------------------------------------
(* The actions of the presets.                                             *)

\* An action that a preset was ever given exists, or has been deleted.
Listed ==
    /\ buttons \in [Buttons -> {"absent", "present", "deleted"}]
    /\ items \in [Presets -> Seq(Buttons)]
    /\ asked \in [Presets -> Seq(Buttons)]
    /\ \A p \in Presets : \A x \in Items(asked[p]) : buttons[x] # "absent"

TakenInv == Listed /\ TakenWhole

LEMMA TakenInit == Init => TakenInv
<1> SUFFICES ASSUME Init PROVE TakenInv
  OBVIOUS
<1>1. Factory \in Seq(Buttons) /\ Items(<<>>) = {}
  BY CatalogAssumption DEF CatalogAssumption, Items
<1>2. Items(Factory) \subseteq Buttons
  BY <1>1 DEF Items
<1>3. Listed
  BY <1>1, <1>2 DEF Init, Listed
<1>4. ASSUME NEW p \in Presets PROVE items[p] = Kept(asked[p], Present(buttons))
  <2>1. PICK l, K : l = asked[p] /\ K = Present(buttons)
    OBVIOUS
  <2>2. l \in Seq(Buttons) /\ Items(l) \subseteq K
    BY <1>1, <1>2, <2>1 DEF Init, Present
  <2>3. Kept(l, K) = l
    BY <2>2, KeptFacts
  <2> QED BY <2>1, <2>3 DEF Init
<1> QED BY <1>3, <1>4 DEF TakenInv, TakenWhole

\* Only the actions that are there among those asked for matter.
LEMMA SameTaken ==
    ASSUME TakenInv, NEW p \in Presets, NEW S, NEW Q,
           S = Present(buttons),
           \A x \in Items(asked[p]) : x \in S <=> x \in Q
    PROVE  items[p] = Kept(asked[p], Q)
<1>1. PICK l : l = asked[p]
  OBVIOUS
<1>2. l \in Seq(Buttons)
  BY <1>1 DEF TakenInv, Listed
<1>3. \A x \in Items(l) : x \in S <=> x \in Q
  BY <1>1
<1>4. Kept(l, S) = Kept(l, Q)
  BY <1>2, <1>3, KeptSame
<1> QED BY <1>1, <1>4 DEF TakenInv, TakenWhole

LEMMA ButtonCreatedTakes ==
    ASSUME IInv, TakenInv, NEW r \in open, ButtonCreated(r)
    PROVE  TakenInv'
<1>0. r.b \in Buttons /\ UNCHANGED <<items, asked>>
  BY DEF ButtonCreated, IInv, Checked
<1>1. \A x \in Buttons : buttons[x] # "absent" => buttons'[x] = buttons[x]
  BY <1>0 DEF ButtonCreated, TakenInv, Listed
<1>2. buttons' \in [Buttons -> {"absent", "present", "deleted"}]
  BY <1>0 DEF ButtonCreated, TakenInv, Listed
<1>3. \A p \in Presets : Items(asked[p]) \subseteq Buttons
  BY DEF TakenInv, Listed, Items
<1>4. Listed'
  BY <1>0, <1>1, <1>2, <1>3 DEF TakenInv, Listed
<1>5. ASSUME NEW p \in Presets PROVE items'[p] = Kept(asked'[p], Present(buttons'))
  <2>1. PICK S, Q : S = Present(buttons) /\ Q = Present(buttons')
    OBVIOUS
  <2>2. \A x \in Items(asked[p]) : x \in S <=> x \in Q
    BY <1>1, <1>2, <1>3, <2>1 DEF TakenInv, Listed, Present
  <2> QED BY <1>0, <2>1, <2>2, SameTaken
<1> QED BY <1>4, <1>5 DEF TakenInv, TakenWhole

LEMMA ButtonDeletedTakes ==
    ASSUME IInv, TakenInv, NEW r \in open, ButtonDeleted(r)
    PROVE  TakenInv'
<1>0. r.b \in Buttons /\ UNCHANGED asked
  BY DEF ButtonDeleted, IInv, Checked
<1>1. /\ buttons' = [buttons EXCEPT ![r.b] = "deleted"]
      /\ \A p \in Presets : items'[p] = Kept(items[p], Buttons \ {r.b})
      /\ DOMAIN items' = Presets /\ items' = [p \in Presets |-> items'[p]]
  BY DEF ButtonDeleted, Cascade
<1>2. /\ buttons' \in [Buttons -> {"absent", "present", "deleted"}]
      /\ Present(buttons') = Present(buttons) \cap (Buttons \ {r.b})
      /\ \A x \in Buttons : buttons[x] # "absent" => buttons'[x] # "absent"
  BY <1>0, <1>1 DEF TakenInv, Listed, Present
<1>3. ASSUME NEW p \in Presets
      PROVE  /\ items'[p] \in Seq(Buttons)
             /\ items'[p] = Kept(asked'[p], Present(buttons'))
  <2>1. PICK l, S, R : l = asked[p] /\ S = Present(buttons) /\ R = Buttons \ {r.b}
    OBVIOUS
  <2>2. l \in Seq(Buttons)
    BY <2>1 DEF TakenInv, Listed
  <2>3. Kept(Kept(l, S), R) = Kept(l, S \cap R)
    BY <2>2, KeptFacts
  <2>4. Kept(l, S \cap R) \in Seq(Buttons)
    BY <2>2, KeptFacts
  <2>5. items[p] = Kept(l, S)
    BY <2>1 DEF TakenInv, TakenWhole
  <2>6. items'[p] = Kept(l, S \cap R)
    BY <1>1, <2>1, <2>3, <2>5
  <2> QED BY <1>0, <1>2, <2>1, <2>4, <2>6
<1>4. \A p \in Presets : Items(asked[p]) \subseteq Buttons
  BY DEF TakenInv, Listed, Items
<1>5. items' \in [Presets -> Seq(Buttons)]
  BY <1>1, <1>3
<1>6. Listed'
  BY <1>0, <1>2, <1>4, <1>5 DEF TakenInv, Listed
<1> QED BY <1>3, <1>6 DEF TakenInv, TakenWhole

\* A request that may store a list, or leaves the one there is.
LEMMA StoredTakes ==
    ASSUME TakenInv, NEW p \in Presets, NEW n, NEW list \in Lists \cup {Null},
           Storable(p, n, list), Stored(p, n, list), UNCHANGED buttons
    PROVE  TakenInv'
<1>1. CASE list = Null
  <2>1. UNCHANGED <<items, asked>>
    BY <1>1 DEF Stored, Replaced, TakenInv, Listed
  <2> QED BY <2>1 DEF TakenInv, Listed, TakenWhole, Present
<1>2. CASE list # Null
  <2>0. list \in Seq(Buttons)
    BY <1>2, CatalogAssumption DEF CatalogAssumption
  <2>1. /\ items' = [items EXCEPT ![p] = list] /\ asked' = [asked EXCEPT ![p] = list]
        /\ Items(list) \subseteq Present(buttons)
    BY <1>2 DEF Stored, Replaced, Storable
  <2>2. PICK K : K = Present(buttons)
    OBVIOUS
  <2>3. Kept(list, K) = list
    BY <2>0, <2>1, <2>2, KeptFacts
  <2>4. Listed'
    BY <2>0, <2>1 DEF TakenInv, Listed, Present
  <2>5. TakenWhole'
    BY <2>1, <2>2, <2>3 DEF TakenInv, Listed, TakenWhole
  <2> QED BY <2>4, <2>5 DEF TakenInv
<1> QED BY <1>1, <1>2

LEMMA PresetDeletedTakes ==
    ASSUME IInv, TakenInv, NEW r \in open, PresetDeleted(r)
    PROVE  TakenInv'
<1>1. /\ items' = [items EXCEPT ![r.p] = <<>>] /\ asked' = [asked EXCEPT ![r.p] = <<>>]
      /\ UNCHANGED buttons /\ r.p \in Presets
  BY DEF PresetDeleted, IInv, Checked
<1>2. PICK K : K = Present(buttons)
  OBVIOUS
<1>3. Kept(<<>>, K) = <<>> /\ <<>> \in Seq(Buttons) /\ Items(<<>>) = {}
  BY KeptEmpty DEF Items
<1>4. Listed'
  BY <1>1, <1>3 DEF TakenInv, Listed
<1>5. TakenWhole'
  BY <1>1, <1>2, <1>3 DEF TakenInv, Listed, TakenWhole
<1> QED BY <1>4, <1>5 DEF TakenInv

LEMMA TakenStep ==
    ASSUME IInv, TakenInv, [Next]_vars
    PROVE  TakenInv'
<1>1. ASSUME UNCHANGED <<buttons, items, asked>> PROVE TakenInv'
  BY <1>1 DEF TakenInv, Listed, TakenWhole, Present
<1>2. ASSUME \E r : Added(r) PROVE TakenInv'
  BY <1>1, <1>2 DEF Added
<1>3. ASSUME NEW r \in open, PresetCreated(r) PROVE TakenInv'
  <2>1. r.p \in Presets /\ r.list \in Lists \cup {Null} /\ UNCHANGED buttons
    BY <1>3 DEF PresetCreated, IInv, Checked
  <2>2. PICK p, n, list : p = r.p /\ n = r.name /\ list = r.list
    OBVIOUS
  <2>3. \/ UNCHANGED <<items, asked>>
        \/ Storable(p, n, list) /\ Stored(p, n, list)
    BY <1>3, <2>2 DEF PresetCreated
  <2> QED BY <1>1, <2>1, <2>2, <2>3, StoredTakes
<1>4. ASSUME NEW r \in open, PresetUpdated(r) PROVE TakenInv'
  <2>1. r.p \in Presets /\ r.list \in Lists \cup {Null} /\ UNCHANGED buttons
    BY <1>4 DEF PresetUpdated, IInv, Checked
  <2>2. PICK p, n, list : p = r.p /\ n = r.name /\ list = r.list
    OBVIOUS
  <2>3. \/ UNCHANGED <<items, asked>>
        \/ Storable(p, n, list) /\ Stored(p, n, list)
    BY <1>4, <2>2 DEF PresetUpdated
  <2> QED BY <1>1, <2>1, <2>2, <2>3, StoredTakes
<1>5. ASSUME NEW r \in open, Commits(r) PROVE TakenInv'
  <2>1. CASE SessionCreated(r) \/ SessionUpdated(r)
    BY <1>1, <2>1 DEF SessionCreated, SessionUpdated, catalog
  <2> QED BY <1>3, <1>4, <1>5, <2>1, ButtonCreatedTakes, ButtonDeletedTakes, PresetDeletedTakes
          DEF Commits
<1>6. ASSUME NEW s \in Sessions, StartSession(s) PROVE TakenInv'
  BY <1>1, <1>6 DEF StartSession, catalog
<1>7. ASSUME UNCHANGED vars PROVE TakenInv'
  BY <1>1, <1>7 DEF vars, catalog
<1> QED
  BY <1>2, <1>5, <1>6, <1>7, Opening DEF Next

-----------------------------------------------------------------------------
(* The theorems.                                                           *)

LEMMA Invariance == Spec => []IInv
<1>1. IInv /\ [Next]_vars => IInv'
  BY Step
<1> QED
  BY <1>1, InitInv, PTL DEF Spec

\* A session has a preset that exists at every moment: whatever presets are deleted
\* between the check of a request and its write, and however often, since Default cannot
\* be deleted and takes the sessions of those that are.
THEOREM SessionsAlwaysServed == Spec => []SessionsServed
<1>1. IInv => SessionsServed
  BY DEF IInv
<1> QED BY <1>1, Invariance, PTL

\* No request changes the preset of a session that has started, not even one that has
\* found it unstarted before: transition_lock is held from the check to the commit, and
\* start takes it too.
THEOREM PresetsLocked == Spec => PresetLocked
<1>1. IInv /\ [Next]_vars => \A s \in Sessions :
        session[s].status = "started" /\ session'[s].preset # session[s].preset =>
            /\ session'[s].preset = Default
            /\ session[s].preset \notin Present(presets')
  BY Step DEF Lasting
<1> QED
  BY <1>1, Invariance, PTL DEF Spec, PresetLocked

\* The actions of a preset are those of one request, in its order, less those deleted
\* since: whatever is deleted between the check of a list and its write, and in whatever
\* order the requests commit, since a list is written whole or not at all and a deletion
\* takes an action from every list.
THEOREM PresetsTakenWhole == Spec => []TakenWhole
<1>1. IInv /\ TakenInv /\ [Next]_vars => TakenInv'
  BY TakenStep
<1>2. TakenInv => TakenWhole
  BY DEF TakenInv
<1> QED
  BY <1>1, <1>2, TakenInit, Invariance, PTL DEF Spec

-----------------------------------------------------------------------------
(* The context of an agent request (module AgentContext).                  *)

ContextTyped ==
    /\ now \in Nat
    /\ arrived \in 0..MaxUtterances /\ shown \subseteq 1..arrived
    /\ last \in [Utterances -> Nat] /\ revision \in [Utterances -> Nat]
    /\ first \in [Utterances -> Nat] /\ size \in [Utterances -> Nat]
    /\ \A u \in Utterances : last[u] <= now
    /\ requested \in Nat

\* What was shown at some moment: who knows a caption knows every caption that was
\* observed before it and was not late.
Earlier(S, u, b) ==
    u \notin late /\ last[u] < last[b] /\ <<b, revision[b]>> \in S => <<u, revision[u]>> \in S
AtOnce(S) ==
    /\ \A u \in Utterances, n \in Nat : <<u, n>> \in S => u <= arrived /\ n <= revision[u]
    /\ \A u, b \in shown : Earlier(S, u, b)

ContextInv ==
    /\ ContextTyped
    /\ \E R : runs \in Seq(R)
    /\ AtOnce(origin)
    /\ \A i \in DOMAIN runs : AtOnce(runs[i].seen)

LEMMA ContextStart == ContextInit => ContextInv
<1>1. <<>> \in Seq({}) /\ DOMAIN <<>> = {}
  BY EmptySeq
<1> QED
  BY <1>1, ContextAssumption
  DEF ContextInit, ContextInv, ContextTyped, AtOnce, Earlier, Utterances, ContextAssumption

\* A later caption leaves what was shown at some moment as it was: it is new or of another
\* revision, and unless it is late no caption is observed after it.
LEMMA CaptionsKeep ==
    ASSUME ContextTyped, NEW S, AtOnce(S),
           \/ Tick \/ PartialsRemoved
           \/ \E t \in 0..MaxTime, s \in Sizes, isFinal \in BOOLEAN :
                 \/ NewCaption(t, s, isFinal)
                 \/ \E u \in Utterances : RevisedCaption(u, t, s, isFinal)
    PROVE  ContextTyped' /\ AtOnce(S)'
<1>1. CASE Tick
  <2>1. UNCHANGED <<captions, requested>> /\ now' = now + 1
    BY <1>1 DEF Tick, captions, thread
  <2>2. now \in Nat /\ \A u \in Utterances : last[u] \in Nat /\ last[u] <= now
    BY DEF ContextTyped
  <2>3. now' \in Nat /\ \A u \in Utterances : last[u] <= now'
    BY <2>1, <2>2
  <2>4. ContextTyped'
    BY <2>1, <2>3 DEF ContextTyped, captions
  <2> QED BY <2>1, <2>4 DEF captions, AtOnce, Earlier
<1> USE ContextAssumption DEF ContextTyped, Utterances, ContextAssumption
<1>0. shown \subseteq Utterances
  OBVIOUS
<1>2. CASE PartialsRemoved
  BY <1>2 DEF PartialsRemoved, thread, AtOnce, Earlier
<1>3. ASSUME NEW t \in 0..MaxTime, NEW s \in Sizes, NEW isFinal \in BOOLEAN,
             NewCaption(t, s, isFinal)
      PROVE  ContextTyped' /\ AtOnce(S)'
  <2> DEFINE n == arrived + 1
  <2>1. /\ n \in Utterances /\ arrived' = n /\ shown' = shown \cup {n} /\ n \notin shown
        /\ t <= now /\ t \in Nat /\ last' = [last EXCEPT ![n] = t]
        /\ late' = IF t < now THEN late \cup {n} ELSE late
        /\ UNCHANGED <<now, revision, requested>>
    BY <1>3 DEF NewCaption, thread
  <2> HIDE DEF n
  <2>2. ContextTyped'
    <3>0. arrived \in Nat /\ n = arrived + 1 /\ n \in 1..MaxUtterances
      BY <2>1 DEF n
    <3>01. arrived' \in 0..MaxUtterances
      BY <2>1, <3>0
    <3>02. shown' \subseteq 1..arrived'
      <4>1. shown \subseteq 1..arrived
        OBVIOUS
      <4>2. 1..arrived \subseteq 1..n /\ n \in 1..n
        BY <3>0
      <4> QED BY <2>1, <4>1, <4>2
    <3>1. arrived' \in 0..MaxUtterances /\ shown' \subseteq 1..arrived'
      BY <3>01, <3>02
    <3>2. last' \in [Utterances -> Nat] /\ \A u \in Utterances : last'[u] <= now'
      BY <2>1
    <3>3. first' = [first EXCEPT ![n] = t] /\ size' = [size EXCEPT ![n] = s] /\ s \in Nat
      BY <1>3 DEF NewCaption, n
    <3>4. size' \in [Utterances -> Nat]
      BY <3>3
    <3>5. first' \in [Utterances -> Nat]
      BY <2>1, <3>3
    <3> QED BY <2>1, <3>1, <3>2, <3>4, <3>5
  <2>3. \A k \in Nat : <<n, k>> \notin S
    <3>1. n \in Utterances /\ ~ (n <= arrived)
      BY <2>1 DEF n
    <3>2. \A k \in Nat : <<n, k>> \in S => n <= arrived
      BY <3>1 DEF AtOnce
    <3> QED BY <3>1, <3>2
  <2>4. /\ \A v \in shown : v \in Utterances /\ last'[v] = last[v] /\ revision'[v] = revision[v]
        /\ last'[n] = t /\ revision'[n] \in Nat
    <3>1. \A v \in shown : v \in Utterances /\ v # n
      BY <1>0, <2>1
    <3>2. last'[n] = t /\ \A v \in shown : last'[v] = last[v]
      BY <2>1, <3>1
    <3> QED BY <2>1, <3>1, <3>2
  <2>5. ASSUME NEW u \in shown', NEW b \in shown' PROVE Earlier(S, u, b)'
    <3>1. CASE b = n
      <4>1. <<b, revision'[b]>> \notin S
        BY <2>3, <2>4, <3>1
      <4> QED BY <4>1 DEF Earlier
    <3>2. CASE b # n /\ u = n
      <4>1. b \in shown /\ last'[b] = last[b] /\ last[b] <= now /\ last[b] \in Nat
        BY <2>1, <2>4, <3>2
      <4>2. u \in late' \/ ~(last'[u] < last'[b])
        BY <2>1, <2>4, <3>2, <4>1
      <4> QED BY <4>2 DEF Earlier
    <3>3. CASE b # n /\ u # n
      BY <2>1, <2>4, <3>3 DEF AtOnce, Earlier
    <3> QED BY <3>1, <3>2, <3>3
  <2>6. \A u \in Utterances, k \in Nat : <<u, k>> \in S => u <= arrived' /\ k <= revision'[u]
    BY <2>1 DEF AtOnce, n
  <2> QED BY <2>2, <2>5, <2>6 DEF AtOnce
<1>4. ASSUME NEW t \in 0..MaxTime, NEW s \in Sizes, NEW isFinal \in BOOLEAN,
             NEW n \in Utterances, RevisedCaption(n, t, s, isFinal)
      PROVE  ContextTyped' /\ AtOnce(S)'
  <2>1. /\ n \in shown /\ t <= now /\ t \in Nat
        /\ last' = [last EXCEPT ![n] = t] /\ revision' = [revision EXCEPT ![n] = @ + 1]
        /\ late' = IF t < now THEN late \cup {n} ELSE late \ {n}
        /\ UNCHANGED <<now, arrived, shown, requested>>
    BY <1>4 DEF RevisedCaption, thread
  <2>2. n \in Utterances /\ last[n] \in Nat /\ revision[n] \in Nat
    BY <2>1
  <2> HIDE DEF Utterances
  <2>3. ContextTyped'
    <3>1. last' \in [Utterances -> Nat] /\ \A u \in Utterances : last'[u] <= now'
      BY <2>1, <2>2
    <3>2. revision' \in [Utterances -> Nat]
      BY <2>1, <2>2
    <3>3. size' = [size EXCEPT ![n] = s] /\ s \in Nat /\ UNCHANGED first
      BY <1>4 DEF RevisedCaption
    <3>4. size' \in [Utterances -> Nat]
      BY <3>3
    <3> QED BY <2>1, <3>1, <3>2, <3>3, <3>4
  <2>4. last'[n] = t /\ revision'[n] = revision[n] + 1
    <3>1. last'[n] = t
      BY <2>1, <2>2
    <3>2. revision'[n] = revision[n] + 1
      BY <2>1, <2>2
    <3> QED BY <3>1, <3>2
  <2>5. ASSUME NEW v \in shown \ {n}
        PROVE  /\ v \in Utterances /\ last'[v] = last[v] /\ revision'[v] = revision[v]
               /\ v \in late' <=> v \in late
    <3>1. v \in Utterances /\ v # n
      BY <1>0
    <3>3. last'[v] = last[v]
      BY <2>1, <3>1
    <3>4. revision'[v] = revision[v]
      BY <2>1, <3>1
    <3>2. v \in late' <=> v \in late
      BY <2>1
    <3> QED BY <3>1, <3>2, <3>3, <3>4
  <2>6. <<n, revision'[n]>> \notin S
    BY <2>2, <2>4 DEF AtOnce
  <2>7. ASSUME NEW u \in shown', NEW b \in shown' PROVE Earlier(S, u, b)'
    <3>1. CASE b = n
      BY <2>6, <3>1 DEF Earlier
    <3>2. CASE b # n /\ u = n
      <4>1. last'[b] = last[b] /\ last[b] <= now /\ last[b] \in Nat
        BY <2>1, <2>5, <3>2
      <4>2. u \in late' \/ ~(last'[u] < last'[b])
        BY <2>1, <2>4, <3>2, <4>1
      <4> QED BY <4>2 DEF Earlier
    <3>3. CASE b # n /\ u # n
      BY <2>1, <2>5, <3>3 DEF AtOnce, Earlier
    <3> QED BY <3>1, <3>2, <3>3
  <2>8. \A u \in Utterances, k \in Nat : <<u, k>> \in S => u <= arrived' /\ k <= revision'[u]
    BY <2>1, <2>2 DEF AtOnce
  <2> QED BY <2>3, <2>7, <2>8 DEF AtOnce
<1> HIDE DEF ContextTyped, Utterances, ContextAssumption
<1> QED
  BY <1>1, <1>2, <1>3, <1>4

LEMMA ContextStep ==
    ASSUME ContextInv, [ContextNext]_contextVars
    PROVE  ContextInv'
<1>0. ContextTyped
  BY DEF ContextInv
<1> PICK R : runs \in Seq(R)
  BY DEF ContextInv
<1>1. ASSUME NEW ask \in Actions \cup {FreePrompt}, Enqueue(ask)
      PROVE  ContextInv'
  <2>1. PICK r : runs' = Append(runs, r) /\ r.seen = Seen
    BY <1>1 DEF Enqueue
  <2>2. /\ UNCHANGED <<now, captions, boundary, origin>> /\ requested' = requested + 1
    BY <1>1 DEF Enqueue
  <2>3. AtOnce(Seen)
    <3>1. \A u, n : <<u, n>> \in Seen <=> u \in shown /\ n = revision[u]
      BY DEF Seen
    <3>2. \A u \in shown : u <= arrived /\ u \in Utterances
      BY <1>0, ContextAssumption DEF ContextTyped, Utterances, ContextAssumption
    <3>3. \A u \in shown : revision[u] \in Nat
      BY <1>0, <3>2 DEF ContextTyped
    <3> QED BY <3>1, <3>2, <3>3 DEF AtOnce, Earlier
  <2>4. /\ DOMAIN runs' = 1..(Len(runs) + 1) /\ DOMAIN runs = 1..Len(runs) /\ Len(runs) \in Nat
        /\ \A i \in 1..Len(runs) : runs'[i] = runs[i]
        /\ runs'[Len(runs) + 1] = r
    BY <1>0, <2>1
  <2>5. runs' \in Seq(R \cup {r})
    <3>1. runs \in Seq(R \cup {r})
      BY SeqMonotonic
    <3> QED BY <2>1, <3>1, AppendProperties
  <2>6. ContextTyped'
    BY <1>0, <2>2 DEF ContextTyped, captions
  <2>7. ASSUME NEW S, AtOnce(S) PROVE AtOnce(S)'
    BY <2>2, <2>7 DEF AtOnce, Earlier, captions
  <2>8. \A i \in DOMAIN runs' : AtOnce(runs'[i].seen)
    BY <2>1, <2>3, <2>4 DEF ContextInv
  <2> QED BY <2>2, <2>5, <2>6, <2>7, <2>8 DEF ContextInv, AtOnce, Earlier, captions
<1>2. ASSUME Complete \/ Fail
      PROVE  ContextInv'
  <2>1. runs # <<>> /\ runs' = Tail(runs) /\ UNCHANGED <<now, captions, requested>>
    BY <1>2 DEF Complete, Fail
  <2>2. /\ Len(runs) \in Nat \ {0} /\ DOMAIN runs = 1..Len(runs)
        /\ runs' \in Seq(R) /\ DOMAIN runs' = 1..(Len(runs) - 1) /\ Head(runs) = runs[1]
        /\ \A i \in DOMAIN runs' : runs'[i] = runs[i + 1]
    BY <1>0, <2>1, HeadTailProperties
  <2>4. ContextTyped'
    BY <1>0, <2>1 DEF ContextTyped, captions
  <2>5. \A i \in DOMAIN runs' : AtOnce(runs'[i].seen)
    BY <2>2 DEF ContextInv
  <2>6. origin' \in {origin, runs[1].seen} /\ 1 \in DOMAIN runs
    BY <1>2, <2>2 DEF Complete, Fail
  <2>7. AtOnce(origin')
    BY <2>6 DEF ContextInv
  <2> QED BY <2>1, <2>2, <2>4, <2>5, <2>7 DEF ContextInv, AtOnce, Earlier, captions
<1>3. ASSUME \/ Tick \/ PartialsRemoved
             \/ \E t \in 0..MaxTime, s \in Sizes, isFinal \in BOOLEAN :
                   \/ NewCaption(t, s, isFinal)
                   \/ \E u \in Utterances : RevisedCaption(u, t, s, isFinal)
      PROVE  ContextInv'
  <2>1. UNCHANGED thread
    BY <1>3 DEF Tick, PartialsRemoved, NewCaption, RevisedCaption
  <2>2. AtOnce(origin) /\ \A i \in DOMAIN runs : AtOnce(runs[i].seen)
    BY DEF ContextInv
  <2>3. ASSUME NEW S, AtOnce(S) PROVE ContextTyped' /\ AtOnce(S)'
    BY <1>0, <1>3, <2>3, CaptionsKeep
  <2>4. PICK o : o = origin
    OBVIOUS
  <2>5. ContextTyped' /\ AtOnce(o)'
    BY <2>2, <2>3, <2>4
  <2>6. AtOnce(origin)'
    BY <2>1, <2>4, <2>5 DEF thread, AtOnce, Earlier
  <2>7. ASSUME NEW i \in DOMAIN runs' PROVE AtOnce(runs[i].seen)'
    <3>1. PICK S : S = runs[i].seen
      OBVIOUS
    <3>2. AtOnce(S)'
      BY <2>1, <2>2, <2>3, <2>7, <3>1 DEF thread
    <3> QED BY <2>1, <3>1, <3>2 DEF thread, AtOnce, Earlier
  <2> QED BY <2>1, <2>5, <2>6, <2>7 DEF ContextInv, thread
<1>4. CASE UNCHANGED contextVars
  BY <1>4 DEF contextVars, captions, thread, ContextInv, ContextTyped, AtOnce, Earlier
<1> QED
  BY <1>1, <1>2, <1>3, <1>4 DEF ContextNext, EnqueueAction, EnqueuePrompt

\* A step that queues a request since the previous turn passes nothing over.
LEMMA PassedOver ==
    ASSUME ContextInv, [ContextNext]_contextVars, requested' > requested,
           runs'[Len(runs')].ask.strategy = "since_previous_turn",
           NEW u \in shown \ Eligible(runs'[Len(runs')].ask)
    PROVE  \/ <<u, revision[u]>> \in origin
           \/ u \in late
           \/ <<boundary, revision[boundary]>> \notin origin
<1>0. ContextTyped
  BY DEF ContextInv
<1>1. requested' # requested
  BY <1>0 DEF ContextTyped
<1>2. PICK ask \in Actions \cup {FreePrompt} : Enqueue(ask)
  BY <1>1 DEF ContextNext, EnqueueAction, EnqueuePrompt, Tick, PartialsRemoved, NewCaption,
              RevisedCaption, Complete, Fail, thread, contextVars
<1>3. runs'[Len(runs')].ask = ask
  <2>1. PICK r : runs' = Append(runs, r) /\ r.ask = ask
    BY <1>2 DEF Enqueue
  <2>2. Len(runs') = Len(runs) + 1 /\ runs'[Len(runs) + 1] = r
    BY <1>0, <2>1 DEF ContextTyped
  <2> QED BY <2>1, <2>2
<1>4. ask.strategy = "since_previous_turn" /\ ask.value \in Nat
  BY <1>3, ContextAssumption DEF ContextAssumption
<1>5. boundary \in shown /\ u \notin Since(shown, last[boundary], ask.value)
  BY <1>3, <1>4 DEF Eligible
<1>6. {u, boundary} \subseteq Utterances
  BY <1>0, <1>5, ContextAssumption DEF ContextTyped, Utterances, ContextAssumption
<1>7. last[u] < last[boundary]
  <2>1. u \in shown
    BY <1>0
  <2>2. ~ (last[u] + ask.value >= last[boundary])
    BY <1>5, <2>1 DEF Since
  <2>3. last[u] \in Nat /\ last[boundary] \in Nat
    BY <1>0, <1>6 DEF ContextTyped
  <2> QED BY <1>4, <2>2, <2>3
<1> QED
  BY <1>5, <1>7 DEF ContextInv, AtOnce, Earlier

-----------------------------------------------------------------------------
(* NothingPassedOver.                                                      *)

\* Whatever the captions and the requests: one since the previous turn leaves out only
\* what the request before it was given to choose from, or what arrived late.
THEOREM NothingIsPassedOver == ContextSpec => NothingPassedOver
<1>1. ContextInv /\ [ContextNext]_contextVars =>
        [(requested' > requested /\ runs'[Len(runs')].ask.strategy = "since_previous_turn") =>
            \A u \in shown \ Eligible(runs'[Len(runs')].ask) :
                \/ <<u, revision[u]>> \in origin
                \/ u \in late
                \/ <<boundary, revision[boundary]>> \notin origin]_contextVars
  BY PassedOver
<1>2. ContextInv /\ [ContextNext]_contextVars => ContextInv'
  BY ContextStep
<1> QED
  BY ContextStart, <1>1, <1>2, PTL DEF ContextSpec, NothingPassedOver

-----------------------------------------------------------------------------
(* FrozenAsMeant.                                                          *)

\* The order of the utterances is made by inserting one after another.
LEMMA OrderIs ==
    ASSUME ContextTyped
    PROVE  \E f : /\ f[0] = <<>> /\ Order = f[MaxUtterances]
                  /\ \A n \in 1..MaxUtterances : f[n] = Inserted(f[n - 1], n)
                  /\ \A n \in 0..MaxUtterances : f[n] \in Seq(Utterances)
<1> DEFINE D == Seq(Utterances)
           N == MaxUtterances
<1>0. N \in Nat /\ Utterances = 1..N
  BY ContextAssumption DEF ContextAssumption, Utterances
<1>1. \A l \in D, n \in 1..N : Inserted(l, n) \in D
  <2> SUFFICES ASSUME NEW l \in D, NEW n \in 1..N PROVE Inserted(l, n) \in D
    OBVIOUS
  <2>1. PICK after : after = {u \in Utterances : first[u] > first[n]}
    OBVIOUS
  <2>2. Kept(l, Utterances \ after) \in D /\ Kept(l, after) \in D
    BY KeptFacts
  <2>3. <<n>> \in D
    BY <1>0
  <2>4. Kept(l, Utterances \ after) \o <<n>> \in D
    BY <2>2, <2>3, ConcatProperties
  <2>5. (Kept(l, Utterances \ after) \o <<n>>) \o Kept(l, after) \in D
    BY <2>2, <2>4, ConcatProperties
  <2> QED BY <2>1, <2>5 DEF Inserted
<1>2. PICK step : step = [x \in D \X (1..N) |-> Inserted(x[1], x[2])]
  OBVIOUS
<1>3. step \in [D \X (1..N) -> D] /\ \A l \in D, n \in 1..N : step[<<l, n>>] = Inserted(l, n)
  BY <1>1, <1>2
<1>4. <<>> \in D
  BY EmptySeq
<1> HIDE DEF D, N
<1>5. PICK g : Chain(g, <<>>, step, N)
  BY <1>0, <1>3, <1>4, Recursion
<1>6. /\ g[0] = <<>>
      /\ \A i \in 1..N : g[i] = step[<<g[i - 1], i>>]
      /\ \A i \in 0..N : g[i] \in D
  BY <1>0, <1>3, <1>4, <1>5, RecursionTyped
<1> DEFINE Put(f) == f = [n \in 0..MaxUtterances |-> IF n = 0 THEN <<>> ELSE Inserted(f[n - 1], n)]
           F == CHOOSE f : Put(f)
<1>7. g = [n \in 0..N |-> g[n]]
  BY <1>5 DEF Chain
<1>8. Put(g)
  <2>1. \A n \in 0..N : g[n] = IF n = 0 THEN <<>> ELSE Inserted(g[n - 1], n)
    <3> TAKE n \in 0..N
    <3>1. CASE n = 0
      BY <1>6, <3>1
    <3>2. CASE n # 0
      <4>1. n \in 1..N /\ n - 1 \in 0..N
        BY <1>0, <3>2
      <4> QED BY <1>3, <1>6, <3>2, <4>1
    <3> QED BY <3>1, <3>2
  <2> QED BY <1>7, <2>1 DEF N
<1>9. Put(F)
  BY <1>8
<1>10. Order = F[MaxUtterances]
  BY DEF Order
<1>11. \A n \in 0..N : F[n] = IF n = 0 THEN <<>> ELSE Inserted(F[n - 1], n)
  BY <1>9 DEF N
<1> HIDE DEF F, Put
<1> DEFINE G == {n \in 0..N : F[n] \in D}
<1>12. 0 \in G
  BY <1>0, <1>4, <1>11
<1>13. ASSUME NEW n \in 0..N, n < N, n \in G PROVE n + 1 \in G
  <2>1. n + 1 \in 0..N /\ n + 1 # 0 /\ (n + 1) - 1 = n /\ n + 1 \in 1..N
    BY <1>0, <1>13
  <2>2. F[n + 1] = Inserted(F[n], n + 1)
    BY <1>11, <2>1
  <2> QED BY <1>1, <1>13, <2>1, <2>2 DEF D, N
<1>14. \A n \in 0..N : n \in G
  <2> HIDE DEF G
  <2> QED BY <1>0, <1>12, <1>13, UpTo
<1>15. F[0] = <<>> /\ \A n \in 1..N : F[n] = Inserted(F[n - 1], n)
  <2>1. 0 \in 0..N
    BY <1>0
  <2>2. ASSUME NEW n \in 1..N PROVE F[n] = Inserted(F[n - 1], n)
    <3>1. n \in 0..N /\ n # 0
      OBVIOUS
    <3> QED BY <1>11, <3>1
  <2> QED BY <1>11, <2>1, <2>2
<1> QED BY <1>10, <1>14, <1>15 DEF D, N

LEMMA OrderTyped ==
    ASSUME ContextTyped
    PROVE  Order \in Seq(Utterances)
<1>1. MaxUtterances \in Nat
  BY ContextAssumption DEF ContextAssumption
<1> QED BY <1>1, OrderIs

\* first_observed_at, then the order of arrival.
Precedence == {p \in Utterances \X Utterances :
                 first[p[1]] < first[p[2]] \/ (first[p[1]] = first[p[2]] /\ p[1] < p[2])}
Sorted == Follows(Order, Precedence) /\ Items(Order) = Utterances

LEMMA InsertedSorts ==
    ASSUME ContextTyped, NEW n \in Utterances, NEW l \in Seq(Utterances),
           Follows(l, Precedence), Items(l) = 1..(n - 1)
    PROVE  Follows(Inserted(l, n), Precedence) /\ Items(Inserted(l, n)) = 1..n
<1>0. n \in Nat \ {0} /\ \A u \in 1..n : u \in Utterances /\ first[u] \in Nat
  <2>1. MaxUtterances \in Nat /\ Utterances = 1..MaxUtterances
    BY ContextAssumption DEF ContextAssumption, Utterances
  <2>2. \A u \in 1..n : u \in Utterances
    BY <2>1
  <2>3. first \in [Utterances -> Nat]
    BY DEF ContextTyped
  <2> QED BY <2>1, <2>2, <2>3
<1>1. PICK R : R = Precedence
  OBVIOUS
<1>2. PICK after : after = {u \in Utterances : first[u] > first[n]}
  OBVIOUS
<1>3. PICK a, b : a = Kept(l, Utterances \ after) /\ b = Kept(l, after)
  OBVIOUS
<1>4. /\ a \in Seq(Utterances) /\ b \in Seq(Utterances)
      /\ Items(a) = (1..(n - 1)) \cap (Utterances \ after) /\ Items(b) = (1..(n - 1)) \cap after
      /\ Follows(a, R) /\ Follows(b, R)
  BY <1>1, <1>3, KeptFacts, KeptItems, KeptFollows
<1>5. PICK c : c = <<n>>
  OBVIOUS
<1>6. c \in Seq(Utterances) /\ Items(c) = {n} /\ Follows(c, R)
  BY <1>5 DEF Items, Follows
<1>7. \A x \in Items(a) : <<x, n>> \in R
  BY <1>0, <1>1, <1>2, <1>4 DEF Precedence
<1>8. a \o c \in Seq(Utterances) /\ Items(a \o c) = Items(a) \cup {n} /\ Follows(a \o c, R)
  BY <1>4, <1>6, <1>7, FollowsConcat
<1>9. \A x \in Items(a) \cup {n}, y \in Items(b) : <<x, y>> \in R
  BY <1>0, <1>1, <1>2, <1>4 DEF Precedence
<1>10. PICK d : d = a \o c
  OBVIOUS
<1>11. Follows(d \o b, R) /\ Items(d \o b) = Items(a) \cup {n} \cup Items(b)
  <2>1. d \in Seq(Utterances) /\ Items(d) = Items(a) \cup {n} /\ Follows(d, R)
    BY <1>8, <1>10
  <2>2. \A x \in Items(d), y \in Items(b) : <<x, y>> \in R
    BY <1>9, <2>1
  <2>3. b \in Seq(Utterances) /\ Follows(b, R)
    BY <1>4
  <2> QED BY <2>1, <2>2, <2>3, FollowsConcat
<1>12. Inserted(l, n) = d \o b
  BY <1>2, <1>3, <1>5, <1>10 DEF Inserted
<1>13. Items(a) \cup {n} \cup Items(b) = 1..n
  BY <1>0, <1>4
<1> QED BY <1>1, <1>11, <1>12, <1>13

LEMMA OrderSorts ==
    ASSUME ContextTyped
    PROVE  Sorted
<1>0. MaxUtterances \in Nat /\ Utterances = 1..MaxUtterances
  BY ContextAssumption DEF ContextAssumption, Utterances
<1>1. PICK f : /\ f[0] = <<>> /\ Order = f[MaxUtterances]
               /\ \A n \in 1..MaxUtterances : f[n] = Inserted(f[n - 1], n)
               /\ \A n \in 0..MaxUtterances : f[n] \in Seq(Utterances)
  BY OrderIs
<1> DEFINE G == {n \in 0..MaxUtterances : Follows(f[n], Precedence) /\ Items(f[n]) = 1..n}
<1>2. 0 \in G
  <2>1. Len(f[0]) = 0
    BY <1>1
  <2> QED BY <1>0, <2>1 DEF Follows, Items
<1>3. ASSUME NEW n \in 0..MaxUtterances, n < MaxUtterances, n \in G PROVE n + 1 \in G
  <2>1. n + 1 \in Utterances /\ (n + 1) - 1 = n /\ n + 1 \in 0..MaxUtterances
    BY <1>0, <1>3
  <2>2. f[n + 1] = Inserted(f[n], n + 1)
    BY <1>0, <1>1, <2>1
  <2>3. Follows(Inserted(f[n], n + 1), Precedence) /\ Items(Inserted(f[n], n + 1)) = 1..(n + 1)
    BY <1>1, <1>3, <2>1, InsertedSorts
  <2> QED BY <2>1, <2>2, <2>3
<1> HIDE DEF G
<1>4. \A n \in 0..MaxUtterances : n \in G
  BY <1>0, <1>2, <1>3, UpTo
<1> QED BY <1>0, <1>1, <1>4 DEF G, Sorted

\* The transcript a context is cut from has every utterance once, in the order of the
\* query: a strict order, so none of them twice.
THEOREM TranscriptsAreSorted == ContextSpec => []Sorted
<1>1. ContextInv /\ [ContextNext]_contextVars => ContextInv'
  BY ContextStep
<1>2. ContextInv => Sorted
  BY OrderSorts DEF ContextInv
<1> QED
  BY ContextStart, <1>1, <1>2, PTL DEF ContextSpec

\* What the newest of a list take, one by one.
LEMMA RenderedFacts ==
    ASSUME ContextTyped, NEW s \in Seq(Utterances)
    PROVE  /\ Rendered(s, 0) = 0
           /\ \A n \in 1..Len(s) : Rendered(s, n) = Rendered(s, n - 1) + size[s[Len(s) - n + 1]] + 1
           /\ \A n \in 0..Len(s) : Rendered(s, n) \in Nat
<1> DEFINE N == Len(s)
<1>0. N \in Nat
  OBVIOUS
<1>1. \A n \in 1..N : size[s[N - n + 1]] \in Nat
  <2>1. \A n \in 1..N : s[N - n + 1] \in Utterances
    BY ElementOfSeq
  <2> QED BY <2>1 DEF ContextTyped
<1>15. PICK cost : cost = [n \in 1..N |-> size[s[N - n + 1]]]
  OBVIOUS
<1>16. \A n \in 1..N : cost[n] = size[s[N - n + 1]] /\ cost[n] \in Nat
  BY <1>1, <1>15
<1>2. PICK step : step = [x \in Nat \X (1..N) |-> x[1] + cost[x[2]] + 1]
  OBVIOUS
<1>3. /\ step \in [Nat \X (1..N) -> Nat]
      /\ \A l \in Nat, n \in 1..N : step[<<l, n>>] = l + size[s[N - n + 1]] + 1
  <2> HIDE DEF N
  <2>1. \A x \in Nat \X (1..N) : x[1] + cost[x[2]] + 1 \in Nat
    BY <1>16
  <2>2. \A l \in Nat, n \in 1..N : step[<<l, n>>] = l + cost[n] + 1
    BY <1>2
  <2> QED BY <1>2, <1>16, <2>1, <2>2
<1> HIDE DEF N
<1>4. PICK g : Chain(g, 0, step, N)
  BY <1>0, <1>3, Recursion
<1>5. /\ g[0] = 0
      /\ \A i \in 1..N : g[i] = step[<<g[i - 1], i>>]
      /\ \A i \in 0..N : g[i] \in Nat
  BY <1>0, <1>3, <1>4, RecursionTyped
<1> DEFINE Sum(f) == f = [k \in 0..Len(s) |-> IF k = 0 THEN 0
                                              ELSE f[k - 1] + size[s[Len(s) - k + 1]] + 1]
           F == CHOOSE f : Sum(f)
<1>6. Sum(g)
  <2>1. \A n \in 0..N : g[n] = IF n = 0 THEN 0 ELSE g[n - 1] + size[s[N - n + 1]] + 1
    <3> TAKE n \in 0..N
    <3>1. CASE n = 0
      BY <1>5, <3>1
    <3>2. CASE n # 0
      <4>1. n \in 1..N /\ n - 1 \in 0..N
        BY <1>0, <3>2
      <4> QED BY <1>3, <1>5, <3>2, <4>1
    <3> QED BY <3>1, <3>2
  <2>2. g = [n \in 0..N |-> g[n]]
    BY <1>4 DEF Chain
  <2> QED BY <2>1, <2>2 DEF N
<1>7. Sum(F)
  BY <1>6
<1>8. \A n : Rendered(s, n) = F[n]
  BY DEF Rendered
<1>9. \A n \in 0..N : F[n] = IF n = 0 THEN 0 ELSE F[n - 1] + size[s[N - n + 1]] + 1
  BY <1>7 DEF N
<1> HIDE DEF F, Sum
<1>10. \A n \in 1..N : F[n] = F[n - 1] + size[s[N - n + 1]] + 1
  <2> TAKE n \in 1..N
  <2>1. n \in 0..N /\ n # 0
    OBVIOUS
  <2> QED BY <1>9, <2>1
<1>11. F[0] = 0
  BY <1>0, <1>9
<1> DEFINE G == {n \in 0..N : F[n] \in Nat}
<1>12. 0 \in G
  BY <1>0, <1>11
<1>13. ASSUME NEW n \in 0..N, n < N, n \in G PROVE n + 1 \in G
  <2>1. n + 1 \in 0..N /\ (n + 1) - 1 = n /\ n + 1 \in 1..N
    BY <1>0, <1>13
  <2>2. F[n + 1] = F[n] + size[s[N - (n + 1) + 1]] + 1
    BY <1>10, <2>1
  <2>3. size[s[N - (n + 1) + 1]] \in Nat
    BY <1>1, <2>1 DEF N
  <2> QED BY <1>13, <2>1, <2>2, <2>3
<1>14. \A n \in 0..N : n \in G
  <2> HIDE DEF G
  <2> QED BY <1>0, <1>12, <1>13, UpTo
<1> QED BY <1>8, <1>10, <1>11, <1>14 DEF N

\* The newest of the newest take what they take in the whole list.
LEMMA RenderedNewest ==
    ASSUME ContextTyped, NEW s \in Seq(Utterances), NEW c \in 0..Len(s)
    PROVE  \A n \in 0..c : Joined(Newest(s, c), n) = Joined(s, n) /\ Joined(s, n) \in Nat
<1>1. PICK l : l = Newest(s, c)
  OBVIOUS
<1>2. /\ l \in Seq(Utterances) /\ Len(l) = c /\ c \in Nat /\ Len(s) \in Nat
      /\ \A i \in 1..c : l[i] = s[Len(s) - c + i]
  BY <1>1, NewestFacts
<1>3. /\ Rendered(l, 0) = 0
      /\ \A n \in 1..c : Rendered(l, n) = Rendered(l, n - 1) + size[l[c - n + 1]] + 1
  BY <1>2, RenderedFacts
<1>4. /\ Rendered(s, 0) = 0
      /\ \A n \in 1..Len(s) : Rendered(s, n) = Rendered(s, n - 1) + size[s[Len(s) - n + 1]] + 1
      /\ \A n \in 0..Len(s) : Rendered(s, n) \in Nat
  BY RenderedFacts
<1> DEFINE G == {n \in 0..c : Rendered(l, n) = Rendered(s, n)}
<1>5. 0 \in G
  BY <1>2, <1>3, <1>4
<1>6. ASSUME NEW n \in 0..c, n < c, n \in G PROVE n + 1 \in G
  <2>1. n + 1 \in 1..c /\ n + 1 \in 1..Len(s) /\ (n + 1) - 1 = n /\ n + 1 \in 0..c
    BY <1>2, <1>6
  <2>2. l[c - (n + 1) + 1] = s[Len(s) - (n + 1) + 1]
    <3>1. c - n \in 1..c /\ c - (n + 1) + 1 = c - n
      BY <1>2, <2>1
    <3>2. l[c - n] = s[Len(s) - c + (c - n)]
      BY <1>2, <3>1
    <3>3. Len(s) - c + (c - n) = Len(s) - (n + 1) + 1
      BY <1>2, <2>1
    <3> QED BY <3>1, <3>2, <3>3
  <2>3. /\ Rendered(l, n + 1) = Rendered(l, n) + size[l[c - (n + 1) + 1]] + 1
        /\ Rendered(s, n + 1) = Rendered(s, n) + size[s[Len(s) - (n + 1) + 1]] + 1
    BY <1>3, <1>4, <2>1
  <2>4. Rendered(l, n + 1) = Rendered(s, n + 1)
    BY <1>6, <2>2, <2>3
  <2> QED BY <2>1, <2>4
<1>7. \A n \in 0..c : n \in G
  <2> HIDE DEF G
  <2> QED BY <1>2, <1>5, <1>6, UpTo
<1>8. \A n \in 0..c : Joined(l, n) = Joined(s, n)
  BY <1>7 DEF Joined
<1>9. ASSUME NEW n \in 0..c PROVE Joined(s, n) \in Nat
  <2>1. CASE n = 0
    BY <2>1 DEF Joined
  <2>2. CASE n # 0
    <3>1. n \in 1..Len(s) /\ n - 1 \in 0..Len(s) /\ Len(s) - n + 1 \in 1..Len(s)
      BY <1>2, <2>2
    <3>2. Rendered(s, n) = Rendered(s, n - 1) + size[s[Len(s) - n + 1]] + 1
          /\ Rendered(s, n - 1) \in Nat
      BY <1>4, <3>1
    <3>3. size[s[Len(s) - n + 1]] \in Nat
      <4>1. s[Len(s) - n + 1] \in Utterances
        BY <3>1, ElementOfSeq
      <4> QED BY <4>1 DEF ContextTyped
    <3> QED BY <2>2, <3>2, <3>3 DEF Joined
  <2> QED BY <2>1, <2>2
<1> QED BY <1>1, <1>8, <1>9

\* A list cut twice: to its c newest, then to the n newest of them that fit.  If it was
\* cut short of its M newest because of the cap, one item more would not have fitted.
LEMMA CutTwice ==
    ASSUME ContextTyped, NEW all \in Seq(Utterances), NEW cap \in Nat,
           NEW M \in 0..Len(all), NEW c \in 0..M, NEW n \in 0..c,
           c < M => Rendered(all, c) > cap,
           n < c => Joined(Newest(all, c), n + 1) > cap
    PROVE  /\ Newest(Newest(all, c), n) = Newest(Newest(all, M), n)
           /\ n < M => Joined(Newest(all, M), n + 1) > cap
<1>0. /\ Len(all) \in Nat /\ M \in Nat /\ c \in Nat /\ n \in Nat
      /\ c \in 0..Len(all) /\ n \in 0..M /\ n \in 0..Len(all)
  OBVIOUS
<1>1. Newest(Newest(all, c), n) = Newest(all, n) /\ Newest(Newest(all, M), n) = Newest(all, n)
  BY <1>0, NewestTwice
<1>2. ASSUME n < M PROVE Joined(Newest(all, M), n + 1) > cap
  <2>1. n + 1 \in 0..M /\ Joined(Newest(all, M), n + 1) = Joined(all, n + 1)
    BY <1>0, <1>2, RenderedNewest
  <2>2. CASE n < c
    <3>1. n + 1 \in 0..c /\ Joined(Newest(all, c), n + 1) = Joined(all, n + 1)
      BY <1>0, <2>2, RenderedNewest
    <3> QED BY <2>1, <2>2, <3>1
  <2>3. CASE n = c
    <3>1. n + 1 \in 1..Len(all) /\ (n + 1) - 1 = n /\ Len(all) - (n + 1) + 1 \in 1..Len(all)
      BY <1>0, <1>2
    <3>2. /\ Rendered(all, n + 1) = Rendered(all, n) + size[all[Len(all) - (n + 1) + 1]] + 1
          /\ Rendered(all, n) \in Nat
      BY <1>0, <3>1, RenderedFacts
    <3>3. size[all[Len(all) - (n + 1) + 1]] \in Nat
      <4>1. all[Len(all) - (n + 1) + 1] \in Utterances
        BY <3>1, ElementOfSeq
      <4> QED BY <4>1 DEF ContextTyped
    <3>4. Joined(all, n + 1) = Rendered(all, n + 1) - 1
      BY <1>0 DEF Joined
    <3>5. Rendered(all, n) > cap
      BY <1>2, <2>3
    <3> QED BY <2>1, <3>2, <3>3, <3>4, <3>5
  <2> QED BY <1>0, <2>2, <2>3
<1> QED BY <1>1, <1>2

\* How many of the newest eligible utterances a strategy means.
Wanted(ask) ==
    LET n == Len(Ordered(Eligible(ask)))
    IN  IF ask.strategy = "last_utterances" /\ ask.value < n THEN ask.value ELSE n
Smaller(m, n) == IF m < n THEN m ELSE n

Asks == Actions \cup {FreePrompt}

LEMMA OrderedFacts ==
    ASSUME ContextTyped, NEW S \in SUBSET shown
    PROVE  /\ Ordered(S) \in Seq(Utterances) /\ Len(Ordered(S)) \in Nat
           /\ Items(Ordered(S)) \subseteq S
           /\ \A R : Kept(Ordered(S), R) = Ordered(S \cap R)
<1>1. Order \in Seq(Utterances)
  BY OrderTyped
<1>2. Ordered(S) \in Seq(Utterances) /\ \A R : Kept(Ordered(S), R) = Ordered(S \cap R)
  <2>1. PICK order : order = Order
    OBVIOUS
  <2>2. PICK T : T = S
    OBVIOUS
  <2>3. Kept(order, T) \in Seq(Utterances)
    BY <1>1, <2>1, KeptFacts
  <2>4. ASSUME NEW R PROVE Kept(Kept(order, T), R) = Kept(order, T \cap R)
    BY <1>1, <2>1, KeptFacts
  <2> QED BY <2>1, <2>2, <2>3, <2>4 DEF Ordered
<1>3. Items(Ordered(S)) \subseteq S
  BY <1>1, KeptItems DEF Ordered
<1> QED BY <1>2, <1>3, LenProperties

\* The condition of the query leaves what the strategy means, but for the number.
LEMMA MeantFrom ==
    ASSUME ContextTyped, NEW ask \in Asks
    PROVE  /\ Eligible(ask) \subseteq shown
           /\ Wanted(ask) \in 0..Len(Ordered(Eligible(ask)))
           /\ Meant(ask) = Newest(Ordered(Eligible(ask)), Wanted(ask))
<1>0. ask.value \in Nat
  BY ContextAssumption DEF Asks, ContextAssumption
<1>1. Eligible(ask) \subseteq shown
  BY DEF Eligible, Since
<1>2. /\ Ordered(Eligible(ask)) \in Seq(Utterances) /\ Len(Ordered(Eligible(ask))) \in Nat
      /\ \A R : Kept(Ordered(shown), R) = Ordered(shown \cap R)
  BY <1>1, OrderedFacts
<1>3. Wanted(ask) \in 0..Len(Ordered(Eligible(ask)))
  BY <1>0, <1>2 DEF Wanted
<1>4. ASSUME ask.strategy # "last_utterances", Meant(ask) = Ordered(Eligible(ask))
      PROVE  Meant(ask) = Newest(Ordered(Eligible(ask)), Wanted(ask))
  <2>1. Wanted(ask) = Len(Ordered(Eligible(ask)))
    BY <1>4 DEF Wanted
  <2> QED BY <1>2, <1>3, <1>4, <2>1, NewestFacts
<1>5. CASE ask.strategy = "last_utterances"
  <2>1. PICK F : F = {u \in shown : final[u]}
    OBVIOUS
  <2>2. Eligible(ask) = F /\ shown \cap F = F
    BY <1>5, <2>1 DEF Eligible
  <2>3. Kept(Ordered(shown), F) = Ordered(F)
    BY <1>2, <2>2
  <2>4. Meant(ask) = Newest(Ordered(F), IF Len(Ordered(F)) < ask.value THEN Len(Ordered(F))
                                        ELSE ask.value)
    BY <1>5, <2>1, <2>3 DEF Meant
  <2>5. Wanted(ask) = IF Len(Ordered(F)) < ask.value THEN Len(Ordered(F)) ELSE ask.value
    BY <1>0, <1>2, <1>5, <2>2 DEF Wanted
  <2> QED BY <1>1, <1>3, <2>2, <2>4, <2>5
<1>6. CASE ask.strategy = "last_minutes"
  <2>1. PICK o : o = last[Ordered(shown)[Len(Ordered(shown))]]
    OBVIOUS
  <2>2. PICK F : F = {u \in shown : last[u] + ask.value >= o}
    OBVIOUS
  <2>3. Meant(ask) = Kept(Ordered(shown), F)
    BY <1>6, <2>1, <2>2 DEF Meant
  <2>4. shown \cap F = F
    BY <2>2
  <2>5. Meant(ask) = Ordered(F)
    BY <1>2, <2>3, <2>4
  <2>6. CASE shown # {}
    <3>1. Eligible(ask) = F
      BY <1>6, <2>1, <2>2, <2>6 DEF Eligible, Since
    <3> QED BY <1>1, <1>3, <1>4, <1>6, <2>5, <3>1
  <2>7. CASE shown = {}
    <3>1. Eligible(ask) = F
      BY <1>6, <2>2, <2>7 DEF Eligible
    <3> QED BY <1>1, <1>3, <1>4, <1>6, <2>5, <3>1
  <2> QED BY <2>6, <2>7
<1>7. CASE ask.strategy = "since_previous_turn" /\ boundary \in shown
  <2>1. PICK F : F = {u \in shown : last[u] + ask.value >= last[boundary]}
    OBVIOUS
  <2>2. Meant(ask) = Kept(Ordered(shown), F)
    BY <1>7, <2>1 DEF Meant
  <2>3. Eligible(ask) = F /\ shown \cap F = F
    BY <1>7, <2>1 DEF Eligible, Since
  <2>4. Meant(ask) = Ordered(Eligible(ask))
    BY <1>2, <2>2, <2>3
  <2> QED BY <1>1, <1>3, <1>4, <1>7, <2>4
<1>8. CASE /\ ask.strategy \notin {"last_utterances", "last_minutes"}
           /\ ~ (ask.strategy = "since_previous_turn" /\ boundary \in shown)
  <2>1. Meant(ask) = Ordered(shown) /\ Eligible(ask) = shown
    BY <1>8 DEF Meant, Eligible
  <2> QED BY <1>1, <1>3, <1>4, <1>8, <2>1
<1> QED
  BY <1>1, <1>3, <1>5, <1>6, <1>7, <1>8

\* Applied once more to the k newest of the eligible ones, the strategy takes the number.
LEMMA AgainTakes ==
    ASSUME ContextTyped, NEW ask \in Asks, NEW all, all = Ordered(Eligible(ask)),
           NEW k \in 0..Len(all), k = 0 => Len(all) = 0
    PROVE  Again(ask, Newest(all, k)) = Newest(all, Smaller(k, Wanted(ask)))
<1>0. ask.value \in Nat /\ Eligible(ask) \subseteq shown
  BY ContextAssumption, MeantFrom DEF Asks, ContextAssumption
<1>1. all \in Seq(Utterances) /\ Len(all) \in Nat /\ Items(all) \subseteq Eligible(ask)
  BY <1>0, OrderedFacts
<1>2. PICK s : s = Newest(all, k)
  OBVIOUS
<1>3. /\ s \in Seq(Utterances) /\ Len(s) = k /\ k \in Nat
      /\ \A i \in 1..k : s[i] = all[Len(all) - k + i]
  <2>1. k \in Nat
    BY <1>1
  <2>2. /\ Newest(all, k) \in Seq(Utterances) /\ Len(Newest(all, k)) = k
        /\ \A i \in 1..k : Newest(all, k)[i] = all[Len(all) - k + i]
    BY <1>1, NewestFacts
  <2> QED BY <1>2, <2>1, <2>2
<1>4. Items(s) \subseteq Eligible(ask)
  <2>1. \A i \in 1..k : Len(all) - k + i \in 1..Len(all)
    BY <1>1, <1>3
  <2> QED BY <1>1, <1>3, <2>1 DEF Items
<1>5. ASSUME NEW F, Eligible(ask) \subseteq F PROVE Kept(s, F) = s
  BY <1>3, <1>4, <1>5, KeptFacts
<1>6. CASE ask.strategy = "last_utterances"
  <2>1. PICK F : F = {u \in shown : final[u]}
    OBVIOUS
  <2>2. Eligible(ask) = F
    BY <1>6, <2>1 DEF Eligible
  <2>3. Kept(s, F) = s
    BY <1>5, <2>2
  <2>4. PICK m : m = IF k < ask.value THEN k ELSE ask.value
    OBVIOUS
  <2>5. Again(ask, s) = Newest(s, m)
    BY <1>3, <1>6, <2>1, <2>3, <2>4 DEF Again
  <2>6. m \in 0..k /\ m = Smaller(k, Wanted(ask))
    BY <1>0, <1>1, <1>3, <1>6, <2>4 DEF Smaller, Wanted
  <2> QED BY <1>1, <1>2, <2>5, <2>6, NewestTwice
<1>7. ASSUME ask.strategy # "last_utterances", Again(ask, s) = s
      PROVE  Again(ask, s) = Newest(all, Smaller(k, Wanted(ask)))
  <2>1. Smaller(k, Wanted(ask)) = k
    BY <1>1, <1>3, <1>7 DEF Smaller, Wanted
  <2> QED BY <1>2, <1>7, <2>1
<1>8. CASE ask.strategy = "last_minutes"
  <2>1. CASE s = <<>>
    <3>1. Again(ask, s) = s
      BY <1>8, <2>1 DEF Again
    <3> QED BY <1>2, <1>7, <1>8, <3>1
  <2>2. CASE s # <<>>
    <3>1. PICK F : F = {u \in shown : last[u] + ask.value >= last[s[Len(s)]]}
      OBVIOUS
    <3>2. Again(ask, s) = Kept(s, F)
      BY <1>8, <2>2, <3>1 DEF Again
    <3>3. k > 0 /\ s[Len(s)] = all[Len(all)] /\ all # <<>>
      <4>1. k \in Nat \ {0}
        BY <1>3, <2>2, EmptySeq
      <4>2. s[k] = all[Len(all) - k + k] /\ Len(all) - k + k = Len(all)
        BY <1>1, <1>3, <4>1
      <4> QED BY <1>1, <1>3, <4>1, <4>2, EmptySeq
    <3>4. all[Len(all)] = Ordered(shown)[Len(Ordered(shown))]
      <4>1. PICK order : order = Ordered(shown)
        OBVIOUS
      <4>2. PICK E : E = Eligible(ask)
        OBVIOUS
      <4>3. /\ order \in Seq(Utterances) /\ Len(order) \in Nat /\ Items(order) \subseteq shown
            /\ Kept(order, E) = Ordered(shown \cap E)
        BY <4>1, OrderedFacts
      <4>4. shown \cap E = E /\ all = Kept(order, E)
        <5>1. shown \cap E = E
          BY <1>0, <4>2
        <5> QED BY <4>2, <4>3, <5>1
      <4>5. order # <<>>
        BY <3>3, <4>4, KeptEmpty
      <4>6. Len(order) \in 1..Len(order)
        BY <4>3, <4>5, EmptySeq
      <4>7. order[Len(order)] \in shown /\ order[Len(order)] \in Utterances
        BY <4>3, <4>6, ElementOfSeq DEF Items
      <4>8. last[order[Len(order)]] \in Nat
        BY <4>7 DEF ContextTyped
      <4>9. order[Len(order)] \in E
        BY <1>0, <1>8, <4>1, <4>2, <4>7, <4>8 DEF Eligible, Since
      <4> QED BY <4>1, <4>3, <4>4, <4>5, <4>9, KeptLast
    <3>5. Eligible(ask) \subseteq F
      BY <1>8, <3>1, <3>3, <3>4 DEF Eligible, Since
    <3> QED BY <1>2, <1>5, <1>7, <1>8, <3>2, <3>5
  <2> QED BY <2>1, <2>2
<1>9. CASE ask.strategy = "since_previous_turn" /\ Contains(s, boundary)
  <2>1. PICK F : F = {u \in shown : last[u] + ask.value >= last[boundary]}
    OBVIOUS
  <2>2. Again(ask, s) = Kept(s, F)
    BY <1>9, <2>1 DEF Again
  <2>3. boundary \in shown
    <3>1. boundary \in Items(s)
      BY <1>3, <1>9 DEF Contains, Items
    <3> QED BY <1>0, <1>4, <3>1
  <2>4. Eligible(ask) \subseteq F
    BY <1>9, <2>1, <2>3 DEF Eligible, Since
  <2> QED BY <1>2, <1>5, <1>7, <1>9, <2>2, <2>4
<1>10. CASE /\ ask.strategy \notin {"last_utterances", "last_minutes"}
            /\ ~ (ask.strategy = "since_previous_turn" /\ Contains(s, boundary))
  <2>1. Again(ask, s) = s
    BY <1>10 DEF Again
  <2> QED BY <1>2, <1>7, <1>10, <2>1
<1> QED
  BY <1>2, <1>6, <1>8, <1>9, <1>10

\* A frozen context is the newest part of what its strategy means that fits the cap.
LEMMA FrozenMeant ==
    ASSUME ContextTyped, NEW ask \in Asks
    PROVE  LET context == Frozen(ask).utterances
               n == Len(context)
           IN  /\ n <= Len(Meant(ask)) /\ context = Newest(Meant(ask), n)
               /\ Joined(context, n) <= ask.cap
               /\ n < Len(Meant(ask)) =>
                    Frozen(ask).truncated /\ Joined(Meant(ask), n + 1) > ask.cap
<1>0. ask.value \in Nat /\ ask.cap \in Nat
  BY ContextAssumption DEF Asks, ContextAssumption
<1>1. PICK all : all = Ordered(Eligible(ask))
  OBVIOUS
<1>2. all \in Seq(Utterances) /\ Len(all) \in Nat
  BY <1>1, MeantFrom, OrderedFacts
<1>3. PICK M : M = Wanted(ask)
  OBVIOUS
<1>4. /\ M \in 0..Len(all) /\ Meant(ask) = Newest(all, M)
      /\ ask.strategy # "last_utterances" => M = Len(all)
      /\ ask.strategy = "last_utterances" => M = IF ask.value < Len(all) THEN ask.value ELSE Len(all)
  BY <1>1, <1>3, MeantFrom DEF Wanted
<1>5. PICK over : over = {n \in 1..Len(all) : Rendered(all, n) > ask.cap}
  OBVIOUS
<1>6. PICK ends : ends = over \cup {Len(all)} \cup Limit(ask)
  OBVIOUS
<1>7. PICK k : k = CHOOSE x \in ends : \A y \in ends : x <= y
  OBVIOUS
<1>8. k \in ends /\ \A y \in ends : k <= y
  <2>1. ends \in SUBSET Nat /\ ends # {}
    BY <1>0, <1>2, <1>5, <1>6 DEF Limit
  <2> QED BY <1>7, <2>1, LeastAndLargest
<1>9. /\ Selection(ask).utterances = Newest(all, k)
      /\ Selection(ask).truncated <=> k \in over \cup Limit(ask)
  BY <1>1, <1>5, <1>6, <1>7 DEF Selection, Selected
<1>10. k \in 0..Len(all) /\ (k = 0 => Len(all) = 0)
  BY <1>0, <1>2, <1>5, <1>6, <1>8 DEF Limit
<1>11. PICK c : c = Smaller(k, M)
  OBVIOUS
<1>12. c \in 0..M /\ c \in 0..Len(all) /\ c \in 0..k
  BY <1>2, <1>4, <1>10, <1>11 DEF Smaller
<1>13. c < M => c \in over /\ k = c
  <2> SUFFICES ASSUME c < M PROVE c \in over /\ k = c
    OBVIOUS
  <2>1. c = k /\ k < M /\ M <= Len(all)
    BY <1>2, <1>4, <1>10, <1>11 DEF Smaller
  <2>2. k \notin Limit(ask) /\ k # Len(all)
    BY <1>0, <1>2, <1>4, <2>1 DEF Limit
  <2> QED BY <1>6, <1>8, <2>1, <2>2
<1>14. PICK candidates : candidates = Newest(all, c)
  OBVIOUS
<1>15. /\ Again(ask, Selection(ask).utterances) = candidates
       /\ candidates \in Seq(Utterances) /\ Len(candidates) = c
  BY <1>1, <1>2, <1>3, <1>9, <1>10, <1>11, <1>12, <1>14, AgainTakes, NewestFacts
<1>16. PICK fits : fits = {n \in 0..Len(candidates) : Joined(candidates, n) <= ask.cap}
  OBVIOUS
<1>17. PICK n : n = CHOOSE x \in fits : \A y \in fits : x >= y
  OBVIOUS
<1>18. n \in fits /\ \A y \in fits : n >= y
  <2>1. 0 \in fits
    BY <1>0, <1>12, <1>15, <1>16 DEF Joined
  <2>2. c \in Nat /\ fits \in SUBSET (0..c)
    BY <1>12, <1>15, <1>16
  <2> QED BY <1>17, <2>1, <2>2, LeastAndLargest
<1>19. /\ Frozen(ask).utterances = Newest(candidates, n)
       /\ Frozen(ask).truncated <=> Selection(ask).truncated \/ n < Len(candidates)
  BY <1>15, <1>16, <1>17 DEF Frozen, Trimmed
<1>20. n \in 0..c /\ Joined(candidates, n) <= ask.cap
  BY <1>15, <1>16, <1>18
<1>21. n < c => Joined(Newest(all, c), n + 1) > ask.cap
  <2> SUFFICES ASSUME n < c PROVE Joined(Newest(all, c), n + 1) > ask.cap
    OBVIOUS
  <2>1. n + 1 \in 0..c /\ n + 1 \notin fits
    BY <1>12, <1>18, <1>20
  <2>2. Joined(candidates, n + 1) \in Nat
    BY <1>2, <1>12, <1>14, <2>1, RenderedNewest
  <2> QED BY <1>0, <1>14, <1>15, <1>16, <2>1, <2>2
<1>22. c < M => Rendered(all, c) > ask.cap
  BY <1>5, <1>13
<1>23. /\ Newest(candidates, n) = Newest(Meant(ask), n)
       /\ n < M => Joined(Meant(ask), n + 1) > ask.cap
  BY <1>0, <1>2, <1>4, <1>12, <1>14, <1>20, <1>21, <1>22, CutTwice
<1>24. Len(Meant(ask)) = M
  BY <1>2, <1>4, NewestFacts
<1>25. Len(Newest(candidates, n)) = n
  BY <1>15, <1>20, NewestFacts
<1>26. Joined(Newest(candidates, n), n) = Joined(candidates, n)
  BY <1>15, <1>20, RenderedNewest
<1>27. n < M => Frozen(ask).truncated
  <2>1. CASE n < c
    BY <1>15, <1>19, <2>1
  <2>2. CASE n = c
    BY <1>9, <1>13, <1>19, <2>2
  <2> QED BY <1>12, <1>20, <2>1, <2>2
<1>28. n <= M
  BY <1>4, <1>12, <1>20
<1> QED
  BY <1>19, <1>20, <1>23, <1>24, <1>25, <1>26, <1>27, <1>28

\* A step that queues a request gives it such a context.
LEMMA QueuedAsMeant ==
    ASSUME ContextInv, [ContextNext]_contextVars, requested' > requested
    PROVE  LET run == runs'[Len(runs')]
           IN  \A meant \in {Meant(run.ask)} : NewestThatFits(run, meant)
<1>1. requested' # requested /\ ContextTyped
  BY DEF ContextInv, ContextTyped
<1>2. PICK ask \in Asks : Enqueue(ask)
  BY <1>1 DEF ContextNext, EnqueueAction, EnqueuePrompt, Tick, PartialsRemoved, NewCaption,
              RevisedCaption, Complete, Fail, thread, contextVars, Asks
<1>3. PICK run : /\ runs' = Append(runs, run) /\ run.ask = ask
                 /\ run.context = Frozen(ask).utterances /\ run.truncated = Frozen(ask).truncated
  BY <1>2 DEF Enqueue
<1>4. runs'[Len(runs')] = run
  BY <1>3 DEF ContextInv
<1>5. PICK list : list = Meant(ask)
  OBVIOUS
<1>6. NewestThatFits(run, list)
  BY <1>1, <1>3, <1>5, FrozenMeant DEF NewestThatFits
<1> QED
  BY <1>3, <1>4, <1>5, <1>6

\* Whatever the captions and the cap: a request is queued with the newest part of what its
\* strategy means that fits, though strategy and cap are applied twice over.
THEOREM ContextsFrozenAsMeant == ContextSpec => FrozenAsMeant
<1>1. ContextInv /\ [ContextNext]_contextVars =>
        [requested' > requested =>
            LET run == runs'[Len(runs')]
            IN  \A meant \in {Meant(run.ask)} : NewestThatFits(run, meant)]_contextVars
  BY QueuedAsMeant
<1>2. ContextInv /\ [ContextNext]_contextVars => ContextInv'
  BY ContextStep
<1> QED
  BY ContextStart, <1>1, <1>2, PTL DEF ContextSpec, FrozenAsMeant

-----------------------------------------------------------------------------
(* The live feed of the page (module UiFeed).                              *)

Loading == refresh # None

PageTyped ==
    /\ log \in Seq(Subjects)
    /\ cursor \in 0..LastId
    /\ global \subseteq About({"simple", "complex"}, LastId)
    /\ buffer \in Seq(Nat) /\ ToSet(buffer) \subseteq 1..LastId
    /\ again \in BOOLEAN /\ failures \in Nat
    /\ selected \in Selectable \cup {None}
    /\ refresh \in Refreshes \cup {None}
    /\ Loading =>
        /\ refresh.contents <= LastId /\ refresh.last <= LastId
        /\ refresh.step \in {"arrived", "detailContents", "done"} => refresh.contents <= refresh.last

\* What the page shows while it reads a snapshot, that snapshot holds.
Shown ==
    Loading /\ refresh.step # "contents" => \A i \in global : i <= refresh.contents

\* The frames on their way: perhaps a request to load anew, then consecutive events, the
\* last of them the last one sent.  The page has been given all up to Delivered.
AsksResync == channel # <<>> /\ channel[1] = 0
Delivered == sent - (Len(channel) - IF AsksResync THEN 1 ELSE 0)
Frames ==
    /\ socket \in {"waiting", "closed", "open"}
    /\ sent \in 0..LastId
    /\ channel \in Seq(Nat)
    /\ socket # "open" => channel = <<>>
    /\ Delivered \in Nat
    /\ \A j \in 1..Len(channel) :
         (j = 1 /\ channel[j] = 0) \/ channel[j] = sent - (Len(channel) - j)

LEMMA ToSetAppend ==
    ASSUME NEW T, NEW s \in Seq(T), NEW e \in T
    PROVE  ToSet(Append(s, e)) = ToSet(s) \cup {e}
<1>1. /\ DOMAIN s = 1..Len(s) /\ DOMAIN Append(s, e) = 1..(Len(s) + 1) /\ Len(s) \in Nat
      /\ \A i \in 1..Len(s) : Append(s, e)[i] = s[i]
      /\ Append(s, e)[Len(s) + 1] = e
  BY AppendProperties, LenProperties
<1> QED
  BY <1>1 DEF ToSet

LEMMA ToSetEmpty == ToSet(<<>>) = {} /\ <<>> \in Seq(Nat)
<1>1. DOMAIN <<>> = {}
  OBVIOUS
<1> QED
  BY <1>1, EmptySeq DEF ToSet

\* Events are only added to the log.
LEMMA LogGrows ==
    ASSUME log \in Seq(Subjects), \E subject \in Subjects : Commit(subject)
    PROVE  /\ log' \in Seq(Subjects) /\ LastId \in Nat /\ LastId' = LastId + 1
           /\ \A i \in 1..LastId : log'[i] = log[i]
           /\ UNCHANGED <<pruned, wire, globalView, detailView, missed, bounds>>
BY AppendProperties, LenProperties DEF Commit, LastId

\* The part of the page in a refresh that begins.
LEMMA RefreshStarts ==
    ASSUME PageTyped, StartRefresh
    PROVE  /\ refresh' \in Refreshes /\ refresh' # None
           /\ refresh'.step = "contents" /\ refresh'.contents = 0 /\ refresh'.last = 0
           /\ buffer' \in Seq(Nat) /\ ToSet(buffer') \subseteq ToSet(buffer)
<1>1. refresh' \in Refreshes /\ refresh'.step = "contents"
      /\ refresh'.contents = 0 /\ refresh'.last = 0
  BY DEF StartRefresh, Refreshes
<1>2. refresh' # None
  BY <1>1, FeedAssumption DEF FeedAssumption
<1>3. buffer' \in Seq(Nat) /\ ToSet(buffer') \subseteq ToSet(buffer)
  BY ToSetEmpty DEF StartRefresh, PageTyped
<1> QED
  BY <1>1, <1>2, <1>3

LEMMA FeedStart == FeedInit => PageTyped /\ Shown /\ Frames
<1> SUFFICES ASSUME FeedInit PROVE PageTyped /\ Shown /\ Frames
  OBVIOUS
<1>1. /\ log = <<>> /\ channel = <<>> /\ buffer = <<>> /\ Len(<<>>) = 0 /\ <<>> \in Seq(Subjects)
  BY EmptySeq DEF FeedInit
<1>2. refresh \in Refreshes
  BY DEF FeedInit, Refreshes
<1>3. PageTyped
  <2>1. LastId = 0 /\ ToSet(buffer) = {} /\ buffer \in Seq(Nat) /\ log \in Seq(Subjects)
    BY <1>1, ToSetEmpty DEF LastId
  <2>2. /\ cursor = 0 /\ global = {} /\ again = FALSE /\ failures = 0 /\ selected = None
        /\ refresh.step = "contents" /\ refresh.contents = 0 /\ refresh.last = 0
    BY DEF FeedInit
  <2>3. /\ cursor \in 0..LastId
        /\ again \in BOOLEAN /\ failures \in Nat /\ selected \in Selectable \cup {None}
    <3>1. cursor \in 0..LastId
      BY <2>1, <2>2
    <3>2. again \in BOOLEAN
      BY <2>2
    <3> QED BY <2>2, <3>1, <3>2
  <2>4. /\ refresh.contents <= LastId /\ refresh.last <= LastId
        /\ refresh.contents <= refresh.last
    BY <2>1, <2>2
  <2> QED BY <1>2, <2>1, <2>2, <2>3, <2>4 DEF PageTyped
<1>4. Frames
  BY <1>1, ToSetEmpty DEF FeedInit, Frames, Delivered, AsksResync, LastId
<1> QED
  BY <1>3, <1>4 DEF FeedInit, Shown

-----------------------------------------------------------------------------
(* What the page shows.                                                    *)

LEMMA PageUnchanged ==
    ASSUME PageTyped, Shown, UNCHANGED <<log, globalView>>,
           failures' \in Nat, selected' \in Selectable \cup {None}
    PROVE  PageTyped' /\ Shown'
BY DEF PageTyped, Shown, Loading, LastId, About, globalView

LEMMA CommitOnPage ==
    ASSUME PageTyped, Shown, \E subject \in Subjects : Commit(subject)
    PROVE  PageTyped' /\ Shown'
<1>1. /\ log' \in Seq(Subjects) /\ LastId \in Nat /\ LastId' = LastId + 1
      /\ \A i \in 1..LastId : log'[i] = log[i]
      /\ UNCHANGED <<globalView, bounds>>
  BY LogGrows DEF PageTyped
<1>2. UNCHANGED <<cursor, global, refresh, buffer, again, failures>>
  BY <1>1 DEF globalView, bounds
<1>7. UNCHANGED selected
  BY LogGrows DEF PageTyped, detailView
<1>3. global' \subseteq About({"simple", "complex"}, LastId)'
  BY <1>1, <1>2 DEF PageTyped, About
<1>4. Shown'
  BY <1>2 DEF Shown, Loading
<1>5. 1..LastId \subseteq 1..LastId' /\ 0..LastId \subseteq 0..LastId'
  BY <1>1
<1>6. Loading => refresh.contents \in Nat /\ refresh.last \in Nat
  BY DEF PageTyped, Loading, Refreshes
<1> QED
  BY <1>1, <1>2, <1>3, <1>4, <1>5, <1>6, <1>7 DEF PageTyped, Loading

LEMMA StartOnPage ==
    ASSUME PageTyped, Shown, StartRefresh, UNCHANGED <<log, cursor, global, selected, failures>>,
           again' \in BOOLEAN
    PROVE  PageTyped' /\ Shown'
<1>1. /\ refresh' \in Refreshes /\ refresh'.step = "contents"
      /\ refresh'.contents = 0 /\ refresh'.last = 0
      /\ buffer' \in Seq(Nat) /\ ToSet(buffer') \subseteq ToSet(buffer)
  BY RefreshStarts
<1>2. Shown'
  BY <1>1 DEF Shown
<1>3. LastId' = LastId /\ LastId \in Nat
  BY LenProperties DEF LastId, PageTyped
<1>4. About({"simple", "complex"}, LastId)' = About({"simple", "complex"}, LastId)
  BY <1>3 DEF About
<1> QED
  BY <1>1, <1>2, <1>3, <1>4 DEF PageTyped, Loading

LEMMA ReadOnPage ==
    ASSUME PageTyped, Shown,
           ReadContents \/ ReadLast \/ RequestDetail \/ ReadDetailContents
    PROVE  PageTyped' /\ Shown' /\ refresh' \in Refreshes
<1>1. refresh \in Refreshes /\ refresh # None /\ UNCHANGED <<log, cursor, global, buffer, again, selected, failures>>
  BY DEF PageTyped, ReadContents, ReadLast, RequestDetail, ReadDetailContents, InRefresh,
         Reading, server, bounds, detailView
<1>2. LastId' = LastId /\ LastId \in Nat
  BY <1>1, LenProperties DEF LastId, PageTyped
<1>3. About({"simple", "complex"}, LastId)' = About({"simple", "complex"}, LastId)
  BY <1>1, <1>2 DEF About
<1>4. /\ refresh' \in Refreshes
      /\ refresh'.contents <= LastId /\ refresh'.last <= LastId
      /\ refresh'.step \in {"arrived", "detailContents", "done"}
            => refresh'.contents <= refresh'.last
      /\ Shown'
  <2>0. /\ refresh.contents \in 0..LastId /\ refresh.last \in 0..LastId
        /\ refresh.step \in {"arrived", "detailContents", "done"}
              => refresh.contents <= refresh.last
    BY <1>1, <1>2, FeedAssumption DEF PageTyped, Loading, Refreshes, FeedAssumption
  <2>1. CASE ReadContents
    <3>1. refresh' = [refresh EXCEPT !.step = "last", !.contents = LastId]
      BY <2>1 DEF ReadContents
    <3>2. \A i \in global : i <= LastId
      BY DEF PageTyped, About
    <3>3. /\ refresh' \in Refreshes /\ refresh'.step = "last"
          /\ refresh'.contents = LastId /\ refresh'.last = refresh.last
      BY <1>1, <1>2, <3>1 DEF Refreshes
    <3> QED BY <1>1, <1>2, <2>0, <3>2, <3>3 DEF Shown
  <2>2. CASE ReadLast
    <3>1. refresh' = [refresh EXCEPT !.step = "arrived", !.last = LastId] /\ refresh.step = "last"
          /\ Loading
      BY <2>2 DEF ReadLast, InRefresh, Loading
    <3>2. /\ refresh' \in Refreshes /\ refresh'.step = "arrived"
          /\ refresh'.contents = refresh.contents /\ refresh'.last = LastId
      BY <1>1, <1>2, <3>1 DEF Refreshes
    <3> QED BY <1>1, <1>2, <2>0, <3>1, <3>2 DEF Shown
  <2>3. CASE RequestDetail
    <3>1. /\ refresh' = [refresh EXCEPT !.for = selected,
                            !.step = IF selected = None THEN "done" ELSE "detailContents",
                            !.detailLast = LastId]
          /\ refresh.step = "arrived" /\ Loading
      BY <2>3 DEF RequestDetail, InRefresh, Loading
    <3>2. /\ refresh' \in Refreshes /\ refresh'.step # "contents"
          /\ refresh'.contents = refresh.contents /\ refresh'.last = refresh.last
      BY <1>1, <1>2, <3>1 DEF Refreshes, PageTyped
    <3> QED BY <1>1, <1>2, <2>0, <3>1, <3>2 DEF Shown
  <2>4. CASE ReadDetailContents
    <3>1. /\ refresh' = [refresh EXCEPT !.step = "done", !.detailContents = LastId]
          /\ refresh.step = "detailContents" /\ Loading
      BY <2>4 DEF ReadDetailContents, InRefresh, Loading
    <3>2. /\ refresh' \in Refreshes /\ refresh'.step # "contents"
          /\ refresh'.contents = refresh.contents /\ refresh'.last = refresh.last
      BY <1>1, <1>2, <3>1 DEF Refreshes
    <3> QED BY <1>1, <1>2, <2>0, <3>1, <3>2 DEF Shown
  <2> QED BY <2>1, <2>2, <2>3, <2>4
<1> QED
  BY <1>1, <1>2, <1>3, <1>4 DEF PageTyped, Loading

\* A set of events that are applied to what the page shows.
LEMMA AppliedTyped ==
    ASSUME PageTyped, NEW G, G \subseteq About({"simple", "complex"}, LastId),
           NEW E, E \subseteq 1..LastId
    PROVE  /\ G \subseteq AppliedGlobal(G, E)
           /\ AppliedGlobal(G, E) \subseteq About({"simple", "complex"}, LastId)
           /\ AppliedGlobal(G, E) \subseteq G \cup E
BY DEF AppliedGlobal, About

\* The event at the head of the channel has been committed.
LEMMA HeadEvent ==
    ASSUME PageTyped, Frames, channel # <<>>, Head(channel) # 0
    PROVE  /\ Head(channel) \in 1..LastId
           /\ Head(channel) = Delivered + 1
           /\ Delivered = sent - Len(channel)
           /\ ~AsksResync
<1>1. Len(channel) \in Nat \ {0} /\ Head(channel) = channel[1] /\ LastId \in Nat
  BY EmptySeq, LenProperties DEF Frames, PageTyped, LastId
<1>2. ~AsksResync /\ channel[1] = sent - (Len(channel) - 1)
  BY <1>1 DEF Frames, AsksResync
<1>3. Delivered = sent - Len(channel) /\ Delivered \in Nat /\ sent \in 0..LastId
  BY <1>1, <1>2 DEF Frames, Delivered
<1> QED
  BY <1>1, <1>2, <1>3

LEMMA ReceiveOnPage ==
    ASSUME PageTyped, Shown, Frames, NEW eager \in BOOLEAN, Receive(eager)
    PROVE  PageTyped' /\ Shown'
<1> DEFINE i == Head(channel)
<1>1. /\ i \in 1..LastId /\ UNCHANGED <<log, again, selected, failures>>
      /\ LastId' = LastId /\ LastId \in Nat
      /\ About({"simple", "complex"}, LastId)' = About({"simple", "complex"}, LastId)
  <2>1. i \in 1..LastId
    BY HeadEvent DEF Receive
  <2>2. UNCHANGED <<log, again, selected, failures>>
    BY DEF Receive, server, bounds
  <2>3. LastId' = LastId /\ LastId \in Nat
    BY <2>2, LenProperties DEF LastId, PageTyped
  <2> QED BY <2>1, <2>2, <2>3 DEF About
<1> HIDE DEF i
<1>2. cursor' \in 0..LastId
  BY <1>1 DEF Receive, i, PageTyped, Larger
<1>3. CASE i <= cursor
  <2>1. UNCHANGED <<global, refresh, buffer>>
    BY <1>1, <1>3 DEF Receive, i, PageTyped
  <2> QED BY <1>1, <1>2, <2>1 DEF PageTyped, Shown, Loading
<1>4. CASE i > cursor /\ refresh # None
  <2>1. buffer' = Append(buffer, i) /\ UNCHANGED <<global, refresh>>
    BY <1>1, <1>4 DEF Receive, i, PageTyped
  <2>2. i \in Nat
    BY <1>1
  <2>3. buffer' \in Seq(Nat) /\ ToSet(buffer') = ToSet(buffer) \cup {i}
    BY <2>1, <2>2, ToSetAppend, AppendProperties DEF PageTyped
  <2> QED BY <1>1, <1>2, <2>1, <2>3 DEF PageTyped, Shown, Loading
<1>5. CASE i > cursor /\ refresh = None
  <2>1. /\ global' = AppliedGlobal(global, {i})
        /\ StartRefresh \/ UNCHANGED <<refresh, buffer>>
    BY <1>1, <1>5 DEF Receive, i, PageTyped
  <2>2. global' \subseteq About({"simple", "complex"}, LastId)
    BY <1>1, <2>1, AppliedTyped DEF PageTyped
  <2>3. CASE StartRefresh
    <3>1. /\ refresh' \in Refreshes /\ refresh'.step = "contents"
          /\ refresh'.contents = 0 /\ refresh'.last = 0
          /\ buffer' \in Seq(Nat) /\ ToSet(buffer') \subseteq ToSet(buffer)
      BY <2>3, RefreshStarts
    <3> QED BY <1>1, <1>2, <2>2, <3>1 DEF PageTyped, Shown, Loading
  <2>4. CASE UNCHANGED <<refresh, buffer>>
    BY <1>1, <1>2, <1>5, <2>2, <2>4 DEF PageTyped, Shown, Loading
  <2> QED BY <2>1, <2>3, <2>4
<1> QED
  <2>1. i \in Nat /\ cursor \in Nat
    BY <1>1 DEF PageTyped
  <2> QED BY <1>3, <1>4, <1>5, <2>1

LEMMA RefreshedOnPage ==
    ASSUME PageTyped, Shown, Refreshed
    PROVE  PageTyped' /\ Shown' /\ global \subseteq global'
<1>1. /\ UNCHANGED <<log, selected, failures>>
      /\ refresh' = None /\ buffer' = <<>> /\ cursor' = Larger(cursor, refresh.last)
      /\ again' = (again \/ \E i \in Pending : log[i] = "complex")
      /\ refresh # None /\ refresh.step = "done"
      /\ global' = AppliedGlobal(About({"simple", "complex"}, refresh.contents), Pending)
  BY DEF Refreshed, InRefresh, server, bounds
<1>2. LastId' = LastId /\ LastId \in Nat
  BY <1>1, LenProperties DEF LastId, PageTyped
<1>3. About({"simple", "complex"}, LastId)' = About({"simple", "complex"}, LastId)
  BY <1>1, <1>2 DEF About
<1>4. refresh.contents \in 0..LastId /\ refresh.last \in 0..LastId
  BY <1>1, <1>2 DEF PageTyped, Loading, Refreshes
<1>5. cursor' \in 0..LastId
  BY <1>1, <1>2, <1>4 DEF PageTyped, Larger
<1>6. again' \in BOOLEAN
  BY <1>1
<1>7. Pending \subseteq 1..LastId
  BY DEF Pending, PageTyped
<1>8. About({"simple", "complex"}, refresh.contents) \subseteq About({"simple", "complex"}, LastId)
  BY <1>2, <1>4 DEF About
<1>9. /\ About({"simple", "complex"}, refresh.contents) \subseteq global'
      /\ global' \subseteq About({"simple", "complex"}, LastId)
  BY <1>1, <1>7, <1>8 DEF AppliedGlobal, About
<1>10. global \subseteq About({"simple", "complex"}, refresh.contents)
  BY <1>1, <1>2, <1>4 DEF PageTyped, Shown, Loading, About
<1> QED
  BY <1>1, <1>2, <1>3, <1>5, <1>6, <1>9, <1>10, ToSetEmpty DEF PageTyped, Shown, Loading

LEMMA RefreshFailsOnPage ==
    ASSUME PageTyped, Shown, RefreshFails
    PROVE  PageTyped' /\ Shown' /\ global \subseteq global'
<1>1. /\ UNCHANGED <<log, cursor, selected, again>> /\ failures' \in Nat
      /\ refresh' = None /\ buffer' = <<>>
      /\ global' = AppliedGlobal(global, ToSet(buffer))
  BY DEF RefreshFails, Failing, server, PageTyped
<1>2. LastId' = LastId
  BY <1>1 DEF LastId
<1>3. About({"simple", "complex"}, LastId)' = About({"simple", "complex"}, LastId)
  BY <1>1, <1>2 DEF About
<1>4. global \subseteq global' /\ global' \subseteq About({"simple", "complex"}, LastId)
  BY <1>1 DEF PageTyped, AppliedGlobal, About
<1> QED
  BY <1>1, <1>2, <1>3, <1>4, ToSetEmpty DEF PageTyped, Shown, Loading

-----------------------------------------------------------------------------
(* The frames on their way.                                                *)

LEMMA WireUnchanged ==
    ASSUME PageTyped, PageTyped', Frames, UNCHANGED wire, LastId' >= LastId
    PROVE  Frames'
BY LenProperties DEF Frames, Delivered, AsksResync, wire, PageTyped, LastId

LEMMA Batches ==
    ASSUME PageTyped
    PROVE  \A since \in 0..LastId :
             /\ NextBatch(since) \in Seq(Nat)
             /\ Len(NextBatch(since)) \in 0..(LastId - since)
             /\ \A i \in 1..Len(NextBatch(since)) : NextBatch(since)[i] = since + i
             /\ since < LastId => NextBatch(since) # <<>>
<1>1. LastId \in Nat
  BY LenProperties DEF PageTyped, LastId
<1> SUFFICES ASSUME NEW since \in 0..LastId
             PROVE  /\ NextBatch(since) \in Seq(Nat)
                    /\ Len(NextBatch(since)) \in 0..(LastId - since)
                    /\ \A i \in 1..Len(NextBatch(since)) : NextBatch(since)[i] = since + i
                    /\ since < LastId => NextBatch(since) # <<>>
  OBVIOUS
<1>2. PICK n : n = IF LastId - since < Batch THEN LastId - since ELSE Batch
  OBVIOUS
<1>3. n \in 0..(LastId - since) /\ (since < LastId => n > 0) /\ n \in Nat
  <2>1. Batch \in Nat /\ Batch > 0
    BY FeedAssumption DEF FeedAssumption
  <2> QED BY <1>1, <1>2, <2>1
<1>4. NextBatch(since) = [i \in 1..n |-> since + i]
  BY <1>2 DEF NextBatch
<1>5. NextBatch(since) \in [1..n -> Nat]
  BY <1>1, <1>3, <1>4
<1>6. NextBatch(since) \in Seq(Nat) /\ Len(NextBatch(since)) = n
  BY <1>3, <1>5, SeqDef, LenProperties
<1> QED
  BY <1>3, <1>4, <1>6, EmptySeq

LEMMA ConnectOnWire ==
    ASSUME PageTyped, Frames, Connect
    PROVE  /\ Frames' /\ socket' = "open" /\ UNCHANGED <<log, globalView>>
           /\ AsksResync' \/ Delivered' = cursor
<1>1. LastId \in Nat /\ UNCHANGED <<log, globalView>> /\ LastId' = LastId /\ socket' = "open"
  BY LenProperties DEF Connect, PageTyped, server, LastId
<1>2. CASE Valid(cursor)
  <2>1. cursor \in 0..LastId
    BY DEF PageTyped
  <2>2. channel' = NextBatch(cursor) /\ sent' = cursor + Len(NextBatch(cursor))
    BY <1>2 DEF Connect
  <2>3. /\ channel' \in Seq(Nat) /\ Len(channel') \in 0..(LastId - cursor)
        /\ \A i \in 1..Len(channel') : channel'[i] = cursor + i
        /\ sent' = cursor + Len(channel')
    BY <2>1, <2>2, Batches
  <2>4. sent' \in 0..LastId
    BY <1>1, <2>1, <2>3
  <2>5. ~AsksResync'
    BY <2>1, <2>3, EmptySeq DEF AsksResync
  <2>6. Delivered' = cursor
    BY <1>1, <2>1, <2>3, <2>5 DEF Delivered
  <2>7. \A j \in 1..Len(channel') : channel'[j] = sent' - (Len(channel') - j)
    BY <1>1, <2>1, <2>3
  <2> QED BY <1>1, <2>1, <2>3, <2>4, <2>6, <2>7 DEF Frames
<1>3. CASE ~Valid(cursor)
  <2>1. channel' = <<0>> /\ sent' = LastId
    BY <1>3 DEF Connect
  <2>2. AsksResync' /\ Len(channel') = 1 /\ channel'[1] = 0 /\ channel' \in Seq(Nat)
    BY <2>1 DEF AsksResync
  <2>3. Delivered' = LastId
    BY <1>1, <2>1, <2>2 DEF Delivered
  <2> QED BY <1>1, <2>1, <2>2, <2>3 DEF Frames
<1> QED
  BY <1>1, <1>2, <1>3

LEMMA SendOnWire ==
    ASSUME PageTyped, Frames, SendMore
    PROVE  /\ Frames' /\ UNCHANGED <<log, globalView, socket>>
           /\ AsksResync' <=> AsksResync
           /\ Delivered' = Delivered
<1>1. /\ LastId \in Nat /\ UNCHANGED <<log, globalView, socket>> /\ LastId' = LastId
      /\ socket = "open" /\ sent < LastId
      /\ channel' = channel \o NextBatch(sent) /\ sent' = sent + Len(NextBatch(sent))
  BY LenProperties DEF SendMore, PageTyped, server, LastId
<1>2. PICK b : b = NextBatch(sent)
  OBVIOUS
<1>3. /\ b \in Seq(Nat) /\ Len(b) \in 0..(LastId - sent) /\ sent \in 0..LastId
      /\ \A i \in 1..Len(b) : b[i] = sent + i
  BY <1>2, Batches DEF Frames
<1>4. /\ channel' \in Seq(Nat) /\ Len(channel') = Len(channel) + Len(b) /\ Len(channel) \in Nat
      /\ \A i \in 1..Len(channel') :
            channel'[i] = IF i <= Len(channel) THEN channel[i] ELSE b[i - Len(channel)]
  BY <1>1, <1>2, <1>3, ConcatProperties, LenProperties DEF Frames
<1>5. sent' = sent + Len(b) /\ sent' \in 0..LastId
  BY <1>1, <1>2, <1>3
<1>6. AsksResync' <=> AsksResync
  <2>1. CASE channel = <<>>
    <3>1. Len(channel) = 0
      BY <2>1
    <3>2. channel' # <<>> => channel'[1] = sent + 1
      BY <1>3, <1>4, <3>1, EmptySeq
    <3> QED BY <1>3, <2>1, <3>2 DEF AsksResync
  <2>2. CASE channel # <<>>
    <3>1. Len(channel) \in Nat \ {0}
      BY <2>2, EmptySeq DEF Frames
    <3>2. channel' # <<>> /\ channel'[1] = channel[1]
      BY <1>3, <1>4, <3>1, EmptySeq
    <3> QED BY <2>2, <3>2 DEF AsksResync
  <2> QED BY <2>1, <2>2
<1>7. Delivered' = Delivered
  <2>1. PICK one \in 0..1 : one = IF AsksResync THEN 1 ELSE 0
    OBVIOUS
  <2>2. Delivered = sent - (Len(channel) - one)
    BY <2>1 DEF Delivered
  <2>3. Delivered' = sent' - (Len(channel') - one)
    BY <1>6, <2>1 DEF Delivered
  <2> QED BY <1>3, <1>4, <1>5, <2>2, <2>3
<1>8. ASSUME NEW j \in 1..Len(channel')
      PROVE  (j = 1 /\ channel'[j] = 0) \/ channel'[j] = sent' - (Len(channel') - j)
  <2>1. CASE j <= Len(channel)
    <3>1. j \in 1..Len(channel) /\ channel'[j] = channel[j]
      BY <1>4, <1>8, <2>1
    <3>2. (j = 1 /\ channel[j] = 0) \/ channel[j] = sent - (Len(channel) - j)
      BY <3>1 DEF Frames
    <3> QED BY <1>3, <1>4, <1>5, <3>1, <3>2
  <2>2. CASE ~(j <= Len(channel))
    <3>1. j - Len(channel) \in 1..Len(b) /\ channel'[j] = b[j - Len(channel)]
      BY <1>3, <1>4, <1>8, <2>2
    <3> QED BY <1>3, <1>4, <1>5, <3>1
  <2> QED BY <2>1, <2>2
<1> QED
  BY <1>1, <1>4, <1>5, <1>6, <1>7, <1>8 DEF Frames

\* A frame is taken off the channel.
LEMMA TakeOffWire ==
    ASSUME PageTyped, Frames, channel # <<>>, channel' = Tail(channel),
           UNCHANGED <<log, socket, sent>>
    PROVE  /\ Frames' /\ ~AsksResync'
           /\ Delivered' = IF AsksResync THEN Delivered ELSE Delivered + 1
<1>1. /\ Len(channel) \in Nat \ {0} /\ channel' \in Seq(Nat) /\ Len(channel') = Len(channel) - 1
      /\ \A i \in 1..Len(channel') : channel'[i] = channel[i + 1]
      /\ LastId' = LastId
  BY EmptySeq, HeadTailProperties DEF Frames, LastId
<1>2. \A j \in 1..Len(channel') : channel'[j] = sent' - (Len(channel') - j)
  <2> SUFFICES ASSUME NEW j \in 1..Len(channel')
               PROVE  channel'[j] = sent' - (Len(channel') - j)
    OBVIOUS
  <2>1. j + 1 \in 1..Len(channel) /\ j + 1 # 1 /\ channel'[j] = channel[j + 1]
    BY <1>1
  <2>2. channel[j + 1] = sent - (Len(channel) - (j + 1))
    BY <2>1 DEF Frames
  <2> QED BY <1>1, <2>1, <2>2 DEF Frames
<1>3. sent - Len(channel) \in Nat \/ AsksResync
  BY DEF Frames, Delivered
<1>4. ~AsksResync'
  <2>1. CASE channel' = <<>>
    BY <2>1 DEF AsksResync
  <2>2. CASE channel' # <<>>
    <3>1. Len(channel') \in Nat /\ Len(channel') >= 1
      BY <1>1, <2>2, EmptySeq
    <3>2. channel'[1] = sent - (Len(channel') - 1)
      <4>1. 1 \in 1..Len(channel')
        BY <3>1
      <4>2. channel'[1] = sent' - (Len(channel') - 1)
        BY <1>2, <4>1
      <4> QED BY <4>2
    <3>3. sent - (Len(channel) - 1) \in Nat
      BY <1>1, <1>3 DEF Frames, Delivered
    <3> QED BY <1>1, <3>1, <3>2, <3>3 DEF AsksResync, Frames
  <2> QED BY <2>1, <2>2
<1>5. Delivered' = IF AsksResync THEN Delivered ELSE Delivered + 1
  BY <1>1, <1>4 DEF Delivered, Frames
<1> QED
  BY <1>1, <1>2, <1>4, <1>5 DEF Frames

\* The steps that leave the frames alone, or lose them.
LEMMA LossOnWire ==
    ASSUME PageTyped, PageTyped', Frames, Drop, UNCHANGED log
    PROVE  Frames' /\ socket' # "open"
<1>1. /\ channel' = <<>> /\ UNCHANGED sent /\ socket' \in {"waiting", "closed"}
  BY DEF Drop
<1>2. Len(channel') = 0 /\ channel' \in Seq(Nat) /\ ~AsksResync' /\ LastId' = LastId
  BY <1>1, EmptySeq DEF AsksResync, LastId
<1>3. LastId \in Nat /\ sent \in 0..LastId
  BY LenProperties DEF PageTyped, LastId, Frames
<1>4. Delivered' = sent
  BY <1>1, <1>2, <1>3 DEF Delivered
<1> QED
  BY <1>1, <1>2, <1>3, <1>4 DEF Frames

LEMMA OpenedOnWire ==
    ASSUME PageTyped, Frames, Opened, UNCHANGED <<log, channel>>
    PROVE  /\ Frames' /\ (socket' = "open" => socket = "open")
           /\ Delivered' = Delivered /\ (AsksResync' <=> AsksResync)
<1>1. UNCHANGED <<log, sent, channel>> /\ socket' = IF socket = "waiting" THEN "closed" ELSE socket
  BY DEF Opened
<1>2. /\ AsksResync' <=> AsksResync
      /\ Delivered' = Delivered
      /\ LastId' = LastId
  BY <1>1 DEF Delivered, AsksResync, LastId
<1> QED
  BY <1>1, <1>2 DEF Frames

FeedInv == PageTyped /\ Shown /\ Frames

\* The steps of the feed, by what they do to the page and to the frames.
LEMMA FeedStep ==
    ASSUME FeedInv, [FeedNext]_feedVars
    PROVE  FeedInv' /\ global \subseteq global'
<1> USE DEF FeedInv
<1>0. LastId \in Nat
  BY LenProperties DEF PageTyped, LastId
<1>1. ASSUME \E subject \in Subjects : Commit(subject) PROVE FeedInv' /\ global \subseteq global'
  <2>1. LastId' >= LastId /\ UNCHANGED <<wire, global>>
    BY <1>0, <1>1, LogGrows DEF PageTyped, globalView
  <2> QED BY <1>1, <2>1, CommitOnPage, WireUnchanged
<1>2. ASSUME LoseSocket \/ Restart PROVE FeedInv' /\ global \subseteq global'
  <2>1. Drop /\ UNCHANGED <<log, globalView, selected, failures>>
    BY <1>2 DEF LoseSocket, Restart, Drop, server, detailView
  <2>2. PageTyped' /\ Shown'
    BY <2>1, PageUnchanged DEF PageTyped
  <2> QED BY <2>1, <2>2, LossOnWire DEF globalView
<1>3. ASSUME Connect \/ SendMore PROVE FeedInv' /\ global \subseteq global'
  <2>1. UNCHANGED <<log, globalView, selected, failures>>
    BY <1>3 DEF Connect, SendMore, server, detailView, bounds
  <2>2. PageTyped' /\ Shown'
    BY <2>1, PageUnchanged DEF PageTyped
  <2> QED BY <1>3, <2>1, <2>2, ConnectOnWire, SendOnWire DEF globalView
<1>4. ASSUME Resync PROVE FeedInv' /\ global \subseteq global'
  <2>1. /\ UNCHANGED <<log, socket, sent, cursor, global, again, selected, failures>>
        /\ StartRefresh /\ channel # <<>> /\ channel' = Tail(channel)
    BY <1>4 DEF Resync, server, detailView, bounds
  <2> QED BY <2>1, StartOnPage, TakeOffWire DEF PageTyped
<1>5. ASSUME NEW eager \in BOOLEAN, Receive(eager) PROVE FeedInv' /\ global \subseteq global'
  <2>1. /\ UNCHANGED <<log, socket, sent>> /\ channel # <<>> /\ channel' = Tail(channel)
    BY <1>5 DEF Receive, server
  <2>2. global \subseteq global'
    BY <1>5 DEF Receive, AppliedGlobal
  <2> QED BY <1>5, <2>1, <2>2, ReceiveOnPage, TakeOffWire
<1>6. ASSUME TimerFires \/ UserRefresh PROVE FeedInv' /\ global \subseteq global'
  <2>1. /\ UNCHANGED <<log, wire, cursor, global, selected, failures>> /\ again' \in BOOLEAN
        /\ StartRefresh /\ LastId' = LastId
    BY <1>6 DEF TimerFires, UserRefresh, server, detailView, bounds, PageTyped, LastId
  <2>2. PageTyped' /\ Shown'
    BY <2>1, StartOnPage
  <2> QED BY <1>0, <2>1, <2>2, WireUnchanged
<1>7. ASSUME ReadContents \/ ReadLast \/ RequestDetail \/ ReadDetailContents
      PROVE  FeedInv' /\ global \subseteq global'
  <2>1. UNCHANGED <<log, wire, global>> /\ LastId' = LastId
    BY <1>7 DEF ReadContents, ReadLast, RequestDetail, ReadDetailContents, Reading, server, LastId
  <2> QED BY <1>0, <1>7, <2>1, ReadOnPage, WireUnchanged
<1>8. ASSUME Refreshed \/ RefreshFails PROVE FeedInv' /\ global \subseteq global'
  <2>1. UNCHANGED <<log, channel>> /\ Opened
    BY <1>8 DEF Refreshed, RefreshFails, server
  <2> QED BY <1>8, <2>1, RefreshedOnPage, RefreshFailsOnPage, OpenedOnWire
<1>9. ASSUME \/ \E s \in Selectable \cup {None} : Select(s)
             \/ FetchContents \/ Fetched \/ FetchFails \/ UNCHANGED feedVars
      PROVE  FeedInv' /\ global \subseteq global'
  <2>1. UNCHANGED <<log, wire, globalView>> /\ LastId' = LastId
    BY <1>9 DEF Select, FetchContents, Fetched, FetchFails, FetchOnly, feedVars, server, LastId
  <2>2. selected' \in Selectable \cup {None}
    BY <1>9 DEF Select, FetchContents, Fetched, FetchFails, FetchOnly, feedVars, detailView, PageTyped
  <2>3. failures' \in Nat
    BY <1>9 DEF Select, FetchContents, Fetched, FetchFails, Failing, feedVars, bounds, PageTyped
  <2>4. PageTyped' /\ Shown'
    BY <2>1, <2>2, <2>3, PageUnchanged
  <2> QED BY <1>0, <2>1, <2>4, WireUnchanged DEF globalView
<1> QED
  BY <1>1, <1>2, <1>3, <1>4, <1>5, <1>6, <1>7, <1>8, <1>9 DEF FeedNext, Page

-----------------------------------------------------------------------------
(* NothingElseMissed.                                                      *)

\* Nothing lies between what the page has been given and what it will receive, as long as
\* no request has failed.
ToRead == Loading /\ refresh.step \in {"contents", "last"}
Ahead == IF Loading /\ refresh.last > cursor THEN refresh.last ELSE cursor
Reached == socket = "open" => AsksResync \/ ToRead \/ Delivered <= Ahead
Held == Loading /\ ~ToRead => (refresh.last + 1)..cursor \subseteq ToSet(buffer)
Followed(i) == log[i] \in Selectable \/ i \in global \cup missed
AllShown == ~Loading /\ ~again => \A i \in 1..cursor : Followed(i)
NoGap == Reached /\ Held /\ AllShown

LEMMA NoGapStart == FeedInit => NoGap
BY DEF FeedInit, NoGap, Reached, Held, AllShown, ToRead, Loading, Followed

\* The cursor and what the page shows stay as they are.
LEMMA PageSameGap ==
    ASSUME FeedInv, Held, AllShown, UNCHANGED <<globalView, missed>>,
           \A i \in 1..LastId : log'[i] = log[i]
    PROVE  /\ Held' /\ AllShown'
           /\ Ahead' = Ahead /\ (ToRead' <=> ToRead)
<1>1. UNCHANGED <<cursor, global, refresh, buffer, again, missed>>
  BY DEF globalView
<1>2. \A i \in 1..cursor : log'[i] = log[i]
  BY LenProperties DEF FeedInv, PageTyped, LastId
<1> QED
  BY <1>1, <1>2 DEF Held, AllShown, Followed, Ahead, ToRead, Loading

\* A refresh begins.
LEMMA StartGap ==
    ASSUME FeedInv, StartRefresh
    PROVE  NoGap'
<1>1. ToRead' /\ Loading'
  BY RefreshStarts DEF ToRead, Loading, FeedInv
<1> QED
  BY <1>1 DEF NoGap, Reached, Held, AllShown

LEMMA ReadGap ==
    ASSUME FeedInv, NoGap, ReadContents \/ ReadLast \/ RequestDetail \/ ReadDetailContents
    PROVE  NoGap'
<1>1. /\ UNCHANGED <<socket, sent, channel, cursor, buffer>>
      /\ refresh \in Refreshes /\ Loading
      /\ AsksResync' <=> AsksResync
      /\ Delivered' = Delivered
  BY DEF ReadContents, ReadLast, RequestDetail, ReadDetailContents, InRefresh, Reading, wire,
         FeedInv, PageTyped, Loading, AsksResync, Delivered
<1>2. /\ LastId \in Nat /\ cursor \in 0..LastId /\ Delivered \in Int /\ Delivered <= sent
      /\ sent \in 0..LastId
  BY EmptySeq, LenProperties DEF FeedInv, PageTyped, Frames, Delivered, LastId, AsksResync
<1>3. refresh' \in Refreshes /\ refresh' # None
  BY ReadOnPage, FeedAssumption DEF FeedInv, FeedAssumption
<1>4. CASE ReadContents
  <2>1. refresh'.step = "last"
    BY <1>1, <1>4 DEF ReadContents, Refreshes
  <2>2. ToRead' /\ Loading'
    BY <1>3, <2>1 DEF ToRead, Loading
  <2> QED BY <2>2 DEF NoGap, Reached, Held, AllShown
<1>5. CASE ReadLast
  <2>1. refresh'.last = LastId
    BY <1>1, <1>5 DEF ReadLast, Refreshes
  <2>2. Loading'
    BY <1>3 DEF Loading
  <2>3. Delivered' <= Ahead'
    BY <1>1, <1>2, <2>1, <2>2 DEF Ahead
  <2>4. (refresh'.last + 1)..cursor' = {}
    BY <1>1, <1>2, <2>1
  <2> QED BY <2>2, <2>3, <2>4 DEF NoGap, Reached, Held, AllShown
<1>6. CASE RequestDetail \/ ReadDetailContents
  <2>1. /\ refresh'.last = refresh.last
        /\ refresh.step \notin {"contents", "last"}
    BY <1>1, <1>6 DEF RequestDetail, ReadDetailContents, InRefresh, Refreshes
  <2>2. Loading' /\ ~ToRead
    BY <1>3, <2>1 DEF Loading, ToRead
  <2>3. Ahead' = Ahead
    BY <1>1, <2>1, <2>2 DEF Ahead
  <2> QED BY <1>1, <2>1, <2>2, <2>3 DEF NoGap, Reached, Held, AllShown
<1> QED
  BY <1>4, <1>5, <1>6

LEMMA ReceiveGap ==
    ASSUME FeedInv, NoGap, NEW eager \in BOOLEAN, Receive(eager)
    PROVE  NoGap'
<1> PICK i : i = Head(channel)
  OBVIOUS
<1>1. /\ channel # <<>> /\ i # 0 /\ channel' = Tail(channel)
      /\ UNCHANGED <<log, socket, sent, again>> /\ cursor' = Larger(cursor, i)
  BY DEF Receive, server
<1>2. i \in Nat /\ i = Delivered + 1 /\ ~AsksResync /\ Delivered \in Nat
  BY <1>1, HeadEvent DEF FeedInv, Frames
<1>3. Delivered' = i /\ ~AsksResync'
  BY <1>1, <1>2, TakeOffWire DEF FeedInv
<1>4. cursor \in Nat /\ socket = "open"
  BY <1>1 DEF FeedInv, PageTyped, Frames
<1>5. Loading => refresh.last \in Nat
  BY DEF FeedInv, PageTyped, Loading, Refreshes
<1>6. CASE i <= cursor
  <2>1. UNCHANGED <<global, refresh, buffer, missed, cursor>>
    BY <1>1, <1>2, <1>4, <1>6 DEF Receive, Larger
  <2>2. Ahead' = Ahead /\ (ToRead' <=> ToRead) /\ Ahead >= cursor /\ Ahead \in Nat
    BY <1>4, <1>5, <2>1 DEF Ahead, ToRead, Loading
  <2>3. Delivered' <= Ahead'
    BY <1>2, <1>3, <1>4, <1>6, <2>2
  <2> QED BY <1>1, <2>1, <2>3 DEF NoGap, Reached, Held, AllShown, ToRead, Loading, Followed
<1>7. CASE i > cursor /\ Loading
  <2>1. buffer' = Append(buffer, i) /\ cursor' = i /\ UNCHANGED <<global, refresh>>
    BY <1>1, <1>2, <1>4, <1>7 DEF Receive, Larger, Loading
  <2>2. ToSet(buffer') = ToSet(buffer) \cup {i}
    <3>1. buffer \in Seq(Nat)
      BY DEF FeedInv, PageTyped
    <3> QED BY <1>2, <2>1, <3>1, ToSetAppend
  <2>3. Ahead' >= i
    BY <1>2, <1>5, <1>7, <2>1 DEF Ahead, Loading
  <2>4. Reached' /\ Loading' /\ (ToRead' <=> ToRead)
    BY <1>3, <1>7, <2>1, <2>3 DEF Reached, Loading, ToRead
  <2>5. ASSUME ~ToRead, NEW k \in (refresh.last + 1)..i
        PROVE  k \in ToSet(buffer')
    <3>1. Delivered <= Ahead
      BY <1>2, <1>4, <2>5 DEF NoGap, Reached
    <3>2. CASE k = i
      BY <2>2, <3>2
    <3>3. CASE k # i
      <4>1. k \in (refresh.last + 1)..cursor
        BY <1>2, <1>4, <1>5, <1>7, <2>5, <3>1, <3>3 DEF Ahead
      <4> QED BY <1>7, <2>2, <2>5, <4>1 DEF NoGap, Held
    <3> QED BY <3>2, <3>3
  <2> QED BY <2>1, <2>4, <2>5 DEF NoGap, Held, AllShown
<1>8. CASE i > cursor /\ ~Loading
  <2>1. /\ global' = AppliedGlobal(global, {i}) /\ cursor' = i
        /\ IF log[i] = "complex" /\ eager THEN StartRefresh ELSE UNCHANGED <<refresh, buffer>>
        /\ missed' = IF log[i] = "complex" /\ ~eager THEN missed \cup {i} ELSE missed
    BY <1>1, <1>2, <1>4, <1>8 DEF Receive, Larger, Loading
  <2>2. CASE log[i] = "complex" /\ eager
    BY <2>1, <2>2, StartGap
  <2>3. CASE ~(log[i] = "complex" /\ eager)
    <3>1. ~Loading' /\ ~ToRead
      BY <1>8, <2>1, <2>3 DEF Loading, ToRead
    <3>2. i = cursor + 1
      BY <1>2, <1>4, <1>8, <3>1 DEF NoGap, Reached, Ahead
    <3>3. Reached'
      BY <1>3, <1>2, <2>1, <3>1 DEF Reached, Ahead
    <3>4. Followed(i)'
      <4>1. i \in 1..LastId
        BY <1>1, HeadEvent DEF FeedInv
      <4>2. log[i] \in Subjects
        BY <4>1, ElementOfSeq DEF FeedInv, PageTyped, LastId
      <4> QED BY <1>1, <2>1, <2>3, <4>2 DEF Followed, Subjects, AppliedGlobal
    <3>5. ASSUME ~again', NEW k \in 1..cursor' PROVE Followed(k)'
      <4>1. CASE k = i
        BY <3>4, <4>1
      <4>2. CASE k # i
        <5>1. k \in 1..cursor
          BY <1>2, <1>4, <2>1, <3>2, <3>5, <4>2
        <5> QED BY <1>1, <1>8, <2>1, <3>5, <5>1 DEF NoGap, AllShown, Followed, AppliedGlobal
      <4> QED BY <4>1, <4>2
    <3> QED BY <3>1, <3>3, <3>5 DEF NoGap, Held, AllShown
  <2> QED BY <2>2, <2>3
<1> QED
  BY <1>2, <1>4, <1>6, <1>7, <1>8

LEMMA RefreshedGap ==
    ASSUME FeedInv, NoGap, Refreshed
    PROVE  NoGap'
<1>1. /\ UNCHANGED <<log, channel>> /\ Opened
      /\ refresh' = None /\ cursor' = Larger(cursor, refresh.last)
      /\ again' = (again \/ \E i \in Pending : log[i] = "complex")
      /\ refresh # None /\ refresh.step = "done"
      /\ global' = AppliedGlobal(About({"simple", "complex"}, refresh.contents), Pending)
      /\ missed' = missed \cup (refresh.contents + 1)..refresh.last
  BY DEF Refreshed, InRefresh, server
<1>2. /\ cursor \in Nat /\ refresh.last \in 0..LastId /\ refresh.contents \in 0..LastId
      /\ LastId \in Nat
  BY <1>1, LenProperties DEF FeedInv, PageTyped, Loading, Refreshes, LastId
<1>3. Loading /\ ~ToRead /\ ~Loading' /\ ~ToRead'
  BY <1>1 DEF Loading, ToRead
<1>4. cursor' = Ahead /\ Ahead' = cursor'
  BY <1>1, <1>2, <1>3 DEF Ahead, Larger
<1>5. Reached'
  BY <1>1, <1>3, <1>4, OpenedOnWire DEF NoGap, Reached, FeedInv
<1>6. ASSUME ~again', NEW i \in 1..cursor' PROVE Followed(i)'
  <2>1. i \in 1..LastId
    BY <1>1, <1>2, <1>6 DEF FeedInv, PageTyped, Larger
  <2>2. log[i] \in Subjects
    BY <2>1, ElementOfSeq DEF FeedInv, PageTyped, LastId
  <2>3. CASE i <= refresh.contents
    <3>1. log[i] \in {"simple", "complex"} => i \in global'
      BY <1>1, <1>2, <2>1, <2>3 DEF AppliedGlobal, About
    <3> QED BY <1>1, <2>2, <3>1 DEF Followed, Subjects
  <2>4. CASE i > refresh.contents /\ i <= refresh.last
    <3>1. i \in missed'
      BY <1>1, <1>2, <2>1, <2>4
    <3> QED BY <3>1 DEF Followed
  <2>5. CASE i > refresh.last
    <3>1. i \in (refresh.last + 1)..cursor
      BY <1>1, <1>2, <1>6, <2>5 DEF Larger
    <3>2. i \in Pending
      BY <1>3, <2>5, <3>1 DEF NoGap, Held, Pending
    <3>3. log[i] = "simple" => i \in global'
      BY <1>1, <3>2 DEF AppliedGlobal
    <3>4. log[i] # "complex"
      BY <1>1, <1>6, <3>2
    <3> QED BY <1>1, <2>2, <3>3, <3>4 DEF Followed, Subjects
  <2> QED BY <1>2, <2>1, <2>3, <2>4, <2>5
<1> QED
  BY <1>3, <1>5, <1>6 DEF NoGap, Held, AllShown

LEMMA NoGapStep ==
    ASSUME FeedInv, failures = 0 => NoGap, [FeedNext]_feedVars, failures' = 0
    PROVE  NoGap'
<1>0. /\ failures = 0 \/ RefreshFails \/ FetchFails
      /\ ~RefreshFails /\ ~FetchFails
  <2>1. failures \in Nat
    BY DEF FeedInv, PageTyped
  <2>2. ~RefreshFails /\ ~FetchFails
    BY <2>1 DEF RefreshFails, FetchFails, Failing
  <2>3. failures' = failures
    BY <2>2 DEF FeedNext, Page, feedVars, bounds, Commit, LoseSocket, Restart, Drop, Connect,
                SendMore, Resync, Receive, TimerFires, UserRefresh, ReadContents, ReadLast,
                RequestDetail, ReadDetailContents, Reading, Refreshed, Select, FetchContents,
                Fetched
  <2> QED BY <2>2, <2>3
<1>1. NoGap
  BY <1>0
<1>2. LastId \in Nat /\ FeedInv'
  BY FeedStep, LenProperties DEF FeedInv, PageTyped, LastId
<1>3. CASE \E subject \in Subjects : Commit(subject)
  <2>1. /\ \A i \in 1..LastId : log'[i] = log[i]
        /\ UNCHANGED <<wire, globalView, missed>>
    BY <1>3, LogGrows DEF FeedInv, PageTyped
  <2>2. UNCHANGED <<socket, sent, channel>>
    BY <2>1 DEF wire
  <2>3. (AsksResync' <=> AsksResync) /\ Delivered' = Delivered
    BY <2>2 DEF AsksResync, Delivered
  <2> QED BY <1>1, <2>1, <2>2, <2>3, PageSameGap DEF NoGap, Reached
<1>4. CASE LoseSocket \/ Restart
  <2>1. Drop /\ UNCHANGED <<log, globalView, missed>>
    BY <1>4 DEF LoseSocket, Restart, Drop, server
  <2>2. socket' # "open"
    BY <1>2, <2>1, LossOnWire DEF FeedInv
  <2> QED BY <1>1, <2>1, <2>2, PageSameGap DEF NoGap, Reached
<1>5. CASE Connect
  <2>1. /\ UNCHANGED <<log, globalView, missed>>
        /\ AsksResync' \/ Delivered' = cursor
    BY <1>5, ConnectOnWire DEF FeedInv, Connect
  <2>2. Held' /\ AllShown' /\ Ahead' = Ahead
    BY <1>1, <2>1, PageSameGap DEF NoGap
  <2>3. cursor <= Ahead
    BY DEF Ahead, FeedInv, PageTyped, Loading, Refreshes
  <2> QED BY <2>1, <2>2, <2>3 DEF NoGap, Reached
<1>6. CASE SendMore
  <2>1. /\ UNCHANGED <<log, globalView, missed, socket>>
        /\ AsksResync' <=> AsksResync
        /\ Delivered' = Delivered
    BY <1>6, SendOnWire DEF FeedInv, SendMore
  <2> QED BY <1>1, <2>1, PageSameGap DEF NoGap, Reached
<1>7. CASE Resync \/ TimerFires \/ UserRefresh
  BY <1>7, StartGap DEF Resync, TimerFires, UserRefresh
<1>8. CASE \E eager \in BOOLEAN : Receive(eager)
  BY <1>1, <1>8, ReceiveGap
<1>9. CASE ReadContents \/ ReadLast \/ RequestDetail \/ ReadDetailContents
  BY <1>1, <1>9, ReadGap
<1>10. CASE Refreshed
  BY <1>1, <1>10, RefreshedGap
<1>11. CASE \/ \E s \in Selectable \cup {None} : Select(s)
            \/ FetchContents \/ Fetched \/ UNCHANGED feedVars
  <2>1. UNCHANGED <<log, wire, globalView, missed>>
    BY <1>11 DEF Select, FetchContents, Fetched, FetchOnly, feedVars, server
  <2>2. UNCHANGED <<socket, sent, channel>>
    BY <2>1 DEF wire
  <2>3. (AsksResync' <=> AsksResync) /\ Delivered' = Delivered
    BY <2>2 DEF AsksResync, Delivered
  <2> QED BY <1>1, <2>1, <2>2, <2>3, PageSameGap DEF NoGap, Reached
<1> QED
  BY <1>0, <1>3, <1>4, <1>5, <1>6, <1>7, <1>8, <1>9, <1>10, <1>11 DEF FeedNext, Page

LEMMA GapToMissed ==
    ASSUME FeedInv, failures = 0 => NoGap
    PROVE  NothingElseMissed
<1> SUFFICES ASSUME failures = 0, NEW i \in 1..cursor, ~Loading, ~again
             PROVE  log[i] \in Selectable \/ i \in global \cup missed
  BY DEF NothingElseMissed, Loading
<1> QED
  BY DEF NoGap, AllShown, Followed

\* The feed's own invariant, with what holds as long as no request fails.
LEMMA FeedInvariance == FeedSpec => [](FeedInv /\ (failures = 0 => NoGap))
<1>1. FeedInit => FeedInv /\ (failures = 0 => NoGap)
  BY FeedStart, NoGapStart DEF FeedInv
<1>2. FeedInv /\ (failures = 0 => NoGap) /\ [FeedNext]_feedVars
        => (FeedInv /\ (failures = 0 => NoGap))'
  BY FeedStep, NoGapStep
<1> QED
  BY <1>1, <1>2, PTL DEF FeedSpec

\* However many events, selections, lost sockets and restarts: what the page has passed
\* with its cursor it shows, has in hand or is loading anew.
THEOREM NothingElseIsMissed == FeedSpec => []NothingElseMissed
BY FeedInvariance, GapToMissed, PTL

\* No refresh and no event takes from the page what it has shown - also when requests fail.
THEOREM GlobalGoesForward == FeedSpec => GlobalForward
<1>1. FeedInv /\ [FeedNext]_feedVars => [global \subseteq global']_feedVars
  BY FeedStep
<1> QED
  BY FeedInvariance, <1>1, PTL DEF FeedSpec, GlobalForward

=============================================================================
