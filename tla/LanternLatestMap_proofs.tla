----------------------- MODULE LanternLatestMap_proofs -----------------------
(***************************************************************************)
(* The latest map, for any number of preparations, queries, keys, values   *)
(* and blocks: its stores agree at every version, its versions are         *)
(* permanent, and its queries are exact.                                   *)
(***************************************************************************)
EXTENDS LanternLatestMap, SequenceTheorems, TLAPS

-----------------------------------------------------------------------------
(* Functions *)

\* A mutation gives values to some of the keys.
LEMMA MutationType ==
    ASSUME NEW m \in Mutations
    PROVE  /\ DOMAIN m \subseteq LatestKeys
           /\ \A k \in DOMAIN m : m[k] \in Values \cup {None}
BY DEF Mutations

\* The empty mutation is one.
LEMMA NoMutation == NoFunction \in Mutations /\ DOMAIN NoFunction = {}
<1>1. DOMAIN NoFunction = {}
  BY DEF NoFunction
<1>2. NoFunction \in [{} -> Values \cup {None}]
  BY DEF NoFunction
<1> QED
  BY <1>1, <1>2 DEF Mutations

\* Updating a map gives a map.
LEMMA UpdatedType ==
    ASSUME NEW map \in Contents, NEW m \in Mutations
    PROVE  Updated(map, m) \in Contents
BY MutationType DEF Updated, Contents

\* One function over another.
LEMMA OverIs ==
    ASSUME NEW new, NEW old
    PROVE  /\ DOMAIN Over(new, old) = DOMAIN new \cup DOMAIN old
           /\ \A x \in DOMAIN new : Over(new, old)[x] = new[x]
           /\ \A x \in DOMAIN old \ DOMAIN new : Over(new, old)[x] = old[x]
BY DEF Over

\* It has the type of both.
LEMMA OverType ==
    ASSUME NEW R, NEW new, NEW old,
           new \in [DOMAIN new -> R], old \in [DOMAIN old -> R]
    PROVE  Over(new, old) \in [DOMAIN Over(new, old) -> R]
BY DEF Over

-----------------------------------------------------------------------------
(* Types *)

\* A preparation has read no value count before it has a mutation.
CountsAfterMutation ==
    \A t \in Tasks : pc[t] \in {"idle", "begun", "versioned"} => ordinals[t] = NoFunction

\* A query that has started has a key and a version.
QueriesAsked == \A r \in Readers : at[r] # "idle" => asked[r] \in Queries

Typed == TypeOK /\ CountsAfterMutation /\ QueriesAsked

\* The initial state has its types.
LEMMA TypedInit == Init => Typed
<1> SUFFICES ASSUME Init PROVE Typed
  OBVIOUS
<1>1. Empty \in Contents
  BY DEF Empty, Contents
<1>2. NoFunction \in [{} -> Contents] /\ NoFunction \in [{} -> Entries]
  BY DEF NoFunction
<1> QED
  BY <1>1, <1>2, NoMutation
  DEF Init, Typed, TypeOK, CountsAfterMutation, QueriesAsked, TaskPlaces, ReaderPlaces

\* A preparation that is cleared has its types.
LEMMA ClearedTyped ==
    ASSUME Typed, NEW t \in Tasks, Cleared(t)
    PROVE  /\ pc' \in [Tasks -> TaskPlaces]
           /\ base' \in [Tasks -> Nat]
           /\ mutation' \in [Tasks -> Mutations]
           /\ contents' \in [Tasks -> Contents]
           /\ DOMAIN ordinals' = Tasks
           /\ \A u \in Tasks :
                 /\ ordinals'[u] \in [DOMAIN ordinals'[u] -> Nat]
                 /\ DOMAIN ordinals'[u] \subseteq DOMAIN mutation'[u]
           /\ CountsAfterMutation'
<1>1. Empty \in Contents
  BY DEF Empty, Contents
<1>2. NoFunction \in [DOMAIN NoFunction -> Nat]
  BY DEF NoFunction
<1>3. /\ pc' \in [Tasks -> TaskPlaces]
      /\ base' \in [Tasks -> Nat]
      /\ mutation' \in [Tasks -> Mutations]
      /\ contents' \in [Tasks -> Contents]
      /\ DOMAIN ordinals' = Tasks
  BY <1>1, NoMutation DEF Cleared, Goto, Typed, TypeOK, TaskPlaces
<1>4. ASSUME NEW u \in Tasks
      PROVE  /\ ordinals'[u] \in [DOMAIN ordinals'[u] -> Nat]
             /\ DOMAIN ordinals'[u] \subseteq DOMAIN mutation'[u]
             /\ pc'[u] \in {"idle", "begun", "versioned"} => ordinals'[u] = NoFunction
  <2>1. CASE u = t
    <3>1. ordinals'[u] = NoFunction /\ mutation'[u] = NoFunction
      BY <2>1 DEF Cleared, Typed, TypeOK, CountsAfterMutation
    <3> QED
      BY <3>1, <1>2
  <2>2. CASE u # t
    <3>1. ordinals'[u] = ordinals[u] /\ mutation'[u] = mutation[u] /\ pc'[u] = pc[u]
      BY <2>2 DEF Cleared, Goto, Typed, TypeOK
    <3> QED
      BY <3>1 DEF Typed, TypeOK, CountsAfterMutation
  <2> QED
    BY <2>1, <2>2
<1> QED
  BY <1>3, <1>4 DEF CountsAfterMutation

\* Steps of a preparation before its commit keep the types.
LEMMA UpdateTyped ==
    ASSUME Typed, NEW t \in Tasks, Update(t), ~Commit(t)
    PROVE  Typed'
<1>a. Empty \in Contents
  BY DEF Empty, Contents
<1> USE DEF Typed, CountsAfterMutation, QueriesAsked
<1>1. CASE Begin(t)
  BY <1>1 DEF Begin, Goto, TypeOK, TaskPlaces, store, reader, search
<1>2. CASE ReadLatestVersion(t)
  BY <1>2 DEF ReadLatestVersion, Goto, TypeOK, TaskPlaces, store, reader, search
<1>3. ASSUME NEW m \in Mutations, PutValueSet(t, m) PROVE Typed'
  <2>1. PreviousNodes(t) \in Contents
    BY <1>a, <1>3 DEF PutValueSet, PreviousNodes, TypeOK
  <2>2. contents' \in [Tasks -> Contents]
    BY <1>3, <2>1, UpdatedType DEF PutValueSet, TypeOK
  <2>3. ordinals[t] = NoFunction /\ ordinals' = ordinals
    BY <1>3 DEF PutValueSet
  <2> QED
    BY <1>3, <2>2, <2>3, NoMutation DEF PutValueSet, Goto, TypeOK, TaskPlaces, store, reader, search
<1>4. ASSUME NEW k \in LatestKeys, ReadValueCount(t, k) PROVE Typed'
  <2> DEFINE new == Over([x \in {k} |-> counts[k]], ordinals[t])
  <2>1. \/ pc' = pc /\ ordinals' = [ordinals EXCEPT ![t] = new]
        \/ pc' = [pc EXCEPT ![t] = "corrupt"] /\ ordinals' = ordinals
    BY <1>4 DEF ReadValueCount, Goto, TypeOK
  <2>2. DOMAIN new = {k} \cup DOMAIN ordinals[t] /\ new \in [DOMAIN new -> Nat]
    BY DEF Over, TypeOK
  <2>3. pc[t] = "building" /\ k \in DOMAIN mutation[t] /\ mutation' = mutation
    BY <1>4 DEF ReadValueCount
  <2> HIDE DEF new
  <2>6. DOMAIN ordinals' = Tasks
    BY <2>1 DEF TypeOK
  <2>4. \A u \in Tasks : /\ ordinals'[u] \in [DOMAIN ordinals'[u] -> Nat]
                         /\ DOMAIN ordinals'[u] \subseteq DOMAIN mutation'[u]
    BY <2>1, <2>2, <2>3 DEF TypeOK
  <2>5. pc' \in [Tasks -> TaskPlaces]
        /\ \A u \in Tasks : pc'[u] \in {"idle", "begun", "versioned"} => ordinals'[u] = NoFunction
    BY <2>1, <2>3 DEF TypeOK, TaskPlaces
  <2> QED
    BY <1>4, <2>4, <2>5, <2>6 DEF ReadValueCount, TypeOK, store, reader, search
<1>5. CASE FinishUpdate(t)
  BY <1>5 DEF FinishUpdate, Goto, TypeOK, TaskPlaces, store, reader, search
<1>6. CASE Abandon(t)
  BY <1>6, ClearedTyped DEF Abandon, TypeOK, store, reader, search
<1> QED
  BY <1>1, <1>2, <1>3, <1>4, <1>5, <1>6 DEF Update

\* The entries of an update are entries of keys it mutates.
LEMMA WritesType ==
    ASSUME Typed, NEW t \in Tasks
    PROVE  /\ DOMAIN ValueWrites(t) = {<<k, ordinals[t][k]>> : k \in DOMAIN ordinals[t]}
           /\ DOMAIN ValueWrites(t) \subseteq LatestKeys \X Nat
           /\ \A k \in DOMAIN ordinals[t] :
                 /\ ValueWrites(t)[<<k, ordinals[t][k]>>].version = base[t]
                 /\ ValueWrites(t)[<<k, ordinals[t][k]>>].value = mutation[t][k]
           /\ ValueWrites(t) \in [DOMAIN ValueWrites(t) -> Entries]
<1>1. /\ DOMAIN ordinals[t] \subseteq DOMAIN mutation[t]
      /\ \A k \in DOMAIN ordinals[t] : ordinals[t][k] \in Nat
      /\ mutation[t] \in Mutations /\ base[t] \in Nat
  BY DEF Typed, TypeOK
<1>2. DOMAIN mutation[t] \subseteq LatestKeys
      /\ \A k \in DOMAIN mutation[t] : mutation[t][k] \in Values \cup {None}
  BY <1>1, MutationType
<1>3. DOMAIN ValueWrites(t) = {<<k, ordinals[t][k]>> : k \in DOMAIN ordinals[t]}
  BY DEF ValueWrites
<1>4. ASSUME NEW k \in DOMAIN ordinals[t]
      PROVE  ValueWrites(t)[<<k, ordinals[t][k]>>] = [version |-> base[t], value |-> mutation[t][k]]
  BY DEF ValueWrites
<1> DEFINE entry(k) == ValueWrites(t)[<<k, ordinals[t][k]>>]
<1> HIDE DEF entry
<1>5. ValueWrites(t) \in [DOMAIN ValueWrites(t) -> Entries]
  <2>1. ASSUME NEW k \in DOMAIN ordinals[t]
        PROVE  ValueWrites(t)[<<k, ordinals[t][k]>>] \in Entries
    <3>1. entry(k) = [version |-> base[t], value |-> mutation[t][k]]
      BY <1>4 DEF entry
    <3>2. entry(k) \in Entries
      BY <1>1, <1>2, <3>1 DEF Entries
    <3> QED
      BY <3>2 DEF entry
  <2>3. \A place \in DOMAIN ValueWrites(t) : ValueWrites(t)[place] \in Entries
    BY <1>3, <2>1
  <2>2. ValueWrites(t) = [place \in DOMAIN ValueWrites(t) |-> ValueWrites(t)[place]]
    BY DEF ValueWrites
  <2> QED
    BY <2>2, <2>3
<1>6. \A k \in DOMAIN ordinals[t] : <<k, ordinals[t][k]>> \in LatestKeys \X Nat
  BY <1>1, <1>2
<1>7. DOMAIN ValueWrites(t) \subseteq LatestKeys \X Nat
  BY <1>3, <1>6
<1>8. ASSUME NEW k \in DOMAIN ordinals[t]
      PROVE  /\ ValueWrites(t)[<<k, ordinals[t][k]>>].version = base[t]
             /\ ValueWrites(t)[<<k, ordinals[t][k]>>].value = mutation[t][k]
  <2>1. entry(k) = [version |-> base[t], value |-> mutation[t][k]]
    BY <1>4 DEF entry
  <2>2. entry(k).version = base[t] /\ entry(k).value = mutation[t][k]
    BY <2>1
  <2> QED
    BY <2>2 DEF entry
<1> QED
  BY <1>3, <1>5, <1>7, <1>8

\* A commit keeps the types.
LEMMA CommitTyped ==
    ASSUME Typed, NEW t \in Tasks, Commit(t)
    PROVE  Typed'
<1>1. contents[t] \in Contents /\ base[t] \in Nat
  BY DEF Typed, TypeOK
<1> DEFINE new == [v \in {base[t]} |-> contents[t]]
<1>2. DOMAIN new = {base[t]} /\ new \in [DOMAIN new -> Contents]
  BY <1>1
<1>3. /\ nodes' = Over(new, nodes) /\ roots' = Over(new, roots)
      /\ entries' = Over(ValueWrites(t), entries)
      /\ latest' = base[t] /\ height' = height + 1
  BY DEF Commit, Written
<1> HIDE DEF new
<1>8. /\ nodes \in [DOMAIN nodes -> Contents] /\ DOMAIN nodes \subseteq Nat
      /\ roots \in [DOMAIN roots -> Contents] /\ DOMAIN roots \subseteq Nat
      /\ entries \in [DOMAIN entries -> Entries] /\ DOMAIN entries \subseteq LatestKeys \X Nat
  BY DEF Typed, TypeOK
<1>4. nodes' \in [DOMAIN nodes' -> Contents] /\ DOMAIN nodes' \subseteq Nat
  <2>1. Over(new, nodes) \in [DOMAIN Over(new, nodes) -> Contents]
    BY <1>2, <1>8, OverType
  <2> QED
    BY <1>1, <1>2, <1>3, <1>8, <2>1, OverIs
<1>5. roots' \in [DOMAIN roots' -> Contents] /\ DOMAIN roots' \subseteq Nat
  <2>1. Over(new, roots) \in [DOMAIN Over(new, roots) -> Contents]
    BY <1>2, <1>8, OverType
  <2> QED
    BY <1>1, <1>2, <1>3, <1>8, <2>1, OverIs
<1>6. entries' \in [DOMAIN entries' -> Entries] /\ DOMAIN entries' \subseteq LatestKeys \X Nat
  <2>1. ValueWrites(t) \in [DOMAIN ValueWrites(t) -> Entries]
        /\ DOMAIN ValueWrites(t) \subseteq LatestKeys \X Nat
    BY WritesType
  <2>2. Over(ValueWrites(t), entries) \in [DOMAIN Over(ValueWrites(t), entries) -> Entries]
    BY <1>8, <2>1, OverType
  <2>3. DOMAIN Over(ValueWrites(t), entries) = DOMAIN ValueWrites(t) \cup DOMAIN entries
    BY OverIs
  <2>4. DOMAIN Over(ValueWrites(t), entries) \subseteq LatestKeys \X Nat
    BY <1>8, <2>1, <2>3, Zenon
  <2> QED
    BY <1>3, <2>2, <2>4, Zenon
<1>7. counts' \in [LatestKeys -> Nat]
  BY DEF Commit, Written, Typed, TypeOK
<1> QED
  BY <1>1, <1>3, <1>4, <1>5, <1>6, <1>7, ClearedTyped
  DEF Commit, Typed, TypeOK, QueriesAsked, reader, search

\* The steps of a query keep the types.
LEMMA QueryTyped ==
    ASSUME Typed, NEW r \in Readers, Query(r)
    PROVE  Typed'
<1>a. Empty \in Contents
  BY DEF Empty, Contents
<1> USE DEF Typed, QueriesAsked, CountsAfterMutation
<1>1. ASSUME NEW k \in LatestKeys, NEW v \in 0..MaxBlocks, RefuseQuery(r, k, v) PROVE Typed'
  BY <1>1 DEF RefuseQuery, TypeOK, vars, store, task, reader, search
<1>2. ASSUME NEW k \in LatestKeys, NEW v \in 0..MaxBlocks, ReadRoot(r, k, v) PROVE Typed'
  <2>1. [key |-> k, version |-> v] \in Queries
    BY <1>2 DEF ReadRoot, TypeOK, Queries
  <2>2. roots[v] \in Contents
    BY <1>2 DEF ReadRoot, TypeOK
  <2> QED
    BY <1>2, <2>1, <2>2 DEF ReadRoot, Move, TypeOK, ReaderPlaces, store, task, search
<1>3. CASE Descend(r)
  <2>1. \/ /\ asked[r].version \in DOMAIN nodes
           /\ proof' = [proof EXCEPT ![r] = nodes[asked[r].version]]
           /\ at' = [at EXCEPT ![r] = "found"] \/ at' = [at EXCEPT ![r] = "leaf"]
        \/ proof' = proof /\ at' = [at EXCEPT ![r] = "failed"]
    BY <1>3 DEF Descend, Move
  <2>2. proof' \in [Readers -> Contents]
    BY <2>1 DEF TypeOK
  <2>3. at' \in [Readers -> ReaderPlaces] /\ at[r] = "rooted"
        /\ \A q \in Readers \ {r} : at'[q] = at[q]
    BY <1>3, <2>1 DEF Descend, TypeOK, ReaderPlaces
  <2> QED
    BY <1>3, <2>2, <2>3 DEF Descend, TypeOK, store, task, search
<1>4. CASE ReadCount(r)
  <2>1. asked[r].key \in LatestKeys
    BY <1>4 DEF ReadCount, Queries
  <2> QED
    BY <1>4, <2>1 DEF ReadCount, Move, TypeOK, ReaderPlaces, store, task
<1>5. CASE Probe(r)
  <2>1. Middle(r) \in Nat
    <3>1. low[r] \in Nat /\ high[r] \in Nat /\ low[r] < high[r]
      BY <1>5 DEF Probe, TypeOK
    <3>2. \A a, b \in Nat : a < b => a + (b - a) \div 2 \in Nat
      OBVIOUS
    <3> QED
      BY <3>1, <3>2 DEF Middle
  <2>2. \/ at' = [at EXCEPT ![r] = "failed"] /\ low' = low /\ high' = high
        \/ at' = at /\ low' = [low EXCEPT ![r] = Middle(r) + 1] /\ high' = high
        \/ at' = at /\ high' = [high EXCEPT ![r] = Middle(r)] /\ low' = low
    BY <1>5 DEF Probe, Move, search
  <2>3. low' \in [Readers -> Nat] /\ high' \in [Readers -> Nat]
    BY <2>1, <2>2 DEF TypeOK
  <2>4. at' \in [Readers -> ReaderPlaces] /\ at[r] = "searching"
        /\ \A q \in Readers \ {r} : at'[q] = at[q]
    BY <1>5, <2>2 DEF Probe, TypeOK, ReaderPlaces
  <2> QED
    BY <1>5, <2>3, <2>4 DEF Probe, TypeOK, store, task
<1>6. CASE ReadValue(r)
  <2>1. \/ /\ EntryAt(r, low[r] - 1) \in DOMAIN entries
           /\ answer' = [answer EXCEPT ![r] = entries[EntryAt(r, low[r] - 1)].value]
           /\ at' = [at EXCEPT ![r] = "found"] \/ at' = [at EXCEPT ![r] = "failed"]
        \/ answer' = answer /\ at' = [at EXCEPT ![r] = "failed"]
    BY <1>6 DEF ReadValue, Move
  <2>2. answer' \in [Readers -> Values \cup {None}]
    BY <2>1 DEF TypeOK, Entries
  <2>3. at' \in [Readers -> ReaderPlaces] /\ at[r] = "searching"
        /\ \A q \in Readers \ {r} : at'[q] = at[q]
    BY <1>6, <2>1 DEF ReadValue, TypeOK, ReaderPlaces
  <2> QED
    BY <1>6, <2>2, <2>3 DEF ReadValue, TypeOK, store, task, search
<1>7. CASE Verify(r)
  BY <1>7 DEF Verify, Move, TypeOK, ReaderPlaces, store, task, search
<1>8. CASE Return(r)
  BY <1>8, <1>a DEF Return, Move, TypeOK, ReaderPlaces, store, task
<1> QED
  BY <1>1, <1>2, <1>3, <1>4, <1>5, <1>6, <1>7, <1>8 DEF Query

\* Every step keeps the types.
LEMMA TypedStep == Typed /\ [Next]_vars => Typed'
<1>1. ASSUME Typed, UNCHANGED vars PROVE Typed'
  BY <1>1
  DEF Typed, TypeOK, CountsAfterMutation, QueriesAsked, vars, store, task, reader, search
<1> QED
  BY <1>1, UpdateTyped, CommitTyped, QueryTyped DEF Next

\* Every stored key and every local variable of preparations and queries keeps
\* its type, whatever is committed beside them.
THEOREM LatestTypeCorrect == Spec => []TypeOK
<1>1. Spec => []Typed
  BY TypedInit, TypedStep, PTL DEF Spec
<1> QED
  BY <1>1, PTL DEF Typed

-----------------------------------------------------------------------------
(* The stores and the preparations *)

Ordinals(k) == 0..(counts[k] - 1)

\* The value history of a key: its ordinals without gaps, its versions in order.
Ordered ==
    \A k \in LatestKeys :
        /\ \A i \in Nat : <<k, i>> \in DOMAIN entries <=> i < counts[k]
        /\ \A i \in Ordinals(k) : entries[<<k, i>>].version < height
        /\ \A i, j \in Ordinals(k) : i < j => entries[<<k, i>>].version < entries[<<k, j>>].version

\* The value history of k shows x at version v: ValueAt without its CHOOSE.
Shows(k, v, x) ==
    \/ x = None /\ \A i \in Ordinals(k) : entries[<<k, i>>].version > v
    \/ \E i \in Ordinals(k) :
          /\ entries[<<k, i>>].version <= v /\ entries[<<k, i>>].value = x
          /\ \A j \in Ordinals(k) : entries[<<k, j>>].version <= v => j <= i

Agreement ==
    /\ DOMAIN roots = 0..(height - 1) /\ DOMAIN nodes = DOMAIN roots
    /\ latest = IF height = 0 THEN None ELSE height - 1
    /\ \A v \in 0..(height - 1) :
          roots[v] = nodes[v] /\ \A k \in LatestKeys : Shows(k, v, nodes[v][k])

\* While the height a preparation recovered is the committed one, what it read
\* is what the store holds.
Fresh ==
    \A t \in Tasks :
        /\ base[t] <= height
        /\ pc[t] \in {"building", "prepared"} /\ base[t] = height =>
              /\ contents[t] = Updated(PreviousNodes(t), mutation[t])
              /\ \A k \in DOMAIN ordinals[t] : ordinals[t][k] = counts[k]
        /\ pc[t] = "prepared" => DOMAIN ordinals[t] = DOMAIN mutation[t]
        /\ pc[t] \in {"refused", "corrupt"} => base[t] < height

\* Every entry below the count has a version.
LEMMA VersionType ==
    ASSUME Typed, Ordered, NEW k \in LatestKeys, NEW i \in Ordinals(k)
    PROVE  i \in Nat /\ i < counts[k] /\ entries[<<k, i>>].version \in Nat
<1>1. counts[k] \in Nat
  BY DEF Typed, TypeOK
<1>2. i \in Nat /\ i < counts[k]
  BY <1>1 DEF Ordinals
<1>3. <<k, i>> \in DOMAIN entries
  BY <1>2 DEF Ordered
<1>4. entries[<<k, i>>] \in Entries
  BY <1>3 DEF Typed, TypeOK
<1> QED
  BY <1>2, <1>4 DEF Entries

\* What a history shows is its value.
LEMMA ShowsValue ==
    ASSUME Typed, Ordered, NEW k \in LatestKeys, NEW v \in Nat, NEW x, Shows(k, v, x)
    PROVE  x = ValueAt(k, v)
<1> DEFINE written == {i \in 0..(counts[k] - 1) : entries[<<k, i>>].version <= v}
<1>0. counts[k] \in Nat
  BY DEF Typed, TypeOK
<1>1. CASE x = None /\ \A i \in Ordinals(k) : entries[<<k, i>>].version > v
  <2>1. ASSUME NEW i \in written PROVE FALSE
    <3>1. i \in Ordinals(k) /\ entries[<<k, i>>].version <= v
      BY DEF Ordinals
    <3>2. entries[<<k, i>>].version > v
      BY <1>1, <3>1
    <3>3. entries[<<k, i>>].version \in Nat
      BY <3>1, VersionType
    <3> QED
      BY <3>1, <3>2, <3>3
  <2> QED
    BY <1>1, <2>1 DEF ValueAt
<1>2. ASSUME NEW i \in Ordinals(k),
             entries[<<k, i>>].version <= v, entries[<<k, i>>].value = x,
             \A j \in Ordinals(k) : entries[<<k, j>>].version <= v => j <= i
      PROVE  x = ValueAt(k, v)
  <2>1. i \in written /\ \A j \in written : j <= i
    BY <1>2 DEF Ordinals
  <2>2. \A l \in written : (\A j \in written : j <= l) => l = i
    BY <2>1, <1>0
  <2>3. (CHOOSE l \in written : \A j \in written : j <= l) = i
    BY <2>1, <2>2
  <2> QED
    BY <1>2, <2>1, <2>3 DEF ValueAt
<1> QED
  BY <1>1, <1>2 DEF Shows

\* What a commit does to the stores.
Grows(t) ==
    /\ base[t] = height /\ height' = height + 1
    /\ DOMAIN nodes' = 0..height /\ DOMAIN roots' = 0..height /\ latest' = height
    /\ nodes'[height] = contents[t] /\ roots'[height] = contents[t]
    /\ \A v \in 0..(height - 1) : nodes'[v] = nodes[v] /\ roots'[v] = roots[v]
    /\ \A k \in LatestKeys : counts'[k] = IF k \in DOMAIN mutation[t] THEN counts[k] + 1 ELSE counts[k]
    /\ \A k \in LatestKeys, i \in Nat : <<k, i>> \in DOMAIN entries' <=> i < counts'[k]
    /\ \A k \in LatestKeys : \A i \in Ordinals(k) : entries'[<<k, i>>] = entries[<<k, i>>]
    /\ \A k \in DOMAIN mutation[t] :
          /\ entries'[<<k, counts[k]>>].version = height
          /\ entries'[<<k, counts[k]>>].value = mutation[t][k]

\* A commit writes at the end: of the versions and of each history it touches.
LEMMA CommitGrows ==
    ASSUME Typed, Ordered, Agreement, Fresh, NEW t \in Tasks, Commit(t)
    PROVE  Grows(t)
<1>1. /\ base[t] = height /\ height \in Nat
      /\ DOMAIN ordinals[t] = DOMAIN mutation[t]
      /\ \A k \in DOMAIN mutation[t] : ordinals[t][k] = counts[k]
  BY DEF Commit, Fresh, Typed, TypeOK
<1>2. DOMAIN mutation[t] \subseteq LatestKeys /\ \A k \in LatestKeys : counts[k] \in Nat
  BY MutationType DEF Typed, TypeOK
<1> DEFINE new == [v \in {base[t]} |-> contents[t]]
<1>3. DOMAIN new = {height} /\ new[height] = contents[t]
  BY <1>1
<1>4. /\ nodes' = Over(new, nodes) /\ roots' = Over(new, roots)
      /\ entries' = Over(ValueWrites(t), entries)
      /\ latest' = base[t] /\ height' = height + 1
      /\ counts' = [k \in LatestKeys |->
                     IF k \in DOMAIN ordinals[t] THEN ordinals[t][k] + 1 ELSE counts[k]]
  BY DEF Commit, Written
<1> HIDE DEF new
<1>5. DOMAIN nodes = 0..(height - 1) /\ DOMAIN roots = 0..(height - 1)
  BY DEF Agreement
<1>15. /\ nodes'[height] = new[height] /\ roots'[height] = new[height]
       /\ \A v \in DOMAIN nodes \ DOMAIN new : nodes'[v] = nodes[v]
       /\ \A v \in DOMAIN roots \ DOMAIN new : roots'[v] = roots[v]
  <2>3. \A v \in DOMAIN new : Over(new, nodes)[v] = new[v] /\ Over(new, roots)[v] = new[v]
    BY OverIs
  <2>1. Over(new, nodes)[height] = new[height] /\ Over(new, roots)[height] = new[height]
    BY <1>3, <2>3
  <2>2. /\ \A v \in DOMAIN nodes \ DOMAIN new : Over(new, nodes)[v] = nodes[v]
        /\ \A v \in DOMAIN roots \ DOMAIN new : Over(new, roots)[v] = roots[v]
    BY OverIs
  <2> QED
    BY <1>4, <2>1, <2>2
<1>16. /\ \A x : x \in DOMAIN entries' <=> x \in DOMAIN ValueWrites(t) \/ x \in DOMAIN entries
       /\ \A x \in DOMAIN entries \ DOMAIN ValueWrites(t) : entries'[x] = entries[x]
       /\ \A x \in DOMAIN ValueWrites(t) : entries'[x] = ValueWrites(t)[x]
  <2> DEFINE result == Over(ValueWrites(t), entries)
  <2>1. /\ DOMAIN result = DOMAIN ValueWrites(t) \cup DOMAIN entries
        /\ \A x \in DOMAIN entries \ DOMAIN ValueWrites(t) : result[x] = entries[x]
        /\ \A x \in DOMAIN ValueWrites(t) : result[x] = ValueWrites(t)[x]
    BY OverIs
  <2>2. entries' = result
    BY <1>4
  <2> HIDE DEF result
  <2> QED
    BY <2>1, <2>2
<1>6. DOMAIN nodes' = 0..height /\ DOMAIN roots' = 0..height
  <2>1. DOMAIN Over(new, nodes) = DOMAIN new \cup DOMAIN nodes
        /\ DOMAIN Over(new, roots) = DOMAIN new \cup DOMAIN roots
    BY OverIs
  <2> QED
    BY <1>1, <1>3, <1>4, <1>5, <2>1
<1>7. nodes'[height] = contents[t] /\ roots'[height] = contents[t]
  BY <1>3, <1>15
<1>8. \A v \in 0..(height - 1) : nodes'[v] = nodes[v] /\ roots'[v] = roots[v]
  BY <1>1, <1>3, <1>5, <1>15
<1>9. \A k \in LatestKeys : counts'[k] = IF k \in DOMAIN mutation[t] THEN counts[k] + 1 ELSE counts[k]
  <2>1. \A k \in LatestKeys : k \in DOMAIN ordinals[t] <=> k \in DOMAIN mutation[t]
    BY <1>1
  <2> QED
    BY <1>1, <1>4, <2>1
<1>10. DOMAIN ValueWrites(t) = {<<k, ordinals[t][k]>> : k \in DOMAIN ordinals[t]}
  BY WritesType
<1>11. ASSUME NEW k \in LatestKeys, NEW i \in Nat
       PROVE  <<k, i>> \in DOMAIN ValueWrites(t) <=> k \in DOMAIN mutation[t] /\ i = counts[k]
  BY <1>1, <1>10
<1>12. ASSUME NEW k \in LatestKeys, NEW i \in Nat
       PROVE  <<k, i>> \in DOMAIN entries' <=> i < counts'[k]
  <2>1. <<k, i>> \in DOMAIN entries' <=>
           <<k, i>> \in DOMAIN ValueWrites(t) \/ <<k, i>> \in DOMAIN entries
    BY <1>16
  <2>2. <<k, i>> \in DOMAIN entries <=> i < counts[k]
    BY DEF Ordered
  <2> QED
    BY <1>2, <1>9, <1>11, <2>1, <2>2
<1>13. ASSUME NEW k \in LatestKeys, NEW i \in Ordinals(k)
       PROVE  entries'[<<k, i>>] = entries[<<k, i>>]
  <2>1. i \in Nat /\ i < counts[k] /\ i # counts[k]
    BY <1>2 DEF Ordinals
  <2>2. <<k, i>> \in DOMAIN entries \ DOMAIN ValueWrites(t)
    BY <1>11, <2>1 DEF Ordered
  <2> QED
    BY <1>16, <2>2
<1>14. ASSUME NEW k \in DOMAIN mutation[t]
       PROVE  /\ entries'[<<k, counts[k]>>].version = height
              /\ entries'[<<k, counts[k]>>].value = mutation[t][k]
  <2>1. <<k, counts[k]>> \in DOMAIN ValueWrites(t)
    BY <1>1, <1>10
  <2>2. entries'[<<k, counts[k]>>] = ValueWrites(t)[<<k, counts[k]>>]
    BY <1>16, <2>1
  <2>3. k \in DOMAIN ordinals[t] /\ ordinals[t][k] = counts[k]
    BY <1>1
  <2>4. ValueWrites(t)[<<k, counts[k]>>].version = base[t]
        /\ ValueWrites(t)[<<k, counts[k]>>].value = mutation[t][k]
    BY <2>3, WritesType
  <2> QED
    BY <1>1, <2>2, <2>4
<1> QED
  BY <1>1, <1>4, <1>6, <1>7, <1>8, <1>9, <1>12, <1>13, <1>14 DEF Grows

\* An ordinal after a commit is an old one with its entry, or the new end.
LEMMA OrdinalAfter ==
    ASSUME Typed, Ordered, NEW t \in Tasks, Grows(t),
           NEW k \in LatestKeys, NEW i \in Ordinals(k)'
    PROVE  \/ /\ i \in Ordinals(k) /\ i < counts[k]
              /\ entries'[<<k, i>>] = entries[<<k, i>>]
              /\ entries[<<k, i>>].version \in 0..(height - 1)
           \/ /\ k \in DOMAIN mutation[t] /\ i = counts[k]
              /\ entries'[<<k, i>>].version = height
              /\ entries'[<<k, i>>].value = mutation[t][k]
<1>1. counts[k] \in Nat /\ counts'[k] = IF k \in DOMAIN mutation[t] THEN counts[k] + 1 ELSE counts[k]
  BY DEF Typed, TypeOK, Grows
<1>2. i \in Nat /\ i < counts'[k]
  BY <1>1 DEF Ordinals
<1>3. CASE i < counts[k]
  <2>1. i \in Ordinals(k)
    BY <1>1, <1>2, <1>3 DEF Ordinals
  <2>2. entries[<<k, i>>].version \in Nat /\ entries[<<k, i>>].version < height
    BY <2>1, VersionType DEF Ordered
  <2> QED
    BY <1>3, <2>1, <2>2 DEF Grows, Typed, TypeOK
<1>4. CASE ~(i < counts[k])
  <2>1. k \in DOMAIN mutation[t] /\ i = counts[k]
    BY <1>1, <1>2, <1>4
  <2> QED
    BY <2>1 DEF Grows
<1> QED
  BY <1>3, <1>4

\* A commit keeps the histories in order.
LEMMA OrderedCommit ==
    ASSUME Typed, Ordered, NEW t \in Tasks, Grows(t)
    PROVE  Ordered'
<1>1. height \in Nat /\ height' = height + 1
  BY DEF Typed, TypeOK, Grows
<1>2. ASSUME NEW k \in LatestKeys, NEW i \in Ordinals(k)'
      PROVE  entries'[<<k, i>>].version < height'
  BY <1>1, <1>2, OrdinalAfter
<1>3. ASSUME NEW k \in LatestKeys, NEW i \in Ordinals(k)', NEW j \in Ordinals(k)', i < j
      PROVE  entries'[<<k, i>>].version < entries'[<<k, j>>].version
  <2>1. counts[k] \in Nat
    BY DEF Typed, TypeOK
  <2>2. i \in Ordinals(k) /\ i < counts[k] /\ entries'[<<k, i>>] = entries[<<k, i>>]
        /\ entries[<<k, i>>].version \in 0..(height - 1)
    <3>1. counts'[k] \in {counts[k], counts[k] + 1}
      BY DEF Grows
    <3>2. i \in Int /\ j \in Int /\ j <= counts[k]
      BY <2>1, <3>1 DEF Ordinals
    <3> QED
      BY <1>3, <2>1, <3>2, OrdinalAfter
  <2>3. CASE j \in Ordinals(k) /\ entries'[<<k, j>>] = entries[<<k, j>>]
    BY <1>3, <2>2, <2>3 DEF Ordered
  <2>4. CASE entries'[<<k, j>>].version = height
    BY <1>1, <2>2, <2>4
  <2> QED
    BY <2>3, <2>4, OrdinalAfter
<1> QED
  BY <1>2, <1>3 DEF Ordered, Grows

\* What a history shows at an old version it shows after a commit.
LEMMA ShowsKept ==
    ASSUME Typed, Ordered, NEW t \in Tasks, Grows(t), NEW k \in LatestKeys,
           NEW v \in 0..(height - 1), NEW x, Shows(k, v, x)
    PROVE  Shows(k, v, x)'
<1>1. height \in Nat /\ v \in Nat /\ v < height
  BY DEF Typed, TypeOK
<1>2. ASSUME NEW i \in Ordinals(k)', entries'[<<k, i>>].version <= v
      PROVE  i \in Ordinals(k) /\ entries[<<k, i>>].version <= v
  BY <1>1, <1>2, OrdinalAfter
<1>3. ASSUME NEW i \in Ordinals(k)
      PROVE  i \in Ordinals(k)' /\ entries'[<<k, i>>] = entries[<<k, i>>]
  <2>1. counts[k] \in Nat
    BY DEF Typed, TypeOK
  <2> QED
    BY <2>1 DEF Grows, Ordinals
<1>4. CASE x = None /\ \A i \in Ordinals(k) : entries[<<k, i>>].version > v
  <2>1. ASSUME NEW i \in Ordinals(k)' PROVE entries'[<<k, i>>].version > v
    <3>1. CASE i \in Ordinals(k) /\ entries'[<<k, i>>] = entries[<<k, i>>]
      BY <1>4, <3>1
    <3>2. CASE entries'[<<k, i>>].version = height
      BY <1>1, <3>2
    <3> QED
      BY <3>1, <3>2, OrdinalAfter
  <2> QED
    BY <1>4, <2>1 DEF Shows
<1>5. ASSUME NEW i \in Ordinals(k),
             entries[<<k, i>>].version <= v, entries[<<k, i>>].value = x,
             \A j \in Ordinals(k) : entries[<<k, j>>].version <= v => j <= i
      PROVE  Shows(k, v, x)'
  <2>1. i \in Ordinals(k)' /\ entries'[<<k, i>>].version <= v /\ entries'[<<k, i>>].value = x
    BY <1>3, <1>5
  <2>2. \A j \in Ordinals(k)' : entries'[<<k, j>>].version <= v => j <= i
    BY <1>2, <1>5
  <2> QED
    BY <2>1, <2>2 DEF Shows
<1> QED
  BY <1>4, <1>5 DEF Shows

\* At the version a commit adds, each history shows the contents committed.
LEMMA ShowsNew ==
    ASSUME Typed, Ordered, Agreement, Fresh, NEW t \in Tasks, Commit(t), Grows(t),
           NEW k \in LatestKeys, NEW v, v = height, NEW x, x = contents[t][k]
    PROVE  Shows(k, v, x)'
<1>1. /\ height \in Nat /\ counts[k] \in Nat
      /\ contents[t] = Updated(PreviousNodes(t), mutation[t]) /\ base[t] = height
  BY DEF Typed, TypeOK, Fresh, Commit
<1>2. CASE k \in DOMAIN mutation[t]
  <2>1. x = mutation[t][k]
    BY <1>1, <1>2 DEF Updated
  <2>2. counts[k] \in Ordinals(k)' /\ \A j \in Ordinals(k)' : j <= counts[k]
    BY <1>1, <1>2 DEF Ordinals, Grows
  <2>3. entries'[<<k, counts[k]>>].version = v /\ entries'[<<k, counts[k]>>].value = x
    BY <1>2, <2>1 DEF Grows
  <2>4. v <= v
    BY <1>1
  <2> QED
    BY <2>2, <2>3, <2>4 DEF Shows
<1>3. CASE k \notin DOMAIN mutation[t]
  <2>1. x = PreviousNodes(t)[k]
    BY <1>1, <1>3 DEF Updated
  <2>2. ASSUME NEW i \in Ordinals(k)'
        PROVE  /\ i \in Ordinals(k) /\ entries'[<<k, i>>] = entries[<<k, i>>]
               /\ entries[<<k, i>>].version \in 0..(height - 1)
    BY <1>3, OrdinalAfter
  <2>3. ASSUME NEW i \in Ordinals(k)
        PROVE  i \in Ordinals(k)' /\ entries'[<<k, i>>] = entries[<<k, i>>]
    BY <1>1, <1>3 DEF Grows, Ordinals
  <2>4. CASE height = 0
    <3>1. x = None /\ \A i \in Ordinals(k)' : FALSE
      BY <1>1, <2>1, <2>2, <2>4 DEF PreviousNodes, Empty
    <3> QED
      BY <3>1 DEF Shows
  <2>5. CASE height > 0
    <3>1. Shows(k, height - 1, x)
      <4>1. x = nodes[height - 1][k]
        BY <1>1, <2>1, <2>5 DEF PreviousNodes
      <4>2. height - 1 \in 0..(height - 1)
        BY <1>1, <2>5
      <4> QED
        BY <4>1, <4>2 DEF Agreement
    <3>2. CASE x = None /\ \A i \in Ordinals(k) : entries[<<k, i>>].version > height - 1
      <4>1. ASSUME NEW i \in Ordinals(k)' PROVE FALSE
        <5>1. i \in Ordinals(k) /\ entries[<<k, i>>].version \in 0..(height - 1)
          BY <2>2
        <5>2. entries[<<k, i>>].version > height - 1
          BY <3>2, <5>1
        <5> QED
          BY <1>1, <5>1, <5>2
      <4> QED
        BY <3>2, <4>1 DEF Shows
    <3>3. ASSUME NEW i \in Ordinals(k), entries[<<k, i>>].value = x,
                 entries[<<k, i>>].version <= height - 1,
                 \A j \in Ordinals(k) : entries[<<k, j>>].version <= height - 1 => j <= i
          PROVE  Shows(k, v, x)'
      <4>1. i \in Ordinals(k)' /\ entries'[<<k, i>>] = entries[<<k, i>>]
        BY <2>3
      <4>2. entries'[<<k, i>>].version <= v
        BY <1>1, <4>1, <2>2
      <4>3. \A j \in Ordinals(k)' : j <= i
        <5> TAKE j \in Ordinals(k)'
        <5>1. j \in Ordinals(k) /\ entries[<<k, j>>].version <= height - 1
          BY <1>1, <2>2
        <5> QED
          BY <5>1, <3>3
      <4> QED
        BY <4>1, <4>2, <4>3, <3>3 DEF Shows
    <3> QED
      BY <3>1, <3>2, <3>3 DEF Shows
  <2> QED
    BY <1>1, <2>4, <2>5
<1> QED
  BY <1>2, <1>3

\* A commit keeps the stores in agreement.
LEMMA AgreementCommit ==
    ASSUME Typed, Ordered, Agreement, Fresh, NEW t \in Tasks, Commit(t), Grows(t)
    PROVE  Agreement'
<1>1. height \in Nat /\ height' = height + 1 /\ height' - 1 = height
  BY DEF Typed, TypeOK, Grows
<1>2. /\ DOMAIN roots' = 0..(height' - 1) /\ DOMAIN nodes' = DOMAIN roots'
      /\ latest' = IF height' = 0 THEN None ELSE height' - 1
  BY <1>1 DEF Grows
<1>3. ASSUME NEW v \in 0..(height' - 1)
      PROVE  roots'[v] = nodes'[v] /\ \A k \in LatestKeys : Shows(k, v, nodes[v][k])'
  <2>1. CASE v = height
    <3>1. nodes'[v] = contents[t] /\ roots'[v] = contents[t]
      BY <2>1 DEF Grows
    <3>2. ASSUME NEW k \in LatestKeys, NEW x, x = contents[t][k] PROVE Shows(k, v, x)'
      BY <2>1, <3>2, ShowsNew
    <3>3. \A k \in LatestKeys : Shows(k, v, nodes[v][k])'
      <4> TAKE k \in LatestKeys
      <4>1. nodes'[v][k] = contents[t][k]
        BY <3>1
      <4> QED
        BY <3>2, <4>1 DEF Shows
    <3> QED
      BY <3>1, <3>3
  <2>2. CASE v \in 0..(height - 1)
    <3>1. nodes'[v] = nodes[v] /\ roots'[v] = roots[v] /\ roots[v] = nodes[v]
      BY <2>2 DEF Grows, Agreement
    <3>2. ASSUME NEW k \in LatestKeys, NEW x, x = nodes[v][k] PROVE Shows(k, v, x)'
      <4>1. Shows(k, v, x)
        BY <2>2, <3>2 DEF Agreement
      <4> QED
        BY <2>2, <4>1, ShowsKept
    <3>3. \A k \in LatestKeys : Shows(k, v, nodes[v][k])'
      <4> TAKE k \in LatestKeys
      <4>1. nodes'[v][k] = nodes[v][k]
        BY <3>1
      <4> QED
        BY <3>2, <4>1 DEF Shows
    <3> QED
      BY <3>1, <3>3
  <2> QED
    BY <1>1, <2>1, <2>2
<1> QED
  BY <1>2, <1>3 DEF Agreement

\* The stores stay in agreement while nothing is written.
LEMMA StoreUnchanged ==
    ASSUME Ordered, Agreement, UNCHANGED store
    PROVE  Ordered' /\ Agreement'
BY DEF Ordered, Agreement, Shows, Ordinals, store

\* What a preparation read stays what the store holds, or its height is passed.
LEMMA FreshUpdate ==
    ASSUME Typed, Ordered, Agreement, Fresh, NEW t \in Tasks, Update(t), ~Commit(t)
    PROVE  Fresh' /\ UNCHANGED store
<1>0. height \in Nat /\ \A u \in Tasks : base[u] \in Nat
  BY DEF Typed, TypeOK
<1> DEFINE FreshAt(u) ==
      /\ base[u] <= height
      /\ pc[u] \in {"building", "prepared"} /\ base[u] = height =>
            /\ contents[u] = Updated(PreviousNodes(u), mutation[u])
            /\ \A k \in DOMAIN ordinals[u] : ordinals[u][k] = counts[k]
      /\ pc[u] = "prepared" => DOMAIN ordinals[u] = DOMAIN mutation[u]
      /\ pc[u] \in {"refused", "corrupt"} => base[u] < height
<1>1. \A u \in Tasks : FreshAt(u)
  BY DEF Fresh
<1>2. SUFFICES UNCHANGED store /\ \A u \in Tasks : FreshAt(u)'
  BY DEF Fresh
<1>3. ASSUME UNCHANGED store, NEW u \in Tasks,
             pc'[u] = pc[u], base'[u] = base[u], mutation'[u] = mutation[u],
             contents'[u] = contents[u], ordinals'[u] = ordinals[u]
      PROVE  FreshAt(u)'
  <2>1. FreshAt(u)
    BY <1>1
  <2> QED
    BY <1>3, <2>1 DEF store, PreviousNodes, Updated
<1>4. UNCHANGED store
  BY DEF Update, Commit, Begin, ReadLatestVersion, FinishUpdate, Abandon, PutValueSet, ReadValueCount
<1>5. ASSUME NEW u \in Tasks, u # t PROVE FreshAt(u)'
  <2>1. /\ pc'[u] = pc[u] /\ base'[u] = base[u] /\ mutation'[u] = mutation[u]
        /\ contents'[u] = contents[u] /\ ordinals'[u] = ordinals[u]
    BY <1>5 DEF Update, Commit, Begin, ReadLatestVersion, FinishUpdate, Abandon, PutValueSet,
       ReadValueCount, Goto, Cleared, Typed, TypeOK
  <2> HIDE DEF FreshAt
  <2> QED
    BY <1>3, <1>4, <2>1
<1>6. FreshAt(t)'
  <2>0. FreshAt(t) /\ height' = height /\ counts' = counts
    BY <1>1, <1>4 DEF store
  <2>1. CASE Begin(t)
    BY <1>0, <2>0, <2>1 DEF Begin, Goto, Typed, TypeOK
  <2>2. CASE ReadLatestVersion(t)
    <3>1. base'[t] = base[t] /\ pc'[t] = IF latest = PreviousVersion(t) THEN "versioned" ELSE "refused"
      BY <2>2 DEF ReadLatestVersion, Goto, Typed, TypeOK
    <3>2. base[t] = height => latest = PreviousVersion(t)
      BY DEF PreviousVersion, Agreement
    <3> QED
      BY <1>0, <2>0, <3>1, <3>2
  <2>3. ASSUME NEW m \in Mutations, PutValueSet(t, m) PROVE FreshAt(t)'
    <3>1. /\ base'[t] = base[t] /\ pc'[t] = "building" /\ mutation'[t] = m
          /\ contents'[t] = Updated(PreviousNodes(t), m) /\ ordinals'[t] = NoFunction
      BY <2>3 DEF PutValueSet, Goto, Typed, TypeOK, CountsAfterMutation
    <3>2. Updated(PreviousNodes(t), m) = Updated(PreviousNodes(t), mutation[t])'
      BY <1>4, <3>1 DEF Updated, PreviousNodes, store
    <3> QED
      BY <2>0, <3>1, <3>2, NoMutation
  <2>4. ASSUME NEW k \in LatestKeys, ReadValueCount(t, k) PROVE FreshAt(t)'
    <3>1. /\ base' = base /\ mutation' = mutation /\ contents' = contents
          /\ pc[t] = "building"
      BY <2>4 DEF ReadValueCount
    <3>2. base[t] = height =>
            contents'[t] = Updated(PreviousNodes(t), mutation[t])'
      BY <1>4, <2>0, <3>1 DEF store, Updated, PreviousNodes
    <3>3. CASE EndsBefore(k, base[t])
      <4> DEFINE new == Over([x \in {k} |-> counts[k]], ordinals[t])
      <4>1. pc' = pc /\ ordinals'[t] = new
        BY <2>4, <3>3 DEF ReadValueCount, Typed, TypeOK
      <4>2. /\ DOMAIN new = {k} \cup DOMAIN ordinals[t]
            /\ new[k] = counts[k]
            /\ \A x \in DOMAIN ordinals[t] \ {k} : new[x] = ordinals[t][x]
        BY DEF Over
      <4> HIDE DEF new
      <4> QED
        BY <2>0, <3>1, <3>2, <4>1, <4>2
    <3>4. CASE ~EndsBefore(k, base[t])
      <4>1. pc'[t] = "corrupt"
        BY <2>4, <3>4 DEF ReadValueCount, Goto, Typed, TypeOK
      <4>2. base[t] # height
        <5> SUFFICES ASSUME base[t] = height, counts[k] > 0
                     PROVE  /\ <<k, counts[k] - 1>> \in DOMAIN entries
                            /\ entries[<<k, counts[k] - 1>>].version < height
          BY <3>4 DEF EndsBefore
        <5>1. counts[k] - 1 \in Nat /\ counts[k] - 1 < counts[k] /\ counts[k] - 1 \in Ordinals(k)
          BY DEF Typed, TypeOK, Ordinals
        <5> QED
          BY <5>1 DEF Ordered
      <4> QED
        BY <1>0, <2>0, <3>1, <4>1, <4>2
    <3> QED
      BY <3>3, <3>4
  <2>5. CASE FinishUpdate(t)
    <3>1. /\ base' = base /\ mutation' = mutation /\ contents' = contents
          /\ ordinals' = ordinals /\ pc[t] = "building" /\ pc'[t] = "prepared"
          /\ DOMAIN ordinals[t] = DOMAIN mutation[t]
      BY <2>5 DEF FinishUpdate, Goto, Typed, TypeOK
    <3>2. base[t] = height =>
            contents'[t] = Updated(PreviousNodes(t), mutation[t])'
      BY <1>4, <2>0, <3>1 DEF store, Updated, PreviousNodes
    <3> QED
      BY <2>0, <3>1, <3>2
  <2>6. CASE Abandon(t)
    <3>1. pc'[t] = "idle" /\ base'[t] = 0
      BY <2>6 DEF Abandon, Cleared, Goto, Typed, TypeOK
    <3> QED
      BY <1>0, <2>0, <3>1
  <2> QED
    BY <2>1, <2>2, <2>3, <2>4, <2>5, <2>6 DEF Update
<1> QED
  BY <1>4, <1>5, <1>6

\* A commit passes the heights of all other preparations.
LEMMA FreshCommit ==
    ASSUME Typed, Fresh, NEW t \in Tasks, Commit(t)
    PROVE  Fresh'
<1>1. height \in Nat /\ height' = height + 1 /\ \A u \in Tasks : base[u] \in Nat
  BY DEF Typed, TypeOK, Commit, Written
<1>2. base'[t] = 0 /\ pc'[t] = "idle"
  BY DEF Commit, Cleared, Goto, Typed, TypeOK
<1>3. ASSUME NEW u \in Tasks, u # t
      PROVE  /\ pc'[u] = pc[u] /\ base'[u] = base[u]
             /\ mutation'[u] = mutation[u] /\ ordinals'[u] = ordinals[u]
             /\ base'[u] < height'
             /\ pc'[u] = "prepared" => DOMAIN ordinals'[u] = DOMAIN mutation'[u]
  <2>1. /\ pc'[u] = pc[u] /\ base'[u] = base[u]
        /\ mutation'[u] = mutation[u] /\ ordinals'[u] = ordinals[u]
    BY <1>3 DEF Commit, Cleared, Goto, Typed, TypeOK
  <2>2. base[u] <= height /\ (pc[u] = "prepared" => DOMAIN ordinals[u] = DOMAIN mutation[u])
    BY DEF Fresh
  <2> QED
    BY <1>1, <2>1, <2>2
<1>4. ASSUME NEW u \in Tasks
      PROVE  /\ base'[u] <= height'
             /\ ~(pc'[u] \in {"building", "prepared"} /\ base'[u] = height')
             /\ pc'[u] = "prepared" => DOMAIN ordinals'[u] = DOMAIN mutation'[u]
             /\ pc'[u] \in {"refused", "corrupt"} => base'[u] < height'
  BY <1>1, <1>2, <1>3
<1> QED
  BY <1>4 DEF Fresh

-----------------------------------------------------------------------------
(* The queries *)

\* A running query looks at one committed version, for a key that its tree has
\* when it searches; its bounds enclose the last entry at or before the version.
Enclosed(r) ==
    /\ low[r] <= high[r] /\ high[r] <= counts[asked[r].key]
    /\ \A i \in Ordinals(asked[r].key) :
          /\ i < low[r] => entries[EntryAt(r, i)].version <= asked[r].version
          /\ i >= high[r] => entries[EntryAt(r, i)].version > asked[r].version

Sound(r) ==
    /\ at[r] # "failed"
    /\ at[r] # "idle" =>
          /\ asked[r].version \in 0..(height - 1)
          /\ root[r] = nodes[asked[r].version]
    /\ at[r] \in {"leaf", "searching", "found", "answered"} => proof[r] = nodes[asked[r].version]
    /\ at[r] \in {"leaf", "searching"} => nodes[asked[r].version][asked[r].key] # None
    /\ at[r] \in {"idle", "rooted"} => answer[r] = None
    /\ at[r] = "searching" => Enclosed(r)
    /\ at[r] \in {"found", "answered"} => answer[r] = nodes[asked[r].version][asked[r].key]

Reading == \A r \in Readers : Sound(r)

\* A query is not disturbed by steps that write nothing and are not its own.
LEMMA SoundUnchanged ==
    ASSUME NEW r \in Readers, Sound(r), UNCHANGED store,
           at'[r] = at[r], asked'[r] = asked[r], root'[r] = root[r], proof'[r] = proof[r],
           low'[r] = low[r], high'[r] = high[r], answer'[r] = answer[r]
    PROVE  Sound(r)'
BY DEF Sound, Enclosed, Ordinals, EntryAt, store

\* Nor by a commit: it writes behind the entries of its version.
LEMMA SoundCommit ==
    ASSUME Typed, Ordered, NEW t \in Tasks, Grows(t), UNCHANGED reader,
           NEW r \in Readers, Sound(r)
    PROVE  Sound(r)'
<1>1. height \in Nat /\ height' = height + 1
  BY DEF Typed, TypeOK, Grows
<1>2. /\ at' = at /\ asked' = asked /\ root' = root /\ proof' = proof
      /\ low' = low /\ high' = high /\ answer' = answer
  BY DEF reader, search
<1>3. CASE at[r] = "idle"
  BY <1>2, <1>3 DEF Sound
<1>4. CASE at[r] # "idle"
  <2>1. PICK v \in 0..(height - 1), k \in LatestKeys : asked[r].version = v /\ asked[r].key = k
    BY <1>4 DEF Sound, Typed, QueriesAsked, Queries
  <2>2. v \in 0..(height' - 1) /\ nodes'[v] = nodes[v]
    BY <1>1, <2>1 DEF Grows
  <2>3. ASSUME at[r] = "searching" PROVE Enclosed(r)'
    <3>1. /\ low[r] <= high[r] /\ high[r] <= counts[k]
          /\ \A i \in Ordinals(k) :
                /\ i < low[r] => entries[<<k, i>>].version <= v
                /\ i >= high[r] => entries[<<k, i>>].version > v
      BY <2>1, <2>3 DEF Sound, Enclosed, EntryAt
    <3>2. /\ counts[k] \in Nat /\ counts'[k] \in {counts[k], counts[k] + 1}
          /\ low[r] \in Nat /\ high[r] \in Nat
      BY <2>1 DEF Typed, TypeOK, Grows
    <3>3. ASSUME NEW i \in Ordinals(k)'
          PROVE  /\ i < low[r] => entries'[<<k, i>>].version <= v
                 /\ i >= high[r] => entries'[<<k, i>>].version > v
      <4>1. CASE i \in Ordinals(k) /\ entries'[<<k, i>>] = entries[<<k, i>>]
        BY <3>1, <4>1
      <4>2. CASE i = counts[k] /\ entries'[<<k, i>>].version = height
        <5>1. ~(i < low[r])
          BY <3>1, <3>2, <4>2
        <5>2. height > v
          BY <1>1, <2>1
        <5> QED
          BY <4>2, <5>1, <5>2
      <4> QED
        BY <4>1, <4>2, OrdinalAfter
    <3>4. high[r] <= counts'[k]
      BY <3>1, <3>2
    <3> QED
      BY <1>2, <2>1, <3>1, <3>3, <3>4 DEF Enclosed, EntryAt
  <2> QED
    BY <1>2, <1>4, <2>1, <2>2, <2>3 DEF Sound
<1> QED
  BY <1>3, <1>4

\* The middle of a search lies in it.
LEMMA MiddleInside ==
    ASSUME NEW r \in Readers, low[r] \in Nat, high[r] \in Nat, low[r] < high[r]
    PROVE  Middle(r) \in Nat /\ low[r] <= Middle(r) /\ Middle(r) < high[r]
<1>1. \A a, b \in Nat : a < b =>
         LET m == a + (b - a) \div 2 IN m \in Nat /\ a <= m /\ m < b
  OBVIOUS
<1> QED
  BY <1>1 DEF Middle

\* A probe finds its entry and keeps the last one at or before the version enclosed.
LEMMA ProbeSound ==
    ASSUME Typed, Ordered, NEW r \in Readers, Sound(r), Probe(r)
    PROVE  Sound(r)'
<1>1. PICK v \in 0..(height - 1), k \in LatestKeys : asked[r].version = v /\ asked[r].key = k
  BY DEF Probe, Sound, Typed, QueriesAsked, Queries
<1>2. /\ height \in Nat /\ counts[k] \in Nat /\ low[r] \in Nat /\ high[r] \in Nat
      /\ low[r] < high[r] /\ high[r] <= counts[k] /\ at[r] = "searching"
  BY <1>1 DEF Probe, Sound, Enclosed, Typed, TypeOK
<1>3. PICK m \in Nat : m = Middle(r) /\ low[r] <= m /\ m < high[r]
  BY <1>2, MiddleInside
<1>4. m \in Ordinals(k) /\ <<k, m>> \in DOMAIN entries
  BY <1>2, <1>3 DEF Ordinals, Ordered
<1>5. /\ at' = at
      /\ IF entries[<<k, m>>].version <= v
         THEN low' = [low EXCEPT ![r] = m + 1] /\ high' = high
         ELSE high' = [high EXCEPT ![r] = m] /\ low' = low
  BY <1>1, <1>3, <1>4 DEF Probe, EntryAt
<1>6. /\ \A i \in Ordinals(k) : i < low[r] => entries[<<k, i>>].version <= v
      /\ \A i \in Ordinals(k) : i >= high[r] => entries[<<k, i>>].version > v
  BY <1>1, <1>2 DEF Sound, Enclosed, EntryAt
<1>7. \A i, j \in Ordinals(k) : i < j => entries[<<k, i>>].version < entries[<<k, j>>].version
  BY DEF Ordered
<1>8. \A i \in Ordinals(k) : i \in Nat /\ entries[<<k, i>>].version \in Nat
  BY VersionType
<1>9. /\ low'[r] <= high'[r] /\ high'[r] <= counts[k]
      /\ \A i \in Ordinals(k) :
            /\ i < low'[r] => entries[<<k, i>>].version <= v
            /\ i >= high'[r] => entries[<<k, i>>].version > v
  <2>1. CASE entries[<<k, m>>].version <= v
    <3>1. low'[r] = m + 1 /\ high'[r] = high[r]
      BY <1>5, <2>1 DEF Typed, TypeOK
    <3>2. ASSUME NEW i \in Ordinals(k), i < m + 1 PROVE entries[<<k, i>>].version <= v
      <4>0. i \in Nat /\ m \in Nat /\ entries[<<k, i>>].version \in Nat /\ entries[<<k, m>>].version \in Nat
        BY <1>4, <1>8
      <4>1. i = m \/ i < m
        BY <3>2, <4>0
      <4>2. CASE i < m
        <5>1. entries[<<k, i>>].version < entries[<<k, m>>].version
          BY <1>4, <1>7, <4>2
        <5> QED
          BY <2>1, <4>0, <5>1
      <4> QED
        BY <2>1, <4>1, <4>2
    <3> QED
      BY <1>2, <1>3, <1>6, <3>1, <3>2
  <2>2. CASE ~(entries[<<k, m>>].version <= v)
    <3>1. high'[r] = m /\ low'[r] = low[r]
      BY <1>5, <2>2 DEF Typed, TypeOK
    <3>2. ASSUME NEW i \in Ordinals(k), i >= m PROVE entries[<<k, i>>].version > v
      <4>0. i \in Nat /\ m \in Nat /\ entries[<<k, i>>].version \in Nat /\ entries[<<k, m>>].version \in Nat
        BY <1>4, <1>8
      <4>1. i = m \/ m < i
        BY <3>2, <4>0
      <4>2. entries[<<k, m>>].version > v
        BY <1>2, <2>2, <4>0
      <4>3. CASE m < i
        <5>1. entries[<<k, m>>].version < entries[<<k, i>>].version
          BY <1>4, <1>7, <4>3
        <5> QED
          BY <1>2, <4>0, <4>2, <5>1
      <4> QED
        BY <4>1, <4>2, <4>3
    <3> QED
      BY <1>2, <1>3, <1>6, <3>1, <3>2
  <2> QED
    BY <2>1, <2>2
<1>10. UNCHANGED <<store, asked, root, proof, answer>>
  BY DEF Probe
<1>11. Enclosed(r)'
  <2>1. /\ asked'[r].key = k /\ asked'[r].version = v /\ counts' = counts /\ entries' = entries
    BY <1>1, <1>10 DEF store
  <2>2. ASSUME NEW i \in 0..(counts[k] - 1)
        PROVE  /\ i < low'[r] => entries'[<<k, i>>].version <= v
               /\ i >= high'[r] => entries'[<<k, i>>].version > v
    BY <1>9, <2>1 DEF Ordinals
  <2>3. low'[r] <= high'[r] /\ high'[r] <= counts'[asked'[r].key]
    BY <1>9, <2>1
  <2> QED
    BY <2>1, <2>2, <2>3 DEF Enclosed, Ordinals, EntryAt
<1> QED
  BY <1>2, <1>5, <1>10, <1>11 DEF Sound, store

\* A finished search reads the value that the tree has.
LEMMA ReadValueSound ==
    ASSUME Typed, Ordered, Agreement, NEW r \in Readers, Sound(r), ReadValue(r)
    PROVE  Sound(r)'
<1>1. PICK v \in 0..(height - 1), k \in LatestKeys : asked[r].version = v /\ asked[r].key = k
  BY DEF ReadValue, Sound, Typed, QueriesAsked, Queries
<1>2. PICK x : x = nodes[v][k]
  OBVIOUS
<1>3. /\ height \in Nat /\ counts[k] \in Nat /\ low[r] \in Nat /\ high[r] \in Nat
      /\ low[r] = high[r] /\ high[r] <= counts[k] /\ at[r] = "searching" /\ x # None
  BY <1>1, <1>2 DEF ReadValue, Sound, Enclosed, Typed, TypeOK
<1>4. /\ \A i \in Ordinals(k) : i < low[r] => entries[<<k, i>>].version <= v
      /\ \A i \in Ordinals(k) : i >= low[r] => entries[<<k, i>>].version > v
  BY <1>1, <1>3 DEF Sound, Enclosed, EntryAt
<1>5. PICK i \in Ordinals(k) :
         /\ entries[<<k, i>>].version <= v /\ entries[<<k, i>>].value = x
         /\ \A j \in Ordinals(k) : entries[<<k, j>>].version <= v => j <= i
  BY <1>2, <1>3 DEF Agreement, Shows
<1>6. i = low[r] - 1 /\ low[r] > 0
  <2>1. i \in Nat /\ entries[<<k, i>>].version \in Nat
    BY VersionType
  <2>2. i < low[r]
    <3>1. i >= low[r] => entries[<<k, i>>].version > v
      BY <1>4
    <3> QED
      BY <1>3, <1>5, <2>1, <3>1
  <2>3. low[r] - 1 \in Ordinals(k) /\ low[r] - 1 < low[r]
    BY <1>3, <2>1, <2>2 DEF Ordinals
  <2>4. low[r] - 1 <= i
    BY <1>4, <1>5, <2>3
  <2> QED
    BY <1>3, <2>1, <2>2, <2>4
<1>7. EntryAt(r, low[r] - 1) = <<k, i>> /\ <<k, i>> \in DOMAIN entries
  BY <1>1, <1>3, <1>6, VersionType DEF EntryAt, Ordered
<1>8. answer' = [answer EXCEPT ![r] = x] /\ at' = [at EXCEPT ![r] = IF answer'[r] = None THEN "failed" ELSE "found"]
  BY <1>5, <1>6, <1>7 DEF ReadValue, Move
<1>9. answer'[r] = x /\ at'[r] = "found"
  BY <1>3, <1>8 DEF Typed, TypeOK
<1> QED
  BY <1>1, <1>2, <1>3, <1>9 DEF ReadValue, Sound, store

\* Every step of a query keeps it sound.
LEMMA QuerySound ==
    ASSUME Typed, Ordered, Agreement, Reading, NEW r \in Readers, Query(r)
    PROVE  Reading' /\ UNCHANGED <<store, task>>
<1>1. UNCHANGED <<store, task>>
  BY DEF Query, RefuseQuery, ReadRoot, Descend, ReadCount, Probe, ReadValue, Verify, Return, vars
<1>2. ASSUME NEW q \in Readers, q # r PROVE Sound(q)'
  <2>1. /\ at'[q] = at[q] /\ asked'[q] = asked[q] /\ root'[q] = root[q] /\ proof'[q] = proof[q]
        /\ low'[q] = low[q] /\ high'[q] = high[q] /\ answer'[q] = answer[q]
    BY <1>2 DEF Query, RefuseQuery, ReadRoot, Descend, ReadCount, Probe, ReadValue, Verify, Return,
       vars, reader, search, Move, Typed, TypeOK
  <2> QED
    BY <1>1, <2>1, SoundUnchanged DEF Reading
<1>3. Sound(r)'
  <2>0. Sound(r) /\ UNCHANGED store
    BY <1>1 DEF Reading
  <2>1. ASSUME NEW k \in LatestKeys, NEW v \in 0..MaxBlocks, RefuseQuery(r, k, v) PROVE Sound(r)'
    BY <2>0, <2>1, SoundUnchanged DEF RefuseQuery, vars, reader, search
  <2>2. ASSUME NEW k \in LatestKeys, NEW v \in 0..MaxBlocks, ReadRoot(r, k, v) PROVE Sound(r)'
    <3>1. v \in 0..(height - 1) /\ roots[v] = nodes[v]
      BY <2>2 DEF ReadRoot, Agreement
    <3>2. /\ at'[r] = "rooted" /\ asked'[r] = [key |-> k, version |-> v] /\ root'[r] = roots[v]
          /\ answer'[r] = answer[r] /\ at[r] = "idle"
      BY <2>2 DEF ReadRoot, Move, Typed, TypeOK
    <3>3. asked'[r].version = v
      BY <3>2
    <3> QED
      BY <2>0, <3>1, <3>2, <3>3 DEF Sound, store
  <2>3. CASE Descend(r)
    <3>1. asked[r].version \in 0..(height - 1) /\ asked[r].version \in DOMAIN nodes
      BY <2>0, <2>3 DEF Descend, Sound, Agreement
    <3>2. /\ proof'[r] = nodes[asked[r].version]
          /\ at'[r] = IF nodes[asked[r].version][asked[r].key] = None THEN "found" ELSE "leaf"
          /\ asked' = asked /\ root' = root /\ answer' = answer /\ at[r] = "rooted"
      BY <2>3, <3>1 DEF Descend, Move, Typed, TypeOK
    <3> QED
      BY <2>0, <3>1, <3>2 DEF Sound, store
  <2>4. CASE ReadCount(r)
    <3>1. /\ low'[r] = 0 /\ high'[r] = counts[asked[r].key] /\ at'[r] = "searching" /\ at[r] = "leaf"
          /\ asked' = asked /\ root' = root /\ proof' = proof /\ answer' = answer
      BY <2>4 DEF ReadCount, Move, Typed, TypeOK
    <3>2. counts[asked[r].key] \in Nat
      BY <2>4 DEF ReadCount, Typed, TypeOK, QueriesAsked, Queries
    <3>3. Enclosed(r)'
      BY <2>0, <3>1, <3>2 DEF Enclosed, Ordinals, store
    <3> QED
      BY <2>0, <3>1, <3>3 DEF Sound, store
  <2>5. CASE Probe(r)
    BY <2>0, <2>5, ProbeSound
  <2>6. CASE ReadValue(r)
    BY <2>0, <2>6, ReadValueSound
  <2>7. CASE Verify(r)
    <3>1. /\ at'[r] = IF proof[r] = root[r] /\ proof[r][asked[r].key] = answer[r]
                      THEN "answered" ELSE "failed"
          /\ at[r] = "found"
          /\ asked' = asked /\ root' = root /\ proof' = proof /\ answer' = answer
      BY <2>7 DEF Verify, Move, Typed, TypeOK
    <3> QED
      BY <2>0, <3>1 DEF Sound, store
  <2>8. CASE Return(r)
    BY <2>8 DEF Return, Move, Sound, Typed, TypeOK
  <2> QED
    BY <2>1, <2>2, <2>3, <2>4, <2>5, <2>6, <2>7, <2>8 DEF Query
<1> QED
  BY <1>1, <1>2, <1>3 DEF Reading

-----------------------------------------------------------------------------
(* The inductive invariant *)

IInv == Typed /\ Ordered /\ Agreement /\ Fresh /\ Reading

\* It holds of the empty store.
LEMMA IInvInit == Init => IInv
<1> SUFFICES ASSUME Init PROVE IInv
  OBVIOUS
<1>1. Ordered /\ Agreement
  BY NoMutation DEF Init, Ordered, Agreement, Ordinals
<1>2. Fresh
  BY DEF Init, Fresh
<1>3. Reading
  BY DEF Init, Reading, Sound
<1> QED
  BY <1>1, <1>2, <1>3, TypedInit DEF IInv

\* Every step keeps it.
LEMMA IInvStep == IInv /\ [Next]_vars => IInv'
<1> SUFFICES ASSUME IInv, [Next]_vars PROVE IInv'
  OBVIOUS
<1>0. Typed /\ Ordered /\ Agreement /\ Fresh /\ Reading /\ Typed'
  BY TypedStep DEF IInv
<1>1. ASSUME NEW t \in Tasks, Commit(t) PROVE IInv'
  <2>1. Grows(t)
    BY <1>0, <1>1, CommitGrows
  <2>2. Ordered' /\ Agreement' /\ Fresh'
    BY <1>0, <1>1, <2>1, OrderedCommit, AgreementCommit, FreshCommit
  <2>3. ASSUME NEW r \in Readers PROVE Sound(r)'
    BY <1>0, <1>1, <2>1, SoundCommit DEF Reading, Commit
  <2> QED
    BY <1>0, <2>2, <2>3 DEF IInv, Reading
<1>2. ASSUME NEW t \in Tasks, Update(t), ~Commit(t) PROVE IInv'
  <2>1. Fresh' /\ UNCHANGED store
    BY <1>0, <1>2, FreshUpdate
  <2>2. UNCHANGED reader
    BY <1>2 DEF Update, Commit, Begin, ReadLatestVersion, FinishUpdate, Abandon, PutValueSet, ReadValueCount
  <2>3. ASSUME NEW r \in Readers PROVE Sound(r)'
    BY <1>0, <2>1, <2>2, SoundUnchanged DEF Reading, reader, search
  <2> QED
    BY <1>0, <2>1, <2>3, StoreUnchanged DEF IInv, Reading
<1>3. ASSUME NEW r \in Readers, Query(r) PROVE IInv'
  <2>1. Reading' /\ UNCHANGED store /\ UNCHANGED task
    BY <1>0, <1>3, QuerySound
  <2>2. Fresh'
    BY <1>0, <2>1 DEF Fresh, store, task, Updated, PreviousNodes
  <2> QED
    BY <1>0, <2>1, <2>2, StoreUnchanged DEF IInv
<1>4. CASE UNCHANGED vars
  <2>1. UNCHANGED store /\ UNCHANGED task /\ UNCHANGED reader
    BY <1>4 DEF vars
  <2>2. Fresh'
    BY <1>0, <2>1 DEF Fresh, store, task, Updated, PreviousNodes
  <2>3. ASSUME NEW r \in Readers PROVE Sound(r)'
    BY <1>0, <2>1, SoundUnchanged DEF Reading, reader, search
  <2> QED
    BY <1>0, <2>1, <2>2, <2>3, StoreUnchanged DEF IInv, Reading
<1> QED
  BY <1>1, <1>2, <1>3, <1>4 DEF Next

\* It holds in every reachable state.
LEMMA IInvAlways == Spec => []IInv
BY IInvInit, IInvStep, PTL DEF Spec

-----------------------------------------------------------------------------
(* The theorems *)

\* The invariant gives the agreement of roots, trees and value histories.
LEMMA Agree == IInv => HistoriesAgree
<1> SUFFICES ASSUME IInv PROVE HistoriesAgree
  OBVIOUS
<1>1. ASSUME NEW v \in 0..(height - 1), NEW k \in LatestKeys PROVE nodes[v][k] = ValueAt(k, v)
  <2>1. v \in Nat /\ Shows(k, v, nodes[v][k])
    BY DEF IInv, Agreement, Typed, TypeOK
  <2> QED
    BY <2>1, ShowsValue DEF IInv
<1> QED
  BY <1>1 DEF IInv, Agreement, HistoriesAgree

\* The root, the tree nodes and the value histories agree at every committed
\* version, however many blocks are prepared and committed and in what order.
THEOREM LatestHistoriesAgree == Spec => []HistoriesAgree
BY IInvAlways, Agree, PTL

\* A query is exact at its version while blocks are committed around its reads.
THEOREM LatestQueriesExact == Spec => []QueriesExact
<1>1. IInv => QueriesExact
  <2> SUFFICES ASSUME IInv, NEW r \in Readers, at[r] = "answered"
               PROVE  answer[r] = ValueAt(asked[r].key, asked[r].version)
    BY DEF QueriesExact, IInv, Reading, Sound
  <2>1. /\ asked[r].version \in DOMAIN roots /\ asked[r].key \in LatestKeys
        /\ answer[r] = nodes[asked[r].version][asked[r].key]
    BY DEF IInv, Reading, Sound, Agreement, Typed, QueriesAsked, Queries
  <2> QED
    BY <2>1, Agree DEF HistoriesAgree
<1> QED
  BY <1>1, IInvAlways, PTL

\* A preparation is refused only after another commit.
THEOREM LatestRefusalNeedsRace == Spec => []RefusalNeedsRace
<1>1. IInv => RefusalNeedsRace
  BY DEF IInv, Fresh, RefusalNeedsRace
<1> QED
  BY <1>1, IInvAlways, PTL

-----------------------------------------------------------------------------
(* The refinement *)

Versions == [i \in 1..VersionCount |-> nodes[i - 1]]

\* There is one version for each committed block.
LEMMA VersionsType ==
    ASSUME IInv
    PROVE  /\ VersionCount = height /\ height \in Nat
           /\ Versions \in Seq(Contents) /\ Len(Versions) = height
           /\ \A i \in 1..height : Versions[i] = nodes[i - 1]
<1>1. VersionCount = height /\ height \in Nat
  BY NoneAssumption DEF IInv, Agreement, Typed, TypeOK, VersionCount
<1>2. \A i \in 1..height : nodes[i - 1] \in Contents
  <2> TAKE i \in 1..height
  <2>1. i - 1 \in 0..(height - 1)
    BY <1>1
  <2> QED
    BY <2>1 DEF IInv, Agreement, Typed, TypeOK
<1> QED
  BY <1>1, <1>2 DEF Versions

\* Appending, as a function.
LEMMA AppendIs ==
    ASSUME NEW S, NEW s \in Seq(S), NEW e \in S
    PROVE  Append(s, e) = [i \in 1..(Len(s) + 1) |-> IF i = Len(s) + 1 THEN e ELSE s[i]]
<1> DEFINE longer == Append(s, e)
<1>1. /\ longer \in Seq(S) /\ Len(longer) = Len(s) + 1 /\ Len(s) \in Nat
      /\ \A i \in 1..Len(s) : longer[i] = s[i]
      /\ longer[Len(s) + 1] = e
  BY AppendProperties
<1>2. longer = [i \in 1..(Len(s) + 1) |-> longer[i]]
  BY <1>1, LenProperties
<1> HIDE DEF longer
<1>3. \A i \in 1..(Len(s) + 1) : longer[i] = IF i = Len(s) + 1 THEN e ELSE s[i]
  BY <1>1
<1>4. longer = [i \in 1..(Len(s) + 1) |-> IF i = Len(s) + 1 THEN e ELSE s[i]]
  BY <1>2, <1>3
<1> QED
  BY <1>4 DEF longer

\* A commit adds the map of its preparation as the next version.
LEMMA CommitAdvances ==
    ASSUME IInv, IInv', NEW t \in Tasks, Commit(t)
    PROVE  VersionedMap!Next
<1>1. Grows(t) /\ height \in Nat
  BY CommitGrows DEF IInv, Typed, TypeOK
<1>2. PICK map \in Contents : map = contents[t]
  BY DEF IInv, Typed, TypeOK
<1>3. /\ Versions \in Seq(Contents) /\ Len(Versions) = height
      /\ \A i \in 1..height : Versions[i] = nodes[i - 1]
  BY VersionsType
<1>4. /\ VersionCount' = height + 1
      /\ Versions' = [i \in 1..(height + 1) |-> nodes'[i - 1]]
  BY <1>1, NoneAssumption DEF Grows, VersionCount, Versions
<1>5. Versions' = Append(Versions, map)
  <2>1. Append(Versions, map) = [i \in 1..(height + 1) |-> IF i = height + 1 THEN map ELSE Versions[i]]
    <3> HIDE DEF Versions
    <3> QED
      BY <1>1, <1>3, AppendIs
  <2>2. ASSUME NEW i \in 1..(height + 1)
        PROVE  nodes'[i - 1] = IF i = height + 1 THEN map ELSE Versions[i]
    <3>1. CASE i = height + 1
      BY <1>1, <1>2, <3>1 DEF Grows
    <3>2. CASE i # height + 1
      <4>1. i \in 1..height /\ i - 1 \in 0..(height - 1)
        BY <1>1, <3>2
      <4> QED
        BY <1>1, <1>3, <3>2, <4>1 DEF Grows
    <3> QED
      BY <3>1, <3>2
  <2> QED
    BY <1>4, <2>1, <2>2
<1>6. \E new \in Contents : Versions' = Append(Versions, new)
  BY <1>5
<1> QED
  BY <1>6 DEF VersionedMap!Next, VersionedMap!Advance, VersionedMap!Maps, Versions, Contents

\* The latest map implements the versioned map: preparing and querying are
\* stuttering steps, and each commit adds exactly the next version.
THEOREM LatestImplementsVersionedMap == Spec => SerialVersions
<1>1. Init => VersionedMap!Init
  <2>1. Init => VersionCount = 0
    BY DEF Init, VersionCount
  <2> QED
    BY <2>1 DEF VersionedMap!Init
<1>2. IInv /\ IInv' /\ [Next]_vars => [VersionedMap!Next]_Versions
  <2> SUFFICES ASSUME IInv, IInv', [Next]_vars PROVE [VersionedMap!Next]_Versions
    OBVIOUS
  <2>1. ASSUME NEW t \in Tasks, Commit(t) PROVE VersionedMap!Next
    BY <2>1, CommitAdvances
  <2>2. CASE nodes' = nodes /\ latest' = latest
    BY <2>2 DEF Versions, VersionCount
  <2>3. ASSUME NEW t \in Tasks, Update(t), ~Commit(t) PROVE nodes' = nodes /\ latest' = latest
    BY <2>3, FreshUpdate DEF IInv, store
  <2>4. ASSUME NEW r \in Readers, Query(r) PROVE nodes' = nodes /\ latest' = latest
    BY <2>4, QuerySound DEF IInv, store
  <2>5. CASE UNCHANGED vars
    BY <2>2, <2>5 DEF vars, store
  <2> QED
    BY <2>1, <2>2, <2>3, <2>4, <2>5 DEF Next
<1> QED
  BY <1>1, <1>2, IInvAlways, PTL DEF Spec, SerialVersions, VersionedMap!Spec, Versions
=============================================================================
