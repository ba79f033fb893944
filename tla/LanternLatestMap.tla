-------------------------- MODULE LanternLatestMap --------------------------
(***************************************************************************)
(* The latest map of crates/lantern-latest-map: the column family          *)
(* LatestTreeNodes with its versioned Merkle tree, roots and value         *)
(* histories, block preparations that update it over the live store, and   *)
(* queries of committed versions that read it while blocks are committed.  *)
(*                                                                         *)
(* The tree itself is the jmt library's.  It keeps the nodes of every      *)
(* version under keys that contain the version, and its root is a hash of  *)
(* the contents, so the nodes of a version stand here for the map they     *)
(* describe and a root for the map it was computed from.  Nodes that went  *)
(* stale are indexed by the code and never removed, so the index is left   *)
(* out.  A tombstone and an absent key both have the value None.           *)
(***************************************************************************)
EXTENDS Integers, Sequences, FiniteSets

CONSTANTS
    Tasks,        \* block preparations that run side by side
    Readers,      \* callers of query_ca
    LatestKeys,   \* derived keys of the CAs
    Values,       \* encoded latest-state values
    None,         \* an absent Option
    MaxBlocks     \* bound: height at which no block is begun

ASSUME NoneAssumption == None \notin Values \cup Nat
ASSUME BoundAssumption == MaxBlocks \in Nat

Contents == [LatestKeys -> Values \cup {None}]
Empty == [k \in LatestKeys |-> None]
Mutations == UNION {[S -> Values \cup {None}] : S \in SUBSET LatestKeys}

VARIABLES
    height,       \* app height in the commit metadata
    nodes,        \* version -> the map its tree nodes describe, a partial function
    roots,        \* version -> root, a partial function
    latest,       \* the key latest-version
    counts,       \* key -> its value-count, 0 when absent
    entries,      \* <<key, ordinal>> -> value entry, a partial function
    pc,           \* where each preparation is
    base,         \* the height it recovered
    mutation,     \* the values it sets and deletes
    contents,     \* the map its new nodes describe
    ordinals,     \* the value counts it read, a partial function
    at,           \* where each query is
    asked,        \* its key and version
    root,         \* the root it read
    proof,        \* the map its proof was taken from
    low, high,    \* its binary search
    answer        \* the value it found

store == <<height, nodes, roots, latest, counts, entries>>
task == <<pc, base, mutation, contents, ordinals>>
search == <<low, high>>
reader == <<at, asked, root, proof, search, answer>>
vars == <<store, task, reader>>

NoFunction == [x \in {} |-> None]
Over(new, old) ==
    [x \in DOMAIN new \cup DOMAIN old |-> IF x \in DOMAIN new THEN new[x] ELSE old[x]]

Init ==
    /\ height = 0 /\ nodes = NoFunction /\ roots = NoFunction /\ latest = None
    /\ counts = [k \in LatestKeys |-> 0] /\ entries = NoFunction
    /\ pc = [t \in Tasks |-> "idle"]
    /\ base = [t \in Tasks |-> 0]
    /\ mutation = [t \in Tasks |-> NoFunction]
    /\ contents = [t \in Tasks |-> Empty]
    /\ ordinals = [t \in Tasks |-> NoFunction]
    /\ at = [r \in Readers |-> "idle"]
    /\ asked = [r \in Readers |-> None]
    /\ root = [r \in Readers |-> Empty]
    /\ proof = [r \in Readers |-> Empty]
    /\ low = [r \in Readers |-> 0]
    /\ high = [r \in Readers |-> 0]
    /\ answer = [r \in Readers |-> None]

-----------------------------------------------------------------------------
(* Preparing an update *)

Goto(t, place) == pc' = [pc EXCEPT ![t] = place]

\* A block is begun from the committed height; its map version is that height.
Begin(t) ==
    /\ pc[t] = "idle" /\ height < MaxBlocks
    /\ Goto(t, "begun")
    /\ base' = [base EXCEPT ![t] = height]
    /\ UNCHANGED <<store, mutation, contents, ordinals, reader>>

\* Variant: the subtraction saturates.
PreviousVersionOrZero(t) == IF base[t] = 0 THEN 0 ELSE base[t] - 1

\* version.checked_sub(1): the first version has no predecessor.
PreviousVersion(t) == IF base[t] = 0 THEN None ELSE base[t] - 1

\* prepare_update accepts the successor of the latest version only.
ReadLatestVersion(t) ==
    /\ pc[t] = "begun"
    /\ Goto(t, IF latest = PreviousVersion(t) THEN "versioned" ELSE "refused")
    /\ UNCHANGED <<store, base, mutation, contents, ordinals, reader>>

Updated(map, m) == [k \in LatestKeys |-> IF k \in DOMAIN m THEN m[k] ELSE map[k]]
PreviousNodes(t) == IF base[t] = 0 THEN Empty ELSE nodes[base[t] - 1]

\* put_value_set builds the nodes of the new version over those of the last.
PutValueSet(t, m) ==
    /\ pc[t] = "versioned"
    /\ base[t] = 0 \/ base[t] - 1 \in DOMAIN nodes
    /\ Goto(t, "building")
    /\ mutation' = [mutation EXCEPT ![t] = m]
    /\ contents' = [contents EXCEPT ![t] = Updated(PreviousNodes(t), m)]
    /\ UNCHANGED <<store, base, ordinals, reader>>

EndsBefore(k, version) ==
    counts[k] > 0 =>
        <<k, counts[k] - 1>> \in DOMAIN entries /\ entries[<<k, counts[k] - 1>>].version < version

\* build_prepared_update reads the count and the last entry of each key it
\* writes.  The last entry is below the count, so both may be read together.
ReadValueCount(t, k) ==
    /\ pc[t] = "building" /\ k \in DOMAIN mutation[t] \ DOMAIN ordinals[t]
    /\ IF EndsBefore(k, base[t])
       THEN /\ ordinals' = [ordinals EXCEPT ![t] = Over([x \in {k} |-> counts[k]], @)]
            /\ UNCHANGED pc
       ELSE Goto(t, "corrupt") /\ UNCHANGED ordinals
    /\ UNCHANGED <<store, base, mutation, contents, reader>>

FinishUpdate(t) ==
    /\ pc[t] = "building" /\ DOMAIN ordinals[t] = DOMAIN mutation[t]
    /\ Goto(t, "prepared")
    /\ UNCHANGED <<store, base, mutation, contents, ordinals, reader>>

-----------------------------------------------------------------------------
(* Committing it *)

Cleared(t) ==
    /\ Goto(t, "idle")
    /\ base' = [base EXCEPT ![t] = 0]
    /\ mutation' = [mutation EXCEPT ![t] = NoFunction]
    /\ contents' = [contents EXCEPT ![t] = Empty]
    /\ ordinals' = [ordinals EXCEPT ![t] = NoFunction]

\* Variant: an entry carries the version it replaces.
ValueWritesAtPrevious(t) ==
    [place \in {<<k, ordinals[t][k]>> : k \in DOMAIN ordinals[t]} |->
        [version |-> IF base[t] = 0 THEN 0 ELSE base[t] - 1, value |-> mutation[t][place[1]]]]

\* The value entries, each at the count its key had.
ValueWrites(t) ==
    [place \in {<<k, ordinals[t][k]>> : k \in DOMAIN ordinals[t]} |->
        [version |-> base[t], value |-> mutation[t][place[1]]]]

Written(t) ==
    /\ height' = height + 1
    /\ nodes' = Over([v \in {base[t]} |-> contents[t]], nodes)
    /\ roots' = Over([v \in {base[t]} |-> contents[t]], roots)
    /\ latest' = base[t]
    /\ counts' = [k \in LatestKeys |->
                    IF k \in DOMAIN ordinals[t] THEN ordinals[t][k] + 1 ELSE counts[k]]
    /\ entries' = Over(ValueWrites(t), entries)

\* Variant: the block is written whatever was committed since.
CommitStale(t) ==
    /\ pc[t] = "prepared"
    /\ Written(t)
    /\ Cleared(t)
    /\ UNCHANGED reader

\* append_to puts all writes into the batch of the block, which the store
\* applies as a whole when the block is the successor of the last one.
Commit(t) ==
    /\ pc[t] = "prepared" /\ base[t] = height
    /\ Written(t)
    /\ Cleared(t)
    /\ UNCHANGED reader

\* The update fails, or its block is refused or dropped.
Abandon(t) ==
    /\ pc[t] # "idle"
    /\ Cleared(t)
    /\ UNCHANGED <<store, reader>>

-----------------------------------------------------------------------------
(* query_key over the live store *)

Move(r, place) == at' = [at EXCEPT ![r] = place]

\* MissingVersion.
RefuseQuery(r, k, v) ==
    /\ at[r] = "idle" /\ v \notin DOMAIN roots
    /\ UNCHANGED vars

ReadRoot(r, k, v) ==
    /\ at[r] = "idle" /\ v \in DOMAIN roots
    /\ Move(r, "rooted")
    /\ asked' = [asked EXCEPT ![r] = [key |-> k, version |-> v]]
    /\ root' = [root EXCEPT ![r] = roots[v]]
    /\ UNCHANGED <<store, task, proof, search, answer>>

\* get_with_proof descends the nodes of the version to the key.
Descend(r) ==
    /\ at[r] = "rooted"
    /\ IF asked[r].version \in DOMAIN nodes
       THEN /\ proof' = [proof EXCEPT ![r] = nodes[asked[r].version]]
            /\ Move(r, IF nodes[asked[r].version][asked[r].key] = None THEN "found" ELSE "leaf")
       ELSE Move(r, "failed") /\ UNCHANGED proof
    /\ UNCHANGED <<store, task, asked, root, search, answer>>

\* Variant: the newest entry is out of the search.
ReadCountShort(r) ==
    /\ at[r] = "leaf"
    /\ Move(r, "searching")
    /\ low' = [low EXCEPT ![r] = 0]
    /\ high' = [high EXCEPT ![r] = IF counts[asked[r].key] = 0 THEN 0 ELSE counts[asked[r].key] - 1]
    /\ UNCHANGED <<store, task, asked, root, proof, answer>>

\* read_value_at_or_before: the count first ...
ReadCount(r) ==
    /\ at[r] = "leaf"
    /\ Move(r, "searching")
    /\ low' = [low EXCEPT ![r] = 0]
    /\ high' = [high EXCEPT ![r] = counts[asked[r].key]]
    /\ UNCHANGED <<store, task, asked, root, proof, answer>>

Middle(r) == low[r] + (high[r] - low[r]) \div 2
EntryAt(r, ordinal) == <<asked[r].key, ordinal>>

\* ... then one entry after the other ...
Probe(r) ==
    /\ at[r] = "searching" /\ low[r] < high[r]
    /\ IF EntryAt(r, Middle(r)) \notin DOMAIN entries
       THEN Move(r, "failed") /\ UNCHANGED search
       ELSE /\ IF entries[EntryAt(r, Middle(r))].version <= asked[r].version
               THEN low' = [low EXCEPT ![r] = Middle(r) + 1] /\ UNCHANGED high
               ELSE high' = [high EXCEPT ![r] = Middle(r)] /\ UNCHANGED low
            /\ UNCHANGED at
    /\ UNCHANGED <<store, task, asked, root, proof, answer>>

\* ... and the value of the one before the end; a leaf must have one.
ReadValue(r) ==
    /\ at[r] = "searching" /\ low[r] >= high[r]
    /\ IF low[r] > 0 /\ EntryAt(r, low[r] - 1) \in DOMAIN entries
       THEN /\ answer' = [answer EXCEPT ![r] = entries[EntryAt(r, low[r] - 1)].value]
            /\ Move(r, IF answer'[r] = None THEN "failed" ELSE "found")
       ELSE Move(r, "failed") /\ UNCHANGED answer
    /\ UNCHANGED <<store, task, asked, root, proof, search>>

\* LatestQueryV1::verify: the proof binds root, key and value.
Verify(r) ==
    /\ at[r] = "found"
    /\ Move(r, IF proof[r] = root[r] /\ proof[r][asked[r].key] = answer[r]
               THEN "answered" ELSE "failed")
    /\ UNCHANGED <<store, task, asked, root, proof, search, answer>>

Return(r) ==
    /\ at[r] \in {"answered", "failed"}
    /\ Move(r, "idle")
    /\ asked' = [asked EXCEPT ![r] = None]
    /\ root' = [root EXCEPT ![r] = Empty]
    /\ proof' = [proof EXCEPT ![r] = Empty]
    /\ low' = [low EXCEPT ![r] = 0]
    /\ high' = [high EXCEPT ![r] = 0]
    /\ answer' = [answer EXCEPT ![r] = None]
    /\ UNCHANGED <<store, task>>

Update(t) ==
    \/ Begin(t) \/ ReadLatestVersion(t) \/ FinishUpdate(t) \/ Commit(t) \/ Abandon(t)
    \/ \E m \in Mutations : PutValueSet(t, m)
    \/ \E k \in LatestKeys : ReadValueCount(t, k)

Query(r) ==
    \/ \E k \in LatestKeys, v \in 0..MaxBlocks : RefuseQuery(r, k, v) \/ ReadRoot(r, k, v)
    \/ Descend(r) \/ ReadCount(r) \/ Probe(r) \/ ReadValue(r) \/ Verify(r) \/ Return(r)

Next == (\E t \in Tasks : Update(t)) \/ (\E r \in Readers : Query(r))

Spec == Init /\ [][Next]_vars

-----------------------------------------------------------------------------
(* Types *)

Entries == [version : Nat, value : Values \cup {None}]
TaskPlaces == {"idle", "begun", "versioned", "building", "prepared", "refused", "corrupt"}
ReaderPlaces == {"idle", "rooted", "leaf", "searching", "found", "answered", "failed"}
Queries == [key : LatestKeys, version : Nat]

\* Every stored key and every local variable holds what the code decodes.
TypeOK ==
    /\ height \in Nat
    /\ nodes \in [DOMAIN nodes -> Contents] /\ DOMAIN nodes \subseteq Nat
    /\ roots \in [DOMAIN roots -> Contents] /\ DOMAIN roots \subseteq Nat
    /\ latest \in Nat \cup {None}
    /\ counts \in [LatestKeys -> Nat]
    /\ entries \in [DOMAIN entries -> Entries] /\ DOMAIN entries \subseteq LatestKeys \X Nat
    /\ pc \in [Tasks -> TaskPlaces]
    /\ base \in [Tasks -> Nat]
    /\ mutation \in [Tasks -> Mutations]
    /\ contents \in [Tasks -> Contents]
    /\ DOMAIN ordinals = Tasks
    /\ \A t \in Tasks :
          /\ ordinals[t] \in [DOMAIN ordinals[t] -> Nat]
          /\ DOMAIN ordinals[t] \subseteq DOMAIN mutation[t]
    /\ at \in [Readers -> ReaderPlaces]
    /\ asked \in [Readers -> Queries \cup {None}]
    /\ root \in [Readers -> Contents] /\ proof \in [Readers -> Contents]
    /\ low \in [Readers -> Nat] /\ high \in [Readers -> Nat]
    /\ answer \in [Readers -> Values \cup {None}]

-----------------------------------------------------------------------------
(* Properties *)

\* The value history of a key, read at a version: its last entry at or before
\* that version.
ValueAt(k, v) ==
    LET written == {i \in 0..(counts[k] - 1) : entries[<<k, i>>].version <= v} IN
    IF written = {} THEN None
    ELSE entries[<<k, CHOOSE i \in written : \A j \in written : j <= i>>].value

\* The three stores of one map agree at every committed version, for every key
\* whether it was set, deleted, set again or never written: the root, the tree
\* nodes it is the root of, and the value histories that the tree reads.
HistoriesAgree ==
    /\ DOMAIN roots = 0..(height - 1) /\ DOMAIN nodes = DOMAIN roots
    /\ latest = IF height = 0 THEN None ELSE height - 1
    /\ \A v \in DOMAIN roots :
          roots[v] = nodes[v] /\ \A k \in LatestKeys : nodes[v][k] = ValueAt(k, v)

\* A query that finds the root of its version is answered with the value of its
\* key at that version, whatever blocks are committed between its reads; it
\* never reports a corrupt store (query_key, read_value_at_or_before).
QueriesExact ==
    \A r \in Readers :
        /\ at[r] # "failed"
        /\ at[r] = "answered" => answer[r] = ValueAt(asked[r].key, asked[r].version)

\* prepare_update refuses its version or reports a corrupt value history only
\* when another block was committed since its block recovered the store.
RefusalNeedsRace ==
    \A t \in Tasks : pc[t] \in {"refused", "corrupt"} => base[t] < height

VersionCount == IF latest = None THEN 0 ELSE latest + 1

\* The trees of the versions up to the latest one implement the versioned map:
\* no version is lost, skipped or changed, although each was prepared long
\* before it was committed.
VersionedMap == INSTANCE LanternVersionedMap WITH
    MapKeys <- LatestKeys, MapValues <- Values, Absent <- None,
    versions <- [i \in 1..VersionCount |-> nodes[i - 1]]
SerialVersions == VersionedMap!Spec
=============================================================================
