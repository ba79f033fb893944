---------------------------- MODULE LanternHistory ----------------------------
(***************************************************************************)
(* The history log of crates/lantern-history: a Merkle mountain range in   *)
(* the column family MmrNodes, the preparation of appends over the live    *)
(* store, and the proofs of inclusion and of consistency that it produces  *)
(* and verifies.                                                           *)
(*                                                                         *)
(* A hash is the term it was computed from, so two hashes are equal only   *)
(* when their inputs are.  Positions and leaf counts are those of the code *)
(* with 63 replaced by TopHeight: the range holds at most 2^TopHeight      *)
(* leaves.                                                                 *)
(*                                                                         *)
(* Nodes and prefix roots are written once (AppendOnly), so the reads of a *)
(* task that follow the two metadata reads may be taken together.          *)
(***************************************************************************)
EXTENDS Integers, Sequences, SequencesExt, FiniteSetsExt

CONSTANTS
    Tasks,        \* block preparations that run side by side
    Records,      \* compact history records
    TopHeight,    \* height of the tallest peak, 63 in the code
    MaxBatch,     \* bound: records of one block
    MaxBlocks     \* bound: height at which no block is begun

ASSUME HeightAssumption == TopHeight \in Nat
ASSUME BatchAssumption == MaxBatch \in Nat /\ MaxBlocks \in Nat

VARIABLES
    nodes,        \* postorder position -> hash, a partial function
    roots,        \* prefix size -> root, a partial function
    current,      \* the keys current-size and current-root, a partial function
    records,      \* the record archive of lantern-state, leaf i at i + 1
    height,       \* the height of the last committed block
    pc,           \* where each task is
    base,         \* the height a task's block is built on
    size,         \* the current-size a task has read, 0 when absent
    builder       \* the AppendBuilder of a task, then its PreparedHistoryAppend

store == <<nodes, roots, current, records, height>>
task == <<pc, base, size, builder>>
vars == <<store, task>>

-----------------------------------------------------------------------------
(* Coordinates and positions *)

PowerOfTwo[h \in 0..(TopHeight + 1)] == IF h = 0 THEN 1 ELSE 2 * PowerOfTwo[h - 1]

MaxLeaves == PowerOfTwo[TopHeight]
Width(h) == PowerOfTwo[h]
Bit(n, k) == (n \div Width(k)) % 2
Ones(n) == {k \in 0..TopHeight : Bit(n, k) = 1}

\* Number of postorder nodes after n leaves.
MmrNodeCount(n) == 2 * n - Cardinality(Ones(n))

\* One peak for each binary one of n, the tallest first: after[k] is the layout
\* when the k highest digits have been looked at.
PeakLayout(n) ==
    LET after[k \in 0..(TopHeight + 1)] ==
            IF k = 0 THEN <<>>
            ELSE LET h == TopHeight + 1 - k IN
                 IF Bit(n, h) = 0 THEN after[k - 1]
                 ELSE Append(after[k - 1], [start |-> n - (n % Width(h + 1)), height |-> h])
    IN after[TopHeight + 1]

\* Heights of the perfect subtrees that may stand at cursor in a range up to n.
SubtreesAt(cursor, n) ==
    {h \in 0..TopHeight : cursor + Width(h) <= n /\ cursor % Width(h) = 0}

\* Variant: the peaks of the longer range that start in it.
CanonicalRangeOfPeaks(m, n) == SelectSeq(PeakLayout(n), LAMBDA c : c.start >= m)

\* The perfect subtrees, left to right, that fill leaves m to n - 1.
CanonicalRange(m, n) ==
    LET from[cursor \in m..n] ==
            IF cursor = n THEN <<>>
            ELSE LET h == Max(SubtreesAt(cursor, n)) IN
                 <<[start |-> cursor, height |-> h]>> \o from[cursor + Width(h)]
    IN from[m]

\* Variant: the height of the node is left out.
NodePositionOfLastLeaf(c) ==
    LET end == c.start + Width(c.height) - 1 IN 2 * end - Cardinality(Ones(end))

\* A node stands after the subtrees of its last leaf.
NodePosition(c) ==
    LET end == c.start + Width(c.height) - 1 IN
    2 * end - Cardinality(Ones(end)) + c.height

-----------------------------------------------------------------------------
(* Hashes and peaks *)

LeafHash(index, record) == <<"leaf", index, record>>
ParentHash(h, left, right) == <<"node", h, left, right>>

\* root_from_peak_hashes: commits the leaf count and every peak with its height.
\* Every caller has checked that there is one hash for each peak.
RootOfHashes(n, hashes) ==
    LET layout == PeakLayout(n) IN
    <<"root", n, [i \in DOMAIN layout |-> <<layout[i].height, hashes[i]>>]>>

Place(layout, hashes) ==
    [i \in DOMAIN layout |-> [coordinate |-> layout[i], hash |-> hashes[i]]]
Coordinates(peaks) == [i \in DOMAIN peaks |-> peaks[i].coordinate]
Hashes(peaks) == [i \in DOMAIN peaks |-> peaks[i].hash]

\* root_from_peaks: its check of the coordinates, and its result.
OnLayout(n, peaks) == Coordinates(peaks) = PeakLayout(n)
RootOfPeaks(n, peaks) == RootOfHashes(n, Hashes(peaks))

EmptyRoot == RootOfHashes(0, <<>>)

\* Variant: the carry becomes the left child.
JoinedSwapped(left, right) ==
    LET h == right.coordinate.height + 1 IN
    [coordinate |-> [start |-> left.coordinate.start, height |-> h],
     hash |-> ParentHash(h, right.hash, left.hash)]

Joined(left, right) ==
    LET h == right.coordinate.height + 1 IN
    [coordinate |-> [start |-> left.coordinate.start, height |-> h],
     hash |-> ParentHash(h, left.hash, right.hash)]

\* The carry after it has joined the last i peaks.
Carried(peaks, carry) ==
    LET after[i \in 0..Len(peaks)] ==
            IF i = 0 THEN carry ELSE Joined(peaks[Len(peaks) - i + 1], after[i - 1])
    IN after

\* The loop goes on while the last peak that is left has the height of the carry.
Joins(peaks, carry) ==
    CHOOSE i \in 0..Len(peaks) :
        /\ \A k \in 0..(i - 1) : peaks[Len(peaks) - k].coordinate.height = carry.coordinate.height + k
        /\ i < Len(peaks) => peaks[Len(peaks) - i].coordinate.height # carry.coordinate.height + i

\* "made" holds the nodes in the order they come into being.
MergePeak(peaks, carry) ==
    LET carried == Carried(peaks, carry)
        joins == Joins(peaks, carry)
        rest == Len(peaks) - joins
    IN [peaks |-> Append(SubSeq(peaks, 1, rest), carried[joins]),
        made |-> [i \in 1..(joins + 1) |-> carried[i - 1]],
        adjacent |-> \A i \in 1..joins :
            LET left == peaks[Len(peaks) - i + 1].coordinate IN
            carried[i - 1].coordinate.start = left.start + Width(left.height)]

-----------------------------------------------------------------------------
(* Reading the committed range *)

Present(layout) == \A i \in DOMAIN layout : NodePosition(layout[i]) \in DOMAIN nodes
ReadNodes(layout) == [i \in DOMAIN layout |-> nodes[NodePosition(layout[i])]]
ReadPeaks(n) == Place(PeakLayout(n), ReadNodes(PeakLayout(n)))
ReadRootAt(n) == IF n = 0 THEN EmptyRoot ELSE roots[n]

\* The checks of load_current: a size was read before, the root is read now.
Sound(n) ==
    \/ n = 0 /\ "root" \notin DOMAIN current
    \/ /\ n # 0 /\ "root" \in DOMAIN current
       /\ n \in DOMAIN roots /\ roots[n] = current.root
       /\ Present(PeakLayout(n)) /\ RootOfPeaks(n, ReadPeaks(n)) = current.root

-----------------------------------------------------------------------------
(* Building an append *)

NoBuilder == [peaks |-> <<>>, count |-> 0, next |-> 0, nodes |-> <<>>, roots |-> <<>>,
              records |-> <<>>, root |-> EmptyRoot]

\* AppendBuilder::new over the loaded state.
LoadedBuilder(n) ==
    [NoBuilder EXCEPT !.peaks = ReadPeaks(n), !.count = n, !.next = MmrNodeCount(n),
                      !.root = ReadRootAt(n)]

Extended(f, from, values) ==
    [k \in DOMAIN f \cup from..(from + Len(values) - 1) |->
        IF k \in from..(from + Len(values) - 1) THEN values[k - from + 1] ELSE f[k]]

\* The peaks of a builder take a record as their next leaf.
MergeRecord(b, record) ==
    MergePeak(b.peaks, [coordinate |-> [start |-> b.count, height |-> 0],
                        hash |-> LeafHash(b.count, record)])

\* The checks of append_record and append_new_node: adjacent peaks, each node at
\* the next position, no key that exists, and the layout of the longer prefix.
Appendable(b, merge) ==
    /\ merge.adjacent
    /\ \A i \in DOMAIN merge.made :
          /\ NodePosition(merge.made[i].coordinate) = b.next + i - 1
          /\ b.next + i - 1 \notin DOMAIN nodes
    /\ OnLayout(b.count + 1, merge.peaks)
    /\ b.count + 1 \notin DOMAIN roots

\* One record: its leaf, the parents it completes and the root of the new prefix.
AppendRecord(b, record) ==
    LET merge == MergeRecord(b, record)
        root == RootOfPeaks(b.count + 1, merge.peaks)
    IN [peaks |-> merge.peaks,
        count |-> b.count + 1,
        next |-> b.next + Len(merge.made),
        nodes |-> Extended(b.nodes, b.next, Hashes(merge.made)),
        roots |-> Extended(b.roots, b.count + 1, <<root>>),
        records |-> Append(b.records, record),
        root |-> root]

Consistent(b) == b.next = MmrNodeCount(b.count)

Over(new, old) ==
    [k \in DOMAIN new \cup DOMAIN old |-> IF k \in DOMAIN new THEN new[k] ELSE old[k]]

-----------------------------------------------------------------------------
(* The state machine *)

Init ==
    /\ nodes = <<>> /\ roots = <<>> /\ current = <<>> /\ records = <<>> /\ height = 0
    /\ pc = [t \in Tasks |-> "idle"]
    /\ base = [t \in Tasks |-> 0]
    /\ size = [t \in Tasks |-> 0]
    /\ builder = [t \in Tasks |-> NoBuilder]

\* A block starts from the committed height.
Begin(t) ==
    /\ pc[t] = "idle" /\ height < MaxBlocks
    /\ pc' = [pc EXCEPT ![t] = "begun"]
    /\ base' = [base EXCEPT ![t] = height]
    /\ UNCHANGED <<store, size, builder>>

\* load_current reads current-size ...
ReadSize(t) ==
    /\ pc[t] = "begun"
    /\ pc' = [pc EXCEPT ![t] = "sized"]
    /\ size' = [size EXCEPT ![t] = IF "size" \in DOMAIN current THEN current.size ELSE 0]
    /\ UNCHANGED <<store, base, builder>>

\* ... then current-root, and checks the pair against the prefix root and peaks.
ReadRoot(t) ==
    /\ pc[t] = "sized"
    /\ IF Sound(size[t])
       THEN /\ pc' = [pc EXCEPT ![t] = "loaded"]
            /\ builder' = [builder EXCEPT ![t] = LoadedBuilder(size[t])]
       ELSE pc' = [pc EXCEPT ![t] = "corrupt"] /\ UNCHANGED builder
    /\ UNCHANGED <<store, base, size>>

\* prepare_append takes the records of its batch one by one, as many as fit.
AddRecord(t) ==
    /\ pc[t] = "loaded"
    /\ Len(builder[t].records) < MaxBatch /\ builder[t].count < MaxLeaves
    /\ \E record \in Records :
        IF Appendable(builder[t], MergeRecord(builder[t], record))
        THEN /\ builder' = [builder EXCEPT ![t] = AppendRecord(@, record)]
             /\ UNCHANGED pc
        ELSE pc' = [pc EXCEPT ![t] = "corrupt"] /\ UNCHANGED builder
    /\ UNCHANGED <<store, base, size>>

\* At the end of the batch its counters must agree; nothing is written yet.
Finish(t) ==
    /\ pc[t] = "loaded"
    /\ pc' = [pc EXCEPT ![t] = IF Consistent(builder[t]) THEN "prepared" ELSE "corrupt"]
    /\ UNCHANGED <<store, base, size, builder>>

Written(b) ==
    /\ nodes' = Over(b.nodes, nodes)
    /\ roots' = Over(b.roots, roots)
    /\ current' = IF b.records = <<>> THEN current ELSE [size |-> b.count, root |-> b.root]
    /\ records' = records \o b.records
    /\ height' = height + 1

\* Variant: the batch is written whatever was committed since.
CommitStale(t) ==
    /\ pc[t] = "prepared"
    /\ Written(builder[t])
    /\ pc' = [pc EXCEPT ![t] = "idle"]
    /\ UNCHANGED <<base, size, builder>>

\* The block is written as one batch when it is the successor of the last one.
Commit(t) ==
    /\ pc[t] = "prepared" /\ base[t] = height
    /\ Written(builder[t])
    /\ pc' = [pc EXCEPT ![t] = "idle"]
    /\ UNCHANGED <<base, size, builder>>

\* A block is given up at any point: refused, dropped, or failed elsewhere.
Abandon(t) ==
    /\ pc[t] # "idle"
    /\ pc' = [pc EXCEPT ![t] = "idle"]
    /\ UNCHANGED <<store, base, size, builder>>

\* The end of a bounded behaviour.
AtBound == height = MaxBlocks /\ (\A t \in Tasks : pc[t] = "idle") /\ UNCHANGED vars

Next ==
    \/ \E t \in Tasks :
        \/ Begin(t) \/ ReadSize(t) \/ ReadRoot(t)
        \/ AddRecord(t) \/ Finish(t) \/ Commit(t) \/ Abandon(t)
    \/ AtBound

Spec == Init /\ [][Next]_vars

-----------------------------------------------------------------------------
(* Proofs over the committed range *)

\* target_peak: the place in a layout of the peak that covers a leaf.
TargetPeak(layout, index) ==
    CHOOSE i \in DOMAIN layout :
        index \in layout[i].start..(layout[i].start + Width(layout[i].height) - 1)

SiblingStart(index, level) ==
    LET own == index - (index % Width(level)) IN
    IF Bit(index, level) = 0 THEN own + Width(level) ELSE own - Width(level)

\* inclusion_query, without its self-verification.
InclusionProof(index, n) ==
    LET layout == PeakLayout(n)
        levels == layout[TargetPeak(layout, index)].height IN
    [leaf_index |-> index, leaf_count |-> n, peaks |-> ReadNodes(layout),
     siblings |-> ReadNodes([l \in 1..levels |->
                    [start |-> SiblingStart(index, l - 1), height |-> l - 1]])]

InclusionStructure(proof) ==
    LET layout == PeakLayout(proof.leaf_count) IN
    /\ proof.leaf_index < proof.leaf_count
    /\ Len(proof.siblings) = layout[TargetPeak(layout, proof.leaf_index)].height
    /\ Len(proof.peaks) = Len(layout)

\* Variant: the path is climbed as if every node were a left child.
ClimbLeft(proof, record) ==
    LET node[l \in 0..Len(proof.siblings)] ==
            IF l = 0 THEN LeafHash(proof.leaf_index, record)
            ELSE ParentHash(l, node[l - 1], proof.siblings[l])
    IN node[Len(proof.siblings)]

\* The digits of the index say on which side each sibling stands.
Climb(proof, record) ==
    LET node[l \in 0..Len(proof.siblings)] ==
            IF l = 0 THEN LeafHash(proof.leaf_index, record)
            ELSE IF Bit(proof.leaf_index, l - 1) = 0
                 THEN ParentHash(l, node[l - 1], proof.siblings[l])
                 ELSE ParentHash(l, proof.siblings[l], node[l - 1])
    IN node[Len(proof.siblings)]

VerifyInclusion(root, record, proof) ==
    LET layout == PeakLayout(proof.leaf_count) IN
    /\ InclusionStructure(proof)
    /\ proof.peaks[TargetPeak(layout, proof.leaf_index)] = Climb(proof, record)
    /\ RootOfHashes(proof.leaf_count, proof.peaks) = root

\* consistency_query, without its self-verification.
ConsistencyProof(m, n) ==
    [old_size |-> m, new_size |-> n,
     old_peaks |-> ReadNodes(PeakLayout(m)),
     appended_subtrees |-> ReadNodes(CanonicalRange(m, n))]

ConsistencyStructure(proof) ==
    /\ proof.old_size <= proof.new_size
    /\ Len(proof.old_peaks) = Len(PeakLayout(proof.old_size))
    /\ Len(proof.appended_subtrees) = Len(CanonicalRange(proof.old_size, proof.new_size))

\* The old peaks after the first k appended subtrees were merged into them.
Merged(proof) ==
    LET range == Place(CanonicalRange(proof.old_size, proof.new_size), proof.appended_subtrees)
        after[k \in 0..Len(range)] ==
            IF k = 0
            THEN [peaks |-> Place(PeakLayout(proof.old_size), proof.old_peaks), adjacent |-> TRUE]
            ELSE LET before == after[k - 1]
                     merge == MergePeak(before.peaks, range[k]) IN
                 [peaks |-> merge.peaks, adjacent |-> before.adjacent /\ merge.adjacent]
    IN after[Len(range)]

\* The old peaks and the appended subtrees, merged in order, give the new root.
ReachesRoot(newRoot, proof) ==
    LET end == Merged(proof) IN
    /\ end.adjacent /\ OnLayout(proof.new_size, end.peaks)
    /\ RootOfPeaks(proof.new_size, end.peaks) = newRoot

\* Variant: the old root is taken on trust.
VerifyConsistencyNewOnly(oldRoot, newRoot, proof) ==
    ConsistencyStructure(proof) /\ ReachesRoot(newRoot, proof)

VerifyConsistency(oldRoot, newRoot, proof) ==
    /\ ConsistencyStructure(proof)
    /\ RootOfHashes(proof.old_size, proof.old_peaks) = oldRoot
    /\ ReachesRoot(newRoot, proof)

-----------------------------------------------------------------------------
(* The reference: what the range says of a sequence of records *)

Subtrees(n) ==
    {c \in [start : 0..(n - 1), height : 0..TopHeight] :
        c.start % Width(c.height) = 0 /\ c.start + Width(c.height) <= n}
Covers(c, d) ==
    c.start <= d.start /\ d.start + Width(d.height) <= c.start + Width(c.height)

\* The hash of a perfect subtree, level by level from the leaves.
PerfectHash(log, c) ==
    LET level[h \in 0..TopHeight] ==
            [start \in Nat |->
                IF h = 0 THEN LeafHash(start, log[start + 1])
                ELSE ParentHash(h, level[h - 1][start], level[h - 1][start + Width(h - 1)])]
    IN level[c.height][c.start]

\* The subtrees of a log no other contains, from left to right.
Peaks(n) == {c \in Subtrees(n) : \A d \in Subtrees(n) : Covers(d, c) => d = c}
Mountains(n) ==
    CHOOSE m \in [1..Cardinality(Peaks(n)) -> Peaks(n)] :
        /\ Range(m) = Peaks(n)
        /\ \A i, j \in DOMAIN m : i < j => m[i].start < m[j].start
MountainHashes(log) ==
    LET peaks == Mountains(Len(log)) IN [i \in DOMAIN peaks |-> PerfectHash(log, peaks[i])]
ReferenceRoot(log) ==
    LET peaks == Mountains(Len(log)) IN
    <<"root", Len(log),
      [i \in DOMAIN peaks |-> <<peaks[i].height, PerfectHash(log, peaks[i])>>]>>

Committed(n) == SubSeq(records, 1, n)
Sizes == 0..Len(records)

-----------------------------------------------------------------------------
(* Properties *)

\* Every variable has its type.
TypeOK ==
    /\ records \in Seq(Records) /\ Len(records) <= MaxLeaves
    /\ DOMAIN nodes \subseteq Nat /\ DOMAIN roots \subseteq Nat
    /\ "size" \in DOMAIN current => current.size \in 1..MaxLeaves
    /\ height \in 0..MaxBlocks
    /\ pc \in [Tasks -> {"idle", "begun", "sized", "loaded", "prepared", "corrupt"}]
    /\ base \in [Tasks -> 0..MaxBlocks]
    /\ size \in [Tasks -> 0..MaxLeaves]
    /\ \A t \in Tasks : builder[t].records \in BoundedSeq(Records, MaxBatch)

\* However the records came in blocks, the store holds exactly the mountain
\* range of their sequence: every perfect subtree at its postorder position, no
\* position left out or taken twice, and the root of every prefix.
MountainRange ==
    /\ DOMAIN roots = 1..Len(records)
    /\ \A n \in DOMAIN roots : roots[n] = ReferenceRoot(Committed(n))
    /\ DOMAIN nodes = 0..(Cardinality(Subtrees(Len(records))) - 1)
    /\ \A c \in Subtrees(Len(records)) : nodes[NodePosition(c)] = PerfectHash(records, c)
    /\ current = IF records = <<>> THEN <<>>
                 ELSE [size |-> Len(records), root |-> roots[Len(records)]]

\* append_new_node and ensure_absent promise that nothing is ever overwritten:
\* a node or prefix root, once written, is never changed and never removed,
\* although the check and the write are far apart.
AppendOnly ==
    [][/\ \A p \in DOMAIN nodes : p \in DOMAIN nodes' /\ nodes'[p] = nodes[p]
       /\ \A n \in DOMAIN roots : n \in DOMAIN roots' /\ roots'[n] = roots[n]]_vars

\* A task reports a corrupt store only when another task committed records
\* between its reads (its metadata reads, or its checks of absence).
CorruptionNeedsRace ==
    \A t \in Tasks : pc[t] = "corrupt" => size[t] < Len(records)

\* The inclusion proof of a leaf, at every prefix size that holds it, verifies
\* with the record of that leaf and that index, and with no other.
InclusionExact ==
    \A n \in Sizes : \A i, j \in 0..(n - 1) : \A r \in Records :
        VerifyInclusion(ReadRootAt(n), r, [InclusionProof(i, n) EXCEPT !.leaf_index = j])
            <=> i = j /\ r = records[i + 1]

\* Every prefix is proved to be the beginning of every later one.
ConsistencyComplete ==
    \A m, n \in Sizes : m <= n =>
        VerifyConsistency(ReadRootAt(m), ReadRootAt(n), ConsistencyProof(m, n))

\* The root of a history that differs in one record is never shown to be the
\* beginning of this one, with its own peaks or with those of this history.
ForkRefused ==
    \A m \in Sizes : \A i \in 1..m : \A r \in Records \ {records[i]} :
        LET fork == [Committed(m) EXCEPT ![i] = r]
            forkRoot == ReferenceRoot(fork)
            forkPeaks == MountainHashes(fork) IN
        \A n \in m..Len(records) :
            LET proof == ConsistencyProof(m, n) IN
            /\ ~VerifyConsistency(forkRoot, ReadRootAt(n), proof)
            /\ ~VerifyConsistency(forkRoot, ReadRootAt(n), [proof EXCEPT !.old_peaks = forkPeaks])
=============================================================================
