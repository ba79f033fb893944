---------------------- MODULE LanternCheckpoints_proofs ----------------------
(***************************************************************************)
(* Proofs about LanternCheckpoints, for any number of threads and keepers, *)
(* of paths, blocks and crashes.  What LanternStore_proofs shows of the    *)
(* store alone is used for the store among its keepers.                    *)
(***************************************************************************)
EXTENDS LanternCheckpoints, LanternStore_proofs

-----------------------------------------------------------------------------
(* The inductive invariant *)

\* A creation past its start holds the coordination mutex.
CreatorsHold ==
    \A k \in Keepers : job[k] # None =>
        (job[k].kind = "checkpoint" /\ job[k].step # "staged" => holder = k)

\* The metadata a creation has read is still that of the database.
DescribedCurrent ==
    \A k \in Keepers : job[k] # None =>
        (job[k].step = "described" => Height > 0 /\ job[k].manifest = Tip(wal))

\* Whose manifest is known, and where a restoration copies from.
Sourced ==
    \A k \in Keepers : job[k] # None =>
        /\ (job[k].kind = "database" \/ job[k].step \notin {"staged", "locked"})
               => job[k].manifest \in Manifests
        /\ job[k].kind = "checkpoint" => job[k].step # "checked"
        /\ job[k].kind = "database" =>
               job[k].step \notin {"locked", "described"}
               /\ job[k].from \in Paths /\ published[job[k].from] # None

\* A copy of the log holds entries that are on the device.
OnDevice(log) == Len(log) <= synced /\ \A i \in 1..Len(log) : log[i] = wal[i]

\* What a job has copied is on the device of its source, agrees with the
\* manifest once that was read or checked, is synced before it is published, and
\* is at its path after the rename.
CopySoundOf(j) ==
    /\ j.step \in {"filled", "synced", "checked", "renamed"} => OnDevice(j.log)
    /\ (\/ j.step \in {"checked", "renamed"}
        \/ j.kind = "checkpoint" /\ j.step \in {"filled", "synced"})
           => j.manifest = Tip(j.log)
    /\ j.step \in {"synced", "checked", "renamed"} => j.files = "durable"
    /\ j.step = "renamed" => published[j.to] # None
CopiesSound == \A k \in Keepers : job[k] # None => CopySoundOf(job[k])

\* The same of what is published; a promised directory has its name on the device.
PublishedSound ==
    /\ \A p \in Paths : published[p] # None =>
           /\ OnDevice(published[p].log)
           /\ published[p].manifest = Tip(published[p].log)
           /\ published[p].files = "durable"
    /\ \A p \in promised : published[p] # None /\ published[p].linked

CInv ==
    /\ CreatorsHold /\ DescribedCurrent /\ Sourced
    /\ CopiesSound /\ PublishedSound

StoreInv == TypeOK /\ Created /\ IInv
AllInv == TypeOKCheckpoints /\ StoreInv /\ CInv

-----------------------------------------------------------------------------
(* The store among its keepers *)

\* No step takes an entry that is on the device.
LogKept == synced <= synced' /\ \A i \in 1..synced : wal'[i] = wal[i]

\* A copy made once remains one.
LEMMA CopyStays ==
    ASSUME TypeOK, LogKept, NEW log \in Logs, OnDevice(log), synced' \in Nat
    PROVE  Len(log) <= synced' /\ \A i \in 1..Len(log) : log[i] = wal'[i]
<1>1. Len(log) \in Nat /\ Len(log) <= synced /\ \A i \in 1..Len(log) : log[i] = wal[i]
  BY DEF Logs, OnDevice
<1>2. synced \in Nat
  BY DEF TypeOK
<1> QED
  BY <1>1, <1>2 DEF LogKept

\* A step of the store keeps its invariant, what is on the device, and the log
\* and the mutex while a keeper holds the mutex of a database that has blocks.
LEMMA StoreStepSound ==
    ASSUME StoreInv, StoreStep
    PROVE  /\ StoreInv'
           /\ LogKept
           /\ \A k \in Keepers : holder = k => holder' = k /\ (wal # <<>> => UNCHANGED wal)
<1> USE DEF StoreInv
<1>0. Len(wal) \in Nat /\ synced \in 0..Len(wal)
  BY DEF TypeOK
<1>1. StoreInv'
  BY OpenType, OpenKeeps, PrepareType, PrepareKeeps, CommitType, CommitKeeps, TypeStep,
     StoreStepKeeps
  DEF StoreStep, AtBound
<1>2. CASE Open
  <2>1. CASE InitializeIdentity
    <3>1. wal = <<>> /\ Len(wal) = 0 /\ synced = 0 /\ synced' = 1 /\ UNCHANGED holder
      BY <1>0, <2>1 DEF InitializeIdentity, Write, Created
    <3> QED
      BY <1>1, <3>1 DEF LogKept
  <2>2. ASSUME ~InitializeIdentity PROVE UNCHANGED <<wal, synced, holder>>
    BY <1>2, <2>2 DEF Open, CreateDatabase, CreateColumnFamilies, OpenExisting, RefuseOpen,
                      device, vars
  <2> QED
    BY <1>0, <1>1, <2>1, <2>2 DEF LogKept
<1>3. ASSUME NEW t \in Threads, PrepareStep(t) PROVE UNCHANGED <<wal, synced, holder>>
  BY <1>3 DEF PrepareStep, ReadMetadata, Recover, CrossCheckFails, ReadState, FinishPrepare,
              Drop, device
<1>4. ASSUME NEW t \in Threads, CommitStep(t)
      PROVE  /\ LogKept
             /\ \A k \in Keepers : holder = k => holder' = k /\ UNCHANGED wal
  <2>1. t \notin Keepers /\ None \notin Keepers
    BY KeepersAssumption, NoneAssumption
  <2>2. pc[t] \in {"locked", "checked", "written"} => holder = t
    BY DEF IInv, Exclusive
  <2>3. CASE WriteBlock(t)
    <3>1. wal' = Append(wal, Block(t)) /\ pc[t] = "checked"
          /\ synced' \in {synced, Len(wal) + 1}
      BY <2>3 DEF WriteBlock, Write, At
    <3>2. \A i \in 1..Len(wal) : wal'[i] = wal[i]
      BY <3>1, LogGrows, BlockType
    <3> QED
      BY <1>0, <2>1, <2>2, <3>1, <3>2 DEF LogKept
  <2>4. CASE RefuseBlock(t) \/ ReturnReceipt(t)
    <3>1. UNCHANGED <<wal, synced>> /\ pc[t] \in {"locked", "written"}
      BY <2>4 DEF RefuseBlock, ReturnReceipt, device, At
    <3> QED
      BY <1>0, <2>1, <2>2, <3>1 DEF LogKept
  <2>5. CASE Validate(t)
    <3>1. UNCHANGED <<wal, synced, holder>>
      BY <2>5 DEF Validate, device
    <3> QED
      BY <1>0, <3>1 DEF LogKept
  <2>6. ASSUME NEW d \in {"Wal", "SyncWal"}, Acquire(t, d)
        PROVE  LogKept /\ holder = None /\ UNCHANGED wal
    <3>1. UNCHANGED <<wal, synced>> /\ holder = None
      BY <2>6 DEF Acquire, device
    <3> QED
      BY <1>0, <3>1 DEF LogKept
  <2> QED
    BY <1>4, <2>1, <2>3, <2>4, <2>5, <2>6 DEF CommitStep
<1>5. CASE AtBound
  <2>1. UNCHANGED <<wal, synced, holder>>
    BY <1>5 DEF AtBound, vars, device
  <2> QED
    BY <1>0, <1>1, <2>1 DEF LogKept
<1>6. CASE \E t \in Threads : PrepareStep(t) \/ CommitStep(t)
  BY <1>0, <1>1, <1>3, <1>4, <1>6 DEF LogKept
<1>7. LogKept /\ \A k \in Keepers : holder = k => holder' = k /\ (wal # <<>> => UNCHANGED wal)
  BY <1>2, <1>5, <1>6 DEF StoreStep
<1> QED
  BY <1>1, <1>7

\* The end of a call leaves the store its invariant and its log.
LEMMA EndSound ==
    ASSUME StoreInv, NEW k \in Keepers, End(k)
    PROVE  /\ StoreInv'
           /\ UNCHANGED <<wal, synced>>
           /\ \A j \in Keepers \ {k} : holder = j => holder' = j
<1>1. UNCHANGED <<device, process, opened, crashes, thread, receipts>>
      /\ holder' = IF holder = k THEN None ELSE holder
  BY DEF End, Release
<1>2. TypeOK' /\ Created'
  BY <1>1 DEF StoreInv, TypeOK, Created, device, thread
<1>3. Height' = Height /\ (\A h \in Nat : BlockAt(h)' = BlockAt(h)) /\ Height \in Nat
      /\ SerialBlocks' /\ SyncedReceiptsDurable'
  BY <1>1, SameLog, HeightType DEF StoreInv, IInv
<1>4. Exclusive' /\ Asleep'
  BY <1>1, KeepersAssumption DEF StoreInv, IInv, Exclusive, Asleep, thread
<1>5. ReadsBounded' /\ WrittenOnTop'
  BY <1>1, <1>3 DEF StoreInv, IInv, ReadsBounded, Bounded, WrittenOnTop, Block, device, thread
<1> QED
  BY <1>1, <1>2, <1>3, <1>4, <1>5 DEF StoreInv, IInv, device

\* Taking the mutex, which no thread holds, leaves the store its invariant.
LEMMA LockSound ==
    ASSUME StoreInv, NEW k \in Keepers, Lock(k)
    PROVE  StoreInv'
<1>1. /\ UNCHANGED <<device, process, opened, crashes, thread, receipts>>
      /\ holder = None /\ holder' = k
  BY DEF Lock
<1>2. TypeOK' /\ Created'
  BY <1>1 DEF StoreInv, TypeOK, Created, device, thread
<1>3. Height' = Height /\ (\A h \in Nat : BlockAt(h)' = BlockAt(h)) /\ Height \in Nat
      /\ SerialBlocks' /\ SyncedReceiptsDurable'
  BY <1>1, SameLog, HeightType DEF StoreInv, IInv
<1>4. Exclusive' /\ Asleep'
  BY <1>1, NoneAssumption DEF StoreInv, IInv, Exclusive, Asleep, thread
<1>5. ReadsBounded' /\ WrittenOnTop'
  BY <1>1, <1>3 DEF StoreInv, IInv, ReadsBounded, Bounded, WrittenOnTop, Block, device, thread
<1> QED
  BY <1>2, <1>3, <1>4, <1>5 DEF StoreInv, IInv

\* Flushing the database leaves the store its invariant: more of it is synced.
LEMMA CopySound ==
    ASSUME StoreInv, NEW k \in Keepers, CopyDatabase(k), wal # <<>>
    PROVE  StoreInv' /\ LogKept
<1>1. /\ UNCHANGED <<directory, wal, process, opened, crashes, holder, thread, receipts>>
      /\ synced' = Len(wal) /\ Len(wal) \in Nat /\ synced \in 0..Len(wal) /\ Len(wal) > 0
  BY HeightType DEF StoreInv, CopyDatabase, TypeOK
<1>2. TypeOK' /\ Created'
  BY <1>1 DEF StoreInv, TypeOK, Created, thread
<1>3. Height' = Height /\ \A h \in Nat : BlockAt(h)' = BlockAt(h)
  BY <1>1 DEF Height, BlockAt
<1>4. Exclusive' /\ Asleep' /\ SerialBlocks'
  BY <1>1, <1>3 DEF StoreInv, IInv, Exclusive, Asleep, SerialBlocks, thread, BlockAt
<1>5. ReadsBounded' /\ WrittenOnTop'
  BY <1>1, <1>3, HeightType
  DEF StoreInv, IInv, ReadsBounded, Bounded, WrittenOnTop, Block, BlockAt, thread
<1>6. SyncedReceiptsDurable'
  <2> SUFFICES ASSUME NEW r \in receipts, r.wal_synced
               PROVE  r.height < Len(wal) /\ BlockAt(r.height)' = r.block
    BY <1>1 DEF SyncedReceiptsDurable
  <2>1. r.height \in Nat /\ r.height < synced /\ BlockAt(r.height) = r.block
    BY DEF StoreInv, IInv, TypeOK, Receipts, SyncedReceiptsDurable
  <2> QED
    BY <1>1, <1>3, <2>1
<1> QED
  BY <1>1, <1>2, <1>4, <1>5, <1>6 DEF StoreInv, IInv, LogKept

\* A crash leaves the store its invariant and what is on the device.
LEMMA CrashSound ==
    ASSUME StoreInv, Crash
    PROVE  StoreInv' /\ LogKept
<1>1. StoreInv'
  BY CrashType, CrashKeeps DEF StoreInv
<1>0. Len(wal) \in Nat /\ synced \in 0..Len(wal)
  BY DEF StoreInv, TypeOK
<1>2. CASE Kill
  BY <1>0, <1>1, <1>2 DEF Kill, device, LogKept
<1>3. CASE PowerLossDuringCreation
  BY <1>1, <1>3 DEF PowerLossDuringCreation, LogKept
<1>4. ASSUME NEW n \in synced..Len(wal), PowerLoss(n) PROVE LogKept
  <2>1. n \in 0..Len(wal) /\ wal' = SubSeq(wal, 1, n) /\ synced' = n
    BY <1>0, <1>4 DEF PowerLoss
  <2>2. \A i \in 1..n : wal'[i] = wal[i]
    BY <2>1, LogCut DEF StoreInv
  <2> QED
    BY <1>0, <2>1, <2>2 DEF LogKept
<1> QED
  BY <1>1, <1>2, <1>3, <1>4 DEF Crash

-----------------------------------------------------------------------------
(* Steps of the keepers *)

SavedType ==
    /\ published \in [Paths -> Directories \cup {None}]
    /\ parents \in [Parents -> {"absent", "cached", "durable"}]
    /\ job \in [Keepers -> Jobs \cup {None}]
    /\ promised \subseteq Paths

\* The metadata of a database with blocks.
LEMMA TipType ==
    ASSUME TypeOK, Height > 0
    PROVE  Tip(wal) \in Manifests /\ wal # <<>>
<1>1. Len(wal) \in Nat /\ wal # <<>> /\ Height = Len(wal) - 1 /\ Len(wal) \in 2..Len(wal)
  BY HeightType DEF TypeOK, Height
<1> QED
  BY <1>1 DEF TypeOK, Tip, Manifests

\* A step in memory: a new call, or a call that reads, copies or syncs its
\* staging directory.  The store, what is published and what is promised stay.
LEMMA QuietSound ==
    ASSUME AllInv, SavedType', UNCHANGED <<vars, published, promised>>,
           CreatorsHold', DescribedCurrent', Sourced', CopiesSound'
    PROVE  AllInv'
<1>1. StoreInv'
  <2>1. TypeOK' /\ Created' /\ IInv'
    BY TypeStep, StoreStepKeeps DEF AllInv, StoreInv
  <2> QED
    BY <2>1 DEF StoreInv
<1>2. PublishedSound'
  BY DEF AllInv, CInv, PublishedSound, OnDevice, vars, device
<1> QED
  BY <1>1, <1>2 DEF AllInv, StoreInv, CInv, TypeOKCheckpoints, SavedType

\* A step of one job leaves what the others copied.
LEMMA OthersSound ==
    ASSUME CopiesSound, NEW k \in Keepers,
           \A i \in Keepers \ {k} : job'[i] = job[i],
           UNCHANGED <<wal, synced, published>>,
           CopySoundOf(job[k])'
    PROVE  CopiesSound'
<1> SUFFICES ASSUME NEW i \in Keepers, job'[i] # None PROVE CopySoundOf(job[i])'
  BY DEF CopiesSound
<1>1. CASE i = k
  BY <1>1
<1>2. CASE i # k
  <2>1. job'[i] = job[i] /\ CopySoundOf(job[i])
    BY <1>2 DEF CopiesSound
  <2> QED
    BY <2>1 DEF CopySoundOf, OnDevice, Tip
<1> QED
  BY <1>1, <1>2

\* The start of a call.
LEMMA BeginSound ==
    ASSUME AllInv, NEW k \in Keepers, NEW kind \in Kinds, NEW from \in Paths \cup {None},
           NEW to \in Paths, NEW manifest \in Manifests \cup {None},
           Begin(k, kind, from, to, manifest),
           kind = "database" =>
               manifest \in Manifests /\ from \in Paths /\ published[from] # None
    PROVE  AllInv'
<1> DEFINE j == [kind |-> kind, step |-> "staged", from |-> from, to |-> to,
                 manifest |-> manifest, log |-> <<>>, files |-> "cached"]
<1>1. /\ job' = [job EXCEPT ![k] = j] /\ UNCHANGED <<vars, published, promised>>
      /\ parents' \in [Parents -> {"absent", "cached", "durable"}]
  BY DEF Begin, CreateParent, AllInv, TypeOKCheckpoints
<1>2. <<>> \in Logs
  BY DEF Logs
<1>3. j \in Jobs
  BY <1>2 DEF Jobs, Kinds, Steps, Files
<1>4. SavedType'
  BY <1>1, <1>3 DEF AllInv, TypeOKCheckpoints, SavedType
<1>5. /\ job'[k] = j /\ \A i \in Keepers \ {k} : job'[i] = job[i]
      /\ UNCHANGED <<wal, synced, holder, published>> /\ Height' = Height
  BY <1>1 DEF AllInv, TypeOKCheckpoints, vars, device, Height
<1>6. CreatorsHold' /\ DescribedCurrent' /\ Sourced'
  BY <1>5 DEF AllInv, CInv, CreatorsHold, DescribedCurrent, Sourced, Tip
<1>7. CopiesSound'
  <2>1. CopySoundOf(job[k])'
    BY <1>5 DEF CopySoundOf
  <2> QED
    BY <1>5, <2>1, OthersSound DEF AllInv, CInv
<1> QED
  BY <1>1, <1>4, <1>6, <1>7, QuietSound

\* The reading of the metadata, under the mutex.
LEMMA ReadCommittedSound ==
    ASSUME AllInv, NEW k \in Keepers, ReadCommitted(k)
    PROVE  AllInv'
<1> DEFINE j == [job[k] EXCEPT !.step = "described", !.manifest = Tip(wal)]
<1>1. /\ Height > 0 /\ job[k] # None /\ job[k].kind = "checkpoint" /\ job[k].step = "locked"
      /\ job' = [job EXCEPT ![k] = j]
      /\ UNCHANGED <<vars, published, parents, promised>>
  BY DEF ReadCommitted, Doing, disk
<1>2. job[k] \in Jobs /\ Tip(wal) \in Manifests
  BY <1>1, TipType DEF AllInv, TypeOKCheckpoints
<1>3. j \in Jobs /\ j.step = "described" /\ j.manifest = Tip(wal) /\ j.kind = "checkpoint"
  BY <1>1, <1>2 DEF Jobs, Steps
<1>4. SavedType'
  BY <1>1, <1>3 DEF AllInv, TypeOKCheckpoints, SavedType
<1>5. /\ job'[k] = j /\ \A i \in Keepers \ {k} : job'[i] = job[i]
      /\ UNCHANGED <<wal, synced, holder, published>> /\ Height' = Height
  BY <1>1 DEF AllInv, TypeOKCheckpoints, vars, device, Height
<1> HIDE DEF j
<1>6. CreatorsHold' /\ DescribedCurrent' /\ Sourced'
  BY <1>1, <1>2, <1>3, <1>5 DEF AllInv, CInv, CreatorsHold, DescribedCurrent, Sourced, Tip
<1>7. CopiesSound'
  <2>1. CopySoundOf(job[k])'
    BY <1>3, <1>5 DEF CopySoundOf
  <2> QED
    BY <1>5, <2>1, OthersSound DEF AllInv, CInv
<1> QED
  BY <1>1, <1>4, <1>6, <1>7, QuietSound

\* A restoration copies the log of the checkpoint, which is still there.
LEMMA CopyCheckpointSound ==
    ASSUME AllInv, NEW k \in Keepers, CopyCheckpoint(k)
    PROVE  AllInv'
<1> DEFINE source == published[job[k].from]
           j == [job[k] EXCEPT !.step = "filled", !.log = source.log]
<1>1. /\ job[k] # None /\ job[k].kind = "database" /\ job[k].step = "staged"
      /\ job' = [job EXCEPT ![k] = j]
      /\ UNCHANGED <<vars, published, parents, promised>>
  BY DEF CopyCheckpoint, Doing, disk
<1>2. /\ job[k] \in Jobs /\ job[k].from \in Paths /\ source # None
      /\ job[k].manifest \in Manifests
  BY <1>1 DEF AllInv, CInv, TypeOKCheckpoints, Sourced
<1>3. source \in Directories /\ OnDevice(source.log)
  BY <1>2 DEF AllInv, CInv, TypeOKCheckpoints, PublishedSound
<1> HIDE DEF source
<1>4. /\ j \in Jobs /\ j.step = "filled" /\ j.log = source.log /\ j.kind = "database"
      /\ j.from = job[k].from /\ j.manifest \in Manifests
  BY <1>1, <1>2, <1>3 DEF Jobs, Steps, Directories
<1>5. SavedType'
  BY <1>1, <1>4 DEF AllInv, TypeOKCheckpoints, SavedType
<1>6. /\ job'[k] = j /\ \A i \in Keepers \ {k} : job'[i] = job[i]
      /\ UNCHANGED <<wal, synced, holder, published>> /\ Height' = Height
  BY <1>1 DEF AllInv, TypeOKCheckpoints, vars, device, Height
<1>7. published[j.from] # None
  BY <1>2, <1>4 DEF source
<1> HIDE DEF j
<1>8. CreatorsHold' /\ DescribedCurrent' /\ Sourced'
  <2>1. CreatorsHold' /\ DescribedCurrent'
    BY <1>4, <1>6 DEF AllInv, CInv, CreatorsHold, DescribedCurrent, Tip
  <2>2. Sourced'
    BY <1>2, <1>4, <1>6, <1>7 DEF AllInv, CInv, Sourced
  <2> QED
    BY <2>1, <2>2
<1>9. CopiesSound'
  <2>1. CopySoundOf(job[k])'
    <3>1. OnDevice(j.log)
      BY <1>3, <1>4
    <3>2. UNCHANGED wal /\ UNCHANGED synced
      BY <1>6
    <3>3. OnDevice(job[k].log)'
      BY <1>6, <3>1, <3>2 DEF OnDevice
    <3> QED
      BY <1>4, <1>6, <3>3 DEF CopySoundOf
  <2> QED
    BY <1>6, <2>1, OthersSound DEF AllInv, CInv
<1> QED
  BY <1>1, <1>5, <1>8, <1>9, QuietSound

\* The check of a restored database, and the sync of a staging directory.
LEMMA ReadySound ==
    ASSUME AllInv, NEW k \in Keepers, CheckRestored(k) \/ SyncTree(k)
    PROVE  AllInv'
<1> DEFINE j == job'[k]
<1>0. job[k] # None /\ job[k] \in Jobs
  BY DEF CheckRestored, SyncTree, Doing, AllInv, TypeOKCheckpoints
<1>1. /\ job' = [job EXCEPT ![k] = j]
      /\ j.kind = job[k].kind /\ j.from = job[k].from /\ j.to = job[k].to
      /\ j.manifest = job[k].manifest /\ j.log = job[k].log
      /\ j \in Jobs
      /\ UNCHANGED <<vars, published, parents, promised>>
  BY <1>0 DEF disk, CheckRestored, SyncTree, Step, Doing, AllInv, TypeOKCheckpoints, Jobs, Steps, Files
<1>2. \/ /\ job[k].kind = "database" /\ job[k].step = "synced" /\ j.step = "checked"
         /\ Tip(j.log) = j.manifest /\ j.files = job[k].files
      \/ job[k].step = "filled" /\ j.step = "synced" /\ j.files = "durable"
  BY <1>0, <1>1 DEF CheckRestored, SyncTree, Step, Doing, AllInv, TypeOKCheckpoints, Jobs
<1> HIDE DEF j
<1>3. /\ j = job'[k] /\ \A i \in Keepers \ {k} : job'[i] = job[i]
      /\ UNCHANGED <<wal, synced, holder, published>> /\ Height' = Height
  BY <1>1 DEF AllInv, TypeOKCheckpoints, vars, device, Height, j
<1>4. SavedType'
  BY <1>1 DEF AllInv, TypeOKCheckpoints, SavedType
<1>5. CreatorsHold' /\ DescribedCurrent' /\ Sourced'
  <2>1. CreatorsHold'
    BY <1>0, <1>1, <1>2, <1>3 DEF AllInv, CInv, CreatorsHold
  <2>2. DescribedCurrent'
    BY <1>0, <1>1, <1>2, <1>3 DEF AllInv, CInv, DescribedCurrent, Tip
  <2>3. Sourced'
    BY <1>0, <1>1, <1>2, <1>3 DEF AllInv, CInv, Sourced
  <2> QED
    BY <2>1, <2>2, <2>3
<1>6. CopiesSound'
  <2>1. CopySoundOf(job[k])'
    <3>1. CopySoundOf(job[k]) /\ UNCHANGED wal /\ UNCHANGED synced
      BY <1>0, <1>3 DEF AllInv, CInv, CopiesSound
    <3>2. OnDevice(job[k].log)'
      BY <1>1, <1>2, <1>3, <3>1 DEF CopySoundOf, OnDevice
    <3>3. Tip(job[k].log)' = Tip(job[k].log) /\ Tip(j.log) = Tip(job[k].log)
      BY <1>1, <1>3 DEF Tip
    <3> QED
      BY <1>0, <1>1, <1>2, <1>3, <3>1, <3>2, <3>3 DEF CopySoundOf
  <2> QED
    BY <1>3, <2>1, OthersSound DEF AllInv, CInv
<1> QED
  BY <1>1, <1>4, <1>5, <1>6, QuietSound

\* The coordination mutex is taken: no other creation holds it.
LEMMA KeeperLockSound ==
    ASSUME AllInv, NEW k \in Keepers, Lock(k)
    PROVE  AllInv'
<1>0. /\ job[k] # None /\ job[k] \in Jobs /\ job[k].kind = "checkpoint"
      /\ job' = [job EXCEPT ![k].step = "locked"]
      /\ holder = None /\ holder' = k
      /\ UNCHANGED <<wal, synced, published, parents, promised>>
  BY DEF disk, Lock, Step, Doing, AllInv, TypeOKCheckpoints, device
<1>1. StoreInv'
  BY LockSound DEF AllInv
<1>2. /\ job'[k].step = "locked" /\ job'[k].kind = "checkpoint" /\ job'[k] \in Jobs
      /\ \A i \in Keepers \ {k} : job'[i] = job[i]
      /\ Height' = Height
  BY <1>0 DEF AllInv, TypeOKCheckpoints, Jobs, Steps, Height
<1>3. SavedType'
  BY <1>0, <1>2 DEF AllInv, TypeOKCheckpoints, SavedType
<1>4. None \notin Keepers
  BY NoneAssumption
<1>5. CreatorsHold' /\ DescribedCurrent' /\ Sourced'
  BY <1>0, <1>2, <1>4 DEF AllInv, CInv, CreatorsHold, DescribedCurrent, Sourced, Tip
<1>6. CopiesSound' /\ PublishedSound'
  BY <1>0, <1>2 DEF AllInv, CInv, CopiesSound, CopySoundOf, PublishedSound, OnDevice,
              Tip
<1> QED
  BY <1>1, <1>3, <1>5, <1>6 DEF AllInv, CInv, StoreInv, TypeOKCheckpoints, SavedType

\* The copy of the database: all of the log, now on the device, whose tip is the
\* one the manifest describes because no thread could commit in between.
LEMMA CopyDatabaseSound ==
    ASSUME AllInv, NEW k \in Keepers, CopyDatabase(k)
    PROVE  AllInv'
<1> DEFINE j == [job[k] EXCEPT !.step = "filled", !.log = wal]
<1>0. /\ job[k] # None /\ job[k] \in Jobs /\ job[k].kind = "checkpoint"
      /\ job[k].step = "described"
      /\ job' = [job EXCEPT ![k] = j]
      /\ UNCHANGED <<wal, holder, published, parents, promised>> /\ synced' = Len(wal)
  BY DEF disk, CopyDatabase, Doing, AllInv, TypeOKCheckpoints
<1>1. /\ wal # <<>> /\ wal \in Logs /\ job[k].manifest = Tip(wal)
      /\ job[k].manifest \in Manifests
  BY <1>0, TipType
  DEF AllInv, CInv, StoreInv, TypeOK, Logs, DescribedCurrent
<1>2. StoreInv' /\ LogKept
  BY <1>1, CopySound DEF AllInv
<1>3. /\ j.step = "filled" /\ j.log = wal /\ j.kind = "checkpoint"
      /\ j.manifest = Tip(wal) /\ j.manifest \in Manifests /\ j \in Jobs
  BY <1>0, <1>1 DEF Jobs, Steps
<1> HIDE DEF j
<1>4. job'[k] = j /\ (\A i \in Keepers \ {k} : job'[i] = job[i]) /\ Height' = Height
  BY <1>0 DEF AllInv, TypeOKCheckpoints, Height
<1>5. SavedType'
  BY <1>0, <1>3 DEF AllInv, TypeOKCheckpoints, SavedType
<1>6. CreatorsHold' /\ DescribedCurrent' /\ Sourced'
  BY <1>0, <1>3, <1>4 DEF AllInv, CInv, CreatorsHold, DescribedCurrent, Sourced, Tip
<1>7. \A log \in Logs : OnDevice(log) => Len(log) <= synced' /\ \A i \in 1..Len(log) : log[i] = wal'[i]
  BY <1>2, CopyStays DEF AllInv, StoreInv, TypeOK
<1>8. CopiesSound'
  <2>1. Len(wal) <= synced' /\ \A i \in 1..Len(wal) : wal[i] = wal'[i]
    BY <1>0 DEF AllInv, StoreInv, TypeOK
  <2>2. \A i \in Keepers \ {k} : job[i] # None => job[i].log \in Logs
    BY DEF AllInv, TypeOKCheckpoints, Jobs
  <2>3. CopySoundOf(job[k])'
    BY <1>0, <1>3, <1>4, <2>1 DEF CopySoundOf, OnDevice, Tip
  <2>4. ASSUME NEW i \in Keepers \ {k}, job[i] # None PROVE CopySoundOf(job[i])'
    BY <1>0, <1>4, <1>7, <2>2, <2>4 DEF AllInv, CInv, CopiesSound, CopySoundOf, OnDevice, Tip
  <2> QED
    BY <1>4, <2>3, <2>4 DEF CopiesSound
<1>9. PublishedSound'
  <2>1. \A p \in Paths : published[p] # None => published[p].log \in Logs
    BY DEF AllInv, TypeOKCheckpoints, Directories
  <2> QED
    BY <1>0, <1>7, <2>1 DEF AllInv, CInv, PublishedSound, OnDevice, Tip
<1> QED
  BY <1>2, <1>5, <1>6, <1>8, <1>9 DEF AllInv, CInv, StoreInv, TypeOKCheckpoints, SavedType

\* The rename: nothing stood at the target, and what stands there now is durable,
\* true to its manifest and on the device of its source.
LEMMA RenameSound ==
    ASSUME AllInv, NEW k \in Keepers, Rename(k)
    PROVE  AllInv'
<1> DEFINE d == Staged(k)
<1>0. /\ job[k] # None /\ job[k] \in Jobs /\ job[k].to \in Paths
      /\ published[job[k].to] = None
      /\ published' = [published EXCEPT ![job[k].to] = d]
      /\ job' = [job EXCEPT ![k].step = "renamed"]
      /\ UNCHANGED <<vars, parents, promised>>
  BY DEF Rename, Ready, Doing, Step, AllInv, TypeOKCheckpoints, Jobs
<1>1. /\ CopySoundOf(job[k])
      /\ \/ job[k].kind = "checkpoint" /\ job[k].step = "synced"
         \/ job[k].kind = "database" /\ job[k].step = "checked"
      /\ job[k].manifest \in Manifests
  BY <1>0 DEF Rename, Ready, Doing, AllInv, CInv, CopiesSound, Sourced
<1>2. /\ d \in Directories /\ d # None /\ d.files = "durable"
      /\ d.manifest = Tip(d.log) /\ OnDevice(d.log) /\ d.log = job[k].log
  <2>1. /\ d.kind = job[k].kind /\ d.log = job[k].log /\ d.manifest = job[k].manifest
        /\ d.files = job[k].files
    BY DEF Staged
  <2>2. d \in Directories
    <3>1. job[k].kind \in Kinds /\ job[k].log \in Logs /\ job[k].files \in Files
      BY <1>0 DEF Jobs
    <3> QED
      BY <1>1, <3>1 DEF Staged, Directories
  <2> QED
    BY <1>1, <2>1, <2>2, DirectoryAssumption DEF CopySoundOf
<1> HIDE DEF d
<1>3. /\ published'[job[k].to] = d
      /\ \A p \in Paths : published[p] # None => published'[p] = published[p]
      /\ \A p \in Paths \ {job[k].to} : published'[p] = published[p]
      /\ \A i \in Keepers \ {k} : job'[i] = job[i]
      /\ job'[k].step = "renamed" /\ job'[k].kind = job[k].kind /\ job'[k].to = job[k].to
      /\ job'[k].from = job[k].from /\ job'[k].manifest = job[k].manifest
      /\ job'[k].log = job[k].log /\ job'[k].files = job[k].files /\ job'[k] \in Jobs
      /\ UNCHANGED wal /\ UNCHANGED synced /\ UNCHANGED holder /\ Height' = Height
  BY <1>0 DEF AllInv, TypeOKCheckpoints, Jobs, Steps, vars, device, Height
<1>4. SavedType'
  BY <1>0, <1>2, <1>3 DEF AllInv, TypeOKCheckpoints, SavedType
<1>5. StoreInv'
  <2>1. TypeOK' /\ Created' /\ IInv'
    BY <1>0, TypeStep, StoreStepKeeps DEF AllInv, StoreInv
  <2> QED
    BY <2>1 DEF StoreInv
<1>6. CreatorsHold' /\ DescribedCurrent'
  <2>1. CreatorsHold'
    BY <1>0, <1>1, <1>3 DEF AllInv, CInv, CreatorsHold
  <2>2. DescribedCurrent'
    BY <1>3 DEF AllInv, CInv, DescribedCurrent, Tip
  <2> QED
    BY <2>1, <2>2
<1>7. Sourced'
  BY <1>0, <1>1, <1>3 DEF AllInv, CInv, Sourced
<1>8. \A log : OnDevice(log) => Len(log) <= synced' /\ \A i \in 1..Len(log) : log[i] = wal'[i]
  BY <1>3 DEF OnDevice
<1>9. CopiesSound'
  <2> SUFFICES ASSUME NEW i \in Keepers, job'[i] # None PROVE CopySoundOf(job[i])'
    BY DEF CopiesSound
  <2>1. CASE i = k
    <3>1. OnDevice(job[k].log)'
      <4>1. OnDevice(job[k].log) /\ job'[k].log = job[k].log
        BY <1>2, <1>3
      <4> QED
        BY <1>8, <4>1 DEF OnDevice
    <3>2. job'[k].manifest = Tip(job'[k].log) /\ job'[k].files = "durable"
      BY <1>1, <1>3 DEF CopySoundOf
    <3>3. Tip(job[k].log)' = Tip(job'[k].log)
      BY DEF Tip
    <3> QED
      BY <1>2, <1>3, <2>1, <3>1, <3>2, <3>3 DEF CopySoundOf
  <2>2. CASE i # k
    <3>1. job'[i] = job[i] /\ CopySoundOf(job[i]) /\ job[i] \in Jobs
      BY <1>3, <2>2 DEF AllInv, CInv, CopiesSound, TypeOKCheckpoints
    <3>2. Tip(job[i].log)' = Tip(job[i].log) /\ (OnDevice(job[i].log) => OnDevice(job[i].log)')
      BY <1>8, <3>1 DEF Tip, OnDevice
    <3>3. job[i].to \in Paths
      BY <3>1 DEF Jobs
    <3> QED
      BY <1>3, <3>1, <3>2, <3>3 DEF CopySoundOf
  <2> QED
    BY <2>1, <2>2
<1>10. PublishedSound'
  <2>1. ASSUME NEW p \in Paths, published'[p] # None
        PROVE  /\ OnDevice(published[p].log)'
               /\ published'[p].manifest = Tip(published'[p].log)
               /\ published'[p].files = "durable"
    <3>1. CASE p = job[k].to
      BY <1>2, <1>3, <1>8, <3>1 DEF OnDevice
    <3>2. CASE p # job[k].to
      <4>1. published'[p] = published[p] /\ published[p] # None
        BY <1>3, <2>1, <3>2
      <4> QED
        BY <1>8, <4>1 DEF AllInv, CInv, PublishedSound, OnDevice
    <3> QED
      BY <3>1, <3>2
  <2>2. \A p \in promised' : published'[p] # None /\ published'[p].linked
    BY <1>0, <1>3 DEF AllInv, CInv, PublishedSound, TypeOKCheckpoints
  <2>3. \A p \in Paths : Tip(published[p].log)' = Tip(published'[p].log)
    BY DEF Tip
  <2> QED
    BY <2>1, <2>2, <2>3 DEF PublishedSound
<1> QED
  BY <1>4, <1>5, <1>6, <1>7, <1>9, <1>10
  DEF AllInv, CInv, StoreInv, TypeOKCheckpoints, SavedType

\* A call ends.  The directories keep what they hold, and of a call that succeeds
\* the one it published has its name on the device.
LEMMA EndsSound ==
    ASSUME AllInv, NEW k \in Keepers, SyncParent(k) \/ Fail(k)
    PROVE  AllInv'
<1>0. job' = [job EXCEPT ![k] = None] /\ End(k)
  BY DEF SyncParent, Fail, End
<1>1. StoreInv' /\ UNCHANGED wal /\ UNCHANGED synced /\ Height' = Height
      /\ \A j \in Keepers \ {k} : holder = j => holder' = j
  BY <1>0, EndSound DEF AllInv, Height
<1>2. /\ job'[k] = None /\ \A i \in Keepers \ {k} : job'[i] = job[i]
      /\ job' \in [Keepers -> Jobs \cup {None}]
  BY <1>0 DEF AllInv, TypeOKCheckpoints
<1>3. ASSUME NEW p \in Paths
      PROVE  /\ published[p] = None => published'[p] = None
             /\ published[p] # None =>
                    /\ published'[p] \in Directories
                    /\ published'[p].kind = published[p].kind
                    /\ published'[p].log = published[p].log
                    /\ published'[p].manifest = published[p].manifest
                    /\ published'[p].files = published[p].files
                    /\ published[p].linked => published'[p].linked
             /\ p \in promised' =>
                    p \in promised \/ (published[p] # None /\ published'[p].linked)
  <2>1. CASE Fail(k)
    <3>1. published' = published /\ promised' = promised
      BY <2>1 DEF Fail, disk
    <3>2. published[p] \in Directories \cup {None}
      BY DEF AllInv, TypeOKCheckpoints
    <3>3. p \in promised => published[p] # None
      BY DEF AllInv, CInv, PublishedSound
    <3> QED
      BY <3>1, <3>2, <3>3
  <2>2. CASE SyncParent(k)
    <3>1. /\ job[k] # None /\ job[k].step = "renamed" /\ job[k] \in Jobs
          /\ published' = [published EXCEPT ![job[k].to].linked = TRUE]
          /\ promised' = promised \cup {job[k].to}
      BY <2>2 DEF SyncParent, Doing, AllInv, TypeOKCheckpoints
    <3>2. job[k].to \in Paths /\ published[job[k].to] # None
      BY <3>1 DEF AllInv, CInv, CopiesSound, CopySoundOf, Jobs
    <3>3. CASE p = job[k].to
      <4>1. published[p] \in Directories /\ published[p] # None
        BY <3>2, <3>3 DEF AllInv, TypeOKCheckpoints
      <4>2. published'[p] = [published[p] EXCEPT !.linked = TRUE]
        BY <3>1, <3>3 DEF AllInv, TypeOKCheckpoints
      <4>3. /\ published'[p].kind = published[p].kind
            /\ published'[p].log = published[p].log
            /\ published'[p].manifest = published[p].manifest
            /\ published'[p].files = published[p].files
        BY <4>1, <4>2 DEF Directories
      <4>4. published'[p] \in Directories /\ published'[p].linked = TRUE
        BY <4>1, <4>2 DEF Directories
      <4> QED
        BY <4>1, <4>3, <4>4
    <3>4. CASE p # job[k].to
      BY <3>1, <3>2, <3>4 DEF AllInv, CInv, TypeOKCheckpoints, PublishedSound
    <3> QED
      BY <3>3, <3>4
  <2> QED
    BY <2>1, <2>2
<1>4. /\ \A p \in Paths : published[p] # None => published'[p] # None
      /\ \A p \in Paths : published'[p] # None => published[p] # None
  BY <1>3, DirectoryAssumption
<1>5. promised' \subseteq Paths
  BY DEF SyncParent, Fail, Doing, AllInv, TypeOKCheckpoints, Jobs, disk
<1>6. SavedType'
  <2>1. published' = [published EXCEPT ![job[k].to].linked = TRUE] \/ published' = published
    BY DEF SyncParent, Fail, disk
  <2>2. published' = [p \in Paths |-> published'[p]]
    BY <2>1 DEF AllInv, TypeOKCheckpoints
  <2>3. \A p \in Paths : published'[p] \in Directories \cup {None}
    BY <1>3
  <2>4. published' \in [Paths -> Directories \cup {None}]
    BY <2>2, <2>3
  <2> QED
    BY <1>2, <1>5, <2>4 DEF SavedType, SyncParent, Fail, disk, AllInv, TypeOKCheckpoints
<1>7. CreatorsHold' /\ DescribedCurrent' /\ Sourced'
  <2>1. CreatorsHold'
    BY <1>1, <1>2 DEF AllInv, CInv, CreatorsHold
  <2>2. DescribedCurrent'
    BY <1>1, <1>2 DEF AllInv, CInv, DescribedCurrent, Tip
  <2>3. Sourced'
    BY <1>2, <1>4 DEF AllInv, CInv, Sourced
  <2> QED
    BY <2>1, <2>2, <2>3
<1>8. CopiesSound'
  <2> SUFFICES ASSUME NEW i \in Keepers, job'[i] # None PROVE CopySoundOf(job[i])'
    BY DEF CopiesSound
  <2>1. job'[i] = job[i] /\ CopySoundOf(job[i]) /\ job[i] \in Jobs
    BY <1>2 DEF AllInv, CInv, CopiesSound, TypeOKCheckpoints
  <2>2. Tip(job[i].log)' = Tip(job[i].log) /\ (OnDevice(job[i].log) => OnDevice(job[i].log)')
    BY <1>1, <2>1 DEF Tip, OnDevice
  <2>3. job[i].to \in Paths
    BY <2>1 DEF Jobs
  <2> QED
    BY <1>4, <2>1, <2>2, <2>3 DEF CopySoundOf
<1>9. PublishedSound'
  <2>1. ASSUME NEW p \in Paths, published'[p] # None
        PROVE  /\ OnDevice(published[p].log)'
               /\ published'[p].manifest = Tip(published[p].log)'
               /\ published'[p].files = "durable"
    <3>1. /\ published[p] # None /\ OnDevice(published[p].log)
          /\ published[p].manifest = Tip(published[p].log) /\ published[p].files = "durable"
      BY <1>4, <2>1 DEF AllInv, CInv, PublishedSound
    <3> QED
      BY <1>1, <1>3, <3>1 DEF OnDevice, Tip
  <2>2. \A p \in promised' : published'[p] # None /\ published'[p].linked
    BY <1>3, <1>4, <1>5 DEF AllInv, CInv, PublishedSound, TypeOKCheckpoints
  <2> QED
    BY <2>1, <2>2 DEF PublishedSound
<1> QED
  BY <1>1, <1>6, <1>7, <1>8, <1>9
  DEF AllInv, CInv, StoreInv, TypeOKCheckpoints, SavedType

-----------------------------------------------------------------------------
(* Steps of the store, and crashes *)

\* A step of the store: no block is written while a creation holds the mutex, and
\* what was copied is still in the log.
LEMMA StoreSound ==
    ASSUME AllInv, StoreStep, UNCHANGED saved
    PROVE  AllInv'
<1>0. UNCHANGED published /\ UNCHANGED parents /\ UNCHANGED job /\ UNCHANGED promised
  BY DEF saved, disk
<1>1. StoreInv' /\ LogKept
      /\ \A k \in Keepers : holder = k => holder' = k /\ (wal # <<>> => UNCHANGED wal)
  BY StoreStepSound DEF AllInv
<1>2. synced' \in Nat
  BY <1>1 DEF StoreInv, TypeOK
<1>3. \A log \in Logs : OnDevice(log) => Len(log) <= synced' /\ \A i \in 1..Len(log) : log[i] = wal'[i]
  BY <1>1, <1>2, CopyStays DEF AllInv, StoreInv
<1>4. CreatorsHold' /\ Sourced'
  BY <1>0, <1>1 DEF AllInv, CInv, CreatorsHold, Sourced
<1>5. DescribedCurrent'
  <2> SUFFICES ASSUME NEW k \in Keepers, job[k] # None, job[k].step = "described"
               PROVE  Height' > 0 /\ job[k].manifest = Tip(wal)'
    BY <1>0 DEF DescribedCurrent
  <2>1. job[k].kind = "checkpoint" /\ Height > 0 /\ job[k].manifest = Tip(wal)
    BY DEF AllInv, CInv, Sourced, DescribedCurrent, TypeOKCheckpoints, Jobs, Kinds
  <2>2. holder = k /\ wal # <<>>
    BY <2>1, TipType DEF AllInv, CInv, StoreInv, CreatorsHold
  <2>3. wal' = wal
    BY <1>1, <2>2
  <2> QED
    BY <2>1, <2>3 DEF Height, Tip
<1>6. CopiesSound'
  <2> SUFFICES ASSUME NEW k \in Keepers, job[k] # None PROVE CopySoundOf(job[k])'
    BY <1>0 DEF CopiesSound
  <2>1. CopySoundOf(job[k]) /\ job[k].log \in Logs
    BY DEF AllInv, CInv, CopiesSound, TypeOKCheckpoints, Jobs
  <2>2. Tip(job[k].log)' = Tip(job[k].log) /\ (OnDevice(job[k].log) => OnDevice(job[k].log)')
    BY <1>0, <1>3, <2>1 DEF Tip, OnDevice
  <2> QED
    BY <1>0, <2>1, <2>2 DEF CopySoundOf
<1>7. PublishedSound'
  <2>1. ASSUME NEW p \in Paths, published[p] # None
        PROVE  OnDevice(published[p].log)' /\ Tip(published[p].log)' = Tip(published[p].log)
    <3>1. OnDevice(published[p].log) /\ published[p].log \in Logs
      BY <2>1 DEF AllInv, CInv, PublishedSound, TypeOKCheckpoints, Directories
    <3> QED
      BY <1>0, <1>3, <3>1 DEF OnDevice, Tip
  <2> QED
    BY <1>0, <2>1 DEF AllInv, CInv, PublishedSound
<1> QED
  BY <1>0, <1>1, <1>4, <1>5, <1>6, <1>7 DEF AllInv, CInv, StoreInv, TypeOKCheckpoints

\* After a crash no call is left; what is left of the published directories is
\* durable and still in the log.
LEMMA AfterCrash ==
    ASSUME AllInv, StoreInv', LogKept, JobsDie,
           published' \in [Paths -> Directories \cup {None}],
           parents' \in [Parents -> {"absent", "cached", "durable"}],
           \A p \in Paths : published'[p] # None =>
               /\ published[p] # None
               /\ published'[p].log = published[p].log
               /\ published'[p].manifest = published[p].manifest
               /\ published'[p].files = published[p].files,
           promised' \subseteq promised,
           \A p \in promised' : published'[p] # None /\ published'[p].linked
    PROVE  AllInv'
<1>0. job' = [k \in Keepers |-> None]
  BY DEF JobsDie
<1>1. synced' \in Nat
  BY DEF StoreInv, TypeOK
<1>2. \A log \in Logs : OnDevice(log) => Len(log) <= synced' /\ \A i \in 1..Len(log) : log[i] = wal'[i]
  BY <1>1, CopyStays DEF AllInv, StoreInv
<1>3. CreatorsHold' /\ DescribedCurrent' /\ Sourced' /\ CopiesSound'
  BY <1>0 DEF CreatorsHold, DescribedCurrent, Sourced, CopiesSound
<1>4. PublishedSound'
  <2>1. ASSUME NEW p \in Paths, published'[p] # None
        PROVE  /\ OnDevice(published[p].log)'
               /\ published'[p].manifest = Tip(published[p].log)'
               /\ published'[p].files = "durable"
    <3>1. /\ published'[p].log = published[p].log /\ published[p] # None
          /\ published'[p].manifest = published[p].manifest
          /\ published'[p].files = published[p].files
          /\ OnDevice(published[p].log) /\ published[p].log \in Logs
          /\ published[p].manifest = Tip(published[p].log) /\ published[p].files = "durable"
      BY <2>1 DEF AllInv, CInv, PublishedSound, TypeOKCheckpoints, Directories
    <3>2. OnDevice(published[p].log)'
      <4> DEFINE log == published[p].log
      <4>1. log \in Logs /\ OnDevice(log) /\ log' = log
        BY <3>1
      <4>2. Len(log) <= synced' /\ \A i \in 1..Len(log) : log[i] = wal'[i]
        BY <1>2, <4>1
      <4> HIDE DEF log
      <4>3. OnDevice(log)'
        BY <4>1, <4>2 DEF OnDevice
      <4> QED
        BY <4>3 DEF log
    <3>3. Tip(published[p].log)' = Tip(published[p].log)
      BY <3>1 DEF Tip
    <3> QED
      BY <3>1, <3>2, <3>3
  <2> QED
    BY <2>1 DEF PublishedSound
<1>5. SavedType'
  BY <1>0 DEF AllInv, TypeOKCheckpoints, SavedType
<1> QED
  BY <1>3, <1>4, <1>5 DEF AllInv, CInv, StoreInv, TypeOKCheckpoints, SavedType

LEMMA KillSound == ASSUME AllInv, KillAll PROVE AllInv'
<1>1. StoreInv' /\ LogKept
  BY CrashSound DEF AllInv, KillAll, Crash
<1>2. UNCHANGED published /\ UNCHANGED parents /\ UNCHANGED promised /\ JobsDie
  BY DEF KillAll, disk
<1>3. \A p \in promised' : published'[p] # None /\ published'[p].linked
  BY <1>2 DEF AllInv, CInv, PublishedSound
<1> QED
  BY <1>1, <1>2, <1>3, AfterCrash DEF AllInv, TypeOKCheckpoints

\* What is left of a directory after a loss of power is what it held, now with
\* its name on the device.
LEMMA LeftAfterPowerLoss ==
    ASSUME AllInv, PowerLossAll, NEW p \in Paths, published'[p] # None
    PROVE  /\ published[p] # None
           /\ published'[p] \in Directories
           /\ published'[p].log = published[p].log
           /\ published'[p].kind = published[p].kind
           /\ published'[p].manifest = published[p].manifest
           /\ published'[p].files = published[p].files
           /\ published'[p].linked
<1>1. published[p] # None /\ published'[p] = AfterPowerLoss(published[p])
  BY DEF PowerLossAll
<1>2. published[p] \in Directories /\ published[p].files = "durable"
  BY <1>1 DEF AllInv, CInv, PublishedSound, TypeOKCheckpoints
<1>3. published'[p] = [published[p] EXCEPT !.linked = TRUE]
  BY <1>1, <1>2 DEF AfterPowerLoss, Directories
<1> QED
  BY <1>1, <1>2, <1>3 DEF Directories

LEMMA PowerLossSound == ASSUME AllInv, PowerLossAll PROVE AllInv'
<1>1. StoreInv' /\ LogKept /\ JobsDie
  BY CrashSound DEF AllInv, PowerLossAll, Crash
<1>2. promised' \subseteq promised /\ \A p \in promised' : published'[p] # None
  BY DEF PowerLossAll
<1>3. parents' \in [Parents -> {"absent", "cached", "durable"}]
  BY DEF PowerLossAll
<1>4. published' \in [Paths -> Directories \cup {None}]
  <2>1. published' = [p \in Paths |-> published'[p]]
    BY DEF PowerLossAll
  <2>2. \A p \in Paths : published'[p] \in Directories \cup {None}
    BY LeftAfterPowerLoss
  <2> QED
    BY <2>1, <2>2
<1>5. \A p \in promised' : published'[p].linked
  BY <1>2, LeftAfterPowerLoss DEF AllInv, TypeOKCheckpoints
<1> QED
  BY <1>1, <1>2, <1>3, <1>4, <1>5, LeftAfterPowerLoss, AfterCrash

-----------------------------------------------------------------------------
(* Every step *)

LEMMA CheckpointStep == AllInv /\ [NextCheckpoints]_<<vars, saved>> => AllInv'
<1> SUFFICES ASSUME AllInv, [NextCheckpoints]_<<vars, saved>> PROVE AllInv'
  OBVIOUS
<1>1. ASSUME NEW k \in Keepers, CreateStep(k) PROVE AllInv'
  <2>1. ASSUME NEW to \in Paths, BeginCreate(k, to) PROVE AllInv'
    BY <2>1, BeginSound DEF BeginCreate, Kinds
  <2> QED
    BY <1>1, <2>1, KeeperLockSound, ReadCommittedSound, CopyDatabaseSound DEF CreateStep
<1>2. ASSUME NEW k \in Keepers, RestoreStep(k) PROVE AllInv'
  <2>1. ASSUME NEW from \in Paths, NEW to \in Paths, BeginRestore(k, from, to) PROVE AllInv'
    <3>1. published[from] # None /\ published[from].manifest \in Manifests
      BY <2>1 DEF BeginRestore, Verified, AllInv, TypeOKCheckpoints, Directories
    <3>2. Begin(k, "database", from, to, published[from].manifest)
      BY <2>1 DEF BeginRestore
    <3> QED
      BY <3>1, <3>2, BeginSound DEF Kinds
  <2> QED
    BY <1>2, <2>1, CopyCheckpointSound, ReadySound DEF RestoreStep
<1>3. ASSUME NEW k \in Keepers, PublishStep(k) PROVE AllInv'
  BY <1>3, ReadySound, RenameSound, EndsSound DEF PublishStep
<1>4. CASE UNCHANGED <<vars, saved>>
  <2>1. /\ UNCHANGED vars /\ UNCHANGED published /\ UNCHANGED parents
        /\ UNCHANGED job /\ UNCHANGED promised
    BY <1>4 DEF saved, disk
  <2>2. SavedType'
    BY <2>1 DEF AllInv, TypeOKCheckpoints, SavedType
  <2>3. UNCHANGED wal /\ UNCHANGED synced /\ UNCHANGED holder /\ Height' = Height
    BY <2>1 DEF vars, device, Height
  <2>4. CreatorsHold' /\ DescribedCurrent' /\ Sourced'
    BY <2>1, <2>3 DEF AllInv, CInv, CreatorsHold, DescribedCurrent, Sourced, Tip
  <2>5. CopiesSound'
    BY <2>1, <2>3 DEF AllInv, CInv, CopiesSound, CopySoundOf, OnDevice, Tip
  <2> QED
    BY <2>1, <2>2, <2>4, <2>5, QuietSound
<1> QED
  BY <1>1, <1>2, <1>3, <1>4, StoreSound, KillSound, PowerLossSound DEF NextCheckpoints

\* The variables of the store and of its keepers keep their types, and the
\* store keeps its own invariant, its serial blocks and its synced receipts
\* among keepers that flush it and hold its mutex.
THEOREM CheckpointsInvariant == SpecCheckpoints => []AllInv
<1>1. InitCheckpoints => AllInv
  <2> SUFFICES ASSUME InitCheckpoints PROVE AllInv
    OBVIOUS
  <2>0. Init
    BY DEF InitCheckpoints
  <2>1. TypeOK /\ Created
    BY <2>0, InitTypes
  <2>2. IInv
    BY <2>0 DEF Init, IInv, Exclusive, Asleep, ReadsBounded, Bounded, WrittenOnTop, SerialBlocks,
                SyncedReceiptsDurable, Height
  <2>3. TypeOKCheckpoints
    BY <2>1 DEF InitCheckpoints, TypeOKCheckpoints
  <2>4. CInv
    BY DEF InitCheckpoints, CInv, CreatorsHold, DescribedCurrent, Sourced, CopiesSound,
           PublishedSound
  <2> QED
    BY <2>1, <2>2, <2>3, <2>4 DEF AllInv, StoreInv
<1> QED
  BY <1>1, CheckpointStep, PTL DEF SpecCheckpoints

\* Every published directory is what its manifest says.
THEOREM PublishedManifestsTrue == SpecCheckpoints => []ManifestsTrue
<1>1. AllInv => ManifestsTrue
  BY DEF AllInv, CInv, PublishedSound, ManifestsTrue
<1> QED
  BY <1>1, CheckpointsInvariant, PTL

\* No crash tears a published directory.
THEOREM PublishedWhole == SpecCheckpoints => []NothingTorn
<1>1. AllInv => NothingTorn
  BY DEF AllInv, CInv, PublishedSound, NothingTorn
<1> QED
  BY <1>1, CheckpointsInvariant, PTL

\* Where something is published, or about to be, there is a directory to hold it.
Placed ==
    /\ \A p \in Paths : published[p] # None => parents[ParentOf[p]] # "absent"
    /\ \A k \in Keepers : job[k] # None => parents[ParentOf[job[k].to]] # "absent"

LEMMA PlacedStep ==
    ASSUME AllInv, Placed, [NextCheckpoints]_<<vars, saved>>
    PROVE  Placed'
<1> USE ParentAssumption
<1>1. ASSUME NEW k \in Keepers, NEW kind, NEW from, NEW to \in Paths, NEW manifest,
             Begin(k, kind, from, to, manifest)
      PROVE  Placed'
  <2>1. /\ \A d \in Parents : parents[d] # "absent" => parents'[d] # "absent"
        /\ parents'[ParentOf[to]] # "absent"
    BY <1>1 DEF Begin, CreateParent, AllInv, TypeOKCheckpoints
  <2>2. job'[k].to = to /\ (\A i \in Keepers \ {k} : job'[i] = job[i]) /\ UNCHANGED published
    BY <1>1 DEF Begin, AllInv, TypeOKCheckpoints
  <2>3. \A i \in Keepers : job[i] # None => job[i].to \in Paths
    BY DEF AllInv, TypeOKCheckpoints, Jobs
  <2> QED
    BY <2>1, <2>2, <2>3 DEF Placed
<1>2. ASSUME NEW k \in Keepers,
             Lock(k) \/ ReadCommitted(k) \/ CopyDatabase(k) \/ CopyCheckpoint(k)
                \/ CheckRestored(k) \/ SyncTree(k)
      PROVE  Placed'
  <2>1. /\ UNCHANGED published /\ UNCHANGED parents
        /\ job[k] # None /\ job[k] \in Jobs
        /\ \A i \in Keepers : i # k => job'[i] = job[i]
    BY <1>2 DEF Lock, ReadCommitted, CopyDatabase, CopyCheckpoint, CheckRestored, SyncTree,
                Doing, Step, disk, AllInv, TypeOKCheckpoints
  <2>2. job'[k].to = job[k].to
    BY <1>2, <2>1 DEF Lock, ReadCommitted, CopyDatabase, CopyCheckpoint, CheckRestored,
                      SyncTree, Step, Jobs, AllInv, TypeOKCheckpoints
  <2> QED
    BY <2>1, <2>2 DEF Placed
<1>3. ASSUME NEW k \in Keepers, Rename(k) PROVE Placed'
  <2>1. /\ UNCHANGED parents /\ job[k] # None /\ job[k] \in Jobs
        /\ \A i \in Keepers : i # k => job'[i] = job[i]
        /\ \A p \in Paths : p # job[k].to => published'[p] = published[p]
    BY <1>3 DEF Rename, Ready, Doing, Step, AllInv, TypeOKCheckpoints
  <2>2. job'[k].to = job[k].to
    BY <1>3, <2>1 DEF Rename, Step, Jobs, AllInv, TypeOKCheckpoints
  <2> QED
    BY <2>1, <2>2 DEF Placed
<1>4. ASSUME NEW k \in Keepers, SyncParent(k) \/ Fail(k) PROVE Placed'
  <2>1. UNCHANGED parents /\ job' = [job EXCEPT ![k] = None]
    BY <1>4 DEF SyncParent, Fail, End, disk
  <2>2. ASSUME NEW p \in Paths, published[p] = None PROVE published'[p] = None
    <3>1. CASE Fail(k)
      BY <2>2, <3>1 DEF Fail, disk
    <3>2. CASE SyncParent(k)
      <4>1. published[job[k].to] # None
        BY <3>2 DEF SyncParent, Doing, AllInv, CInv, CopiesSound, CopySoundOf
      <4> QED
        BY <2>2, <3>2, <4>1 DEF SyncParent, AllInv, TypeOKCheckpoints
    <3> QED
      BY <1>4, <3>1, <3>2
  <2> QED
    BY <2>1, <2>2 DEF Placed, AllInv, TypeOKCheckpoints
<1>5. CASE UNCHANGED saved
  BY <1>5 DEF saved, disk, Placed
<1>6. CASE KillAll
  BY <1>6 DEF KillAll, JobsDie, disk, Placed
<1>7. CASE PowerLossAll
  <2>1. job' = [k \in Keepers |-> None]
    BY <1>7 DEF PowerLossAll, JobsDie
  <2>2. \A p \in Paths : published'[p] # None => parents'[ParentOf[p]] # "absent"
    BY <1>7 DEF PowerLossAll
  <2> QED
    BY <2>1, <2>2 DEF Placed
<1>8. ASSUME NEW k \in Keepers, CreateStep(k) \/ RestoreStep(k) \/ PublishStep(k)
      PROVE  Placed'
  BY <1>1, <1>2, <1>3, <1>4, <1>8
  DEF CreateStep, RestoreStep, PublishStep, BeginCreate, BeginRestore
<1>9. CASE UNCHANGED <<vars, saved>>
  BY <1>5, <1>9
<1> QED
  BY <1>5, <1>6, <1>7, <1>8, <1>9 DEF NextCheckpoints

\* A directory whose call has returned outlives every crash, unless its parent
\* was created by a call, is not on the device yet, and goes with it.
THEOREM PromisesKept == SpecCheckpoints => PromisedStay
<1> DEFINE Kept == \A p \in promised : published'[p] = None =>
                      parents[ParentOf[p]] = "cached" /\ parents'[ParentOf[p]] = "absent"
<1>1. InitCheckpoints => Placed
  BY DEF InitCheckpoints, Placed
<1>2. AllInv /\ Placed /\ [NextCheckpoints]_<<vars, saved>> => Placed'
  BY PlacedStep
<1>3. AllInv /\ Placed /\ [NextCheckpoints]_<<vars, saved>> => [Kept]_published
  <2> SUFFICES ASSUME AllInv, Placed, NextCheckpoints, NEW p \in promised, published'[p] = None
               PROVE  parents[ParentOf[p]] = "cached" /\ parents'[ParentOf[p]] = "absent"
    BY DEF saved, disk
  <2>1. p \in Paths /\ published[p] # None /\ published[p].linked /\ published[p] \in Directories
    BY DEF AllInv, CInv, PublishedSound, TypeOKCheckpoints
  <2>2. ~UNCHANGED published
    BY <2>1
  <2>3. ASSUME NEW k \in Keepers, Rename(k) PROVE FALSE
    BY <2>1, <2>3 DEF Rename, AllInv, TypeOKCheckpoints
  <2>4. ASSUME NEW k \in Keepers, SyncParent(k) PROVE FALSE
    <3>1. published'[p] = [published[p] EXCEPT !.linked = TRUE] \/ published'[p] = published[p]
      BY <2>1, <2>4 DEF SyncParent, AllInv, TypeOKCheckpoints
    <3>2. published'[p] \in Directories
      BY <2>1, <3>1 DEF Directories
    <3> QED
      BY <3>2, DirectoryAssumption
  <2>5. CASE PowerLossAll
    <3>1. parents'[ParentOf[p]] = "absent"
      <4>1. PICK lost \in SUBSET {q \in Paths : published[q] # None /\ ~published[q].linked} :
                published' = [q \in Paths |->
                    IF \/ published[q] = None
                       \/ q \in lost
                       \/ parents'[ParentOf[q]] = "absent"
                    THEN None ELSE AfterPowerLoss(published[q])]
        BY <2>5 DEF PowerLossAll
      <4>2. p \notin lost
        BY <2>1
      <4>3. AfterPowerLoss(published[p]) \in Directories
        BY <2>1 DEF AfterPowerLoss, Directories, Files
      <4> QED
        BY <2>1, <4>1, <4>2, <4>3, DirectoryAssumption
    <3>2. parents[ParentOf[p]] \in {"absent", "cached", "durable"} /\ ParentOf[p] \in Parents
      BY <2>1, ParentAssumption DEF AllInv, TypeOKCheckpoints
    <3> QED
      BY <2>1, <2>5, <3>1, <3>2 DEF PowerLossAll, Placed
  <2>6. ASSUME NEW k \in Keepers, CreateStep(k) \/ RestoreStep(k) \/ SyncTree(k) \/ Fail(k)
        PROVE  UNCHANGED published
    BY <2>6 DEF CreateStep, RestoreStep, BeginCreate, BeginRestore, Begin, Lock, ReadCommitted,
                CopyDatabase, CopyCheckpoint, CheckRestored, SyncTree, Fail, disk
  <2> QED
    BY <2>2, <2>3, <2>4, <2>5, <2>6 DEF NextCheckpoints, PublishStep, KillAll, saved, disk
<1> QED
  BY <1>1, <1>2, <1>3, CheckpointsInvariant, PTL DEF SpecCheckpoints, PromisedStay

\* No checkpoint is ahead of its source, and each is a beginning of its log.
THEOREM CopiesNeverAhead == SpecCheckpoints => []NeverAheadOfSource
<1>1. AllInv => NeverAheadOfSource
  <2> SUFFICES ASSUME AllInv, NEW p \in Paths, published[p] # None
               PROVE  LET log == published[p].log IN
                      Len(log) <= Len(wal) /\ log = SubSeq(wal, 1, Len(log))
    BY DEF NeverAheadOfSource
  <2> DEFINE log == published[p].log
             cut == SubSeq(wal, 1, Len(log))
             E == Blocks \cup {Identity}
  <2>1. log \in Seq(E) /\ OnDevice(log)
    BY DEF AllInv, CInv, PublishedSound, TypeOKCheckpoints, Directories, Logs
  <2>2. wal \in Seq(E) /\ Len(wal) \in Nat /\ synced \in 0..Len(wal)
    BY DEF AllInv, StoreInv, TypeOK
  <2> HIDE DEF log, E
  <2>3. Len(log) \in Nat /\ Len(log) <= Len(wal)
    BY <2>1, <2>2 DEF OnDevice
  <2>4. \A i \in 1..Len(log) : wal[i] \in E
    BY <2>2, <2>3
  <2>5. /\ cut \in Seq(E)
        /\ Len(cut) = IF 1 <= Len(log) THEN Len(log) - 1 + 1 ELSE 0
        /\ \A i \in 1..(Len(log) - 1 + 1) : cut[i] = wal[1 + i - 1]
    BY <2>3, <2>4, SubSeqProperties
  <2>6. Len(cut) = Len(log) /\ \A i \in 1..Len(log) : cut[i] = log[i]
    BY <2>1, <2>3, <2>5 DEF OnDevice
  <2>7. cut = log
    <3> HIDE DEF cut
    <3> QED
      BY <2>1, <2>5, <2>6, SeqEqual
  <2> QED
    BY <2>3, <2>7 DEF log
<1> QED
  BY <1>1, CheckpointsInvariant, PTL

\* What a path holds is never replaced.
THEOREM NothingReplaced == SpecCheckpoints => PublishedIsPermanent
<1> DEFINE Same == \A p \in Paths : published[p] # None /\ published'[p] # None =>
                      published'[p].log = published[p].log
                      /\ published'[p].kind = published[p].kind
<1>1. AllInv /\ [NextCheckpoints]_<<vars, saved>> => [Same]_published
  <2> SUFFICES ASSUME AllInv, NextCheckpoints, NEW p \in Paths,
                      published[p] # None, published'[p] # None
               PROVE  published'[p].log = published[p].log
                      /\ published'[p].kind = published[p].kind
    BY DEF saved, disk
  <2>0. published[p] \in Directories
    BY DEF AllInv, TypeOKCheckpoints
  <2>1. CASE UNCHANGED published
    BY <2>1
  <2>2. ASSUME NEW k \in Keepers, Rename(k) PROVE published'[p] = published[p]
    BY <2>2 DEF Rename, AllInv, TypeOKCheckpoints
  <2>3. ASSUME NEW k \in Keepers, SyncParent(k)
        PROVE  published'[p].log = published[p].log /\ published'[p].kind = published[p].kind
    <3>1. published'[p] = [published[p] EXCEPT !.linked = TRUE] \/ published'[p] = published[p]
      BY <2>3 DEF SyncParent, AllInv, TypeOKCheckpoints
    <3> QED
      BY <2>0, <3>1 DEF Directories
  <2>4. CASE PowerLossAll
    BY <2>4, LeftAfterPowerLoss
  <2>5. ASSUME NEW k \in Keepers, CreateStep(k) \/ RestoreStep(k) \/ SyncTree(k) \/ Fail(k)
        PROVE  UNCHANGED published
    BY <2>5 DEF CreateStep, RestoreStep, BeginCreate, BeginRestore, Begin, Lock, ReadCommitted,
                CopyDatabase, CopyCheckpoint, CheckRestored, SyncTree, Fail, disk
  <2> QED
    BY <2>1, <2>2, <2>3, <2>4, <2>5 DEF NextCheckpoints, PublishStep, KillAll, saved, disk
<1> QED
  BY <1>1, CheckpointsInvariant, PTL DEF SpecCheckpoints, PublishedIsPermanent

-----------------------------------------------------------------------------
(* The serial ledger among keepers *)

\* What a step is to the store alone: a step of its own, the flush of a
\* creation, or nothing to its log.
LEMMA StorePart ==
    ASSUME [NextCheckpoints]_<<vars, saved>>
    PROVE  \/ [Next]_vars
           \/ \E k \in Keepers : CopyDatabase(k)
           \/ UNCHANGED <<device, crashes>>
<1>1. CASE UNCHANGED <<vars, saved>> \/ StoreStep \/ KillAll \/ PowerLossAll
  BY <1>1 DEF StoreStep, KillAll, PowerLossAll, Next, Crash
<1>2. ASSUME NEW k \in Keepers, CreateStep(k) \/ RestoreStep(k) \/ PublishStep(k), ~CopyDatabase(k)
      PROVE  UNCHANGED <<device, crashes>>
  BY <1>2 DEF CreateStep, RestoreStep, PublishStep, BeginCreate, BeginRestore, Begin, Lock,
              ReadCommitted, CopyCheckpoint, CheckRestored, SyncTree, Rename, SyncParent, Fail,
              End, vars
<1> QED
  BY <1>1, <1>2 DEF NextCheckpoints

LEMMA CheckpointLedgerStep ==
    ASSUME AllInv, AllInv', CrashesCounted, [NextCheckpoints]_<<vars, saved>>
    PROVE  [Ledger!Next]_<<Led, Dur>> /\ CrashesCounted'
<1>1. CASE [Next]_vars
  BY <1>1, LedgerStep, CrashesCountedStep DEF AllInv, StoreInv
<1>2. CASE UNCHANGED <<device, crashes>>
  BY <1>2 DEF device, Led, Dur, CrashesCounted
<1>3. ASSUME NEW k \in Keepers, CopyDatabase(k)
      PROVE  [Ledger!Next]_<<Led, Dur>> /\ CrashesCounted'
  <2>1. UNCHANGED wal /\ UNCHANGED crashes /\ synced' = Len(wal)
        /\ job[k] # None /\ job[k].step = "described"
    BY <1>3 DEF CopyDatabase, Doing
  <2>2. /\ wal # <<>> /\ Len(wal) \in Nat /\ Len(wal) > 0 /\ synced \in 0..Len(wal)
        /\ wal \in Seq(Blocks \cup {Identity})
    BY <2>1, HeightType, TipType
    DEF AllInv, CInv, StoreInv, TypeOK, DescribedCurrent
  <2>3. Len(Led) = Len(wal) - 1 /\ Led' = Led
    BY <2>1, <2>2, Rest DEF Led
  <2>4. Dur' = Len(wal) - 1 /\ Dur \in 0..Len(wal) - 1
    BY <2>1, <2>2 DEF Dur
  <2>5. Ledger!Harden
    BY <2>3, <2>4 DEF Ledger!Harden, Led, Dur
  <2> QED
    BY <2>1, <2>5 DEF Ledger!Next, CrashesCounted, Led, Dur
<1> QED
  BY <1>1, <1>2, <1>3, StorePart

\* The store implements the serial ledger among keepers as well: a creation that
\* holds its mutex and flushes it only makes blocks durable.
THEOREM CheckpointsRefineLedger == SpecCheckpoints => SerialLedger
<1>1. InitCheckpoints => Ledger!Init /\ CrashesCounted
  BY LedgerInit, BoundAssumption DEF InitCheckpoints, CrashesCounted, Init
<1>2. AllInv /\ AllInv' /\ CrashesCounted /\ [NextCheckpoints]_<<vars, saved>>
        => /\ [Ledger!Next]_<<SubSeq(wal, 2, Len(wal)), IF synced = 0 THEN 0 ELSE synced - 1>>
           /\ CrashesCounted'
  BY CheckpointLedgerStep DEF Led, Dur
<1> QED
  BY <1>1, <1>2, CheckpointsInvariant, PTL DEF SpecCheckpoints, SerialLedger, Ledger!Spec
=============================================================================
