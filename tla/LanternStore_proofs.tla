------------------------- MODULE LanternStore_proofs -------------------------
(***************************************************************************)
(* Proofs about LanternStore, for any number of threads, of blocks and of  *)
(* crashes.                                                                *)
(***************************************************************************)
EXTENDS LanternStore, SequenceTheorems, TLAPS

-----------------------------------------------------------------------------
(* The log *)

\* Appending an entry to the log leaves the earlier entries where they are.
LEMMA LogGrows ==
    ASSUME TypeOK, NEW e \in Blocks \cup {Identity}, wal' = Append(wal, e)
    PROVE  /\ wal' \in Seq(Blocks \cup {Identity})
           /\ Len(wal') = Len(wal) + 1
           /\ \A i \in 1..Len(wal) : wal'[i] = wal[i]
           /\ wal'[Len(wal) + 1] = e
           /\ wal' # <<>>
BY DEF TypeOK

\* Losing the end of the log leaves the entries kept where they are.
LEMMA LogCut ==
    ASSUME TypeOK, NEW n \in 0..Len(wal), wal' = SubSeq(wal, 1, n)
    PROVE  /\ wal' \in Seq(Blocks \cup {Identity})
           /\ Len(wal') = n
           /\ \A i \in 1..n : wal'[i] = wal[i]
           /\ n > 0 => wal' # <<>>
           /\ n = 0 => wal' = <<>>
<1>1. \A i \in 1..n : wal[i] \in Blocks \cup {Identity}
  BY DEF TypeOK
<1>2. /\ wal' \in Seq(Blocks \cup {Identity})
      /\ Len(wal') = IF 1 <= n THEN n - 1 + 1 ELSE 0
      /\ \A i \in 1..(n - 1 + 1) : wal'[i] = wal[1 + i - 1]
  BY <1>1, SubSeqProperties
<1> QED
  BY <1>2, EmptySeq

\* The height is a natural number, one less than the length of a log that is
\* not empty.
LEMMA HeightType ==
    ASSUME TypeOK
    PROVE  /\ Len(wal) \in Nat /\ Height \in Nat
           /\ wal # <<>> => Len(wal) > 0 /\ Height = Len(wal) - 1
BY DEF TypeOK, Height

-----------------------------------------------------------------------------
(* Types *)

\* How far the creation of the database got: a log exists only over complete
\* column families, its identity is on the device, and a process that has the
\* store open has one.
Created ==
    /\ wal # <<>> => directory = "complete" /\ synced > 0
    /\ opened => wal # <<>>
    /\ process = "open" => wal # <<>>
    /\ process = "creating" => wal = <<>>

\* What a thread wrote about itself is reset to values of the right type.
LEMMA IdleType ==
    ASSUME TypeOK, NEW t \in Threads, Idle(t)
    PROVE  /\ pc' \in [Threads -> Places]
           /\ view' \in [Threads -> Nat \cup {None}]
           /\ base' \in [Threads -> Nat]
           /\ saw' \in [Threads -> SUBSET Nat]
           /\ durability' \in [Threads -> {"Wal", "SyncWal"}]
BY DEF TypeOK, Idle, Places

\* Opening and creating the database preserves the types.
LEMMA OpenType ==
    ASSUME TypeOK, Created, Open
    PROVE  TypeOK' /\ Created'
<1>1. CASE CreateDatabase
  BY <1>1 DEF TypeOK, Created, CreateDatabase, thread
<1>3. CASE CreateColumnFamilies
  BY <1>3 DEF TypeOK, Created, CreateColumnFamilies, thread
<1>4. CASE OpenExisting
  BY <1>4 DEF TypeOK, Created, OpenExisting, Openable, device, thread
<1>5. CASE RefuseOpen
  BY <1>5 DEF TypeOK, Created, RefuseOpen, vars, device, thread
<1>2. CASE InitializeIdentity
  <2>1. wal = <<>> /\ wal' = Append(wal, Identity) /\ synced' = Len(wal) + 1
    BY <1>2 DEF InitializeIdentity, Write, Created
  <2>2. /\ wal' \in Seq(Blocks \cup {Identity}) /\ Len(wal') = Len(wal) + 1
        /\ wal'[Len(wal) + 1] = Identity /\ wal' # <<>>
    BY <2>1, LogGrows
  <2>3. Len(wal) = 0 /\ Len(wal') = 1
    BY <2>1, <2>2
  <2> QED
    BY <1>2, <2>1, <2>2, <2>3 DEF TypeOK, Created, InitializeIdentity, thread
<1> QED
  BY <1>1, <1>2, <1>3, <1>4, <1>5 DEF Open

\* Preparing a block preserves the types.
LEMMA PrepareType ==
    ASSUME TypeOK, Created, NEW t \in Threads, PrepareStep(t)
    PROVE  TypeOK' /\ Created'
<1>1. Height \in Nat /\ Visible(t) \in Nat
  BY HeightType DEF Visible, TypeOK
<1>2. ASSUME NEW snapshot \in BOOLEAN, ReadMetadata(t, snapshot)
      PROVE  TypeOK' /\ Created'
  BY <1>1, <1>2 DEF ReadMetadata, TypeOK, Created, device, Goto, At, Places
<1>3. CASE Recover(t) \/ ReadState(t)
  <2> DEFINE seen == saw[t] \cup {Visible(t)}
  <2>3. seen \in SUBSET Nat
    BY <1>1 DEF TypeOK
  <2>4. saw' = [saw EXCEPT ![t] = seen]
    BY <1>3 DEF Recover, ReadState, See
  <2>1. saw' \in [Threads -> SUBSET Nat]
    <3> HIDE DEF seen
    <3> QED
      BY <2>3, <2>4 DEF TypeOK
  <2>2. pc' \in [Threads -> Places]
    BY <1>3 DEF Recover, ReadState, Goto, TypeOK, Places
  <2> QED
    BY <1>3, <2>1, <2>2 DEF Recover, ReadState, TypeOK, Created, device
<1>5. CASE FinishPrepare(t)
  BY <1>5 DEF FinishPrepare, TypeOK, Created, device, Goto, Places
<1>4. CASE CrossCheckFails(t) \/ Drop(t)
  BY <1>4, IdleType DEF CrossCheckFails, Drop, TypeOK, Created, device, At
<1> QED
  BY <1>2, <1>3, <1>4, <1>5 DEF PrepareStep

\* A block is a block.
LEMMA BlockType == ASSUME TypeOK, NEW t \in Threads PROVE Block(t) \in Blocks
BY DEF TypeOK, Block, Blocks

\* Committing a block preserves the types.
LEMMA CommitType ==
    ASSUME TypeOK, Created, NEW t \in Threads, CommitStep(t)
    PROVE  TypeOK' /\ Created'
<1>1. ASSUME NEW d \in {"Wal", "SyncWal"}, Acquire(t, d)
      PROVE  TypeOK' /\ Created'
  BY <1>1 DEF Acquire, TypeOK, Created, device, Goto, At, Places
<1>2. CASE Validate(t)
  BY <1>2 DEF Validate, TypeOK, Created, device, Goto, At, Places
<1>3. CASE RefuseBlock(t)
  BY <1>3, IdleType DEF RefuseBlock, TypeOK, Created, device, At
<1>4. CASE WriteBlock(t)
  <2>1. /\ wal # <<>> /\ wal' = Append(wal, Block(t))
        /\ synced' \in {synced, Len(wal) + 1}
    BY <1>4 DEF WriteBlock, Write, Created, At
  <2>2. /\ wal' \in Seq(Blocks \cup {Identity}) /\ Len(wal') = Len(wal) + 1
        /\ \A i \in 1..Len(wal) : wal'[i] = wal[i]
        /\ wal'[Len(wal) + 1] = Block(t) /\ wal' # <<>>
    BY <2>1, BlockType, LogGrows
  <2>3. Len(wal) \in Nat /\ Len(wal) > 0 /\ Block(t) \in Blocks
    BY <2>1, HeightType, BlockType
  <2>4. wal'[1] = Identity /\ (\A i \in 2..Len(wal') : wal'[i] \in Blocks)
    BY <2>1, <2>2, <2>3 DEF TypeOK
  <2>5. synced' \in 0..Len(wal') /\ synced' > 0
    BY <2>1, <2>2, <2>3 DEF TypeOK, Created
  <2> QED
    BY <1>4, <2>1, <2>2, <2>4, <2>5
    DEF WriteBlock, TypeOK, Created, Goto, At, Places
<1>5. CASE ReturnReceipt(t)
  <2>1. base[t] + 1 \in Nat /\ Block(t) \in Blocks
    BY BlockType DEF TypeOK
  <2>2. PICK flag \in BOOLEAN : receipts' = receipts \cup
            {[height |-> base[t] + 1, block |-> Block(t), wal_synced |-> flag]}
    BY <1>5 DEF ReturnReceipt
  <2>3. receipts' \subseteq Receipts
    BY <2>1, <2>2 DEF TypeOK, Receipts
  <2> QED
    BY <1>5, <2>3, IdleType DEF ReturnReceipt, TypeOK, Created, device, At
<1> QED
  BY <1>1, <1>2, <1>3, <1>4, <1>5 DEF CommitStep

\* A crash preserves the types.
LEMMA CrashType ==
    ASSUME TypeOK, Created, Crash
    PROVE  TypeOK' /\ Created'
<1>1. ASSUME Die, UNCHANGED device PROVE TypeOK' /\ Created'
  BY <1>1 DEF Die, device, TypeOK, Created, Places
<1>2. CASE Kill
  BY <1>1, <1>2 DEF Kill
<1>3. ASSUME NEW n \in synced..Len(wal), PowerLoss(n) PROVE TypeOK' /\ Created'
  <2>1. n \in 0..Len(wal) /\ wal' = SubSeq(wal, 1, n) /\ synced' = n
    BY <1>3 DEF PowerLoss, TypeOK
  <2>2. /\ wal' \in Seq(Blocks \cup {Identity}) /\ Len(wal') = n
        /\ \A i \in 1..n : wal'[i] = wal[i]
        /\ n > 0 => wal' # <<>>
        /\ n = 0 => wal' = <<>>
    BY <2>1, LogCut
  <2>3. wal # <<>> => n > 0
    BY <2>1 DEF TypeOK, Created
  <2>4. wal = <<>> => wal' = <<>>
    BY <2>1, <2>2 DEF TypeOK
  <2>5. /\ wal' # <<>> => wal'[1] = Identity
        /\ \A i \in 2..Len(wal') : wal'[i] \in Blocks
    BY <2>1, <2>2, <2>3, <2>4 DEF TypeOK
  <2>6. TypeOK'
    BY <1>3, <2>1, <2>2, <2>5 DEF PowerLoss, Die, TypeOK, Places
  <2>7. Created'
    BY <1>3, <2>1, <2>2, <2>3, <2>4 DEF PowerLoss, Die, TypeOK, Created
  <2> QED
    BY <2>6, <2>7
<1>4. CASE PowerLossDuringCreation
  <2>1. wal = <<>> /\ ~opened
    BY <1>4 DEF PowerLossDuringCreation, Created, TypeOK
  <2> QED
    BY <1>4, <2>1 DEF PowerLossDuringCreation, Die, TypeOK, Created, Places
<1> QED
  BY <1>2, <1>3, <1>4 DEF Crash

\* The types are preserved by every step.
LEMMA TypeStep == TypeOK /\ Created /\ [Next]_vars => TypeOK' /\ Created'
<1> SUFFICES ASSUME TypeOK, Created, [Next]_vars PROVE TypeOK' /\ Created'
  OBVIOUS
<1>1. CASE UNCHANGED vars
  BY <1>1 DEF vars, device, thread, TypeOK, Created
<1> QED
  BY <1>1, OpenType, PrepareType, CommitType, CrashType DEF Next, AtBound

\* Creation has not begun: nothing exists yet, and every variable has its type.
LEMMA InitTypes == Init => TypeOK /\ Created
<1> SUFFICES ASSUME Init PROVE TypeOK /\ Created
  OBVIOUS
<1>1. wal = <<>> /\ Len(wal) = 0 /\ wal \in Seq(Blocks \cup {Identity})
  BY EmptySeq DEF Init
<1>3. saw \in [Threads -> SUBSET Nat] /\ receipts \subseteq Receipts
  BY DEF Init
<1>4. \A i \in 2..Len(wal) : wal[i] \in Blocks
  BY <1>1
<1>5. 0 \in Nat /\ pc \in [Threads -> Places]
  BY DEF Init, Places
<1>6. /\ view \in [Threads -> Nat \cup {None}]
      /\ base \in [Threads -> Nat]
      /\ durability \in [Threads -> {"Wal", "SyncWal"}]
  BY <1>5 DEF Init
<1>8. synced \in 0..Len(wal) /\ crashes \in Nat
  BY <1>1 DEF Init
<1>7. opened \in BOOLEAN
  BY DEF Init
<1>2. TypeOK
  BY <1>1, <1>3, <1>4, <1>5, <1>6, <1>7, <1>8 DEF Init, TypeOK
<1> QED
  BY <1>2 DEF Init, Created

\* The log holds an identity followed by blocks, and every other variable a value
\* of its type.
THEOREM StoreTypeCorrect == Spec => [](TypeOK /\ Created)
BY InitTypes, TypeStep, PTL DEF Spec

\* A database that was opened once can be opened again after any crash: open()
\* returns only after its identity is on the device, over complete column families.
THEOREM OpenableForever == Spec => []StaysOpenable
<1>1. TypeOK /\ Created => StaysOpenable
  BY DEF Created, StaysOpenable, Openable
<1> QED
  BY <1>1, StoreTypeCorrect, PTL

-----------------------------------------------------------------------------
(* The inductive invariant *)

\* A thread inside commit_block holds the coordination mutex.
Exclusive == \A t \in Threads : pc[t] \in {"locked", "checked", "written"} => holder = t

\* No thread runs while the store is not open.
Asleep == process # "open" => \A t \in Threads : pc[t] = "idle"

\* A preparation has read nothing older than its metadata, nothing newer than
\* the store, and once its height has been validated the two are the same.
Bounded(t) ==
    pc[t] \notin {"idle", "written"} =>
        /\ base[t] <= Height
        /\ base[t] \in saw[t]
        /\ \A h \in saw[t] : base[t] <= h /\ h <= Height
        /\ view[t] \in {None, base[t]}
        /\ pc[t] = "checked" => base[t] = Height
ReadsBounded == \A t \in Threads : Bounded(t)

\* A block that is written but not acknowledged is the last one, and synced if
\* its caller asked for that.
WrittenOnTop ==
    \A t \in Threads : pc[t] = "written" =>
        /\ base[t] + 1 = Height
        /\ BlockAt(Height) = Block(t)
        /\ durability[t] = "SyncWal" => synced = Len(wal)

IInv ==
    /\ Exclusive /\ Asleep /\ ReadsBounded /\ WrittenOnTop
    /\ SerialBlocks /\ SyncedReceiptsDurable

\* What a step that leaves the log alone leaves alone with it.
LEMMA SameLog ==
    ASSUME UNCHANGED device
    PROVE  /\ Height' = Height
           /\ \A h \in Nat : BlockAt(h)' = BlockAt(h)
           /\ SerialBlocks => SerialBlocks'
           /\ UNCHANGED receipts /\ SyncedReceiptsDurable => SyncedReceiptsDurable'
<1>1. Height' = Height
  BY DEF device, Height
<1>2. \A h : BlockAt(h)' = BlockAt(h)
  BY DEF device, BlockAt
<1>3. SerialBlocks => SerialBlocks'
  BY <1>1, <1>2 DEF SerialBlocks
<1>4. UNCHANGED receipts /\ SyncedReceiptsDurable => SyncedReceiptsDurable'
  BY <1>2 DEF device, SyncedReceiptsDurable, BlockAt
<1> QED
  BY <1>1, <1>2, <1>3, <1>4

\* Opening the store keeps the invariant: no thread is awake yet.
LEMMA OpenKeeps == ASSUME TypeOK, Created, IInv, Open PROVE IInv'
<1>1. CASE CreateDatabase \/ CreateColumnFamilies \/ OpenExisting \/ RefuseOpen
  <2>1. wal' = wal /\ synced' = synced /\ UNCHANGED <<crashes, holder, thread, receipts>>
    BY <1>1 DEF CreateDatabase, CreateColumnFamilies, OpenExisting, RefuseOpen, device, vars
  <2>2. Height' = Height /\ \A h : BlockAt(h)' = BlockAt(h)
    BY <2>1 DEF Height, BlockAt
  <2>3. Asleep'
    BY <1>1, <2>1 DEF CreateDatabase, CreateColumnFamilies, OpenExisting, RefuseOpen,
                      IInv, Asleep, thread, vars
  <2>4. Exclusive' /\ ReadsBounded' /\ WrittenOnTop'
    BY <2>1, <2>2 DEF IInv, Exclusive, ReadsBounded, Bounded, WrittenOnTop, Block, thread
  <2>5. SerialBlocks' /\ SyncedReceiptsDurable'
    BY <2>1, <2>2 DEF IInv, SerialBlocks, SyncedReceiptsDurable
  <2> QED
    BY <2>3, <2>4, <2>5 DEF IInv
<1>2. CASE InitializeIdentity
  <2>1. /\ wal = <<>> /\ Len(wal) = 0 /\ wal' = Append(wal, Identity) /\ synced' = 1
        /\ UNCHANGED <<crashes, holder, thread, receipts>>
        /\ process = "creating"
    BY <1>2 DEF InitializeIdentity, Write, Created
  <2>2. \A t \in Threads : pc[t] = "idle" /\ pc'[t] = "idle"
    BY <2>1 DEF IInv, Asleep, thread
  <2>3. Height' = 0
    BY <2>1, LogGrows DEF Height
  <2>4. \A r \in receipts : ~r.wal_synced
    <3> SUFFICES ASSUME NEW r \in receipts, r.wal_synced PROVE FALSE
      OBVIOUS
    <3>1. r.height \in Nat /\ synced = 0
      BY <2>1 DEF TypeOK, Receipts
    <3> QED
      BY <3>1 DEF IInv, SyncedReceiptsDurable
  <2> QED
    BY <2>1, <2>2, <2>3, <2>4
    DEF IInv, Exclusive, Asleep, ReadsBounded, Bounded, WrittenOnTop, SerialBlocks,
        SyncedReceiptsDurable
<1> QED
  BY <1>1, <1>2 DEF Open

\* Preparing a block keeps the invariant: it reads only, at heights between that
\* of its metadata and the current one.
LEMMA PrepareKeeps ==
    ASSUME TypeOK, Created, IInv, NEW t \in Threads, PrepareStep(t)
    PROVE  IInv'
<1>1. UNCHANGED <<device, process, crashes, holder, receipts>>
  BY DEF PrepareStep, ReadMetadata, Recover, CrossCheckFails, ReadState, FinishPrepare, Drop
<1>2. Height' = Height /\ Height \in Nat /\ \A h \in Nat : BlockAt(h)' = BlockAt(h)
  BY <1>1, SameLog, HeightType
<1>3. SerialBlocks' /\ SyncedReceiptsDurable'
  BY <1>1, SameLog DEF IInv
<1>4. \A u \in Threads \ {t} : /\ pc'[u] = pc[u] /\ view'[u] = view[u] /\ base'[u] = base[u]
                               /\ saw'[u] = saw[u] /\ durability'[u] = durability[u]
  BY DEF PrepareStep, ReadMetadata, Recover, CrossCheckFails, ReadState, FinishPrepare, Drop,
         Idle, Goto, See, TypeOK
<1>5. process = "open" /\ pc'[t] \in {"idle", "recovering", "executing", "prepared"}
  BY DEF PrepareStep, ReadMetadata, Recover, CrossCheckFails, ReadState, FinishPrepare, Drop,
         Idle, Goto, At, TypeOK
<1>6. Exclusive' /\ Asleep'
  BY <1>1, <1>4, <1>5 DEF IInv, Exclusive, Asleep
<1>7. WrittenOnTop'
  BY <1>1, <1>2, <1>4, <1>5 DEF IInv, WrittenOnTop, Block, device, BlockAt
<1>8. Bounded(t)'
  <2>1. ASSUME NEW snapshot \in BOOLEAN, ReadMetadata(t, snapshot) PROVE Bounded(t)'
    BY <1>2, <1>5, <2>1 DEF ReadMetadata, TypeOK, Bounded
  <2>2. CASE Recover(t) \/ ReadState(t)
    <3>1. /\ pc[t] \in {"recovering", "executing"} /\ base'[t] = base[t] /\ view'[t] = view[t]
          /\ saw'[t] = saw[t] \cup {Visible(t)}
      BY <2>2 DEF Recover, ReadState, At, See, TypeOK
    <3>2. /\ base[t] <= Height /\ base[t] \in saw[t] /\ view[t] \in {None, base[t]}
          /\ \A h \in saw[t] : base[t] <= h /\ h <= Height
      BY <3>1 DEF IInv, ReadsBounded, Bounded
    <3>3. base[t] \in Nat /\ base[t] <= Visible(t) /\ Visible(t) <= Height
      BY <1>2, <3>2 DEF Visible, TypeOK
    <3> QED
      BY <1>2, <1>5, <3>1, <3>2, <3>3 DEF Bounded
  <2>3. CASE FinishPrepare(t)
    BY <1>2, <1>5, <2>3 DEF FinishPrepare, At, IInv, ReadsBounded, Bounded
  <2>4. CASE CrossCheckFails(t) \/ Drop(t)
    BY <2>4 DEF CrossCheckFails, Drop, Idle, TypeOK, Bounded
  <2> QED
    BY <2>1, <2>2, <2>3, <2>4 DEF PrepareStep
<1>9. ReadsBounded'
  BY <1>2, <1>4, <1>8 DEF IInv, ReadsBounded, Bounded
<1> QED
  BY <1>3, <1>6, <1>7, <1>9 DEF IInv

\* Writing a validated block keeps the invariant: its reads all saw the height it
\* extends, and nobody else is past the mutex.
LEMMA WriteKeeps ==
    ASSUME TypeOK, Created, IInv, NEW t \in Threads, WriteBlock(t)
    PROVE  IInv'
<1>1. /\ process = "open" /\ pc[t] = "checked" /\ wal # <<>> /\ wal' = Append(wal, Block(t))
      /\ synced' = IF durability[t] = "SyncWal" THEN Len(wal) + 1 ELSE synced
      /\ UNCHANGED <<process, crashes, holder, view, base, saw, durability, receipts>>
      /\ pc' = [pc EXCEPT ![t] = "written"]
  BY DEF WriteBlock, Write, At, Goto, Created
<1>2. /\ Len(wal') = Len(wal) + 1
      /\ \A i \in 1..Len(wal) : wal'[i] = wal[i]
      /\ wal'[Len(wal) + 1] = Block(t)
      /\ wal' # <<>>
  BY <1>1, LogGrows, BlockType
<1>3. /\ Len(wal) \in Nat /\ Len(wal) > 0 /\ Height = Len(wal) - 1 /\ Height \in Nat
      /\ synced \in 0..Len(wal)
  BY <1>1, HeightType DEF TypeOK
<1>4. Height' = Height + 1
  BY <1>2, <1>3 DEF Height
<1>5. (\A h \in 0..Height : wal'[h + 1] = wal[h + 1]) /\ wal'[Height + 2] = Block(t)
  BY <1>2, <1>3
<1>6. base[t] = Height /\ saw[t] = {Height}
  BY <1>1, <1>3 DEF IInv, ReadsBounded, Bounded, TypeOK
<1>7. \A u \in Threads \ {t} : pc'[u] = pc[u] /\ pc[u] \notin {"locked", "checked", "written"}
  BY <1>1 DEF IInv, Exclusive, TypeOK
<1>8. Exclusive' /\ Asleep'
  BY <1>1, <1>7 DEF IInv, Exclusive, Asleep, TypeOK
<1>9. ReadsBounded'
  <2> SUFFICES ASSUME NEW u \in Threads PROVE Bounded(u)'
    BY DEF ReadsBounded
  <2>1. CASE u = t
    BY <1>1, <2>1 DEF Bounded, TypeOK
  <2>2. CASE u # t
    <3>1. Bounded(u) /\ base[u] \in Nat /\ saw[u] \subseteq Nat
      BY DEF IInv, ReadsBounded, TypeOK
    <3> QED
      BY <1>1, <1>3, <1>4, <1>7, <2>2, <3>1 DEF Bounded
  <2> QED
    BY <2>1, <2>2
<1>10. WrittenOnTop'
  <2> SUFFICES ASSUME NEW u \in Threads, pc'[u] = "written"
               PROVE  /\ base'[u] + 1 = Height'
                      /\ wal'[Height' + 1] = Block(u)'
                      /\ durability'[u] = "SyncWal" => synced' = Len(wal')
    BY DEF WrittenOnTop, BlockAt
  <2>1. u = t
    BY <1>7
  <2>2. Block(u)' = Block(t)
    BY <1>1, <2>1 DEF Block
  <2> QED
    BY <1>1, <1>2, <1>3, <1>4, <1>5, <1>6, <2>1, <2>2
<1>11. SerialBlocks'
  <2> SUFFICES ASSUME NEW h \in 1..Height' PROVE wal'[h + 1].saw = {h - 1}
    BY DEF SerialBlocks, BlockAt
  <2>1. CASE h = Height + 1
    BY <1>3, <1>5, <1>6, <2>1 DEF Block
  <2>2. CASE h # Height + 1
    BY <1>3, <1>4, <1>5, <2>2 DEF IInv, SerialBlocks, BlockAt
  <2> QED
    BY <2>1, <2>2
<1>12. SyncedReceiptsDurable'
  <2> SUFFICES ASSUME NEW r \in receipts, r.wal_synced
               PROVE  r.height < synced' /\ wal'[r.height + 1] = r.block
    BY <1>1 DEF SyncedReceiptsDurable, BlockAt
  <2>1. r.height \in Nat /\ r.height < synced /\ wal[r.height + 1] = r.block
    BY DEF IInv, SyncedReceiptsDurable, TypeOK, Receipts, BlockAt
  <2> QED
    BY <1>1, <1>3, <1>5, <2>1
<1> QED
  BY <1>8, <1>9, <1>10, <1>11, <1>12 DEF IInv

\* Committing a block keeps the invariant.
LEMMA CommitKeeps ==
    ASSUME TypeOK, Created, IInv, NEW t \in Threads, CommitStep(t)
    PROVE  IInv'
<1>1. CASE WriteBlock(t)
  BY <1>1, WriteKeeps
<1>2. ASSUME ~WriteBlock(t) PROVE IInv'
  <2>1. UNCHANGED <<device, process, crashes>>
    BY <1>2 DEF CommitStep, Acquire, Validate, RefuseBlock, ReturnReceipt
  <2>2. Height' = Height /\ Height \in Nat /\ \A h \in Nat : BlockAt(h)' = BlockAt(h)
    BY <2>1, SameLog, HeightType
  <2>3. SerialBlocks'
    BY <2>1, SameLog DEF IInv
  <2>4. \A u \in Threads \ {t} : /\ pc'[u] = pc[u] /\ view'[u] = view[u] /\ base'[u] = base[u]
                                 /\ saw'[u] = saw[u] /\ durability'[u] = durability[u]
    BY <1>2 DEF CommitStep, Acquire, Validate, RefuseBlock, ReturnReceipt, Idle, Goto, TypeOK
  <2>5. process = "open" /\ pc'[t] \in {"idle", "locked", "checked"}
    BY <1>2 DEF CommitStep, Acquire, Validate, RefuseBlock, ReturnReceipt, Idle, Goto, At, TypeOK
  <2>6. Asleep'
    BY <2>1, <2>5 DEF Asleep
  <2>7. WrittenOnTop'
    BY <2>1, <2>2, <2>4, <2>5 DEF IInv, WrittenOnTop, Block, device, BlockAt
  <2>8. Exclusive'
    <3>1. CASE pc[t] = "prepared"
      BY <1>2, <2>4, <3>1, NoneAssumption DEF CommitStep, Acquire, Validate, RefuseBlock, ReturnReceipt, At,
                              IInv, Exclusive
    <3>2. CASE pc[t] # "prepared"
      <4>1. holder = t /\ \A u \in Threads \ {t} : pc[u] \notin {"locked", "checked", "written"}
        BY <1>2, <3>2 DEF CommitStep, Acquire, Validate, RefuseBlock, ReturnReceipt, At,
                          IInv, Exclusive
      <4>2. pc'[t] # "idle" => holder' = holder
        BY <1>2, <3>2 DEF CommitStep, Acquire, Validate, RefuseBlock, ReturnReceipt, At, Idle,
                          TypeOK
      <4> QED
        BY <2>4, <2>5, <4>1, <4>2 DEF Exclusive
    <3> QED
      BY <3>1, <3>2
  <2>9. ReadsBounded'
    <3>1. Bounded(t)
      BY DEF IInv, ReadsBounded
    <3>2. ASSUME NEW d \in {"Wal", "SyncWal"}, Acquire(t, d) PROVE Bounded(t)'
      BY <2>2, <3>1, <3>2 DEF Acquire, Goto, At, Bounded, TypeOK
    <3>3. ASSUME Validate(t) PROVE Bounded(t)'
      <4>1. base[t] = Height
        BY <2>2, <3>3 DEF Validate, Successor, TypeOK
      <4> QED
        BY <2>2, <3>1, <3>3, <4>1 DEF Validate, Goto, At, Bounded, TypeOK
    <3>4. ASSUME RefuseBlock(t) \/ ReturnReceipt(t) PROVE Bounded(t)'
      BY <3>4 DEF RefuseBlock, ReturnReceipt, Idle, Bounded, TypeOK
    <3>5. Bounded(t)'
      BY <1>2, <3>2, <3>3, <3>4 DEF CommitStep
    <3> QED
      BY <2>2, <2>4, <3>5 DEF IInv, ReadsBounded, Bounded
  <2>10. SyncedReceiptsDurable'
    <3>1. CASE ReturnReceipt(t)
      <4> DEFINE r == [height |-> base[t] + 1, block |-> Block(t),
                       wal_synced |-> durability[t] = "SyncWal"]
      <4>1. /\ receipts' = receipts \cup {r} /\ r.height = base[t] + 1
            /\ r.block = Block(t)
            /\ r.wal_synced => durability[t] = "SyncWal"
        BY <3>1 DEF ReturnReceipt
      <4> HIDE DEF r
      <4>2. r.height = Height /\ r.block = BlockAt(Height)
            /\ (r.wal_synced => synced = Len(wal))
        BY <3>1, <4>1 DEF ReturnReceipt, At, IInv, WrittenOnTop
      <4>3. wal # <<>>
        BY <2>5 DEF Created
      <4>4. r.wal_synced => r.height < synced
        BY <4>2, <4>3, HeightType
      <4> QED
        BY <2>1, <4>1, <4>2, <4>4 DEF IInv, SyncedReceiptsDurable, device, BlockAt
    <3>2. CASE ~ReturnReceipt(t)
      <4>1. UNCHANGED receipts
        BY <1>2, <3>2 DEF CommitStep, Acquire, Validate, RefuseBlock
      <4> QED
        BY <2>1, <4>1, SameLog DEF IInv
    <3> QED
      BY <3>1, <3>2
  <2> QED
    BY <2>3, <2>6, <2>7, <2>8, <2>9, <2>10 DEF IInv
<1> QED
  BY <1>1, <1>2

\* A crash keeps the invariant: no thread survives it, and no block that a
\* receipt called synced is cut off.
LEMMA CrashKeeps == ASSUME TypeOK, Created, IInv, Crash PROVE IInv'
<1>1. Die
  BY DEF Crash, Kill, PowerLoss, PowerLossDuringCreation
<1>2. Exclusive' /\ Asleep' /\ ReadsBounded' /\ WrittenOnTop'
  BY <1>1 DEF Die, Exclusive, Asleep, ReadsBounded, Bounded, WrittenOnTop
<1>3. receipts' = receipts
  BY <1>1 DEF Die
<1>4. CASE Kill
  BY <1>2, <1>3, <1>4, SameLog DEF Kill, IInv
<1>5. ASSUME NEW n \in synced..Len(wal), PowerLoss(n) PROVE IInv'
  <2>1. n \in 0..Len(wal) /\ wal' = SubSeq(wal, 1, n) /\ synced' = n
    BY <1>5 DEF PowerLoss, TypeOK
  <2>2. /\ Len(wal') = n /\ n \in Nat
        /\ \A i \in 1..n : wal'[i] = wal[i]
        /\ n = 0 => wal' = <<>>
        /\ n > 0 => wal' # <<>>
    BY <2>1, LogCut
  <2>3. Height' = (IF n = 0 THEN 0 ELSE n - 1) /\ Height' <= Height /\ Height \in Nat
    BY <2>1, <2>2, HeightType DEF Height
  <2>4. SerialBlocks'
    <3> SUFFICES ASSUME NEW h \in 1..Height' PROVE wal'[h + 1].saw = {h - 1}
      BY DEF SerialBlocks, BlockAt
    <3>1. h \in 1..Height /\ wal'[h + 1] = wal[h + 1]
      BY <2>1, <2>2, <2>3
    <3> QED
      BY <3>1 DEF IInv, SerialBlocks, BlockAt
  <2>5. SyncedReceiptsDurable'
    <3> SUFFICES ASSUME NEW r \in receipts, r.wal_synced
                 PROVE  r.height < synced' /\ wal'[r.height + 1] = r.block
      BY <1>3 DEF SyncedReceiptsDurable, BlockAt
    <3>1. r.height \in Nat /\ r.height < synced /\ wal[r.height + 1] = r.block
      BY DEF IInv, SyncedReceiptsDurable, TypeOK, Receipts, BlockAt
    <3>2. synced \in Nat /\ synced <= n
      BY DEF TypeOK
    <3> QED
      BY <2>1, <2>2, <3>1, <3>2
  <2> QED
    BY <1>2, <2>4, <2>5 DEF IInv
<1>6. CASE PowerLossDuringCreation
  <2>1. wal' = <<>> /\ synced = 0
    BY <1>6 DEF PowerLossDuringCreation
  <2>2. Height' = 0
    BY <2>1 DEF Height
  <2>3. \A r \in receipts : ~r.wal_synced
    <3> SUFFICES ASSUME NEW r \in receipts, r.wal_synced PROVE FALSE
      OBVIOUS
    <3>1. r.height \in Nat
      BY DEF TypeOK, Receipts
    <3> QED
      BY <2>1, <3>1 DEF IInv, SyncedReceiptsDurable
  <2>4. SerialBlocks'
    BY <2>2 DEF SerialBlocks
  <2> QED
    BY <1>2, <1>3, <2>3, <2>4 DEF IInv, SyncedReceiptsDurable
<1> QED
  BY <1>4, <1>5, <1>6 DEF Crash

\* The invariant is inductive, given the types.
LEMMA StoreStepKeeps == TypeOK /\ Created /\ IInv /\ [Next]_vars => IInv'
<1> SUFFICES ASSUME TypeOK, Created, IInv, [Next]_vars PROVE IInv'
  OBVIOUS
<1>1. ASSUME UNCHANGED vars PROVE IInv'
  <2>1. SerialBlocks' /\ SyncedReceiptsDurable' /\ Height' = Height
        /\ (\A h \in Nat : BlockAt(h)' = BlockAt(h)) /\ Height \in Nat
    BY <1>1, SameLog, HeightType DEF vars, IInv
  <2> QED
    BY <1>1, <2>1 DEF vars, thread, device, IInv, Exclusive, Asleep, ReadsBounded, Bounded,
                      WrittenOnTop, Block, BlockAt
<1> QED
  BY <1>1, OpenKeeps, PrepareKeeps, CommitKeeps, CrashKeeps DEF Next, AtBound

\* The mutex, the bounds on what a preparation has read, and the two promises
\* about the log hold together in every reachable state.
THEOREM StoreInvariant == Spec => [](TypeOK /\ Created /\ IInv)
<1>1. Init => IInv
  BY DEF Init, IInv, Exclusive, Asleep, ReadsBounded, Bounded, WrittenOnTop, SerialBlocks,
         SyncedReceiptsDurable, Height
<1> QED
  BY <1>1, StoreTypeCorrect, StoreStepKeeps, PTL DEF Spec

\* Every committed block was computed from exactly the state it extends, however
\* many threads prepare and commit at once: the height check under the mutex is
\* enough to reject every stale or torn preparation.
THEOREM BlocksAreSerial == Spec => []SerialBlocks
<1>1. IInv => SerialBlocks
  BY DEF IInv
<1> QED
  BY <1>1, StoreInvariant, PTL

\* A block acknowledged as synced, with every block before it, survives every
\* crash of the process and of the machine.
THEOREM SyncedBlocksSurvive == Spec => []SyncedReceiptsDurable
<1>1. IInv => SyncedReceiptsDurable
  BY DEF IInv
<1> QED
  BY <1>1, StoreInvariant, PTL

-----------------------------------------------------------------------------
(* Refinement *)

\* A log without its first entry.
LEMMA Rest ==
    ASSUME NEW S, NEW log \in Seq(S), NEW m \in Nat, m > 0, Len(log) = m
    PROVE  LET rest == SubSeq(log, 2, Len(log)) IN
           /\ rest \in Seq(S)
           /\ Len(rest) = m - 1
           /\ \A i \in 1..(m - 1) : rest[i] = log[i + 1]
<1> DEFINE rest == SubSeq(log, 2, m)
<1>1. \A i \in 2..m : log[i] \in S
  BY ElementOfSeq
<1>2. /\ rest \in Seq(S)
      /\ Len(rest) = IF 2 <= m THEN m - 2 + 1 ELSE 0
      /\ \A i \in 1..(m - 2 + 1) : rest[i] = log[2 + i - 1]
  BY <1>1, SubSeqProperties
<1> HIDE DEF rest
<1>3. Len(rest) = m - 1
  <2>1. CASE m = 1
    BY <1>2, <2>1
  <2>2. CASE m # 1
    BY <1>2, <2>2
  <2> QED
    BY <2>1, <2>2
<1>4. ASSUME NEW i \in 1..(m - 1) PROVE rest[i] = log[i + 1]
  <2>1. i \in 1..(m - 2 + 1) /\ 2 + i - 1 = i + 1
    OBVIOUS
  <2>2. rest[i] = log[2 + i - 1]
    BY <1>2, <2>1
  <2> QED
    BY <2>1, <2>2
<1> QED
  BY <1>2, <1>3, <1>4 DEF rest

\* Dropping the first entry of a log commutes with appending to it.
LEMMA DropAppend ==
    ASSUME NEW S, NEW log \in Seq(S), NEW m \in Nat, m > 0, Len(log) = m, NEW e \in S
    PROVE  LET longer == Append(log, e) IN
           SubSeq(longer, 2, Len(longer)) = Append(SubSeq(log, 2, Len(log)), e)
<1> DEFINE longer == Append(log, e)
           a == SubSeq(longer, 2, Len(longer))
           b == SubSeq(log, 2, Len(log))
<1>1. /\ longer \in Seq(S) /\ Len(longer) = m + 1
      /\ \A i \in 1..m : longer[i] = log[i]
      /\ longer[m + 1] = e
  OBVIOUS
<1> HIDE DEF longer
<1>2. /\ a \in Seq(S) /\ Len(a) = m + 1 - 1
      /\ \A i \in 1..(m + 1 - 1) : a[i] = longer[i + 1]
  <2>1. m + 1 \in Nat /\ m + 1 > 0
    OBVIOUS
  <2> QED
    BY <1>1, <2>1, Rest
<1>3. /\ b \in Seq(S) /\ Len(b) = m - 1
      /\ \A i \in 1..(m - 1) : b[i] = log[i + 1]
  BY Rest
<1> HIDE DEF a, b
<1>4. /\ Append(b, e) \in Seq(S) /\ Len(Append(b, e)) = m
      /\ \A i \in 1..(m - 1) : Append(b, e)[i] = b[i]
      /\ Append(b, e)[m] = e
  BY <1>3
<1>5. ASSUME NEW i \in 1..m PROVE a[i] = Append(b, e)[i]
  <2>1. a[i] = longer[i + 1]
    BY <1>2
  <2>2. CASE i = m
    BY <1>1, <1>4, <2>1, <2>2
  <2>3. CASE i # m
    <3>1. i \in 1..(m - 1) /\ i + 1 \in 1..m
      BY <2>3
    <3> QED
      BY <1>1, <1>3, <1>4, <2>1, <3>1
  <2> QED
    BY <2>2, <2>3
<1>6. Len(a) = m /\ Len(a) = Len(Append(b, e))
  BY <1>2, <1>4
<1>7. a = Append(b, e)
  BY <1>2, <1>4, <1>5, <1>6, SeqEqual
<1> QED
  BY <1>7 DEF a, b, longer

\* Dropping the first entry of a log commutes with cutting its end.
LEMMA DropCut ==
    ASSUME NEW S, NEW log \in Seq(S), NEW m \in Nat, Len(log) = m, NEW n \in 1..m
    PROVE  LET cut == SubSeq(log, 1, n) IN
           SubSeq(cut, 2, Len(cut)) = SubSeq(SubSeq(log, 2, Len(log)), 1, n - 1)
<1> DEFINE cut == SubSeq(log, 1, n)
           rest == SubSeq(log, 2, Len(log))
           a == SubSeq(cut, 2, Len(cut))
           b == SubSeq(rest, 1, n - 1)
<1>1. /\ cut \in Seq(S) /\ Len(cut) = n
      /\ \A i \in 1..n : cut[i] = log[i]
  <2>1. \A i \in 1..n : log[i] \in S
    BY ElementOfSeq
  <2>2. /\ cut \in Seq(S)
        /\ Len(cut) = IF 1 <= n THEN n - 1 + 1 ELSE 0
        /\ \A i \in 1..(n - 1 + 1) : cut[i] = log[1 + i - 1]
    BY <2>1, SubSeqProperties
  <2> HIDE DEF cut
  <2> QED
    BY <2>2
<1>2. /\ rest \in Seq(S) /\ Len(rest) = m - 1
      /\ \A i \in 1..(m - 1) : rest[i] = log[i + 1]
  BY Rest
<1> HIDE DEF cut, rest
<1>3. /\ a \in Seq(S) /\ Len(a) = n - 1
      /\ \A i \in 1..(n - 1) : a[i] = cut[i + 1]
  BY <1>1, Rest
<1>4. /\ b \in Seq(S) /\ Len(b) = n - 1
      /\ \A i \in 1..(n - 1) : b[i] = rest[i]
  <2>1. \A i \in 1..(n - 1) : rest[i] \in S
    BY <1>2, ElementOfSeq
  <2>2. /\ b \in Seq(S)
        /\ Len(b) = IF 1 <= n - 1 THEN n - 1 - 1 + 1 ELSE 0
        /\ \A i \in 1..(n - 1 - 1 + 1) : b[i] = rest[1 + i - 1]
    BY <2>1, SubSeqProperties
  <2> HIDE DEF b
  <2> QED
    BY <2>2
<1> HIDE DEF a, b
<1>5. ASSUME NEW i \in 1..(n - 1) PROVE a[i] = b[i]
  <2>1. i \in 1..(m - 1) /\ i + 1 \in 1..n
    OBVIOUS
  <2> QED
    BY <1>1, <1>2, <1>3, <1>4, <2>1
<1>6. a = b
  BY <1>3, <1>4, <1>5, SeqEqual
<1> QED
  BY <1>6 DEF a, b, cut, rest

\* The serial ledger that a store stands for.
Led == SubSeq(wal, 2, Len(wal))
Dur == IF synced = 0 THEN 0 ELSE synced - 1

\* Crashes are counted up to their bound.
CrashesCounted == crashes \in 0..MaxCrashes

LEMMA CrashesCountedStep == CrashesCounted /\ [Next]_vars => CrashesCounted'
<1> SUFFICES ASSUME CrashesCounted, [Next]_vars PROVE CrashesCounted'
  OBVIOUS
<1>1. CASE Crash
  BY <1>1, BoundAssumption DEF Crash, Kill, PowerLoss, PowerLossDuringCreation, Die,
                               CrashesCounted
<1>2. CASE ~Crash
  <2>1. crashes' = crashes
    BY <1>2 DEF Next, vars, AtBound, Open, CreateDatabase, CreateColumnFamilies,
           InitializeIdentity, OpenExisting, RefuseOpen, PrepareStep, ReadMetadata, Recover,
           CrossCheckFails, ReadState, FinishPrepare, Drop, CommitStep, Acquire, Validate,
           RefuseBlock, WriteBlock, ReturnReceipt
  <2> QED
    BY <2>1 DEF CrashesCounted
<1> QED
  BY <1>1, <1>2

LEMMA CrashesStayCounted == Spec => []CrashesCounted
<1>1. Init => CrashesCounted
  BY BoundAssumption DEF Init, CrashesCounted
<1> QED
  BY <1>1, CrashesCountedStep, PTL DEF Spec

\* Only four steps change the log.
LEMMA LogSteps ==
    ASSUME [Next]_vars
    PROVE  \/ UNCHANGED <<wal, synced>>
           \/ InitializeIdentity
           \/ \E t \in Threads : WriteBlock(t)
           \/ PowerLossDuringCreation
           \/ \E n \in synced..Len(wal) : PowerLoss(n)
BY DEF Next, vars, device, AtBound, Open, CreateDatabase, CreateColumnFamilies,
       OpenExisting, RefuseOpen, PrepareStep, ReadMetadata, Recover, CrossCheckFails, ReadState,
       FinishPrepare, Drop, CommitStep, Acquire, Validate, RefuseBlock, ReturnReceipt, Crash, Kill

\* A log of at most an identity stands for the empty ledger.
LEMMA LedgerEmpty ==
    ASSUME NEW log \in Seq(Blocks \cup {Identity}), Len(log) \in {0, 1}
    PROVE  SubSeq(log, 2, Len(log)) = <<>>
<1>1. CASE Len(log) = 1
  BY <1>1, Rest, EmptySeq
<1>2. CASE Len(log) = 0
  <2> DEFINE rest == SubSeq(log, 2, 0)
  <2>1. rest \in Seq(Blocks \cup {Identity}) /\ Len(rest) = IF 2 <= 0 THEN 0 - 2 + 1 ELSE 0
    BY SubSeqProperties
  <2> HIDE DEF rest
  <2>2. rest = <<>>
    BY <2>1, EmptySeq
  <2> QED
    BY <1>2, <2>2 DEF rest
<1> QED
  BY <1>1, <1>2

\* Writing a block executes it on the serial ledger.
LEMMA WriteExecutes ==
    ASSUME TypeOK, Created, SerialBlocks', CrashesCounted,
           NEW t \in Threads, WriteBlock(t)
    PROVE  Ledger!Execute(crashes, durability[t] = "SyncWal")
<1>1. /\ wal # <<>> /\ wal' = Append(wal, Block(t))
      /\ synced' = IF durability[t] = "SyncWal" THEN Len(wal) + 1 ELSE synced
  BY DEF WriteBlock, At, Write, Created
<1>2. /\ wal \in Seq(Blocks \cup {Identity}) /\ Len(wal) \in Nat /\ Len(wal) > 0
      /\ Block(t) \in Blocks \cup {Identity}
      /\ synced \in Nat /\ synced > 0
  BY <1>1, HeightType, BlockType DEF TypeOK, Created
<1>3. Led' = Append(Led, Block(t))
  BY <1>1, <1>2, DropAppend DEF Led
<1>4. Len(Led) = Len(wal) - 1
  BY <1>2, Rest DEF Led
<1>5. Block(t) = [life |-> crashes, saw |-> {Len(Led)}]
  <2>1. /\ Len(wal') = Len(wal) + 1 /\ wal' # <<>>
        /\ wal'[Len(wal) + 1] = Block(t)
    BY <1>1, <1>2, LogGrows
  <2>2. Height' = Len(wal) /\ Len(wal) \in 1..Height'
    BY <1>2, <2>1 DEF Height
  <2>3. wal'[Len(wal) + 1].saw = {Len(wal) - 1}
    BY <2>2 DEF SerialBlocks, BlockAt
  <2>4. Block(t) = [life |-> crashes, saw |-> saw[t]]
    BY DEF Block
  <2>5. Block(t).saw = saw[t]
    BY <2>4
  <2>6. saw[t] = {Len(Led)}
    BY <1>4, <2>1, <2>3, <2>5
  <2> QED
    BY <2>4, <2>6
<1>6. Dur' = IF durability[t] = "SyncWal" THEN Len(Led) + 1 ELSE Dur
  <2>1. CASE durability[t] = "SyncWal"
    BY <1>1, <1>2, <1>4, <2>1 DEF Dur
  <2>2. CASE durability[t] # "SyncWal"
    BY <1>1, <2>2 DEF Dur
  <2> QED
    BY <2>1, <2>2
<1> QED
  BY <1>3, <1>5, <1>6 DEF Ledger!Execute, Led, Dur

\* Losing power cuts the serial ledger.
LEMMA PowerLossLoses ==
    ASSUME TypeOK, Created, NEW n \in synced..Len(wal), PowerLoss(n)
    PROVE  UNCHANGED <<Led, Dur>> \/ \E k \in Dur..Len(Led) : Ledger!Lose(k)
<1>1. /\ wal' = SubSeq(wal, 1, n) /\ synced' = n
      /\ wal \in Seq(Blocks \cup {Identity}) /\ Len(wal) \in Nat
      /\ synced \in Nat /\ n \in Nat /\ synced <= n /\ n <= Len(wal)
  BY HeightType DEF PowerLoss, TypeOK
<1>2. CASE wal = <<>>
  <2>1. n = 0 /\ synced = 0
    BY <1>1, <1>2
  <2>2. wal' = <<>>
    BY <1>1, <2>1, LogCut
  <2> QED
    BY <1>1, <1>2, <2>1, <2>2 DEF Led, Dur
<1>3. CASE wal # <<>>
  <2>1. synced > 0 /\ n \in 1..Len(wal) /\ Len(wal) > 0
    BY <1>1, <1>3 DEF Created
  <2>2. Led' = SubSeq(Led, 1, n - 1)
    BY <1>1, <2>1, DropCut DEF Led
  <2>3. Len(Led) = Len(wal) - 1
    BY <1>1, <2>1, Rest DEF Led
  <2>4. Dur' = n - 1 /\ Dur = synced - 1
    BY <1>1, <2>1 DEF Dur
  <2>5. n - 1 \in Dur..Len(Led)
    BY <1>1, <2>1, <2>3, <2>4
  <2>6. Ledger!Lose(n - 1)
    BY <2>2, <2>4 DEF Ledger!Lose, Led, Dur
  <2> QED
    BY <2>5, <2>6
<1> QED
  BY <1>2, <1>3

\* Every step of the store is a step of the serial ledger, or none.
LEMMA LedgerStep ==
    TypeOK /\ Created /\ IInv /\ CrashesCounted /\ IInv' /\ [Next]_vars
      => [Ledger!Next]_<<Led, Dur>>
<1> SUFFICES ASSUME TypeOK, Created, CrashesCounted, IInv', [Next]_vars
             PROVE  Ledger!Next \/ UNCHANGED <<Led, Dur>>
  OBVIOUS
<1>1. CASE UNCHANGED <<wal, synced>>
  BY <1>1 DEF Led, Dur
<1>2. CASE InitializeIdentity
  <2>1. /\ wal = <<>> /\ synced = 0 /\ Len(wal) = 0
        /\ wal' = Append(wal, Identity) /\ synced' = 1
    BY <1>2 DEF InitializeIdentity, Write, Created, TypeOK
  <2>2. wal' \in Seq(Blocks \cup {Identity}) /\ Len(wal') = 1
    BY <2>1, LogGrows
  <2>3. Led = <<>> /\ Led' = <<>>
    BY <2>1, <2>2, LedgerEmpty DEF Led, TypeOK
  <2> QED
    BY <2>1, <2>3 DEF Dur
<1>3. ASSUME NEW t \in Threads, WriteBlock(t) PROVE Ledger!Next
  <2>1. Ledger!Execute(crashes, durability[t] = "SyncWal")
    BY <1>3, WriteExecutes DEF IInv
  <2>2. crashes \in 0..MaxCrashes /\ (durability[t] = "SyncWal") \in BOOLEAN
    BY DEF CrashesCounted
  <2> QED
    BY <2>1, <2>2 DEF Ledger!Next
<1>4. CASE PowerLossDuringCreation
  <2>1. wal = <<>> /\ wal' = <<>> /\ synced = 0 /\ synced' = 0
    BY <1>4 DEF PowerLossDuringCreation, Created
  <2> QED
    BY <2>1 DEF Led, Dur
<1>5. ASSUME NEW n \in synced..Len(wal), PowerLoss(n)
      PROVE  Ledger!Next \/ UNCHANGED <<Led, Dur>>
  BY <1>5, PowerLossLoses DEF Ledger!Next, Led, Dur
<1> QED
  BY <1>1, <1>2, <1>3, <1>4, <1>5, LogSteps

\* A store that does not exist yet is the empty ledger.
LEMMA LedgerInit == Init => Ledger!Init
<1> SUFFICES ASSUME Init PROVE Ledger!Init
  OBVIOUS
<1>1. wal = <<>> /\ Len(wal) = 0 /\ wal \in Seq(Blocks \cup {Identity}) /\ synced = 0
  BY EmptySeq DEF Init
<1> QED
  BY <1>1, LedgerEmpty DEF Ledger!Init

\* The store, with any number of threads preparing over live state or snapshots
\* and committing with any durability, and crashes at any point, implements the
\* serial ledger.
THEOREM StoreRefinesLedger == Spec => SerialLedger
<1>1. TypeOK /\ Created /\ IInv /\ CrashesCounted /\ IInv' /\ [Next]_vars
        => [Ledger!Next]_<<SubSeq(wal, 2, Len(wal)), IF synced = 0 THEN 0 ELSE synced - 1>>
  BY LedgerStep DEF Led, Dur
<1> QED
  BY <1>1, LedgerInit, StoreInvariant, CrashesStayCounted, PTL DEF Spec, SerialLedger, Ledger!Spec
=============================================================================
