----------------------------- MODULE LanternStore -----------------------------
(***************************************************************************)
(* One RocksStore of crates/lantern-store and the threads that use it: the *)
(* creation of the database and its identity, the preparation of blocks    *)
(* over the live store or over a snapshot while other threads commit, the  *)
(* commit under the coordination lock, and the death of the process or of  *)
(* the machine at any point between two steps.                             *)
(*                                                                         *)
(* The database is its write-ahead log.  Entry 1 is the store identity,    *)
(* entry h + 1 the block of height h, applied whole or not at all          *)
(* (RocksDB's WriteBatch).  A process that dies loses no entry; a machine  *)
(* that loses power keeps some prefix with everything synced (RocksDB      *)
(* syncs all earlier entries with a synced one, and recovers to a prefix). *)
(*                                                                         *)
(* A block is known by the life of the process that committed it and by    *)
(* the heights at which its preparation read the store.                    *)
(***************************************************************************)
EXTENDS Integers, Sequences, FiniteSets

CONSTANTS
    Threads,      \* threads that prepare and commit blocks
    Keepers,      \* other threads that may hold the coordination lock
    None,         \* no holder, no snapshot
    Identity,     \* the StoreIdentityV1 of the database
    MaxBlocks,    \* bound: height at which no block is begun
    MaxCrashes    \* bound: crashes of process and machine together

ASSUME NoneAssumption == None \notin Threads \cup Keepers \cup Nat
ASSUME KeepersAssumption == Threads \cap Keepers = {}
Blocks == [life : Nat, saw : SUBSET Nat]
ASSUME IdentityAssumption == Identity \notin Blocks
ASSUME BoundAssumption == MaxBlocks \in Nat /\ MaxCrashes \in Nat

VARIABLES
    directory,    \* "absent", "partial" or "complete": the column families on disk
    process,      \* "down", "creating" or "open"
    opened,       \* open() has returned a store at least once
    wal,          \* the write-ahead log
    synced,       \* how many of its entries are on the device
    crashes,      \* crashes so far
    holder,       \* who holds the coordination mutex
    pc,           \* where each thread is
    view,         \* the height of the snapshot a thread reads, None for the live store
    base,         \* the height a thread read from the commit metadata
    saw,          \* the heights of the store a thread's reads have seen
    durability,   \* what a committing thread asks for
    receipts      \* the CommitReceipts handed out, each with its block

device == <<directory, wal, synced>>
thread == <<pc, view, base, saw, durability>>
vars == <<device, process, opened, crashes, holder, thread, receipts>>

Height == IF wal = <<>> THEN 0 ELSE Len(wal) - 1
BlockAt(h) == wal[h + 1]
Visible(t) == IF view[t] = None THEN Height ELSE view[t]

Init ==
    /\ directory = "absent" /\ process = "down" /\ opened = FALSE
    /\ wal = <<>> /\ synced = 0 /\ crashes = 0
    /\ holder = None
    /\ pc = [t \in Threads |-> "idle"]
    /\ view = [t \in Threads |-> None]
    /\ base = [t \in Threads |-> 0]
    /\ saw = [t \in Threads |-> {}]
    /\ durability = [t \in Threads |-> "Wal"]
    /\ receipts = {}

-----------------------------------------------------------------------------
(* Writing and opening *)

\* Variant: the log is never synced.
WriteUnsynced(entry, sync) == wal' = Append(wal, entry) /\ synced' = synced

\* commit_locked: one atomic batch, after which everything up to it is synced
\* if the caller asked for that.
Write(entry, sync) ==
    /\ wal' = Append(wal, entry)
    /\ synced' = IF sync THEN Len(wal) + 1 ELSE synced

\* open() of a path without a database starts to create one.
CreateDatabase ==
    /\ process = "down" /\ directory = "absent"
    /\ process' = "creating" /\ directory' = "partial"
    /\ UNCHANGED <<opened, wal, synced, crashes, holder, thread, receipts>>

CreateColumnFamilies ==
    /\ process = "creating" /\ directory = "partial"
    /\ directory' = "complete"
    /\ UNCHANGED <<process, opened, wal, synced, crashes, holder, thread, receipts>>

\* Variant: the identity is written without syncing it.
InitializeIdentityUnsynced ==
    /\ process = "creating" /\ directory = "complete"
    /\ Write(Identity, FALSE)
    /\ process' = "open" /\ opened' = TRUE
    /\ UNCHANGED <<directory, crashes, holder, thread, receipts>>

InitializeIdentity ==
    /\ process = "creating" /\ directory = "complete"
    /\ Write(Identity, TRUE)
    /\ process' = "open" /\ opened' = TRUE
    /\ UNCHANGED <<directory, crashes, holder, thread, receipts>>

\* What open() accepts as an existing database.
Openable == directory = "complete" /\ wal # <<>>

OpenExisting ==
    /\ process = "down" /\ Openable
    /\ process' = "open" /\ opened' = TRUE
    /\ UNCHANGED <<device, crashes, holder, thread, receipts>>

\* A database whose creation was cut short is refused, now and for ever.
RefuseOpen ==
    /\ process = "down" /\ directory # "absent" /\ ~Openable
    /\ UNCHANGED vars

-----------------------------------------------------------------------------
(* Preparing a block: StateMachine::prepare_block over a ReadStore *)

Idle(t) ==
    /\ pc' = [pc EXCEPT ![t] = "idle"]
    /\ view' = [view EXCEPT ![t] = None]
    /\ base' = [base EXCEPT ![t] = 0]
    /\ saw' = [saw EXCEPT ![t] = {}]
    /\ durability' = [durability EXCEPT ![t] = "Wal"]

At(t, place) == process = "open" /\ pc[t] = place
Goto(t, place) == pc' = [pc EXCEPT ![t] = place]
See(t) == saw' = [saw EXCEPT ![t] = @ \cup {Visible(t)}]

\* Thread t takes a snapshot or not, and reads the commit metadata.
ReadMetadata(t, snapshot) ==
    /\ At(t, "idle")
    /\ Height < MaxBlocks
    /\ view' = [view EXCEPT ![t] = IF snapshot THEN Height ELSE None]
    /\ base' = [base EXCEPT ![t] = Height]
    /\ saw' = [saw EXCEPT ![t] = {Height}]
    /\ Goto(t, "recovering")
    /\ UNCHANGED <<device, process, opened, crashes, holder, durability, receipts>>

\* The rest of recover() agrees with the metadata.
Recover(t) ==
    /\ At(t, "recovering") /\ Visible(t) = base[t]
    /\ See(t)
    /\ Goto(t, "executing")
    /\ UNCHANGED <<device, process, opened, crashes, holder, view, base, durability, receipts>>

\* It does not, because another thread committed in between: CorruptState.
CrossCheckFails(t) ==
    /\ At(t, "recovering") /\ Visible(t) # base[t]
    /\ Idle(t)
    /\ UNCHANGED <<device, process, opened, crashes, holder, receipts>>

\* One more read of CA states, outcomes, tree nodes or peaks.
ReadState(t) ==
    /\ At(t, "executing")
    /\ See(t)
    /\ UNCHANGED <<device, process, opened, crashes, holder, pc, view, base, durability, receipts>>

FinishPrepare(t) ==
    /\ At(t, "executing")
    /\ Goto(t, "prepared")
    /\ UNCHANGED <<device, process, opened, crashes, holder, view, base, saw, durability, receipts>>

\* The preparation fails, or the prepared block is dropped.
Drop(t) ==
    /\ process = "open" /\ pc[t] \in {"executing", "prepared"}
    /\ Idle(t)
    /\ UNCHANGED <<device, process, opened, crashes, holder, receipts>>

-----------------------------------------------------------------------------
(* commit_block *)

\* Variant: the coordination mutex excludes nobody.
AcquireShared(t, d) ==
    /\ At(t, "prepared")
    /\ holder' = t
    /\ durability' = [durability EXCEPT ![t] = d]
    /\ Goto(t, "locked")
    /\ UNCHANGED <<device, process, opened, crashes, view, base, saw, receipts>>

Acquire(t, d) ==
    /\ At(t, "prepared")
    /\ holder = None /\ holder' = t
    /\ durability' = [durability EXCEPT ![t] = d]
    /\ Goto(t, "locked")
    /\ UNCHANGED <<device, process, opened, crashes, view, base, saw, receipts>>

\* validate_successor: the block's height is the next one.
Successor(t) == base[t] + 1 = Height + 1

Validate(t) ==
    /\ At(t, "locked") /\ Successor(t)
    /\ Goto(t, "checked")
    /\ UNCHANGED <<device, process, opened, crashes, holder, view, base, saw, durability, receipts>>

RefuseBlock(t) ==
    /\ At(t, "locked") /\ ~Successor(t)
    /\ holder' = None
    /\ Idle(t)
    /\ UNCHANGED <<device, process, opened, crashes, receipts>>

Block(t) == [life |-> crashes, saw |-> saw[t]]

WriteBlock(t) ==
    /\ At(t, "checked")
    /\ Write(Block(t), durability[t] = "SyncWal")
    /\ Goto(t, "written")
    /\ UNCHANGED <<directory, process, opened, crashes, holder, view, base, saw, durability, receipts>>

\* commit_block returns its receipt and releases the mutex.
ReturnReceipt(t) ==
    /\ At(t, "written")
    /\ receipts' = receipts \cup
           {[height |-> base[t] + 1, block |-> Block(t),
             wal_synced |-> durability[t] = "SyncWal"]}
    /\ holder' = None
    /\ Idle(t)
    /\ UNCHANGED <<device, process, opened, crashes>>

-----------------------------------------------------------------------------
(* Crashes *)

\* Everything in memory is gone.
Die ==
    /\ crashes < MaxCrashes /\ crashes' = crashes + 1
    /\ process' = "down" /\ holder' = None
    /\ pc' = [t \in Threads |-> "idle"]
    /\ view' = [t \in Threads |-> None]
    /\ base' = [t \in Threads |-> 0]
    /\ saw' = [t \in Threads |-> {}]
    /\ durability' = [t \in Threads |-> "Wal"]
    /\ UNCHANGED <<opened, receipts>>

Kill ==
    /\ process # "down"
    /\ Die
    /\ UNCHANGED device

\* The machine keeps the first n entries of the log.
PowerLoss(n) ==
    /\ Die
    /\ wal' = SubSeq(wal, 1, n) /\ synced' = n
    /\ UNCHANGED directory

\* Nothing was synced yet: files of the database may be missing as well.
PowerLossDuringCreation ==
    /\ synced = 0 /\ directory # "absent"
    /\ Die
    /\ wal' = <<>> /\ synced' = 0
    /\ directory' \in {"absent", "partial"}

\* Not a step of the code: the bound on the height is reached.
AtBound ==
    /\ process = "open" /\ Height = MaxBlocks
    /\ UNCHANGED vars

Open == CreateDatabase \/ CreateColumnFamilies \/ InitializeIdentity \/ OpenExisting \/ RefuseOpen

PrepareStep(t) ==
    \/ \E snapshot \in BOOLEAN : ReadMetadata(t, snapshot)
    \/ Recover(t) \/ CrossCheckFails(t) \/ ReadState(t) \/ FinishPrepare(t) \/ Drop(t)

CommitStep(t) ==
    \/ \E d \in {"Wal", "SyncWal"} : Acquire(t, d)
    \/ Validate(t) \/ RefuseBlock(t) \/ WriteBlock(t) \/ ReturnReceipt(t)

Crash == Kill \/ PowerLossDuringCreation \/ \E n \in synced..Len(wal) : PowerLoss(n)

Next ==
    \/ Open
    \/ \E t \in Threads : PrepareStep(t) \/ CommitStep(t)
    \/ Crash
    \/ AtBound

Spec == Init /\ [][Next]_vars

-----------------------------------------------------------------------------
(* Types *)

Places == {"idle", "recovering", "executing", "prepared", "locked", "checked", "written"}
Receipts == [height : Nat, block : Blocks, wal_synced : BOOLEAN]

\* The log is an identity followed by blocks, and the rest is of its type.
TypeOK ==
    /\ directory \in {"absent", "partial", "complete"}
    /\ process \in {"down", "creating", "open"}
    /\ opened \in BOOLEAN
    /\ wal \in Seq(Blocks \cup {Identity})
    /\ wal # <<>> => wal[1] = Identity
    /\ \A i \in 2..Len(wal) : wal[i] \in Blocks
    /\ synced \in 0..Len(wal)
    /\ crashes \in Nat
    /\ holder \in Threads \cup Keepers \cup {None}
    /\ pc \in [Threads -> Places]
    /\ view \in [Threads -> Nat \cup {None}]
    /\ base \in [Threads -> Nat]
    /\ saw \in [Threads -> SUBSET Nat]
    /\ durability \in [Threads -> {"Wal", "SyncWal"}]
    /\ receipts \subseteq Receipts

-----------------------------------------------------------------------------
(* Properties *)

\* A committed block was computed from exactly the state it follows, whatever
\* was committed while it was prepared and whether it read the live store or a
\* snapshot.
SerialBlocks == \A h \in 1..Height : BlockAt(h).saw = {h - 1}

\* A block whose receipt says its log was synced is never lost, nor any block
\* before it, and stands at its height for ever.
SyncedReceiptsDurable ==
    \A r \in receipts : r.wal_synced => r.height < synced /\ BlockAt(r.height) = r.block

\* A database that was once opened can be opened again after any crash.
StaysOpenable == opened => Openable

\* The concurrent store implements the serial ledger.
Ledger == INSTANCE LanternLedger WITH
    Lives <- 0..MaxCrashes,
    ledger <- SubSeq(wal, 2, Len(wal)),
    durable <- IF synced = 0 THEN 0 ELSE synced - 1
SerialLedger == Ledger!Spec
=============================================================================
