-------------------------- MODULE LanternCheckpoints --------------------------
(***************************************************************************)
(* Checkpoints of a RocksStore (crates/lantern-store/src/snapshot.rs) made *)
(* and restored while other threads commit blocks, through crashes.        *)
(*                                                                         *)
(* create_checkpoint and restore_checkpoint publish a directory the same   *)
(* way: check that the target is absent, create its parent if need be,     *)
(* fill a staging directory, sync it, rename it to the target, sync the    *)
(* parent.  A keeper runs one such job at a time.  Each staging directory  *)
(* has a name of its own.                                                  *)
(*                                                                         *)
(* A directory holds a copy of the log and the manifest it was checked     *)
(* against: the height and the tip block the commit metadata names.  Its   *)
(* files may be on the device or only cached, and so may its name.  When   *)
(* power is lost cached files are torn and a cached name may be gone.  The *)
(* names that lead to a parent the calls created stay cached: they are in  *)
(* directories no call syncs.  A parent that is gone takes all in it away. *)
(***************************************************************************)
EXTENDS LanternStore

CONSTANTS
    Paths,       \* directories checkpoints and restored databases go to
    Parents,     \* directories those are in, none inside another
    ParentOf     \* the parent of each path

ASSUME ParentAssumption == ParentOf \in [Paths -> Parents]

VARIABLES
    published,   \* path -> the directory there, or None
    job,         \* keeper -> the call it is in, or None
    parents,     \* parent -> "absent", or whether its own name is "cached" or "durable"
    promised     \* paths whose creation or restoration has returned, if still there

disk == <<published, parents, promised>>
saved == <<disk, job>>

Tip(log) == [height |-> Len(log) - 1, block |-> log[Len(log)]]

InitCheckpoints ==
    /\ Init
    /\ published = [p \in Paths |-> None]
    /\ parents \in [Parents -> {"absent", "durable"}]
    /\ job = [k \in Keepers |-> None]
    /\ promised = {}

Doing(k, kinds, step) == job[k] # None /\ job[k].kind \in kinds /\ job[k].step = step
Step(k, step) == job' = [job EXCEPT ![k].step = step]
Free(k) == job[k] = None

\* The guard of a call that ends is dropped with it.
Release(k) == holder' = IF holder = k THEN None ELSE holder

\* create_dir_all: what exists stays, what is created is only cached.
CreateParent(d) == parents' = [parents EXCEPT ![d] = IF @ = "absent" THEN "cached" ELSE @]

\* ensure_absent, then the parent and a fresh staging directory in it.
Begin(k, kind, from, to, manifest) ==
    /\ Free(k)
    /\ published[to] = None
    /\ job' = [job EXCEPT ![k] =
                  [kind |-> kind, step |-> "staged", from |-> from, to |-> to,
                   manifest |-> manifest, log |-> <<>>, files |-> "cached"]]
    /\ CreateParent(ParentOf[to])
    /\ UNCHANGED <<vars, published, promised>>

-----------------------------------------------------------------------------
(* create_checkpoint *)

BeginCreate(k, to) == process = "open" /\ Begin(k, "checkpoint", None, to, None)

\* Variant: the coordination mutex is not taken.
LockNothing(k) ==
    /\ Doing(k, {"checkpoint"}, "staged")
    /\ Step(k, "locked")
    /\ UNCHANGED <<vars, disk>>

Lock(k) ==
    /\ Doing(k, {"checkpoint"}, "staged")
    /\ holder = None /\ holder' = k
    /\ Step(k, "locked")
    /\ UNCHANGED <<device, process, opened, crashes, thread, receipts, disk>>

\* The manifest takes the commit metadata; before the first block there is none.
ReadCommitted(k) ==
    /\ Doing(k, {"checkpoint"}, "locked") /\ Height > 0
    /\ job' = [job EXCEPT ![k].step = "described", ![k].manifest = Tip(wal)]
    /\ UNCHANGED <<vars, disk>>

\* Variant: the database is copied without being flushed.
CopyUnflushed(k) ==
    /\ Doing(k, {"checkpoint"}, "described")
    /\ job' = [job EXCEPT ![k].step = "filled", ![k].log = wal]
    /\ UNCHANGED <<vars, disk>>

\* RocksDB flushes the database, which puts all of its log on the device, and
\* links its files into the staging directory.
CopyDatabase(k) ==
    /\ Doing(k, {"checkpoint"}, "described")
    /\ job' = [job EXCEPT ![k].step = "filled", ![k].log = wal]
    /\ synced' = Len(wal)
    /\ UNCHANGED <<directory, wal, process, opened, crashes, holder, thread, receipts, disk>>

-----------------------------------------------------------------------------
(* restore_checkpoint *)

\* verify_checkpoint demands a manifest and exactly the files it lists.
Verified(p) == published[p] # None /\ published[p].kind = "checkpoint" /\ published[p].files # "torn"

BeginRestore(k, from, to) ==
    Verified(from) /\ Begin(k, "database", from, to, published[from].manifest)

CopyCheckpoint(k) ==
    /\ Doing(k, {"database"}, "staged")
    /\ job' = [job EXCEPT ![k].step = "filled", ![k].log = published[job[k].from].log]
    /\ UNCHANGED <<vars, disk>>

\* The staged database opens and its metadata is that of the manifest.
CheckRestored(k) ==
    /\ Doing(k, {"database"}, "synced")
    /\ Tip(job[k].log) = job[k].manifest
    /\ Step(k, "checked")
    /\ UNCHANGED <<vars, disk>>

-----------------------------------------------------------------------------
(* Publication, which both share *)

\* Variant: the staging directory is not synced.
SyncNothing(k) ==
    /\ Doing(k, {"checkpoint", "database"}, "filled")
    /\ Step(k, "synced")
    /\ UNCHANGED <<vars, disk>>

SyncTree(k) ==
    /\ Doing(k, {"checkpoint", "database"}, "filled")
    /\ job' = [job EXCEPT ![k].step = "synced", ![k].files = "durable"]
    /\ UNCHANGED <<vars, disk>>

Ready(k) == Doing(k, {"checkpoint"}, "synced") \/ Doing(k, {"database"}, "checked")

Staged(k) == [kind |-> job[k].kind, manifest |-> job[k].manifest, log |-> job[k].log,
              files |-> job[k].files, linked |-> FALSE]

\* Variant: the rename replaces what is at the target.
RenameOver(k) ==
    /\ Ready(k)
    /\ published' = [published EXCEPT ![job[k].to] = Staged(k)]
    /\ Step(k, "renamed")
    /\ UNCHANGED <<vars, parents, promised>>

\* A rename onto a directory that is not empty fails.
Rename(k) ==
    /\ Ready(k) /\ published[job[k].to] = None
    /\ published' = [published EXCEPT ![job[k].to] = Staged(k)]
    /\ Step(k, "renamed")
    /\ UNCHANGED <<vars, parents, promised>>

End(k) ==
    /\ job' = [job EXCEPT ![k] = None]
    /\ Release(k)
    /\ UNCHANGED <<device, process, opened, crashes, thread, receipts>>

\* Variant: the call returns without syncing the parent directory.
ReturnUnlinked(k) ==
    /\ Doing(k, {"checkpoint", "database"}, "renamed")
    /\ promised' = promised \cup {job[k].to}
    /\ End(k)
    /\ UNCHANGED <<published, parents>>

\* The parent directory is synced, which puts the names in it on the device but
\* not its own, and the call returns.
SyncParent(k) ==
    /\ Doing(k, {"checkpoint", "database"}, "renamed")
    /\ published' = [published EXCEPT ![job[k].to].linked = TRUE]
    /\ promised' = promised \cup {job[k].to}
    /\ End(k)
    /\ UNCHANGED parents

\* Any step may fail.  The staging directory is removed, or was renamed already.
Fail(k) ==
    /\ ~Free(k)
    /\ End(k)
    /\ UNCHANGED disk

-----------------------------------------------------------------------------
(* Composition with the store, and crashes *)

JobsDie == job' = [k \in Keepers |-> None]

KillAll == Kill /\ JobsDie /\ UNCHANGED disk

\* What a power loss leaves is on the device, torn or not.
AfterPowerLoss(d) == [d EXCEPT !.files = IF @ = "cached" THEN "torn" ELSE @, !.linked = TRUE]

PowerLossAll ==
    /\ PowerLossDuringCreation \/ \E n \in synced..Len(wal) : PowerLoss(n)
    /\ JobsDie
    /\ parents' \in [Parents -> {"absent", "durable"}]
    /\ \A d \in Parents : parents[d] # "cached" => parents'[d] = parents[d]
    /\ \E lost \in SUBSET {p \in Paths : published[p] # None /\ ~published[p].linked} :
          published' = [p \in Paths |->
              IF \/ published[p] = None
                 \/ p \in lost
                 \/ parents'[ParentOf[p]] = "absent"
              THEN None ELSE AfterPowerLoss(published[p])]
    /\ promised' = {p \in promised : published'[p] # None}

CreateStep(k) ==
    \/ \E to \in Paths : BeginCreate(k, to)
    \/ Lock(k) \/ ReadCommitted(k) \/ CopyDatabase(k)

RestoreStep(k) ==
    \/ \E from, to \in Paths : BeginRestore(k, from, to)
    \/ CopyCheckpoint(k) \/ CheckRestored(k)

PublishStep(k) == SyncTree(k) \/ Rename(k) \/ SyncParent(k) \/ Fail(k)

StoreStep == Open \/ (\E t \in Threads : PrepareStep(t) \/ CommitStep(t)) \/ AtBound

NextCheckpoints ==
    \/ StoreStep /\ UNCHANGED saved
    \/ \E k \in Keepers : CreateStep(k) \/ RestoreStep(k) \/ PublishStep(k)
    \/ KillAll
    \/ PowerLossAll

SpecCheckpoints == InitCheckpoints /\ [][NextCheckpoints]_<<vars, saved>>

-----------------------------------------------------------------------------
(* Types *)

Kinds == {"checkpoint", "database"}
Files == {"cached", "durable", "torn"}
Logs == Seq(Blocks \cup {Identity})
Manifests == [height : Nat, block : Blocks]
Directories == [kind : Kinds, manifest : Manifests, log : Logs, files : Files, linked : BOOLEAN]
ASSUME DirectoryAssumption == None \notin Directories
Steps == {"staged", "locked", "described", "filled", "synced", "checked", "renamed"}
Jobs == [kind : Kinds, step : Steps, from : Paths \cup {None}, to : Paths,
         manifest : Manifests \cup {None}, log : Logs, files : Files]

TypeOKCheckpoints ==
    /\ TypeOK
    /\ published \in [Paths -> Directories \cup {None}]
    /\ parents \in [Parents -> {"absent", "cached", "durable"}]
    /\ job \in [Keepers -> Jobs \cup {None}]
    /\ promised \subseteq Paths

-----------------------------------------------------------------------------
(* Properties *)

\* What stands at a path is what its manifest says: no block was committed
\* between the reading of the metadata and the copy of the database, and a
\* restored database is the checkpoint it was verified as.
ManifestsTrue == \A p \in Paths : published[p] # None => published[p].manifest = Tip(published[p].log)

\* No crash leaves part of a checkpoint or of a database at its path.
NothingTorn == \A p \in Paths : published[p] # None => published[p].files # "torn"

\* A checkpoint or a restored database whose call has returned outlives any
\* crash, unless its parent goes: that takes a loss of power and a parent that a
\* call created and nothing put on the device since.
PromisedStay ==
    [][\A p \in promised : published'[p] = None =>
          parents[ParentOf[p]] = "cached" /\ parents'[ParentOf[p]] = "absent"]_published

\* No call replaces what another call published, even if both found the target absent.
PublishedIsPermanent ==
    [][\A p \in Paths : published[p] # None /\ published'[p] # None =>
          published'[p].log = published[p].log /\ published'[p].kind = published[p].kind]_published

\* A checkpoint, and a database restored from one, is never ahead of its source:
\* the source keeps every block in it, whatever durability the blocks asked for.
NeverAheadOfSource ==
    \A p \in Paths : published[p] # None =>
        LET log == published[p].log IN
        Len(log) <= Len(wal) /\ log = SubSeq(wal, 1, Len(log))
=============================================================================
