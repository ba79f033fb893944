# Lantern in TLA+

This directory is a verification project for Lantern, the publication
transparency log for RPKI manifests whose newest snapshot is
`src/lantern-M5.0`. It models the program's deterministic block execution, the store
and the checkpoints beneath it, the two authenticated structures it keeps there, and the
governance of its validators; it checks them with TLC on small instances, and proves
their main promises with TLAPS for every value of the constants.

`src/lantern-M0` to `src/lantern-M5.0` are cumulative snapshots of one workspace.
Everything here is about `lantern-M5.0`; paths below are relative to it.

## 1. The system

Lantern is the application side of a replicated log. A consensus engine, which is
not in the repository, will deliver blocks of transactions with a consensus time;
the application executes each block deterministically over a RocksDB database and
commits it, with everything derived from it, in one atomic batch.

| Component | State | Operations | Module |
|---|---|---|---|
| Block execution, `lantern-state/machine.rs` | committed: CA states, rollover preauthorizations, idempotency map, history records, version and manifest indexes, closed heads, `PersistentState`; staged: `WorkingState` overlay, results | `prepare_block`, `process_transaction`, `process_control`, `recover`, `PreparedBlock::commit` | `LanternState` |
| Objects, `lantern-types` (`state`, `control`, `intent`, `hash`, `head`) | none | validation, identifiers, hashes | inside `LanternState` |
| Authorizer, `lantern-state/authorizer.rs` | none | does the certificate chain and the signature hold at this block time | abstract input of `LanternState` |
| Atomic store, `lantern-store` (`store`, `batch`, `metadata`) | RocksDB, identity, coordination mutex | `open`, `commit_block`, `read_snapshot`, `current_metadata` | `LanternStore`, `LanternLedger` |
| Checkpoints, `lantern-store/snapshot.rs` | directories on disk | `create_checkpoint`, `verify_checkpoint`, `restore_checkpoint` | `LanternCheckpoints` |
| History MMR, `lantern-history` | nodes by position, prefix roots, current size and root | `prepare_append`, `current_state`, `root_at`, `inclusion_query`, `consistency_query`, the two verifiers | `LanternHistory` |
| Latest map, `lantern-latest-map` | tree nodes and roots by version, value histories by key and ordinal | `prepare_update`, `append_to`, `query_ca` with its verification | `LanternLatestMap`, `LanternVersionedMap` |
| Validator configuration and governance updates, `lantern-types/validator.rs` | none | validation, `sign_validator_update`, `verify_validator_update` | `LanternGovernance` |
| Encodings, domains, signatures (`cbor`, `domain`, `primitive`, `signature`) | none | parsing and cryptography | not modelled |
| `tools/m5-compat` | a counter | wire-compatibility probe against CometBFT fixtures | not modelled |

**How they interact.** The state machine holds a reference to a `ReadStore` and
reads it key by key during `prepare_block`, staging everything in memory. The
result, a `PreparedBlock`, is consumed by `commit`, which hands one batch and the
commit metadata to `commit_block` of the store. That call takes the coordination
mutex, re-reads the metadata and demands the successor height. `create_checkpoint`
takes the same mutex while it reads the metadata and copies the database. Nothing
else is shared: no callbacks, no channels, no background threads of Lantern's own.

**What is hard.**

- *Exactly once.* Clients retry transactions, in one block or across blocks, and
  blocks are lost between execution and commit. Outcomes are looked up through an
  overlay and must agree with the history for ever.
- *Long legal sequences.* Publish, Cancel, Publish again, Disable and Enable again,
  and rollovers of several CAs that meet at one successor each relate today's state
  to events several transactions back.
- *Epochs.* One loop closes up to `max_epoch_catchup` heads; totals, bundle and
  parent link change from one turn to the next, and blocks may skip epochs.
- *Torn reads.* `StateMachine` may run over the live store as well as over a
  snapshot. Over the live store another thread's commit can fall between any two
  of its reads. Only the recovery cross-check and the height check guard this.
- *Late writes.* The history checks that its keys are absent when a block is prepared and
  writes them when it is committed, and it reads its size and root one after the other. The
  latest map does the same with its version and the value counts.
- *Moving searches.* A query of the latest map reads a root, then tree nodes, then a count, then
  entries by binary search, while blocks that lengthen the searched history are committed.
- *Backlogs.* A block with transactions is refused while epochs are overdue; whether enough empty
  blocks always end that depends on three tests written in three places.
- *Arrangements.* Governance signatures travel as slots that anyone can repeat, relabel or mix,
  and two orderings (of slots, of validators) are all that keeps one signature from counting twice
  and one configuration from having two hashes.
- *Closed formulas.* Node positions, peaks and ranges of the mountain range are bit arithmetic
  on leaf counts; an error shows only for particular sizes.
- *Crashes.* `Durability::Wal` leaves a block in the page cache. Creation of a
  database, creation of a checkpoint and a restore each take several file-system
  steps, any of which can be the last before the power goes.

`PROJECT.json` lists each hazard at its line, with the properties that guard it.

## 2. The modules and how they fit

```
LanternLedger            the serial ledger: blocks execute one after the other
      ^  implements (proved and checked)
LanternStore             threads prepare and commit over one RocksStore, crashes
      ^  extends
LanternCheckpoints       + checkpoints and restores, through the same mutex

LanternState             what one block does, executed serially
LanternHistory           the Merkle mountain range under the history log

LanternVersionedMap      versions of a map, added one after the other, none ever changed
      ^  implements (proved and checked)
LanternLatestMap         the latest map of the CAs, updated and queried over the live store

LanternGovernance        signed replacements of the validator configuration
```

`LanternState` executes one block at a time: its executor and its committer are one
actor. `LanternStore` is the reason this is enough. It shows that whatever number of
threads prepare blocks over the live store, each block that is committed was computed
from exactly the state it follows (`SerialBlocks`, `SerialLedger`). A step of
`LanternLedger` therefore is one run of `LanternState` from `BeginBlock` to `Commit`;
a loss of the ledger's tail is a return to an earlier committed state.

`LanternHistory` is what stands behind the sequence `records` of `LanternState`: its tasks are
the threads of `LanternStore`, seen through the keys of one column family. `LanternLatestMap` is
the same for the column family of the latest map, which the batch of every block updates with the
CA states the block wrote. `LanternGovernance` stands alone, as `validator.rs` does.

The modules named `MC...` give the constants and symmetry sets for TLC, those named `..._proofs`
hold the theorems. `LanternLineage_proofs` and `LanternEpochs_proofs` build on
`LanternState_proofs`, `LanternCheckpoints_proofs` on `LanternStore_proofs`.

Definitions whose comment begins with *Variant* are the code with one plausible bug
in it: a check left out, a reset forgotten, an order swapped. No specification uses
them. Each is put in the place of the definition that follows it to see that the
property named with it in `PROJECT.json` notices.

### LanternState

The loop of `prepare_block` is unrolled. `BeginBlock(t, n)` is everything before the
loop: recovery, the time and backlog checks, the closing of due epochs. Then one action
executes one transaction: `Replay`, `Conflict`, `Reject`, or one of the six admissions
`Publish`, `Enable`, `Disable`, `Cancel`, `Rollover`, `Terminate`; `RefuseMalformed`
fails the whole block. `Prepare` builds the history append and the batch; `RefuseBatch` is their
refusal of a block that is too large or puts one key twice, after it was executed; `Commit` applies everything at once, `Abandon` is a dropped block or
a death of the process. The transactions of a block are chosen as it executes, so every
block of up to `MaxBlockTxs` of the transactions `TxIds` is covered, in every order and
with repetitions.

| Model | Code |
|---|---|
| `caState`, `preauth`, `idempotency`, `records`, `versionIndex`, `manifestIndex`, `heads`, `global` | the column families, as their codecs decode them |
| `caUpdates`, `preauthUpdates`, `idempotencyUpdates` with `CaView`, `PreauthView`, `Recorded`, `Outcome` | `WorkingState`: staged value first, store second |
| `next`, `closed`, `accepted`, `results` | the state, heads, transitions and results under construction |
| `Verdict` and what it calls | the checks of `process_transaction` and `process_control`, in their order |
| `Accept` | the common tail of an admission |
| `Oversized` | the limits on records and bytes of `validate_append_input`, on operations and bytes of `reserve_operation` |
| `DuplicateKey` | the set of touched keys of `reserve_operation` |

Abstractions. Hashes are injective names: a transaction is its identifier, a manifest
its hash, a closed head its epoch, a CA state hash the version and record authorization
that the hashed object contains. The accumulated bundle hash is the sequence of the
identifiers folded into it. A control event's authorization digest stands for its
transaction, since two transactions with the same event share CA and nonce and at most
one is admitted. A publication carries the set of block times at which the authorizer
accepts it; a control event the key under which its signature verifies. The four size limits of a
block are one budget: an admitted transaction takes `Room` of it, a rejected one, which leaves only its
outcome, takes one, and a block that takes more than `MaxRoom` is refused. The heads a block closes take
nothing: `max_epoch_catchup` is a `u16`, and 65,535 heads are within the limits. Archives of
authorizations, the map and history roots, `transaction_index`, the hashes of results and
of the admin registry, and the configuration record are left out: no transition reads
them back. `preauth_original`, a cache of what the store holds, equals the store. A wrong
height given by the caller is an error without a change of state. Version, sequence and
epoch counters of 64 bits do not overflow within the bounds, and the code returns an error
where they would. Some result codes of the types crate are never produced by the machine
and do not occur.

### LanternStore

The database is its write-ahead log: entry 1 is the identity, entry *h* + 1 the block of
height *h*. A block is known by the life of the process that committed it and by the
heights its preparation read; that is all that the properties need to know of its
contents. `ReadMetadata`, `Recover`, `CrossCheckFails` and `ReadState` are the reads of
one preparation, one step each, over a snapshot or over the live store. `Acquire`,
`Validate`, `RefuseBlock`, `WriteBlock` and `ReturnReceipt` are the steps of
`commit_block`. `CreateDatabase`, `CreateColumnFamilies`, `InitializeIdentity`,
`OpenExisting` and `RefuseOpen` are `open`. `Kill` is the death of the process,
`PowerLoss` that of the machine, `PowerLossDuringCreation` that of the machine before
anything reached the device.

RocksDB and the operating system are external and assumed to behave as the code relies
on: a `WriteBatch` is applied whole or not at all; a synced write puts all earlier entries
of the log on the device too; recovery yields a prefix of the log. A flush that RocksDB
starts by itself is covered by the free choice of the prefix that survives. Not modelled:
writes that RocksDB reports as failed, a poisoned mutex, an open under another identity.
The rest of `validate_successor` (history size, closed epoch, head) cannot fail on blocks
the state machine prepared from the state they follow, which is what is proved.

A preparation's failure to pass the cross-check is modelled as the height it sees having
changed. A block without records changes neither the history root nor its length, so a
late read of the history may pass the real check; that execution is the one in which
`Recover` comes first and `ReadState` sees the newer height.

### LanternCheckpoints

Extends the store by keepers, threads that create checkpoints or restore them, one call at
a time, by the directories at the target paths, and by the parents of those (`parents`: absent, or
there with a name that is only cached or on the device). Creation: `BeginCreate`, `Lock`,
`ReadCommitted`, `CopyDatabase`, `SyncTree`, `Rename`, `SyncParent`. Restoration:
`BeginRestore` (which includes verification), `CopyCheckpoint`, `SyncTree`,
`CheckRestored`, `Rename`, `SyncParent`. `Fail` ends a call after any step. Power loss tears
files that were only cached and may undo renames whose parent was not synced.

Both calls begin with `create_dir_all` of the parent (`snapshot.rs:222`, `:308`), which `CreateParent` is.
`SyncParent` syncs that parent (`:244`, `:322`), hence the names *in* it. The parent's own name is in a directory
that neither call syncs, so if the call created the parent a power loss may still take it away, and with it a
checkpoint whose call has returned. `PromisedStay` therefore says exactly when a promise may be broken: only
when power is lost, and only together with a parent that a call created and that had not reached the device.
A caller who wants the promise without that condition creates the parent, and makes it durable, beforehand. No document
of the repository claims more, so this is no finding. A loss of power that spares a parent leaves it durable.
Several missing directories above a target are one parent here, and targets are not inside one another.

External and assumed: RocksDB's checkpoint flushes the database first (the binding's
default), so what is copied is on the device at the source; a rename onto a directory that
is not empty fails; a name that is on the device refers to the file as last synced. The
manifest's digests catch a torn copy (`Verified`); damage of a checkpoint's files from
outside is not modelled, nor is what becomes of a restored database after its restore has
returned. What `open` writes into the synced staging directory of a restore (`:317`) is left to RocksDB's own
syncs, and so is the name of a new database directory in `StaysOpenable`.

### LanternHistory

A task is one `prepare_block` as the history sees it. `Begin` reads the committed height,
`ReadSize` and `ReadRoot` are the two metadata reads of `load_current`, the second with all its
checks, each `AddRecord` is one turn of the loop of `prepare_append` with its checks of absence,
`Finish` its end, `Commit` the writing of the batch by `commit_block`, `Abandon` any failure elsewhere.
Between any two steps of one task the others may commit. Every read after the metadata is of a key
that is never changed once written (`AppendOnly`), so those of one step are taken together; the choice
between a preparation that sees another's commit and one that does not remains, since the commit may
come before or after.

| Model | Code |
|---|---|
| `nodes`, `roots`, `current` | column family `MmrNodes`: node keys, root keys, the two current keys |
| `records` | the record archive that `lantern-state` writes in the same batch |
| `builder` | `AppendBuilder` and the `PreparedHistoryAppend` it finishes as |
| `Carried`, `Joins`, `MergePeak` | `merge_peak`, and the same loop in `append_record`: the carry after each turn, the number of turns, the outcome |
| `InclusionProof`, `ConsistencyProof` | the two queries without their self-verification |
| `VerifyInclusion`, `VerifyConsistency` | the two verifiers |

A hash is the term it was computed from, with its kind, so it is injective; that the byte framing
of leaves, parents and roots is injective is the abstraction. Queries change nothing, so they are
functions of the committed state. 63 becomes `TopHeight`, which brings the last leaf of the full
range within TLC's reach. Not modelled: the byte envelopes of proofs, the size limit of a single record (those of
an append are in `LanternState`), and stored bytes damaged from outside.

### LanternLatestMap

A task is one `prepare_block` as the map sees it. `Begin` recovers the height, which is the version
the map will have; `ReadLatestVersion` is the successor test of `prepare_update`; `PutValueSet` is the
tree library's computation of new nodes over those of the previous version; `ReadValueCount` is one
turn of the loop of `build_prepared_update`, one step for each key, in any order; `FinishUpdate` ends
it. `Commit` is `append_to` and the store's commit, which demands that the height is still the one
recovered. A reader is one `query_ca`: `ReadRoot` or `RefuseQuery`, `Descend` (the tree's
`get_with_proof`), `ReadCount`, one `Probe` for each turn of the binary search, `ReadValue`, and
`Verify`, the self-verification before the answer leaves. Commits fall between any two of these steps.

| Model | Code |
|---|---|
| `nodes`, `roots`, `latest` | the tree's nodes with their version in the key, root keys, the latest version |
| `counts`, `entries` | value count of each key; value entries by key and ordinal |
| `mutation`, `contents`, `ordinals` | the update under preparation |
| `asked`, `root`, `proof`, `low`, `high`, `answer` | the locals of one query |

The tree is the vendored `jmt` crate and external: the nodes of a version stand for the map they
describe, and a root for the map it was computed from, so a proof verifies exactly when map, key and
value agree. A tombstone and an absent key are one. The index of stale nodes is written and never
read, so it is left out. The last entry of a key is below its count and never rewritten, so count and last
entry are read in one step.

### LanternGovernance

`Sign` and `RefuseToSign` are `sign_validator_update`, `Verify` an accepted call of
`verify_validator_update`; `UpdateValid`, `PayloadValid`, `ConfigValid` and `InfoValid` are the
`validate_value` functions they call. The state is what the world knows: `made` are the signatures that
exist, and `Verify` gets any two or three slots made from them, under any labels. `DropAnswer` is no
code; it forgets the last answer. Signatures cannot be made without the key; the hash of a configuration
and the message that is signed are injective. A trusted key per signer index, all three distinct, is the
caller's precondition. No code of this snapshot installs a verified update
(`M0_REPORT.md:113` leaves continuity of old and new configuration to M5), so replay of an old update, the order of sequence
numbers and the activation height are not claims of this code and not properties here.

## 3. What TLC checks

| Run | Question | Bounds |
|---|---|---|
| `lifecycle` | a publication's whole life for one CA: idempotency, versions, lineage, cancellation, indexes | 11 transactions, 2 blocks of up to 3, room for 4 where one transaction takes 3 |
| `rollover` | three CAs that compete for successors, right and wrong keys | 10 transactions, 2 blocks of up to 3 |
| `epochs` | heads against history when blocks fall on both sides of each boundary, skip epochs, and catch up | epochs of 2 ticks, times 0 to 8, 4 blocks, at most 2 closed per block |
| `store` | concurrent preparation and commit, both durabilities, crashes | 2 threads, 3 blocks, 2 crashes |
| `catch_up` | liveness: after any backlog blocks with transactions are accepted again | epochs of 2 ticks, times 0 to 7, 6 blocks, 1 closed per block |
| `checkpoints` | creation and restoration racing each other, the commits of a thread and crashes | 1 thread, 2 keepers, 2 paths in 1 parent, 2 blocks, 2 crashes |
| `history` | appends prepared side by side over the live store | 2 tasks, 2 records, 3 blocks of up to 2, 4 leaves |
| `history_proofs` | the range and its proofs at every size | 1 task, 2 records, 2 blocks of up to 4, 8 leaves |
| `latest_map` | updates prepared side by side and a query that runs while they are committed | 2 tasks, 1 reader, 1 key, 2 values, 4 versions |
| `governance` | updates signed by any holders, then verified with their slots rearranged | 11 proposals of which 2 are valid, 3 trusted holders and an outsider, up to 3 signers of a call, 4 signatures, labels 0 to 3 |
| `epochs_backlog` | violation, see findings | as `epochs` |
| `manifest_reindex` | violation, see findings | as `lifecycle` |

**Why the bounds are enough.** In `lifecycle` two blocks of three transactions are the
fewest in which a CA registers, publishes twice, cancels and publishes the cancelled
manifest again, with the boundary of the block at each place between; one of the two may be
lost and prepared anew any number of times. A block is too large when it admits the re-enabling, which takes three, with
two others; in the other runs no block is. Only states decide on a transaction in this run, not times; that an outcome is kept which
a later time would reverse is part of `OutcomesPermanent`, which is proved. `rollover` has two candidates for one successor,
a successor that can come up under either key, and a successor that rolls over in its turn,
to a CA that may exist or not. `epochs` reaches a backlog of four with a cap of two, blocks
on the last tick of an epoch and on the first of the next, and epochs nobody used. In `store`
a second thread is enough to commit between any two reads of the first, three blocks let it do
so more than once, and the second crash hits what the first left behind. Two keepers and two
paths in `checkpoints` allow a race for one path and a restore from one to the other while a
third party commits; one crash can lose what a call created and the next can hit what was made after it, in a
parent that was there, was created, or was created and lost. That the threads share the mutex among
themselves is the question of `store`; with keepers beside them it is proved (`CheckpointsRefineLedger`). `history` fills its range of four leaves and is refused the fifth;
`history_proofs` fills eight, which takes every carry chain up to a peak of height three, every
pair of sizes from 0 to 8 and every cut of the records into two blocks of up to four; two records
tell an altered history from the true one. `latest_map` gives a key up to four entries, so the
search takes both turns and its range grows under it; keys meet nowhere but in the contents of a
version, so one is enough for the run, and the proofs cover any number. In `catch_up` the cap of one
makes every backlog of two or three epochs need that many empty blocks; six blocks leave room for
them after a few ordinary ones. `governance` has proposals that are each wrong in one way (order,
no change, repeated or missing validator, power, address, network, height, sequence), lists of signers
with a repeated, a swapped, a foreign and an out-of-range index, and as many signatures as two
holders make of both valid updates, which is what a mixture of slots needs.

**Symmetry.** Threads, tasks, keepers, paths, records and values are treated alike by the code and are model values that occur in
no other constant, so TLC permutes them. Only safety properties are checked there.

**Deadlock** is checked in every run. `AtBound` is a stuttering step at the bound of blocks,
there only so that the end of a bounded behaviour does not look like one.

**Fairness.** One run, `catch_up`, checks liveness, under `FairSpec`; all other properties are safety and
use no fairness. `FairSpec` assumes strong fairness of the beginning of an *empty* block, of `Prepare`
and of `Commit`. Empty blocks are all that the code accepts in a backlog beyond the cap (`machine.rs:201`, and
`M4_REPORT.md:108-109` gives them as the way out of it); that some are proposed again and again is assumed
of the consensus engine, which is not in the repository. Fairness is strong since a drop or a crash may disable `Prepare` and `Commit` again and
again: what is assumed is that not all blocks are hit before their commit. Nothing is assumed of blocks
with transactions, of the clock, or of drops and crashes, which may go on for ever. The property demands
room for `Rounds` blocks below `MaxHeight`, as the bound on blocks is the model's alone.

### Properties

`LanternState`

- `OutcomesMatchHistory`, `AdmittedOnce`, `OutcomeIsPermanent`: the idempotency map and the
  history tell one story, in the overlay as in the store.
- `HistoryIndexed`, `ManifestIndexCurrent`: versions without a gap, and indexes that lead back
  to their records.
- `LineageAuthentic`, `CancelUndoesPublish`: the effective manifest is the one the history says.
- `PreauthExact`, `SuccessorKeyHonoured`, `RolloverChains`, `TerminalIsFinal`: rollovers.
- `OnlyRepublicationFails`, `Recoverable`: the program's own consistency checks fire on states it built
  itself in one case only, a manifest published, cancelled and published again within one block. (Refusals of a
  block for its size are no such checks; they are modelled, and nothing is claimed of when they happen.)
- `HeadsMatchHistory`, `HeadChain`, `EpochAccounting`, `HeadIsPermanent`: closed heads.
- `BacklogClears`: a backlog leads to a state in which blocks with transactions are accepted.

`LanternStore`: `SyncedReceiptsDurable`, `StaysOpenable`, and `SerialLedger`, the
refinement of `LanternLedger`. The type invariants of the modules and `SerialBlocks`, which is a part of
what `SerialLedger` says, are stated and proved but not listed in a run.

`LanternCheckpoints`: `ManifestsTrue`, `NothingTorn`, `PromisedStay`, `NeverAheadOfSource`,
`PublishedIsPermanent`.

`LanternHistory`

- `MountainRange`: the store equals an independent definition of the range: all perfect subtrees of
  the sequence of records, and the root of every prefix from its maximal ones.
- `AppendOnly`: nothing written is ever overwritten, between check and write as well.
- `CorruptionNeedsRace`: a sound store is called corrupt only when another commit came between.
- `InclusionExact`, `ConsistencyComplete`, `ForkRefused`: proofs verify for what is true, at every
  size, and for no other index, record or history. This is also why the self-verification of the
  two queries never fails.

`LanternLatestMap`

- `HistoriesAgree`: root, tree and value histories of every committed version tell one map.
- `QueriesExact`: a query of a committed version is answered with its value there, whatever is committed
  meanwhile, and never calls the store corrupt.
- `RefusalNeedsRace`: an update is refused only when another block was committed since.
- `SerialVersions`: the refinement of `LanternVersionedMap`.

`LanternGovernance`

- `QuorumSigned`: two distinct trusted holders signed exactly what is accepted.
- `UpdatesReplace`: what is accepted installs four distinct validators and is no rearrangement of the old.
- `SigningExact`: the signer makes an update for exactly the sets of holders and payloads the verifier
  could accept, in whatever order they are given.

### Findings

1. `crates/lantern-state/M4_INTERFACE.md:112` says that all epochs before that of the block's time
   close. The code closes at most `max_epoch_catchup` of them (`machine.rs:207`). The run
   `epochs_backlog` shows a block that is ready to commit with due epochs still open.
2. `machine.rs:117` documents the index a manifest resolves to as immutable. A manifest that was
   cancelled and published again moves to its later record (`machine.rs:763`); the run
   `manifest_reindex` shows it. What does hold is `ManifestIndexCurrent`.

## 4. What is proved

The proof modules rest only on the assumptions in the modules they extend: the types of the
constants, an absent value that differs from every present one (`NotInstalledAssumption` says so of
the manifests a CA has installed), and natural numbers as bounds.
The bounds are constants without a limit, so the theorems hold for any number of blocks,
transactions, threads and crashes.

`LanternState_proofs`

- `TypeCorrect`. Each admission is first reduced to one shape (`Accepts`: an admitted transaction
  stages some valid state and record), so the work on types is done once.
- `AtMostOnce` and `OutcomesTellHistory`. Neither is inductive: a commit moves the overlay into the
  store, so one must know that the staged map and the staged log agree *as a whole*, that the
  committed pair agrees by itself (the overlay may be dropped), that the two maps do not overlap and
  that the running length used for history indexes is the length of the staged log. `ExactlyOnce`
  says all this and is inductive. That no transaction is recorded twice then follows because a
  record's nonce is in use, and an admission demands an unused one.
- `OutcomesPermanent` follows from the same disjointness.
- `TerminalStaysFinal` needs `StagedRespectsTerminal`: no staged state is that of a committed terminal
  CA or carries another key.

`LanternLineage_proofs`

- `PreauthorizationsExact`, `SuccessorsUnderAuthorizedKey`, `RolloversFormChains` rest on one statement,
  `Succession(V, P)`, about a view of CA states and preauthorizations. It holds of the committed view and
  of the staged one, so commit and drop need no argument. Chains cannot be ordered by time inside a
  state; the statement is that every set of CAs has a member whose link leads out of it or nowhere,
  which a rollover keeps because its successor is absent and hence links nowhere itself.
- `HistoryAlwaysIndexed`, `LineageAlwaysAuthentic`, `CancellationsUndo`, `FailsOnlyByRepublication` and
  `ManifestIndexAlwaysCurrent` rest on `Lineage(L, V)`, a statement about a log and a view of the CAs, again
  of both the committed and the staged pair. None of the five is inductive. That a cancellation restores what the
  undone publication replaced needs the state to know that publication's record (`LastPublication`);
  that a manifest is published twice only with a cancellation between needs every publication that was not
  cancelled to stay at or below the effective manifest, *also if the next event is a cancellation*
  (`Standing`); from numbers that ascend it follows that it cannot be published again. `LineageGrows` is
  the heart: it speaks of one record appended and one CA moved, with no variable of the machine in
  it, and each admission is reduced to it (`AcceptTells`). The indexes are tied to the committed log only;
  a commit enters the keys of its records, which by `DistinctVersions` differ from all earlier ones.

`LanternEpochs_proofs`

- `HeadsChained`, `HeadsTrue`, `TotalsTrue`, `AlwaysRecoverable` and `HeadsPermanent` rest on
  `Kept(H, L, A, G)`: how heads, a log, the live CAs and the persistent state belong together. It holds of the
  store and of what the block being prepared would make of it. The proof has two halves. Opening a block
  closes any number of epochs: the first new head takes the bundle, because the records of the
  open epoch are exactly the last `admitted` ones (`SameStart`), the others take none. Admitting a transaction
  adds its record, its CA and its counts together (`TallyAppend`) and cannot touch a closed head, whose epoch is
  smaller (`CommittingAppend`). Cardinalities are handled with the library's theorems on finite sets, not
  by induction.

`LanternStore_proofs`

- `StoreTypeCorrect`, with `Created`, how far the creation of the database got. `OpenableForever` follows.
- `StoreInvariant`: the mutex is held by the thread inside `commit_block`; a preparation has read no
  height below that of its metadata and none above the present one, and once its height is
  validated under the mutex those two are equal, so all its reads were at one height. This is why
  the check of one number is enough against torn reads. `BlocksAreSerial` and `SyncedBlocksSurvive`
  are conjuncts of it.
- `StoreRefinesLedger`: `Spec => SerialLedger`. Only four kinds of steps change the log; writing a
  block executes it on the ledger, losing power cuts the ledger, the other two stutter.

`LanternHistory_proofs`

- `HistoryIsMountainRange`, `CorruptionOnlyByRace`, `HistoryAppendOnly`, `HistoryTyped`, for any
  `TopHeight`, batch bound, records and number of tasks (`HeightAssumption` and `BatchAssumption` only say
  that the bounds are numbers). The argument goes in four steps.
  1. *Layouts are unique.* A sequence of aligned subtrees, each starting where the one before ends and each
     lower than it, is determined by its end (`AscendingSame`). The layout read off the binary digits is one
     (`NodeCountIs`), so are the maximal subtrees of the reference from left to right (`MountainsAre`); hence they are equal.
  2. *Merging keeps the layout.* A leaf merged into the layout of `n` gives that of `n + 1`, and the nodes made
     stand at the positions from `MmrNodeCount(n)` on (`MergeWorks`, `LeafAdded`): the digit sums in the closed
     formula change exactly by the number of joins. So the formula numbers the subtrees of a range without
     gap and without repetition (`SubtreesCounted`), which is what the running counter does.
  3. *Hashes are of the leaves below.* A merge of true peaks makes true peaks (`MergeTrue`).
  4. *Builders and store* (`HistoryInv`): a builder holds the range of the archive as it was when its size was
     read, continued with its own records; the store holds the range of the archive; a size that
     a task has read is the present one unless another task has committed since. Absence checked at
     preparation does not imply absence at commit, only the block height connects the two.
     Each check of the code that can fail is then shown to pass unless the size read is stale.
  The recursive functions of the code are unfolded at one argument at a time. What they give for all arguments
  is shown by the least counterexample (`LeastNumber`, from well-foundedness), not by an induction theorem.
- `InclusionProofsExact`, `PrefixesAlwaysProved`: what the two verifiers accept of the proofs the code makes, at every
  size. Both rest on `Held`, the part of `HistoryInv` about the store.
  - Two logs have one root exactly when they agree on its leaves (`RootExact`), and the hash of a subtree tells
    where it starts (`PerfectHashPlace`), because leaf hashes carry their index.
  - A path from leaf `j` arrives at the subtrees over `j` exactly when its record and *all* its siblings are the true
    ones (`PathExact`). A proof of leaf `i` read as one of `j` has as many siblings only under the same peak, and the
    sibling of the lowest level tells `i` from `j`; under a peak of height zero there is but one leaf.
  - The canonical range is a chain of aligned subtrees (`CanonicalChain`); each of them may be merged next, since the
    cursor is never aligned beyond the last peak (`LayoutAligned`), so true peaks become true peaks (`MergedTrue`).
- `InclusionSound`, `ConsistencySound`, and `ForksAlwaysRefused` as a consequence: what the verifiers accept of proofs
  that come from *anywhere*. Of the proof object they assume only that its index, or its old size, is a number;
  peaks, siblings and subtrees are arbitrary values. No run can enumerate such proofs; the runs check the proofs that
  the code makes and single changes to them.
  - A root commits its leaf count and every peak (`RootSize`, `RootInjective`), so the peaks that are reached are true.
  - For inclusion `PathExact` does the rest: a climb that ends in a true peak started from the true leaf.
  - For consistency the merges are run backwards. Every merge of the canonical range has the shape it would have with
    true hashes, whatever the hashes are (`LayoutTakes`), and a parent hash commits both children; so true
    peaks after a merge mean true peaks before it (`MergeTells`), down to the old peaks (`MergedTells`).
  - The hash functions are terms here: the theorems say that the *structure* leaves no room, given that the hash
    functions and their domain separation are without collisions.

`LanternCheckpoints_proofs`

- `CheckpointsInvariant` extends the store's invariant: whoever is between `Lock` and the release holds the
  mutex, the metadata a keeper has read is that of the database it copies, and every directory, staged or
  published, cached or on the device, is whole and behind what its source has on the device.
  `PublishedManifestsTrue`, `PublishedWhole` and `CopiesNeverAhead` are parts of it;
  `NothingReplaced` and `CheckpointsRefineLedger` (the serial ledger with keepers at work) follow from it.
  `PromisesKept` needs two facts: the name of a promised path is on the device in its parent (a conjunct of the
  invariant), and every directory, staged or published, has a parent that exists (`Placed`). So only a loss of power
  empties a promised path, and only by taking a parent away that was merely cached.
  `DirectoryAssumption` and `KeepersAssumption` say that an absent directory is none, and that keepers and
  committing threads are different threads.

`LanternLatestMap_proofs`

- `LatestHistoriesAgree`, `LatestQueriesExact`, `LatestRefusalNeedsRace`, `LatestImplementsVersionedMap`.
  The entries of a key are in strictly ascending order of versions, all below the height; a task at the present height
  has read counts that are still true. A query's search keeps that all below `low` are at or before its
  version and all from `high` on are after it *or appended since*; appended entries have versions above every
  root there was, which is why the search may ignore them.

`LanternGovernance_proofs`

- `SigningIsExact`: the signer sorts by index, and the verifier demands a strict order. With two or three
  slots of distinct indices there is one ordering (`TwoInOrder`, `ThreeInOrder`), it is strict and keeps
  indices and keys together (`SignedSlots`), so the verifier's slot tests reduce to those of the list as it was given.
  `AnswersAreOfCalls` ties the last answer to the call it belongs to.
- `QuorumHolds`: slots in ascending order have different indices, and different indices have different
  trusted keys. `ReplacementHolds`: ascending addresses with equal powers leave one arrangement of
  four validators (`OneOrder`), so equal key sets and equal other fields would mean an unchanged configuration.

Only model-checked: `BacklogClears`, since liveness and `ENABLED` are out of the prover's reach. Every other
property of a passing run is the statement of a theorem.

## 5. What is left, and what is not modelled

Worth doing next: queries of `LanternHistory` as steps of their own over the live store; writes that
RocksDB reports as failed.

The hazards in `PROJECT.json` each have a property that some run checks. Two more are in the model without
one: a malformed transaction fails the preparation of its whole block (`RefuseMalformed`; the caller is to filter
them, and there is no caller yet), and a crash between the creation of a database and the write of its identity leaves
a directory that every later `open` refuses (`RefuseOpen`), as its documentation says (`store.rs:93`).

Not planned: byte encodings, ASN.1 and RPKI validation, Ed25519 and X.509, which are parsing and
cryptography rather than behaviour; the compatibility probe, which never runs the state machine; the
earlier milestone snapshots. These are four fifths of the implementation's lines: they repeat, in an older state,
what the newest snapshot contains, and a model of an older state of the same function would say nothing
new. What remains of `lantern-M5.0` without a model is encoding, parsing and error text.
