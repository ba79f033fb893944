---------------------------- MODULE LanternState ----------------------------
(***************************************************************************)
(* The deterministic application state machine of crates/lantern-state:    *)
(* StateMachine::prepare_block stages one block over the committed store,  *)
(* PreparedBlock::commit makes the whole of it visible, and dropping the   *)
(* prepared block (or the process dying) makes none of it visible.         *)
(*                                                                         *)
(* The loop of prepare_block over the transactions of a block is unrolled  *)
(* into steps: BeginBlock recovers the committed state and closes the due  *)
(* epochs, one action executes one transaction over the staged overlay     *)
(* (WorkingState), Prepare builds the batch, Commit applies it.            *)
(*                                                                         *)
(* Hashes are injective names: a transaction is known by its identifier    *)
(* (state_transaction_id), a manifest by its hash, a CA state by the       *)
(* version and the authorization of its latest record, which the hashed    *)
(* CaStateV1 contains, and a closed head by its epoch.  The accumulated    *)
(* bundle hash is the sequence of the identifiers accumulated into it.     *)
(***************************************************************************)
EXTENDS Integers, Sequences, FiniteSets
LOCAL INSTANCE FiniteSetsExt

CONSTANTS
    CAs,              \* CA instances (CA_ID)
    Nonces,           \* idempotency nonces
    Keys,             \* administrative Ed25519 keys
    Manifests,        \* exact manifests, by hash
    NumberOf,         \* the manifest number the exact DER of a manifest carries
    TxIds,            \* identifiers of the transactions clients may submit
    Tx,               \* the transaction behind each identifier
    None,             \* the absent value of an Option
    Delta,            \* length of an epoch, in clock ticks
    MaxEpochCatchup,  \* StateConfigV1::max_epoch_catchup
    Room,             \* what an admitted transaction adds to its block
    MaxRoom,          \* what a block may hold
    MaxHeight,        \* bound: number of blocks
    MaxTime,          \* bound: latest consensus time
    MaxBlockTxs       \* bound: transactions in a block

\* authorized: the block times at which the authorizer accepts the certificate
\* chain and the signature of the intent.
PublicationTx ==
    [kind : {"Publication"}, ours : BOOLEAN, ca : CAs, nonce : Nonces,
     manifest : Manifests, previous : Manifests \cup {None}, authorized : SUBSET Nat]

\* A CA state is hashed with the version and the authorization of its latest
\* record inside, so the pair stands for ca_state_hash.
StateHashes == Nat \X TxIds

ControlAction ==
         [op : {"Enable"}, manifest : Manifests, key : Keys]
    \cup [op : {"Disable"}]
    \cup [op : {"Cancel"}, version : Nat, target : Manifests, restore : Manifests]
    \cup [op : {"Rollover"}, successor : CAs, key : Keys]
    \cup [op : {"Terminal"}]

\* signer is the key under which the authorization of this event verifies.
ControlTx ==
    [kind : {"Control"}, ours : BOOLEAN, ca : CAs, nonce : Nonces,
     sequence : Nat, previous : StateHashes \cup {None},
     signer : Keys \cup {None}, action : ControlAction]

ASSUME TxAssumption == Tx \in [TxIds -> PublicationTx \cup ControlTx]
ASSUME NumberAssumption == NumberOf \in [Manifests -> Nat \ {0}]
ASSUME NoneAssumption ==
    /\ None \notin CAs \cup Keys \cup Manifests \cup TxIds \cup Nat
    /\ None \notin StateHashes
ASSUME RoomAssumption == Room \in [TxIds -> Nat] /\ MaxRoom \in Nat
ASSUME EpochAssumption == Delta \in Nat \ {0} /\ MaxEpochCatchup \in Nat \ {0}
ASSUME BoundAssumption ==
    MaxHeight \in Nat /\ MaxTime \in Nat /\ MaxBlockTxs \in Nat

VARIABLES
    (* committed: what the column families hold *)
    caState,        \* CA -> CaStateV1 or None
    preauth,        \* CA -> pending rollover preauthorization or None
    idempotency,    \* <<CA, nonce>> -> first outcome, a partial function
    records,        \* the history log, index i at position i + 1
    versionIndex,   \* <<CA, version>> -> history index, a partial function
    manifestIndex,  \* <<CA, manifest>> -> history index, a partial function
    heads,          \* epoch -> closed head, a partial function
    global,         \* PersistentState; height 0 before the first commit
    (* staged: the block being prepared *)
    phase,          \* "idle", "executing" or "prepared"
    todo,           \* transactions of the block not executed yet
    next,           \* the PersistentState being built
    closed,         \* heads closed by this block
    caUpdates, preauthUpdates, idempotencyUpdates, \* WorkingState
    accepted,       \* records of the admitted transactions, in order
    results         \* results of the executed transactions, in order

committed == <<caState, preauth, idempotency, records, versionIndex,
               manifestIndex, heads, global>>
overlay == <<caUpdates, preauthUpdates, idempotencyUpdates>>
staged == <<next, closed, overlay, accepted, results>>
vars == <<committed, phase, todo, staged>>

-----------------------------------------------------------------------------
(* Partial functions, staged over committed ones *)

EmptyMap == [x \in {} |-> None]

Put(f, k, v) == [x \in DOMAIN f \cup {k} |-> IF x = k THEN v ELSE f[x]]

Over(f, g) == [x \in DOMAIN f \cup DOMAIN g |-> IF x \in DOMAIN g THEN g[x] ELSE f[x]]

\* What WorkingState reads: the staged value, else the committed one.
CaView(c) == IF c \in DOMAIN caUpdates THEN caUpdates[c] ELSE caState[c]
PreauthView(c) == IF c \in DOMAIN preauthUpdates THEN preauthUpdates[c] ELSE preauth[c]
RecordedInStore(k) == k \in DOMAIN idempotency \* variant: the overlay is not read
Recorded(k) == k \in DOMAIN idempotencyUpdates \cup DOMAIN idempotency
Outcome(k) == IF k \in DOMAIN idempotencyUpdates THEN idempotencyUpdates[k]
                                                 ELSE idempotency[k]
Log == records \o accepted

-----------------------------------------------------------------------------
(* Time and epochs *)

EpochAt(t) == t \div Delta
EpochEnd(e) == (e + 1) * Delta
Due(t) == IF EpochAt(t) > global.open THEN EpochAt(t) - global.open ELSE 0

\* Variant: a block with a larger backlog closes nothing.
CloseCountWithinLimit(t) == IF Due(t) <= MaxEpochCatchup THEN Due(t) ELSE 0

CloseCount(t) == IF Due(t) < MaxEpochCatchup THEN Due(t) ELSE MaxEpochCatchup

\* Variant: the bundle is not reset inside the loop.
ClosingHeadSameBundle(t, i) ==
    [epoch |-> global.open + i - 1, issued_at |-> t, history_length |-> global.length,
     entries |-> global.entries, bundle |-> global.bundle,
     previous |-> IF i = 1 THEN global.last_closed ELSE global.open + i - 2]

\* Variant: last_closed_head_id is not advanced inside the loop.
ClosingHeadSameParent(t, i) ==
    [epoch |-> global.open + i - 1, issued_at |-> t, history_length |-> global.length,
     entries |-> global.entries, bundle |-> IF i = 1 THEN global.bundle ELSE <<>>,
     previous |-> global.last_closed]

\* The i-th head this block closes: the first takes the bundle accumulated in
\* its epoch, those after it closed no admitted transaction.
ClosingHead(t, i) ==
    LET e == global.open + i - 1 IN
    [epoch |-> e, issued_at |-> t, history_length |-> global.length,
     entries |-> global.entries,
     bundle |-> IF i = 1 THEN global.bundle ELSE <<>>,
     previous |-> IF i = 1 THEN global.last_closed ELSE e - 1]

-----------------------------------------------------------------------------
(* Canonical-object rules a transaction passes before it is executed *)

WireValid(t) ==
    IF t.kind = "Publication"
    THEN t.previous # t.manifest
    ELSE LET initial == t.action.op = "Enable" /\ t.sequence = 1 IN
         /\ t.sequence > 0
         /\ initial <=> t.previous = None
         /\ t.action.op = "Cancel" =>
                t.action.version > 0 /\ t.action.target # t.action.restore
         /\ t.action.op = "Rollover" => t.action.successor # t.ca

ManifestOf(installed) == IF installed = None THEN None ELSE installed.manifest

StateHash(s) == <<s.last_version, s.latest_record>>

-----------------------------------------------------------------------------
(* Verdicts: process_transaction and process_control *)

PublicationFits(t) ==
    LET s == CaView(t.ca) IN
    /\ s # None
    /\ s.status = "Enabled"
    /\ t.previous = ManifestOf(s.effective)
    /\ s.expected \in {None, t.manifest}
    /\ s.effective # None => NumberOf[t.manifest] > NumberOf[s.effective.manifest]

\* Variant: a registration does not compare the preauthorized key.
ControlAppliesAnyKey(t) ==
    LET s == CaView(t.ca) IN
    IF s = None
    THEN t.action.op = "Enable" /\ t.sequence = 1 /\ t.previous = None
    ELSE /\ s.status # "Terminal"
         /\ t.action.op = "Enable" =>
                s.status = "Disabled" /\ s.admin_key = t.action.key

\* Variant: a terminal CA is not refused.
ControlAppliesForever(t) ==
    LET s == CaView(t.ca)  p == PreauthView(t.ca) IN
    IF s = None
    THEN /\ t.action.op = "Enable" /\ t.sequence = 1 /\ t.previous = None
         /\ p # None => p.admin_key = t.action.key
    ELSE t.action.op = "Enable" => s.status = "Disabled" /\ s.admin_key = t.action.key

\* The registration an Enable may start from, or the live CA of another event.
ControlApplies(t) ==
    LET s == CaView(t.ca)  p == PreauthView(t.ca) IN
    IF s = None
    THEN /\ t.action.op = "Enable"
         /\ t.sequence = 1
         /\ t.previous = None
         /\ p # None => p.admin_key = t.action.key
    ELSE /\ s.status # "Terminal"
         /\ t.action.op = "Enable" =>
                s.status = "Disabled" /\ s.admin_key = t.action.key

VerificationKey(t) ==
    IF CaView(t.ca) = None THEN t.action.key ELSE CaView(t.ca).admin_key

InSequence(t) ==
    LET s == CaView(t.ca) IN
    s # None => t.sequence = s.admin_sequence + 1 /\ t.previous = StateHash(s)

\* Variant: the target and the restored manifest are not compared.
CancelFitsAnyTarget(t) ==
    LET s == CaView(t.ca) IN
    /\ s.status = "Enabled" /\ s.latest_event = "Publish"
    /\ t.action.version = s.last_version

CancelFits(t) ==
    LET s == CaView(t.ca) IN
    /\ s.status = "Enabled"
    /\ s.latest_event = "Publish"
    /\ t.action.version = s.last_version
    /\ t.action.target = ManifestOf(s.effective)
    /\ t.action.restore = ManifestOf(s.predecessor)

\* Variant: a pending preauthorization of the successor is overlooked.
RolloverFitsUnlessLive(t) == CaView(t.action.successor) = None

RolloverFits(t) ==
    CaView(t.action.successor) = None /\ PreauthView(t.action.successor) = None

ActionFits(t) ==
    CASE t.action.op = "Disable"  -> CaView(t.ca).status = "Enabled"
      [] t.action.op = "Cancel"   -> CancelFits(t)
      [] t.action.op = "Rollover" -> RolloverFits(t)
      [] OTHER                    -> TRUE

Verdict(t) ==
    IF ~t.ours THEN "RejectedNetwork"
    ELSE IF t.kind = "Publication"
    THEN IF next.time \notin t.authorized THEN "RejectedAuthorization"
         ELSE IF PublicationFits(t) THEN "Admitted" ELSE "RejectedState"
    ELSE IF ~ControlApplies(t) THEN "RejectedState"
         ELSE IF t.signer # VerificationKey(t) THEN "RejectedAuthorization"
         ELSE IF InSequence(t) /\ ActionFits(t) THEN "Admitted" ELSE "RejectedState"

-----------------------------------------------------------------------------
(* Results and records *)

Rejection(id, code) ==
    [tx |-> id, code |-> code, height |-> next.height,
     history_index |-> None, version |-> None, epoch |-> None]

\* Variant: the records admitted earlier in this block are not counted.
AdmissionAtBlockStart(id, version) ==
    [tx |-> id, code |-> "Admitted", height |-> next.height,
     history_index |-> global.length, version |-> version, epoch |-> next.open]

Admission(id, version) ==
    [tx |-> id, code |-> "Admitted", height |-> next.height,
     history_index |-> next.length, version |-> version, epoch |-> next.open]

Record(id, version, event, manifest, previous) ==
    [ca |-> Tx[id].ca, version |-> version, event |-> event, manifest |-> manifest,
     previous |-> previous, epoch |-> next.open, authorization |-> id]

NonceKey(id) == <<Tx[id].ca, Tx[id].nonce>>

-----------------------------------------------------------------------------
(* Staging *)

NoBlock == [height |-> 0, time |-> 0, open |-> 0, bundle |-> <<>>, admitted |-> 0,
            entries |-> 0, length |-> 0, last_closed |-> None]

Init ==
    /\ caState = [c \in CAs |-> None]
    /\ preauth = [c \in CAs |-> None]
    /\ idempotency = EmptyMap /\ versionIndex = EmptyMap /\ manifestIndex = EmptyMap
    /\ records = <<>> /\ heads = EmptyMap
    /\ global = NoBlock
    /\ phase = "idle" /\ todo = 0
    /\ next = NoBlock /\ closed = <<>>
    /\ caUpdates = EmptyMap /\ preauthUpdates = EmptyMap /\ idempotencyUpdates = EmptyMap
    /\ accepted = <<>> /\ results = <<>>

\* Nothing of the block remains staged.
Discard ==
    /\ phase' = "idle" /\ todo' = 0
    /\ next' = NoBlock /\ closed' = <<>>
    /\ caUpdates' = EmptyMap /\ preauthUpdates' = EmptyMap
    /\ idempotencyUpdates' = EmptyMap
    /\ accepted' = <<>> /\ results' = <<>>

\* The agreement recover() and PersistentState::decode demand of the store.
CrossCheck ==
    /\ global.length = Len(records)
    /\ global.entries <= global.length
    /\ global.open = IF global.last_closed = None THEN 0 ELSE global.last_closed + 1

NotBefore(t) == t >= global.time

\* Variant: the loop closes the open epoch as well.
ClosedHeadsInclusive(t) == [i \in 1..CloseCount(t) + 1 |-> ClosingHead(t, i)]

ClosedHeads(t) == [i \in 1..CloseCount(t) |-> ClosingHead(t, i)]

\* Variant: the count of the epoch just closed is carried over.
OpenedKeepingCount(t) ==
    IF CloseCount(t) = 0
    THEN [global EXCEPT !.height = @ + 1, !.time = t]
    ELSE [global EXCEPT !.height = @ + 1, !.time = t, !.open = @ + CloseCount(t),
                        !.last_closed = global.open + CloseCount(t) - 1, !.bundle = <<>>]

\* Variant: the first closed epoch is recorded, not the last.
OpenedFirstClosed(t) ==
    IF CloseCount(t) = 0
    THEN [global EXCEPT !.height = @ + 1, !.time = t]
    ELSE [global EXCEPT !.height = @ + 1, !.time = t, !.open = @ + CloseCount(t),
                        !.last_closed = global.open, !.bundle = <<>>, !.admitted = 0]

\* The state the transactions of a block at time t start from.
Opened(t) ==
    IF CloseCount(t) = 0
    THEN [global EXCEPT !.height = @ + 1, !.time = t]
    ELSE [global EXCEPT !.height = @ + 1, !.time = t, !.open = @ + CloseCount(t),
                        !.last_closed = global.open + CloseCount(t) - 1,
                        !.bundle = <<>>, !.admitted = 0]

\* prepare_block up to its transaction loop, for a block of n transactions.
BeginBlock(t, n) ==
    /\ phase = "idle"
    /\ global.height < MaxHeight
    /\ CrossCheck
    /\ NotBefore(t)
    /\ n > 0 => Due(t) <= MaxEpochCatchup
    /\ n > 0 => Opened(t).open = EpochAt(t)
    /\ phase' = "executing"
    /\ todo' = n
    /\ closed' = ClosedHeads(t)
    /\ next' = Opened(t)
    /\ UNCHANGED <<committed, overlay, accepted, results>>

\* The next transaction of the block is id.
Executes(id) == phase = "executing" /\ todo > 0 /\ WireValid(Tx[id])

Answer(result) ==
    /\ results' = Append(results, result)
    /\ todo' = todo - 1
    /\ UNCHANGED <<committed, phase, closed>>

\* A transaction already seen under this CA and nonce gets its first result.
Replay(id) ==
    /\ Executes(id)
    /\ Recorded(NonceKey(id)) /\ Outcome(NonceKey(id)).tx = id
    /\ Answer(Outcome(NonceKey(id)).result)
    /\ UNCHANGED <<next, overlay, accepted>>

Remember(id, result) ==
    idempotencyUpdates' = Put(idempotencyUpdates, NonceKey(id), [tx |-> id, result |-> result])

\* Variant: the conflicting transaction takes over the nonce.
ConflictTakesOver(id) ==
    LET result == Rejection(id, "RejectedIdempotencyConflict") IN
    /\ Executes(id)
    /\ Recorded(NonceKey(id)) /\ Outcome(NonceKey(id)).tx # id
    /\ Answer(result) /\ Remember(id, result)
    /\ UNCHANGED <<next, caUpdates, preauthUpdates, accepted>>

\* A different transaction under a used nonce is refused and leaves no trace.
Conflict(id) ==
    /\ Executes(id)
    /\ Recorded(NonceKey(id)) /\ Outcome(NonceKey(id)).tx # id
    /\ Answer(Rejection(id, "RejectedIdempotencyConflict"))
    /\ UNCHANGED <<next, overlay, accepted>>

\* A rejection changes no CA, yet it uses up the nonce.
Reject(id) ==
    /\ Executes(id)
    /\ ~Recorded(NonceKey(id))
    /\ Verdict(Tx[id]) # "Admitted"
    /\ LET result == Rejection(id, Verdict(Tx[id])) IN
       Answer(result) /\ Remember(id, result)
    /\ UNCHANGED <<next, caUpdates, preauthUpdates, accepted>>

Admits(id) ==
    /\ Executes(id)
    /\ ~Recorded(NonceKey(id))
    /\ Verdict(Tx[id]) = "Admitted"

AdmitsControl(id, op) == Tx[id].kind = "Control" /\ Tx[id].action.op = op /\ Admits(id)

\* The admitted transaction id leaves the CA in state s and appends record r.
Accept(id, s, r, created) ==
    LET result == Admission(id, r.version) IN
    /\ caUpdates' = Put(caUpdates, Tx[id].ca, s)
    /\ accepted' = Append(accepted, r)
    /\ next' = [next EXCEPT !.bundle = Append(@, id), !.admitted = @ + 1,
                            !.length = @ + 1,
                            !.entries = @ + (IF created THEN 1 ELSE 0)]
    /\ Answer(result)
    /\ Remember(id, result)

Publish(id) ==
    LET t == Tx[id]  s == CaView(t.ca)  v == s.last_version + 1 IN
    /\ t.kind = "Publication" /\ Admits(id)
    /\ Accept(id,
              [s EXCEPT !.predecessor = s.effective,
                        !.effective = [manifest |-> t.manifest, intent |-> id],
                        !.expected = None,
                        !.last_version = v, !.latest_record = id,
                        !.latest_event = "Publish", !.latest_epoch = next.open],
              Record(id, v, "Publish", t.manifest, t.previous), FALSE)
    /\ UNCHANGED preauthUpdates

\* Variant: the version of a live CA is not advanced.
AdministeredSameVersion(id, event) ==
    LET t == Tx[id]  s == CaView(t.ca) IN
    IF s = None
    THEN [status |-> "Enabled", admin_key |-> VerificationKey(t),
          admin_sequence |-> t.sequence, last_version |-> 1, latest_record |-> id,
          latest_event |-> event, latest_epoch |-> next.open,
          effective |-> None, predecessor |-> None, expected |-> None, link |-> None]
    ELSE [s EXCEPT !.admin_sequence = t.sequence, !.latest_record = id,
                   !.latest_event = event, !.latest_epoch = next.open]

\* The state a control event leaves its CA in, before the event's own effect.
Administered(id, event) ==
    LET t == Tx[id]  s == CaView(t.ca) IN
    IF s = None
    THEN [status |-> "Enabled", admin_key |-> VerificationKey(t),
          admin_sequence |-> t.sequence, last_version |-> 1, latest_record |-> id,
          latest_event |-> event, latest_epoch |-> next.open,
          effective |-> None, predecessor |-> None, expected |-> None, link |-> None]
    ELSE [s EXCEPT !.admin_sequence = t.sequence, !.last_version = @ + 1,
                   !.latest_record = id, !.latest_event = event,
                   !.latest_epoch = next.open]

\* Variant: the preauthorization is not consumed.
EnableKeepsPreauth(id) ==
    LET t == Tx[id]  s == Administered(id, "Enable") IN
    /\ AdmitsControl(id, "Enable")
    /\ Accept(id, [s EXCEPT !.status = "Enabled", !.admin_key = t.action.key,
                            !.expected = t.action.manifest, !.link = None],
              Record(id, s.last_version, "Enable", None, None),
              CaView(t.ca) = None)
    /\ UNCHANGED preauthUpdates

Enable(id) ==
    LET t == Tx[id]  s == Administered(id, "Enable") IN
    /\ AdmitsControl(id, "Enable")
    /\ Accept(id, [s EXCEPT !.status = "Enabled", !.admin_key = t.action.key,
                            !.expected = t.action.manifest, !.link = None],
              Record(id, s.last_version, "Enable", None, None),
              CaView(t.ca) = None)
    /\ preauthUpdates' = Put(preauthUpdates, t.ca, None)

Disable(id) ==
    LET s == Administered(id, "Disable") IN
    /\ AdmitsControl(id, "Disable")
    /\ Accept(id, [s EXCEPT !.status = "Disabled", !.expected = None],
              Record(id, s.last_version, "Disable", None, None), FALSE)
    /\ UNCHANGED preauthUpdates

\* Variant: the predecessor stays in place when it is restored.
CancelKeepsPredecessor(id) ==
    LET t == Tx[id]  s == Administered(id, "Cancel") IN
    /\ AdmitsControl(id, "Cancel")
    /\ Accept(id, [s EXCEPT !.effective = s.predecessor],
              Record(id, s.last_version, "Cancel", t.action.target, t.action.restore),
              FALSE)
    /\ UNCHANGED preauthUpdates

Cancel(id) ==
    LET t == Tx[id]  s == Administered(id, "Cancel") IN
    /\ AdmitsControl(id, "Cancel")
    /\ Accept(id, [s EXCEPT !.effective = s.predecessor, !.predecessor = None],
              Record(id, s.last_version, "Cancel", t.action.target, t.action.restore),
              FALSE)
    /\ UNCHANGED preauthUpdates

Rollover(id) ==
    LET t == Tx[id]  s == Administered(id, "Rollover") IN
    /\ AdmitsControl(id, "Rollover")
    /\ Accept(id, [s EXCEPT !.status = "Terminal", !.expected = None,
                            !.link = t.action.successor],
              Record(id, s.last_version, "Rollover", None, None), FALSE)
    /\ preauthUpdates' = Put(preauthUpdates, t.action.successor,
                             [admin_key |-> t.action.key, predecessor |-> t.ca])

Terminate(id) ==
    LET s == Administered(id, "Terminal") IN
    /\ AdmitsControl(id, "Terminal")
    /\ Accept(id, [s EXCEPT !.status = "Terminal", !.expected = None, !.link = None],
              Record(id, s.last_version, "Terminal", None, None), FALSE)
    /\ UNCHANGED preauthUpdates

\* A transaction that is not a canonical object fails the whole block.
RefuseMalformed(id) ==
    /\ phase = "executing" /\ todo > 0
    /\ ~WireValid(Tx[id])
    /\ Discard
    /\ UNCHANGED committed

-----------------------------------------------------------------------------
(* The batch, its commit and its loss *)

VersionKey(r) == <<r.ca, r.version>>
ManifestKey(r) == <<r.ca, r.manifest>>
Publications(log) == {i \in DOMAIN log : log[i].event = "Publish"}

\* StoreBatch refuses a second operation on one key: two records of this block
\* with one version key, or two publications of one manifest by one CA.
DuplicateKey ==
    \/ \E i, j \in DOMAIN accepted : i # j /\ VersionKey(accepted[i]) = VersionKey(accepted[j])
    \/ \E i, j \in Publications(accepted) :
          i # j /\ ManifestKey(accepted[i]) = ManifestKey(accepted[j])

RoomFor(outcome) == IF outcome.result.code = "Admitted" THEN Room[outcome.tx] ELSE 1

\* The limits of the history append (records, bytes) and of StoreBatch
\* (operations, bytes), as one: every outcome the block adds takes some of it.
\* Heads are left out: a block closes at most 65,535 (max_epoch_catchup is a u16),
\* which fit, so a block with no transactions always does.
Oversized ==
    MapThenSumSet(LAMBDA k : RoomFor(idempotencyUpdates[k]), DOMAIN idempotencyUpdates) > MaxRoom

Prepare ==
    /\ phase = "executing" /\ todo = 0
    /\ ~Oversized /\ ~DuplicateKey
    /\ phase' = "prepared"
    /\ UNCHANGED <<committed, todo, staged>>

RefuseBatch ==
    /\ phase = "executing" /\ todo = 0
    /\ Oversized \/ DuplicateKey
    /\ Discard
    /\ UNCHANGED committed

\* History index of the accepted record at position i of this block.
IndexOf(i) == global.length + i - 1

VersionWrites ==
    [k \in {VersionKey(accepted[i]) : i \in DOMAIN accepted} |->
        IndexOf(CHOOSE i \in DOMAIN accepted : VersionKey(accepted[i]) = k)]

\* Variant: a manifest published before keeps its first index.
ManifestWritesOnce ==
    [k \in {ManifestKey(accepted[i]) : i \in Publications(accepted)} \ DOMAIN manifestIndex |->
        IndexOf(CHOOSE i \in Publications(accepted) : ManifestKey(accepted[i]) = k)]

ManifestWrites ==
    [k \in {ManifestKey(accepted[i]) : i \in Publications(accepted)} |->
        IndexOf(CHOOSE i \in Publications(accepted) : ManifestKey(accepted[i]) = k)]

HeadWrites ==
    [e \in {closed[i].epoch : i \in DOMAIN closed} |->
        closed[CHOOSE i \in DOMAIN closed : closed[i].epoch = e]]

Commit ==
    /\ phase = "prepared"
    /\ caState' = Over(caState, caUpdates)
    /\ preauth' = Over(preauth, preauthUpdates)
    /\ idempotency' = Over(idempotency, idempotencyUpdates)
    /\ records' = records \o accepted
    /\ versionIndex' = Over(versionIndex, VersionWrites)
    /\ manifestIndex' = Over(manifestIndex, ManifestWrites)
    /\ heads' = Over(heads, HeadWrites)
    /\ global' = next
    /\ Discard

\* The prepared block is dropped, or the process dies before the commit.
Abandon ==
    /\ phase # "idle"
    /\ Discard
    /\ UNCHANGED committed

\* Not a step of the code: the bound on the number of blocks is reached.
AtBound == phase = "idle" /\ global.height = MaxHeight /\ UNCHANGED vars

ExecuteTransaction(id) ==
    \/ Replay(id) \/ Conflict(id) \/ Reject(id) \/ RefuseMalformed(id)
    \/ Publish(id) \/ Enable(id) \/ Disable(id)
    \/ Cancel(id) \/ Rollover(id) \/ Terminate(id)

Next ==
    \/ \E t \in 0..MaxTime, n \in 0..MaxBlockTxs : BeginBlock(t, n)
    \/ \E id \in TxIds : ExecuteTransaction(id)
    \/ Prepare \/ RefuseBatch \/ Commit \/ Abandon \/ AtBound

Spec == Init /\ [][Next]_vars

\* The consensus engine keeps starting empty blocks, the only ones accepted in a
\* backlog, and drops and crashes do not hit all of them before their commit.
Fairness ==
    /\ SF_vars(\E t \in 0..MaxTime : BeginBlock(t, 0))
    /\ SF_vars(Prepare)
    /\ SF_vars(Commit)

FairSpec == Spec /\ Fairness

-----------------------------------------------------------------------------
(* Types *)

Installed == [manifest : Manifests, intent : TxIds]
Events == {"Enable", "Publish", "Disable", "Cancel", "Rollover", "Terminal"}
CaStates ==
    [status : {"Enabled", "Disabled", "Terminal"}, admin_key : Keys,
     admin_sequence : Nat, last_version : Nat, latest_record : TxIds,
     latest_event : Events, latest_epoch : Nat,
     effective : Installed \cup {None}, predecessor : Installed \cup {None},
     expected : Manifests \cup {None}, link : CAs \cup {None}]
ASSUME NoStateAssumption == None \notin CaStates
ASSUME NotInstalledAssumption == None \notin Installed
Preauthorizations == [admin_key : Keys, predecessor : CAs]
ASSUME PreauthAssumption == None \notin Preauthorizations
Codes == {"Admitted", "RejectedNetwork", "RejectedAuthorization", "RejectedState",
          "RejectedIdempotencyConflict"}
Results ==
    [tx : TxIds, code : Codes, height : Nat, history_index : Nat \cup {None},
     version : Nat \cup {None}, epoch : Nat \cup {None}]
Outcomes == [tx : TxIds, result : Results]
HistoryRecords ==
    [ca : CAs, version : Nat, event : Events, manifest : Manifests \cup {None},
     previous : Manifests \cup {None}, epoch : Nat, authorization : TxIds]
Heads ==
    [epoch : Nat, issued_at : Nat, history_length : Nat, entries : Nat,
     bundle : Seq(TxIds), previous : Nat \cup {None}]
Persistents ==
    [height : Nat, time : Nat, open : Nat, bundle : Seq(TxIds), admitted : Nat,
     entries : Nat, length : Nat, last_closed : Nat \cup {None}]

IsMap(f, D, R) == f \in [DOMAIN f -> R] /\ DOMAIN f \subseteq D

\* Every column family and every staged value holds what its codec decodes.
TypeOK ==
    /\ caState \in [CAs -> CaStates \cup {None}]
    /\ preauth \in [CAs -> Preauthorizations \cup {None}]
    /\ IsMap(idempotency, CAs \X Nonces, Outcomes)
    /\ records \in Seq(HistoryRecords)
    /\ IsMap(versionIndex, CAs \X Nat, Nat)
    /\ IsMap(manifestIndex, CAs \X (Manifests \cup {None}), Nat)
    /\ IsMap(heads, Nat, Heads)
    /\ global \in Persistents
    /\ phase \in {"idle", "executing", "prepared"}
    /\ todo \in Nat
    /\ next \in Persistents
    /\ closed \in Seq(Heads)
    /\ IsMap(caUpdates, CAs, CaStates)
    /\ IsMap(preauthUpdates, CAs, Preauthorizations \cup {None})
    /\ IsMap(idempotencyUpdates, CAs \X Nonces, Outcomes)
    /\ accepted \in Seq(HistoryRecords)
    /\ results \in Seq(Results)

-----------------------------------------------------------------------------
(* Properties.  They speak of the staged view, so they hold after every     *)
(* transaction of a block and, once it is committed, of the store.          *)

Live(c) == CaView(c) # None
LinksTo(c, s) == Live(c) /\ CaView(c).link = s
RecordsOf(c) == {i \in DOMAIN Log : Log[i].ca = c}
Latest(S) == CHOOSE i \in S : \A j \in S : j <= i

\* The idempotency map and the history tell one story: a nonce whose outcome is
\* an admission names the record of that transaction, with its version and
\* epoch; a nonce whose outcome is a rejection belongs to a transaction with no
\* record; and no record lacks its outcome.  (prepare_block, replay branch.)
OutcomesMatchHistory ==
    /\ \A k \in DOMAIN idempotency \cup DOMAIN idempotencyUpdates :
          LET o == Outcome(k)  r == o.result IN
          IF r.code = "Admitted"
          THEN /\ r.history_index + 1 \in DOMAIN Log
               /\ LET entry == Log[r.history_index + 1] IN
                  /\ entry.authorization = o.tx
                  /\ entry.version = r.version
                  /\ entry.epoch = r.epoch
          ELSE \A i \in DOMAIN Log : Log[i].authorization # o.tx
    /\ \A i \in DOMAIN Log :
          LET k == NonceKey(Log[i].authorization) IN
          Recorded(k) /\ Outcome(k).tx = Log[i].authorization

\* A transaction enters the history at most once, whatever is replayed, in the
\* block that admitted it or in a later one.
AdmittedOnce ==
    \A i, j \in DOMAIN Log : Log[i].authorization = Log[j].authorization => i = j

\* The outcome first recorded for a CA and nonce is never replaced.
OutcomeIsPermanent ==
    [][\A k \in DOMAIN idempotency :
          k \in DOMAIN idempotency' /\ idempotency'[k] = idempotency[k]]_idempotency

\* The records of a CA carry the versions 1, 2, ... in history order, the CA
\* state has the last of them, and the version index finds each of them.
HistoryIndexed ==
    /\ \A i \in DOMAIN Log :
          Log[i].version = Cardinality({j \in RecordsOf(Log[i].ca) : j <= i})
    /\ \A c \in CAs :
          IF Live(c) THEN CaView(c).last_version = Cardinality(RecordsOf(c))
                     ELSE RecordsOf(c) = {}
    /\ \A i \in DOMAIN records :
          LET k == VersionKey(records[i]) IN
          k \in DOMAIN versionIndex /\ versionIndex[k] = i - 1

\* The effective manifest of a CA is the one its history says: that of its last
\* publication, or the one its last cancellation restored.  The effective and
\* the predecessor manifest were each published by this CA in the transaction
\* the state names, and the predecessor has the smaller number.
LineageAuthentic ==
    \A c \in CAs : Live(c) =>
        LET s == CaView(c)
            moves == {i \in RecordsOf(c) : Log[i].event \in {"Publish", "Cancel"}}
            last == Log[Latest(moves)]
        IN
        /\ ManifestOf(s.effective) =
               IF moves = {} THEN None
               ELSE IF last.event = "Publish" THEN last.manifest ELSE last.previous
        /\ \A m \in {s.effective, s.predecessor} \ {None} :
               \E i \in RecordsOf(c) :
                   /\ Log[i].event = "Publish" /\ Log[i].manifest = m.manifest
                   /\ Log[i].authorization = m.intent
        /\ s.predecessor # None =>
               /\ s.effective # None
               /\ NumberOf[s.predecessor.manifest] < NumberOf[s.effective.manifest]

\* A cancellation undoes exactly the publication recorded just before it: it
\* names that publication's manifest and restores what that publication replaced.
CancelUndoesPublish ==
    \A i \in DOMAIN Log : Log[i].event = "Cancel" =>
        \E j \in RecordsOf(Log[i].ca) :
            /\ Log[j].version = Log[i].version - 1
            /\ Log[j].event = "Publish"
            /\ Log[j].manifest = Log[i].manifest
            /\ Log[j].previous = Log[i].previous

\* A preauthorization is pending for exactly the absent successors of a
\* rollover, and it names the CA that rolled over.
PreauthExact ==
    \A s \in CAs :
        /\ PreauthView(s) # None <=> ~Live(s) /\ \E c \in CAs : LinksTo(c, s)
        /\ PreauthView(s) # None => LinksTo(PreauthView(s).predecessor, s)

\* A successor that has come up runs under the key its predecessor authorized.
SuccessorKeyHonoured ==
    \A c, s \in CAs :
        LinksTo(c, s) /\ Live(s) =>
            CaView(s).admin_key = Tx[CaView(c).latest_record].action.key

\* Rollover links form chains: no CA succeeds two others, none succeeds itself
\* through any number of rollovers.
RolloverChains ==
    /\ \A c, d, s \in CAs : LinksTo(c, s) /\ LinksTo(d, s) => c = d
    /\ \A S \in (SUBSET CAs) \ {{}} : \E c \in S : \A s \in S : ~LinksTo(c, s)

\* A terminal CA is never written again, and an admin key never changes.
TerminalIsFinal ==
    [][\A c \in CAs : caState[c] # None =>
          /\ caState'[c] # None
          /\ caState'[c].admin_key = caState[c].admin_key
          /\ caState[c].status = "Terminal" => caState'[c] = caState[c]]_caState

\* A block of canonical transactions that is not too large fails as a whole in one
\* case only: a CA publishes a manifest, cancels it and publishes it again within
\* the block (the duplicate keys of reserve_operation).  No two records of a CA
\* share a version, and CaStateV1 validation accepts every state the transitions
\* build.
OnlyRepublicationFails ==
    /\ \A c \in DOMAIN caUpdates :
          LET s == caUpdates[c] IN
          /\ s.admin_sequence > 0 /\ s.last_version > 0
          /\ s.expected # None => s.status = "Enabled"
          /\ s.link # None => s.status = "Terminal" /\ s.latest_event = "Rollover"
    /\ DuplicateKey =>
          \E i, j \in Publications(accepted), l \in DOMAIN accepted :
              /\ i < l /\ l < j
              /\ ManifestKey(accepted[i]) = ManifestKey(accepted[j])
              /\ accepted[l].event = "Cancel"
              /\ ManifestKey(accepted[l]) = ManifestKey(accepted[i])

\* The manifest index resolves each published manifest of a CA to its last
\* publication in the committed history.
ManifestIndexCurrent ==
    /\ \A i \in Publications(records) : ManifestKey(records[i]) \in DOMAIN manifestIndex
    /\ \A k \in DOMAIN manifestIndex :
          LET hits == {i \in Publications(records) : ManifestKey(records[i]) = k} IN
          hits # {} /\ manifestIndex[k] = Latest(hits) - 1

\* What the code documents of history_index_for_manifest: the index a
\* publication manifest resolves to is immutable.
ManifestIndexImmutable ==
    [][\A k \in DOMAIN manifestIndex :
          k \in DOMAIN manifestIndex' /\ manifestIndex'[k] = manifestIndex[k]]_manifestIndex

-----------------------------------------------------------------------------
(* Properties of epochs and heads *)

HeadView == Over(heads, HeadWrites)
Current == IF phase = "idle" THEN global ELSE next
LengthBefore(e) == IF e = 0 THEN 0 ELSE HeadView[e - 1].history_length
AuthorizationsIn(from, to) == [i \in 1..(to - from) |-> Log[from + i].authorization]

\* The head of an epoch commits to exactly the history admitted up to the end of
\* that epoch: its length counts those records, its bundle lists those of the
\* epoch itself, its entry count is the number of CAs they created.
HeadsMatchHistory ==
    \A e \in DOMAIN HeadView :
        LET h == HeadView[e] IN
        /\ h.history_length = Cardinality({i \in DOMAIN Log : Log[i].epoch <= e})
        /\ h.bundle = AuthorizationsIn(LengthBefore(e), h.history_length)
        /\ h.entries = Cardinality({Log[i].ca : i \in 1..h.history_length})

\* The heads are those of all the epochs before the open one, each linked to the
\* one before and issued after its epoch ended, in the order of issue.
HeadChain ==
    /\ DOMAIN HeadView = 0..(Current.open - 1)
    /\ \A e \in DOMAIN HeadView :
          LET h == HeadView[e] IN
          /\ h.epoch = e
          /\ h.previous = IF e = 0 THEN None ELSE e - 1
          /\ h.issued_at >= EpochEnd(e)
          /\ e > 0 => HeadView[e - 1].issued_at <= h.issued_at

\* The running totals of the open epoch agree with the history: records come in
\* epoch order, and the bundle and the count are those of the open epoch.
EpochAccounting ==
    /\ \A i, j \in DOMAIN Log : i < j => Log[i].epoch <= Log[j].epoch
    /\ Current.length = Len(Log)
    /\ Current.entries = Cardinality({c \in CAs : Live(c)})
    /\ Current.admitted = Cardinality({i \in DOMAIN Log : Log[i].epoch = Current.open})
    /\ Current.bundle = AuthorizationsIn(Len(Log) - Current.admitted, Len(Log))

\* Blocks that carry transactions are accepted at the time of the last block.
Admitting ==
    /\ phase = "idle"
    /\ Due(global.time) <= MaxEpochCatchup
    /\ Opened(global.time).open = EpochAt(global.time)

\* Blocks within which the last epoch of the bounded clock is reached.
Rounds == EpochAt(MaxTime) \div MaxEpochCatchup + 1

\* However many epochs were skipped, blocks with transactions are accepted again
\* after enough empty ones, and then neither for the backlog nor as corrupt:
\* the backlog guard, the capped closing loop and the test of the current epoch
\* agree.  (The bound on blocks must leave room for them.)
BacklogClears ==
    phase = "idle" /\ ~Admitting /\ global.height + Rounds <= MaxHeight ~> Admitting

\* A closed head is never overwritten or lost.
HeadIsPermanent ==
    [][\A e \in DOMAIN heads : e \in DOMAIN heads' /\ heads'[e] = heads[e]]_heads

\* Recovery accepts every committed state.
Recoverable == phase = "idle" => CrossCheck

\* What the interface contract says of a block at time t: all epochs that ended
\* before the epoch of t are closed by it.
AllDueEpochsClose == phase = "prepared" => next.open = EpochAt(next.time)
=============================================================================
