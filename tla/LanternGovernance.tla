-------------------------- MODULE LanternGovernance --------------------------
(***************************************************************************)
(* Governance-authorized replacement of the validator configuration        *)
(* (crates/lantern-types/src/validator.rs): what a valid configuration and *)
(* a valid update are, sign_validator_update by two or three holders, and  *)
(* verify_validator_update against three trusted keys.                     *)
(*                                                                         *)
(* Between the two an update is bytes that anyone may reorder, relabel,    *)
(* drop or mix with those of another update; what nobody does is make the  *)
(* Ed25519 signature of a key over a message without its signing key.      *)
(*                                                                         *)
(* Configuration hashes and the signed message are injective names of what *)
(* they encode.  A signature slot whose key identifier is not that of the  *)
(* signing key verifies under no key, so slots carry one key only.         *)
(***************************************************************************)
EXTENDS Naturals, Sequences, FiniteSets

CONSTANTS
    ConsensusKeys,    \* Ed25519 keys of validators
    AddressOf,        \* the address a consensus key has, ordered as a number
    Networks,         \* valid network identifiers
    GovernanceKeys,   \* Ed25519 keys of governance holders
    Trusted,          \* the three keys a verifier trusts, by signer index
    None,             \* the absent value of an Option
    Payloads,         \* unsigned updates that get proposed or arrive
    SignerLists,      \* the signers calls of sign_validator_update are given
    Labels,           \* signer indices found in updates that arrive
    MaxSignatures     \* bound: signatures made

ValidatorInfos == [address : Nat, key : ConsensusKeys, power : Nat]

\* hash stands for validator_config_hash, so current is what was hashed.
Configs ==
    [network : Networks, epoch : Nat, height : Nat, validators : Seq(ValidatorInfos)]
UnsignedUpdates == [network : Networks, sequence : Nat, current : Configs, replacement : Configs]
Signers == [index : Nat, key : GovernanceKeys]
\* over is the payload the signature in the slot was made over.
Slots == [index : Nat, key : GovernanceKeys, over : UnsignedUpdates]

ASSUME AddressAssumption ==
    /\ AddressOf \in [ConsensusKeys -> Nat]
    /\ \A k, l \in ConsensusKeys : AddressOf[k] = AddressOf[l] => k = l
ASSUME TrustedAssumption ==
    /\ Trusted \in [0..2 -> GovernanceKeys]
    /\ \A i, j \in 0..2 : Trusted[i] = Trusted[j] => i = j
ASSUME PayloadAssumption == Payloads \subseteq UnsignedUpdates
ASSUME SignerAssumption == SignerLists \subseteq Seq(Signers) /\ Labels \subseteq Nat
ASSUME SignatureBoundAssumption == MaxSignatures \in Nat
ASSUME AbsenceAssumption == None \notin [payload : UnsignedUpdates, slots : Seq(Slots)]

VARIABLES
    made,       \* the signatures that exist, as the key and the payload it signed
    answered,   \* the call of sign_validator_update that has just returned, or None
    accepted    \* the update verify_validator_update has just accepted, or None

vars == <<made, answered, accepted>>

Init == made = {} /\ answered = None /\ accepted = None

-----------------------------------------------------------------------------
(* Valid objects: the validate_value functions *)

InfoValid(v) == v.power = 1 /\ v.address = AddressOf[v.key]

Precedes(v, w) == v.power > w.power \/ (v.power = w.power /\ v.address < w.address)

\* Variant: the canonical order of the validators is not checked.
ConfigValidAnyOrder(c) ==
    /\ c.height > 0
    /\ Len(c.validators) = 4
    /\ \A i \in 1..4 : InfoValid(c.validators[i])
    /\ \A i, j \in 1..4 : c.validators[i].key = c.validators[j].key => i = j

ConfigValid(c) ==
    /\ c.height > 0
    /\ Len(c.validators) = 4
    /\ \A i \in 1..4 : InfoValid(c.validators[i])
    /\ \A i \in 1..3 : Precedes(c.validators[i], c.validators[i + 1])
    /\ \A i, j \in 1..4 : c.validators[i].key = c.validators[j].key => i = j

PayloadValid(u) ==
    /\ u.sequence > 0
    /\ ConfigValid(u.replacement)
    /\ u.replacement.network = u.network
    /\ u.replacement # u.current

\* Variant: the signer indices may repeat.
AscendingOrEqual(slots) ==
    \A i \in 1..Len(slots) - 1 : slots[i].index <= slots[i + 1].index

Ascending(slots) == \A i \in 1..Len(slots) - 1 : slots[i].index < slots[i + 1].index

UpdateValid(w) ==
    /\ PayloadValid(w.payload)
    /\ Len(w.slots) \in 2..3
    /\ \A i \in DOMAIN w.slots : w.slots[i].index < 3
    /\ Ascending(w.slots)

-----------------------------------------------------------------------------
(* Signing *)

\* Variant: the signers are taken in the order they were given.
Unsorted(signers) == signers

\* sort_by_key, whatever it does with equal indices: those are refused.
Sorted(signers) ==
    LET Positions == DOMAIN signers
        order == CHOOSE p \in [Positions -> Positions] :
            /\ \A i \in Positions : \E j \in Positions : p[j] = i
            /\ \A i, j \in Positions : i < j => signers[p[i]].index <= signers[p[j]].index
    IN [i \in Positions |-> signers[order[i]]]

\* Each holder signs this payload, in the slot of its index.
SignedUpdate(u, signers) ==
    LET ordered == Sorted(signers) IN
    [payload |-> u,
     slots |-> [i \in DOMAIN ordered |->
                   [index |-> ordered[i].index, key |-> ordered[i].key, over |-> u]]]

\* The checks before the signing and the validation of its result come to this.
Signable(u, signers) == UpdateValid(SignedUpdate(u, signers))

\* Not of the code, which is without state: one call at a time, whose answer is
\* then dropped.
Quiet == answered = None /\ accepted = None

DropAnswer ==
    /\ ~Quiet
    /\ answered' = None /\ accepted' = None
    /\ UNCHANGED made

\* sign_validator_update.
Sign(u, signers) ==
    /\ Signable(u, signers)
    /\ made' = made \cup {<<signers[i].key, u>> : i \in DOMAIN signers}
    /\ Cardinality(made') <= MaxSignatures
    /\ answered' = [payload |-> u, signers |-> signers, update |-> SignedUpdate(u, signers)]
    /\ UNCHANGED accepted

\* It returns an error, and no signature leaves it.
RefuseToSign(u, signers) ==
    /\ ~Signable(u, signers)
    /\ answered' = [payload |-> u, signers |-> signers, update |-> None]
    /\ UNCHANGED <<made, accepted>>

-----------------------------------------------------------------------------
(* Verification *)

\* Each slot is a signature under the key trusted at its index, over the payload.
Verifies(w) ==
    /\ UpdateValid(w)
    /\ \A i \in DOMAIN w.slots :
          /\ w.slots[i].key = Trusted[w.slots[i].index]
          /\ w.slots[i].over = w.payload

\* verify_validator_update accepts an update put together from signatures that
\* exist.  (One it refuses changes nothing.)
Verify(u, slots) ==
    /\ \A i \in DOMAIN slots : <<slots[i].key, slots[i].over>> \in made
    /\ Verifies([payload |-> u, slots |-> slots])
    /\ accepted' = [payload |-> u, slots |-> slots]
    /\ UNCHANGED <<made, answered>>

\* The slots at hand, under any label.
Arriving == {[index |-> l, key |-> m[1], over |-> m[2]] : l \in Labels, m \in made}

Call ==
    \/ \E u \in Payloads, signers \in SignerLists : Sign(u, signers) \/ RefuseToSign(u, signers)
    \/ \E u \in {v \in Payloads : PayloadValid(v)}, n \in 0..3 :
          \E slots \in [1..n -> Arriving] : Verify(u, slots)

Next == (Quiet /\ Call) \/ DropAnswer

Spec == Init /\ [][Next]_vars

-----------------------------------------------------------------------------
(* Properties *)

\* Two of the three trusted holders signed exactly what is accepted, however the
\* slots of several updates were relabelled, repeated or mixed.
QuorumSigned ==
    accepted # None =>
        \E i, j \in 0..2 : /\ Trusted[i] # Trusted[j]
                          /\ <<Trusted[i], accepted.payload>> \in made
                          /\ <<Trusted[j], accepted.payload>> \in made

KeysOf(c) == {c.validators[i].key : i \in DOMAIN c.validators}

\* An accepted update installs four distinct validators and is no rearrangement of
\* the configuration it replaces: the set of keys, the epoch, the activation
\* height or the network changes.
UpdatesReplace ==
    accepted # None =>
        LET old == accepted.payload.current  new == accepted.payload.replacement IN
        /\ Cardinality(KeysOf(new)) = 4
        /\ ConfigValid(old) =>
               \/ KeysOf(new) # KeysOf(old)
               \/ new.epoch # old.epoch \/ new.height # old.height
               \/ new.network # old.network

\* Two or three holders with distinct indices get a valid payload signed in
\* whatever order they are given, nobody else gets one signed, and the update
\* verifies exactly when each holder used the key trusted at its index.
SigningExact ==
    answered # None =>
        LET s == answered.signers IN
        /\ answered.update # None <=>
               /\ PayloadValid(answered.payload)
               /\ Len(s) \in {2, 3}
               /\ \A i \in DOMAIN s : s[i].index \in 0..2
               /\ \A i, j \in DOMAIN s : s[i].index = s[j].index => i = j
        /\ answered.update # None =>
               (Verifies(answered.update) <=> \A i \in DOMAIN s : s[i].key = Trusted[s[i].index])
=============================================================================
