----------------------- MODULE LanternGovernance_proofs -----------------------
(***************************************************************************)
(* Proofs about LanternGovernance, for any keys, payloads and signers: an  *)
(* accepted update has its quorum and replaces the configuration, and      *)
(* signing answers every call exactly as it should.                        *)
(***************************************************************************)
EXTENDS LanternGovernance, FiniteSetTheorems, TLAPS

Updates == [payload : UnsignedUpdates, slots : Seq(Slots)]

\* What is accepted was verified, from signatures that exist.
Checked ==
    /\ made \subseteq GovernanceKeys \X UnsignedUpdates
    /\ accepted # None =>
          /\ accepted \in Updates
          /\ Verifies(accepted)
          /\ \A i \in DOMAIN accepted.slots :
                <<accepted.slots[i].key, accepted.slots[i].over>> \in made

\* Every step preserves it.
LEMMA CheckedStep == ASSUME Checked, [Next]_vars PROVE Checked'
<1>1. ASSUME NEW u \in Payloads, NEW signers \in SignerLists, Sign(u, signers) PROVE Checked'
  <2>1. signers \in Seq(Signers) /\ u \in UnsignedUpdates
    BY SignerAssumption, PayloadAssumption
  <2>2. \A i \in DOMAIN signers : signers[i].key \in GovernanceKeys
    <3>1. \A i \in DOMAIN signers : signers[i] \in Signers
      BY <2>1
    <3> QED
      BY <3>1 DEF Signers
  <2>3. made' \subseteq GovernanceKeys \X UnsignedUpdates /\ made \subseteq made'
    BY <1>1, <2>1, <2>2 DEF Sign, Checked
  <2>4. accepted' = accepted
    BY <1>1 DEF Sign
  <2> QED
    BY <2>3, <2>4 DEF Checked
<1>2. ASSUME UNCHANGED <<made, accepted>> PROVE Checked'
  BY <1>2 DEF Checked
<1>3. ASSUME NEW u \in Payloads, NEW signers \in SignerLists, RefuseToSign(u, signers)
      PROVE  Checked'
  BY <1>2, <1>3 DEF RefuseToSign
<1>4. ASSUME NEW u \in Payloads, NEW n \in 0..3, NEW slots \in [1..n -> Arriving],
             Verify(u, slots)
      PROVE  Checked'
  <2>1. Arriving \subseteq Slots
    BY SignerAssumption DEF Arriving, Slots, Checked
  <2>2. slots \in Seq(Slots)
    BY <2>1
  <2>3. [payload |-> u, slots |-> slots] \in Updates
    BY <2>2, PayloadAssumption DEF Updates
  <2> QED
    BY <1>4, <2>3 DEF Verify, Checked
<1>5. CASE DropAnswer
  BY <1>5 DEF DropAnswer, Checked
<1> QED
  BY <1>1, <1>2, <1>3, <1>4, <1>5 DEF Next, Call, vars

\* What is accepted is always verified, from signatures that exist.
THEOREM AcceptedIsChecked == Spec => []Checked
<1>1. Init => Checked
  BY DEF Init, Checked
<1>2. Checked /\ [Next]_vars => Checked'
  BY CheckedStep
<1> QED
  BY <1>1, <1>2, PTL DEF Spec

\* An accepted update is always signed by two of the three trusted holders.
THEOREM QuorumHolds == Spec => []QuorumSigned
<1>1. Checked => QuorumSigned
  <2> SUFFICES ASSUME Checked, accepted # None
               PROVE  \E i, j \in 0..2 : /\ Trusted[i] # Trusted[j]
                                         /\ <<Trusted[i], accepted.payload>> \in made
                                         /\ <<Trusted[j], accepted.payload>> \in made
    BY DEF QuorumSigned
  <2> DEFINE s == accepted.slots
  <2>1. s \in Seq(Slots) /\ Len(s) \in 2..3 /\ Verifies(accepted)
    BY DEF Checked, Updates, Verifies, UpdateValid
  <2>2. 1 \in DOMAIN s /\ 2 \in DOMAIN s /\ 1 \in 1..Len(s) - 1
    BY <2>1
  <2>3. s[1].index \in 0..2 /\ s[2].index \in 0..2 /\ s[1].index < s[2].index
    <3>1. s[1].index < 3 /\ s[2].index < 3 /\ s[1].index < s[2].index
      BY <2>1, <2>2 DEF Verifies, UpdateValid, Ascending
    <3>2. s[1] \in Slots /\ s[2] \in Slots
      BY <2>1, <2>2
    <3>3. s[1].index \in Nat /\ s[2].index \in Nat
      BY <3>2 DEF Slots
    <3> QED
      BY <3>1, <3>3
  <2>4. /\ <<Trusted[s[1].index], accepted.payload>> \in made
        /\ <<Trusted[s[2].index], accepted.payload>> \in made
    BY <2>1, <2>2 DEF Checked, Verifies
  <2>5. Trusted[s[1].index] # Trusted[s[2].index]
    BY <2>3, TrustedAssumption
  <2> HIDE DEF s
  <2> QED
    BY <2>3, <2>4, <2>5
<1> QED
  BY <1>1, AcceptedIsChecked, PTL

\* The addresses of a valid configuration ascend.
LEMMA AddressesAscend ==
    ASSUME NEW c \in Configs, ConfigValid(c)
    PROVE  /\ c.validators \in Seq(ValidatorInfos) /\ DOMAIN c.validators = 1..4
           /\ \A i \in 1..4 : /\ c.validators[i].key \in ConsensusKeys
                              /\ c.validators[i].power = 1
                              /\ c.validators[i].address = AddressOf[c.validators[i].key]
           /\ \A i \in 1..3 : AddressOf[c.validators[i].key] < AddressOf[c.validators[i + 1].key]
<1>1. c.validators \in Seq(ValidatorInfos) /\ Len(c.validators) = 4
  BY DEF Configs, ConfigValid
<1>2. DOMAIN c.validators = 1..4 /\ \A i \in 1..4 : c.validators[i] \in ValidatorInfos
  BY <1>1
<1>3. \A i \in 1..4 : /\ c.validators[i].key \in ConsensusKeys
                      /\ c.validators[i].power = 1
                      /\ c.validators[i].address = AddressOf[c.validators[i].key]
  BY <1>2 DEF ConfigValid, InfoValid, ValidatorInfos
<1>4. ASSUME NEW i \in 1..3
      PROVE  AddressOf[c.validators[i].key] < AddressOf[c.validators[i + 1].key]
  <2>1. i \in 1..4 /\ i + 1 \in 1..4
    OBVIOUS
  <2>2. Precedes(c.validators[i], c.validators[i + 1])
    BY DEF ConfigValid
  <2> QED
    BY <1>3, <2>1, <2>2 DEF Precedes
<1> QED
  BY <1>1, <1>2, <1>3, <1>4

\* A valid configuration has four keys.
LEMMA FourKeys ==
    ASSUME NEW c \in Configs, ConfigValid(c)
    PROVE  Cardinality(KeysOf(c)) = 4
<1> DEFINE k(i) == c.validators[i].key
<1>1. DOMAIN c.validators = 1..4
  BY AddressesAscend
<1>2. KeysOf(c) = {k(1), k(2), k(3), k(4)}
  <2>1. 1..4 = {1, 2, 3, 4}
    OBVIOUS
  <2> QED
    BY <1>1, <2>1 DEF KeysOf
<1>3. \A i, j \in 1..4 : k(i) = k(j) => i = j
  BY DEF ConfigValid
<1>4. /\ k(1) # k(2) /\ k(1) # k(3) /\ k(1) # k(4)
      /\ k(2) # k(3) /\ k(2) # k(4) /\ k(3) # k(4)
  BY <1>3
<1> HIDE DEF k
<1>5. Cardinality({}) = 0 /\ IsFiniteSet({})
  BY FS_EmptySet
<1>6. IsFiniteSet({k(1)}) /\ Cardinality({k(1)}) = 1
  BY FS_Singleton
<1>7. IsFiniteSet({k(1)} \cup {k(2)}) /\ Cardinality({k(1)} \cup {k(2)}) = 2
  BY <1>4, <1>6, FS_AddElement
<1>8. /\ IsFiniteSet(({k(1)} \cup {k(2)}) \cup {k(3)})
      /\ Cardinality(({k(1)} \cup {k(2)}) \cup {k(3)}) = 3
  BY <1>4, <1>7, FS_AddElement
<1>9. Cardinality((({k(1)} \cup {k(2)}) \cup {k(3)}) \cup {k(4)}) = 4
  BY <1>4, <1>8, FS_AddElement
<1>10. (({k(1)} \cup {k(2)}) \cup {k(3)}) \cup {k(4)} = {k(1), k(2), k(3), k(4)}
  OBVIOUS
<1> QED
  BY <1>2, <1>9, <1>10

\* Valid configurations with the same keys list the same validators: there is one
\* order they can have.
LEMMA OneOrder ==
    ASSUME NEW c \in Configs, NEW d \in Configs, ConfigValid(c), ConfigValid(d),
           KeysOf(c) = KeysOf(d)
    PROVE  c.validators = d.validators
<1> DEFINE a(i) == AddressOf[c.validators[i].key]  b(i) == AddressOf[d.validators[i].key]
<1>1. \A i \in 1..4 : a(i) \in Nat /\ b(i) \in Nat
  BY AddressesAscend, AddressAssumption
<1>2. a(1) < a(2) /\ a(2) < a(3) /\ a(3) < a(4) /\ b(1) < b(2) /\ b(2) < b(3) /\ b(3) < b(4)
  BY AddressesAscend
<1>3. \A i \in 1..4 : \E j \in 1..4 : a(i) = b(j)
  <2> SUFFICES ASSUME NEW i \in 1..4 PROVE \E j \in 1..4 : a(i) = b(j)
    OBVIOUS
  <2>1. c.validators[i].key \in KeysOf(d)
    BY AddressesAscend DEF KeysOf
  <2>2. PICK j \in 1..4 : c.validators[i].key = d.validators[j].key
    BY <2>1, AddressesAscend DEF KeysOf
  <2> QED
    BY <2>2
<1>4. \A j \in 1..4 : \E i \in 1..4 : b(j) = a(i)
  <2> SUFFICES ASSUME NEW j \in 1..4 PROVE \E i \in 1..4 : b(j) = a(i)
    OBVIOUS
  <2>1. d.validators[j].key \in KeysOf(c)
    BY AddressesAscend DEF KeysOf
  <2>2. PICK i \in 1..4 : d.validators[j].key = c.validators[i].key
    BY <2>1, AddressesAscend DEF KeysOf
  <2> QED
    BY <2>2
<1>5. a(1) = b(1) /\ a(2) = b(2) /\ a(3) = b(3) /\ a(4) = b(4)
  <2> HIDE DEF a, b
  <2>1. 1..4 = {1, 2, 3, 4}
    OBVIOUS
  <2> QED
    BY <1>1, <1>2, <1>3, <1>4, <2>1
<1>6. \A i \in 1..4 : a(i) = b(i)
  BY <1>5
<1>7. ASSUME NEW i \in 1..4 PROVE c.validators[i] = d.validators[i]
  <2>1. c.validators[i].key = d.validators[i].key
    BY <1>6, AddressesAscend, AddressAssumption
  <2> DEFINE v == c.validators[i]  w == d.validators[i]
  <2>2. v \in ValidatorInfos /\ w \in ValidatorInfos
    BY AddressesAscend
  <2>3. v.key = w.key /\ v.power = w.power /\ v.address = w.address
    BY <2>1, AddressesAscend
  <2> HIDE DEF v, w
  <2>4. v = w
    BY <2>2, <2>3 DEF ValidatorInfos
  <2> QED
    BY <2>4 DEF v, w
<1> QED
  BY <1>7, AddressesAscend

\* An accepted update always installs four distinct validators and never merely
\* rearranges the configuration it replaces.
THEOREM ReplacementHolds == Spec => []UpdatesReplace
<1>1. Checked => UpdatesReplace
  <2> SUFFICES ASSUME Checked, accepted # None PROVE UpdatesReplace
    BY DEF UpdatesReplace
  <2> DEFINE old == accepted.payload.current  new == accepted.payload.replacement
  <2>1. old \in Configs /\ new \in Configs
    BY DEF Checked, Updates, UnsignedUpdates
  <2>2. ConfigValid(new) /\ new # old
    BY DEF Checked, Verifies, UpdateValid, PayloadValid
  <2> HIDE DEF old, new
  <2>3. Cardinality(KeysOf(new)) = 4
    BY <2>1, <2>2, FourKeys
  <2>4. ASSUME ConfigValid(old), KeysOf(new) = KeysOf(old), new.epoch = old.epoch,
               new.height = old.height, new.network = old.network
        PROVE  FALSE
    <3>1. new.validators = old.validators
      BY <2>1, <2>2, <2>4, OneOrder
    <3> QED
      BY <2>1, <2>2, <2>4, <3>1 DEF Configs
  <2> QED
    BY <2>3, <2>4 DEF UpdatesReplace, old, new
<1> QED
  BY <1>1, AcceptedIsChecked, PTL

-----------------------------------------------------------------------------
(* Signing *)

\* Two or three numbers can be put in order.
LEMMA TwoInOrder ==
    ASSUME NEW n \in [1..2 -> Nat]
    PROVE  \E a, b \in 1..2 : a # b /\ n[a] <= n[b]
<1>1. n[1] \in Nat /\ n[2] \in Nat
  OBVIOUS
<1>2. CASE n[1] <= n[2]
  BY <1>2
<1>3. CASE n[2] <= n[1]
  BY <1>3
<1> QED
  BY <1>1, <1>2, <1>3

LEMMA ThreeInOrder ==
    ASSUME NEW n \in [1..3 -> Nat]
    PROVE  \E a, b, c \in 1..3 : a # b /\ a # c /\ b # c /\ n[a] <= n[b] /\ n[b] <= n[c]
<1>1. n[1] \in Nat /\ n[2] \in Nat /\ n[3] \in Nat
  OBVIOUS
<1>2. ASSUME NEW a \in 1..3, NEW b \in 1..3, NEW c \in 1..3,
             a # b, a # c, b # c, n[a] <= n[b], n[b] <= n[c]
      PROVE  \E x, y, z \in 1..3 : x # y /\ x # z /\ y # z /\ n[x] <= n[y] /\ n[y] <= n[z]
  BY <1>2
<1>3. CASE n[1] <= n[2] /\ n[2] <= n[3]
  BY <1>2, <1>3
<1>4. CASE n[1] <= n[3] /\ n[3] <= n[2]
  BY <1>2, <1>4
<1>5. CASE n[2] <= n[1] /\ n[1] <= n[3]
  BY <1>2, <1>5
<1>6. CASE n[2] <= n[3] /\ n[3] <= n[1]
  BY <1>2, <1>6
<1>7. CASE n[3] <= n[1] /\ n[1] <= n[2]
  BY <1>2, <1>7
<1>8. CASE n[3] <= n[2] /\ n[2] <= n[1]
  BY <1>2, <1>8
<1> QED
  BY <1>1, <1>3, <1>4, <1>5, <1>6, <1>7, <1>8

\* The fields of signers.
LEMMA SignerFields ==
    ASSUME NEW s \in Seq(Signers)
    PROVE  /\ DOMAIN s = 1..Len(s) /\ Len(s) \in Nat
           /\ \A i \in DOMAIN s : s[i].index \in Nat /\ s[i].key \in GovernanceKeys
<1>1. \A i \in DOMAIN s : s[i] \in Signers
  OBVIOUS
<1>2. \A i \in DOMAIN s : s[i].index \in Nat /\ s[i].key \in GovernanceKeys
  BY <1>1 DEF Signers
<1> QED
  BY <1>2

Ordering(s, p) ==
    /\ p \in [DOMAIN s -> DOMAIN s]
    /\ \A i \in DOMAIN s : \E j \in DOMAIN s : p[j] = i
    /\ \A i, j \in DOMAIN s : i < j => s[p[i]].index <= s[p[j]].index

\* Two or three signers can be put in the order of their indices.
LEMMA OrderingExists ==
    ASSUME NEW s \in Seq(Signers), Len(s) \in {2, 3}
    PROVE  \E p : Ordering(s, p)
<1> DEFINE n == [i \in DOMAIN s |-> s[i].index]
<1>1. /\ DOMAIN s = 1..Len(s)
      /\ \A i \in DOMAIN s : n[i] = s[i].index /\ s[i].index \in Nat
  BY SignerFields
<1>2. n \in [1..Len(s) -> Nat]
  BY <1>1
<1> HIDE DEF n
<1>3. CASE Len(s) = 2
  <2>1. PICK a, b \in 1..2 : a # b /\ n[a] <= n[b]
    BY <1>2, <1>3, TwoInOrder
  <2> DEFINE p == [i \in 1..2 |-> IF i = 1 THEN a ELSE b]
  <2>2. DOMAIN s = 1..2 /\ p \in [1..2 -> 1..2] /\ p[1] = a /\ p[2] = b
    BY <1>1, <1>3
  <2> HIDE DEF p
  <2>3. \A i \in 1..2 : i = 1 \/ i = 2
    OBVIOUS
  <2>4. \A i \in 1..2 : \E j \in 1..2 : p[j] = i
    BY <2>1, <2>2, <2>3
  <2>5. \A i, j \in 1..2 : i < j => s[p[i]].index <= s[p[j]].index
    BY <1>1, <2>1, <2>2, <2>3
  <2> QED
    BY <2>2, <2>4, <2>5 DEF Ordering
<1>4. CASE Len(s) = 3
  <2>1. PICK a, b, c \in 1..3 :
            a # b /\ a # c /\ b # c /\ n[a] <= n[b] /\ n[b] <= n[c]
    BY <1>2, <1>4, ThreeInOrder
  <2> DEFINE p == [i \in 1..3 |-> IF i = 1 THEN a ELSE IF i = 2 THEN b ELSE c]
  <2>2. DOMAIN s = 1..3 /\ p \in [1..3 -> 1..3] /\ p[1] = a /\ p[2] = b /\ p[3] = c
    BY <1>1, <1>4
  <2> HIDE DEF p
  <2>3. \A i \in 1..3 : i = 1 \/ i = 2 \/ i = 3
    OBVIOUS
  <2>4. \A i \in 1..3 : \E j \in 1..3 : p[j] = i
    BY <2>1, <2>2, <2>3
  <2>5. /\ s[a].index <= s[b].index /\ s[b].index <= s[c].index
        /\ s[a].index \in Nat /\ s[b].index \in Nat /\ s[c].index \in Nat
    BY <1>1, <2>1, <2>2
  <2>6. \A i, j \in 1..3 : i < j => s[p[i]].index <= s[p[j]].index
    <3>1. s[a].index <= s[c].index
      BY <2>5
    <3>2. \A i, j \in 1..3 : i < j =>
              (i = 1 /\ j = 2) \/ (i = 1 /\ j = 3) \/ (i = 2 /\ j = 3)
      OBVIOUS
    <3> QED
      BY <2>2, <2>5, <3>1, <3>2
  <2> QED
    BY <2>2, <2>4, <2>6 DEF Ordering
<1> QED
  BY <1>3, <1>4

\* The signed update lists the signers in such an order.
LEMMA SignedSlots ==
    ASSUME NEW s \in Seq(Signers), Len(s) \in {2, 3}, NEW u
    PROVE  \E p : /\ Ordering(s, p)
                  /\ SignedUpdate(u, s) =
                         [payload |-> u,
                          slots |-> [i \in DOMAIN s |->
                                        [index |-> s[p[i]].index, key |-> s[p[i]].key,
                                         over |-> u]]]
<1> DEFINE p == CHOOSE p \in [DOMAIN s -> DOMAIN s] :
                    /\ \A i \in DOMAIN s : \E j \in DOMAIN s : p[j] = i
                    /\ \A i, j \in DOMAIN s : i < j => s[p[i]].index <= s[p[j]].index
<1>1. Ordering(s, p)
  <2>1. \E q \in [DOMAIN s -> DOMAIN s] :
            /\ \A i \in DOMAIN s : \E j \in DOMAIN s : q[j] = i
            /\ \A i, j \in DOMAIN s : i < j => s[q[i]].index <= s[q[j]].index
    BY OrderingExists DEF Ordering
  <2> QED
    BY <2>1 DEF Ordering
<1>2. Sorted(s) = [i \in DOMAIN s |-> s[p[i]]]
  BY DEF Sorted
<1> HIDE DEF p
<1>3. SignedUpdate(u, s).slots =
          [i \in DOMAIN s |-> [index |-> s[p[i]].index, key |-> s[p[i]].key, over |-> u]]
  BY <1>2 DEF SignedUpdate
<1> QED
  BY <1>1, <1>3 DEF SignedUpdate

\* Whatever the order, there is a slot for each signer.
LEMMA SlotCount ==
    ASSUME NEW s \in Seq(Signers), NEW u
    PROVE  /\ SignedUpdate(u, s).payload = u
           /\ DOMAIN SignedUpdate(u, s).slots = 1..Len(s)
           /\ Len(SignedUpdate(u, s).slots) = Len(s)
<1>1. DOMAIN s = 1..Len(s) /\ Len(s) \in Nat
  OBVIOUS
<1>2. DOMAIN Sorted(s) = DOMAIN s
  BY DEF Sorted
<1>3. DOMAIN SignedUpdate(u, s).slots = 1..Len(s)
  BY <1>1, <1>2 DEF SignedUpdate
<1>4. SignedUpdate(u, s).slots = [i \in 1..Len(s) |-> SignedUpdate(u, s).slots[i]]
  BY <1>1, <1>2 DEF SignedUpdate
<1>5. Len(SignedUpdate(u, s).slots) = Len(s)
  BY <1>1, <1>3, <1>4
<1> QED
  BY <1>3, <1>5 DEF SignedUpdate

Indexed(s) ==
    /\ Len(s) \in {2, 3}
    /\ \A i \in DOMAIN s : s[i].index \in 0..2
    /\ \A i, j \in DOMAIN s : s[i].index = s[j].index => i = j

\* Two or three holders with distinct indices get a valid payload signed, and
\* nobody else.
LEMMA SignableExact ==
    ASSUME NEW s \in Seq(Signers), NEW u
    PROVE  Signable(u, s) <=> PayloadValid(u) /\ Indexed(s)
<1> DEFINE w == SignedUpdate(u, s)
<1>1. w.payload = u /\ DOMAIN w.slots = 1..Len(s) /\ Len(w.slots) = Len(s) /\ Len(s) \in Nat
  BY SlotCount
<1>2. DOMAIN s = 1..Len(s) /\ \A i \in DOMAIN s : s[i].index \in Nat
  BY SignerFields
<1>3. CASE Len(s) \in {2, 3}
  <2>1. PICK p : /\ Ordering(s, p)
                 /\ w = [payload |-> u,
                         slots |-> [i \in DOMAIN s |->
                                       [index |-> s[p[i]].index, key |-> s[p[i]].key,
                                        over |-> u]]]
    BY <1>3, SignedSlots
  <2>2. \A i \in DOMAIN s : w.slots[i].index = s[p[i]].index
    BY <2>1
  <2> HIDE DEF w
  <2>3. /\ \A i \in DOMAIN s : p[i] \in DOMAIN s
        /\ \A i \in DOMAIN s : \E j \in DOMAIN s : p[j] = i
        /\ \A i, j \in DOMAIN s : i < j => s[p[i]].index <= s[p[j]].index
    BY <2>1 DEF Ordering
  <2>4. (\A i \in DOMAIN w.slots : w.slots[i].index < 3) <=> \A i \in DOMAIN s : s[i].index \in 0..2
    <3>1. ASSUME \A i \in DOMAIN w.slots : w.slots[i].index < 3, NEW i \in DOMAIN s
          PROVE  s[i].index \in 0..2
      <4>1. PICK j \in DOMAIN s : p[j] = i
        BY <2>3
      <4>2. s[i].index < 3 /\ s[i].index \in Nat
        BY <1>1, <1>2, <2>2, <3>1, <4>1
      <4> QED
        BY <4>2
    <3>2. ASSUME \A i \in DOMAIN s : s[i].index \in 0..2, NEW i \in DOMAIN w.slots
          PROVE  w.slots[i].index < 3
      <4>1. w.slots[i].index \in 0..2
        BY <1>1, <1>2, <2>2, <2>3, <3>2
      <4> QED
        BY <4>1
    <3> QED
      BY <3>1, <3>2
  <2>5. ASSUME Ascending(w.slots), NEW i \in DOMAIN s, NEW j \in DOMAIN s,
               s[i].index = s[j].index
        PROVE  i = j
    <3>1. PICK a \in DOMAIN s : p[a] = i
      BY <2>3
    <3>2. PICK b \in DOMAIN s : p[b] = j
      BY <2>3
    <3>3. \A x, y \in DOMAIN s : x < y => w.slots[x].index < w.slots[y].index
      <4>1. \A x \in 1..Len(s) - 1 : w.slots[x].index < w.slots[x + 1].index
        BY <1>1, <2>5 DEF Ascending
      <4>2. \A x \in DOMAIN s : w.slots[x].index \in Nat
        BY <1>2, <2>2, <2>3
      <4>3. CASE Len(s) = 2
        <5>1. w.slots[1].index < w.slots[2].index
          BY <4>1, <4>3
        <5>2. \A x, y \in DOMAIN s : x < y => x = 1 /\ y = 2
          BY <1>2, <4>3
        <5> QED
          BY <5>1, <5>2
      <4>4. CASE Len(s) = 3
        <5>1. w.slots[1].index < w.slots[2].index /\ w.slots[2].index < w.slots[3].index
          BY <4>1, <4>4
        <5>2. \A x, y \in DOMAIN s : x < y =>
                  (x = 1 /\ y = 2) \/ (x = 1 /\ y = 3) \/ (x = 2 /\ y = 3)
          BY <1>2, <4>4
        <5>3. w.slots[1].index < w.slots[3].index
          <6>1. 1 \in DOMAIN s /\ 2 \in DOMAIN s /\ 3 \in DOMAIN s
            BY <1>2, <4>4
          <6> QED
            BY <4>2, <5>1, <6>1
        <5> QED
          BY <5>1, <5>2, <5>3
      <4> QED
        BY <1>3, <4>3, <4>4
    <3>4. w.slots[a].index = w.slots[b].index /\ w.slots[a].index \in Nat
      BY <1>2, <2>2, <2>5, <3>1, <3>2
    <3>5. ~(a < b) /\ ~(b < a)
      BY <3>3, <3>4
    <3>6. a \in Int /\ b \in Int
      BY <1>2
    <3>7. a = b
      BY <3>5, <3>6
    <3> QED
      BY <3>1, <3>2, <3>7
  <2>6. ASSUME \A i, j \in DOMAIN s : s[i].index = s[j].index => i = j
        PROVE  Ascending(w.slots)
    <3> SUFFICES ASSUME NEW i \in 1..Len(s) - 1
                 PROVE  w.slots[i].index < w.slots[i + 1].index
      BY <1>1 DEF Ascending
    <3>1. i \in DOMAIN s /\ i + 1 \in DOMAIN s /\ i < i + 1 /\ i # i + 1
      BY <1>1, <1>2
    <3>2. p[i] # p[i + 1]
      <4>1. \A a, b \in DOMAIN s : p[a] = p[b] => a = b
        <5>1. CASE Len(s) = 2
          <6>1. DOMAIN s = {1, 2}
            BY <1>2, <5>1
          <6> QED
            BY <2>3, <6>1
        <5>2. CASE Len(s) = 3
          <6>1. DOMAIN s = {1, 2, 3}
            BY <1>2, <5>2
          <6> QED
            BY <2>3, <6>1
        <5> QED
          BY <1>3, <5>1, <5>2
      <4> QED
        BY <3>1, <4>1
    <3>3. s[p[i]].index <= s[p[i + 1]].index /\ s[p[i]].index # s[p[i + 1]].index
      BY <2>3, <2>6, <3>1, <3>2
    <3>4. s[p[i]].index \in Nat /\ s[p[i + 1]].index \in Nat
      BY <1>2, <2>3, <3>1
    <3>5. w.slots[i].index = s[p[i]].index /\ w.slots[i + 1].index = s[p[i + 1]].index
      BY <2>2, <3>1
    <3> QED
      BY <3>3, <3>4, <3>5
  <2>7. UpdateValid(w) <=> PayloadValid(u) /\ Indexed(s)
    <3>1. Len(w.slots) \in 2..3
      BY <1>1, <1>3
    <3> QED
      BY <1>1, <1>3, <2>4, <2>5, <2>6, <3>1 DEF UpdateValid, Indexed
  <2> QED
    BY <2>7 DEF Signable, w
<1>4. CASE Len(s) \notin {2, 3}
  <2>1. Len(w.slots) \notin 2..3
    BY <1>1, <1>4
  <2> QED
    BY <1>4, <2>1 DEF Signable, UpdateValid, Indexed
<1> QED
  BY <1>3, <1>4

\* A signed update is an update, and it verifies exactly when each holder used the
\* key trusted at its index.
LEMMA SignedVerifies ==
    ASSUME NEW s \in Seq(Signers), NEW u \in UnsignedUpdates, Signable(u, s)
    PROVE  /\ SignedUpdate(u, s) \in Updates
           /\ Verifies(SignedUpdate(u, s)) <=> \A i \in DOMAIN s : s[i].key = Trusted[s[i].index]
<1> DEFINE w == SignedUpdate(u, s)
<1>1. Len(s) \in {2, 3}
  BY SignableExact DEF Indexed
<1>2. PICK p : /\ Ordering(s, p)
               /\ w = [payload |-> u,
                       slots |-> [i \in DOMAIN s |->
                                     [index |-> s[p[i]].index, key |-> s[p[i]].key, over |-> u]]]
  BY <1>1, SignedSlots
<1>3. /\ DOMAIN s = 1..Len(s) /\ Len(s) \in Nat
      /\ \A i \in DOMAIN s : s[i].index \in Nat /\ s[i].key \in GovernanceKeys
  BY SignerFields
<1>4. /\ \A i \in DOMAIN s : p[i] \in DOMAIN s
      /\ \A i \in DOMAIN s : \E j \in DOMAIN s : p[j] = i
  BY <1>2 DEF Ordering
<1>5. /\ DOMAIN w.slots = DOMAIN s
      /\ \A i \in DOMAIN s : w.slots[i] = [index |-> s[p[i]].index, key |-> s[p[i]].key, over |-> u]
  BY <1>2
<1>6. w.payload = u /\ UpdateValid(w)
  BY <1>2 DEF Signable
<1>7. w \in Updates
  <2>1. \A i \in DOMAIN s : [index |-> s[p[i]].index, key |-> s[p[i]].key, over |-> u] \in Slots
    BY <1>3, <1>4 DEF Slots
  <2>2. [i \in DOMAIN s |-> [index |-> s[p[i]].index, key |-> s[p[i]].key, over |-> u]]
            \in Seq(Slots)
    BY <1>3, <2>1
  <2> HIDE DEF w
  <2> QED
    BY <1>2, <2>2 DEF Updates
<1> HIDE DEF w
<1>8. Verifies(w) <=> \A i \in DOMAIN s : s[p[i]].key = Trusted[s[p[i]].index]
  <2>1. \A i \in DOMAIN s : /\ w.slots[i].index = s[p[i]].index
                             /\ w.slots[i].key = s[p[i]].key /\ w.slots[i].over = u
    <3> SUFFICES ASSUME NEW i \in DOMAIN s
                 PROVE  /\ w.slots[i].index = s[p[i]].index
                        /\ w.slots[i].key = s[p[i]].key /\ w.slots[i].over = u
      OBVIOUS
    <3> DEFINE r == w.slots[i]
    <3>1. r = [index |-> s[p[i]].index, key |-> s[p[i]].key, over |-> u]
      BY <1>5
    <3> HIDE DEF r
    <3>2. r.index = s[p[i]].index /\ r.key = s[p[i]].key /\ r.over = u
      BY <3>1
    <3> QED
      BY <3>2 DEF r
  <2> QED
    BY <1>5, <1>6, <2>1 DEF Verifies
<1>9. (\A i \in DOMAIN s : s[p[i]].key = Trusted[s[p[i]].index])
          <=> \A i \in DOMAIN s : s[i].key = Trusted[s[i].index]
  BY <1>4
<1> QED
  BY <1>7, <1>8, <1>9 DEF w

\* An answer is that of a call that was made.
Answered ==
    answered # None =>
        \E u \in Payloads, s \in SignerLists :
            answered = [payload |-> u, signers |-> s,
                        update |-> IF Signable(u, s) THEN SignedUpdate(u, s) ELSE None]

\* The answer is always that of a call that was made.
THEOREM AnswersAreOfCalls == Spec => []Answered
<1>1. Init => Answered
  BY DEF Init, Answered
<1>2. Answered /\ [Next]_vars => Answered'
  <2> SUFFICES ASSUME Answered, [Next]_vars PROVE Answered'
    OBVIOUS
  <2>1. ASSUME NEW u \in Payloads, NEW s \in SignerLists, Sign(u, s) PROVE Answered'
    BY <2>1 DEF Sign, Answered
  <2>2. ASSUME NEW u \in Payloads, NEW s \in SignerLists, RefuseToSign(u, s) PROVE Answered'
    BY <2>2 DEF RefuseToSign, Answered
  <2>3. ASSUME answered' = answered PROVE Answered'
    BY <2>3 DEF Answered
  <2>4. ASSUME answered' = None PROVE Answered'
    BY <2>4 DEF Answered
  <2> QED
    BY <2>1, <2>2, <2>3, <2>4 DEF Next, Call, Verify, DropAnswer, vars
<1> QED
  BY <1>1, <1>2, PTL DEF Spec

\* Two or three holders with distinct indices always get a valid payload signed,
\* nobody else gets one signed, and the update verifies exactly when each holder
\* used the key trusted at its index.
THEOREM SigningIsExact == Spec => []SigningExact
<1>1. Answered => SigningExact
  <2> SUFFICES ASSUME Answered, answered # None PROVE SigningExact
    BY DEF SigningExact
  <2>1. PICK u \in Payloads, s \in SignerLists :
            answered = [payload |-> u, signers |-> s,
                        update |-> IF Signable(u, s) THEN SignedUpdate(u, s) ELSE None]
    BY DEF Answered
  <2>2. u \in UnsignedUpdates /\ s \in Seq(Signers)
    BY PayloadAssumption, SignerAssumption
  <2>3. /\ answered.payload = u /\ answered.signers = s
        /\ answered.update = IF Signable(u, s) THEN SignedUpdate(u, s) ELSE None
    BY <2>1
  <2>4. Signable(u, s) => SignedUpdate(u, s) # None
    BY <2>2, SignedVerifies, AbsenceAssumption DEF Updates
  <2>5. answered.update # None <=> PayloadValid(u) /\ Indexed(s)
    BY <2>2, <2>3, <2>4, SignableExact
  <2>6. answered.update # None =>
            (Verifies(answered.update) <=> \A i \in DOMAIN s : s[i].key = Trusted[s[i].index])
    BY <2>2, <2>3, SignedVerifies
  <2> QED
    BY <2>3, <2>5, <2>6 DEF SigningExact, Indexed
<1> QED
  BY <1>1, AnswersAreOfCalls, PTL
=============================================================================
