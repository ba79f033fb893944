------------------------ MODULE LanternEpochs_proofs ------------------------
(***************************************************************************)
(* The proofs about epochs and heads, for every value of the constants:    *)
(* heads form a permanent chain over all closed epochs, each commits to    *)
(* exactly the history of its epoch, and the running totals agree with the *)
(* history at every step.                                                  *)
(*                                                                         *)
(* One statement, Kept(H, L, A, G), says how heads H, a log L, the live    *)
(* CAs A and a persistent state G belong together.  It holds of the        *)
(* committed store and of what the block being prepared would make of it,  *)
(* so a commit has nothing left to establish.                              *)
(***************************************************************************)
EXTENDS LanternState_proofs, FiniteSetTheorems

-----------------------------------------------------------------------------
(* The invariant *)

\* The heads are those of the closed epochs, linked, and issued in order.
Chain(H, G) ==
    /\ DOMAIN H = 0..(G.open - 1)
    /\ \A e \in DOMAIN H :
          /\ H[e] \in Heads
          /\ H[e].epoch = e
          /\ H[e].previous = IF e = 0 THEN None ELSE e - 1
          /\ EpochEnd(e) <= H[e].issued_at /\ H[e].issued_at <= G.time
          /\ e > 0 => H[e - 1].issued_at <= H[e].issued_at
    /\ G.last_closed = IF G.open = 0 THEN None ELSE G.open - 1

\* The CAs with a record among the first n of the log.
Registered(L, n) == {L[i].ca : i \in 1..n}

Listed(L, from, to) == [i \in 1..(to - from) |-> L[from + i].authorization]

\* The records are in epoch order and the totals are those of the open epoch.
Tallied(L, A, G) ==
    /\ G.length = Len(L)
    /\ G.admitted <= Len(L)
    /\ \A i \in 1..Len(L) :
          /\ L[i].epoch <= G.open
          /\ L[i].epoch = G.open <=> i > Len(L) - G.admitted
    /\ \A i, j \in 1..Len(L) : i < j => L[i].epoch <= L[j].epoch
    /\ G.bundle = Listed(L, Len(L) - G.admitted, Len(L))
    /\ A = Registered(L, Len(L))
    /\ IsFiniteSet(A)
    /\ G.entries = Cardinality(A)
    /\ G.entries <= Len(L)

Before(H, e) == IF e = 0 THEN 0 ELSE H[e - 1].history_length

\* Each head commits to the history up to the end of its epoch.
Committing(H, L) ==
    \A e \in DOMAIN H :
        LET n == H[e].history_length IN
        /\ n \in 0..Len(L)
        /\ \A i \in 1..Len(L) : L[i].epoch <= e <=> i <= n
        /\ H[e].bundle = Listed(L, Before(H, e), n)
        /\ H[e].entries = Cardinality(Registered(L, n))

Kept(H, L, A, G) == Chain(H, G) /\ Tallied(L, A, G) /\ Committing(H, L)

\* The heads a block adds, by their epochs.
Heading(cl) ==
    [e \in {cl[i].epoch : i \in DOMAIN cl} |->
        cl[CHOOSE i \in DOMAIN cl : cl[i].epoch = e]]

\* They are those of the epochs from o on.
From(cl, o) == cl \in Seq(Heads) /\ \A i \in DOMAIN cl : cl[i].epoch = o + i - 1

Registry == {c \in CAs : caState[c] # None}
StagedRegistry == {c \in CAs : CaView(c) # None}

EpochInv ==
    /\ phase = "idle" => closed = <<>> /\ accepted = <<>> /\ caUpdates = EmptyMap
    /\ From(closed, global.open)
    /\ Kept(heads, records, Registry, global)
    /\ phase # "idle" => Kept(Over(heads, Heading(closed)), Log, StagedRegistry, next)

-----------------------------------------------------------------------------
(* Heads *)

\* A block that closes the epochs from o on adds their heads and keeps the rest.
LEMMA HeadingOver ==
    ASSUME NEW H, NEW o \in Nat, DOMAIN H = 0..(o - 1),
           NEW cl, From(cl, o)
    PROVE  /\ DOMAIN Over(H, Heading(cl)) = 0..(o + Len(cl) - 1)
           /\ \A e \in 0..(o - 1) : Over(H, Heading(cl))[e] = H[e]
           /\ \A i \in 1..Len(cl) : Over(H, Heading(cl))[o + i - 1] = cl[i]
<1> DEFINE W == Heading(cl)
<1>0. cl \in Seq(Heads) /\ \A i \in DOMAIN cl : cl[i].epoch = o + i - 1
  BY DEF From
<1>1. DOMAIN cl = 1..Len(cl) /\ Len(cl) \in Nat
  BY <1>0
<1>2. DOMAIN W = {cl[i].epoch : i \in DOMAIN cl}
  BY DEF Heading
<1>3. \A e : e \in DOMAIN W <=> e \in o..(o + Len(cl) - 1)
  <2>1. ASSUME NEW e \in DOMAIN W PROVE e \in o..(o + Len(cl) - 1)
    <3>1. PICK i \in DOMAIN cl : e = cl[i].epoch
      BY <1>2, <2>1
    <3> QED
      BY <1>0, <1>1, <3>1
  <2>2. ASSUME NEW e \in o..(o + Len(cl) - 1) PROVE e \in DOMAIN W
    <3>1. e - o + 1 \in DOMAIN cl /\ cl[e - o + 1].epoch = e
      BY <1>0, <1>1
    <3> QED
      BY <1>2, <3>1
  <2> QED
    BY <2>1, <2>2
<1>4. ASSUME NEW i \in 1..Len(cl) PROVE W[o + i - 1] = cl[i]
  <2>1. i \in DOMAIN cl /\ cl[i].epoch = o + i - 1
    BY <1>0, <1>1
  <2>2. \A j \in DOMAIN cl : cl[j].epoch = o + i - 1 => j = i
    BY <1>0, <1>1, <2>1
  <2>3. (CHOOSE j \in DOMAIN cl : cl[j].epoch = o + i - 1) = i
    BY <2>1, <2>2
  <2>4. o + i - 1 \in DOMAIN W
    <3>1. o + i - 1 \in o..(o + Len(cl) - 1)
      BY <1>1
    <3> QED
      BY <1>3, <3>1
  <2> QED
    BY <1>2, <2>3, <2>4 DEF Heading
<1> HIDE DEF W
<1>5. DOMAIN Over(H, W) = DOMAIN H \cup DOMAIN W
  BY DEF Over
<1>6. \A e : e \in DOMAIN Over(H, W) <=> e \in 0..(o + Len(cl) - 1)
  BY <1>1, <1>3, <1>5
<1>7. DOMAIN Over(H, W) = 0..(o + Len(cl) - 1)
  BY <1>6
<1>8. \A e \in 0..(o - 1) : Over(H, W)[e] = H[e]
  BY <1>3 DEF Over
<1>9. \A i \in 1..Len(cl) : Over(H, W)[o + i - 1] = cl[i]
  BY <1>1, <1>3, <1>4 DEF Over
<1> QED
  BY <1>7, <1>8, <1>9 DEF W

\* A block that closes no epoch changes no head.
LEMMA NoHeading ==
    ASSUME NEW H, NEW o \in Nat, H = [e \in 0..(o - 1) |-> H[e]]
    PROVE  Over(H, Heading(<<>>)) = H
<1>1. DOMAIN Heading(<<>>) = {}
  BY DEF Heading
<1> QED
  BY <1>1 DEF Over

\* An epoch that is over has ended.
LEMMA EndedEpoch ==
    ASSUME NEW t \in Nat, NEW e \in Nat, e < EpochAt(t)
    PROVE  EpochEnd(e) <= t
<1>1. Delta \in Nat \ {0}
  BY EpochAssumption
<1> DEFINE q == t \div Delta  m == e + 1
<1>2. q \in Nat /\ m \in Nat /\ m <= q
  BY <1>1 DEF EpochAt
<1>3. q * Delta <= t
  BY <1>1
<1> HIDE DEF q
<1>4. m * Delta <= q * Delta
  <2>1. q - m \in Nat
    BY <1>2
  <2>2. (q - m) * Delta \in Nat
    BY <1>1, <2>1
  <2>3. q * Delta = m * Delta + (q - m) * Delta
    BY <1>1, <1>2
  <2>4. m * Delta \in Nat
    BY <1>1, <1>2
  <2> QED
    BY <2>2, <2>3, <2>4
<1>5. q * Delta \in Nat /\ m * Delta \in Nat
  BY <1>1, <1>2
<1> QED
  BY <1>3, <1>4, <1>5 DEF EpochEnd

\* What opening a block at time t makes of the persistent state.
LEMMA OpenedFacts ==
    ASSUME TypeOK, NEW t \in Nat
    PROVE  /\ Opened(t).open = global.open + CloseCount(t)
           /\ Opened(t).time = t /\ Opened(t).length = global.length
           /\ Opened(t).entries = global.entries
           /\ CloseCount(t) = 0 =>
                 /\ Opened(t).last_closed = global.last_closed
                 /\ Opened(t).admitted = global.admitted
                 /\ Opened(t).bundle = global.bundle
           /\ CloseCount(t) # 0 =>
                 /\ Opened(t).last_closed = global.open + CloseCount(t) - 1
                 /\ Opened(t).admitted = 0 /\ Opened(t).bundle = <<>>
<1>1. global \in Persistents /\ CloseCount(t) \in Nat
  BY EpochType DEF TypeOK
<1>2. CASE CloseCount(t) = 0
  BY <1>1, <1>2 DEF Opened, Persistents
<1>3. CASE CloseCount(t) # 0
  BY <1>1, <1>3 DEF Opened, Persistents
<1> QED
  BY <1>2, <1>3

\* The heads a block at time t closes follow those there are.
LEMMA ClosedHeadsFacts ==
    ASSUME TypeOK, NEW t \in Nat
    PROVE  /\ From(ClosedHeads(t), global.open) /\ Len(ClosedHeads(t)) = CloseCount(t)
           /\ \A i \in 1..CloseCount(t) : ClosedHeads(t)[i] = ClosingHead(t, i)
<1>1. CloseCount(t) \in Nat
  BY EpochType
<1>2. \A i \in 1..CloseCount(t) : ClosingHead(t, i) \in Heads
  BY ClosingHeadType
<1>3. \A i \in 1..CloseCount(t) : ClosingHead(t, i).epoch = global.open + i - 1
  BY DEF ClosingHead
<1> QED
  BY <1>1, <1>2, <1>3 DEF ClosedHeads, From

\* What is in the i-th head a block closes.
LEMMA ClosingHeadFields ==
    ASSUME TypeOK, NEW t \in Nat, NEW i \in Nat
    PROVE  /\ ClosingHead(t, i).epoch = global.open + i - 1
           /\ ClosingHead(t, i).issued_at = t
           /\ ClosingHead(t, i).history_length = global.length
           /\ ClosingHead(t, i).entries = global.entries
           /\ i = 1 => /\ ClosingHead(t, i).bundle = global.bundle
                       /\ ClosingHead(t, i).previous = global.last_closed
           /\ i # 1 => /\ ClosingHead(t, i).bundle = <<>>
                       /\ ClosingHead(t, i).previous = global.open + i - 2
<1>1. i # 1 => ClosingHead(t, i).previous = global.open + i - 2
  <2> SUFFICES ASSUME i # 1 PROVE ClosingHead(t, i).previous = global.open + i - 2
    OBVIOUS
  <2> DEFINE e == global.open + i - 1
  <2>0. global.open \in Nat
    BY DEF TypeOK, Persistents
  <2>1. e \in Int /\ e - 1 = global.open + i - 2
    BY <2>0
  <2>2. (IF i = 1 THEN global.last_closed ELSE e - 1) = e - 1
    OBVIOUS
  <2> HIDE DEF e
  <2>3. ClosingHead(t, i).previous = IF i = 1 THEN global.last_closed ELSE e - 1
    BY Zenon DEF ClosingHead, e
  <2> QED
    BY <2>1, <2>2, <2>3
<1>2. i # 1 => ClosingHead(t, i).bundle = <<>>
  BY DEF ClosingHead
<1>3. i = 1 => ClosingHead(t, i).bundle = global.bundle
  BY DEF ClosingHead
<1>4. i = 1 => ClosingHead(t, i).previous = global.last_closed
  BY DEF ClosingHead
<1>5. /\ ClosingHead(t, i).epoch = global.open + i - 1
      /\ ClosingHead(t, i).issued_at = t
      /\ ClosingHead(t, i).history_length = global.length
      /\ ClosingHead(t, i).entries = global.entries
  BY DEF ClosingHead
<1> QED
  BY <1>1, <1>2, <1>3, <1>4, <1>5

\* The heads once a block at time t has closed its epochs.
LEMMA GrownHeads ==
    ASSUME TypeOK, NEW t \in Nat, DOMAIN heads = 0..(global.open - 1)
    PROVE  LET K == Over(heads, Heading(ClosedHeads(t))) IN
           /\ DOMAIN K = 0..(global.open + CloseCount(t) - 1)
           /\ \A e \in 0..(global.open - 1) : K[e] = heads[e]
           /\ \A i \in 1..CloseCount(t) : K[global.open + i - 1] = ClosingHead(t, i)
<1> DEFINE n == CloseCount(t)  cl == ClosedHeads(t)  o == global.open
           K == Over(heads, Heading(cl))
<1>0. o \in Nat /\ DOMAIN heads = 0..(o - 1)
  BY DEF TypeOK, Persistents
<1>1. From(cl, o)
  BY ClosedHeadsFacts
<1>2. Len(cl) = n /\ \A i \in 1..n : cl[i] = ClosingHead(t, i)
  BY ClosedHeadsFacts
<1> HIDE DEF cl, n, o
<1>3. /\ DOMAIN Over(heads, Heading(cl)) = 0..(o + Len(cl) - 1)
      /\ \A e \in 0..(o - 1) : Over(heads, Heading(cl))[e] = heads[e]
      /\ \A i \in 1..Len(cl) : Over(heads, Heading(cl))[o + i - 1] = cl[i]
  BY ONLY <1>0, <1>1, HeadingOver
<1> HIDE DEF K
<1>4. /\ DOMAIN K = 0..(o + n - 1)
      /\ \A e \in 0..(o - 1) : K[e] = heads[e]
      /\ \A i \in 1..n : K[o + i - 1] = ClosingHead(t, i)
  BY <1>2, <1>3 DEF K
<1> QED
  BY <1>4 DEF K, cl, n, o

\* Opening a block extends the chain by the heads it closes.
LEMMA ChainGrows ==
    ASSUME TypeOK, NEW t \in Nat, NotBefore(t), Chain(heads, global)
    PROVE  Chain(Over(heads, Heading(ClosedHeads(t))), Opened(t))
<1> DEFINE n == CloseCount(t)  cl == ClosedHeads(t)  G == Opened(t)  o == global.open
           K == Over(heads, Heading(cl))
<1>1. /\ o \in Nat /\ n \in Nat /\ global.time \in Nat /\ global.time <= t
      /\ n > 0 => o + n <= EpochAt(t)
  BY EpochType DEF TypeOK, Persistents, NotBefore
<1>2. /\ DOMAIN K = 0..(o + n - 1)
      /\ \A e \in 0..(o - 1) : K[e] = heads[e]
      /\ \A i \in 1..n : K[o + i - 1] = ClosingHead(t, i)
  BY GrownHeads DEF Chain
<1>3. /\ G.open = o + n /\ G.time = t
      /\ n = 0 => G.last_closed = global.last_closed
      /\ n # 0 => G.last_closed = o + n - 1
  BY OpenedFacts
<1>4. \A e \in o..(o + n - 1) : K[e] = ClosingHead(t, e - o + 1) /\ e - o + 1 \in 1..n
  <2> SUFFICES ASSUME NEW e \in o..(o + n - 1)
               PROVE  K[e] = ClosingHead(t, e - o + 1) /\ e - o + 1 \in 1..n
    OBVIOUS
  <2> DEFINE i == e - o + 1
  <2>1. i \in 1..n /\ e = o + i - 1
    <3> HIDE DEF n, o
    <3> QED
      BY <1>1
  <2> HIDE DEF i, K, n, o
  <2>2. K[e] = ClosingHead(t, i)
    BY <1>2, <2>1
  <2> QED
    BY <2>1, <2>2 DEF i
<1> HIDE DEF K
<1>5. \A e \in 0..(o - 1) : K[e].issued_at <= t
  <2> SUFFICES ASSUME NEW e \in 0..(o - 1) PROVE K[e].issued_at <= t
    OBVIOUS
  <2>1. K[e] = heads[e] /\ e \in DOMAIN heads
    BY <1>2 DEF Chain
  <2>2. heads[e].issued_at \in Nat /\ heads[e].issued_at <= global.time
    BY <2>1 DEF Chain, Heads
  <2> QED
    BY <1>1, <2>1, <2>2
<1>6. \A e \in o..(o + n - 1) : K[e].issued_at = t
  <2>1. \A i \in Nat : ClosingHead(t, i).issued_at = t
    BY ClosingHeadFields
  <2>2. \A e \in o..(o + n - 1) : e - o + 1 \in Nat
    BY <1>1
  <2> HIDE DEF n, o
  <2> QED
    BY ONLY <1>4, <2>1, <2>2
<1>7. DOMAIN K = 0..(G.open - 1)
  <2>1. G.open - 1 = o + n - 1
    <3>1. G.open = o + n /\ o \in Nat /\ n \in Nat
      BY <1>1, <1>3
    <3> HIDE DEF G, o, n
    <3> QED
      BY ONLY <3>1
  <2>2. DOMAIN K = 0..(o + n - 1)
    BY <1>2
  <2> HIDE DEF G, o, n
  <2> QED
    BY ONLY <2>1, <2>2
<1>8. G.last_closed = IF G.open = 0 THEN None ELSE G.open - 1
  BY <1>1, <1>3 DEF Chain
<1>9. ASSUME NEW e \in DOMAIN K
      PROVE  /\ K[e] \in Heads
             /\ K[e].epoch = e
             /\ K[e].previous = IF e = 0 THEN None ELSE e - 1
             /\ EpochEnd(e) <= K[e].issued_at /\ K[e].issued_at <= t
             /\ e > 0 => K[e - 1].issued_at <= K[e].issued_at
  <2>1. CASE e < o
    <3>1. e \in 0..(o - 1) /\ (e > 0 => e - 1 \in 0..(o - 1))
      BY <1>1, <1>2, <2>1
    <3>2. K[e] = heads[e] /\ (e > 0 => K[e - 1] = heads[e - 1]) /\ e \in DOMAIN heads
      BY <1>2, <3>1 DEF Chain
    <3> QED
      BY <1>5, <3>1, <3>2 DEF Chain
  <2>2. CASE e >= o
    <3>1. e \in o..(o + n - 1) /\ e \in Nat /\ n > 0
      BY <1>1, <1>2, <2>2
    <3> DEFINE i == e - o + 1
    <3>2. K[e] = ClosingHead(t, i) /\ i \in 1..n /\ i \in Nat /\ e = o + i - 1
      BY <1>1, <1>4, <3>1
    <3> HIDE DEF i
    <3>3. K[e] \in Heads
      BY <3>2, ClosingHeadType
    <3> DEFINE h == ClosingHead(t, i)
    <3>0. /\ h.epoch = o + i - 1 /\ h.issued_at = t
          /\ i = 1 => h.previous = global.last_closed
          /\ i # 1 => h.previous = o + i - 2
      BY <3>2, ClosingHeadFields
    <3> HIDE DEF h, o
    <3>4. K[e].epoch = e /\ K[e].issued_at = t
      BY <3>0, <3>2 DEF h
    <3>5. K[e].previous = IF e = 0 THEN None ELSE e - 1
      BY <1>1, <3>0, <3>1, <3>2 DEF Chain, h, o
    <3>6. EpochEnd(e) <= t
      BY <1>1, <3>1, EndedEpoch, EpochType
    <3>7. e > 0 => K[e - 1].issued_at <= t
      <4>1. e > 0 => e - 1 \in 0..(o - 1) \/ e - 1 \in o..(o + n - 1)
        BY <1>1, <3>1
      <4> QED
        BY <1>1, <1>5, <1>6, <4>1
    <3> QED
      BY <1>1, <3>3, <3>4, <3>5, <3>6, <3>7
  <2> QED
    BY <1>1, <1>2, <2>1, <2>2
<1> HIDE DEF G
<1> QED
  BY <1>3, <1>7, <1>8, <1>9 DEF Chain, K, G

-----------------------------------------------------------------------------
(* Totals *)

\* The fields of the records of a log.
LEMMA RecordFields ==
    ASSUME NEW L \in Seq(HistoryRecords)
    PROVE  /\ Len(L) \in Nat
           /\ \A i \in 1..Len(L) :
                 L[i].epoch \in Nat /\ L[i].ca \in CAs /\ L[i].authorization \in TxIds
<1>1. Len(L) \in Nat /\ \A i \in 1..Len(L) : L[i] \in HistoryRecords
  OBVIOUS
<1>2. \A h \in HistoryRecords : h.epoch \in Nat /\ h.ca \in CAs /\ h.authorization \in TxIds
  BY DEF HistoryRecords
<1> QED
  BY <1>1, <1>2

\* Two ways to say where the records of the open epoch begin.
LEMMA SameStart ==
    ASSUME NEW L \in Seq(HistoryRecords), NEW o \in Nat,
           NEW m \in 0..Len(L), NEW k \in 0..Len(L),
           \A i \in 1..Len(L) : L[i].epoch <= o - 1 <=> i <= m,
           \A i \in 1..Len(L) : L[i].epoch <= o /\ (L[i].epoch = o <=> i > k)
    PROVE  m = k
<1>1. \A i \in 1..Len(L) : L[i].epoch \in Nat
  BY RecordFields
<1>2. CASE m < k
  <2>1. m + 1 \in 1..Len(L)
    BY <1>2
  <2> QED
    BY <1>1, <1>2, <2>1
<1>3. CASE k < m
  <2>1. k + 1 \in 1..Len(L)
    BY <1>3
  <2> QED
    BY <1>1, <1>3, <2>1
<1> QED
  BY <1>2, <1>3

\* Nothing is listed between two equal positions.
LEMMA NoneListed == ASSUME NEW L, NEW n \in Nat PROVE Listed(L, n, n) = <<>>
<1>1. n - n = 0
  OBVIOUS
<1>2. 1..(n - n) = {}
  BY <1>1
<1> QED
  BY <1>2 DEF Listed

\* Opening a block keeps the totals those of the open epoch.
LEMMA TallyOpens ==
    ASSUME TypeOK, NEW t \in Nat, NEW L \in Seq(HistoryRecords), NEW A,
           Tallied(L, A, global)
    PROVE  Tallied(L, A, Opened(t))
<1> DEFINE G == Opened(t)  n == CloseCount(t)
<1>1. /\ G.open = global.open + n /\ G.length = global.length /\ G.entries = global.entries
      /\ n = 0 => G.admitted = global.admitted /\ G.bundle = global.bundle
      /\ n # 0 => G.admitted = 0 /\ G.bundle = <<>>
  BY OpenedFacts
<1>2. n \in Nat /\ global.open \in Nat /\ Len(L) \in Nat
  <2>1. n \in Nat
    BY EpochType
  <2>2. global.open \in Nat
    BY DEF TypeOK, Persistents
  <2> QED
    BY <2>1, <2>2, RecordFields
<1>3. \A i \in 1..Len(L) : L[i].epoch \in Nat
  BY RecordFields
<1> HIDE DEF G, n
<1>4. CASE n = 0
  BY <1>1, <1>2, <1>4 DEF Tallied, G
<1>5. CASE n # 0
  <2>1. \A i \in 1..Len(L) : L[i].epoch < G.open
    BY <1>1, <1>2, <1>3, <1>5 DEF Tallied
  <2>2. \A i \in 1..Len(L) : /\ L[i].epoch <= G.open
                             /\ L[i].epoch = G.open <=> i > Len(L) - G.admitted
    BY <1>1, <1>2, <1>3, <1>5, <2>1
  <2>3. G.bundle = Listed(L, Len(L) - G.admitted, Len(L))
    <3>1. Len(L) - G.admitted = Len(L)
      BY <1>1, <1>2, <1>5
    <3> QED
      BY <1>1, <1>2, <1>5, <3>1, NoneListed
  <2>4. G.admitted <= Len(L)
    BY <1>1, <1>2, <1>5
  <2> QED
    BY <1>1, <2>2, <2>3, <2>4 DEF Tallied, G
<1> QED
  BY <1>4, <1>5

\* The heads a block closes commit to the history up to their epochs.
LEMMA CommittingGrows ==
    ASSUME TypeOK, NEW t \in Nat, NEW L \in Seq(HistoryRecords), NEW A,
           Chain(heads, global), Tallied(L, A, global), Committing(heads, L)
    PROVE  Committing(Over(heads, Heading(ClosedHeads(t))), L)
<1> DEFINE n == CloseCount(t)  o == global.open  l == Len(L)
           K == Over(heads, Heading(ClosedHeads(t)))
<1>1. o \in Nat /\ n \in Nat /\ l \in Nat /\ global.admitted \in Nat
  <2>1. n \in Nat
    BY EpochType
  <2>2. o \in Nat /\ global.admitted \in Nat
    BY DEF TypeOK, Persistents
  <2> QED
    BY <2>1, <2>2, RecordFields
<1>2. /\ DOMAIN K = 0..(o + n - 1)
      /\ \A e \in 0..(o - 1) : K[e] = heads[e]
      /\ \A i \in 1..n : K[o + i - 1] = ClosingHead(t, i)
  BY GrownHeads DEF Chain
<1>3. DOMAIN heads = 0..(o - 1)
  BY DEF Chain
<1>4. \A i \in 1..l : L[i].epoch \in Nat
  BY RecordFields
<1> HIDE DEF K
<1>5. \A e \in o..(o + n - 1) : K[e] = ClosingHead(t, e - o + 1) /\ e - o + 1 \in 1..n
  <2> SUFFICES ASSUME NEW e \in o..(o + n - 1)
               PROVE  K[e] = ClosingHead(t, e - o + 1) /\ e - o + 1 \in 1..n
    OBVIOUS
  <2> DEFINE i == e - o + 1
  <2>1. i \in 1..n /\ e = o + i - 1
    <3> HIDE DEF n, o
    <3> QED
      BY <1>1
  <2> HIDE DEF i, n, o
  <2>2. K[e] = ClosingHead(t, i)
    BY <1>2, <2>1
  <2> QED
    BY <2>1, <2>2 DEF i
<1>6. \A e \in o..(o + n - 1) :
         K[e].history_length = global.length /\ K[e].entries = global.entries
  BY <1>5, ClosingHeadFields
<1>7. global.length = l
  BY DEF Tallied
<1> SUFFICES ASSUME NEW e \in DOMAIN K
             PROVE  /\ K[e].history_length \in 0..l
                    /\ \A i \in 1..l : L[i].epoch <= e <=> i <= K[e].history_length
                    /\ K[e].bundle = Listed(L, Before(K, e), K[e].history_length)
                    /\ K[e].entries = Cardinality(Registered(L, K[e].history_length))
  BY DEF Committing, K
<1>8. CASE e < o
  <2>1. e \in 0..(o - 1) /\ (e > 0 => e - 1 \in 0..(o - 1))
    BY <1>1, <1>2, <1>8
  <2>2. K[e] = heads[e] /\ (e > 0 => K[e - 1] = heads[e - 1]) /\ e \in DOMAIN heads
    BY <1>2, <1>3, <2>1
  <2>3. Before(K, e) = Before(heads, e)
    BY <2>1, <2>2 DEF Before
  <2> QED
    BY <2>2, <2>3 DEF Committing
<1>9. CASE e >= o
  <2>1. e \in o..(o + n - 1) /\ e \in Nat
    BY <1>1, <1>2, <1>9
  <2>2. K[e].history_length = l
    BY <1>6, <1>7, <2>1
  <2>3. \A i \in 1..l : L[i].epoch <= e
    <3> SUFFICES ASSUME NEW i \in 1..l PROVE L[i].epoch <= e
      OBVIOUS
    <3>1. L[i].epoch <= o
      BY DEF Tallied
    <3>2. L[i].epoch \in Nat /\ o \in Nat
      BY <1>1, <1>4
    <3> QED
      BY <1>9, <2>1, <3>1, <3>2
  <2>4. K[e].entries = Cardinality(Registered(L, l))
    BY <1>6, <2>1 DEF Tallied
  <2>5. K[e].bundle = Listed(L, Before(K, e), l)
    <3>1. CASE e = o
      <4>1. e - o + 1 = 1
        BY <1>1, <3>1
      <4>2. K[e].bundle = global.bundle
        BY <1>5, <2>1, <4>1, ClosingHeadFields
      <4>3. l - global.admitted \in 0..l
        BY <1>1 DEF Tallied
      <4>4. Before(K, e) = l - global.admitted
        <5>1. CASE o = 0
          <6>1. Before(K, e) \in 0..l /\ Before(K, e) = 0
            BY <1>1, <3>1, <5>1 DEF Before
          <6>2. \A i \in 1..l : L[i].epoch <= o - 1 <=> i <= Before(K, e)
            BY <1>4, <5>1, <6>1
          <6> QED
            BY <1>1, <4>3, <6>1, <6>2, SameStart DEF Tallied
        <5>2. CASE o # 0
          <6>1. o - 1 \in DOMAIN heads /\ K[o - 1] = heads[o - 1]
            BY <1>1, <1>2, <1>3, <5>2
          <6>2. Before(K, e) = heads[o - 1].history_length
            BY <3>1, <5>2, <6>1 DEF Before
          <6>3. /\ Before(K, e) \in 0..l
                /\ \A i \in 1..l : L[i].epoch <= o - 1 <=> i <= Before(K, e)
            BY <6>1, <6>2 DEF Committing
          <6> QED
            BY <1>1, <4>3, <6>3, SameStart DEF Tallied
        <5> QED
          BY <5>1, <5>2
      <4> QED
        BY <4>2, <4>4 DEF Tallied
    <3>2. CASE e # o
      <4>1. e - 1 \in o..(o + n - 1) /\ e # 0 /\ e - o + 1 # 1
        BY <1>1, <2>1, <3>2
      <4>2. Before(K, e) = l
        BY <1>6, <1>7, <4>1 DEF Before
      <4>3. K[e].bundle = <<>>
        <5> DEFINE i == e - o + 1
        <5>1. K[e] = ClosingHead(t, i) /\ i # 1 /\ i \in Nat
          BY <1>5, <2>1, <4>1
        <5> HIDE DEF i
        <5> QED
          BY <5>1, ClosingHeadFields
      <4> QED
        BY <1>1, <4>2, <4>3, NoneListed
    <3> QED
      BY <3>1, <3>2
  <2> QED
    BY <1>1, <2>2, <2>3, <2>4, <2>5
<1> QED
  BY <1>1, <1>2, <1>8, <1>9

\* Listing one record more appends its transaction.
LEMMA ListedAppend ==
    ASSUME NEW L \in Seq(HistoryRecords), NEW r \in HistoryRecords, NEW k \in 0..Len(L)
    PROVE  Listed(Append(L, r), k, Len(L) + 1) = Append(Listed(L, k, Len(L)), r.authorization)
<1> DEFINE l == Len(L)  M == Append(L, r)  n == l - k
           left == Listed(M, k, l + 1)  old == Listed(L, k, l)
           right == Append(old, r.authorization)
<1>1. l \in Nat /\ n \in Nat /\ l + 1 - k = n + 1 /\ k + (n + 1) = l + 1
  BY RecordFields
<1>2. \A i \in 1..l : M[i] = L[i]
  OBVIOUS
<1>3. M[l + 1] = r
  OBVIOUS
<1> HIDE DEF l, M, n
<1>4. old = [i \in 1..n |-> L[k + i].authorization]
  BY DEF Listed, n
<1>5. left = [i \in 1..(n + 1) |-> M[k + i].authorization]
  BY <1>1 DEF Listed
<1>6. \A i \in 1..n : k + i \in 1..l
  BY <1>1 DEF l, n
<1>7. old \in Seq(TxIds) /\ Len(old) = n
  <2>1. \A i \in 1..n : L[k + i].authorization \in TxIds
    BY <1>6, RecordFields DEF l
  <2> QED
    BY <1>1, <1>4, <2>1
<1>8. r.authorization \in TxIds
  BY DEF HistoryRecords
<1> HIDE DEF old, left
<1>9. /\ right \in Seq(TxIds) /\ Len(right) = n + 1
      /\ \A i \in 1..n : right[i] = old[i]
      /\ right[n + 1] = r.authorization
  BY <1>7, <1>8
<1> HIDE DEF right
<1>10. right = [i \in 1..(n + 1) |-> right[i]]
  BY <1>9
<1>11. \A i \in 1..(n + 1) : left[i] = right[i]
  <2> SUFFICES ASSUME NEW i \in 1..(n + 1) PROVE left[i] = right[i]
    OBVIOUS
  <2>1. CASE i \in 1..n
    BY <1>1, <1>2, <1>4, <1>5, <1>6, <1>9, <2>1
  <2>2. CASE i = n + 1
    BY <1>1, <1>3, <1>5, <1>9, <2>2
  <2> QED
    BY <1>1, <2>1, <2>2
<1> QED
  BY <1>5, <1>10, <1>11 DEF left, right, old, l, M

\* A prefix lists the same however the log goes on.
LEMMA ListedPrefix ==
    ASSUME NEW L \in Seq(HistoryRecords), NEW r \in HistoryRecords,
           NEW k \in Nat, NEW n \in 0..Len(L)
    PROVE  /\ Listed(Append(L, r), k, n) = Listed(L, k, n)
           /\ Registered(Append(L, r), n) = Registered(L, n)
<1>1. \A i \in 1..Len(L) : Append(L, r)[i] = L[i]
  OBVIOUS
<1>2. \A i \in 1..(n - k) : k + i \in 1..Len(L)
  BY RecordFields
<1>3. \A i \in 1..n : i \in 1..Len(L)
  BY RecordFields
<1> QED
  BY <1>1, <1>2, <1>3 DEF Listed, Registered

\* An admission of the open epoch keeps the totals.
LEMMA TallyAppend ==
    ASSUME NEW L \in Seq(HistoryRecords), NEW A, NEW G \in Persistents, Tallied(L, A, G),
           NEW r \in HistoryRecords, r.epoch = G.open, NEW N,
           N.open = G.open, N.length = G.length + 1, N.admitted = G.admitted + 1,
           N.bundle = Append(G.bundle, r.authorization),
           N.entries = G.entries + (IF r.ca \in A THEN 0 ELSE 1)
    PROVE  Tallied(Append(L, r), A \cup {r.ca}, N)
<1> DEFINE l == Len(L)  M == Append(L, r)
<1>1. /\ l \in Nat /\ Len(M) = l + 1 /\ M[l + 1] = r
      /\ \A i \in 1..l : M[i] = L[i]
  OBVIOUS
<1>2. G.open \in Nat /\ G.admitted \in Nat /\ G.entries \in Nat /\ G.length \in Nat
  BY DEF Persistents
<1>3. /\ G.length = l /\ G.admitted <= l /\ G.entries <= l
      /\ G.bundle = Listed(L, l - G.admitted, l)
      /\ A = Registered(L, l) /\ IsFiniteSet(A) /\ G.entries = Cardinality(A)
  BY DEF Tallied
<1>4. \A i \in 1..l : L[i].epoch <= G.open /\ (L[i].epoch = G.open <=> i > l - G.admitted)
  BY DEF Tallied
<1>5. \A i, j \in 1..l : i < j => L[i].epoch <= L[j].epoch
  BY DEF Tallied
<1>6. N.bundle = Listed(M, l + 1 - N.admitted, l + 1)
  <2>1. l + 1 - N.admitted = l - G.admitted /\ l - G.admitted \in 0..l
    <3>1. l \in Nat /\ G.admitted \in Nat /\ G.admitted <= l /\ N.admitted = G.admitted + 1
      BY <1>1, <1>2, <1>3
    <3> HIDE DEF l
    <3> QED
      BY ONLY <3>1
  <2> QED
    BY <1>3, <2>1, ListedAppend
<1>7. A \cup {r.ca} = Registered(M, l + 1)
  <2>1. \A i \in 1..l : i \in 1..(l + 1)
    BY <1>1
  <2>2. l + 1 \in 1..(l + 1) /\ \A i \in 1..(l + 1) : i \in 1..l \/ i = l + 1
    BY <1>1
  <2> HIDE DEF l, M
  <2>3. Registered(M, l + 1) = {M[i].ca : i \in 1..l} \cup {r.ca}
    BY <1>1, <2>1, <2>2 DEF Registered
  <2>4. {M[i].ca : i \in 1..l} = Registered(L, l)
    BY <1>1 DEF Registered
  <2> QED
    BY <1>3, <2>3, <2>4
<1>8. /\ IsFiniteSet(A \cup {r.ca}) /\ Cardinality(A \cup {r.ca}) = N.entries
      /\ N.entries <= l + 1
  <2>1. CASE r.ca \in A
    <3>1. A \cup {r.ca} = A
      BY <2>1
    <3>2. N.entries = G.entries + 0
      BY <2>1
    <3>3. N.entries = G.entries /\ N.entries <= l + 1
      BY <1>1, <1>2, <1>3, <3>2
    <3>4. IsFiniteSet(A \cup {r.ca}) /\ Cardinality(A \cup {r.ca}) = G.entries
      BY Zenon, <1>3, <3>1
    <3> QED
      BY <3>3, <3>4
  <2>2. CASE r.ca \notin A
    <3>1. IsFiniteSet(A \cup {r.ca}) /\ Cardinality(A \cup {r.ca}) = Cardinality(A) + 1
      BY <1>3, <2>2, FS_AddElement
    <3>2. N.entries = G.entries + 1
      BY <2>2
    <3> QED
      BY <1>1, <1>2, <1>3, <3>1, <3>2
  <2> QED
    BY <2>1, <2>2
<1>12. \A i \in 1..l : L[i].epoch \in Nat
  BY RecordFields
<1>13. N.open = G.open /\ N.admitted = G.admitted + 1 /\ N.length = G.length + 1
  OBVIOUS
<1>14. r.epoch = G.open
  OBVIOUS
<1> HIDE DEF l, M
<1>9. ASSUME NEW i \in 1..(l + 1)
      PROVE  /\ M[i].epoch <= N.open
             /\ M[i].epoch = N.open <=> i > l + 1 - N.admitted
  <2>1. CASE i \in 1..l
    <3>1. M[i].epoch = L[i].epoch /\ L[i].epoch \in Nat
      BY ONLY <1>1, <1>12, <2>1
    <3>2. L[i].epoch <= G.open /\ (L[i].epoch = G.open <=> i > l - G.admitted)
      BY ONLY <1>4, <2>1
    <3>3. l + 1 - N.admitted = l - G.admitted
      BY ONLY <1>1, <1>2, <1>13
    <3> QED
      BY ONLY <3>1, <3>2, <3>3, <1>13
  <2>2. CASE i = l + 1
    BY ONLY <1>1, <1>2, <1>13, <1>14, <2>2
  <2> QED
    BY <1>1, <2>1, <2>2
<1>10. ASSUME NEW i \in 1..(l + 1), NEW j \in 1..(l + 1), i < j
       PROVE  M[i].epoch <= M[j].epoch
  <2>1. i \in 1..l
    BY <1>1, <1>10
  <2>2. CASE j \in 1..l
    BY <1>1, <1>5, <1>10, <2>1, <2>2
  <2>3. CASE j = l + 1
    BY ONLY <1>1, <1>4, <1>14, <2>1, <2>3
  <2> QED
    BY <1>1, <2>2, <2>3
<1>11. N.length = l + 1 /\ N.admitted <= l + 1
  BY ONLY <1>1, <1>2, <1>3, <1>13
<1> QED
  <2>1. Len(M) = l + 1
    BY <1>1
  <2>2. N.length = Len(M) /\ N.admitted <= Len(M)
    BY ONLY <2>1, <1>11
  <2>3. \A i \in 1..Len(M) : /\ M[i].epoch <= N.open
                             /\ M[i].epoch = N.open <=> i > Len(M) - N.admitted
    <3>1. ASSUME NEW i \in 1..Len(M)
          PROVE  M[i].epoch <= N.open /\ (M[i].epoch = N.open <=> i > l + 1 - N.admitted)
      BY ONLY <2>1, <1>9
    <3>2. Len(M) - N.admitted = l + 1 - N.admitted
      BY ONLY <2>1, <1>1, <1>2, <1>13
    <3> QED
      BY ONLY <3>1, <3>2
  <2>4. \A i, j \in 1..Len(M) : i < j => M[i].epoch <= M[j].epoch
    BY ONLY <2>1, <1>10
  <2>5. /\ N.bundle = Listed(M, Len(M) - N.admitted, Len(M))
        /\ A \cup {r.ca} = Registered(M, Len(M))
    <3>1. Len(M) - N.admitted = l + 1 - N.admitted
      BY ONLY <2>1, <1>1, <1>2, <1>13
    <3> QED
      BY ONLY <2>1, <3>1, <1>6, <1>7, Zenon
  <2>6. /\ IsFiniteSet(A \cup {r.ca}) /\ N.entries = Cardinality(A \cup {r.ca})
        /\ N.entries <= Len(M)
    BY ONLY <2>1, <1>8
  <2>7. Tallied(M, A \cup {r.ca}, N)
    BY ONLY <2>2, <2>3, <2>4, <2>5, <2>6, Zenon DEF Tallied
  <2> QED
    BY <2>7 DEF M

\* An admission of an open epoch leaves the heads of the closed ones true.
LEMMA CommittingAppend ==
    ASSUME NEW L \in Seq(HistoryRecords), NEW r \in HistoryRecords, NEW H,
           DOMAIN H = 0..(r.epoch - 1), Committing(H, L)
    PROVE  Committing(H, Append(L, r))
<1> DEFINE l == Len(L)  M == Append(L, r)
<1>1. /\ l \in Nat /\ Len(M) = l + 1 /\ M[l + 1] = r
      /\ \A i \in 1..l : M[i] = L[i] /\ L[i].epoch \in Nat
      /\ \A i \in 1..(l + 1) : i \in 1..l \/ i = l + 1
  BY RecordFields
<1>2. r.epoch \in Nat
  BY DEF HistoryRecords
<1> SUFFICES ASSUME NEW e \in DOMAIN H
             PROVE  LET n == H[e].history_length IN
                    /\ n \in 0..(l + 1)
                    /\ \A i \in 1..(l + 1) : M[i].epoch <= e <=> i <= n
                    /\ H[e].bundle = Listed(M, Before(H, e), n)
                    /\ H[e].entries = Cardinality(Registered(M, n))
  BY <1>1 DEF Committing
<1> DEFINE n == H[e].history_length
<1>3. /\ n \in 0..l /\ \A i \in 1..l : L[i].epoch <= e <=> i <= n
      /\ H[e].bundle = Listed(L, Before(H, e), n)
      /\ H[e].entries = Cardinality(Registered(L, n))
  BY DEF Committing
<1>4. e \in Nat /\ e < r.epoch
  BY <1>2
<1>5. Before(H, e) \in Nat
  <2>1. CASE e = 0
    BY <2>1 DEF Before
  <2>2. CASE e # 0
    <3>1. e - 1 \in DOMAIN H
      BY <1>2, <1>4, <2>2
    <3>2. H[e - 1].history_length \in 0..l
      BY <3>1 DEF Committing
    <3> QED
      BY <1>1, <2>2, <3>2 DEF Before
  <2> QED
    BY <2>1, <2>2
<1>6. Listed(M, Before(H, e), n) = Listed(L, Before(H, e), n) /\ Registered(M, n) = Registered(L, n)
  BY <1>3, <1>5, ListedPrefix
<1> HIDE DEF l, M, n
<1>7. n \in 0..(l + 1) /\ \A i \in 1..(l + 1) : M[i].epoch <= e <=> i <= n
  BY <1>1, <1>2, <1>3, <1>4
<1> QED
  BY <1>3, <1>6, <1>7 DEF n
-----------------------------------------------------------------------------
(* Steps *)

\* What has to hold after a step for the invariant to hold again.
LEMMA EpochNext ==
    ASSUME phase' = "idle" => closed' = <<>> /\ accepted' = <<>> /\ caUpdates' = EmptyMap,
           From(closed', global'.open),
           Kept(heads', records', Registry', global'),
           phase' # "idle" =>
               Kept(Over(heads', Heading(closed')), Log', StagedRegistry', next')
    PROVE  EpochInv'
<1>1. From(closed, global.open)'
  BY DEF From
<1>2. Kept(heads, records, Registry, global)'
  <2>1. Chain(heads, global)'
    BY DEF Kept, Chain, EpochEnd
  <2>2. Tallied(records, Registry, global)'
    BY DEF Kept, Tallied, Listed, Registered
  <2>3. Committing(heads, records)'
    BY DEF Kept, Committing, Listed, Registered, Before
  <2> QED
    BY <2>1, <2>2, <2>3 DEF Kept
<1>3. (phase # "idle" => Kept(Over(heads, Heading(closed)), Log, StagedRegistry, next))'
  <2> SUFFICES ASSUME phase' # "idle"
               PROVE  Kept(Over(heads, Heading(closed)), Log, StagedRegistry, next)'
    OBVIOUS
  <2>1. Over(heads, Heading(closed))' = Over(heads', Heading(closed'))
    BY DEF Over, Heading
  <2>2. Chain(Over(heads, Heading(closed)), next)'
    BY <2>1 DEF Kept, Chain, EpochEnd
  <2>3. Tallied(Log, StagedRegistry, next)'
    BY DEF Kept, Tallied, Listed, Registered
  <2>4. Committing(Over(heads, Heading(closed)), Log)'
    BY <2>1 DEF Kept, Committing, Listed, Registered, Before
  <2> QED
    BY <2>2, <2>3, <2>4 DEF Kept
<1> QED
  BY <1>1, <1>2, <1>3 DEF EpochInv, EmptyMap

\* No head is closed by no block.
LEMMA FromNone == ASSUME NEW o PROVE From(<<>>, o)
BY DEF From

\* Dropping the block leaves the committed heads and history.
LEMMA EpochDiscard ==
    ASSUME EpochInv, Discard, UNCHANGED committed
    PROVE  EpochInv'
<1>1. Registry' = Registry /\ UNCHANGED <<heads, records, global>>
  BY DEF Registry, committed
<1>2. Kept(heads, records, Registry, global)
  BY DEF EpochInv
<1>3. Kept(heads', records', Registry', global')
  BY ONLY <1>1, <1>2
<1>4. phase' = "idle" /\ closed' = <<>> /\ accepted' = <<>> /\ caUpdates' = EmptyMap
  BY DEF Discard
<1>5. From(closed', global'.open)
  BY <1>4, FromNone
<1> QED
  BY <1>3, <1>4, <1>5, EpochNext

\* A step that leaves heads, history, CAs and totals alone keeps them in agreement.
LEMMA EpochSame ==
    ASSUME EpochInv, UNCHANGED <<committed, closed, accepted, caUpdates, next>>,
           (phase = "idle") <=> (phase' = "idle")
    PROVE  EpochInv'
<1>1. /\ Registry' = Registry /\ StagedRegistry' = StagedRegistry /\ Log' = Log
      /\ UNCHANGED <<heads, records, global>>
  BY DEF Registry, StagedRegistry, CaView, Log, committed
<1>2. /\ From(closed, global.open)
      /\ Kept(heads, records, Registry, global)
      /\ phase # "idle" => Kept(Over(heads, Heading(closed)), Log, StagedRegistry, next)
  BY DEF EpochInv
<1>3. Kept(heads', records', Registry', global')
  BY ONLY <1>1, <1>2
<1>4. phase' # "idle" => Kept(Over(heads', Heading(closed')), Log', StagedRegistry', next')
  BY <1>1, <1>2
<1>5. From(closed', global'.open)
  BY <1>1, <1>2
<1>6. phase' = "idle" => closed' = <<>> /\ accepted' = <<>> /\ caUpdates' = EmptyMap
  BY DEF EpochInv
<1> QED
  BY <1>3, <1>4, <1>5, <1>6, EpochNext

\* Opening a block closes the due epochs with the heads their history calls for.
LEMMA EpochBegin ==
    ASSUME TypeOK, EpochInv, NEW t \in 0..MaxTime, NEW n \in 0..MaxBlockTxs,
           BeginBlock(t, n)
    PROVE  EpochInv'
<1>1. /\ closed = <<>> /\ accepted = <<>> /\ caUpdates = EmptyMap
      /\ Kept(heads, records, Registry, global)
  BY DEF EpochInv, BeginBlock
<1>2. /\ UNCHANGED <<committed, overlay, accepted>> /\ NotBefore(t) /\ phase' # "idle"
      /\ closed' = ClosedHeads(t) /\ next' = Opened(t)
  BY DEF BeginBlock
<1>3. UNCHANGED <<caState, records, heads, global, caUpdates, accepted>>
  BY <1>2 DEF committed, overlay
<1>4. t \in Nat /\ records \in Seq(HistoryRecords)
  BY BoundAssumption DEF TypeOK
<1>5. Log' = records
  BY <1>1, <1>3, <1>4 DEF Log
<1>6. Registry' = Registry /\ StagedRegistry' = Registry
  BY <1>1, <1>3 DEF Registry, StagedRegistry, CaView, EmptyMap
<1>7. From(ClosedHeads(t), global.open)
  BY <1>4, ClosedHeadsFacts
<1>8. Kept(Over(heads, Heading(ClosedHeads(t))), records, Registry, Opened(t))
  <2>1. Chain(heads, global) /\ Tallied(records, Registry, global) /\ Committing(heads, records)
    BY <1>1 DEF Kept
  <2> QED
    BY <1>2, <1>4, <2>1, ChainGrows, TallyOpens, CommittingGrows DEF Kept
<1>9. Kept(heads', records', Registry', global')
  BY ONLY <1>1, <1>3, <1>6
<1>10. Kept(Over(heads', Heading(closed')), Log', StagedRegistry', next')
  BY ONLY <1>2, <1>3, <1>5, <1>6, <1>8
<1>11. From(closed', global'.open)
  BY ONLY <1>2, <1>3, <1>7
<1> QED
  BY <1>2, <1>9, <1>10, <1>11, EpochNext

\* An admission adds its record, its CA and its count together.
LEMMA EpochAccept ==
    ASSUME TypeOK, EpochInv, NEW id \in TxIds, Accepts(id)
    PROVE  EpochInv'
<1>0. PICK s \in CaStates, r \in HistoryRecords, created \in BOOLEAN :
          /\ Accept(id, s, r, created)
          /\ r.authorization = id /\ r.epoch = next.open /\ r.ca = Tx[id].ca
          /\ created <=> (CaView(Tx[id].ca) = None)
  BY DEF Accepts
<1> DEFINE c == Tx[id].ca  H == Over(heads, Heading(closed))
           N == [next EXCEPT !.bundle = Append(@, id), !.admitted = @ + 1, !.length = @ + 1,
                             !.entries = @ + (IF created THEN 1 ELSE 0)]
<1>1. /\ phase = "executing" /\ phase' = phase
      /\ UNCHANGED <<caState, records, heads, global, closed>>
      /\ accepted' = Append(accepted, r) /\ caUpdates' = Put(caUpdates, c, s)
      /\ next' = N
  BY <1>0 DEF Accepts, Admits, Executes, Accept, Answer, committed
<1>2. /\ c \in CAs /\ s # None /\ next \in Persistents
      /\ records \in Seq(HistoryRecords) /\ accepted \in Seq(HistoryRecords)
  BY TxType, NoStateAssumption DEF TypeOK
<1>3. Log' = Append(Log, r) /\ Log \in Seq(HistoryRecords)
  BY <1>1, <1>2 DEF Log
<1>4. Registry' = Registry
  BY <1>1 DEF Registry
<1>5. StagedRegistry' = StagedRegistry \cup {c}
  <2>1. ASSUME NEW d \in CAs
        PROVE  CaView(d)' = IF d = c THEN s ELSE CaView(d)
    <3> HIDE DEF c
    <3> QED
      BY <1>1 DEF CaView, Put
  <2> HIDE DEF c
  <2>2. ASSUME NEW d PROVE d \in StagedRegistry' <=> d \in StagedRegistry \cup {c}
    BY <1>2, <2>1 DEF StagedRegistry
  <2> QED
    BY <2>2
<1>6. Chain(H, next) /\ Tallied(Log, StagedRegistry, next) /\ Committing(H, Log)
  BY <1>1 DEF EpochInv, Kept
<1>7. /\ N.open = next.open /\ N.time = next.time /\ N.last_closed = next.last_closed
      /\ N.length = next.length + 1 /\ N.admitted = next.admitted + 1
      /\ N.bundle = Append(next.bundle, id)
      /\ N.entries = next.entries + (IF created THEN 1 ELSE 0)
  BY <1>2 DEF Persistents
<1> HIDE DEF N, H, c
<1>8. (IF created THEN 1 ELSE 0) = IF r.ca \in StagedRegistry THEN 0 ELSE 1
  BY <1>0, <1>2 DEF StagedRegistry, c
<1>9. Chain(H, N)
  BY ONLY <1>6, <1>7 DEF Chain
<1>10. Tallied(Append(Log, r), StagedRegistry \cup {r.ca}, N)
  BY <1>0, <1>2, <1>3, <1>6, <1>7, <1>8, TallyAppend
<1>11. Committing(H, Append(Log, r))
  <2>1. DOMAIN H = 0..(r.epoch - 1)
    BY <1>0, <1>6 DEF Chain
  <2> QED
    BY <1>3, <1>6, <2>1, CommittingAppend
<1>12. Kept(H, Log', StagedRegistry', next')
  <2>1. r.ca = c
    BY <1>0 DEF c
  <2> QED
    BY ONLY <1>1, <1>3, <1>5, <1>9, <1>10, <1>11, <2>1 DEF Kept
<1>13. Kept(Over(heads', Heading(closed')), Log', StagedRegistry', next')
  BY ONLY <1>1, <1>12 DEF H
<1>14. Kept(heads, records, Registry, global) /\ From(closed, global.open)
  BY DEF EpochInv
<1>15. Kept(heads', records', Registry', global') /\ From(closed', global'.open)
  BY ONLY <1>1, <1>4, <1>14
<1>16. phase' # "idle"
  BY <1>1
<1> QED
  BY <1>13, <1>15, <1>16, EpochNext

\* A commit makes the staged heads, history and totals the committed ones.
LEMMA EpochCommit == ASSUME TypeOK, EpochInv, Commit PROVE EpochInv'
<1>1. /\ phase' = "idle" /\ closed' = <<>> /\ accepted' = <<>> /\ caUpdates' = EmptyMap
      /\ heads' = Over(heads, Heading(closed)) /\ records' = Log /\ global' = next
  BY DEF Commit, Discard, HeadWrites, Heading, Log
<1>2. Registry' = StagedRegistry
  BY DEF Commit, Registry, StagedRegistry, CaView, Over, TypeOK
<1>3. Kept(Over(heads, Heading(closed)), Log, StagedRegistry, next)
  BY DEF EpochInv, Commit
<1>4. Kept(heads', records', Registry', global')
  BY ONLY <1>1, <1>2, <1>3
<1>5. From(closed', global'.open)
  BY <1>1, FromNone
<1> QED
  BY <1>1, <1>4, <1>5, EpochNext

\* Every step keeps heads, history and totals in agreement.
LEMMA EpochStep == ASSUME TypeOK, EpochInv, [Next]_vars PROVE EpochInv'
<1>1. ASSUME NEW t \in 0..MaxTime, NEW n \in 0..MaxBlockTxs, BeginBlock(t, n)
      PROVE  EpochInv'
  BY <1>1, EpochBegin
<1>2. ASSUME NEW id \in TxIds, ExecuteTransaction(id) PROVE EpochInv'
  <2>1. CASE Replay(id) \/ Conflict(id) \/ Reject(id)
    BY <2>1, EpochSame
    DEF Replay, Conflict, Reject, Executes, Answer, committed, overlay
  <2>2. CASE RefuseMalformed(id)
    BY <2>2, EpochDiscard DEF RefuseMalformed
  <2>3. CASE Accepts(id)
    BY <2>3, EpochAccept
  <2> QED
    BY <1>2, <2>1, <2>2, <2>3, PublishAccepts, EnableAccepts, DisableAccepts,
       CancelAccepts, RolloverAccepts, TerminateAccepts
    DEF ExecuteTransaction
<1>3. CASE Prepare
  BY <1>3, EpochSame DEF Prepare, committed, staged, overlay
<1>4. CASE RefuseBatch \/ Abandon
  BY <1>4, EpochDiscard DEF RefuseBatch, Abandon
<1>5. CASE Commit
  BY <1>5, EpochCommit
<1>6. CASE AtBound \/ UNCHANGED vars
  BY <1>6, EpochSame DEF AtBound, vars, committed, staged, overlay
<1> QED
  BY <1>1, <1>2, <1>3, <1>4, <1>5, <1>6 DEF Next

\* The empty store has no head and no record.
LEMMA EpochInit == ASSUME Init PROVE EpochInv
<1>1. /\ phase = "idle" /\ closed = <<>> /\ accepted = <<>> /\ caUpdates = EmptyMap
      /\ heads = EmptyMap /\ records = <<>> /\ global = NoBlock
  BY DEF Init
<1>2. Registry = {}
  BY DEF Init, Registry
<1>3. /\ NoBlock.open = 0 /\ NoBlock.admitted = 0 /\ NoBlock.length = 0
      /\ NoBlock.entries = 0 /\ NoBlock.bundle = <<>> /\ NoBlock.last_closed = None
  BY DEF NoBlock
<1>4. DOMAIN EmptyMap = {} /\ 0..(0 - 1) = {} /\ 1..0 = {} /\ Len(<<>>) = 0
  BY DEF EmptyMap
<1>5. Chain(EmptyMap, NoBlock)
  BY ONLY <1>3, <1>4 DEF Chain
<1>6. Tallied(<<>>, {}, NoBlock)
  <2>1. Listed(<<>>, 0 - 0, 0) = <<>> /\ Registered(<<>>, 0) = {}
    BY DEF Listed, Registered
  <2>2. IsFiniteSet({}) /\ Cardinality({}) = 0
    BY FS_EmptySet
  <2> QED
    BY ONLY <1>3, <1>4, <2>1, <2>2 DEF Tallied
<1>7. Committing(EmptyMap, <<>>)
  BY ONLY <1>4 DEF Committing
<1>8. From(<<>>, global.open)
  BY FromNone
<1> QED
  BY <1>1, <1>2, <1>5, <1>6, <1>7, <1>8 DEF EpochInv, Kept

\* The strengthened invariant: in the store, and in what the block staged over
\* it would make of it, heads, history and totals agree.
THEOREM EpochsHold == Spec => [](TypeOK /\ EpochInv)
<1>1. Init => EpochInv
  BY EpochInit
<1>2. TypeOK /\ EpochInv /\ [Next]_vars => EpochInv'
  BY EpochStep
<1> QED
  BY <1>1, <1>2, TypeCorrect, PTL DEF Spec
-----------------------------------------------------------------------------
(* What follows of the properties the model checker checks *)

\* The properties speak of the store between blocks and of the staged block
\* during one; in both, heads, history and totals agree.
LEMMA Viewed ==
    ASSUME TypeOK, EpochInv
    PROVE  /\ Kept(HeadView, Log, StagedRegistry, Current)
           /\ Log \in Seq(HistoryRecords) /\ Current \in Persistents
<1>1. HeadView = Over(heads, Heading(closed))
  BY DEF HeadView, HeadWrites, Heading
<1>2. Log \in Seq(HistoryRecords) /\ Current \in Persistents
  BY LogType DEF TypeOK, Current
<1>3. CASE phase # "idle"
  BY <1>1, <1>2, <1>3 DEF EpochInv, Current
<1>4. CASE phase = "idle"
  <2>1. /\ closed = <<>> /\ accepted = <<>> /\ caUpdates = EmptyMap
        /\ Kept(heads, records, Registry, global)
    BY <1>4 DEF EpochInv
  <2>2. Log = records /\ Current = global
    BY <1>4, <2>1, LogType DEF Current
  <2>3. StagedRegistry = Registry
    BY <2>1 DEF StagedRegistry, Registry, CaView, EmptyMap
  <2>4. global.open \in Nat /\ heads = [e \in DOMAIN heads |-> heads[e]]
    BY DEF TypeOK, Persistents, IsMap
  <2>5. DOMAIN heads = 0..(global.open - 1)
    BY <2>1 DEF Kept, Chain
  <2>6. Over(heads, Heading(<<>>)) = heads
    BY <2>4, <2>5, NoHeading
  <2> QED
    BY <1>1, <1>2, <2>1, <2>2, <2>3, <2>6
<1> QED
  BY <1>3, <1>4

\* Heads exist for exactly the epochs before the open one, each linked to the
\* one before and issued after its epoch ended.
THEOREM HeadsChained == Spec => []HeadChain
<1>1. TypeOK /\ EpochInv => HeadChain
  <2> SUFFICES ASSUME TypeOK, EpochInv PROVE HeadChain
    OBVIOUS
  <2>1. Chain(HeadView, Current)
    BY Viewed DEF Kept
  <2>2. ASSUME NEW e \in DOMAIN HeadView
        PROVE  EpochEnd(e) \in Int /\ HeadView[e].issued_at \in Int
    <3>1. e \in Nat /\ Delta \in Nat
      BY <2>1, EpochAssumption, Viewed DEF Chain, Persistents
    <3> QED
      BY <2>1, <3>1 DEF Chain, Heads, EpochEnd
  <2>3. ASSUME NEW e \in DOMAIN HeadView PROVE HeadView[e].issued_at >= EpochEnd(e)
    BY <2>1, <2>2 DEF Chain
  <2> QED
    BY <2>1, <2>3 DEF Chain, HeadChain
<1> QED
  BY <1>1, EpochsHold, PTL

\* The head of an epoch commits to exactly the history up to its end.
THEOREM HeadsTrue == Spec => []HeadsMatchHistory
<1>1. TypeOK /\ EpochInv => HeadsMatchHistory
  <2> SUFFICES ASSUME TypeOK, EpochInv, NEW e \in DOMAIN HeadView
               PROVE  LET h == HeadView[e] IN
                      /\ h.history_length = Cardinality({i \in DOMAIN Log : Log[i].epoch <= e})
                      /\ h.bundle = AuthorizationsIn(LengthBefore(e), h.history_length)
                      /\ h.entries = Cardinality({Log[i].ca : i \in 1..h.history_length})
    BY DEF HeadsMatchHistory
  <2> DEFINE n == HeadView[e].history_length
  <2>1. Log \in Seq(HistoryRecords)
    BY Viewed
  <2>2. DOMAIN Log = 1..Len(Log) /\ Len(Log) \in Nat
    BY <2>1
  <2>3. /\ n \in 0..Len(Log)
        /\ \A i \in 1..Len(Log) : Log[i].epoch <= e <=> i <= n
        /\ HeadView[e].bundle = Listed(Log, Before(HeadView, e), n)
        /\ HeadView[e].entries = Cardinality(Registered(Log, n))
    BY Viewed DEF Kept, Committing
  <2> HIDE DEF n
  <2>4. n \in Nat /\ n <= Len(Log)
    BY <2>2, <2>3
  <2>5. {i \in DOMAIN Log : Log[i].epoch <= e} = 1..n
    BY <2>2, <2>3, <2>4
  <2>6. Cardinality(1..n) = n
    BY <2>4, FS_Interval
  <2>7. Listed(Log, Before(HeadView, e), n) = AuthorizationsIn(LengthBefore(e), n)
    BY DEF Listed, Before, AuthorizationsIn, LengthBefore
  <2>8. Registered(Log, n) = {Log[i].ca : i \in 1..n}
    BY DEF Registered
  <2> QED
    BY <2>3, <2>5, <2>6, <2>7, <2>8 DEF n
<1> QED
  BY <1>1, EpochsHold, PTL

\* The running totals of the open epoch agree with the history.
THEOREM TotalsTrue == Spec => []EpochAccounting
<1>1. TypeOK /\ EpochInv => EpochAccounting
  <2> SUFFICES ASSUME TypeOK, EpochInv PROVE EpochAccounting
    OBVIOUS
  <2> DEFINE l == Len(Log)  a == Current.admitted
  <2>1. Log \in Seq(HistoryRecords) /\ Tallied(Log, StagedRegistry, Current)
    BY Viewed DEF Kept
  <2>2. DOMAIN Log = 1..l /\ l \in Nat
    BY <2>1
  <2>3. a \in Nat /\ a <= l
    BY <2>1, Viewed DEF Persistents, Tallied
  <2>4. \A i \in 1..l : Log[i].epoch = Current.open <=> i > l - a
    BY <2>1 DEF Tallied
  <2>5. {i \in DOMAIN Log : Log[i].epoch = Current.open} = (l - a + 1)..l
    <3> HIDE DEF l, a
    <3> QED
      BY <2>2, <2>3, <2>4
  <2>6. Cardinality((l - a + 1)..l) = a
    <3> HIDE DEF l, a
    <3>1. l - a + 1 \in Int /\ l \in Int
      BY <2>2, <2>3
    <3>2. Cardinality((l - a + 1)..l) =
              IF l - a + 1 > l THEN 0 ELSE l - (l - a + 1) + 1
      BY <3>1, FS_Interval
    <3> QED
      BY <2>2, <2>3, <3>2
  <2>7. Current.entries = Cardinality({c \in CAs : Live(c)})
    BY <2>1 DEF Tallied, StagedRegistry, Live
  <2>8. Current.bundle = AuthorizationsIn(l - a, l)
    BY <2>1 DEF Tallied, Listed, AuthorizationsIn
  <2>9. \A i, j \in DOMAIN Log : i < j => Log[i].epoch <= Log[j].epoch
    BY <2>1, <2>2 DEF Tallied
  <2>10. Current.length = l
    BY <2>1 DEF Tallied
  <2> QED
    BY <2>5, <2>6, <2>7, <2>8, <2>9, <2>10 DEF EpochAccounting
<1> QED
  BY <1>1, EpochsHold, PTL

\* Recovery accepts every committed state: the three tests it makes of the
\* length, the entry count and the last closed head never fail.
THEOREM AlwaysRecoverable == Spec => []Recoverable
<1>1. TypeOK /\ EpochInv => Recoverable
  <2> SUFFICES ASSUME TypeOK, EpochInv PROVE CrossCheck
    BY DEF Recoverable
  <2>1. Chain(heads, global) /\ Tallied(records, Registry, global)
    BY DEF EpochInv, Kept
  <2>2. global.open \in Nat
    BY DEF TypeOK, Persistents
  <2>3. global.open = IF global.last_closed = None THEN 0 ELSE global.last_closed + 1
    BY <2>1, <2>2, NoneAssumption DEF Chain
  <2> QED
    BY <2>1, <2>3 DEF Tallied, CrossCheck
<1> QED
  BY <1>1, EpochsHold, PTL

\* No commit overwrites or loses the head of a closed epoch.
THEOREM HeadsPermanent == Spec => HeadIsPermanent
<1>1. TypeOK /\ EpochInv /\ [Next]_vars =>
          [\A e \in DOMAIN heads : e \in DOMAIN heads' /\ heads'[e] = heads[e]]_heads
  <2> SUFFICES ASSUME TypeOK, EpochInv, [Next]_vars, heads' # heads
               PROVE  \A e \in DOMAIN heads : e \in DOMAIN heads' /\ heads'[e] = heads[e]
    OBVIOUS
  <2>0. Commit
    BY CommitForm DEF committed
  <2> DEFINE o == global.open
  <2>1. /\ o \in Nat /\ DOMAIN heads = 0..(o - 1) /\ From(closed, o)
        /\ closed \in Seq(Heads)
    BY DEF EpochInv, Kept, Chain, TypeOK, Persistents
  <2>2. heads' = Over(heads, Heading(closed))
    BY <2>0 DEF Commit, HeadWrites, Heading
  <2>3. /\ DOMAIN heads' = 0..(o + Len(closed) - 1)
        /\ \A e \in 0..(o - 1) : heads'[e] = heads[e]
    BY <2>1, <2>2, HeadingOver
  <2>4. Len(closed) \in Nat
    BY <2>1
  <2> HIDE DEF o
  <2> QED
    BY <2>1, <2>3, <2>4
<1> QED
  BY <1>1, EpochsHold, PTL DEF Spec, HeadIsPermanent
=============================================================================
