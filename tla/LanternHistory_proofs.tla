------------------------ MODULE LanternHistory_proofs ------------------------
(***************************************************************************)
(* The history log is the mountain range of its records, and its proofs    *)
(* verify for what is true and only for that: for any number of tasks, any *)
(* records, any batch bound and any tallest peak.                          *)
(*                                                                         *)
(*  1. Numbers, widths and digits; layouts of peaks, and why the end of a  *)
(*     layout determines it.                                               *)
(*  2. A leaf merged into the layout of n gives that of n + 1, and its     *)
(*     nodes take the positions that follow, none twice.                   *)
(*  3. Hashes: every node is the hash of the leaves below it.              *)
(*  4. A builder holds the range of the archive and its own records; the   *)
(*     store holds that of the archive (HistoryInv).                       *)
(*  5. Roots commit logs; a path that meets its peak is the true one; a    *)
(*     canonical range merges true peaks into true peaks.                  *)
(*  6. What a proof of any origin shows; forks are refused in consequence. *)
(***************************************************************************)
EXTENDS LanternHistory, FiniteSetTheorems, WellFoundedInduction, TLAPS

-----------------------------------------------------------------------------
(* Numbers *)

\* A set of numbers that is not empty has a least one.
LEMMA LeastNumber ==
    ASSUME NEW S, S \subseteq Nat, S # {}
    PROVE  \E n \in S : \A m \in S : n <= m
<1> DEFINE R == {p \in Nat \X Nat : p[1] < p[2]}
<1>1. IsWellFoundedOn(R, Nat)
    BY NatLessThanWellFounded DEF OpToRel
<1>2. \A m, n \in Nat : m < n => <<m, n>> \in R
    OBVIOUS
<1> HIDE DEF R
<1>3. PICK n \in S : \A m \in S : ~(<<m, n>> \in R)
    BY <1>1, WFMin
<1>4. \A m \in S : ~(m < n)
    BY <1>2, <1>3
<1> QED
    BY <1>4

\* A set of numbers that holds 0 and each successor of its numbers holds them all.
LEMMA NumbersUpward ==
    ASSUME NEW S, 0 \in S, \A n \in Nat : n \in S => n + 1 \in S
    PROVE  Nat \subseteq S
<1> SUFFICES ASSUME NEW k \in Nat, k \notin S PROVE FALSE
    OBVIOUS
<1> DEFINE T == {n \in Nat : n \notin S}
<1>1. PICK n \in T : \A m \in T : n <= m
    BY LeastNumber
<1>2. n \in Nat /\ n # 0
    BY <1>1
<1>3. n - 1 \in Nat /\ n - 1 \in S
    BY <1>1, <1>2
<1>4. n - 1 + 1 \in S
    BY <1>3
<1> QED
    BY <1>1, <1>2, <1>4

\* Quotient and remainder.
LEMMA DivMod ==
    ASSUME NEW n \in Nat, NEW w \in Nat, w > 0
    PROVE  /\ n \div w \in Nat /\ n % w \in Nat /\ n % w < w
           /\ n = (n \div w) * w + (n % w)
OBVIOUS

LEMMA Multiples ==
    ASSUME NEW a \in Nat, NEW b \in Nat, NEW w \in Nat, a <= b
    PROVE  a * w <= b * w /\ a * w \in Nat
OBVIOUS

\* They are the only ones.
LEMMA DivModUnique ==
    ASSUME NEW n \in Nat, NEW w \in Nat, w > 0, NEW q \in Nat, NEW r \in Nat,
           r < w, n = q * w + r
    PROVE  n \div w = q /\ n % w = r
<1>1. /\ n \div w \in Nat /\ n % w \in Nat /\ n % w < w
      /\ n = (n \div w) * w + (n % w)
    BY DivMod
<1>2. ~(q + 1 <= n \div w)
    <2> SUFFICES ASSUME q + 1 <= n \div w PROVE FALSE
        OBVIOUS
    <2>1. (q + 1) * w <= (n \div w) * w
        BY <1>1, Multiples
    <2>2. (q + 1) * w = q * w + w
        OBVIOUS
    <2>3. q * w \in Nat /\ (n \div w) * w \in Nat
        BY <1>1
    <2> QED
        BY <2>1, <2>2, <2>3, <1>1
<1>3. ~((n \div w) + 1 <= q)
    <2> SUFFICES ASSUME (n \div w) + 1 <= q PROVE FALSE
        OBVIOUS
    <2>1. ((n \div w) + 1) * w <= q * w
        BY <1>1, Multiples
    <2>2. ((n \div w) + 1) * w = (n \div w) * w + w
        BY <1>1
    <2>3. q * w \in Nat /\ (n \div w) * w \in Nat
        BY <1>1
    <2> QED
        BY <2>1, <2>2, <2>3, <1>1
<1>4. n \div w = q
    BY <1>1, <1>2, <1>3
<1> QED
    BY <1>1, <1>4

-----------------------------------------------------------------------------
(* Widths *)

Levels == 0..(TopHeight + 1)

\* The recursion that defines the powers of two has a solution.
LEMMA PowerOfTwoDef ==
    PowerOfTwo = [h \in Levels |-> IF h = 0 THEN 1 ELSE 2 * PowerOfTwo[h - 1]]
<1> DEFINE Solves(f, k) == f = [h \in 0..k |-> IF h = 0 THEN 1 ELSE 2 * f[h - 1]]
           S == {k \in Nat : \E f : Solves(f, k)}
<1>1. 0 \in S
    <2>1. Solves([h \in 0..0 |-> 1], 0)
        OBVIOUS
    <2> QED
        BY <2>1
<1>2. ASSUME NEW k \in Nat, k \in S PROVE k + 1 \in S
    <2>1. PICK f : Solves(f, k)
        BY <1>2
    <2> DEFINE g == [h \in 0..(k + 1) |-> IF h = 0 THEN 1 ELSE 2 * f[h - 1]]
    <2>2. \A h \in 0..k : g[h] = f[h]
        BY <2>1
    <2>3. \A h \in 0..(k + 1) : h # 0 => g[h - 1] = f[h - 1]
        BY <2>2
    <2>4. Solves(g, k + 1)
        BY <2>3
    <2> HIDE DEF g, Solves
    <2> QED
        BY <2>4
<1>3. Nat \subseteq S
    <2> HIDE DEF S
    <2> QED
        BY <1>1, <1>2, NumbersUpward
<1>4. TopHeight + 1 \in S
    <2> HIDE DEF S
    <2> QED
        BY <1>3, HeightAssumption
<1> QED
    BY <1>4 DEF PowerOfTwo, Levels

LEMMA WidthZero == Width(0) = 1
BY PowerOfTwoDef, HeightAssumption DEF Width, Levels

LEMMA WidthNext ==
    ASSUME NEW h \in 0..TopHeight
    PROVE  Width(h + 1) = 2 * Width(h)
BY PowerOfTwoDef, HeightAssumption DEF Width, Levels

LEMMA WidthType ==
    ASSUME NEW h \in Levels
    PROVE  Width(h) \in Nat /\ Width(h) > 0
<1> DEFINE S == {k \in Nat : k \in Levels => Width(k) \in Nat /\ Width(k) > 0}
<1>1. 0 \in S
    BY WidthZero
<1>2. ASSUME NEW k \in Nat, k \in S PROVE k + 1 \in S
    BY <1>2, WidthNext, HeightAssumption DEF Levels
<1>3. Nat \subseteq S
    <2> HIDE DEF S
    <2> QED
        BY <1>1, <1>2, NumbersUpward
<1> QED
    BY <1>3, HeightAssumption DEF Levels

\* A greater width is a multiple of twice a smaller one.
LEMMA WidthMultiple ==
    ASSUME NEW h \in Levels, NEW k \in Levels, h <= k
    PROVE  \E q \in Nat : q > 0 /\ Width(k) = q * Width(h)
<1> DEFINE S == {d \in Nat : h + d \in Levels =>
                    \E q \in Nat : q > 0 /\ Width(h + d) = q * Width(h)}
<1>0. h \in Nat /\ k \in Nat /\ Width(h) \in Nat
    BY WidthType, HeightAssumption DEF Levels
<1>1. 0 \in S
    <2>1. Width(h + 0) = 1 * Width(h)
        BY <1>0
    <2> QED
        BY <2>1
<1>2. ASSUME NEW d \in Nat, d \in S PROVE d + 1 \in S
    <2> SUFFICES ASSUME h + (d + 1) \in Levels
                 PROVE  \E q \in Nat : q > 0 /\ Width(h + (d + 1)) = q * Width(h)
        OBVIOUS
    <2>1. h + d \in Levels /\ h + d \in 0..TopHeight
        BY <1>0, HeightAssumption DEF Levels
    <2>2. PICK q \in Nat : q > 0 /\ Width(h + d) = q * Width(h)
        BY <2>1, <1>2
    <2>3. Width((h + d) + 1) = 2 * Width(h + d)
        BY <2>1, WidthNext
    <2>4. 2 * (q * Width(h)) = (2 * q) * Width(h)
        BY <1>0
    <2>5. (h + d) + 1 = h + (d + 1) /\ 2 * q \in Nat /\ 2 * q > 0
        BY <1>0, <2>2
    <2> QED
        BY <2>2, <2>3, <2>4, <2>5
<1>3. Nat \subseteq S
    <2> HIDE DEF S
    <2> QED
        BY <1>1, <1>2, NumbersUpward
<1>4. k - h \in Nat /\ h + (k - h) = k
    BY <1>0
<1> QED
    BY <1>3, <1>4

LEMMA WidthOrder ==
    ASSUME NEW h \in Levels, NEW k \in Levels, h < k
    PROVE  2 * Width(h) <= Width(k)
<1>1. h + 1 \in Levels /\ h \in 0..TopHeight /\ h + 1 <= k
    BY HeightAssumption DEF Levels
<1>2. PICK q \in Nat : q > 0 /\ Width(k) = q * Width(h + 1)
    BY <1>1, WidthMultiple
<1>3. Width(h + 1) = 2 * Width(h) /\ Width(h + 1) \in Nat
    BY <1>1, WidthNext, WidthType
<1>4. 1 * Width(h + 1) <= q * Width(h + 1)
    BY <1>2, <1>3, Multiples
<1> QED
    BY <1>2, <1>3, <1>4

-----------------------------------------------------------------------------
(* Alignment *)

Aligned(a, h) == \E q \in Nat : a = q * Width(h)

LEMMA AlignedMod ==
    ASSUME NEW a \in Nat, NEW h \in Levels
    PROVE  Aligned(a, h) <=> a % Width(h) = 0
<1>1. Width(h) \in Nat /\ Width(h) > 0
    BY WidthType
<1>2. ASSUME NEW q \in Nat, a = q * Width(h) PROVE a % Width(h) = 0
    <2>1. a = q * Width(h) + 0
        BY <1>1, <1>2
    <2> QED
        BY <1>1, <2>1, DivModUnique
<1>3. ASSUME a % Width(h) = 0 PROVE \E q \in Nat : a = q * Width(h)
    <2>1. a \div Width(h) \in Nat /\ a = (a \div Width(h)) * Width(h) + 0
        BY <1>1, <1>3, DivMod
    <2>2. (a \div Width(h)) * Width(h) \in Nat
        BY <1>1, <2>1
    <2> QED
        BY <2>1, <2>2
<1> QED
    BY <1>2, <1>3 DEF Aligned

LEMMA AlignedZero == ASSUME NEW h \in Levels PROVE Aligned(0, h)
<1>1. 0 = 0 * Width(h)
    BY WidthType
<1> QED
    BY <1>1 DEF Aligned

LEMMA AlignedWidth ==
    ASSUME NEW h \in Levels, NEW k \in Levels, h <= k
    PROVE  Aligned(Width(k), h)
BY WidthMultiple DEF Aligned

LEMMA AlignedSum ==
    ASSUME NEW a \in Nat, NEW b \in Nat, NEW h \in Levels, Aligned(a, h), Aligned(b, h)
    PROVE  Aligned(a + b, h)
<1>1. PICK p \in Nat : a = p * Width(h)
    BY DEF Aligned
<1>2. PICK q \in Nat : b = q * Width(h)
    BY DEF Aligned
<1>3. p * Width(h) + q * Width(h) = (p + q) * Width(h)
    BY WidthType
<1> QED
    BY <1>1, <1>2, <1>3 DEF Aligned

LEMMA AlignedDown ==
    ASSUME NEW a \in Nat, NEW h \in Levels, NEW k \in Levels, h <= k, Aligned(a, k)
    PROVE  Aligned(a, h)
<1>1. PICK p \in Nat : a = p * Width(k)
    BY DEF Aligned
<1>2. PICK q \in Nat : Width(k) = q * Width(h)
    BY WidthMultiple
<1>3. p * (q * Width(h)) = (p * q) * Width(h) /\ p * q \in Nat
    BY WidthType
<1> QED
    BY <1>1, <1>2, <1>3 DEF Aligned

\* What is aligned for the parent is not aligned for it one width further.
LEMMA AlignedOdd ==
    ASSUME NEW a \in Nat, NEW h \in 0..TopHeight, Aligned(a, h + 1)
    PROVE  /\ Aligned(a, h) /\ Aligned(a + Width(h), h)
           /\ ~Aligned(a + Width(h), h + 1)
<1>1. h \in Levels /\ h + 1 \in Levels
    BY HeightAssumption DEF Levels
<1>2. Aligned(a, h)
    BY <1>1, AlignedDown
<1>3. Aligned(a + Width(h), h)
    BY <1>1, <1>2, AlignedWidth, AlignedSum, WidthType
<1>4. ASSUME Aligned(a + Width(h), h + 1) PROVE FALSE
    <2> DEFINE w == Width(h)
    <2>1. w \in Nat /\ w > 0 /\ Width(h + 1) = 2 * w
        BY <1>1, WidthType, WidthNext
    <2>2. PICK p \in Nat : a = p * (2 * w)
        BY <2>1 DEF Aligned
    <2>3. PICK q \in Nat : a + w = q * (2 * w)
        BY <2>1, <1>4 DEF Aligned
    <2>4. (2 * p + 1) * w = (2 * q) * w
        BY <2>1, <2>2, <2>3
    <2>5. 2 * p + 1 = 2 * q
        BY <2>1, <2>4
    <2> QED
        BY <2>5
<1> QED
    BY <1>2, <1>3, <1>4

-----------------------------------------------------------------------------
(* Layouts *)

Coords == [start : Nat, height : 0..TopHeight]
End(c) == c.start + Width(c.height)

\* Subtrees of falling height, each a left child, that fill the leaves 0 to n - 1.
Layout(P, n) ==
    /\ P \in Seq(Coords)
    /\ n = IF Len(P) = 0 THEN 0 ELSE End(P[Len(P)])
    /\ \A i \in 1..Len(P) :
          /\ Aligned(P[i].start, P[i].height + 1)
          /\ P[i].start = IF i = 1 THEN 0 ELSE End(P[i - 1])
    /\ \A i, j \in 1..Len(P) : i < j => P[j].height < P[i].height

LEMMA CoordType ==
    ASSUME NEW c \in Coords
    PROVE  /\ c.start \in Nat /\ c.height \in 0..TopHeight
           /\ c.height \in Levels /\ c.height + 1 \in Levels /\ c.height \in Nat
           /\ Width(c.height) \in Nat /\ Width(c.height) > 0
           /\ Width(c.height + 1) = 2 * Width(c.height)
           /\ End(c) \in Nat
           /\ c = [start |-> c.start, height |-> c.height]
<1>1. /\ c.start \in Nat /\ c.height \in 0..TopHeight
      /\ c.height \in Levels /\ c.height + 1 \in Levels /\ c.height \in Nat
      /\ c = [start |-> c.start, height |-> c.height]
    BY HeightAssumption DEF Coords, Levels
<1>2. Width(c.height) \in Nat /\ Width(c.height) > 0 /\ Width(c.height + 1) = 2 * Width(c.height)
    BY <1>1, WidthType, WidthNext
<1> QED
    BY <1>1, <1>2 DEF End

LEMMA LayoutType ==
    ASSUME NEW P, NEW n, Layout(P, n)
    PROVE  /\ n \in Nat /\ Len(P) \in Nat /\ DOMAIN P = 1..Len(P)
           /\ \A i \in 1..Len(P) : P[i] \in Coords
           /\ P = <<>> <=> Len(P) = 0
           /\ Len(P) = 0 <=> n = 0
<1>1. /\ Len(P) \in Nat /\ DOMAIN P = 1..Len(P) /\ \A i \in 1..Len(P) : P[i] \in Coords
      /\ P = <<>> <=> Len(P) = 0
    BY DEF Layout
<1>2. CASE Len(P) = 0
    BY <1>1, <1>2 DEF Layout
<1>3. CASE Len(P) # 0
    <2>1. P[Len(P)] \in Coords /\ n = End(P[Len(P)])
        BY <1>1, <1>3 DEF Layout
    <2>2. n \in Nat /\ n > 0
        BY <2>1, CoordType DEF End
    <2> QED
        BY <1>1, <1>3, <2>2
<1> QED
    BY <1>2, <1>3

\* The last peak says how far the size is aligned.
LEMMA LayoutAligned ==
    ASSUME NEW P, NEW n, Layout(P, n), Len(P) > 0
    PROVE  /\ P[Len(P)].height \in 0..TopHeight
           /\ Aligned(n, P[Len(P)].height) /\ ~Aligned(n, P[Len(P)].height + 1)
<1>1. Len(P) \in 1..Len(P) /\ P[Len(P)] \in Coords /\ n = End(P[Len(P)])
    BY LayoutType DEF Layout
<1>2. Aligned(P[Len(P)].start, P[Len(P)].height + 1)
    BY <1>1 DEF Layout
<1> QED
    BY <1>1, <1>2, AlignedOdd, CoordType DEF End

\* A layout and the next, lower subtree.
LEMMA LayoutExtend ==
    ASSUME NEW P, NEW n, Layout(P, n), NEW h \in 0..TopHeight,
           Len(P) > 0 => h < P[Len(P)].height
    PROVE  Layout(Append(P, [start |-> n, height |-> h]), n + Width(h))
<1> DEFINE c == [start |-> n, height |-> h]
           Q == Append(P, c)
<1>1. n \in Nat /\ Len(P) \in Nat /\ P \in Seq(Coords) /\ c \in Coords
    BY LayoutType DEF Layout, Coords
<1>2. /\ Q \in Seq(Coords) /\ Len(Q) = Len(P) + 1 /\ Q[Len(P) + 1] = c
      /\ \A i \in 1..Len(P) : Q[i] = P[i] /\ P[i] \in Coords
    BY <1>1
<1>3. Aligned(n, h + 1)
    <2>1. CASE Len(P) = 0
        <3>1. n = 0
            BY <2>1 DEF Layout
        <3> QED
            BY <3>1, <1>1, CoordType, AlignedZero
    <2>2. CASE Len(P) > 0
        <3>1. Aligned(n, P[Len(P)].height) /\ P[Len(P)].height \in 0..TopHeight
            BY <2>2, LayoutAligned
        <3>2. h + 1 \in Levels /\ P[Len(P)].height \in Levels /\ h + 1 <= P[Len(P)].height
            BY <2>2, <3>1, HeightAssumption DEF Levels
        <3> QED
            BY <1>1, <3>1, <3>2, AlignedDown
    <2> QED
        BY <1>1, <2>1, <2>2
<1>4. n + Width(h) = IF Len(Q) = 0 THEN 0 ELSE End(Q[Len(Q)])
    BY <1>1, <1>2 DEF End
<1>5. ASSUME NEW i \in 1..Len(Q)
      PROVE  /\ Aligned(Q[i].start, Q[i].height + 1)
             /\ Q[i].start = IF i = 1 THEN 0 ELSE End(Q[i - 1])
    <2>1. CASE i \in 1..Len(P)
        <3>1. Q[i] = P[i] /\ (i # 1 => Q[i - 1] = P[i - 1])
            BY <1>1, <1>2, <2>1
        <3> QED
            BY <2>1, <3>1 DEF Layout
    <2>2. CASE i = Len(P) + 1
        <3>1. Q[i] = c /\ (i # 1 => Q[i - 1] = P[i - 1])
            BY <1>1, <1>2, <2>2
        <3>2. n = IF Len(P) = 0 THEN 0 ELSE End(P[Len(P)])
            BY DEF Layout
        <3>3. n = IF i = 1 THEN 0 ELSE End(P[i - 1])
            BY <1>1, <2>2, <3>2
        <3> QED
            BY <1>3, <3>1, <3>3
    <2> QED
        BY <1>1, <1>2, <2>1, <2>2
<1>6. ASSUME NEW i \in 1..Len(Q), NEW j \in 1..Len(Q), i < j
      PROVE  Q[j].height < Q[i].height
    <2>1. i \in 1..Len(P) /\ Q[i] = P[i]
        BY <1>1, <1>2, <1>6
    <2>2. CASE j \in 1..Len(P)
        BY <1>2, <1>6, <2>1, <2>2 DEF Layout
    <2>3. CASE j = Len(P) + 1
        <3>1. Q[j].height = h /\ h < P[Len(P)].height /\ Len(P) \in 1..Len(P)
            BY <1>1, <1>2, <2>1, <2>3
        <3>2. i < Len(P) => P[Len(P)].height < P[i].height
            BY <2>1, <3>1 DEF Layout
        <3>3. P[Len(P)] \in Coords /\ P[i] \in Coords
            BY <1>2, <2>1, <3>1
        <3>4. P[Len(P)].height \in Nat /\ P[i].height \in Nat /\ h \in Nat
            BY <3>3, CoordType
        <3> QED
            BY <2>1, <3>1, <3>2, <3>4
    <2> QED
        BY <1>1, <1>2, <2>2, <2>3
<1> QED
    BY <1>2, <1>4, <1>5, <1>6 DEF Layout

\* Each peak ends within the size, and the size is nearer than a second such peak.
LEMMA LayoutBounds ==
    ASSUME NEW P, NEW n, Layout(P, n)
    PROVE  \A i \in 1..Len(P) : End(P[i]) <= n /\ n < P[i].start + 2 * Width(P[i].height)
<1>1. /\ n \in Nat /\ Len(P) \in Nat /\ \A i \in 1..Len(P) : P[i] \in Coords
    BY LayoutType
<1> DEFINE S == {d \in Nat : d < Len(P) =>
                    /\ End(P[Len(P) - d]) <= n
                    /\ n < P[Len(P) - d].start + 2 * Width(P[Len(P) - d].height)}
<1>2. 0 \in S
    <2> SUFFICES ASSUME 0 < Len(P)
                 PROVE  /\ End(P[Len(P)]) <= n
                        /\ n < P[Len(P)].start + 2 * Width(P[Len(P)].height)
        BY <1>1
    <2>1. P[Len(P)] \in Coords /\ n = End(P[Len(P)])
        BY <1>1 DEF Layout
    <2> QED
        BY <2>1, CoordType DEF End
<1>3. ASSUME NEW d \in Nat, d \in S PROVE d + 1 \in S
    <2> SUFFICES ASSUME d + 1 < Len(P)
                 PROVE  /\ End(P[Len(P) - (d + 1)]) <= n
                        /\ n < P[Len(P) - (d + 1)].start + 2 * Width(P[Len(P) - (d + 1)].height)
        OBVIOUS
    <2> DEFINE i == Len(P) - (d + 1)
    <2>1. i \in 1..Len(P) /\ i + 1 \in 1..Len(P) /\ i + 1 = Len(P) - d /\ i + 1 # 1 /\ i + 1 - 1 = i
        BY <1>1
    <2> HIDE DEF i
    <2>2. End(P[i + 1]) <= n /\ n < P[i + 1].start + 2 * Width(P[i + 1].height)
        <3>1. d < Len(P)
            BY <1>1
        <3>2. /\ End(P[Len(P) - d]) <= n
              /\ n < P[Len(P) - d].start + 2 * Width(P[Len(P) - d].height)
            BY <1>3, <3>1
        <3> QED
            BY <2>1, <3>2
    <2>3. P[i + 1].start = End(P[i]) /\ P[i + 1].height < P[i].height
        BY <2>1 DEF Layout
    <2>4. P[i] \in Coords /\ P[i + 1] \in Coords
        BY <1>1, <2>1
    <2>5. 2 * Width(P[i + 1].height) <= Width(P[i].height)
        BY <2>3, <2>4, CoordType, WidthOrder
    <2>6. /\ P[i].start \in Nat /\ Width(P[i].height) \in Nat
          /\ P[i + 1].start \in Nat /\ Width(P[i + 1].height) \in Nat
        BY <2>4, CoordType
    <2>7. End(P[i]) <= n /\ n < P[i].start + 2 * Width(P[i].height)
        <3>1. n \in Nat
            BY <1>1
        <3>2. /\ P[i + 1].start = P[i].start + Width(P[i].height)
              /\ End(P[i]) = P[i].start + Width(P[i].height)
              /\ End(P[i + 1]) = P[i + 1].start + Width(P[i + 1].height)
            BY <2>3 DEF End
        <3> DEFINE a == P[i].start
                   b == P[i + 1].start
                   v == Width(P[i].height)
                   w == Width(P[i + 1].height)
        <3>3. a \in Nat /\ b \in Nat /\ v \in Nat /\ w \in Nat /\ b = a + v /\ 2 * w <= v
            BY <2>5, <2>6, <3>2
        <3>4. b + w <= n /\ n < b + 2 * w
            BY <2>2, <3>2
        <3> HIDE DEF a, b, v, w
        <3>5. a + v <= n /\ n < a + 2 * v
            BY <3>1, <3>3, <3>4
        <3> QED
            BY <3>2, <3>5 DEF a, v
    <2> QED
        BY <2>7 DEF i
<1>4. Nat \subseteq S
    <2> HIDE DEF S
    <2> QED
        BY <1>2, <1>3, NumbersUpward
<1> SUFFICES ASSUME NEW i \in 1..Len(P)
             PROVE  End(P[i]) <= n /\ n < P[i].start + 2 * Width(P[i].height)
    OBVIOUS
<1>5. Len(P) - i \in Nat /\ Len(P) - i < Len(P) /\ Len(P) - (Len(P) - i) = i
    BY <1>1
<1> QED
    BY <1>4, <1>5

\* A size has one layout: after equal peaks the next is the tallest that fits.
LEMMA LayoutPrefix ==
    ASSUME NEW P, NEW Q, NEW n, Layout(P, n), Layout(Q, n)
    PROVE  Len(P) <= Len(Q) /\ \A i \in 1..Len(P) : P[i] = Q[i]
<1>1. /\ n \in Nat /\ Len(P) \in Nat /\ Len(Q) \in Nat
      /\ \A i \in 1..Len(P) : P[i] \in Coords
      /\ \A i \in 1..Len(Q) : Q[i] \in Coords
    BY LayoutType
<1> DEFINE S == {k \in Nat : k <= Len(P) => k <= Len(Q) /\ \A i \in 1..k : P[i] = Q[i]}
<1>2. 0 \in S
    BY <1>1
<1>3. ASSUME NEW k \in Nat, k \in S PROVE k + 1 \in S
    <2> SUFFICES ASSUME k + 1 <= Len(P)
                 PROVE  k + 1 <= Len(Q) /\ \A i \in 1..(k + 1) : P[i] = Q[i]
        OBVIOUS
    <2>1. k <= Len(Q) /\ \A i \in 1..k : P[i] = Q[i]
        BY <1>1, <1>3
    <2>2. k + 1 \in 1..Len(P) /\ P[k + 1] \in Coords /\ (k # 0 => k \in 1..Len(P)) /\ k + 1 - 1 = k
        BY <1>1
    <2>3. P[k + 1].start = IF k = 0 THEN 0 ELSE End(P[k])
        BY <2>2 DEF Layout
    <2>4. End(P[k + 1]) <= n /\ n < P[k + 1].start + 2 * Width(P[k + 1].height)
        BY <2>2, LayoutBounds
    <2>5. P[k + 1].start < n
        BY <1>1, <2>2, <2>4, CoordType DEF End
    <2>6. Len(Q) # k
        <3> SUFFICES ASSUME Len(Q) = k PROVE FALSE
            OBVIOUS
        <3>1. n = IF k = 0 THEN 0 ELSE End(Q[k])
            BY DEF Layout
        <3>2. k # 0 => P[k] = Q[k]
            BY <2>1
        <3>3. n = P[k + 1].start
            BY <2>3, <3>1, <3>2
        <3> QED
            BY <1>1, <2>5, <3>3
    <2>7. k + 1 \in 1..Len(Q) /\ Q[k + 1] \in Coords /\ (k # 0 => k \in 1..Len(Q))
        BY <1>1, <2>1, <2>6
    <2>8. Q[k + 1].start = IF k = 0 THEN 0 ELSE End(Q[k])
        BY <2>2, <2>7 DEF Layout
    <2>9. Q[k + 1].start = P[k + 1].start
        BY <2>1, <2>3, <2>8
    <2>10. End(Q[k + 1]) <= n /\ n < Q[k + 1].start + 2 * Width(Q[k + 1].height)
        BY <2>7, LayoutBounds
    <2>11. ~(P[k + 1].height < Q[k + 1].height)
        <3> SUFFICES ASSUME P[k + 1].height < Q[k + 1].height PROVE FALSE
            OBVIOUS
        <3>1. 2 * Width(P[k + 1].height) <= Width(Q[k + 1].height)
            BY <2>2, <2>7, CoordType, WidthOrder
        <3>2. /\ P[k + 1].start \in Nat /\ Width(P[k + 1].height) \in Nat
              /\ Width(Q[k + 1].height) \in Nat
            BY <2>2, <2>7, CoordType
        <3>3. P[k + 1].start + Width(Q[k + 1].height) <= n
            BY <2>9, <2>10 DEF End
        <3>4. n < P[k + 1].start + 2 * Width(P[k + 1].height) /\ n \in Nat
            BY <1>1, <2>4
        <3> QED
            BY <3>1, <3>2, <3>3, <3>4
    <2>12. ~(Q[k + 1].height < P[k + 1].height)
        <3> SUFFICES ASSUME Q[k + 1].height < P[k + 1].height PROVE FALSE
            OBVIOUS
        <3>1. 2 * Width(Q[k + 1].height) <= Width(P[k + 1].height)
            BY <2>2, <2>7, CoordType, WidthOrder
        <3>2. /\ P[k + 1].start \in Nat /\ Width(P[k + 1].height) \in Nat
              /\ Width(Q[k + 1].height) \in Nat
            BY <2>2, <2>7, CoordType
        <3>3. P[k + 1].start + Width(P[k + 1].height) <= n
            BY <2>4 DEF End
        <3>4. n < P[k + 1].start + 2 * Width(Q[k + 1].height) /\ n \in Nat
            BY <1>1, <2>9, <2>10
        <3> QED
            BY <3>1, <3>2, <3>3, <3>4
    <2>13. P[k + 1].height = Q[k + 1].height
        BY <2>2, <2>7, <2>11, <2>12, CoordType
    <2>14. P[k + 1] = Q[k + 1]
        BY <2>2, <2>7, <2>9, <2>13, CoordType
    <2> QED
        BY <1>1, <2>1, <2>7, <2>14
<1>4. Nat \subseteq S
    <2> HIDE DEF S
    <2> QED
        BY <1>2, <1>3, NumbersUpward
<1> QED
    BY <1>1, <1>4

LEMMA LayoutUnique ==
    ASSUME NEW P, NEW Q, NEW n, Layout(P, n), Layout(Q, n)
    PROVE  P = Q
<1>1. Len(P) \in Nat /\ Len(Q) \in Nat /\ P \in Seq(Coords) /\ Q \in Seq(Coords)
    BY LayoutType DEF Layout
<1>2. Len(P) = Len(Q) /\ \A i \in 1..Len(P) : P[i] = Q[i]
    BY <1>1, LayoutPrefix
<1> QED
    BY <1>1, <1>2

\* One binary digit more or less.
LEMMA DigitStep ==
    ASSUME NEW n \in Nat, NEW h \in 0..TopHeight
    PROVE  /\ Bit(n, h) \in {0, 1}
           /\ n % Width(h + 1) = Bit(n, h) * Width(h) + (n % Width(h))
<1> DEFINE w == Width(h)
           q == n \div w
           r == n % w
<1>1. w \in Nat /\ w > 0 /\ Width(h + 1) = 2 * w
    BY WidthType, WidthNext, HeightAssumption DEF Levels
<1>2. q \in Nat /\ r \in Nat /\ r < w /\ n = q * w + r
    BY <1>1, DivMod
<1>3. Bit(n, h) = q % 2
    BY DEF Bit
<1> HIDE DEF w, q, r
<1>4. q % 2 \in {0, 1} /\ q \div 2 \in Nat /\ q = 2 * (q \div 2) + (q % 2)
    BY <1>2
<1> DEFINE p == q \div 2
           b == q % 2
<1>5. p \in Nat /\ b \in {0, 1} /\ q = 2 * p + b
    BY <1>4
<1> HIDE DEF p, b
<1>6. (2 * p + b) * w = p * (2 * w) + b * w
    BY <1>1, <1>5
<1>7. b * w + r \in Nat /\ b * w + r < 2 * w
    BY <1>1, <1>2, <1>5
<1>8. n = p * (2 * w) + (b * w + r)
    BY <1>1, <1>2, <1>5, <1>6, <1>7
<1>9. n % (2 * w) = b * w + r
    BY <1>1, <1>5, <1>7, <1>8, DivModUnique
<1> QED
    BY <1>1, <1>3, <1>5, <1>9 DEF w, r, b

\* The turns of the loop of peak_layout.
PeakTurns(n, f) ==
    f = [k \in 0..(TopHeight + 1) |->
            IF k = 0 THEN <<>>
            ELSE IF Bit(n, TopHeight + 1 - k) = 0 THEN f[k - 1]
            ELSE Append(f[k - 1],
                        [start |-> n - (n % Width(TopHeight + 1 - k + 1)),
                         height |-> TopHeight + 1 - k])]

LEMMA PeakTurnsExist ==
    ASSUME NEW n
    PROVE  \E f : PeakTurns(n, f)
<1> DEFINE Turn(k, before) ==
               IF Bit(n, TopHeight + 1 - k) = 0 THEN before
               ELSE Append(before, [start |-> n - (n % Width(TopHeight + 1 - k + 1)),
                                    height |-> TopHeight + 1 - k])
           Solves(f, m) == f = [k \in 0..m |-> IF k = 0 THEN <<>> ELSE Turn(k, f[k - 1])]
           S == {m \in Nat : \E f : Solves(f, m)}
<1> HIDE DEF Turn
<1>1. 0 \in S
    <2>1. Solves([k \in 0..0 |-> <<>>], 0)
        OBVIOUS
    <2> QED
        BY <2>1
<1>2. ASSUME NEW m \in Nat, m \in S PROVE m + 1 \in S
    <2>1. PICK f : Solves(f, m)
        BY <1>2
    <2> DEFINE g == [k \in 0..(m + 1) |-> IF k = 0 THEN <<>> ELSE Turn(k, f[k - 1])]
    <2>2. \A k \in 0..m : g[k] = f[k]
        BY <2>1
    <2>3. \A k \in 0..(m + 1) : k # 0 => g[k - 1] = f[k - 1]
        BY <2>2
    <2>4. Solves(g, m + 1)
        BY <2>3
    <2> HIDE DEF g, Solves
    <2> QED
        BY <2>4
<1>3. TopHeight + 1 \in S
    <2> HIDE DEF S
    <2> QED
        BY <1>1, <1>2, NumbersUpward, HeightAssumption
<1> QED
    BY <1>3 DEF PeakTurns, Turn

LEMMA PeakTurn ==
    ASSUME NEW n, NEW f, PeakTurns(n, f), NEW k \in 0..(TopHeight + 1), k # 0
    PROVE  f[k] = IF Bit(n, TopHeight + 1 - k) = 0 THEN f[k - 1]
                  ELSE Append(f[k - 1],
                        [start |-> n - (n % Width(TopHeight + 1 - k + 1)),
                         height |-> TopHeight + 1 - k])
<1> DEFINE Turn(j) ==
               IF Bit(n, TopHeight + 1 - j) = 0 THEN f[j - 1]
               ELSE Append(f[j - 1], [start |-> n - (n % Width(TopHeight + 1 - j + 1)),
                                      height |-> TopHeight + 1 - j])
<1>1. f = [j \in 0..(TopHeight + 1) |-> IF j = 0 THEN <<>> ELSE Turn(j)]
    BY DEF PeakTurns
<1> HIDE DEF Turn
<1>2. f[k] = Turn(k)
    BY <1>1
<1> QED
    BY <1>2 DEF Turn

LEMMA PeakLayoutTurns ==
    ASSUME NEW n
    PROVE  \E f : PeakTurns(n, f) /\ PeakLayout(n) = f[TopHeight + 1]
<1>1. PICK f : PeakTurns(n, f)
    BY PeakTurnsExist
<1> DEFINE g == CHOOSE f_1 : PeakTurns(n, f_1)
<1>2. PeakTurns(n, g)
    BY <1>1
<1>3. PeakLayout(n) = g[TopHeight + 1]
    BY DEF PeakLayout, PeakTurns
<1> QED
    BY <1>2, <1>3

LEMMA OnesAbove ==
    ASSUME NEW n, NEW h \in 0..TopHeight
    PROVE  LET A(b) == {k \in b..TopHeight : Bit(n, k) = 1} IN
           /\ IsFiniteSet(A(h)) /\ Cardinality(A(h)) \in Nat
           /\ Cardinality(A(h)) = Cardinality(A(h + 1)) + (IF Bit(n, h) = 1 THEN 1 ELSE 0)
<1> DEFINE A(b) == {k \in b..TopHeight : Bit(n, k) = 1}
<1>1. \A b \in Nat : IsFiniteSet(A(b)) /\ Cardinality(A(b)) \in Nat
    <2> SUFFICES ASSUME NEW b \in Nat PROVE IsFiniteSet(A(b)) /\ Cardinality(A(b)) \in Nat
        OBVIOUS
    <2>1. IsFiniteSet(b..TopHeight)
        BY FS_Interval, HeightAssumption
    <2>2. IsFiniteSet(A(b))
        BY <2>1, FS_Subset
    <2> QED
        BY <2>2, FS_CardinalityType
<1>2. h \in Nat /\ h + 1 \in Nat /\ h \notin A(h + 1)
    BY HeightAssumption
<1>3. A(h) = IF Bit(n, h) = 1 THEN A(h + 1) \cup {h} ELSE A(h + 1)
    BY HeightAssumption
<1> HIDE DEF A
<1>4. Cardinality(A(h + 1) \cup {h}) = Cardinality(A(h + 1)) + 1
    BY <1>1, <1>2, FS_AddElement
<1>5. Cardinality(A(h)) = Cardinality(A(h + 1)) + (IF Bit(n, h) = 1 THEN 1 ELSE 0)
    BY <1>1, <1>2, <1>3, <1>4
<1> QED
    BY <1>1, <1>2, <1>5 DEF A

LEMMA PeakLayoutIs ==
    ASSUME NEW n \in Nat, n <= MaxLeaves
    PROVE  Layout(PeakLayout(n), n) /\ Len(PeakLayout(n)) = Cardinality(Ones(n))
<1>1. PICK f : PeakTurns(n, f) /\ PeakLayout(n) = f[TopHeight + 1]
    BY PeakLayoutTurns
<1> DEFINE A(b) == {k \in b..TopHeight : Bit(n, k) = 1}
           Good(k) ==
               /\ Layout(f[k], n - (n % Width(TopHeight + 1 - k)))
               /\ \A i \in 1..Len(f[k]) : f[k][i].height >= TopHeight + 1 - k
               /\ Len(f[k]) = Cardinality(A(TopHeight + 1 - k))
           S == {k \in Nat : k <= TopHeight + 1 => Good(k)}
<1>2. 0 \in S
    <2>1. f[0] = <<>>
        BY <1>1, HeightAssumption DEF PeakTurns
    <2>2. n % Width(TopHeight + 1) = n
        <3>1. /\ Width(TopHeight + 1) \in Nat /\ Width(TopHeight) \in Nat /\ Width(TopHeight) > 0
              /\ Width(TopHeight + 1) = 2 * Width(TopHeight) /\ n <= Width(TopHeight)
            BY WidthType, WidthNext, HeightAssumption DEF Levels, MaxLeaves, Width
        <3>2. n = 0 * Width(TopHeight + 1) + n /\ n < Width(TopHeight + 1)
            BY <3>1
        <3> QED
            BY <3>1, <3>2, DivModUnique
    <2>3. A(TopHeight + 1) = {}
        BY HeightAssumption
    <2>4. Layout(<<>>, 0)
        BY DEF Layout
    <2> HIDE DEF A
    <2>5. TopHeight + 1 - 0 = TopHeight + 1 /\ n - n = 0
        BY HeightAssumption
    <2>6. Cardinality(A(TopHeight + 1 - 0)) = 0
        BY <2>3, <2>5, FS_EmptySet
    <2>7. Good(0)
        BY <2>1, <2>2, <2>4, <2>5, <2>6
    <2> QED
        BY <2>7
<1>3. ASSUME NEW k \in Nat, k \in S PROVE k + 1 \in S
    <2> SUFFICES ASSUME k + 1 <= TopHeight + 1 PROVE Good(k + 1)
        OBVIOUS
    <2> DEFINE h == TopHeight + 1 - (k + 1)
               m == n - (n % Width(h + 1))
    <2>1. /\ h \in 0..TopHeight /\ h + 1 \in Levels /\ h \in Levels
          /\ TopHeight + 1 - k = h + 1 /\ TopHeight + 1 - (k + 1) = h /\ k <= TopHeight + 1
          /\ k + 1 \in 0..(TopHeight + 1) /\ k + 1 # 0 /\ k + 1 - 1 = k
        BY HeightAssumption DEF Levels
    <2>2. /\ Layout(f[k], m)
          /\ \A i \in 1..Len(f[k]) : f[k][i].height >= h + 1
          /\ Len(f[k]) = Cardinality(A(h + 1))
        <3> HIDE DEF A, h
        <3> QED
            BY <1>3, <2>1
    <2>3. f[k + 1] = IF Bit(n, h) = 0 THEN f[k] ELSE Append(f[k], [start |-> m, height |-> h])
        <3>1. f[k + 1] = IF Bit(n, TopHeight + 1 - (k + 1)) = 0 THEN f[k + 1 - 1]
                         ELSE Append(f[k + 1 - 1],
                                [start |-> n - (n % Width(TopHeight + 1 - (k + 1) + 1)),
                                 height |-> TopHeight + 1 - (k + 1)])
            BY <1>1, <2>1, PeakTurn
        <3> HIDE DEF h
        <3> QED
            BY <2>1, <3>1
    <2>4. /\ Bit(n, h) \in {0, 1}
          /\ n % Width(h + 1) = Bit(n, h) * Width(h) + (n % Width(h))
        BY <2>1, DigitStep
    <2>5. /\ Cardinality(A(h)) = Cardinality(A(h + 1)) + (IF Bit(n, h) = 1 THEN 1 ELSE 0)
          /\ Cardinality(A(h)) \in Nat
        BY <2>1, OnesAbove
    <2>6. /\ Width(h) \in Nat /\ n % Width(h) \in Nat /\ n % Width(h) <= n
          /\ n % Width(h + 1) \in Nat /\ n % Width(h + 1) <= n
        <3>1. \A w \in Nat : w > 0 => n % w \in Nat /\ n % w <= n
            OBVIOUS
        <3> QED
            BY <2>1, <3>1, WidthType
    <2> HIDE DEF h, A, m
    <2>7. CASE Bit(n, h) = 0
        <3>1. n - (n % Width(h)) = m /\ f[k + 1] = f[k]
            BY <2>3, <2>4, <2>6, <2>7 DEF m
        <3>2. \A i \in 1..Len(f[k]) : f[k][i].height >= h
            <4> SUFFICES ASSUME NEW i \in 1..Len(f[k]) PROVE f[k][i].height >= h
                OBVIOUS
            <4>1. f[k][i].height >= h + 1 /\ f[k][i] \in Coords
                BY <2>2, LayoutType
            <4>2. f[k][i].height \in Nat
                BY <4>1, CoordType
            <4> QED
                BY <2>1, <4>1, <4>2
        <3>3. Len(f[k]) = Cardinality(A(h))
            BY <2>2, <2>5, <2>7, LayoutType
        <3> QED
            BY <2>1, <2>2, <3>1, <3>2, <3>3
    <2>8. CASE Bit(n, h) = 1
        <3> DEFINE c == [start |-> m, height |-> h]
        <3>1. n - (n % Width(h)) = m + Width(h) /\ f[k + 1] = Append(f[k], c)
            BY <2>3, <2>4, <2>6, <2>8 DEF m
        <3>2. m \in Nat /\ c \in Coords /\ f[k] \in Seq(Coords) /\ Len(f[k]) \in Nat
            BY <2>1, <2>2, LayoutType DEF Coords, Layout
        <3>3. ASSUME Len(f[k]) > 0 PROVE h < f[k][Len(f[k])].height
            <4>1. Len(f[k]) \in 1..Len(f[k])
                BY <3>2, <3>3
            <4>2. f[k][Len(f[k])] \in Coords /\ f[k][Len(f[k])].height >= h + 1
                BY <2>2, <3>2, <4>1
            <4>3. f[k][Len(f[k])].height \in Nat
                BY <4>2, CoordType
            <4> QED
                BY <2>1, <4>2, <4>3
        <3>4. Layout(f[k + 1], n - (n % Width(h)))
            BY <2>1, <2>2, <3>1, <3>3, LayoutExtend
        <3>5. /\ Len(f[k + 1]) = Len(f[k]) + 1 /\ f[k + 1][Len(f[k]) + 1] = c
              /\ \A i \in 1..Len(f[k]) : f[k + 1][i] = f[k][i]
            BY <3>1, <3>2
        <3>6. \A i \in 1..Len(f[k + 1]) : f[k + 1][i].height >= h
            <4> SUFFICES ASSUME NEW i \in 1..Len(f[k + 1]) PROVE f[k + 1][i].height >= h
                OBVIOUS
            <4>1. CASE i = Len(f[k]) + 1
                BY <2>1, <3>5, <4>1
            <4>2. CASE i \in 1..Len(f[k])
                <5>1. f[k + 1][i] \in Coords /\ f[k + 1][i].height >= h + 1
                    <6>1. f[k][i] \in Coords /\ f[k][i].height >= h + 1
                        BY <2>2, <3>2, <4>2
                    <6> QED
                        BY <3>5, <4>2, <6>1
                <5>2. f[k + 1][i].height \in Nat
                    BY <5>1, CoordType
                <5> QED
                    BY <2>1, <5>1, <5>2
            <4> QED
                BY <3>2, <3>5, <4>1, <4>2
        <3>7. Len(f[k + 1]) = Cardinality(A(h))
            BY <2>2, <2>5, <2>8, <3>5
        <3> QED
            BY <2>1, <3>4, <3>6, <3>7
    <2> QED
        BY <2>4, <2>7, <2>8
<1>4. Good(TopHeight + 1)
    <2> HIDE DEF Good
    <2>1. TopHeight + 1 \in S
        <3> HIDE DEF S
        <3> QED
            BY <1>2, <1>3, NumbersUpward, HeightAssumption
    <2> QED
        BY <2>1, HeightAssumption
<1>5. TopHeight + 1 - (TopHeight + 1) = 0 /\ n % Width(0) = 0
    <2>1. n % 1 = 0
        OBVIOUS
    <2> QED
        BY <2>1, WidthZero, HeightAssumption
<1>6. A(0) = Ones(n)
    BY DEF Ones
<1> HIDE DEF A
<1> QED
    BY <1>1, <1>4, <1>5, <1>6

-----------------------------------------------------------------------------
(* Merging *)

\* A function on 1..n is a sequence; cut and lengthened it is one again.
LEMMA CutAndAppend ==
    ASSUME NEW n \in Nat, NEW s, s = [i \in 1..n |-> s[i]], NEW r \in 0..n, NEW x
    PROVE  Append(SubSeq(s, 1, r), x) = [i \in 1..(r + 1) |-> IF i <= r THEN s[i] ELSE x]
<1> DEFINE V == {s[i] : i \in 1..n} \cup {x}
<1>1. s \in Seq(V)
    <2>1. \A i \in 1..n : s[i] \in V
        OBVIOUS
    <2> HIDE DEF V
    <2> QED
        BY <2>1
<1>2. Len(s) = n /\ x \in V
    OBVIOUS
<1> HIDE DEF V
<1> DEFINE t == SubSeq(s, 1, r)
<1>3. t \in Seq(V) /\ Len(t) = r /\ \A i \in 1..r : t[i] = s[i]
    BY <1>1, <1>2
<1> HIDE DEF t
<1> DEFINE u == Append(t, x)
<1>4. /\ u \in Seq(V) /\ Len(u) = r + 1 /\ u[r + 1] = x
      /\ \A i \in 1..r : u[i] = t[i]
    BY <1>2, <1>3
<1> HIDE DEF u
<1> DEFINE w == [i \in 1..(r + 1) |-> IF i <= r THEN s[i] ELSE x]
<1>5. w \in Seq(V) /\ Len(w) = r + 1
    <2>1. \A i \in 1..r : s[i] \in V
        BY DEF V
    <2>2. \A i \in 1..(r + 1) : w[i] \in V
        BY <1>2, <2>1
    <2>3. w \in [1..(r + 1) -> V]
        <3>1. w = [i \in 1..(r + 1) |-> w[i]]
            OBVIOUS
        <3> HIDE DEF w
        <3> QED
            BY <2>2, <3>1
    <2> HIDE DEF w
    <2> QED
        BY <2>3
<1>6. \A i \in 1..(r + 1) : u[i] = w[i]
    <2> SUFFICES ASSUME NEW i \in 1..(r + 1) PROVE u[i] = w[i]
        OBVIOUS
    <2>1. CASE i = r + 1
        BY <1>4, <2>1
    <2>2. CASE i \in 1..r
        <3>1. u[i] = s[i]
            BY <1>3, <1>4, <2>2
        <3>2. i <= r
            BY <2>2
        <3> QED
            BY <3>1, <3>2
    <2> QED
        BY <2>1, <2>2
<1>7. u = w
    <2> HIDE DEF w
    <2> QED
        BY <1>4, <1>5, <1>6
<1> QED
    BY <1>7 DEF u, t

\* The beginning of a layout is the layout of the leaves before its next peak.
LEMMA LayoutCut ==
    ASSUME NEW P, NEW n, Layout(P, n), NEW r \in 0..Len(P)
    PROVE  /\ SubSeq(P, 1, r) \in Seq(Coords) /\ Len(SubSeq(P, 1, r)) = r
           /\ \A i \in 1..r : SubSeq(P, 1, r)[i] = P[i]
           /\ Layout(SubSeq(P, 1, r), IF r = Len(P) THEN n ELSE P[r + 1].start)
<1> DEFINE Q == SubSeq(P, 1, r)
           m == IF r = Len(P) THEN n ELSE P[r + 1].start
<1>1. P \in Seq(Coords) /\ Len(P) \in Nat /\ r \in Nat /\ r <= Len(P)
    BY LayoutType DEF Layout
<1>2. Q \in Seq(Coords) /\ Len(Q) = r /\ \A i \in 1..r : Q[i] = P[i]
    BY <1>1
<1> HIDE DEF Q
<1>3. m = IF Len(Q) = 0 THEN 0 ELSE End(Q[Len(Q)])
    <2>1. CASE r = Len(P)
        BY <1>1, <1>2, <2>1 DEF Layout
    <2>2. CASE r # Len(P)
        <3>1. r + 1 \in 1..Len(P) /\ r + 1 - 1 = r /\ (r + 1 = 1 <=> r = 0)
            BY <1>1, <2>2
        <3>2. P[r + 1].start = IF r = 0 THEN 0 ELSE End(P[r])
            BY <3>1 DEF Layout
        <3>3. r # 0 => Q[r] = P[r]
            BY <1>1, <1>2
        <3> QED
            BY <1>2, <2>2, <3>2, <3>3
    <2> QED
        BY <2>1, <2>2
<1>4. ASSUME NEW i \in 1..Len(Q)
      PROVE  /\ Aligned(Q[i].start, Q[i].height + 1)
             /\ Q[i].start = IF i = 1 THEN 0 ELSE End(Q[i - 1])
    <2>1. i \in 1..Len(P) /\ Q[i] = P[i] /\ (i # 1 => Q[i - 1] = P[i - 1])
        BY <1>1, <1>2
    <2> QED
        BY <2>1 DEF Layout
<1>5. ASSUME NEW i \in 1..Len(Q), NEW j \in 1..Len(Q), i < j
      PROVE  Q[j].height < Q[i].height
    <2>1. i \in 1..Len(P) /\ j \in 1..Len(P) /\ Q[i] = P[i] /\ Q[j] = P[j]
        BY <1>1, <1>2
    <2> QED
        BY <1>5, <2>1 DEF Layout
<1>6. Layout(Q, m)
    BY <1>2, <1>3, <1>4, <1>5 DEF Layout
<1> QED
    BY <1>2, <1>6 DEF Q

CarryTurns(peaks, carry, f) ==
    f = [i \in 0..Len(peaks) |->
            IF i = 0 THEN carry ELSE Joined(peaks[Len(peaks) - i + 1], f[i - 1])]

LEMMA CarriedDef ==
    ASSUME NEW peaks, Len(peaks) \in Nat, NEW carry
    PROVE  LET f == Carried(peaks, carry) IN
           /\ f[0] = carry
           /\ \A i \in 1..Len(peaks) : f[i] = Joined(peaks[Len(peaks) - i + 1], f[i - 1])
<1> DEFINE Turn(i, before) == Joined(peaks[Len(peaks) - i + 1], before)
           Solves(f, m) == f = [i \in 0..m |-> IF i = 0 THEN carry ELSE Turn(i, f[i - 1])]
           S == {m \in Nat : \E f : Solves(f, m)}
<1> HIDE DEF Turn
<1>1. 0 \in S
    <2>1. Solves([i \in 0..0 |-> carry], 0)
        OBVIOUS
    <2> QED
        BY <2>1
<1>2. ASSUME NEW m \in Nat, m \in S PROVE m + 1 \in S
    <2>1. PICK f : Solves(f, m)
        BY <1>2
    <2> DEFINE g == [i \in 0..(m + 1) |-> IF i = 0 THEN carry ELSE Turn(i, f[i - 1])]
    <2>2. \A i \in 0..m : g[i] = f[i]
        BY <2>1
    <2>3. \A i \in 0..(m + 1) : i # 0 => g[i - 1] = f[i - 1]
        <3> HIDE DEF g
        <3> QED
            BY <2>2
    <2>4. Solves(g, m + 1)
        BY <2>3
    <2> HIDE DEF g, Solves
    <2> QED
        BY <2>4
<1>3. Len(peaks) \in S
    <2> HIDE DEF S
    <2> QED
        BY <1>1, <1>2, NumbersUpward
<1>4. \E f : CarryTurns(peaks, carry, f)
    BY <1>3 DEF CarryTurns, Turn
<1> DEFINE F == CHOOSE f : CarryTurns(peaks, carry, f)
<1>5. CarryTurns(peaks, carry, F)
    BY <1>4
<1>6. Carried(peaks, carry) = F
    BY DEF Carried, CarryTurns
<1> HIDE DEF F
<1>7. F = [i \in 0..Len(peaks) |-> IF i = 0 THEN carry ELSE Turn(i, F[i - 1])]
    BY <1>5 DEF CarryTurns, Turn
<1>8. F[0] = carry /\ \A i \in 1..Len(peaks) : F[i] = Turn(i, F[i - 1])
    BY <1>7
<1> QED
    BY <1>6, <1>8 DEF Turn

\* The loop ends.
LEMMA JoinsDef ==
    ASSUME NEW peaks, Len(peaks) \in Nat, NEW carry
    PROVE  LET j == Joins(peaks, carry) IN
           /\ j \in 0..Len(peaks)
           /\ \A k \in 0..(j - 1) :
                peaks[Len(peaks) - k].coordinate.height = carry.coordinate.height + k
           /\ j < Len(peaks) =>
                peaks[Len(peaks) - j].coordinate.height # carry.coordinate.height + j
<1> DEFINE Same(k) == peaks[Len(peaks) - k].coordinate.height = carry.coordinate.height + k
           S == {i \in 0..Len(peaks) : i < Len(peaks) => ~Same(i)}
<1> HIDE DEF Same
<1>1. S \subseteq Nat /\ Len(peaks) \in S
    OBVIOUS
<1>2. PICK j \in S : \A i \in S : j <= i
    <2> HIDE DEF S
    <2> QED
        BY <1>1, LeastNumber
<1>3. \A k \in 0..(j - 1) : Same(k)
    BY <1>2
<1>4. \E i \in 0..Len(peaks) : (\A k \in 0..(i - 1) : Same(k)) /\ (i < Len(peaks) => ~Same(i))
    BY <1>2, <1>3
<1> QED
    BY <1>4 DEF Joins, Same

\* A list of peaks with the coordinates P.
OnCoords(P, peaks) ==
    /\ peaks = [i \in 1..Len(P) |-> peaks[i]]
    /\ \A i \in 1..Len(P) : peaks[i].coordinate = P[i]

\* The coordinate of a carry of height h after it has joined the last k peaks.
CarryCoord(P, n, h, k) ==
    [start |-> IF k = 0 THEN n ELSE P[Len(P) - k + 1].start, height |-> h + k]

\* What a layout makes of one more subtree: all joins are of neighbours, every
\* carry ends where the subtree ends, and the result is the layout of the longer
\* range.
MergeGood(P, n, peaks, h, carry) ==
    LET j == Joins(peaks, carry)
        C == Carried(peaks, carry)
        M == MergePeak(peaks, carry) IN
    /\ Len(peaks) = Len(P) /\ j \in 0..Len(P) /\ h + j \in 0..TopHeight
    /\ \A k \in 0..j :
         /\ C[k].coordinate = CarryCoord(P, n, h, k)
         /\ CarryCoord(P, n, h, k) \in Coords
         /\ End(CarryCoord(P, n, h, k)) = n + Width(h)
         /\ Aligned(CarryCoord(P, n, h, k).start, h + k)
    /\ M.adjacent
    /\ M.peaks = [i \in 1..(Len(P) - j + 1) |-> IF i <= Len(P) - j THEN peaks[i] ELSE C[j]]
    /\ M.made = [i \in 1..(j + 1) |-> C[i - 1]]
    /\ Coordinates(M.peaks) = Append(SubSeq(P, 1, Len(P) - j), CarryCoord(P, n, h, j))
    /\ Layout(Coordinates(M.peaks), n + Width(h))

\* A subtree no taller than the last peak is taken up.
LEMMA MergeWorks ==
    ASSUME NEW P, NEW n, Layout(P, n), NEW peaks, OnCoords(P, peaks),
           NEW h \in 0..TopHeight, NEW carry,
           carry.coordinate = [start |-> n, height |-> h],
           Aligned(n, h), n + Width(h) <= MaxLeaves,
           Len(P) > 0 => h <= P[Len(P)].height
    PROVE  MergeGood(P, n, peaks, h, carry)
<1> DEFINE j == Joins(peaks, carry)
           C == Carried(peaks, carry)
           M == MergePeak(peaks, carry)
           N == Len(P)
           K(k) == CarryCoord(P, n, h, k)
<1>1. /\ n \in Nat /\ N \in Nat /\ \A i \in 1..N : P[i] \in Coords /\ P[i].height \in Nat
      /\ h \in Nat /\ h \in Levels
    BY LayoutType, CoordType, HeightAssumption DEF Levels
<1>2. Len(peaks) = N /\ \A i \in 1..N : peaks[i].coordinate = P[i]
    BY <1>1 DEF OnCoords
<1>3. /\ j \in 0..N
      /\ \A k \in 0..(j - 1) : peaks[N - k].coordinate.height = h + k
      /\ j < N => peaks[N - j].coordinate.height # h + j
    BY <1>1, <1>2, JoinsDef
<1>4. C[0] = carry /\ \A i \in 1..N : C[i] = Joined(peaks[N - i + 1], C[i - 1])
    BY <1>1, <1>2, CarriedDef
<1> HIDE DEF j, C, N
<1>5. /\ \A k \in 0..(j - 1) : N - k \in 1..N /\ P[N - k].height = h + k
      /\ j < N => P[N - j].height # h + j
    <2>1. \A k \in 0..(j - 1) : N - k \in 1..N
        BY <1>1, <1>3
    <2>2. j < N => N - j \in 1..N
        BY <1>1, <1>3
    <2> QED
        BY <1>2, <1>3, <2>1, <2>2
<1> DEFINE Good(k) ==
               /\ C[k].coordinate = K(k)
               /\ K(k) \in Coords
               /\ End(K(k)) = n + Width(h)
               /\ Aligned(K(k).start, h + k)
           S == {k \in Nat : k <= j => Good(k)}
<1>6. 0 \in S
    <2>1. K(0) = [start |-> n, height |-> h]
        BY <1>1 DEF CarryCoord
    <2> HIDE DEF K
    <2>2. Good(0)
        BY <1>1, <1>4, <2>1 DEF Coords, End
    <2> QED
        BY <2>2
<1>7. ASSUME NEW k \in Nat, k \in S PROVE k + 1 \in S
    <2> SUFFICES ASSUME k + 1 <= j PROVE Good(k + 1)
        OBVIOUS
    <2>1. k \in 0..(j - 1) /\ k + 1 \in 1..N /\ N - (k + 1) + 1 = N - k /\ k + 1 - 1 = k /\ k <= j
        <3>1. j \in Nat /\ j <= N /\ N \in Nat
            BY <1>1, <1>3
        <3> QED
            BY <3>1
    <2>2. Good(k)
        BY <1>7, <2>1
    <2> DEFINE c == P[N - k]
    <2>3. N - k \in 1..N /\ c \in Coords /\ c.height = h + k /\ peaks[N - k].coordinate = c
        BY <1>1, <1>2, <1>5, <2>1
    <2>4. K(k + 1) = [start |-> c.start, height |-> h + (k + 1)]
        BY <2>1 DEF CarryCoord, N
    <2>5. K(k).start = End(c) /\ K(k).height = h + k
        <3>1. CASE k = 0
            <4>1. K(k).start = n
                BY <3>1 DEF CarryCoord
            <4>2. n = IF N = 0 THEN 0 ELSE End(P[N])
                BY DEF Layout, N
            <4> QED
                BY <1>1, <2>3, <3>1, <4>1, <4>2 DEF CarryCoord
        <3>2. CASE k # 0
            <4>1. K(k).start = P[N - k + 1].start /\ K(k).height = h + k
                BY <3>2 DEF CarryCoord, N
            <4>2. N - k + 1 \in 1..N /\ N - k + 1 # 1 /\ N - k + 1 - 1 = N - k
                BY <1>1, <1>3, <2>1, <3>2
            <4>3. P[N - k + 1].start = End(P[N - k])
                BY <4>2 DEF Layout, N
            <4> QED
                BY <4>1, <4>3
        <3> QED
            BY <3>1, <3>2
    <2> HIDE DEF c, K
    <2>6. C[k + 1] = Joined(peaks[N - k], C[k])
        BY <1>4, <2>1
    <2>7. C[k + 1].coordinate = [start |-> c.start, height |-> (h + k) + 1]
        BY <2>2, <2>3, <2>5, <2>6 DEF Joined
    <2>8. C[k + 1].coordinate = K(k + 1)
        BY <1>1, <2>4, <2>7
    <2>9. /\ c.start \in Nat /\ h + k \in 0..TopHeight /\ h + k \in Levels /\ (h + k) + 1 \in Levels
          /\ Width(h + k) \in Nat /\ Width(h + k) > 0 /\ Width((h + k) + 1) = 2 * Width(h + k)
          /\ End(c) = c.start + Width(h + k)
        BY <2>3, CoordType DEF End
    <2>10. End(K(k)) = End(c) + Width(h + k) /\ End(K(k + 1)) = c.start + Width((h + k) + 1)
        <3>1. (h + k) + 1 = h + (k + 1)
            BY <1>1
        <3> QED
            BY <2>4, <2>5, <3>1 DEF End
    <2>11. End(K(k + 1)) = n + Width(h)
        <3>1. c.start + Width(h + k) + Width(h + k) = n + Width(h)
            BY <2>2, <2>9, <2>10
        <3>2. End(K(k + 1)) = c.start + 2 * Width(h + k)
            BY <2>9, <2>10
        <3> QED
            BY <2>9, <3>1, <3>2
    <2>12. h + (k + 1) \in 0..TopHeight
        <3> SUFFICES ASSUME h + k = TopHeight PROVE FALSE
            BY <1>1, <2>9, HeightAssumption
        <3>1. MaxLeaves = Width(h + k)
            BY DEF MaxLeaves, Width
        <3>2. c.start + 2 * Width(h + k) <= Width(h + k)
            BY <2>9, <2>10, <2>11, <3>1
        <3> QED
            BY <2>9, <3>2
    <2>13. K(k + 1) \in Coords
        BY <2>4, <2>9, <2>12 DEF Coords
    <2>14. Aligned(K(k + 1).start, h + (k + 1))
        <3>1. Aligned(c.start, c.height + 1)
            BY <2>3 DEF Layout, N, c
        <3>2. (h + k) + 1 = h + (k + 1) /\ K(k + 1).start = c.start
            BY <1>1, <2>4
        <3> QED
            BY <2>3, <3>1, <3>2
    <2> QED
        BY <2>8, <2>11, <2>13, <2>14
<1>8. \A k \in 0..j : Good(k)
    <2> HIDE DEF Good
    <2>1. Nat \subseteq S
        <3> HIDE DEF S
        <3> QED
            BY <1>6, <1>7, NumbersUpward
    <2> QED
        BY <1>1, <1>3, <2>1
<1>9. h + j \in 0..TopHeight
    <2>1. j \in 0..j
        BY <1>1, <1>3
    <2>2. K(j) \in Coords
        BY <1>8, <2>1
    <2>3. K(j).height = h + j
        BY DEF CarryCoord
    <2> HIDE DEF K
    <2> QED
        BY <2>2, <2>3, CoordType
<1> HIDE DEF K
<1>10. M.adjacent
    <2> SUFFICES ASSUME NEW i \in 1..j
                 PROVE  C[i - 1].coordinate.start
                            = peaks[N - i + 1].coordinate.start
                                + Width(peaks[N - i + 1].coordinate.height)
        BY <1>2 DEF MergePeak, j, C, N
    <2>1. i - 1 \in 0..(j - 1) /\ i - 1 \in 0..j /\ i \in 0..j /\ N - i + 1 \in 1..N
          /\ N - (i - 1) = N - i + 1
        BY <1>1, <1>3
    <2>2. peaks[N - i + 1].coordinate = P[N - i + 1] /\ P[N - i + 1].height = h + (i - 1)
        BY <1>2, <1>5, <2>1
    <2>3. /\ End(K(i)) = n + Width(h) /\ K(i) \in Coords /\ End(K(i - 1)) = n + Width(h)
          /\ K(i - 1) \in Coords /\ C[i - 1].coordinate = K(i - 1)
        BY <1>8, <2>1
    <2>4. K(i).start = P[N - i + 1].start /\ K(i).height = (h + (i - 1)) + 1
          /\ K(i - 1).height = h + (i - 1)
        BY <1>1, <2>1 DEF K, CarryCoord, N
    <2> DEFINE g == h + (i - 1)
    <2>5. /\ K(i - 1).start \in Nat /\ K(i).start \in Nat
          /\ Width(g + 1) = 2 * Width(g) /\ Width(g) \in Nat
        BY <2>3, <2>4, CoordType
    <2>6. K(i).start + Width(g + 1) = K(i - 1).start + Width(g)
        BY <2>3, <2>4 DEF End
    <2>7. K(i - 1).start = K(i).start + Width(g)
        <3> HIDE DEF g
        <3> QED
            BY <2>5, <2>6
    <2> QED
        BY <2>2, <2>3, <2>4, <2>7
<1>11. M.peaks = [i \in 1..(N - j + 1) |-> IF i <= N - j THEN peaks[i] ELSE C[j]]
    <2>1. M.peaks = Append(SubSeq(peaks, 1, N - j), C[j])
        BY <1>2 DEF MergePeak, j, C
    <2>2. peaks = [i \in 1..N |-> peaks[i]] /\ N - j \in 0..N
        BY <1>1, <1>3 DEF OnCoords, N
    <2> QED
        BY <1>1, <2>1, <2>2, CutAndAppend
<1>12. M.made = [i \in 1..(j + 1) |-> C[i - 1]]
    BY DEF MergePeak, j, C
<1>13. Coordinates(M.peaks) = Append(SubSeq(P, 1, N - j), K(j))
    <2>1. N - j \in 0..N /\ N - j \in Nat
        BY <1>1, <1>3
    <2>2. P = [i \in 1..N |-> P[i]]
        BY DEF Layout, N
    <2>3. Append(SubSeq(P, 1, N - j), K(j)) = [i \in 1..(N - j + 1) |-> IF i <= N - j THEN P[i] ELSE K(j)]
        BY <1>1, <2>1, <2>2, CutAndAppend
    <2>4. j \in 0..j /\ \A i \in 1..(N - j) : i \in 1..N
        BY <1>1, <1>3
    <2>5. \A i \in 1..(N - j + 1) : M.peaks[i].coordinate = IF i <= N - j THEN P[i] ELSE K(j)
        <3> SUFFICES ASSUME NEW i \in 1..(N - j + 1)
                     PROVE  M.peaks[i].coordinate = IF i <= N - j THEN P[i] ELSE K(j)
            OBVIOUS
        <3>1. M.peaks[i] = IF i <= N - j THEN peaks[i] ELSE C[j]
            BY <1>11
        <3>2. C[j].coordinate = K(j)
            BY <1>8, <2>4
        <3>3. i <= N - j => peaks[i].coordinate = P[i]
            BY <1>2, <2>1, <2>4
        <3> QED
            BY <3>1, <3>2, <3>3
    <2>6. DOMAIN M.peaks = 1..(N - j + 1)
        BY <1>11
    <2>7. Coordinates(M.peaks) = [i \in 1..(N - j + 1) |-> M.peaks[i].coordinate]
        BY <2>6 DEF Coordinates
    <2> HIDE DEF M
    <2> QED
        BY <2>3, <2>5, <2>7
<1>14. Layout(Coordinates(M.peaks), n + Width(h))
    <2> DEFINE r == N - j
               Q == SubSeq(P, 1, r)
               m == IF r = N THEN n ELSE P[r + 1].start
    <2>1. r \in 0..N /\ r \in Nat /\ j \in 0..j /\ (r = N <=> j = 0) /\ N - j + 1 = r + 1
        BY <1>1, <1>3
    <2>2. Q \in Seq(Coords) /\ Len(Q) = r /\ (\A i \in 1..r : Q[i] = P[i]) /\ Layout(Q, m)
        BY <2>1, LayoutCut DEF N
    <2>3. K(j) = [start |-> m, height |-> h + j]
        BY <2>1 DEF K, CarryCoord, N
    <2>4. m + Width(h + j) = n + Width(h)
        BY <1>8, <2>1, <2>3 DEF End
    <2>5. ASSUME r > 0 PROVE h + j < P[r].height
        <3>1. r \in 1..N /\ N - j = r /\ j < N
            BY <1>1, <1>3, <2>5
        <3>2. P[r].height # h + j /\ P[r] \in Coords /\ P[r].height \in Nat
            BY <1>1, <1>5, <3>1
        <3>3. CASE j = 0
            <4>1. r = N /\ h <= P[N].height
                BY <1>1, <2>1, <3>1, <3>3 DEF N
            <4> QED
                BY <1>1, <3>2, <3>3, <4>1
        <3>4. CASE j # 0
            <4>1. j - 1 \in 0..(j - 1) /\ N - (j - 1) = r + 1 /\ r + 1 \in 1..N
                BY <1>1, <1>3, <3>1, <3>4
            <4>2. P[r + 1].height = h + (j - 1)
                BY <1>5, <4>1
            <4>3. P[r + 1].height < P[r].height
                BY <2>1, <3>1, <4>1 DEF Layout, N
            <4>4. j \in Nat /\ P[r].height \in Nat /\ h \in Nat
                BY <1>1, <1>3, <3>2
            <4>5. h + (j - 1) < P[r].height
                BY <4>2, <4>3
            <4> HIDE DEF r
            <4> QED
                BY <3>2, <4>4, <4>5
        <3> QED
            BY <3>3, <3>4
    <2> HIDE DEF r, Q, m
    <2>6. Len(Q) > 0 => h + j < Q[Len(Q)].height
        <3>1. r > 0 => r \in 1..r
            BY <2>1
        <3> QED
            BY <2>1, <2>2, <2>5, <3>1
    <2>7. Layout(Append(Q, [start |-> m, height |-> h + j]), m + Width(h + j))
        BY <1>9, <2>2, <2>6, LayoutExtend
    <2> QED
        BY <1>13, <2>3, <2>4, <2>7 DEF Q, r
<1> QED
    BY <1>2, <1>3, <1>8, <1>9, <1>10, <1>11, <1>12, <1>13, <1>14 DEF MergeGood, K, j, C, N

-----------------------------------------------------------------------------
(* Counting nodes *)

\* Aligned numbers are a width apart.
LEMMA AlignedGap ==
    ASSUME NEW a \in Nat, NEW b \in Nat, NEW h \in Levels, Aligned(a, h), Aligned(b, h), a < b
    PROVE  a + Width(h) <= b
<1> DEFINE w == Width(h)
<1>1. w \in Nat /\ w > 0
    BY WidthType
<1>2. PICK p \in Nat : a = p * w
    BY DEF Aligned
<1>3. PICK q \in Nat : b = q * w
    BY DEF Aligned
<1> HIDE DEF w
<1>4. p < q
    <2> SUFFICES ASSUME q <= p PROVE FALSE
        OBVIOUS
    <2>1. q * w <= p * w
        BY <1>1, Multiples
    <2> QED
        BY <1>2, <1>3, <2>1
<1>5. (p + 1) * w <= q * w
    BY <1>1, <1>4, Multiples
<1>6. (p + 1) * w = p * w + w
    BY <1>1
<1> QED
    BY <1>2, <1>3, <1>5, <1>6 DEF w

\* The perfect subtrees of a range of n leaves.
Sub(n) == {c \in Coords : Aligned(c.start, c.height) /\ End(c) <= n}

LEMMA SubtreesAre ==
    ASSUME NEW n \in Nat
    PROVE  Subtrees(n) = Sub(n)
<1>1. ASSUME NEW c \in Subtrees(n) PROVE c \in Sub(n)
    <2>1. c \in Coords /\ c.start % Width(c.height) = 0 /\ End(c) <= n
        BY DEF Subtrees, Coords, End
    <2> QED
        BY <2>1, CoordType, AlignedMod DEF Sub
<1>2. ASSUME NEW c \in Sub(n) PROVE c \in Subtrees(n)
    <2>1. c \in Coords /\ c.start % Width(c.height) = 0 /\ End(c) <= n
        BY CoordType, AlignedMod DEF Sub
    <2>2. /\ c.start \in Nat /\ c.height \in 0..TopHeight /\ Width(c.height) \in Nat
          /\ Width(c.height) > 0 /\ c = [start |-> c.start, height |-> c.height]
        BY <2>1, CoordType
    <2>3. c.start \in 0..(n - 1)
        BY <2>1, <2>2 DEF End
    <2> QED
        BY <2>1, <2>2, <2>3 DEF Subtrees, End
<1> QED
    BY <1>1, <1>2

LEMMA SubMember ==
    ASSUME NEW n \in Nat, NEW c \in Sub(n)
    PROVE  c \in Coords /\ Aligned(c.start, c.height) /\ End(c) <= n
BY DEF Sub

LEMMA SubGrows ==
    ASSUME NEW n \in Nat, NEW m \in Nat, m <= n
    PROVE  Sub(m) \subseteq Sub(n)
<1> SUFFICES ASSUME NEW c \in Sub(m) PROVE c \in Sub(n)
    OBVIOUS
<1>1. c \in Coords /\ Aligned(c.start, c.height) /\ End(c) <= m
    BY SubMember
<1>2. End(c) \in Nat
    BY <1>1, CoordType
<1> QED
    BY <1>1, <1>2 DEF Sub

LEMMA MaxLeavesType == MaxLeaves \in Nat
<1>1. TopHeight \in Levels
    BY HeightAssumption DEF Levels
<1> QED
    BY <1>1, WidthType DEF MaxLeaves, Width

LEMMA NodeCountIs ==
    ASSUME NEW n \in Nat, n <= MaxLeaves
    PROVE  /\ MmrNodeCount(n) = 2 * n - Len(PeakLayout(n)) /\ MmrNodeCount(n) \in Int
           /\ Layout(PeakLayout(n), n) /\ Len(PeakLayout(n)) \in Nat
<1>1. Layout(PeakLayout(n), n) /\ Len(PeakLayout(n)) = Cardinality(Ones(n))
    BY PeakLayoutIs
<1>2. Len(PeakLayout(n)) \in Nat
    BY <1>1, LayoutType
<1> QED
    BY <1>1, <1>2 DEF MmrNodeCount

\* The node over the last leaf of a range stands behind the nodes of the range
\* before that leaf, at the place its height gives.
LEMMA PositionIs ==
    ASSUME NEW n \in Nat, n + 1 <= MaxLeaves, NEW c \in Coords, End(c) = n + 1
    PROVE  NodePosition(c) = MmrNodeCount(n) + c.height
<1>1. c.start + Width(c.height) - 1 = n
    <2>1. c.start + Width(c.height) = n + 1 /\ c.start \in Nat /\ Width(c.height) \in Nat
        BY CoordType DEF End
    <2> QED
        BY <2>1
<1> QED
    BY <1>1 DEF NodePosition, MmrNodeCount

\* The joins of one more leaf, whatever the hashes.
Bare(P) == [i \in 1..Len(P) |-> [coordinate |-> P[i], hash |-> 0]]
JoinsAt(n) == Joins(Bare(PeakLayout(n)), [coordinate |-> [start |-> n, height |-> 0], hash |-> 0])
Carry(n, k) == CarryCoord(PeakLayout(n), n, 0, k)

\* They depend on the coordinates alone.
LEMMA JoinsSame ==
    ASSUME NEW n \in Nat, n + 1 <= MaxLeaves, NEW peaks, OnCoords(PeakLayout(n), peaks),
           NEW carry, carry.coordinate = [start |-> n, height |-> 0]
    PROVE  Joins(peaks, carry) = JoinsAt(n)
<1> DEFINE P == PeakLayout(n)
<1>1. Len(P) \in Nat
    BY NodeCountIs, MaxLeavesType
<1>2. OnCoords(P, Bare(P)) /\ Len(Bare(P)) = Len(P) /\ Len(peaks) = Len(P)
    BY <1>1 DEF OnCoords, Bare
<1> DEFINE carry0 == [coordinate |-> [start |-> n, height |-> 0], hash |-> 0]
           H(ps, k) == ps[Len(P) - k].coordinate.height
           Is(ps, i) == /\ \A k \in 0..(i - 1) : H(ps, k) = 0 + k
                        /\ i < Len(P) => H(ps, i) # 0 + i
<1>3. \A k \in 0..(Len(P) - 1) : H(peaks, k) = H(Bare(P), k)
    <2> SUFFICES ASSUME NEW k \in 0..(Len(P) - 1)
                 PROVE  peaks[Len(P) - k].coordinate = Bare(P)[Len(P) - k].coordinate
        OBVIOUS
    <2>1. Len(P) - k \in 1..Len(P)
        BY <1>1
    <2> QED
        BY <1>2, <2>1 DEF OnCoords
<1> HIDE DEF H
<1>4. \A i \in 0..Len(P) : Is(peaks, i) <=> Is(Bare(P), i)
    <2> SUFFICES ASSUME NEW i \in 0..Len(P) PROVE Is(peaks, i) <=> Is(Bare(P), i)
        OBVIOUS
    <2>1. \A k \in 0..(i - 1) : k \in 0..(Len(P) - 1)
        BY <1>1
    <2>2. i < Len(P) => i \in 0..(Len(P) - 1)
        BY <1>1
    <2> QED
        BY <1>3, <2>1, <2>2
<1>5. Joins(peaks, carry) = CHOOSE i \in 0..Len(P) : Is(peaks, i)
    BY <1>2 DEF Joins, H
<1>6. JoinsAt(n) = CHOOSE i \in 0..Len(P) : Is(Bare(P), i)
    <2>1. JoinsAt(n) = Joins(Bare(P), carry0)
        BY DEF JoinsAt
    <2>2. carry0.coordinate.height = 0
        OBVIOUS
    <2> HIDE DEF carry0
    <2> QED
        BY <1>2, <2>1, <2>2 DEF Joins, H
<1> HIDE DEF Is
<1> QED
    BY <1>4, <1>5, <1>6

\* One more leaf: the new layout, the new nodes and where they stand.
LEMMA LeafAdded ==
    ASSUME NEW n \in Nat, n + 1 <= MaxLeaves
    PROVE  LET j == JoinsAt(n) IN
           /\ j \in 0..Len(PeakLayout(n)) /\ j \in 0..TopHeight
           /\ \A k \in 0..j :
                /\ Carry(n, k) \in Coords /\ Carry(n, k).height = k
                /\ End(Carry(n, k)) = n + 1 /\ Aligned(Carry(n, k).start, k)
                /\ NodePosition(Carry(n, k)) = MmrNodeCount(n) + k
           /\ PeakLayout(n + 1) = Append(SubSeq(PeakLayout(n), 1, Len(PeakLayout(n)) - j), Carry(n, j))
           /\ MmrNodeCount(n + 1) = MmrNodeCount(n) + j + 1
           /\ Sub(n + 1) = Sub(n) \cup {Carry(n, k) : k \in 0..j}
<1> DEFINE P == PeakLayout(n)
           peaks == Bare(P)
           carry == [coordinate |-> [start |-> n, height |-> 0], hash |-> 0]
           j == JoinsAt(n)
           Q == Append(SubSeq(P, 1, Len(P) - j), Carry(n, j))
<1>1. Layout(P, n) /\ Len(P) \in Nat /\ MmrNodeCount(n) = 2 * n - Len(P) /\ n <= MaxLeaves
    BY NodeCountIs, MaxLeavesType
<1>2. OnCoords(P, peaks) /\ carry.coordinate = [start |-> n, height |-> 0]
    BY <1>1 DEF OnCoords, Bare
<1>3. 0 \in 0..TopHeight /\ 0 \in Levels /\ Width(0) = 1 /\ Aligned(n, 0)
    BY HeightAssumption, WidthZero DEF Levels, Aligned
<1>4. Len(P) > 0 => 0 <= P[Len(P)].height
    <2> SUFFICES ASSUME Len(P) > 0 PROVE 0 <= P[Len(P)].height
        OBVIOUS
    <2>1. P[Len(P)].height \in 0..TopHeight
        BY <1>1, LayoutAligned
    <2> QED
        BY <2>1
<1>5. j = Joins(peaks, carry)
    BY DEF JoinsAt
<1> HIDE DEF j, peaks, carry, P
<1>6. /\ j \in 0..Len(P) /\ 0 + j \in 0..TopHeight
      /\ \A k \in 0..j :
            /\ CarryCoord(P, n, 0, k) \in Coords
            /\ End(CarryCoord(P, n, 0, k)) = n + Width(0)
            /\ Aligned(CarryCoord(P, n, 0, k).start, 0 + k)
      /\ Coordinates(MergePeak(peaks, carry).peaks)
            = Append(SubSeq(P, 1, Len(P) - j), CarryCoord(P, n, 0, j))
      /\ Layout(Coordinates(MergePeak(peaks, carry).peaks), n + Width(0))
    <2>1. n + Width(0) <= MaxLeaves
        BY <1>3
    <2> QED
        <3>1. MergeGood(P, n, peaks, 0, carry)
            BY <1>1, <1>2, <1>3, <1>4, <2>1, MergeWorks
        <3> QED
            BY <1>5, <3>1 DEF MergeGood
<1>7. j \in Nat /\ j \in 0..TopHeight /\ j \in 0..j
    BY <1>1, <1>6
<1>8. ASSUME NEW k \in 0..j
      PROVE  /\ Carry(n, k) \in Coords /\ Carry(n, k).height = k
             /\ End(Carry(n, k)) = n + 1 /\ Aligned(Carry(n, k).start, k)
             /\ NodePosition(Carry(n, k)) = MmrNodeCount(n) + k
    <2>1. 0 + k = k
        OBVIOUS
    <2>2. Carry(n, k) = CarryCoord(P, n, 0, k) /\ Carry(n, k).height = k
        BY <2>1 DEF Carry, P, CarryCoord
    <2>3. Carry(n, k) \in Coords /\ End(Carry(n, k)) = n + 1 /\ Aligned(Carry(n, k).start, k)
        BY <1>3, <1>6, <2>1, <2>2
    <2> QED
        BY <2>2, <2>3, PositionIs
<1>9. Layout(Q, n + 1)
    BY <1>3, <1>6 DEF Carry, P
<1>10. Layout(PeakLayout(n + 1), n + 1) /\ MmrNodeCount(n + 1) = 2 * (n + 1) - Len(PeakLayout(n + 1))
    BY NodeCountIs
<1>11. PeakLayout(n + 1) = Q
    BY <1>9, <1>10, LayoutUnique
<1>12. Len(Q) = Len(P) - j + 1 /\ Q[Len(Q)] = Carry(n, j)
    <2>1. Len(P) - j \in 0..Len(P)
        BY <1>1, <1>6
    <2>2. SubSeq(P, 1, Len(P) - j) \in Seq(Coords) /\ Len(SubSeq(P, 1, Len(P) - j)) = Len(P) - j
        BY <1>1, <2>1, LayoutCut
    <2>3. Carry(n, j) \in Coords
        BY <1>7, <1>8
    <2> QED
        BY <2>1, <2>2, <2>3
<1>13. MmrNodeCount(n + 1) = MmrNodeCount(n) + j + 1
    BY <1>1, <1>7, <1>10, <1>11, <1>12
<1>14. ASSUME NEW c \in Sub(n + 1), c \notin Sub(n) PROVE \E k \in 0..j : c = Carry(n, k)
    <2>1. c \in Coords /\ Aligned(c.start, c.height) /\ End(c) <= n + 1 /\ ~(End(c) <= n)
        BY <1>14 DEF Sub
    <2>2. /\ c.start \in Nat /\ c.height \in 0..TopHeight /\ c.height \in Levels
          /\ c = [start |-> c.start, height |-> c.height] /\ Width(c.height) \in Nat
          /\ End(c) \in Nat /\ c.height \in Nat
        BY <2>1, CoordType
    <2>3. End(c) = n + 1
        BY <2>1, <2>2
    <2>4. Aligned(n + 1, c.height)
        <3>1. Aligned(Width(c.height), c.height)
            BY <2>2, AlignedWidth
        <3>2. Aligned(c.start + Width(c.height), c.height)
            BY <2>1, <2>2, <3>1, AlignedSum
        <3> QED
            BY <2>3, <3>2 DEF End
    <2>5. ~Aligned(n + 1, j + 1)
        <3>1. Len(Q) > 0
            BY <1>1, <1>6, <1>12
        <3>2. ~Aligned(n + 1, Q[Len(Q)].height + 1)
            BY <1>9, <3>1, LayoutAligned
        <3> QED
            BY <1>7, <1>8, <1>12, <3>2
    <2>6. c.height <= j
        <3> SUFFICES ASSUME j + 1 <= c.height PROVE FALSE
            BY <1>7, <2>2
        <3>1. j + 1 \in Levels
            BY <1>7, HeightAssumption DEF Levels
        <3> QED
            BY <2>2, <2>4, <2>5, <3>1, AlignedDown
    <2> DEFINE k == c.height
               d == Carry(n, k)
    <2>7. k \in 0..j
        BY <2>2, <2>6
    <2>8. d \in Coords /\ d.height = k /\ End(d) = n + 1
        BY <1>8, <2>7
    <2>9. d.start \in Nat /\ d = [start |-> d.start, height |-> d.height]
        BY <2>8, CoordType
    <2>10. d.start = c.start
        <3>1. d.start + Width(k) = n + 1 /\ c.start + Width(k) = n + 1
            BY <2>3, <2>8 DEF End
        <3> HIDE DEF d, k
        <3>2. Width(k) \in Nat
            BY <2>2 DEF k
        <3> QED
            BY <2>2, <2>9, <3>1, <3>2
    <2>11. c = d
        BY <2>2, <2>8, <2>9, <2>10
    <2> QED
        BY <2>7, <2>11
<1>15. ASSUME NEW k \in 0..j PROVE Carry(n, k) \in Sub(n + 1)
    BY <1>8, CoordType DEF Sub
<1>16. Sub(n) \subseteq Sub(n + 1)
    BY SubGrows
<1>17. Sub(n + 1) = Sub(n) \cup {Carry(n, k) : k \in 0..j}
    BY <1>14, <1>15, <1>16
<1> QED
    BY <1>6, <1>7, <1>8, <1>11, <1>13, <1>17 DEF P, j

\* A function that is one to one and covers a set counts it.
LEMMA CountBy ==
    ASSUME NEW S, IsFiniteSet(S), NEW T, NEW f, f \in [S -> T],
           \A a, b \in S : f[a] = f[b] => a = b,
           \A y \in T : \E a \in S : f[a] = y
    PROVE  IsFiniteSet(T) /\ Cardinality(T) = Cardinality(S)
<1>1. f \in Bijection(S, T)
    BY DEF Bijection, Injection, Surjection, IsInjective
<1>2. ExistsBijection(S, T)
    BY <1>1 DEF ExistsBijection
<1> QED
    BY <1>2, FS_Bijection

\* Every subtree of a range has its place among the nodes of the range, and
\* there are as many places as subtrees.
LEMMA SubtreesCounted ==
    ASSUME NEW n \in Nat, n <= MaxLeaves
    PROVE  /\ MmrNodeCount(n) \in Nat
           /\ IsFiniteSet(Sub(n)) /\ Cardinality(Sub(n)) = MmrNodeCount(n)
           /\ \A c \in Sub(n) : NodePosition(c) \in 0..(MmrNodeCount(n) - 1)
<1> DEFINE Good(k) ==
               /\ MmrNodeCount(k) \in Nat
               /\ IsFiniteSet(Sub(k)) /\ Cardinality(Sub(k)) = MmrNodeCount(k)
               /\ \A c \in Sub(k) : NodePosition(c) \in 0..(MmrNodeCount(k) - 1)
           S == {k \in Nat : k <= MaxLeaves => Good(k)}
<1>1. 0 \in S
    <2>1. Sub(0) = {}
        <3> SUFFICES ASSUME NEW c \in Sub(0) PROVE FALSE
            OBVIOUS
        <3>1. c \in Coords /\ End(c) <= 0
            BY SubMember
        <3> QED
            BY <3>1, CoordType DEF End
    <2>2. MmrNodeCount(0) = 0
        <3>1. MmrNodeCount(0) = 2 * 0 - Len(PeakLayout(0)) /\ Layout(PeakLayout(0), 0)
            BY NodeCountIs, MaxLeavesType
        <3>2. Len(PeakLayout(0)) = 0
            BY <3>1, LayoutType
        <3> QED
            BY <3>1, <3>2
    <2>3. Good(0)
        BY <2>1, <2>2, FS_EmptySet
    <2> QED
        BY <2>3
<1>2. ASSUME NEW k \in Nat, k \in S PROVE k + 1 \in S
    <2> SUFFICES ASSUME k + 1 <= MaxLeaves PROVE Good(k + 1)
        OBVIOUS
    <2>1. Good(k)
        BY <1>2, MaxLeavesType
    <2> DEFINE j == JoinsAt(k)
               T == {Carry(k, i) : i \in 0..j}
    <2>2. j \in Nat
        BY LeafAdded
    <2>3. \A i \in 0..j : /\ Carry(k, i).height = i /\ Carry(k, i) \in Coords
                          /\ End(Carry(k, i)) = k + 1
                          /\ NodePosition(Carry(k, i)) = MmrNodeCount(k) + i
        BY LeafAdded
    <2>4. MmrNodeCount(k + 1) = MmrNodeCount(k) + j + 1 /\ Sub(k + 1) = Sub(k) \cup T
        BY LeafAdded
    <2> HIDE DEF j
    <2>5. IsFiniteSet(T) /\ Cardinality(T) = j + 1
        <3> DEFINE I == 0..j
                   f == [i \in I |-> Carry(k, i)]
        <3>1. IsFiniteSet(I) /\ Cardinality(I) = j + 1
            BY <2>2, FS_Interval
        <3>2. f \in [I -> T] /\ \A y \in T : \E a \in I : f[a] = y
            OBVIOUS
        <3>3. \A a, b \in I : f[a] = f[b] => a = b
            BY <2>3
        <3> HIDE DEF f, T, I
        <3>4. IsFiniteSet(T) /\ Cardinality(T) = Cardinality(I)
            BY <3>1, <3>2, <3>3, CountBy
        <3> QED
            BY <3>1, <3>4
    <2>6. Sub(k) \cap T = {}
        <3> SUFFICES ASSUME NEW i \in 0..j, Carry(k, i) \in Sub(k) PROVE FALSE
            OBVIOUS
        <3>1. End(Carry(k, i)) <= k /\ End(Carry(k, i)) = k + 1
            BY <2>3, SubMember
        <3> QED
            BY <3>1
    <2>7. \A c \in T : NodePosition(c) \in 0..(MmrNodeCount(k + 1) - 1)
        <3> SUFFICES ASSUME NEW i \in 0..j
                     PROVE  NodePosition(Carry(k, i)) \in 0..(MmrNodeCount(k + 1) - 1)
            OBVIOUS
        <3> QED
            BY <2>1, <2>2, <2>3, <2>4
    <2> HIDE DEF T
    <2>8. IsFiniteSet(Sub(k + 1)) /\ Cardinality(Sub(k + 1)) = MmrNodeCount(k) + (j + 1)
        <3>1. Cardinality(Sub(k) \cap T) = 0
            BY <2>6, FS_EmptySet
        <3>2. /\ IsFiniteSet(Sub(k) \cup T)
              /\ Cardinality(Sub(k) \cup T) = Cardinality(Sub(k)) + Cardinality(T) - Cardinality(Sub(k) \cap T)
            BY <2>1, <2>5, FS_Union
        <3> QED
            BY <2>1, <2>2, <2>4, <2>5, <3>1, <3>2
    <2>9. \A c \in Sub(k) : NodePosition(c) \in 0..(MmrNodeCount(k + 1) - 1)
        BY <2>1, <2>2, <2>4
    <2> QED
        BY <2>1, <2>2, <2>4, <2>7, <2>8, <2>9
<1>3. Nat \subseteq S
    <2> HIDE DEF S
    <2> QED
        BY <1>1, <1>2, NumbersUpward
<1> QED
    BY <1>3

-----------------------------------------------------------------------------
(* The peaks are the subtrees no other contains *)

LEMMA PeakIsSubtree ==
    ASSUME NEW n \in Nat, NEW P, Layout(P, n), NEW i \in 1..Len(P)
    PROVE  P[i] \in Sub(n)
<1>1. P[i] \in Coords /\ Aligned(P[i].start, P[i].height + 1) /\ End(P[i]) <= n
    BY LayoutType, LayoutBounds DEF Layout
<1>2. P[i].start \in Nat /\ P[i].height \in Levels /\ P[i].height + 1 \in Levels /\ P[i].height \in Nat
    BY <1>1, CoordType
<1>3. Aligned(P[i].start, P[i].height)
    BY <1>1, <1>2, AlignedDown
<1> QED
    BY <1>1, <1>3 DEF Sub

LEMMA PeakIsLargest ==
    ASSUME NEW n \in Nat, NEW P, Layout(P, n), NEW i \in 1..Len(P),
           NEW d \in Sub(n), Covers(d, P[i])
    PROVE  d = P[i]
<1> DEFINE c == P[i]
<1>1. /\ c \in Coords /\ Aligned(c.start, c.height + 1)
      /\ n < c.start + 2 * Width(c.height)
    BY LayoutType, LayoutBounds DEF Layout
<1>2. d \in Coords /\ Aligned(d.start, d.height) /\ End(d) <= n
    BY SubMember
<1>3. d.start <= c.start /\ End(c) <= End(d)
    BY DEF Covers, End
<1> HIDE DEF c
<1>4. /\ c.start \in Nat /\ c.height \in Nat /\ c.height \in Levels /\ c.height + 1 \in Levels
      /\ Width(c.height) \in Nat /\ Width(c.height) > 0 /\ Width(c.height + 1) = 2 * Width(c.height)
      /\ c = [start |-> c.start, height |-> c.height]
    BY <1>1, CoordType
<1>5. /\ d.start \in Nat /\ d.height \in Nat /\ d.height \in Levels /\ End(d) \in Nat
      /\ Width(d.height) \in Nat /\ Width(d.height) > 0
      /\ d = [start |-> d.start, height |-> d.height]
    BY <1>2, CoordType
<1>6. CASE d.height < c.height
    <2>1. 2 * Width(d.height) <= Width(c.height)
        BY <1>4, <1>5, <1>6, WidthOrder
    <2> QED
        BY <1>3, <1>4, <1>5, <2>1 DEF End
<1>7. CASE d.height = c.height
    <2>1. d.start = c.start
        BY <1>3, <1>4, <1>5, <1>7 DEF End
    <2> QED
        BY <1>4, <1>5, <1>7, <2>1 DEF c
<1>8. CASE d.height > c.height
    <2>1. Aligned(d.start, c.height + 1) /\ Aligned(Width(d.height), c.height + 1)
        BY <1>2, <1>4, <1>5, <1>8, AlignedDown, AlignedWidth
    <2>2. Aligned(End(d), c.height + 1)
        BY <1>4, <1>5, <2>1, AlignedSum DEF End
    <2>3. c.start < End(d)
        BY <1>3, <1>4, <1>5 DEF End
    <2>4. c.start + Width(c.height + 1) <= End(d)
        BY <1>1, <1>4, <1>5, <2>2, <2>3, AlignedGap
    <2> QED
        BY <1>1, <1>2, <1>4, <1>5, <2>4
<1> QED
    BY <1>4, <1>5, <1>6, <1>7, <1>8

\* Every leaf of the range lies under a peak.
LEMMA PeakOver ==
    ASSUME NEW n \in Nat, NEW P, Layout(P, n), NEW leaf \in Nat, leaf < n
    PROVE  \E i \in 1..Len(P) : P[i].start <= leaf /\ leaf < End(P[i])
<1> DEFINE N == Len(P)
<1>1. N \in Nat /\ \A i \in 1..N : P[i] \in Coords
    BY LayoutType
<1>2. N > 0 /\ n = End(P[N]) /\ P[1].start = 0
    <2>1. N # 0
        BY <1>1 DEF Layout
    <2>2. 1 \in 1..N
        BY <1>1, <2>1
    <2> QED
        BY <1>1, <2>1, <2>2 DEF Layout
<1> DEFINE S == {i \in 1..N : leaf < End(P[i])}
<1>3. S \subseteq Nat /\ N \in S
    BY <1>1, <1>2
<1>4. PICK i \in S : \A k \in S : i <= k
    <2> HIDE DEF S
    <2> QED
        BY <1>3, LeastNumber
<1>5. P[i].start <= leaf
    <2>1. CASE i = 1
        BY <1>2, <2>1
    <2>2. CASE i # 1
        <3>1. i - 1 \in 1..N /\ i - 1 \notin S /\ i \in 1..N
            BY <1>1, <1>4, <2>2
        <3>2. P[i].start = End(P[i - 1])
            BY <2>2, <3>1 DEF Layout
        <3>3. End(P[i - 1]) \in Nat /\ ~(leaf < End(P[i - 1]))
            BY <1>1, <3>1, CoordType
        <3> QED
            BY <3>2, <3>3
    <2> QED
        BY <2>1, <2>2
<1> QED
    BY <1>4, <1>5

LEMMA PeakCovers ==
    ASSUME NEW n \in Nat, NEW P, Layout(P, n), NEW c \in Sub(n)
    PROVE  \E i \in 1..Len(P) : Covers(P[i], c)
<1>1. c \in Coords /\ Aligned(c.start, c.height) /\ End(c) <= n
    BY SubMember
<1>2. /\ c.start \in Nat /\ c.height \in Nat /\ c.height \in Levels
      /\ Width(c.height) \in Nat /\ Width(c.height) > 0 /\ End(c) \in Nat
    BY <1>1, CoordType
<1>3. c.start < n
    BY <1>1, <1>2 DEF End
<1>4. PICK i \in 1..Len(P) : P[i].start <= c.start /\ c.start < End(P[i])
    BY <1>2, <1>3, PeakOver
<1> DEFINE p == P[i]
<1>5. /\ p \in Coords /\ Aligned(p.start, p.height + 1) /\ n < p.start + 2 * Width(p.height)
    BY LayoutType, LayoutBounds DEF Layout
<1>6. p.start <= c.start /\ c.start < End(p)
    BY <1>4
<1> HIDE DEF p
<1>7. /\ p.start \in Nat /\ p.height \in Nat /\ p.height \in Levels /\ p.height + 1 \in Levels
      /\ Width(p.height) \in Nat /\ Width(p.height) > 0 /\ Width(p.height + 1) = 2 * Width(p.height)
      /\ End(p) \in Nat
    BY <1>5, CoordType
<1>8. c.height <= p.height
    <2> SUFFICES ASSUME c.height > p.height PROVE FALSE
        BY <1>2, <1>7
    <2>1. Aligned(c.start, p.height + 1)
        BY <1>1, <1>2, <1>7, AlignedDown
    <2>2. ~(p.start < c.start)
        <3> SUFFICES ASSUME p.start < c.start PROVE FALSE
            OBVIOUS
        <3>1. p.start + Width(p.height + 1) <= c.start
            BY <1>2, <1>5, <1>7, <2>1, AlignedGap
        <3>2. End(p) = p.start + Width(p.height)
            BY DEF End
        <3> QED
            BY <1>2, <1>6, <1>7, <3>1, <3>2
    <2>3. 2 * Width(p.height) <= Width(c.height)
        BY <1>2, <1>7, WidthOrder
    <2> QED
        <3>1. End(c) = c.start + Width(c.height)
            BY DEF End
        <3>2. c.start = p.start /\ c.start + Width(c.height) <= n /\ n < p.start + 2 * Width(p.height)
            BY <1>1, <1>2, <1>5, <1>6, <1>7, <2>2, <3>1
        <3> QED
            BY <1>2, <1>7, <2>3, <3>2
<1>9. Aligned(End(p), c.height)
    <2>1. Aligned(p.start, c.height) /\ Aligned(Width(p.height), c.height)
        BY <1>2, <1>5, <1>7, <1>8, AlignedDown, AlignedWidth
    <2> QED
        BY <1>2, <1>7, <2>1, AlignedSum DEF End
<1>10. c.start + Width(c.height) <= End(p)
    BY <1>1, <1>2, <1>6, <1>7, <1>9, AlignedGap
<1> QED
    BY <1>6, <1>10 DEF Covers, End, p

LEMMA LayoutAscending ==
    ASSUME NEW P, NEW n, Layout(P, n), NEW i \in 1..Len(P), NEW j \in 1..Len(P), i < j
    PROVE  End(P[i]) <= P[j].start /\ P[i].start < P[j].start
<1>1. Len(P) \in Nat /\ P[i] \in Coords /\ P[j] \in Coords
    BY LayoutType
<1> DEFINE r == j - 1
<1>2. r \in 0..Len(P) /\ r # Len(P) /\ r + 1 = j /\ i \in 1..r
    BY <1>1
<1> HIDE DEF r
<1> DEFINE Q == SubSeq(P, 1, r)
<1>3. Len(Q) = r /\ Q[i] = P[i] /\ Layout(Q, P[j].start)
    BY <1>2, LayoutCut
<1> HIDE DEF Q
<1>4. End(P[i]) <= P[j].start
    BY <1>2, <1>3, LayoutBounds
<1>5. /\ P[i].start \in Nat /\ Width(P[i].height) \in Nat /\ Width(P[i].height) > 0
      /\ P[j].start \in Nat /\ End(P[i]) = P[i].start + Width(P[i].height)
    BY <1>1, CoordType DEF End
<1> QED
    BY <1>4, <1>5

\* Two ascending lists of the same coordinates are the same list.
Ascending(N, m) ==
    /\ \A i \in 1..N : m[i].start \in Nat
    /\ \A i, k \in 1..N : i < k => m[i].start < m[k].start
Drawn(N, m, p) == \A i \in 1..N : \E k \in 1..N : m[i] = p[k]

LEMMA AscendingStep ==
    ASSUME NEW N \in Nat, NEW m, NEW p, Ascending(N, m), Ascending(N, p),
           NEW k \in 1..N, \A i \in 1..(k - 1) : m[i] = p[i],
           NEW a \in 1..N, m[k] = p[a], NEW b \in 1..N, p[k] = m[b]
    PROVE  m[k] = p[k]
<1>1. /\ m[k].start \in Nat /\ m[a].start \in Nat /\ m[b].start \in Nat
      /\ p[k].start \in Nat /\ p[a].start \in Nat /\ p[b].start \in Nat
    BY DEF Ascending
<1>2. a < k => m[a].start < m[k].start /\ m[a] = p[a]
    <2>1. a < k => a \in 1..(k - 1)
        OBVIOUS
    <2>2. a < k => m[a].start < m[k].start
        BY DEF Ascending
    <2> QED
        BY <2>1, <2>2
<1>3. b < k => p[b].start < p[k].start /\ m[b] = p[b]
    <2>1. b < k => b \in 1..(k - 1)
        OBVIOUS
    <2>2. b < k => p[b].start < p[k].start
        BY DEF Ascending
    <2> QED
        BY <2>1, <2>2
<1>4. (k < a => p[k].start < p[a].start) /\ (k < b => m[k].start < m[b].start)
    BY DEF Ascending
<1>5. m[k].start = p[a].start /\ p[k].start = m[b].start
    OBVIOUS
<1>6. a >= k /\ b >= k
    BY <1>1, <1>2, <1>3, <1>5
<1>7. a = k
    <2>1. k < b => m[k].start < p[k].start
        BY <1>4, <1>5
    <2>2. k = b => m[k].start = p[k].start
        BY <1>5
    <2>3. k < a => p[k].start < m[k].start
        BY <1>4, <1>5
    <2> QED
        BY <1>1, <1>6, <2>1, <2>2, <2>3
<1> QED
    BY <1>7

LEMMA AscendingSame ==
    ASSUME NEW N \in Nat, NEW m, NEW p, Ascending(N, m), Ascending(N, p),
           Drawn(N, m, p), Drawn(N, p, m)
    PROVE  \A i \in 1..N : m[i] = p[i]
<1> DEFINE S == {k \in Nat : \A i \in 1..N : i <= k => m[i] = p[i]}
<1>1. 0 \in S
    OBVIOUS
<1>2. ASSUME NEW k \in Nat, k \in S PROVE k + 1 \in S
    <2>1. \A i \in 1..N : i <= k => m[i] = p[i]
        BY <1>2
    <2>2. ASSUME k + 1 \in 1..N PROVE m[k + 1] = p[k + 1]
        <3>1. PICK a \in 1..N : m[k + 1] = p[a]
            BY <2>2 DEF Drawn
        <3>2. PICK b \in 1..N : p[k + 1] = m[b]
            BY <2>2 DEF Drawn
        <3>3. \A i \in 1..(k + 1 - 1) : m[i] = p[i]
            <4> SUFFICES ASSUME NEW i \in 1..(k + 1 - 1) PROVE m[i] = p[i]
                OBVIOUS
            <4>1. i \in 1..N /\ i <= k
                BY <2>2
            <4> QED
                BY <2>1, <4>1
        <3> QED
            BY <2>2, <3>1, <3>2, <3>3, AscendingStep
    <2>3. \A i \in 1..N : i <= k + 1 => i <= k \/ i = k + 1
        OBVIOUS
    <2> QED
        BY <2>1, <2>2, <2>3
<1> HIDE DEF S
<1>3. Nat \subseteq S
    BY <1>1, <1>2, NumbersUpward
<1>4. N \in S
    BY <1>3
<1> QED
    BY <1>4 DEF S

\* The reference list of mountains is the layout of the code.
LEMMA MountainsAre ==
    ASSUME NEW n \in Nat, n <= MaxLeaves
    PROVE  Mountains(n) = PeakLayout(n)
<1> DEFINE P == PeakLayout(n)
           N == Len(P)
<1>1. Layout(P, n) /\ N \in Nat /\ \A i \in 1..N : P[i] \in Coords /\ P[i].start \in Nat
    BY NodeCountIs, LayoutType, CoordType
<1>2. P = [i \in 1..N |-> P[i]] /\ DOMAIN P = 1..N
    BY <1>1 DEF Layout
<1> HIDE DEF P, N
<1>3. Peaks(n) = {P[i] : i \in 1..N}
    <2>1. ASSUME NEW i \in 1..N PROVE P[i] \in Peaks(n)
        <3>1. P[i] \in Sub(n) /\ \A d \in Sub(n) : Covers(d, P[i]) => d = P[i]
            BY <1>1, PeakIsSubtree, PeakIsLargest DEF N
        <3> QED
            BY <3>1, SubtreesAre DEF Peaks
    <2>2. ASSUME NEW c \in Peaks(n) PROVE \E i \in 1..N : c = P[i]
        <3>1. c \in Sub(n) /\ \A d \in Sub(n) : Covers(d, c) => d = c
            BY SubtreesAre DEF Peaks
        <3>2. PICK i \in 1..N : Covers(P[i], c)
            BY <1>1, <3>1, PeakCovers DEF N
        <3>3. P[i] \in Sub(n)
            BY <1>1, PeakIsSubtree DEF N
        <3> QED
            BY <3>1, <3>2, <3>3
    <2> QED
        BY <2>1, <2>2
<1>4. \A i, k \in 1..N : i < k => P[i].start < P[k].start
    BY <1>1, LayoutAscending DEF N
<1>5. Cardinality(Peaks(n)) = N
    <2> DEFINE I == 1..N
               f == [i \in I |-> P[i]]
    <2>1. IsFiniteSet(I) /\ Cardinality(I) = N
        BY <1>1, FS_Interval
    <2>2. f \in [I -> Peaks(n)] /\ \A y \in Peaks(n) : \E a \in I : f[a] = y
        BY <1>3
    <2>3. \A a, b \in I : f[a] = f[b] => a = b
        <3> SUFFICES ASSUME NEW a \in 1..N, NEW b \in 1..N, P[a] = P[b] PROVE a = b
            OBVIOUS
        <3>1. ~(P[a].start < P[b].start) /\ ~(P[b].start < P[a].start)
            BY <1>1
        <3>2. ~(a < b) /\ ~(b < a)
            BY <1>4, <3>1
        <3> QED
            BY <3>2
    <2> HIDE DEF I, f
    <2>4. Cardinality(Peaks(n)) = Cardinality(I)
        BY <2>1, <2>2, <2>3, CountBy
    <2> QED
        BY <2>1, <2>4
<1> DEFINE Lists == [1..N -> Peaks(n)]
           Is(m) == /\ Range(m) = Peaks(n)
                    /\ \A i, j \in DOMAIN m : i < j => m[i].start < m[j].start
<1>6. P \in Lists /\ Is(P)
    <2>1. P \in Lists
        BY <1>2, <1>3
    <2>2. Range(P) = {P[i] : i \in 1..N}
        BY <1>2 DEF Range
    <2> QED
        BY <1>2, <1>3, <1>4, <2>1, <2>2
<1>7. ASSUME NEW m \in Lists, Is(m) PROVE m = P
    <2>1. DOMAIN m = 1..N /\ m = [i \in 1..N |-> m[i]] /\ \A i \in 1..N : m[i] \in Peaks(n)
        OBVIOUS
    <2>2. Drawn(N, m, P)
        BY <1>3, <2>1 DEF Drawn
    <2>3. Drawn(N, P, m)
        <3> SUFFICES ASSUME NEW i \in 1..N PROVE \E k \in 1..N : P[i] = m[k]
            BY DEF Drawn
        <3>1. P[i] \in Range(m)
            BY <1>3, <1>7
        <3> QED
            BY <2>1, <3>1 DEF Range
    <2>4. Ascending(N, P)
        BY <1>1, <1>4 DEF Ascending
    <2>5. Ascending(N, m)
        <3>1. \A i \in 1..N : m[i].start \in Nat
            BY <1>1, <2>2 DEF Drawn
        <3> QED
            BY <1>7, <2>1, <3>1 DEF Ascending
    <2>6. \A i \in 1..N : m[i] = P[i]
        <3> HIDE DEF Is
        <3> QED
            BY <1>1, <2>2, <2>3, <2>4, <2>5, AscendingSame
    <2> QED
        BY <1>2, <2>1, <2>6
<1>8. Mountains(n) = CHOOSE m \in Lists : Is(m)
    BY <1>5 DEF Mountains
<1> HIDE DEF Lists, Is
<1>9. Mountains(n) = P
    BY <1>6, <1>7, <1>8
<1> QED
    BY <1>9 DEF P

-----------------------------------------------------------------------------
(* Hashes *)

\* The levels of the hashes of a log.
LevelTurns(log, f) ==
    f = [h \in 0..TopHeight |->
            [start \in Nat |->
                IF h = 0 THEN LeafHash(start, log[start + 1])
                ELSE ParentHash(h, f[h - 1][start], f[h - 1][start + Width(h - 1)])]]

LEMMA LevelTurnsExist ==
    ASSUME NEW log
    PROVE  \E f : LevelTurns(log, f)
<1> DEFINE Turn(h, below) ==
               [start \in Nat |->
                    IF h = 0 THEN LeafHash(start, log[start + 1])
                    ELSE ParentHash(h, below[start], below[start + Width(h - 1)])]
           Solves(f, m) == f = [h \in 0..m |-> Turn(h, f[h - 1])]
           S == {m \in Nat : \E f : Solves(f, m)}
<1>1. 0 \in S
    <2> DEFINE f == [h \in 0..0 |-> Turn(h, 0)]
    <2>1. Turn(0, 0) = Turn(0, f[0 - 1])
        OBVIOUS
    <2> HIDE DEF Turn
    <2>2. \A h \in 0..0 : Turn(h, 0) = Turn(h, f[h - 1])
        BY <2>1
    <2>3. Solves(f, 0)
        BY <2>2
    <2> QED
        BY <2>3
<1>2. ASSUME NEW m \in Nat, m \in S PROVE m + 1 \in S
    <2>1. PICK f : Solves(f, m)
        BY <1>2
    <2> DEFINE g == [h \in 0..(m + 1) |-> Turn(h, f[h - 1])]
    <2>2. Turn(0, f[0 - 1]) = Turn(0, g[0 - 1])
        OBVIOUS
    <2> HIDE DEF Turn
    <2>3. \A h \in 0..m : g[h] = f[h]
        BY <2>1
    <2>4. \A h \in 0..(m + 1) : h # 0 => g[h - 1] = f[h - 1]
        <3> HIDE DEF g
        <3> QED
            BY <2>3
    <2>5. \A h \in 0..(m + 1) : Turn(h, f[h - 1]) = Turn(h, g[h - 1])
        <3> HIDE DEF g
        <3> QED
            BY <2>2, <2>4
    <2>6. Solves(g, m + 1)
        BY <2>5
    <2> HIDE DEF g, Solves
    <2> QED
        BY <2>6
<1>3. TopHeight \in S
    <2> HIDE DEF S
    <2> QED
        BY <1>1, <1>2, NumbersUpward, HeightAssumption
<1> QED
    BY <1>3 DEF LevelTurns

LEMMA PerfectHashTurns ==
    ASSUME NEW log
    PROVE  \E f : LevelTurns(log, f) /\ \A c : PerfectHash(log, c) = f[c.height][c.start]
<1> DEFINE F == CHOOSE f : LevelTurns(log, f)
<1>1. LevelTurns(log, F)
    BY LevelTurnsExist
<1>2. \A c : PerfectHash(log, c) = F[c.height][c.start]
    BY DEF PerfectHash, LevelTurns
<1> HIDE DEF F
<1> QED
    BY <1>1, <1>2

At(s, h) == [start |-> s, height |-> h]

\* The hash of a subtree, from its record or from its children.
LEMMA PerfectHashIs ==
    ASSUME NEW log, NEW s \in Nat, NEW h \in 0..TopHeight
    PROVE  PerfectHash(log, At(s, h)) =
              IF h = 0 THEN LeafHash(s, log[s + 1])
              ELSE ParentHash(h, PerfectHash(log, At(s, h - 1)),
                                 PerfectHash(log, At(s + Width(h - 1), h - 1)))
<1>1. PICK f : LevelTurns(log, f) /\ \A c : PerfectHash(log, c) = f[c.height][c.start]
    BY PerfectHashTurns
<1>2. \A a, b : PerfectHash(log, At(a, b)) = f[b][a]
    BY <1>1 DEF At
<1>3. f[h][s] = IF h = 0 THEN LeafHash(s, log[s + 1])
                ELSE ParentHash(h, f[h - 1][s], f[h - 1][s + Width(h - 1)])
    <2> DEFINE Row(k, below) ==
                   [start \in Nat |->
                        IF k = 0 THEN LeafHash(start, log[start + 1])
                        ELSE ParentHash(k, below[start], below[start + Width(k - 1)])]
    <2>1. f = [k \in 0..TopHeight |-> Row(k, f[k - 1])]
        BY <1>1 DEF LevelTurns
    <2> HIDE DEF Row
    <2>2. f[h] = Row(h, f[h - 1])
        BY <2>1
    <2> USE DEF Row
    <2>3. Row(h, f[h - 1])[s] = IF h = 0 THEN LeafHash(s, log[s + 1])
                ELSE ParentHash(h, f[h - 1][s], f[h - 1][s + Width(h - 1)])
        OBVIOUS
    <2> HIDE DEF Row
    <2> QED
        BY <2>2, <2>3
<1> QED
    BY <1>2, <1>3

\* The two halves of a subtree.
LEMMA Halves ==
    ASSUME NEW s \in Nat, NEW h \in 0..TopHeight, h # 0
    PROVE  /\ h - 1 \in 0..TopHeight /\ Width(h - 1) \in Nat /\ Width(h - 1) > 0
           /\ Width(h) = 2 * Width(h - 1)
           /\ s + Width(h - 1) \in Nat
           /\ s + Width(h) = (s + Width(h - 1)) + Width(h - 1)
<1>1. h - 1 \in 0..TopHeight /\ h - 1 \in Levels /\ (h - 1) + 1 = h
    BY HeightAssumption DEF Levels
<1>2. Width(h - 1) \in Nat /\ Width(h - 1) > 0 /\ Width(h) = 2 * Width(h - 1)
    BY <1>1, WidthType, WidthNext
<1> QED
    BY <1>1, <1>2

\* The hash of a subtree says of two logs whether they agree on its leaves.
LEMMA PerfectHashExact ==
    ASSUME NEW log, NEW other
    PROVE  \A h \in 0..TopHeight : \A s \in Nat :
              PerfectHash(log, At(s, h)) = PerfectHash(other, At(s, h))
                 <=> \A i \in s..(s + Width(h) - 1) : log[i + 1] = other[i + 1]
<1> DEFINE Good(h) == \A s \in Nat :
               PerfectHash(log, At(s, h)) = PerfectHash(other, At(s, h))
                  <=> \A i \in s..(s + Width(h) - 1) : log[i + 1] = other[i + 1]
           S == {h \in Nat : h <= TopHeight => Good(h)}
<1>1. 0 \in S
    <2> SUFFICES ASSUME NEW s \in Nat
                 PROVE  PerfectHash(log, At(s, 0)) = PerfectHash(other, At(s, 0))
                  <=> \A i \in s..(s + Width(0) - 1) : log[i + 1] = other[i + 1]
        OBVIOUS
    <2>1. /\ PerfectHash(log, At(s, 0)) = LeafHash(s, log[s + 1])
          /\ PerfectHash(other, At(s, 0)) = LeafHash(s, other[s + 1])
        BY PerfectHashIs, HeightAssumption
    <2>2. s..(s + Width(0) - 1) = {s}
        BY WidthZero
    <2> QED
        BY <2>1, <2>2 DEF LeafHash
<1>2. ASSUME NEW k \in Nat, k \in S PROVE k + 1 \in S
    <2> SUFFICES ASSUME k + 1 <= TopHeight, NEW s \in Nat
                 PROVE  PerfectHash(log, At(s, k + 1)) = PerfectHash(other, At(s, k + 1))
                  <=> \A i \in s..(s + Width(k + 1) - 1) : log[i + 1] = other[i + 1]
        OBVIOUS
    <2>1. k + 1 \in 0..TopHeight /\ k + 1 # 0 /\ k + 1 - 1 = k /\ k <= TopHeight
        BY HeightAssumption
    <2>2. Good(k)
        BY <1>2, <2>1
    <2> DEFINE m == s + Width(k)
    <2>3. /\ m \in Nat /\ Width(k) \in Nat /\ Width(k) > 0
          /\ s + Width(k + 1) = m + Width(k) /\ Width(k + 1) = 2 * Width(k)
        BY <2>1, Halves
    <2>4. /\ PerfectHash(log, At(s, k + 1))
                = ParentHash(k + 1, PerfectHash(log, At(s, k)), PerfectHash(log, At(m, k)))
          /\ PerfectHash(other, At(s, k + 1))
                = ParentHash(k + 1, PerfectHash(other, At(s, k)), PerfectHash(other, At(m, k)))
        <3>1. \A l : PerfectHash(l, At(s, k + 1))
                       = ParentHash(k + 1, PerfectHash(l, At(s, k + 1 - 1)),
                                    PerfectHash(l, At(s + Width(k + 1 - 1), k + 1 - 1)))
            BY <2>1, PerfectHashIs
        <3>2. k + 1 - 1 = k
            BY <2>1
        <3> QED
            BY <3>1, <3>2
    <2>5. s..(s + Width(k + 1) - 1) = s..(s + Width(k) - 1) \cup m..(m + Width(k) - 1)
        <3> DEFINE w == Width(k)
                   v == Width(k + 1)
        <3>1. w \in Nat /\ w > 0 /\ v = 2 * w /\ m = s + w
            BY <2>3
        <3> HIDE DEF w, v, m
        <3>2. s..(m + w - 1) = s..(s + w - 1) \cup m..(m + w - 1)
            BY <3>1
        <3>3. s..(s + v - 1) = s..(m + w - 1)
            BY <3>1
        <3> QED
            BY <3>2, <3>3 DEF w, v, m
    <2>6. PerfectHash(log, At(s, k)) = PerfectHash(other, At(s, k))
             <=> \A i \in s..(s + Width(k) - 1) : log[i + 1] = other[i + 1]
        BY <2>2
    <2>7. PerfectHash(log, At(m, k)) = PerfectHash(other, At(m, k))
             <=> \A i \in m..(m + Width(k) - 1) : log[i + 1] = other[i + 1]
        BY <2>2, <2>3
    <2>8. PerfectHash(log, At(s, k + 1)) = PerfectHash(other, At(s, k + 1))
             <=> /\ PerfectHash(log, At(s, k)) = PerfectHash(other, At(s, k))
                 /\ PerfectHash(log, At(m, k)) = PerfectHash(other, At(m, k))
        BY <2>4 DEF ParentHash
    <2> QED
        BY <2>5, <2>6, <2>7, <2>8
<1>3. Nat \subseteq S
    <2> HIDE DEF S
    <2> QED
        BY <1>1, <1>2, NumbersUpward
<1> QED
    BY <1>3

\* Logs that agree on the leaves of a subtree give it the same hash.
LEMMA PerfectHashLocal ==
    ASSUME NEW log, NEW other, NEW n \in Nat, NEW c \in Sub(n),
           \A i \in 1..n : log[i] = other[i]
    PROVE  PerfectHash(log, c) = PerfectHash(other, c)
<1>1. c \in Coords /\ End(c) <= n
    BY SubMember
<1>2. /\ c.start \in Nat /\ c.height \in 0..TopHeight /\ Width(c.height) \in Nat
      /\ c = At(c.start, c.height)
    BY <1>1, CoordType DEF At
<1>3. \A i \in c.start..(c.start + Width(c.height) - 1) : i + 1 \in 1..n
    BY <1>1, <1>2 DEF End
<1>4. \A i \in c.start..(c.start + Width(c.height) - 1) : log[i + 1] = other[i + 1]
    BY <1>3
<1>5. \A h \in 0..TopHeight : \A s \in Nat :
          PerfectHash(log, At(s, h)) = PerfectHash(other, At(s, h))
             <=> \A i \in s..(s + Width(h) - 1) : log[i + 1] = other[i + 1]
    BY PerfectHashExact
<1>6. PerfectHash(log, At(c.start, c.height)) = PerfectHash(other, At(c.start, c.height))
    BY <1>2, <1>4, <1>5
<1> QED
    BY <1>2, <1>6

\* Peaks with the hashes that the log gives them, and their root.
Hashed(log, c) == [coordinate |-> c, hash |-> PerfectHash(log, c)]
HashedPeaks(log, P) == [i \in 1..Len(P) |-> Hashed(log, P[i])]
TruePeaks(log, n) == HashedPeaks(log, PeakLayout(n))
RootAt(log, n) == RootOfPeaks(n, TruePeaks(log, n))

LEMMA HashedOnCoords ==
    ASSUME NEW log, NEW P, NEW n, Layout(P, n)
    PROVE  OnCoords(P, HashedPeaks(log, P)) /\ Coordinates(HashedPeaks(log, P)) = P
<1>1. Len(P) \in Nat /\ P = [i \in 1..Len(P) |-> P[i]]
    BY LayoutType DEF Layout
<1>2. OnCoords(P, HashedPeaks(log, P))
    BY DEF OnCoords, HashedPeaks, Hashed
<1>3. Coordinates(HashedPeaks(log, P)) = [i \in 1..Len(P) |-> P[i]]
    BY DEF Coordinates, HashedPeaks, Hashed
<1> QED
    BY <1>1, <1>2, <1>3

\* The root that the code computes from true peaks is that of the reference.
LEMMA ReferenceRootIs ==
    ASSUME NEW log, NEW n \in Nat, n <= MaxLeaves, Len(log) = n
    PROVE  ReferenceRoot(log) = RootAt(log, n)
<1> DEFINE P == PeakLayout(n)
<1>1. Mountains(n) = P /\ Layout(P, n)
    BY MountainsAre, NodeCountIs
<1>2. DOMAIN P = 1..Len(P) /\ Len(P) \in Nat
    BY <1>1, LayoutType
<1>3. ReferenceRoot(log)
         = <<"root", n, [i \in 1..Len(P) |-> <<P[i].height, PerfectHash(log, P[i])>>]>>
    BY <1>1, <1>2 DEF ReferenceRoot
<1>4. Hashes(TruePeaks(log, n)) = [i \in 1..Len(P) |-> PerfectHash(log, P[i])]
    BY DEF Hashes, TruePeaks, HashedPeaks, Hashed
<1> DEFINE hs == Hashes(TruePeaks(log, n))
<1>5. RootAt(log, n) = <<"root", n, [i \in 1..Len(P) |-> <<P[i].height, hs[i]>>]>>
    BY <1>2 DEF RootAt, RootOfPeaks, RootOfHashes
<1>6. \A i \in 1..Len(P) : hs[i] = PerfectHash(log, P[i])
    BY <1>4
<1> HIDE DEF hs, P
<1> QED
    BY <1>3, <1>5, <1>6

LEMMA TruePeaksLocal ==
    ASSUME NEW log, NEW other, NEW n \in Nat, n <= MaxLeaves,
           \A i \in 1..n : log[i] = other[i]
    PROVE  TruePeaks(log, n) = TruePeaks(other, n) /\ RootAt(log, n) = RootAt(other, n)
<1> DEFINE P == PeakLayout(n)
<1>1. Layout(P, n)
    BY NodeCountIs
<1>2. \A i \in 1..Len(P) : P[i] \in Sub(n)
    BY <1>1, PeakIsSubtree
<1>3. \A i \in 1..Len(P) : PerfectHash(log, P[i]) = PerfectHash(other, P[i])
    BY <1>2, PerfectHashLocal
<1>4. TruePeaks(log, n) = TruePeaks(other, n)
    BY <1>3 DEF TruePeaks, HashedPeaks, Hashed
<1> QED
    BY <1>4 DEF RootAt

\* What the joins of a merge make of the hashes, and a log of its subtrees.
MergeHashing(log, P, n, peaks, h, carry) ==
    LET C == Carried(peaks, carry)
        N == Len(P) IN
    /\ C[0] = carry
    /\ \A k \in 0..(Joins(peaks, carry) - 1) :
         /\ N - k \in 1..N
         /\ C[k + 1] = [coordinate |-> CarryCoord(P, n, h, k + 1),
                       hash |-> ParentHash(h + k + 1, peaks[N - k].hash, C[k].hash)]
         /\ PerfectHash(log, CarryCoord(P, n, h, k + 1))
              = ParentHash(h + k + 1, PerfectHash(log, P[N - k]),
                           PerfectHash(log, CarryCoord(P, n, h, k)))

LEMMA MergeHashes ==
    ASSUME NEW log, NEW P, NEW n, Layout(P, n), NEW peaks, OnCoords(P, peaks),
           NEW h \in 0..TopHeight, NEW carry, carry.coordinate = [start |-> n, height |-> h],
           MergeGood(P, n, peaks, h, carry)
    PROVE  MergeHashing(log, P, n, peaks, h, carry)
<1> DEFINE j == Joins(peaks, carry)
           C == Carried(peaks, carry)
           N == Len(P)
           K(k) == CarryCoord(P, n, h, k)
<1>1. n \in Nat /\ N \in Nat /\ h \in Nat
    BY LayoutType
<1>2. /\ Len(peaks) = N /\ j \in 0..N
      /\ \A k \in 0..j :
           /\ C[k].coordinate = K(k)
           /\ K(k) \in Coords
           /\ End(K(k)) = n + Width(h)
    BY DEF MergeGood
<1>3. \A k \in 0..(j - 1) : peaks[N - k].coordinate.height = h + k
    <2>1. Len(peaks) = N /\ Len(peaks) \in Nat
        BY <1>1, <1>2
    <2>2. \A k \in 0..(j - 1) :
             peaks[Len(peaks) - k].coordinate.height = carry.coordinate.height + k
        BY <2>1, JoinsDef
    <2> QED
        BY <2>1, <2>2
<1>4. C[0] = carry /\ \A i \in 1..N : C[i] = Joined(peaks[N - i + 1], C[i - 1])
    BY <1>1, <1>2, CarriedDef
<1> HIDE DEF j, C, N
<1>5. ASSUME NEW k \in 0..(j - 1)
      PROVE  /\ N - k \in 1..N
             /\ C[k + 1] = [coordinate |-> K(k + 1),
                           hash |-> ParentHash(h + k + 1, peaks[N - k].hash, C[k].hash)]
             /\ PerfectHash(log, K(k + 1))
                  = ParentHash(h + k + 1, PerfectHash(log, P[N - k]), PerfectHash(log, K(k)))
    <2>1. j \in Nat /\ j <= N
        BY <1>1, <1>2
    <2>2. /\ k \in Nat /\ k \in 0..j /\ k + 1 \in 0..j
          /\ N - k \in 1..N /\ k + 1 \in 1..N /\ N - (k + 1) + 1 = N - k /\ k + 1 - 1 = k
        BY <1>1, <2>1
    <2> DEFINE g == h + k
               c == P[N - k]
    <2>3. C[k + 1] = Joined(peaks[N - k], C[k])
        BY <1>4, <2>2
    <2>4. peaks[N - k].coordinate = c /\ c.height = g
        <3>1. peaks[N - k].coordinate = c
            BY <2>2 DEF OnCoords, N
        <3> QED
            BY <1>3, <3>1
    <2>5. c \in Coords /\ g \in Nat /\ h + (k + 1) = g + 1 /\ h + k + 1 = g + 1
        BY <1>1, <2>2, LayoutType DEF N
    <2>6. K(k + 1) = At(c.start, g + 1) /\ K(k).height = g
        BY <2>2, <2>5 DEF CarryCoord, At, N
    <2>7. /\ C[k].coordinate = K(k) /\ K(k) \in Coords /\ K(k + 1) \in Coords
          /\ End(K(k)) = End(K(k + 1))
        BY <1>2, <2>2
    <2> HIDE DEF g, c, K
    <2>8. /\ c.start \in Nat /\ Width(g) \in Nat /\ Width(g + 1) = 2 * Width(g) /\ c = At(c.start, g)
          /\ K(k).start \in Nat /\ K(k) = At(K(k).start, g)
        <3>1. c.start \in Nat /\ Width(g) \in Nat /\ Width(g + 1) = 2 * Width(g) /\ c = At(c.start, g)
            BY <2>4, <2>5, CoordType DEF At
        <3>2. K(k).start \in Nat /\ K(k) = At(K(k).start, g)
            BY <2>6, <2>7, CoordType DEF At
        <3> QED
            BY <3>1, <3>2
    <2>9. K(k).start = c.start + Width(g)
        <3>1. End(K(k)) = K(k).start + Width(g) /\ End(K(k + 1)) = c.start + Width(g + 1)
            BY <2>6, <2>8 DEF End, At
        <3> QED
            BY <2>7, <2>8, <3>1
    <2>10. g + 1 \in 0..TopHeight /\ g + 1 # 0 /\ (g + 1) - 1 = g
        <3>1. K(k + 1).height = g + 1
            BY <2>6 DEF At
        <3>2. K(k + 1).height \in 0..TopHeight
            BY <2>7, CoordType
        <3> QED
            BY <2>5, <3>1, <3>2
    <2>11. PerfectHash(log, K(k + 1)) = ParentHash(g + 1, PerfectHash(log, c), PerfectHash(log, K(k)))
        <3>1. PerfectHash(log, At(c.start, g + 1))
                = ParentHash(g + 1, PerfectHash(log, At(c.start, (g + 1) - 1)),
                             PerfectHash(log, At(c.start + Width((g + 1) - 1), (g + 1) - 1)))
            <4> DEFINE d == g + 1
            <4>1. d \in 0..TopHeight /\ d # 0 /\ c.start \in Nat
                BY <2>8, <2>10
            <4> HIDE DEF d
            <4>2. PerfectHash(log, At(c.start, d))
                    = ParentHash(d, PerfectHash(log, At(c.start, d - 1)),
                                 PerfectHash(log, At(c.start + Width(d - 1), d - 1)))
                BY <4>1, PerfectHashIs
            <4> QED
                BY <4>2 DEF d
        <3>2. PerfectHash(log, At(c.start, g + 1))
                = ParentHash(g + 1, PerfectHash(log, At(c.start, g)),
                             PerfectHash(log, At(c.start + Width(g), g)))
            BY <2>10, <3>1
        <3>3. K(k) = At(c.start + Width(g), g)
            BY <2>8, <2>9
        <3> QED
            BY <2>6, <2>8, <3>2, <3>3
    <2>12. C[k + 1] = [coordinate |-> K(k + 1),
                       hash |-> ParentHash(g + 1, peaks[N - k].hash, C[k].hash)]
        BY <2>3, <2>4, <2>6, <2>7 DEF Joined, At
    <2> QED
        BY <2>2, <2>5, <2>11, <2>12 DEF c
<1> QED
    BY <1>4, <1>5 DEF MergeHashing, j, C, N, K

\* Merging keeps the hashes true.
LEMMA MergeTrue ==
    ASSUME NEW log, NEW P, NEW n, Layout(P, n), NEW h \in 0..TopHeight,
           Aligned(n, h), n + Width(h) <= MaxLeaves, Len(P) > 0 => h <= P[Len(P)].height
    PROVE  LET peaks == HashedPeaks(log, P)
               carry == Hashed(log, At(n, h))
               j == Joins(peaks, carry)
               M == MergePeak(peaks, carry) IN
           /\ MergeGood(P, n, peaks, h, carry)
           /\ \A k \in 0..j : Carried(peaks, carry)[k] = Hashed(log, CarryCoord(P, n, h, k))
           /\ M.peaks = HashedPeaks(log, Coordinates(M.peaks))
<1> DEFINE peaks == HashedPeaks(log, P)
           carry == Hashed(log, At(n, h))
           j == Joins(peaks, carry)
           C == Carried(peaks, carry)
           M == MergePeak(peaks, carry)
           N == Len(P)
           K(k) == CarryCoord(P, n, h, k)
<1>1. n \in Nat /\ N \in Nat /\ h \in Nat
    BY LayoutType
<1>2. OnCoords(P, peaks) /\ carry.coordinate = [start |-> n, height |-> h]
    BY HashedOnCoords DEF Hashed, At
<1> HIDE DEF peaks, carry
<1>3. MergeGood(P, n, peaks, h, carry)
    BY <1>2, MergeWorks
<1>4. /\ Len(peaks) = N /\ j \in 0..N /\ h + j \in 0..TopHeight
      /\ \A k \in 0..j :
           /\ C[k].coordinate = K(k)
           /\ K(k) \in Coords
           /\ End(K(k)) = n + Width(h)
      /\ M.peaks = [i \in 1..(N - j + 1) |-> IF i <= N - j THEN peaks[i] ELSE C[j]]
      /\ Coordinates(M.peaks) = Append(SubSeq(P, 1, N - j), K(j))
    BY <1>3 DEF MergeGood
<1>5. /\ C[0] = carry
      /\ \A k \in 0..(j - 1) :
           /\ N - k \in 1..N
           /\ C[k + 1] = [coordinate |-> K(k + 1),
                         hash |-> ParentHash(h + k + 1, peaks[N - k].hash, C[k].hash)]
           /\ PerfectHash(log, K(k + 1))
                = ParentHash(h + k + 1, PerfectHash(log, P[N - k]), PerfectHash(log, K(k)))
    <2>1. MergeHashing(log, P, n, peaks, h, carry)
        BY <1>2, <1>3, MergeHashes
    <2> QED
        BY <2>1 DEF MergeHashing
<1> HIDE DEF j, C, N, M
<1> DEFINE S == {k \in Nat : k <= j => C[k] = Hashed(log, K(k))}
<1>6. 0 \in S
    <2>1. K(0) = At(n, h)
        BY <1>1 DEF CarryCoord, At
    <2> HIDE DEF K
    <2> QED
        BY <1>5, <2>1 DEF carry
<1>7. ASSUME NEW k \in Nat, k \in S PROVE k + 1 \in S
    <2> SUFFICES ASSUME k + 1 <= j PROVE C[k + 1] = Hashed(log, K(k + 1))
        OBVIOUS
    <2>1. k \in 0..(j - 1) /\ k <= j
        BY <1>1, <1>4
    <2> HIDE DEF K
    <2>2. C[k].hash = PerfectHash(log, K(k))
        BY <1>7, <2>1 DEF Hashed
    <2>3. peaks[N - k].hash = PerfectHash(log, P[N - k])
        BY <1>5, <2>1 DEF peaks, HashedPeaks, Hashed, N
    <2> QED
        BY <1>5, <2>1, <2>2, <2>3 DEF Hashed
<1>8. \A k \in 0..j : C[k] = Hashed(log, K(k))
    <2>1. Nat \subseteq S
        <3> HIDE DEF S
        <3> QED
            BY <1>6, <1>7, NumbersUpward
    <2> SUFFICES ASSUME NEW k \in 0..j PROVE C[k] = Hashed(log, K(k))
        OBVIOUS
    <2>2. k \in Nat /\ k <= j
        BY <1>1, <1>4
    <2> HIDE DEF K
    <2> QED
        BY <2>1, <2>2
<1>9. M.peaks = HashedPeaks(log, Coordinates(M.peaks))
    <2>1. j \in 0..j /\ N - j \in 0..N /\ N - j \in Nat
        BY <1>1, <1>4
    <2>2. P = [i \in 1..N |-> P[i]]
        BY DEF Layout, N
    <2>3. Coordinates(M.peaks) = [i \in 1..(N - j + 1) |-> IF i <= N - j THEN P[i] ELSE K(j)]
        <3> HIDE DEF K
        <3>1. Append(SubSeq(P, 1, N - j), K(j))
                = [i \in 1..(N - j + 1) |-> IF i <= N - j THEN P[i] ELSE K(j)]
            BY <1>1, <2>1, <2>2, CutAndAppend
        <3> QED
            BY <1>4, <3>1
    <2> DEFINE Q == Coordinates(M.peaks)
    <2>4. Len(Q) = N - j + 1
        BY <2>1, <2>3
    <2>5. \A i \in 1..(N - j + 1) : M.peaks[i] = Hashed(log, Q[i])
        <3> SUFFICES ASSUME NEW i \in 1..(N - j + 1) PROVE M.peaks[i] = Hashed(log, Q[i])
            OBVIOUS
        <3>1. CASE i <= N - j
            <4>1. i \in 1..N /\ M.peaks[i] = peaks[i] /\ Q[i] = P[i]
                BY <1>1, <1>4, <2>1, <2>3, <3>1
            <4> HIDE DEF Q
            <4> QED
                BY <4>1 DEF peaks, HashedPeaks, N
        <3>2. CASE ~(i <= N - j)
            <4>1. M.peaks[i] = C[j] /\ Q[i] = K(j)
                BY <1>4, <2>1, <2>3, <3>2
            <4> HIDE DEF Q, K
            <4> QED
                BY <1>8, <2>1, <4>1
        <3> QED
            BY <3>1, <3>2
    <2>6. M.peaks = [i \in 1..(N - j + 1) |-> M.peaks[i]]
        BY <1>4
    <2> HIDE DEF Q
    <2>7. M.peaks = HashedPeaks(log, Q)
        BY <2>4, <2>5, <2>6 DEF HashedPeaks
    <2> QED
        BY <2>7 DEF Q
<1> QED
    BY <1>3, <1>8, <1>9 DEF peaks, carry, j, C, M

-----------------------------------------------------------------------------
(* Builders *)

LEMMA CountMonotone ==
    ASSUME NEW m \in Nat, NEW n \in Nat, m <= n, n <= MaxLeaves
    PROVE  /\ MmrNodeCount(m) \in Nat /\ MmrNodeCount(n) \in Nat
           /\ MmrNodeCount(m) <= MmrNodeCount(n)
<1>1. m <= MaxLeaves
    BY MaxLeavesType
<1>2. Sub(m) \subseteq Sub(n)
    BY SubGrows
<1> QED
    BY <1>1, <1>2, SubtreesCounted, FS_Subset

\* A subtree that ends behind a prefix has its node behind those of the prefix.
LEMMA PositionBehind ==
    ASSUME NEW n \in Nat, n <= MaxLeaves, NEW c \in Sub(n), NEW from \in Nat, End(c) > from
    PROVE  NodePosition(c) \in MmrNodeCount(from)..(MmrNodeCount(n) - 1)
<1>1. c \in Coords /\ End(c) <= n /\ End(c) \in Nat /\ c.height \in Nat
    BY SubMember, CoordType
<1> DEFINE e == End(c) - 1
<1>2. e \in Nat /\ e + 1 = End(c) /\ e + 1 <= MaxLeaves /\ from <= e /\ e <= MaxLeaves
    BY <1>1, MaxLeavesType
<1> HIDE DEF e
<1>3. NodePosition(c) = MmrNodeCount(e) + c.height
    BY <1>1, <1>2, PositionIs
<1>4. MmrNodeCount(from) \in Nat /\ MmrNodeCount(e) \in Nat /\ MmrNodeCount(from) <= MmrNodeCount(e)
    BY <1>2, CountMonotone
<1>5. NodePosition(c) \in 0..(MmrNodeCount(n) - 1) /\ MmrNodeCount(n) \in Nat
    BY SubtreesCounted
<1> QED
    BY <1>1, <1>3, <1>4, <1>5

\* A builder holds what a log makes of the leaves behind a committed prefix.
Builds(b, log, from) ==
    /\ b.count = Len(log) /\ b.count <= MaxLeaves /\ from \in 0..b.count
    /\ b.next = MmrNodeCount(b.count)
    /\ b.peaks = TruePeaks(log, b.count)
    /\ b.root = RootAt(log, b.count)
    /\ DOMAIN b.nodes = MmrNodeCount(from)..(MmrNodeCount(b.count) - 1)
    /\ \A c \in Sub(b.count) : End(c) > from => b.nodes[NodePosition(c)] = PerfectHash(log, c)
    /\ DOMAIN b.roots = (from + 1)..b.count
    /\ \A n \in DOMAIN b.roots : b.roots[n] = RootAt(log, n)

\* The nodes that leaf n brings.
MadeAt(log, n) == [i \in 1..(JoinsAt(n) + 1) |-> Hashed(log, Carry(n, i - 1))]

\* One more record: what the merge gives.
LEMMA RecordMerged ==
    ASSUME NEW log, NEW n \in Nat, n + 1 <= MaxLeaves, NEW b, b.count = n,
           b.peaks = TruePeaks(log, n), NEW record, log[n + 1] = record
    PROVE  LET M == MergeRecord(b, record) IN
           M.adjacent /\ M.peaks = TruePeaks(log, n + 1) /\ M.made = MadeAt(log, n)
<1> DEFINE P == PeakLayout(n)
           peaks == HashedPeaks(log, P)
           carry == Hashed(log, At(n, 0))
           M == MergePeak(peaks, carry)
           j == JoinsAt(n)
<1>1. /\ Layout(P, n) /\ 0 \in 0..TopHeight /\ Aligned(n, 0) /\ n + Width(0) <= MaxLeaves
      /\ n + Width(0) = n + 1 /\ n <= MaxLeaves
    <2>1. Width(0) = 1 /\ 0 \in 0..TopHeight /\ n <= MaxLeaves
        BY WidthZero, HeightAssumption, MaxLeavesType
    <2> QED
        BY <2>1, NodeCountIs DEF Aligned
<1>2. Len(P) > 0 => 0 <= P[Len(P)].height
    <2> SUFFICES ASSUME Len(P) > 0 PROVE 0 <= P[Len(P)].height
        OBVIOUS
    <2>1. P[Len(P)].height \in 0..TopHeight
        BY <1>1, LayoutAligned
    <2> QED
        BY <2>1
<1>3. /\ MergeGood(P, n, peaks, 0, carry)
      /\ \A k \in 0..Joins(peaks, carry) :
            Carried(peaks, carry)[k] = Hashed(log, CarryCoord(P, n, 0, k))
      /\ M.peaks = HashedPeaks(log, Coordinates(M.peaks))
    <2> HIDE DEF P
    <2> QED
        BY <1>1, <1>2, MergeTrue
<1>4. Joins(peaks, carry) = j
    <2>1. OnCoords(P, peaks) /\ carry.coordinate = [start |-> n, height |-> 0]
        BY <1>1, HashedOnCoords DEF Hashed, At
    <2> HIDE DEF peaks, carry
    <2> QED
        BY <2>1, JoinsSame
<1>5. MergeRecord(b, record) = M
    <2>1. PerfectHash(log, At(n, 0)) = LeafHash(n, record)
        BY <1>1, PerfectHashIs
    <2>2. carry = [coordinate |-> [start |-> n, height |-> 0], hash |-> LeafHash(n, record)]
        BY <2>1 DEF Hashed, At
    <2> HIDE DEF carry
    <2> QED
        BY <2>2 DEF MergeRecord, TruePeaks
<1> HIDE DEF peaks, carry, M
<1>6. /\ M.adjacent /\ M.made = [i \in 1..(j + 1) |-> Carried(peaks, carry)[i - 1]]
      /\ Layout(Coordinates(M.peaks), n + 1)
    BY <1>1, <1>3, <1>4 DEF MergeGood, M
<1>7. Coordinates(M.peaks) = PeakLayout(n + 1)
    BY <1>6, NodeCountIs, LayoutUnique
<1>8. j \in Nat
    BY LeafAdded
<1>9. \A i \in 1..(j + 1) : Carried(peaks, carry)[i - 1] = Hashed(log, Carry(n, i - 1))
    <2> SUFFICES ASSUME NEW i \in 1..(j + 1)
                 PROVE  Carried(peaks, carry)[i - 1] = Hashed(log, Carry(n, i - 1))
        OBVIOUS
    <2> HIDE DEF j
    <2>1. i - 1 \in 0..j
        BY <1>8
    <2> QED
        BY <1>3, <1>4, <2>1 DEF Carry
<1> QED
    BY <1>3, <1>5, <1>6, <1>7, <1>9 DEF TruePeaks, MadeAt

LEMMA RecordAppended ==
    ASSUME NEW R, NEW log \in Seq(R), NEW from, NEW b, Builds(b, log, from),
           b.count + 1 <= MaxLeaves, NEW record \in R
    PROVE  LET M == MergeRecord(b, record)
               new == Append(log, record) IN
           /\ M.adjacent
           /\ \A i \in DOMAIN M.made :
                 /\ NodePosition(M.made[i].coordinate) = b.next + i - 1
                 /\ b.next + i - 1 >= MmrNodeCount(from)
           /\ OnLayout(b.count + 1, M.peaks)
           /\ Builds(AppendRecord(b, record), new, from)
<1> DEFINE n == b.count
           new == Append(log, record)
           M == MergeRecord(b, record)
           j == JoinsAt(n)
<1>1. /\ n \in Nat /\ n = Len(log) /\ n + 1 <= MaxLeaves /\ n <= MaxLeaves
      /\ from \in Nat /\ from <= n /\ b.count = n
    BY MaxLeavesType DEF Builds
<1>2. /\ new \in Seq(R) /\ Len(new) = n + 1 /\ new[n + 1] = record
      /\ \A i \in 1..n : new[i] = log[i]
    BY <1>1
<1> HIDE DEF new
<1>3. b.peaks = TruePeaks(new, n)
    BY <1>1, <1>2, TruePeaksLocal DEF Builds
<1> HIDE DEF n, M
<1>4. /\ M.adjacent /\ M.peaks = TruePeaks(new, n + 1)
      /\ M.made = [i \in 1..(j + 1) |-> Hashed(new, Carry(n, i - 1))]
    <2>1. M.adjacent /\ M.peaks = TruePeaks(new, n + 1) /\ M.made = MadeAt(new, n)
        BY <1>1, <1>2, <1>3, RecordMerged DEF M
    <2> QED
        BY <2>1 DEF MadeAt
<1>5. /\ j \in Nat /\ MmrNodeCount(n + 1) = MmrNodeCount(n) + j + 1
      /\ \A k \in 0..j : NodePosition(Carry(n, k)) = MmrNodeCount(n) + k
      /\ Sub(n + 1) = Sub(n) \cup {Carry(n, k) : k \in 0..j}
    BY <1>1, LeafAdded
<1> HIDE DEF j
<1>6. /\ MmrNodeCount(n) \in Nat /\ MmrNodeCount(from) \in Nat
      /\ MmrNodeCount(from) <= MmrNodeCount(n) /\ b.next = MmrNodeCount(n)
    BY <1>1, CountMonotone DEF Builds, n
<1>7. \A i \in 1..(j + 1) :
         /\ i - 1 \in 0..j /\ M.made[i].coordinate = Carry(n, i - 1)
         /\ M.made[i].hash = PerfectHash(new, Carry(n, i - 1))
    <2>1. \A c : Hashed(new, c).coordinate = c /\ Hashed(new, c).hash = PerfectHash(new, c)
        BY DEF Hashed
    <2>2. \A i \in 1..(j + 1) : i - 1 \in 0..j /\ M.made[i] = Hashed(new, Carry(n, i - 1))
        BY <1>4, <1>5
    <2> QED
        BY <2>1, <2>2
<1>8. \A i \in DOMAIN M.made :
         /\ NodePosition(M.made[i].coordinate) = b.next + i - 1
         /\ b.next + i - 1 >= MmrNodeCount(from)
    <2> SUFFICES ASSUME NEW i \in 1..(j + 1)
                 PROVE  /\ NodePosition(M.made[i].coordinate) = b.next + i - 1
                        /\ b.next + i - 1 >= MmrNodeCount(from)
        BY <1>4
    <2>1. M.made[i].coordinate = Carry(n, i - 1) /\ i - 1 \in 0..j
        BY <1>7
    <2> QED
        BY <1>5, <1>6, <2>1
<1>9. OnLayout(n + 1, M.peaks)
    BY <1>1, <1>4, NodeCountIs, HashedOnCoords DEF OnLayout, TruePeaks
<1> DEFINE a == AppendRecord(b, record)
           root == RootOfPeaks(n + 1, M.peaks)
           hs == Hashes(M.made)
<1>10. /\ a.peaks = M.peaks /\ a.count = n + 1 /\ a.next = b.next + Len(M.made) /\ a.root = root
       /\ a.nodes = Extended(b.nodes, b.next, hs)
       /\ a.roots = Extended(b.roots, n + 1, <<root>>)
    BY DEF AppendRecord, n, M
<1>11. /\ Len(M.made) = j + 1 /\ Len(hs) = j + 1
       /\ \A i \in 1..(j + 1) : hs[i] = PerfectHash(new, Carry(n, i - 1))
    <2>1. DOMAIN M.made = 1..(j + 1) /\ Len(M.made) = j + 1
        BY <1>4, <1>5
    <2>2. hs = [i \in 1..(j + 1) |-> M.made[i].hash]
        BY <2>1 DEF Hashes
    <2>3. \A i \in 1..(j + 1) : M.made[i].hash = PerfectHash(new, Carry(n, i - 1))
        BY <1>7
    <2> HIDE DEF hs
    <2> QED
        BY <1>5, <2>1, <2>2, <2>3
<1>12. root = RootAt(new, n + 1)
    BY <1>4 DEF RootAt
<1> HIDE DEF a, root, hs
<1>13. /\ DOMAIN a.nodes = MmrNodeCount(from)..(MmrNodeCount(n + 1) - 1)
       /\ \A k \in MmrNodeCount(from)..(MmrNodeCount(n) - 1) : a.nodes[k] = b.nodes[k]
       /\ \A k \in 0..j : a.nodes[MmrNodeCount(n) + k] = PerfectHash(new, Carry(n, k))
    <2> DEFINE lo == MmrNodeCount(from)
               hi == MmrNodeCount(n)
    <2>1. DOMAIN b.nodes = lo..(hi - 1) /\ lo \in Nat /\ hi \in Nat /\ lo <= hi /\ b.next = hi
        BY <1>6 DEF Builds, n
    <2> HIDE DEF lo, hi
    <2>2. a.nodes = [k \in (lo..(hi - 1)) \cup (hi..(hi + j)) |->
                        IF k \in hi..(hi + j) THEN hs[k - hi + 1] ELSE b.nodes[k]]
        <3>1. b.next + Len(hs) - 1 = hi + j
            BY <1>5, <1>11, <2>1
        <3> QED
            BY <1>10, <2>1, <3>1 DEF Extended
    <2>3. (lo..(hi - 1)) \cup (hi..(hi + j)) = lo..(hi + j)
        BY <1>5, <2>1
    <2>4. DOMAIN a.nodes = lo..(hi + j)
        BY <2>2, <2>3
    <2>5. \A k \in lo..(hi - 1) : a.nodes[k] = b.nodes[k]
        BY <1>5, <2>1, <2>2
    <2>6. ASSUME NEW k \in 0..j PROVE a.nodes[hi + k] = PerfectHash(new, Carry(n, k))
        <3>1. hi + k \in hi..(hi + j) /\ (hi + k) - hi + 1 = k + 1 /\ k + 1 \in 1..(j + 1) /\ (k + 1) - 1 = k
            BY <1>5, <2>1
        <3>2. a.nodes[hi + k] = hs[k + 1]
            BY <2>2, <3>1
        <3> QED
            BY <1>11, <3>1, <3>2
    <2> QED
        BY <1>5, <2>1, <2>4, <2>5, <2>6 DEF lo, hi
<1>14. ASSUME NEW c \in Sub(n + 1), End(c) > from
       PROVE  a.nodes[NodePosition(c)] = PerfectHash(new, c)
    <2>1. CASE c \in Sub(n)
        <3>1. NodePosition(c) \in MmrNodeCount(from)..(MmrNodeCount(n) - 1)
            BY <1>1, <1>14, <2>1, PositionBehind
        <3>2. b.nodes[NodePosition(c)] = PerfectHash(log, c)
            BY <1>14, <2>1 DEF Builds, n
        <3>3. PerfectHash(log, c) = PerfectHash(new, c)
            BY <1>1, <1>2, <2>1, PerfectHashLocal
        <3> QED
            BY <1>13, <3>1, <3>2, <3>3
    <2>2. CASE c \notin Sub(n)
        <3>1. PICK k \in 0..j : c = Carry(n, k)
            BY <1>5, <2>2
        <3> QED
            BY <1>5, <1>13, <3>1
    <2> QED
        BY <2>1, <2>2
<1>15. /\ DOMAIN a.roots = (from + 1)..(n + 1)
       /\ \A m \in (from + 1)..(n + 1) : a.roots[m] = RootAt(new, m)
    <2>1. DOMAIN b.roots = (from + 1)..n /\ \A m \in (from + 1)..n : b.roots[m] = RootAt(log, m)
        BY DEF Builds, n
    <2>2. (n + 1) + Len(<<root>>) - 1 = n + 1
        BY <1>1
    <2>3. a.roots = [m \in ((from + 1)..n) \cup ((n + 1)..(n + 1)) |->
                        IF m \in (n + 1)..(n + 1) THEN <<root>>[m - (n + 1) + 1] ELSE b.roots[m]]
        BY <1>10, <2>1, <2>2 DEF Extended
    <2>4. ((from + 1)..n) \cup ((n + 1)..(n + 1)) = (from + 1)..(n + 1)
        BY <1>1
    <2>5. a.roots[n + 1] = root
        <3>1. (n + 1) - (n + 1) + 1 = 1 /\ <<root>>[1] = root /\ n + 1 \in (n + 1)..(n + 1)
            BY <1>1
        <3> QED
            BY <2>3, <3>1
    <2>6. ASSUME NEW m \in (from + 1)..n PROVE a.roots[m] = RootAt(new, m)
        <3>1. a.roots[m] = b.roots[m]
            BY <1>1, <2>3
        <3>2. m \in Nat /\ m <= MaxLeaves /\ \A i \in 1..m : new[i] = log[i]
            <4>1. m \in Nat /\ m <= n
                BY <1>1
            <4>2. \A i \in 1..m : i \in 1..n
                BY <1>1, <4>1
            <4> QED
                BY <1>1, <1>2, <4>1, <4>2, MaxLeavesType
        <3>3. RootAt(new, m) = RootAt(log, m)
            BY <3>2, TruePeaksLocal
        <3> QED
            BY <2>1, <3>1, <3>3
    <2>7. \A m \in (from + 1)..(n + 1) : m = n + 1 \/ m \in (from + 1)..n
        BY <1>1
    <2> QED
        BY <1>12, <2>3, <2>4, <2>5, <2>6, <2>7
<1>16. a.next = MmrNodeCount(n + 1)
    BY <1>5, <1>6, <1>10, <1>11
<1>17. Builds(a, new, from)
    <2>1. a.count = n + 1 /\ n + 1 = Len(new) /\ from \in 0..(n + 1)
        BY <1>1, <1>2, <1>10
    <2>2. a.peaks = TruePeaks(new, n + 1) /\ a.root = RootAt(new, n + 1)
        BY <1>4, <1>10, <1>12
    <2>3. \A c \in Sub(n + 1) : End(c) > from => a.nodes[NodePosition(c)] = PerfectHash(new, c)
        BY <1>14
    <2>4. \A m \in DOMAIN a.roots : a.roots[m] = RootAt(new, m)
        BY <1>15
    <2>5. DOMAIN a.roots = (from + 1)..(n + 1) /\ DOMAIN a.nodes = MmrNodeCount(from)..(MmrNodeCount(n + 1) - 1)
        BY <1>13, <1>15
    <2>6. a.next = MmrNodeCount(n + 1) /\ n + 1 <= MaxLeaves
        BY <1>1, <1>16
    <2> QED
        BY ONLY <2>1, <2>2, <2>3, <2>4, <2>5, <2>6 DEF Builds
<1> QED
    BY <1>1, <1>4, <1>8, <1>9, <1>17 DEF a, M, new

-----------------------------------------------------------------------------
(* The committed range *)

LEMMA LogFacts ==
    ASSUME NEW R, NEW L \in Seq(R), NEW M \in Seq(R)
    PROVE  /\ L \o M \in Seq(R) /\ Len(L \o M) = Len(L) + Len(M) /\ L \o <<>> = L
           /\ \A i \in 1..Len(L) : (L \o M)[i] = L[i]
           /\ SubSeq(L, 1, Len(L)) = L
           /\ \A n \in 0..Len(L) : /\ SubSeq(L, 1, n) \in Seq(R) /\ Len(SubSeq(L, 1, n)) = n
                                   /\ \A i \in 1..n : SubSeq(L, 1, n)[i] = L[i]
                                   /\ SubSeq(L \o M, 1, n) = SubSeq(L, 1, n)
           /\ \A x \in R : L \o Append(M, x) = Append(L \o M, x)
<1>1. L \o M \in Seq(R) /\ Len(L \o M) = Len(L) + Len(M) /\ \A i \in 1..Len(L) : (L \o M)[i] = L[i]
    OBVIOUS
<1>2. L \o <<>> = L /\ SubSeq(L, 1, Len(L)) = L
    OBVIOUS
<1>3. ASSUME NEW n \in 0..Len(L)
      PROVE  /\ SubSeq(L, 1, n) \in Seq(R) /\ Len(SubSeq(L, 1, n)) = n
             /\ \A i \in 1..n : SubSeq(L, 1, n)[i] = L[i]
             /\ SubSeq(L \o M, 1, n) = SubSeq(L, 1, n)
    <2>1. /\ SubSeq(L, 1, n) \in Seq(R) /\ Len(SubSeq(L, 1, n)) = n
          /\ \A i \in 1..n : SubSeq(L, 1, n)[i] = L[i]
        OBVIOUS
    <2> DEFINE K == L \o M
    <2>2. K \in Seq(R) /\ n \in 0..Len(K) /\ \A i \in 1..Len(L) : K[i] = L[i]
        BY <1>1
    <2> HIDE DEF K
    <2>3. /\ SubSeq(K, 1, n) \in Seq(R) /\ Len(SubSeq(K, 1, n)) = n
          /\ \A i \in 1..n : SubSeq(K, 1, n)[i] = K[i]
        BY <2>2
    <2>4. SubSeq(K, 1, n) = SubSeq(L, 1, n)
        BY <2>1, <2>2, <2>3
    <2> QED
        BY <2>1, <2>4 DEF K
<1>4. ASSUME NEW x \in R PROVE L \o Append(M, x) = Append(L \o M, x)
    <2> DEFINE A == L \o Append(M, x)
               B == Append(L \o M, x)
    <2>1. A \in Seq(R) /\ B \in Seq(R) /\ Len(A) = Len(B)
        OBVIOUS
    <2>2. \A i \in 1..Len(A) : A[i] = B[i]
        OBVIOUS
    <2> HIDE DEF A, B
    <2>3. A = B
        BY <2>1, <2>2
    <2> QED
        BY <2>3 DEF A, B
<1> QED
    BY <1>1, <1>2, <1>3, <1>4

\* Nodes and roots are those of a log.
Held(log, N, R) ==
    /\ Len(log) <= MaxLeaves
    /\ DOMAIN N = 0..(MmrNodeCount(Len(log)) - 1)
    /\ \A c \in Sub(Len(log)) : N[NodePosition(c)] = PerfectHash(log, c)
    /\ DOMAIN R = 1..Len(log)
    /\ \A n \in 1..Len(log) : R[n] = RootAt(log, n)

\* What is read of a committed prefix is true of it.
LEMMA ReadTrue ==
    ASSUME NEW X, records \in Seq(X), Held(records, nodes, roots), NEW n \in 0..Len(records)
    PROVE  /\ n \in Nat /\ n <= MaxLeaves
           /\ Present(PeakLayout(n))
           /\ ReadPeaks(n) = TruePeaks(records, n)
           /\ ReadRootAt(n) = RootAt(records, n)
<1> DEFINE P == PeakLayout(n)
           len == Len(records)
<1>1. n \in Nat /\ len \in Nat /\ n <= len /\ len <= MaxLeaves /\ n <= MaxLeaves
    BY MaxLeavesType DEF Held
<1>2. Layout(P, n) /\ DOMAIN P = 1..Len(P) /\ Len(P) \in Nat
    BY <1>1, NodeCountIs, LayoutType
<1>3. \A i \in 1..Len(P) : P[i] \in Sub(len)
    BY <1>1, <1>2, PeakIsSubtree, SubGrows
<1>4. \A i \in 1..Len(P) : /\ NodePosition(P[i]) \in DOMAIN nodes
                           /\ nodes[NodePosition(P[i])] = PerfectHash(records, P[i])
    BY <1>1, <1>3, SubtreesCounted DEF Held
<1>5. Present(P)
    BY <1>2, <1>4 DEF Present
<1>6. ReadPeaks(n) = TruePeaks(records, n)
    <2>1. ReadNodes(P) = [i \in 1..Len(P) |-> nodes[NodePosition(P[i])]]
        BY <1>2 DEF ReadNodes
    <2>2. ReadPeaks(n) = [i \in 1..Len(P) |-> [coordinate |-> P[i], hash |-> ReadNodes(P)[i]]]
        BY <1>2 DEF ReadPeaks, Place
    <2>3. \A i \in 1..Len(P) : ReadNodes(P)[i] = PerfectHash(records, P[i])
        BY <1>4, <2>1
    <2> QED
        BY <2>2, <2>3 DEF TruePeaks, HashedPeaks, Hashed
<1>7. ReadRootAt(n) = RootAt(records, n)
    <2>1. CASE n = 0
        <3>1. DOMAIN PeakLayout(0) = {}
            BY <1>2, <2>1, LayoutType
        <3> QED
            BY <2>1, <3>1 DEF ReadRootAt, EmptyRoot, RootAt, RootOfPeaks, RootOfHashes
    <2>2. CASE n # 0
        <3>1. n \in 1..len
            BY <1>1, <2>2
        <3> QED
            BY <2>2, <3>1 DEF ReadRootAt, Held
    <2> QED
        BY <2>1, <2>2
<1> QED
    BY <1>1, <1>5, <1>6, <1>7

\* A builder that starts from a committed prefix.
LEMMA LoadedBuilds ==
    ASSUME NEW X, records \in Seq(X), Held(records, nodes, roots), NEW n \in 0..Len(records)
    PROVE  /\ LoadedBuilder(n).records = <<>>
           /\ Builds(LoadedBuilder(n), SubSeq(records, 1, n) \o LoadedBuilder(n).records, n)
<1> DEFINE b == LoadedBuilder(n)
           log == SubSeq(records, 1, n)
<1>1. /\ b.peaks = ReadPeaks(n) /\ b.count = n /\ b.next = MmrNodeCount(n) /\ b.root = ReadRootAt(n)
      /\ b.nodes = <<>> /\ b.roots = <<>> /\ b.records = <<>>
    BY DEF LoadedBuilder, NoBuilder
<1>2. log \in Seq(X) /\ Len(log) = n /\ \A i \in 1..n : log[i] = records[i]
    BY LogFacts
<1>3. log \o b.records = log
    BY <1>1, <1>2, LogFacts
<1>4. /\ n \in Nat /\ n <= MaxLeaves
      /\ ReadPeaks(n) = TruePeaks(records, n) /\ ReadRootAt(n) = RootAt(records, n)
    BY ReadTrue
<1> HIDE DEF b, log
<1>5. TruePeaks(log, n) = TruePeaks(records, n) /\ RootAt(log, n) = RootAt(records, n)
    BY <1>2, <1>4, TruePeaksLocal
<1>6. DOMAIN b.nodes = {} /\ DOMAIN b.roots = {}
    BY <1>1
<1>7. MmrNodeCount(n) \in Nat
    BY <1>4, SubtreesCounted
<1>8. MmrNodeCount(n)..(MmrNodeCount(n) - 1) = {} /\ (n + 1)..n = {}
    BY <1>4, <1>7
<1>9. \A c \in Sub(n) : ~(End(c) > n)
    <2> SUFFICES ASSUME NEW c \in Sub(n) PROVE ~(End(c) > n)
        OBVIOUS
    <2>1. End(c) <= n /\ End(c) \in Nat
        BY <1>4, SubMember, CoordType
    <2> QED
        BY <1>4, <2>1
<1>10. Builds(b, log, n)
    <2>1. b.count = n /\ n = Len(log) /\ n <= MaxLeaves /\ n \in 0..n /\ b.next = MmrNodeCount(n)
        BY <1>1, <1>2, <1>4
    <2>2. b.peaks = TruePeaks(log, n) /\ b.root = RootAt(log, n)
        BY <1>1, <1>4, <1>5
    <2> QED
        BY ONLY <2>1, <2>2, <1>6, <1>8, <1>9 DEF Builds
<1> QED
    BY <1>1, <1>3, <1>10 DEF b, log

\* What a builder holds, laid over the prefix it was begun on, is the longer range.
LEMMA WrittenHolds ==
    ASSUME NEW X, NEW L \in Seq(X), NEW M \in Seq(X), NEW N, NEW R, Held(L, N, R),
           NEW b, Builds(b, L \o M, Len(L))
    PROVE  /\ Held(L \o M, Over(b.nodes, N), Over(b.roots, R))
           /\ \A p \in DOMAIN N : p \in DOMAIN Over(b.nodes, N) /\ Over(b.nodes, N)[p] = N[p]
           /\ \A p \in DOMAIN R : p \in DOMAIN Over(b.roots, R) /\ Over(b.roots, R)[p] = R[p]
<1> DEFINE K == L \o M
           m == Len(L)
           n == Len(K)
           lo == MmrNodeCount(m)
           hi == MmrNodeCount(n)
<1>1. K \in Seq(X) /\ \A i \in 1..m : K[i] = L[i]
    BY LogFacts
<1>2. m \in Nat /\ n \in Nat /\ m <= n /\ n <= MaxLeaves /\ m <= MaxLeaves
    <2>1. n = Len(L) + Len(M) /\ Len(L) \in Nat /\ Len(M) \in Nat
        BY LogFacts
    <2>2. n <= MaxLeaves
        BY DEF Builds
    <2> QED
        BY <2>1, <2>2, MaxLeavesType
<1> HIDE DEF K
<1>3. lo \in Nat /\ hi \in Nat /\ lo <= hi
    BY <1>2, CountMonotone
<1>4. /\ DOMAIN b.nodes = lo..(hi - 1) /\ DOMAIN b.roots = (m + 1)..n
      /\ \A c \in Sub(n) : End(c) > m => b.nodes[NodePosition(c)] = PerfectHash(K, c)
      /\ \A k \in (m + 1)..n : b.roots[k] = RootAt(K, k)
    BY DEF Builds, K
<1>5. /\ DOMAIN N = 0..(lo - 1) /\ DOMAIN R = 1..m
      /\ \A c \in Sub(m) : N[NodePosition(c)] = PerfectHash(L, c)
      /\ \A k \in 1..m : R[k] = RootAt(L, k)
    BY DEF Held
<1> HIDE DEF lo, hi, m, n
<1> DEFINE N2 == Over(b.nodes, N)
           R2 == Over(b.roots, R)
<1>6. N2 = [k \in (lo..(hi - 1)) \cup (0..(lo - 1)) |-> IF k \in lo..(hi - 1) THEN b.nodes[k] ELSE N[k]]
    BY <1>4, <1>5 DEF Over
<1>7. R2 = [k \in ((m + 1)..n) \cup (1..m) |-> IF k \in (m + 1)..n THEN b.roots[k] ELSE R[k]]
    BY <1>4, <1>5 DEF Over
<1> HIDE DEF N2, R2
<1>8. DOMAIN N2 = 0..(hi - 1) /\ DOMAIN R2 = 1..n
    <2>1. (lo..(hi - 1)) \cup (0..(lo - 1)) = 0..(hi - 1)
        BY <1>3
    <2>2. ((m + 1)..n) \cup (1..m) = 1..n
        BY <1>2
    <2> QED
        BY <1>6, <1>7, <2>1, <2>2
<1>9. \A k \in 0..(lo - 1) : k \in DOMAIN N2 /\ N2[k] = N[k]
    BY <1>3, <1>6
<1>10. \A k \in lo..(hi - 1) : N2[k] = b.nodes[k]
    BY <1>6
<1>11. \A k \in 1..m : k \in DOMAIN R2 /\ R2[k] = R[k]
    BY <1>2, <1>7
<1>12. \A k \in (m + 1)..n : R2[k] = b.roots[k]
    BY <1>7
<1>13. ASSUME NEW c \in Sub(n) PROVE N2[NodePosition(c)] = PerfectHash(K, c)
    <2>1. End(c) \in Nat /\ c \in Coords /\ Aligned(c.start, c.height)
        BY <1>2, SubMember, CoordType
    <2>2. CASE End(c) > m
        <3>1. NodePosition(c) \in lo..(hi - 1)
            BY <1>2, <2>2, PositionBehind DEF lo, hi
        <3> QED
            BY <1>4, <1>10, <2>2, <3>1
    <2>3. CASE ~(End(c) > m)
        <3>1. c \in Sub(m)
            BY <1>2, <2>1, <2>3 DEF Sub
        <3>2. NodePosition(c) \in 0..(lo - 1)
            BY <1>2, <3>1, SubtreesCounted DEF lo
        <3>3. PerfectHash(L, c) = PerfectHash(K, c)
            BY <1>1, <1>2, <3>1, PerfectHashLocal
        <3> QED
            BY <1>5, <1>9, <3>1, <3>2, <3>3
    <2> QED
        BY <2>2, <2>3
<1>14. ASSUME NEW k \in 1..n PROVE R2[k] = RootAt(K, k)
    <2>1. CASE k \in (m + 1)..n
        BY <1>4, <1>12, <2>1
    <2>2. CASE k \in 1..m
        <3>1. k \in Nat /\ k <= m
            BY <1>2, <2>2
        <3>2. k <= MaxLeaves /\ \A i \in 1..k : L[i] = K[i]
            <4>1. \A i \in 1..k : i \in 1..m
                BY <1>2, <3>1
            <4> QED
                BY <1>1, <1>2, <3>1, <4>1, MaxLeavesType
        <3>3. RootAt(L, k) = RootAt(K, k)
            BY <3>1, <3>2, TruePeaksLocal
        <3> QED
            BY <1>5, <1>11, <2>2, <3>3
    <2> QED
        BY <1>2, <2>1, <2>2
<1>15. Held(K, N2, R2)
    BY <1>2, <1>8, <1>13, <1>14 DEF Held, n, hi
<1> QED
    BY <1>5, <1>9, <1>11, <1>15 DEF K, N2, R2

-----------------------------------------------------------------------------
(* The invariant *)

Kinds ==
    /\ records \in Seq(Records) /\ height \in 0..MaxBlocks
    /\ pc \in [Tasks -> {"idle", "begun", "sized", "loaded", "prepared", "corrupt"}]
    /\ base \in [Tasks -> 0..MaxBlocks]
    /\ size \in [Tasks -> 0..MaxLeaves]
    /\ DOMAIN builder = Tasks
    /\ \A t \in Tasks : builder[t].records \in Seq(Records) /\ Len(builder[t].records) <= MaxBatch

\* The store is that of the records of the archive.
StoreGood ==
    /\ Held(records, nodes, roots)
    /\ current = IF records = <<>> THEN <<>>
                 ELSE [size |-> Len(records), root |-> RootAt(records, Len(records))]

\* The log that a task works on: the prefix it has read, and its records.
LogOf(t) == SubSeq(records, 1, size[t]) \o builder[t].records

\* A task has read the size of a committed prefix, of the whole log while no
\* block was committed since it began, and its builder holds what follows.
TaskGood(t) ==
    /\ pc[t] # "idle" => base[t] <= height /\ base[t] < MaxBlocks
    /\ pc[t] \in {"sized", "loaded", "prepared", "corrupt"} =>
          size[t] <= Len(records) /\ (base[t] = height => size[t] = Len(records))
    /\ pc[t] \in {"loaded", "prepared"} => Builds(builder[t], LogOf(t), size[t])
    /\ pc[t] = "corrupt" => size[t] < Len(records)

HistoryInv == Kinds /\ StoreGood /\ \A t \in Tasks : TaskGood(t)

LEMMA CountZero == MmrNodeCount(0) = 0 /\ Sub(0) = {}
<1>1. MmrNodeCount(0) = 2 * 0 - Len(PeakLayout(0)) /\ Layout(PeakLayout(0), 0)
    BY NodeCountIs, MaxLeavesType
<1>2. Len(PeakLayout(0)) = 0
    BY <1>1, LayoutType
<1>3. Sub(0) = {}
    <2> SUFFICES ASSUME NEW c \in Sub(0) PROVE FALSE
        OBVIOUS
    <2>1. c \in Coords /\ End(c) <= 0
        BY SubMember
    <2> QED
        BY <2>1, CoordType DEF End
<1> QED
    BY <1>1, <1>2, <1>3

LEMMA HistoryInit == Init => HistoryInv
<1> SUFFICES ASSUME Init PROVE HistoryInv
    OBVIOUS
<1>1. Kinds
    <2>1. <<>> \in Seq(Records) /\ Len(<<>>) = 0 /\ 0 <= MaxBatch /\ NoBuilder.records = <<>>
        BY BatchAssumption DEF NoBuilder
    <2>2. 0 \in 0..MaxBlocks /\ 0 \in 0..MaxLeaves
        BY BatchAssumption, MaxLeavesType
    <2>3. \A t \in Tasks : builder[t].records \in Seq(Records) /\ Len(builder[t].records) <= MaxBatch
        BY <2>1 DEF Init
    <2> QED
        BY <2>1, <2>2, <2>3 DEF Init, Kinds
<1>2. StoreGood
    <2>1. Len(records) = 0 /\ records = <<>> /\ DOMAIN nodes = {} /\ DOMAIN roots = {} /\ current = <<>>
        BY DEF Init
    <2>2. 0..(MmrNodeCount(0) - 1) = {} /\ 1..0 = {}
        BY CountZero
    <2>3. Held(records, nodes, roots)
        BY <2>1, <2>2, CountZero, MaxLeavesType DEF Held
    <2> QED
        BY <2>1, <2>3 DEF StoreGood
<1>3. \A t \in Tasks : TaskGood(t)
    BY DEF Init, TaskGood
<1> QED
    BY <1>1, <1>2, <1>3 DEF HistoryInv

\* What is said of a task stays when neither the task nor the store moves.
LEMMA TaskStill ==
    ASSUME NEW t \in Tasks, TaskGood(t), UNCHANGED store,
           pc'[t] = pc[t], base'[t] = base[t], size'[t] = size[t], builder'[t] = builder[t]
    PROVE  TaskGood(t)'
BY DEF TaskGood, LogOf, store

\* The part of a step that leaves the store alone.
LEMMA TaskStep ==
    ASSUME HistoryInv, UNCHANGED store, Kinds', NEW t \in Tasks, TaskGood(t)',
           \A u \in Tasks : u # t => /\ pc'[u] = pc[u] /\ base'[u] = base[u]
                                     /\ size'[u] = size[u] /\ builder'[u] = builder[u]
    PROVE  HistoryInv'
<1>1. StoreGood'
    BY DEF HistoryInv, StoreGood, Held, store
<1>2. \A u \in Tasks : TaskGood(u)'
    BY TaskStill DEF HistoryInv
<1> QED
    BY <1>1, <1>2 DEF HistoryInv

LEMMA BeginStep ==
    ASSUME HistoryInv, NEW t \in Tasks, Begin(t)
    PROVE  HistoryInv'
<1>1. Kinds
    BY DEF HistoryInv
<1>2. /\ pc'[t] = "begun" /\ base'[t] = height /\ height < MaxBlocks
      /\ \A u \in Tasks : u # t => pc'[u] = pc[u] /\ base'[u] = base[u]
      /\ UNCHANGED <<store, size, builder>>
    BY <1>1 DEF Kinds, Begin
<1>3. Kinds'
    BY <1>1, BatchAssumption DEF Kinds, Begin, store
<1>4. TaskGood(t)'
    BY <1>1, <1>2, BatchAssumption DEF TaskGood, store, Kinds
<1> QED
    BY <1>2, <1>3, <1>4, TaskStep

LEMMA ReadSizeStep ==
    ASSUME HistoryInv, NEW t \in Tasks, ReadSize(t)
    PROVE  HistoryInv'
<1>1. Kinds /\ StoreGood /\ TaskGood(t)
    BY DEF HistoryInv
<1> DEFINE n == IF "size" \in DOMAIN current THEN current.size ELSE 0
<1>2. n = Len(records) /\ n \in 0..MaxLeaves
    <2>1. Len(records) \in Nat /\ Len(records) <= MaxLeaves /\ (records = <<>> => Len(records) = 0)
        BY <1>1 DEF Kinds, StoreGood, Held
    <2>2. CASE records = <<>>
        <3>1. current = <<>>
            BY <1>1, <2>2 DEF StoreGood
        <3>2. DOMAIN current = {}
            BY <3>1
        <3> QED
            BY <2>1, <2>2, <3>2, MaxLeavesType
    <2>3. CASE records # <<>>
        <3>1. current = [size |-> Len(records), root |-> RootAt(records, Len(records))]
            BY <1>1, <2>3 DEF StoreGood
        <3>2. "size" \in DOMAIN current /\ current.size = Len(records)
            BY <3>1
        <3> QED
            BY <2>1, <3>2, MaxLeavesType
    <2> QED
        BY <2>2, <2>3
<1>3. size' = [size EXCEPT ![t] = n]
    BY DEF ReadSize
<1> HIDE DEF n
<1>4. /\ pc[t] = "begun" /\ pc'[t] = "sized" /\ size'[t] = n
      /\ \A u \in Tasks : u # t => pc'[u] = pc[u] /\ size'[u] = size[u]
      /\ UNCHANGED <<store, base, builder>>
    BY <1>1, <1>3 DEF Kinds, ReadSize
<1>5. Kinds'
    BY <1>1, <1>2, <1>3, <1>4 DEF Kinds, ReadSize, store
<1>6. TaskGood(t)'
    <2>1. base'[t] <= height' /\ base'[t] < MaxBlocks
        BY <1>1, <1>4 DEF TaskGood, store
    <2>2. size'[t] = Len(records') /\ Len(records') \in Nat
        BY <1>1, <1>2, <1>4 DEF store, Kinds
    <2> QED
        BY <1>4, <2>1, <2>2 DEF TaskGood
<1> QED
    BY <1>4, <1>5, <1>6, TaskStep

\* The whole committed range passes the checks of load_current.
LEMMA SoundNow ==
    ASSUME Kinds, StoreGood
    PROVE  Sound(Len(records))
<1> DEFINE n == Len(records)
<1>1. n \in Nat /\ records \in Seq(Records) /\ Held(records, nodes, roots) /\ n \in 0..n
    BY DEF Kinds, StoreGood
<1>2. n <= MaxLeaves /\ Present(PeakLayout(n)) /\ ReadPeaks(n) = TruePeaks(records, n)
    BY <1>1, ReadTrue
<1>3. CASE n = 0
    <2>1. records = <<>>
        BY <1>1, <1>3
    <2>2. DOMAIN current = {}
        <3>1. current = <<>>
            BY <2>1 DEF StoreGood
        <3> QED
            BY <3>1
    <2> QED
        BY <1>3, <2>2 DEF Sound
<1>4. CASE n # 0
    <2>1. records # <<>>
        BY <1>1, <1>4
    <2>2. current = [size |-> n, root |-> RootAt(records, n)]
        BY <2>1 DEF StoreGood
    <2>3. "root" \in DOMAIN current /\ current.root = RootAt(records, n)
        BY <2>2
    <2>4. n \in DOMAIN roots /\ roots[n] = RootAt(records, n)
        BY <1>1, <1>4 DEF Held
    <2>5. RootOfPeaks(n, ReadPeaks(n)) = RootAt(records, n)
        BY <1>2 DEF RootAt
    <2> HIDE DEF n
    <2> QED
        BY <1>2, <1>4, <2>3, <2>4, <2>5 DEF Sound, n
<1> QED
    BY <1>3, <1>4

LEMMA ReadRootStep ==
    ASSUME HistoryInv, NEW t \in Tasks, ReadRoot(t)
    PROVE  HistoryInv'
<1>1. Kinds /\ StoreGood /\ TaskGood(t)
    BY DEF HistoryInv
<1> DEFINE n == size[t]
           b == LoadedBuilder(n)
<1>2. /\ pc[t] = "sized" /\ UNCHANGED <<store, base, size>>
      /\ \/ /\ Sound(n)
            /\ pc' = [pc EXCEPT ![t] = "loaded"] /\ builder' = [builder EXCEPT ![t] = b]
         \/ /\ ~Sound(n)
            /\ pc' = [pc EXCEPT ![t] = "corrupt"] /\ builder' = builder
    BY DEF ReadRoot
<1>3. /\ n \in 0..Len(records) /\ Len(records) \in Nat
      /\ base[t] <= height /\ base[t] < MaxBlocks /\ (base[t] = height => n = Len(records))
    BY <1>1, <1>2 DEF TaskGood, Kinds
<1>4. b.records = <<>> /\ Builds(b, SubSeq(records, 1, n) \o b.records, n)
    BY <1>1, <1>3, LoadedBuilds DEF Kinds, StoreGood
<1> HIDE DEF b, n
<1>5. CASE Sound(n)
    <2>1. /\ pc'[t] = "loaded" /\ builder'[t] = b
          /\ \A u \in Tasks : u # t => pc'[u] = pc[u] /\ builder'[u] = builder[u]
        BY <1>1, <1>2, <1>5 DEF Kinds
    <2>2. Kinds'
        <3>1. b.records \in Seq(Records) /\ Len(b.records) <= MaxBatch
            <4>1. <<>> \in Seq(Records) /\ Len(<<>>) = 0 /\ 0 <= MaxBatch
                BY BatchAssumption
            <4> QED
                BY <1>4, <4>1
        <3>2. /\ builder' = [builder EXCEPT ![t] = b] /\ pc' = [pc EXCEPT ![t] = "loaded"]
              /\ UNCHANGED <<store, base, size>>
            BY <1>2, <1>5
        <3> QED
            BY <1>1, <3>1, <3>2 DEF Kinds, store
    <2>3. LogOf(t)' = SubSeq(records, 1, n) \o b.records /\ size'[t] = n
        BY <1>2, <2>1 DEF LogOf, store, n
    <2>4. TaskGood(t)'
        BY <1>2, <1>3, <1>4, <2>1, <2>3 DEF TaskGood, store
    <2> QED
        BY <1>2, <2>1, <2>2, <2>4, TaskStep
<1>6. CASE ~Sound(n)
    <2>1. /\ pc'[t] = "corrupt" /\ builder' = builder
          /\ \A u \in Tasks : u # t => pc'[u] = pc[u]
        BY <1>1, <1>2, <1>6 DEF Kinds
    <2>2. Kinds'
        BY <1>1, <1>2, <1>6 DEF Kinds, store
    <2>3. n # Len(records)
        BY <1>1, <1>6, SoundNow
    <2>4. TaskGood(t)'
        BY <1>2, <1>3, <2>1, <2>3 DEF TaskGood, store, n
    <2> QED
        BY <1>2, <2>1, <2>2, <2>4, TaskStep
<1> QED
    BY <1>5, <1>6

LEMMA AddRecordStep ==
    ASSUME HistoryInv, NEW t \in Tasks, AddRecord(t)
    PROVE  HistoryInv'
<1>1. Kinds /\ StoreGood /\ TaskGood(t)
    BY DEF HistoryInv
<1> DEFINE b == builder[t]
           log == LogOf(t)
<1>2. PICK record \in Records :
         \/ /\ Appendable(b, MergeRecord(b, record))
            /\ builder' = [builder EXCEPT ![t] = AppendRecord(b, record)]
            /\ pc' = pc
         \/ /\ ~Appendable(b, MergeRecord(b, record))
            /\ pc' = [pc EXCEPT ![t] = "corrupt"] /\ builder' = builder
    BY <1>1 DEF AddRecord, Kinds
<1>3. /\ pc[t] = "loaded" /\ Len(b.records) < MaxBatch /\ b.count < MaxLeaves
      /\ UNCHANGED <<store, base, size>>
    BY DEF AddRecord
<1>4. /\ size[t] \in 0..Len(records) /\ Len(records) \in Nat
      /\ base[t] <= height /\ base[t] < MaxBlocks /\ (base[t] = height => size[t] = Len(records))
      /\ Builds(b, log, size[t])
    BY <1>1, <1>3 DEF TaskGood, Kinds
<1>5. /\ SubSeq(records, 1, size[t]) \in Seq(Records) /\ b.records \in Seq(Records)
      /\ records \in Seq(Records) /\ Held(records, nodes, roots)
    BY <1>1, <1>4, LogFacts DEF Kinds, StoreGood
<1>6. log \in Seq(Records) /\ Append(log, record) = SubSeq(records, 1, size[t]) \o Append(b.records, record)
    <2> DEFINE L == SubSeq(records, 1, size[t])
               B == b.records
    <2>1. L \in Seq(Records) /\ B \in Seq(Records) /\ log = L \o B
        BY <1>5 DEF LogOf
    <2> HIDE DEF L, B, log
    <2>2. L \o B \in Seq(Records) /\ L \o Append(B, record) = Append(L \o B, record)
        BY <2>1, LogFacts
    <2> QED
        BY <2>1, <2>2 DEF L, B
<1>7. b.count \in Nat /\ b.count = Len(log) /\ b.count + 1 <= MaxLeaves /\ size[t] <= b.count
      /\ b.next = MmrNodeCount(b.count)
    BY <1>3, <1>4, <1>6, MaxLeavesType DEF Builds
<1> DEFINE M == MergeRecord(b, record)
<1>8. /\ M.adjacent
      /\ \A i \in DOMAIN M.made :
            /\ NodePosition(M.made[i].coordinate) = b.next + i - 1
            /\ b.next + i - 1 >= MmrNodeCount(size[t])
      /\ OnLayout(b.count + 1, M.peaks)
      /\ Builds(AppendRecord(b, record), Append(log, record), size[t])
    <2> HIDE DEF b, log
    <2> QED
        BY <1>4, <1>6, <1>7, RecordAppended
<1>9. AppendRecord(b, record).records = Append(b.records, record)
    BY DEF AppendRecord
<1>10. CASE Appendable(b, M)
    <2> DEFINE a == AppendRecord(b, record)
    <2>1. builder' = [builder EXCEPT ![t] = a] /\ pc' = pc
        BY <1>2, <1>10
    <2>2. a.records = Append(b.records, record) /\ Builds(a, Append(log, record), size[t])
        BY <1>8, <1>9
    <2> HIDE DEF a, log
    <2>3. builder'[t] = a /\ \A u \in Tasks : u # t => builder'[u] = builder[u]
        BY <1>1, <2>1 DEF Kinds
    <2>4. a.records \in Seq(Records) /\ Len(a.records) <= MaxBatch
        BY <1>3, <1>5, <2>2, BatchAssumption
    <2>5. Kinds'
        BY <1>1, <1>3, <2>1, <2>3, <2>4 DEF Kinds, store
    <2>6. LogOf(t)' = Append(log, record) /\ size'[t] = size[t] /\ pc'[t] = "loaded"
        BY <1>3, <1>6, <2>1, <2>2, <2>3 DEF LogOf, store
    <2>7. TaskGood(t)'
        BY <1>3, <1>4, <2>2, <2>3, <2>6 DEF TaskGood, store
    <2> QED
        BY <1>3, <2>1, <2>3, <2>5, <2>7, TaskStep
<1>11. CASE ~Appendable(b, M)
    <2>1. /\ pc'[t] = "corrupt" /\ builder' = builder
          /\ \A u \in Tasks : u # t => pc'[u] = pc[u]
        BY <1>1, <1>2, <1>11 DEF Kinds
    <2>2. Kinds'
        BY <1>1, <1>2, <1>3, <1>11 DEF Kinds, store
    <2>3. size[t] # Len(records)
        <3> SUFFICES ASSUME size[t] = Len(records) PROVE Appendable(b, M)
            BY <1>11
        <3>1. DOMAIN nodes = 0..(MmrNodeCount(size[t]) - 1) /\ DOMAIN roots = 1..size[t]
            BY <1>5 DEF Held
        <3>2. MmrNodeCount(size[t]) \in Nat /\ MmrNodeCount(b.count) \in Nat
            BY <1>4, <1>7, CountMonotone, MaxLeavesType
        <3>3. b.count + 1 \notin DOMAIN roots
            BY <1>4, <1>7, <3>1
        <3>4. \A p \in DOMAIN nodes : p < MmrNodeCount(size[t])
            BY <3>1, <3>2
        <3>5. \A i \in DOMAIN M.made : b.next + i - 1 \notin DOMAIN nodes
            <4> SUFFICES ASSUME NEW i \in DOMAIN M.made, b.next + i - 1 \in DOMAIN nodes PROVE FALSE
                OBVIOUS
            <4> DEFINE p == b.next + i - 1
            <4>1. p \in 0..(MmrNodeCount(size[t]) - 1) /\ p >= MmrNodeCount(size[t])
                BY <1>8, <3>1
            <4> HIDE DEF p
            <4> QED
                BY <3>2, <4>1
        <3> HIDE DEF b, M
        <3> QED
            BY <1>8, <3>3, <3>5 DEF Appendable
    <2>4. TaskGood(t)'
        BY <1>3, <1>4, <2>1, <2>3 DEF TaskGood, store
    <2> QED
        BY <1>3, <2>1, <2>2, <2>4, TaskStep
<1> QED
    BY <1>10, <1>11

LEMMA FinishStep ==
    ASSUME HistoryInv, NEW t \in Tasks, Finish(t)
    PROVE  HistoryInv'
<1>1. Kinds /\ StoreGood /\ TaskGood(t)
    BY DEF HistoryInv
<1>2. pc[t] = "loaded" /\ UNCHANGED <<store, base, size, builder>>
    BY DEF Finish
<1>3. Consistent(builder[t])
    BY <1>1, <1>2 DEF TaskGood, Builds, Consistent
<1>4. pc' = [pc EXCEPT ![t] = "prepared"]
    BY <1>3 DEF Finish
<1>5. pc'[t] = "prepared" /\ \A u \in Tasks : u # t => pc'[u] = pc[u]
    BY <1>1, <1>4 DEF Kinds
<1>6. Kinds'
    BY <1>1, <1>2, <1>4 DEF Kinds, store
<1>7. LogOf(t)' = LogOf(t)
    BY <1>2 DEF LogOf, store
<1>8. TaskGood(t)'
    BY <1>1, <1>2, <1>5, <1>7 DEF TaskGood, store
<1> QED
    BY <1>2, <1>5, <1>6, <1>8, TaskStep

LEMMA AbandonStep ==
    ASSUME HistoryInv, NEW t \in Tasks, Abandon(t)
    PROVE  HistoryInv'
<1>1. Kinds
    BY DEF HistoryInv
<1>2. /\ pc'[t] = "idle" /\ UNCHANGED <<store, base, size, builder>>
      /\ \A u \in Tasks : u # t => pc'[u] = pc[u]
    BY <1>1 DEF Kinds, Abandon
<1>3. Kinds'
    BY <1>1 DEF Kinds, Abandon, store
<1>4. TaskGood(t)'
    BY <1>2 DEF TaskGood
<1> QED
    BY <1>2, <1>3, <1>4, TaskStep

\* Only a commit changes the store, and the blocks prepared beside it are too
\* old from then on.
LEMMA CommitStep ==
    ASSUME HistoryInv, NEW t \in Tasks, Commit(t)
    PROVE  HistoryInv'
<1>1. Kinds /\ StoreGood /\ \A u \in Tasks : TaskGood(u)
    BY DEF HistoryInv
<1> DEFINE b == builder[t]
           M == b.records
           len == Len(records)
<1>2. /\ pc[t] = "prepared" /\ base[t] = height
      /\ nodes' = Over(b.nodes, nodes) /\ roots' = Over(b.roots, roots)
      /\ current' = IF M = <<>> THEN current ELSE [size |-> b.count, root |-> b.root]
      /\ records' = records \o M /\ height' = height + 1
      /\ pc' = [pc EXCEPT ![t] = "idle"] /\ base' = base /\ size' = size /\ builder' = builder
    BY DEF Commit, Written
<1>3. records \in Seq(Records) /\ M \in Seq(Records) /\ Held(records, nodes, roots) /\ len \in Nat
    BY <1>1 DEF Kinds, StoreGood
<1>4. Builds(b, records \o M, len)
    <2>1. size[t] = len /\ Builds(b, SubSeq(records, 1, size[t]) \o M, size[t])
        BY <1>1, <1>2 DEF TaskGood, LogOf
    <2> QED
        BY <1>3, <2>1, LogFacts
<1>5. Held(records', nodes', roots')
    <2> HIDE DEF b
    <2>1. Held(records \o M, Over(b.nodes, nodes), Over(b.roots, roots))
        BY <1>3, <1>4, WrittenHolds
    <2> QED
        BY <1>2, <2>1
<1>6. /\ records' \in Seq(Records) /\ Len(records') = len + Len(M) /\ Len(M) \in Nat
      /\ \A n \in 0..len : SubSeq(records', 1, n) = SubSeq(records, 1, n)
    BY <1>2, <1>3, LogFacts
<1>7. StoreGood'
    <2>1. CASE M = <<>>
        <3>1. records' = records /\ current' = current
            BY <1>2, <1>3, <2>1, LogFacts
        <3> QED
            BY <1>1, <1>5, <3>1 DEF StoreGood
    <2>2. CASE M # <<>>
        <3>1. current' = [size |-> b.count, root |-> b.root]
            BY <1>2, <2>2
        <3>2. b.count = Len(records') /\ b.root = RootAt(records', Len(records'))
            BY <1>2, <1>4 DEF Builds
        <3>3. records' # <<>>
            BY <1>3, <1>6, <2>2
        <3> QED
            BY <1>5, <3>1, <3>2, <3>3 DEF StoreGood
    <2> QED
        BY <2>1, <2>2
<1>8. base[t] < MaxBlocks /\ height \in Nat /\ height + 1 \in 0..MaxBlocks
    BY <1>1, <1>2, BatchAssumption DEF TaskGood, Kinds
<1>9. Kinds'
    BY <1>1, <1>2, <1>6, <1>8 DEF Kinds
<1>10. pc'[t] = "idle" /\ \A u \in Tasks : u # t => pc'[u] = pc[u]
    BY <1>1, <1>2 DEF Kinds
<1>11. ASSUME NEW u \in Tasks PROVE TaskGood(u)'
    <2>1. CASE u = t
        BY <1>10, <2>1 DEF TaskGood
    <2>2. CASE u # t
        <3>1. pc'[u] = pc[u] /\ base'[u] = base[u] /\ size'[u] = size[u] /\ builder'[u] = builder[u]
            BY <1>2, <1>10, <2>2
        <3>2. TaskGood(u) /\ base[u] \in Nat /\ size[u] \in Nat
            BY <1>1, MaxLeavesType DEF Kinds
        <3>3. pc[u] # "idle" => base[u] < height' /\ base[u] < MaxBlocks
            BY <1>2, <1>8, <3>2 DEF TaskGood
        <3>4. pc[u] \in {"sized", "loaded", "prepared", "corrupt"} => size[u] \in 0..len
            BY <1>3, <3>2 DEF TaskGood
        <3>5. pc[u] \in {"loaded", "prepared"} => LogOf(u)' = LogOf(u)
            BY <1>6, <3>1, <3>4 DEF LogOf
        <3>6. base[u] < height' => base[u] <= height' /\ base[u] # height'
            BY <1>2, <1>8, <3>2
        <3>7. size[u] <= len => size[u] <= Len(records')
            BY <1>3, <1>6, <3>2
        <3>8. size[u] < len => size[u] < Len(records')
            BY <1>3, <1>6, <3>2
        <3> QED
            BY <3>1, <3>2, <3>3, <3>4, <3>5, <3>6, <3>7, <3>8 DEF TaskGood
    <2> QED
        BY <2>1, <2>2
<1> QED
    BY <1>7, <1>9, <1>11 DEF HistoryInv

LEMMA HistoryStep == HistoryInv /\ [Next]_vars => HistoryInv'
<1> SUFFICES ASSUME HistoryInv, [Next]_vars PROVE HistoryInv'
    OBVIOUS
<1>1. CASE UNCHANGED vars
    <2>1. /\ UNCHANGED <<nodes, roots, current, records, height, pc, base, size, builder>>
        BY <1>1 DEF vars, store, task
    <2> QED
        BY <2>1 DEF HistoryInv, Kinds, StoreGood, Held, TaskGood, LogOf
<1>2. ASSUME NEW t \in Tasks,
             \/ Begin(t) \/ ReadSize(t) \/ ReadRoot(t)
             \/ AddRecord(t) \/ Finish(t) \/ Commit(t) \/ Abandon(t)
      PROVE  HistoryInv'
    BY <1>2, BeginStep, ReadSizeStep, ReadRootStep, AddRecordStep, FinishStep, CommitStep, AbandonStep
<1> QED
    BY <1>1, <1>2 DEF Next, AtBound

LEMMA HistoryAlways == Spec => []HistoryInv
BY HistoryInit, HistoryStep, PTL DEF Spec

\* Every variable has its type, for any number of tasks, any records, any batch
\* bound and any height of the tallest peak.
LEMMA TypeFollows == HistoryInv => TypeOK
<1> SUFFICES ASSUME HistoryInv PROVE TypeOK
    OBVIOUS
<1>1. Kinds /\ Held(records, nodes, roots)
    BY DEF HistoryInv, StoreGood
<1>2. records \in Seq(Records) /\ Len(records) \in Nat /\ Len(records) <= MaxLeaves
    BY <1>1 DEF Kinds, Held
<1>3. DOMAIN nodes \subseteq Nat /\ DOMAIN roots \subseteq Nat
    <2>1. MmrNodeCount(Len(records)) \in Nat
        BY <1>2, SubtreesCounted
    <2> QED
        BY <1>1, <1>2, <2>1 DEF Held
<1>4. "size" \in DOMAIN current => current.size \in 1..MaxLeaves
    <2>1. CASE records = <<>>
        <3>1. current = <<>>
            BY <2>1 DEF HistoryInv, StoreGood
        <3>2. DOMAIN current = {}
            BY <3>1
        <3> QED
            BY <3>2
    <2>2. CASE records # <<>>
        <3>1. current = [size |-> Len(records), root |-> RootAt(records, Len(records))]
            BY <2>2 DEF HistoryInv, StoreGood
        <3>2. current.size = Len(records)
            BY <3>1
        <3> QED
            BY <1>2, <2>2, <3>2, MaxLeavesType
    <2> QED
        BY <2>1, <2>2
<1>5. \A t \in Tasks : builder[t].records \in BoundedSeq(Records, MaxBatch)
    <2> SUFFICES ASSUME NEW t \in Tasks PROVE builder[t].records \in BoundedSeq(Records, MaxBatch)
        OBVIOUS
    <2> DEFINE s == builder[t].records
    <2>1. s \in Seq(Records) /\ Len(s) <= MaxBatch
        BY <1>1 DEF Kinds
    <2> HIDE DEF s
    <2>2. Len(s) \in 0..MaxBatch /\ s \in [1..Len(s) -> Records]
        BY <2>1, BatchAssumption
    <2>3. s \in BoundedSeq(Records, MaxBatch)
        BY <2>2 DEF BoundedSeq, SeqOf
    <2> QED
        BY <2>3 DEF s
<1> QED
    BY <1>1, <1>2, <1>3, <1>4, <1>5 DEF TypeOK, Kinds

THEOREM HistoryTyped == Spec => []TypeOK
BY HistoryAlways, TypeFollows, PTL

\* However records are cut into blocks and whatever tasks race, the store holds
\* exactly the mountain range of the archive: every perfect subtree at its
\* position, no position left out, and the root of every prefix.
THEOREM HistoryIsMountainRange == Spec => []MountainRange
<1>1. HistoryInv => MountainRange
    <2> SUFFICES ASSUME HistoryInv PROVE MountainRange
        OBVIOUS
    <2> DEFINE n == Len(records)
    <2>1. records \in Seq(Records) /\ n \in Nat /\ Held(records, nodes, roots)
        BY DEF HistoryInv, Kinds, StoreGood
    <2>2. n <= MaxLeaves /\ DOMAIN roots = 1..n /\ DOMAIN nodes = 0..(MmrNodeCount(n) - 1)
        BY <2>1 DEF Held
    <2>3. Subtrees(n) = Sub(n) /\ Cardinality(Subtrees(n)) = MmrNodeCount(n)
        BY <2>1, <2>2, SubtreesAre, SubtreesCounted
    <2>4. \A c \in Subtrees(n) : nodes[NodePosition(c)] = PerfectHash(records, c)
        BY <2>1, <2>3 DEF Held
    <2>5. ASSUME NEW m \in 1..n PROVE roots[m] = ReferenceRoot(Committed(m))
        <3> DEFINE log == SubSeq(records, 1, m)
        <3>1. Len(log) = m /\ (\A i \in 1..m : log[i] = records[i]) /\ m \in Nat /\ m <= MaxLeaves
            BY <2>1, <2>2, LogFacts, MaxLeavesType
        <3> HIDE DEF log
        <3>2. ReferenceRoot(log) = RootAt(log, m) /\ RootAt(log, m) = RootAt(records, m)
            BY <3>1, ReferenceRootIs, TruePeaksLocal
        <3>3. roots[m] = RootAt(records, m)
            BY <2>1 DEF Held
        <3> QED
            BY <3>2, <3>3 DEF Committed, log
    <2>6. current = IF records = <<>> THEN <<>> ELSE [size |-> n, root |-> roots[n]]
        <3>1. records # <<>> => n \in 1..n
            BY <2>1
        <3>2. records # <<>> => roots[n] = RootAt(records, n)
            BY <2>1, <3>1 DEF Held
        <3> QED
            BY <3>2 DEF HistoryInv, StoreGood
    <2> QED
        BY <2>2, <2>3, <2>4, <2>5, <2>6 DEF MountainRange
<1> QED
    BY <1>1, HistoryAlways, PTL

\* A task whose reads all fall between two commits that bring records is never
\* told that its store is corrupt.
THEOREM CorruptionOnlyByRace == Spec => []CorruptionNeedsRace
<1>1. HistoryInv => CorruptionNeedsRace
    BY DEF HistoryInv, TaskGood, CorruptionNeedsRace
<1> QED
    BY <1>1, HistoryAlways, PTL

\* Every node and every prefix root stays.
Kept ==
    /\ \A p \in DOMAIN nodes : p \in DOMAIN nodes' /\ nodes'[p] = nodes[p]
    /\ \A n \in DOMAIN roots : n \in DOMAIN roots' /\ roots'[n] = roots[n]

LEMMA StepKeeps ==
    ASSUME HistoryInv, [Next]_vars
    PROVE  Kept
<1>1. CASE nodes' = nodes /\ roots' = roots
    BY <1>1 DEF Kept
<1>2. ASSUME NEW t \in Tasks, Commit(t) PROVE Kept
    <2> DEFINE b == builder[t]
    <2>1. /\ nodes' = Over(b.nodes, nodes) /\ roots' = Over(b.roots, roots)
          /\ pc[t] = "prepared" /\ base[t] = height
        BY <1>2 DEF Commit, Written
    <2>2. /\ records \in Seq(Records) /\ b.records \in Seq(Records) /\ Held(records, nodes, roots)
          /\ Builds(b, SubSeq(records, 1, Len(records)) \o b.records, Len(records))
        BY <2>1 DEF HistoryInv, Kinds, StoreGood, TaskGood, LogOf
    <2>3. Builds(b, records \o b.records, Len(records))
        BY <2>2, LogFacts
    <2> HIDE DEF b
    <2> QED
        BY <2>1, <2>2, <2>3, WrittenHolds DEF Kept
<1>3. (\E t \in Tasks : Commit(t)) \/ (nodes' = nodes /\ roots' = roots)
    BY DEF Next, Begin, ReadSize, ReadRoot, AddRecord, Finish, Abandon, AtBound, vars, store
<1> QED
    BY <1>1, <1>2, <1>3

\* The history is append-only: no node and no prefix root is ever overwritten or
\* removed, whatever tasks prepare side by side.
THEOREM HistoryAppendOnly == Spec => AppendOnly
<1>1. HistoryInv /\ [Next]_vars => [Kept]_vars
    BY StepKeeps
<1> QED
    BY <1>1, HistoryAlways, PTL DEF Spec, AppendOnly, Kept

-----------------------------------------------------------------------------
(* Roots and paths *)

PeakHashes(log, n) ==
    [k \in 1..Len(PeakLayout(n)) |-> PerfectHash(log, PeakLayout(n)[k])]

LEMMA RootHashes ==
    ASSUME NEW log, NEW n
    PROVE  RootOfHashes(n, PeakHashes(log, n)) = RootAt(log, n)
<1>1. Hashes(TruePeaks(log, n)) = PeakHashes(log, n)
    BY DEF Hashes, TruePeaks, HashedPeaks, Hashed, PeakHashes
<1> QED
    BY <1>1 DEF RootAt, RootOfPeaks

\* A root commits every peak.
LEMMA RootInjective ==
    ASSUME NEW n \in Nat, n <= MaxLeaves, NEW hs, NEW gs,
           RootOfHashes(n, hs) = RootOfHashes(n, gs)
    PROVE  \A k \in 1..Len(PeakLayout(n)) : hs[k] = gs[k]
<1> DEFINE P == PeakLayout(n)
           f == [k \in DOMAIN P |-> <<P[k].height, hs[k]>>]
           g == [k \in DOMAIN P |-> <<P[k].height, gs[k]>>]
<1>1. DOMAIN P = 1..Len(P)
    BY NodeCountIs, LayoutType
<1>2. <<"root", n, f>> = <<"root", n, g>>
    BY DEF RootOfHashes
<1> HIDE DEF f, g
<1>3. f = g
    BY <1>2
<1> SUFFICES ASSUME NEW k \in 1..Len(P) PROVE hs[k] = gs[k]
    OBVIOUS
<1>4. f[k] = <<P[k].height, hs[k]>> /\ g[k] = <<P[k].height, gs[k]>>
    BY <1>1 DEF f, g
<1> QED
    BY <1>3, <1>4

\* Two logs have the same root exactly when they agree.
LEMMA RootExact ==
    ASSUME NEW log, NEW other, NEW n \in Nat, n <= MaxLeaves
    PROVE  RootAt(log, n) = RootAt(other, n) <=> \A i \in 1..n : log[i] = other[i]
<1>1. (\A i \in 1..n : log[i] = other[i]) => RootAt(log, n) = RootAt(other, n)
    BY TruePeaksLocal
<1>2. ASSUME RootAt(log, n) = RootAt(other, n), NEW i \in 1..n PROVE log[i] = other[i]
    <2> DEFINE P == PeakLayout(n)
    <2>1. Layout(P, n)
        BY NodeCountIs
    <2>2. \A k \in 1..Len(P) : PerfectHash(log, P[k]) = PerfectHash(other, P[k])
        <3>1. \A k \in 1..Len(P) : PeakHashes(log, n)[k] = PeakHashes(other, n)[k]
            BY <1>2, RootHashes, RootInjective
        <3> QED
            BY <3>1 DEF PeakHashes
    <2>3. i - 1 \in Nat /\ i - 1 < n /\ (i - 1) + 1 = i
        OBVIOUS
    <2>4. PICK k \in 1..Len(P) : P[k].start <= i - 1 /\ i - 1 < End(P[k])
        BY <2>1, <2>3, PeakOver
    <2> DEFINE c == P[k]
    <2>5. c \in Coords /\ PerfectHash(log, c) = PerfectHash(other, c)
        BY <2>1, <2>2, LayoutType
    <2>6. c.start <= i - 1 /\ i - 1 < End(c)
        BY <2>4
    <2> HIDE DEF c
    <2>7. /\ c.start \in Nat /\ c.height \in 0..TopHeight /\ Width(c.height) \in Nat
          /\ c = At(c.start, c.height)
        BY <2>5, CoordType DEF At
    <2>8. i - 1 \in c.start..(c.start + Width(c.height) - 1)
        BY <2>3, <2>6, <2>7 DEF End
    <2>9. \A h \in 0..TopHeight : \A s \in Nat :
              PerfectHash(log, At(s, h)) = PerfectHash(other, At(s, h))
                 => \A l \in s..(s + Width(h) - 1) : log[l + 1] = other[l + 1]
        BY PerfectHashExact
    <2>10. \A l \in c.start..(c.start + Width(c.height) - 1) : log[l + 1] = other[l + 1]
        BY <2>5, <2>7, <2>9
    <2>11. log[(i - 1) + 1] = other[(i - 1) + 1]
        BY <2>8, <2>10
    <2> QED
        BY <2>3, <2>11
<1> QED
    BY <1>1, <1>2

\* The hash of a subtree tells where it starts.
LEMMA PerfectHashPlace ==
    ASSUME NEW log
    PROVE  \A h \in 0..TopHeight : \A s, r \in Nat :
              PerfectHash(log, At(s, h)) = PerfectHash(log, At(r, h)) => s = r
<1> DEFINE Good(h) == \A s, r \in Nat :
               PerfectHash(log, At(s, h)) = PerfectHash(log, At(r, h)) => s = r
           S == {h \in Nat : h <= TopHeight => Good(h)}
<1>1. 0 \in S
    <2>1. \A s \in Nat : PerfectHash(log, At(s, 0)) = LeafHash(s, log[s + 1])
        BY PerfectHashIs, HeightAssumption
    <2>2. \A s, r \in Nat : LeafHash(s, log[s + 1]) = LeafHash(r, log[r + 1]) => s = r
        BY DEF LeafHash
    <2> QED
        BY <2>1, <2>2
<1>2. ASSUME NEW k \in Nat, k \in S PROVE k + 1 \in S
    <2> SUFFICES ASSUME k + 1 <= TopHeight, NEW s \in Nat, NEW r \in Nat,
                        PerfectHash(log, At(s, k + 1)) = PerfectHash(log, At(r, k + 1))
                 PROVE  s = r
        OBVIOUS
    <2> DEFINE h == k + 1
    <2>1. h \in 0..TopHeight /\ h # 0 /\ h - 1 = k /\ k <= TopHeight
        BY HeightAssumption
    <2> HIDE DEF h
    <2>2. \A q \in Nat : PerfectHash(log, At(q, h))
             = ParentHash(h, PerfectHash(log, At(q, h - 1)), PerfectHash(log, At(q + Width(h - 1), h - 1)))
        BY <2>1, PerfectHashIs
    <2>3. PerfectHash(log, At(s, h)) = PerfectHash(log, At(r, h))
        BY DEF h
    <2>4. PerfectHash(log, At(s, k)) = PerfectHash(log, At(r, k))
        BY <2>1, <2>2, <2>3 DEF ParentHash
    <2> QED
        BY <1>2, <2>1, <2>4
<1>3. Nat \subseteq S
    <2> HIDE DEF S
    <2> QED
        BY <1>1, <1>2, NumbersUpward
<1> QED
    BY <1>3

\* The start of the subtree of height h over a leaf.
Above(i, h) == i - (i % Width(h))

LEMMA LeafPath ==
    ASSUME NEW i \in Nat, NEW h \in 0..TopHeight
    PROVE  /\ Above(i, h) \in Nat /\ Aligned(Above(i, h), h)
           /\ Above(i, h) <= i /\ i < Above(i, h) + Width(h)
           /\ Bit(i, h) \in {0, 1}
           /\ Bit(i, h) = 0 => Above(i, h + 1) = Above(i, h) /\ SiblingStart(i, h) = Above(i, h) + Width(h)
           /\ Bit(i, h) # 0 => /\ Above(i, h + 1) = SiblingStart(i, h)
                               /\ Above(i, h) = SiblingStart(i, h) + Width(h)
           /\ SiblingStart(i, h) \in Nat /\ Above(i, h + 1) \in Nat
<1> DEFINE w == Width(h)
           q == i \div w
           r == i % w
           b == Bit(i, h)
           a == Above(i, h)
           u == Above(i, h + 1)
           s == SiblingStart(i, h)
<1>1. h \in Levels /\ h + 1 \in Levels /\ w \in Nat /\ w > 0 /\ Width(h + 1) = 2 * w
    <2>1. h \in Levels /\ h + 1 \in Levels
        BY HeightAssumption DEF Levels
    <2> QED
        BY <2>1, WidthType, WidthNext
<1>2. r \in Nat /\ r < w /\ q \in Nat /\ i = q * w + r
    <2> HIDE DEF w
    <2> QED
        BY <1>1, DivMod
<1>3. b \in {0, 1} /\ i % Width(h + 1) = b * w + r
    BY DigitStep
<1>4. i % Width(h + 1) \in Nat /\ i % Width(h + 1) <= i
    <2>1. \A v \in Nat : v > 0 => i % v \in Nat /\ i % v <= i
        OBVIOUS
    <2> QED
        BY <1>1, <2>1
<1>5. a = i - r /\ u = i - (i % Width(h + 1))
    BY DEF Above
<1>6. s = IF b = 0 THEN (i - r) + w ELSE (i - r) - w
    BY DEF SiblingStart
<1>7. Above(i, h) = a /\ Width(h) = w /\ Bit(i, h) = b /\ SiblingStart(i, h) = s /\ Above(i, h + 1) = u
    OBVIOUS
<1> HIDE DEF w, q, r, b, a, u, s
<1>8. q * w \in Nat /\ a = q * w
    <2>1. q * w \in Nat
        BY <1>1, <1>2, Multiples
    <2> QED
        BY <1>2, <1>5, <2>1
<1>9. a \in Nat /\ Aligned(a, h) /\ a <= i /\ i < a + w
    <2>1. a \in Nat /\ a <= i /\ i < a + w
        BY <1>1, <1>2, <1>5, <1>8
    <2>2. Aligned(a, h)
        BY <1>2, <1>7, <1>8 DEF Aligned
    <2> QED
        BY <2>1, <2>2
<1>10. u \in Nat /\ u = i - (b * w + r)
    BY <1>3, <1>4, <1>5
<1>11. CASE b = 0
    <2>1. b * w = 0
        BY <1>1, <1>11
    <2>2. r \in Nat /\ b * w + r = r
        BY <1>2, <2>1
    <2>3. u = a
        BY <1>5, <1>10, <2>2
    <2>4. s = a + w
        BY <1>5, <1>6, <1>11
    <2>5. s \in Nat
        BY <1>1, <1>9, <2>4
    <2> QED
        BY <1>7, <1>9, <1>11, <2>3, <2>4, <2>5
<1>12. CASE b = 1
    <2>1. b * w = w
        BY <1>1, <1>12
    <2>2. u = a - w /\ s = a - w /\ s \in Nat /\ a = s + w
        BY <1>1, <1>2, <1>5, <1>6, <1>9, <1>10, <1>12, <2>1
    <2> QED
        BY <1>7, <1>9, <1>12, <2>2
<1> QED
    BY <1>3, <1>11, <1>12

\* What lies over a leaf of a peak lies in the peak.
LEMMA PathInPeak ==
    ASSUME NEW n \in Nat, NEW p \in Sub(n), NEW i \in Nat, p.start <= i, i < End(p)
    PROVE  /\ Above(i, p.height) = p.start
           /\ \A h \in 0..(p.height - 1) :
                 At(Above(i, h), h) \in Sub(n) /\ At(SiblingStart(i, h), h) \in Sub(n)
<1>1. p \in Coords /\ Aligned(p.start, p.height) /\ End(p) <= n
    BY SubMember
<1>2. /\ p.start \in Nat /\ p.height \in 0..TopHeight /\ p.height \in Levels /\ p.height \in Nat
      /\ Width(p.height) \in Nat /\ Width(p.height) > 0 /\ End(p) \in Nat
      /\ End(p) = p.start + Width(p.height)
    BY <1>1, CoordType DEF End
<1>3. Above(i, p.height) = p.start
    <2> DEFINE a == Above(i, p.height)
    <2>1. a \in Nat /\ Aligned(a, p.height) /\ a <= i /\ i < a + Width(p.height)
        BY <1>2, LeafPath
    <2> HIDE DEF a
    <2>2. ~(a < p.start)
        <3> SUFFICES ASSUME a < p.start PROVE FALSE
            OBVIOUS
        <3>1. a + Width(p.height) <= p.start
            BY <1>1, <1>2, <2>1, AlignedGap
        <3> QED
            BY <1>2, <2>1, <3>1
    <2>3. ~(p.start < a)
        <3> SUFFICES ASSUME p.start < a PROVE FALSE
            OBVIOUS
        <3>1. p.start + Width(p.height) <= a
            BY <1>1, <1>2, <2>1, AlignedGap
        <3> QED
            BY <1>2, <2>1, <3>1
    <2> QED
        BY <1>2, <2>1, <2>2, <2>3 DEF a
<1>4. ASSUME NEW h \in 0..(p.height - 1)
      PROVE  At(Above(i, h), h) \in Sub(n) /\ At(SiblingStart(i, h), h) \in Sub(n)
    <2>1. /\ h \in 0..TopHeight /\ h + 1 \in Levels /\ h \in Levels /\ h + 1 <= p.height /\ h <= p.height
          /\ Width(h) \in Nat /\ Width(h) > 0 /\ Width(h + 1) = 2 * Width(h)
        <3>1. h \in 0..TopHeight /\ h + 1 \in Levels /\ h \in Levels /\ h + 1 <= p.height /\ h <= p.height
            BY <1>2, HeightAssumption DEF Levels
        <3> QED
            BY <3>1, WidthType, WidthNext
    <2> DEFINE a == Above(i, h)
               s == SiblingStart(i, h)
               u == Above(i, h + 1)
    <2>2. /\ a \in Nat /\ Aligned(a, h) /\ a <= i /\ i < a + Width(h)
          /\ Bit(i, h) \in {0, 1} /\ s \in Nat /\ u \in Nat
          /\ (u = a /\ s = a + Width(h)) \/ (u = s /\ a = s + Width(h))
        BY <2>1, LeafPath
    <2> HIDE DEF a, s, u
    <2>3. Aligned(p.start, h + 1) /\ Aligned(End(p), h + 1)
        <3>1. Aligned(p.start, h + 1) /\ Aligned(Width(p.height), h + 1)
            BY <1>1, <1>2, <2>1, AlignedDown, AlignedWidth
        <3> QED
            BY <1>2, <2>1, <3>1, AlignedSum
    <2>4. Aligned(u, h + 1) /\ u <= i /\ i < u + 2 * Width(h)
        <3>1. u <= i /\ i < u + 2 * Width(h)
            BY <2>1, <2>2
        <3>2. Aligned(u, h + 1)
            <4>1. CASE h + 1 \in 0..TopHeight
                BY <4>1, LeafPath DEF u
            <4>2. CASE h + 1 \notin 0..TopHeight
                BY <1>2, <2>1, <4>2, HeightAssumption
            <4> QED
                BY <4>1, <4>2
        <3> QED
            BY <3>1, <3>2
    <2>5. p.start <= u
        <3> SUFFICES ASSUME u < p.start PROVE FALSE
            BY <1>2, <2>2
        <3>1. u + Width(h + 1) <= p.start
            BY <1>2, <2>1, <2>2, <2>3, <2>4, AlignedGap
        <3> QED
            BY <1>2, <2>1, <2>2, <2>4, <3>1
    <2>6. u + 2 * Width(h) <= End(p)
        <3>1. u < End(p)
            BY <1>2, <2>2, <2>4
        <3>2. u + Width(h + 1) <= End(p)
            BY <1>2, <2>1, <2>2, <2>3, <2>4, <3>1, AlignedGap
        <3> QED
            BY <2>1, <3>2
    <2>7. Aligned(u, h) /\ Aligned(u + Width(h), h)
        BY <2>1, <2>2, <2>4, AlignedOdd
    <2>8. Aligned(s, h)
        BY <2>2, <2>7
    <2>9. a + Width(h) <= n /\ s + Width(h) <= n
        BY <1>1, <1>2, <2>1, <2>2, <2>6
    <2>10. At(a, h) \in Coords /\ At(s, h) \in Coords
        BY <2>1, <2>2 DEF At, Coords
    <2>11. End(At(a, h)) = a + Width(h) /\ End(At(s, h)) = s + Width(h)
        BY DEF End, At
    <2> QED
        BY <2>2, <2>8, <2>9, <2>10, <2>11 DEF Sub, At, a, s
<1> QED
    BY <1>3, <1>4

-----------------------------------------------------------------------------
(* Inclusion *)

\* A function on 1..N is a sequence of length N.
LEMMA SequenceLen ==
    ASSUME NEW N \in Nat, NEW s, s = [k \in 1..N |-> s[k]]
    PROVE  Len(s) = N /\ DOMAIN s = 1..N
<1> DEFINE V == {s[k] : k \in 1..N}
<1>1. \A k \in 1..N : s[k] \in V
    OBVIOUS
<1> HIDE DEF V
<1>2. s \in [1..N -> V]
    BY <1>1
<1> QED
    BY <1>2

\* The peak that is found is the one over the leaf.
LEMMA TargetIs ==
    ASSUME NEW P, NEW n, Layout(P, n), NEW leaf \in Nat, leaf < n
    PROVE  LET k == TargetPeak(P, leaf) IN
           k \in 1..Len(P) /\ P[k].start <= leaf /\ leaf < End(P[k])
<1>1. DOMAIN P = 1..Len(P) /\ n \in Nat /\ \A i \in 1..Len(P) : P[i] \in Coords
    BY LayoutType
<1> DEFINE Covering(i) == leaf \in P[i].start..(P[i].start + Width(P[i].height) - 1)
<1>2. ASSUME NEW i \in 1..Len(P)
      PROVE  Covering(i) <=> P[i].start <= leaf /\ leaf < End(P[i])
    <2>1. P[i].start \in Nat /\ Width(P[i].height) \in Nat /\ End(P[i]) = P[i].start + Width(P[i].height)
        BY <1>1, CoordType DEF End
    <2> QED
        BY <2>1
<1>3. \E i \in 1..Len(P) : P[i].start <= leaf /\ leaf < End(P[i])
    BY <1>1, PeakOver
<1>4. \E i \in DOMAIN P : Covering(i)
    BY <1>1, <1>2, <1>3
<1>5. TargetPeak(P, leaf) = CHOOSE i \in DOMAIN P : Covering(i)
    BY DEF TargetPeak
<1> HIDE DEF Covering
<1>6. TargetPeak(P, leaf) \in DOMAIN P /\ Covering(TargetPeak(P, leaf))
    BY <1>4, <1>5
<1> QED
    BY <1>1, <1>2, <1>6

Climbs(j, H, f, siblings) ==
    \A l \in 1..H : f[l] = IF Bit(j, l - 1) = 0
                           THEN ParentHash(l, f[l - 1], siblings[l])
                           ELSE ParentHash(l, siblings[l], f[l - 1])

ClimbTurns(proof, record, f) ==
    f = [l \in 0..Len(proof.siblings) |->
            IF l = 0 THEN LeafHash(proof.leaf_index, record)
            ELSE IF Bit(proof.leaf_index, l - 1) = 0
                 THEN ParentHash(l, f[l - 1], proof.siblings[l])
                 ELSE ParentHash(l, proof.siblings[l], f[l - 1])]

\* The nodes of a path, from the leaf to its peak.
LEMMA ClimbDef ==
    ASSUME NEW proof, Len(proof.siblings) \in Nat, NEW record
    PROVE  \E f :
           /\ Climb(proof, record) = f[Len(proof.siblings)]
           /\ f[0] = LeafHash(proof.leaf_index, record)
           /\ Climbs(proof.leaf_index, Len(proof.siblings), f, proof.siblings)
<1> DEFINE leaf == LeafHash(proof.leaf_index, record)
           Turn(l, below) == IF Bit(proof.leaf_index, l - 1) = 0
                             THEN ParentHash(l, below, proof.siblings[l])
                             ELSE ParentHash(l, proof.siblings[l], below)
           Solves(f, m) == f = [l \in 0..m |-> IF l = 0 THEN leaf ELSE Turn(l, f[l - 1])]
           S == {m \in Nat : \E f : Solves(f, m)}
<1> HIDE DEF Turn, leaf
<1>1. 0 \in S
    <2>1. Solves([l \in 0..0 |-> leaf], 0)
        OBVIOUS
    <2> QED
        BY <2>1
<1>2. ASSUME NEW m \in Nat, m \in S PROVE m + 1 \in S
    <2>1. PICK f : Solves(f, m)
        BY <1>2
    <2> DEFINE g == [l \in 0..(m + 1) |-> IF l = 0 THEN leaf ELSE Turn(l, f[l - 1])]
    <2>2. \A l \in 0..m : g[l] = f[l]
        BY <2>1
    <2>3. \A l \in 0..(m + 1) : l # 0 => g[l - 1] = f[l - 1]
        <3> HIDE DEF g
        <3> QED
            BY <2>2
    <2>4. Solves(g, m + 1)
        BY <2>3
    <2> HIDE DEF g, Solves
    <2> QED
        BY <2>4
<1>3. Len(proof.siblings) \in S
    <2> HIDE DEF S
    <2> QED
        BY <1>1, <1>2, NumbersUpward
<1>4. \E f : ClimbTurns(proof, record, f)
    BY <1>3 DEF ClimbTurns, Turn, leaf
<1> DEFINE F == CHOOSE f : ClimbTurns(proof, record, f)
<1>5. ClimbTurns(proof, record, F)
    BY <1>4
<1>6. Climb(proof, record) = F[Len(proof.siblings)]
    BY DEF Climb, ClimbTurns
<1> HIDE DEF F
<1>7. F = [l \in 0..Len(proof.siblings) |-> IF l = 0 THEN leaf ELSE Turn(l, F[l - 1])]
    BY <1>5 DEF ClimbTurns, Turn, leaf
<1>8. F[0] = leaf /\ \A l \in 1..Len(proof.siblings) : F[l] = Turn(l, F[l - 1])
    <2> DEFINE N == Len(proof.siblings)
    <2>1. N \in Nat /\ F = [l \in 0..N |-> IF l = 0 THEN leaf ELSE Turn(l, F[l - 1])]
        BY <1>7
    <2> HIDE DEF N
    <2>2. \A l \in 0..N : F[l] = IF l = 0 THEN leaf ELSE Turn(l, F[l - 1])
        BY <2>1
    <2>3. 0 \in 0..N /\ \A l \in 1..N : l \in 0..N /\ l # 0
        BY <2>1
    <2>4. F[0] = leaf /\ \A l \in 1..N : F[l] = Turn(l, F[l - 1])
        BY <2>2, <2>3
    <2> QED
        BY <2>4 DEF N
<1>9. Climbs(proof.leaf_index, Len(proof.siblings), F, proof.siblings)
    BY <1>8 DEF Climbs, Turn
<1> QED
    BY <1>6, <1>8, <1>9 DEF leaf

AllBeside(log, j, H, siblings) ==
    \A l \in 1..H : siblings[l] = PerfectHash(log, At(SiblingStart(j, l - 1), l - 1))

\* A path from leaf j meets the subtrees over j exactly when it starts with the
\* record of j and every sibling is the one beside it.
LEMMA PathExact ==
    ASSUME NEW log, NEW j \in Nat, NEW H \in 0..TopHeight, NEW f, NEW siblings,
           Climbs(j, H, f, siblings)
    PROVE  f[H] = PerfectHash(log, At(Above(j, H), H))
           <=> f[0] = PerfectHash(log, At(Above(j, 0), 0)) /\ AllBeside(log, j, H, siblings)
<1> DEFINE On(l) == f[l] = PerfectHash(log, At(Above(j, l), l))
           Beside(l) == siblings[l] = PerfectHash(log, At(SiblingStart(j, l - 1), l - 1))
           Good(l) == On(l) <=> (On(0) /\ \A k \in 1..l : Beside(k))
           S == {l \in Nat : l <= H => Good(l)}
<1>1. 0 \in S
    <2> HIDE DEF On, Beside
    <2> QED
        OBVIOUS
<1>2. ASSUME NEW m \in Nat, m \in S PROVE m + 1 \in S
    <2> SUFFICES ASSUME m + 1 <= H PROVE Good(m + 1)
        OBVIOUS
    <2> DEFINE l == m + 1
               a == Above(j, m)
               u == Above(j, l)
               s == SiblingStart(j, m)
    <2>1. l \in 1..H /\ l \in 0..TopHeight /\ m \in 0..TopHeight /\ l # 0 /\ l - 1 = m /\ m <= H
        BY HeightAssumption
    <2>2. /\ a \in Nat /\ u \in Nat /\ s \in Nat /\ Bit(j, m) \in {0, 1}
          /\ Bit(j, m) = 0 => u = a /\ s = a + Width(m)
          /\ Bit(j, m) # 0 => u = s /\ a = s + Width(m)
        BY <2>1, LeafPath
    <2> HIDE DEF a, u, s, l
    <2>3. PerfectHash(log, At(u, l))
             = ParentHash(l, PerfectHash(log, At(u, m)), PerfectHash(log, At(u + Width(m), m)))
        BY <2>1, <2>2, PerfectHashIs
    <2>4. f[l] = IF Bit(j, m) = 0 THEN ParentHash(l, f[m], siblings[l])
                                  ELSE ParentHash(l, siblings[l], f[m])
        BY <2>1 DEF Climbs
    <2>5. \A x, y, v, w : ParentHash(l, x, y) = ParentHash(l, v, w) <=> x = v /\ y = w
        BY DEF ParentHash
    <2>6. f[l] = PerfectHash(log, At(u, l))
          <=> f[m] = PerfectHash(log, At(a, m)) /\ siblings[l] = PerfectHash(log, At(s, m))
        <3>1. CASE Bit(j, m) = 0
            BY <2>2, <2>3, <2>4, <2>5, <3>1
        <3>2. CASE Bit(j, m) # 0
            BY <2>2, <2>3, <2>4, <2>5, <3>2
        <3> QED
            BY <3>1, <3>2
    <2>7. On(l) <=> On(m) /\ Beside(l)
        BY <2>1, <2>6 DEF a, u, s
    <2>8. Good(m)
        BY <1>2, <2>1
    <2>9. 1..l = 1..m \cup {l}
        BY DEF l
    <2> HIDE DEF On, Beside
    <2>10. Good(l)
        BY <2>7, <2>8, <2>9
    <2> QED
        BY <2>10 DEF l
<1>3. Good(H)
    <2> HIDE DEF Good
    <2>1. Nat \subseteq S
        <3> HIDE DEF S
        <3> QED
            BY <1>1, <1>2, NumbersUpward
    <2> QED
        BY <2>1, HeightAssumption
<1> QED
    BY <1>3 DEF AllBeside

\* A path starts at its leaf.
LEMMA PathStart ==
    ASSUME NEW i \in Nat
    PROVE  /\ Above(i, 0) = i
           /\ SiblingStart(i, 0) = IF i % 2 = 0 THEN i + 1 ELSE i - 1
<1>1. i % 1 = 0 /\ i \div 1 = i
    OBVIOUS
<1> QED
    BY <1>1, WidthZero DEF Above, SiblingStart, Bit

\* Different leaves have different leaves beside them.
LEMMA LeafBeside ==
    ASSUME NEW i \in Nat, NEW j \in Nat, SiblingStart(i, 0) = SiblingStart(j, 0)
    PROVE  i = j
<1>1. i % 2 \in {0, 1} /\ j % 2 \in {0, 1}
    OBVIOUS
<1>2. (IF i % 2 = 0 THEN i + 1 ELSE i - 1) = (IF j % 2 = 0 THEN j + 1 ELSE j - 1)
    BY PathStart
<1> QED
    BY <1>1, <1>2

\* What is read at the nodes of a committed prefix are their hashes.
LEMMA ReadHashes ==
    ASSUME NEW X, records \in Seq(X), Held(records, nodes, roots), NEW n \in 0..Len(records),
           NEW N \in Nat, NEW f, DOMAIN f = 1..N, \A k \in 1..N : f[k] \in Sub(n)
    PROVE  /\ ReadNodes(f) = [k \in 1..N |-> PerfectHash(records, f[k])]
           /\ Len(ReadNodes(f)) = N
<1>1. n \in Nat /\ Len(records) \in Nat /\ n <= Len(records)
    OBVIOUS
<1>2. \A k \in 1..N : nodes[NodePosition(f[k])] = PerfectHash(records, f[k])
    BY <1>1, SubGrows DEF Held
<1>3. ReadNodes(f) = [k \in 1..N |-> nodes[NodePosition(f[k])]]
    BY DEF ReadNodes
<1>4. ReadNodes(f) = [k \in 1..N |-> PerfectHash(records, f[k])]
    BY <1>2, <1>3
<1>5. ReadNodes(f) = [k \in 1..N |-> ReadNodes(f)[k]]
    BY <1>4
<1> QED
    BY <1>4, <1>5, SequenceLen

\* The peaks that are read, in particular.
LEMMA ReadPeakHashes ==
    ASSUME NEW X, records \in Seq(X), Held(records, nodes, roots), NEW n \in 0..Len(records)
    PROVE  /\ ReadNodes(PeakLayout(n)) = PeakHashes(records, n)
           /\ Len(ReadNodes(PeakLayout(n))) = Len(PeakLayout(n))
           /\ RootOfHashes(n, ReadNodes(PeakLayout(n))) = ReadRootAt(n)
<1>1. n \in Nat /\ n <= MaxLeaves /\ ReadRootAt(n) = RootAt(records, n)
    BY ReadTrue
<1>2. Layout(PeakLayout(n), n)
    BY <1>1, NodeCountIs
<1>3. DOMAIN PeakLayout(n) = 1..Len(PeakLayout(n)) /\ Len(PeakLayout(n)) \in Nat
    BY <1>2, LayoutType
<1>4. \A k \in 1..Len(PeakLayout(n)) : PeakLayout(n)[k] \in Sub(n)
    BY <1>1, <1>2, PeakIsSubtree
<1>5. /\ ReadNodes(PeakLayout(n)) = PeakHashes(records, n)
      /\ Len(ReadNodes(PeakLayout(n))) = Len(PeakLayout(n))
    BY <1>3, <1>4, ReadHashes DEF PeakHashes
<1> QED
    BY <1>1, <1>5, RootHashes

\* Peaks of one height are one peak.
LEMMA PeakHeights ==
    ASSUME NEW P, NEW n, Layout(P, n), NEW a \in 1..Len(P), NEW b \in 1..Len(P),
           P[a].height = P[b].height
    PROVE  a = b
<1>1. P[a] \in Coords /\ P[b] \in Coords /\ Len(P) \in Nat
    BY LayoutType
<1>2. P[a].height \in Nat /\ P[b].height \in Nat
    BY <1>1, CoordType
<1>3. ~(a < b) /\ ~(b < a)
    BY <1>2 DEF Layout
<1> QED
    BY <1>1, <1>3

\* An inclusion proof for leaf i, read as one for leaf j, verifies with record r
\* exactly when it is the proof of its own leaf and record.
LEMMA InclusionFits ==
    ASSUME NEW X, records \in Seq(X), Held(records, nodes, roots),
           NEW n \in 0..Len(records), NEW i \in 0..(n - 1), NEW j \in 0..(n - 1), NEW r
    PROVE  VerifyInclusion(ReadRootAt(n), r, [InclusionProof(i, n) EXCEPT !.leaf_index = j])
           <=> i = j /\ r = records[i + 1]
<1> DEFINE P == PeakLayout(n)
           a == TargetPeak(P, i)
           b == TargetPeak(P, j)
           p == P[a]
           path == [l \in 1..p.height |-> [start |-> SiblingStart(i, l - 1), height |-> l - 1]]
           pr == [InclusionProof(i, n) EXCEPT !.leaf_index = j]
<1>1. n \in Nat /\ n <= MaxLeaves /\ i \in Nat /\ i < n /\ j \in Nat /\ j < n
    BY ReadTrue
<1>2. Layout(P, n)
    BY <1>1, NodeCountIs
<1>3. /\ a \in 1..Len(P) /\ p.start <= i /\ i < End(p)
      /\ b \in 1..Len(P) /\ P[b].start <= j /\ j < End(P[b])
    BY <1>1, <1>2, TargetIs
<1>4. p \in Sub(n) /\ P[b] \in Sub(n) /\ p \in Coords /\ P[b] \in Coords
    BY <1>1, <1>2, <1>3, PeakIsSubtree, SubMember
<1>5. /\ p.height \in 0..TopHeight /\ p.height \in Nat /\ P[b].height \in Nat
      /\ p = At(p.start, p.height)
    BY <1>4, CoordType DEF At
<1>6. /\ pr.leaf_index = j /\ pr.leaf_count = n /\ pr.peaks = ReadNodes(P)
      /\ pr.siblings = ReadNodes(path)
    BY DEF InclusionProof
<1>7. /\ pr.siblings = [l \in 1..p.height |-> PerfectHash(records, At(SiblingStart(i, l - 1), l - 1))]
      /\ Len(pr.siblings) = p.height
    <2>1. \A l \in 1..p.height : path[l] = At(SiblingStart(i, l - 1), l - 1)
        BY DEF At
    <2>2. \A l \in 1..p.height : l - 1 \in 0..(p.height - 1)
        BY <1>5
    <2>3. \A l \in 1..p.height : path[l] \in Sub(n)
        BY <1>1, <1>3, <1>4, <2>1, <2>2, PathInPeak
    <2>4. DOMAIN path = 1..p.height
        OBVIOUS
    <2> HIDE DEF path
    <2>5. /\ ReadNodes(path) = [l \in 1..p.height |-> PerfectHash(records, path[l])]
          /\ Len(ReadNodes(path)) = p.height
        BY <1>5, <2>3, <2>4, ReadHashes
    <2> QED
        BY <1>6, <2>1, <2>5
<1> HIDE DEF path, pr
<1>8. /\ pr.peaks = PeakHashes(records, n) /\ Len(pr.peaks) = Len(P)
      /\ RootOfHashes(n, pr.peaks) = ReadRootAt(n)
    BY <1>6, ReadPeakHashes
<1>9. pr.peaks[b] = PerfectHash(records, P[b])
    BY <1>3, <1>8 DEF PeakHashes
<1>10. VerifyInclusion(ReadRootAt(n), r, pr)
       <=> p.height = P[b].height /\ PerfectHash(records, P[b]) = Climb(pr, r)
    <2>1. InclusionStructure(pr) <=> p.height = P[b].height
        BY <1>1, <1>6, <1>7, <1>8 DEF InclusionStructure
    <2> QED
        BY <1>6, <1>8, <1>9, <2>1 DEF VerifyInclusion
<1>11. p.height = P[b].height <=> a = b
    BY <1>2, <1>3, PeakHeights
<1>12. i = j => a = b
    OBVIOUS
<1>13. SUFFICES ASSUME a = b
                PROVE  PerfectHash(records, p) = Climb(pr, r) <=> i = j /\ r = records[i + 1]
    BY <1>10, <1>11, <1>12 DEF pr
<1> DEFINE H == p.height
<1>14. Above(i, H) = p.start /\ Above(j, H) = p.start
    BY <1>1, <1>3, <1>4, <1>13, PathInPeak
<1>15. PICK f : /\ Climb(pr, r) = f[H]
                /\ f[0] = LeafHash(j, r)
                /\ Climbs(j, H, f, pr.siblings)
    <2>1. Len(pr.siblings) \in Nat
        BY <1>5, <1>7
    <2>2. \E f : /\ Climb(pr, r) = f[Len(pr.siblings)]
                 /\ f[0] = LeafHash(pr.leaf_index, r)
                 /\ Climbs(pr.leaf_index, Len(pr.siblings), f, pr.siblings)
        BY <2>1, ClimbDef, Zenon
    <2> QED
        BY <1>6, <1>7, <2>2
<1>16. f[H] = PerfectHash(records, At(Above(j, H), H))
       <=> f[0] = PerfectHash(records, At(Above(j, 0), 0)) /\ AllBeside(records, j, H, pr.siblings)
    BY <1>1, <1>5, <1>15, PathExact
<1>17. f[H] = PerfectHash(records, At(Above(j, H), H)) <=> PerfectHash(records, p) = Climb(pr, r)
    BY <1>5, <1>14, <1>15
<1>18. f[0] = PerfectHash(records, At(Above(j, 0), 0)) <=> r = records[j + 1]
    <2>1. PerfectHash(records, At(j, 0)) = LeafHash(j, records[j + 1])
        BY <1>1, PerfectHashIs, HeightAssumption
    <2>2. Above(j, 0) = j
        BY <1>1, PathStart
    <2>3. LeafHash(j, r) = LeafHash(j, records[j + 1]) <=> r = records[j + 1]
        BY DEF LeafHash
    <2> QED
        BY <1>15, <2>1, <2>2, <2>3
<1>19. AllBeside(records, j, H, pr.siblings) <=> i = j
    <2> USE DEF AllBeside
    <2>1. \A l \in 1..H : pr.siblings[l] = PerfectHash(records, At(SiblingStart(i, l - 1), l - 1))
        BY <1>7
    <2>2. CASE H = 0
        <3>1. Above(i, 0) = i /\ Above(j, 0) = j
            BY <1>1, PathStart
        <3>2. i = j
            BY <1>14, <2>2, <3>1
        <3> QED
            BY <2>1, <3>2
    <2>3. CASE H # 0
        <3>1. 1 \in 1..H /\ 1 - 1 = 0
            BY <1>5, <2>3
        <3>2. ASSUME pr.siblings[1] = PerfectHash(records, At(SiblingStart(j, 0), 0))
              PROVE  i = j
            <4>1. PerfectHash(records, At(SiblingStart(i, 0), 0)) = PerfectHash(records, At(SiblingStart(j, 0), 0))
                BY <2>1, <3>1, <3>2
            <4>2. SiblingStart(i, 0) \in Nat /\ SiblingStart(j, 0) \in Nat
                <5>1. 0 \in 0..TopHeight
                    BY HeightAssumption
                <5>2. \A k \in Nat : SiblingStart(k, 0) \in Nat
                    BY <5>1, LeafPath
                <5> QED
                    BY <1>1, <5>2
            <4>3. SiblingStart(i, 0) = SiblingStart(j, 0)
                BY <4>1, <4>2, PerfectHashPlace, HeightAssumption
            <4> QED
                BY <1>1, <4>3, LeafBeside
        <3> QED
            BY <2>1, <3>1, <3>2
    <2> QED
        BY <2>2, <2>3
<1> QED
    BY <1>16, <1>17, <1>18, <1>19

\* The inclusion proof of a leaf, at every prefix that holds it, verifies with the
\* record of that leaf and that index, and with no other.
THEOREM InclusionProofsExact == Spec => []InclusionExact
<1>1. HistoryInv => InclusionExact
    <2> SUFFICES ASSUME HistoryInv, NEW n \in Sizes, NEW i \in 0..(n - 1), NEW j \in 0..(n - 1),
                        NEW r \in Records
                 PROVE  VerifyInclusion(ReadRootAt(n), r, [InclusionProof(i, n) EXCEPT !.leaf_index = j])
                        <=> i = j /\ r = records[i + 1]
        BY DEF InclusionExact
    <2>1. records \in Seq(Records) /\ Held(records, nodes, roots)
        BY DEF HistoryInv, StoreGood, Kinds
    <2> QED
        BY <2>1, InclusionFits DEF Sizes
<1> QED
    BY <1>1, HistoryAlways, PTL

-----------------------------------------------------------------------------
(* Consistency *)

\* The subtrees that may stand at a place short of the end have a tallest one.
LEMMA TallestFits ==
    ASSUME NEW n \in Nat, NEW c \in 0..n, c # n
    PROVE  LET h == Max(SubtreesAt(c, n)) IN
           /\ h \in 0..TopHeight /\ Aligned(c, h) /\ Width(h) \in Nat /\ Width(h) > 0
           /\ c + Width(h) <= n
<1> DEFINE S == SubtreesAt(c, n)
           R == {TopHeight - h : h \in S}
<1>1. S \subseteq 0..TopHeight
    BY DEF SubtreesAt
<1>2. 0 \in S
    <2>1. c % 1 = 0 /\ c + 1 <= n
        OBVIOUS
    <2> QED
        BY <2>1, WidthZero, HeightAssumption DEF SubtreesAt
<1>3. \A h \in S : c + Width(h) <= n /\ c % Width(h) = 0
    BY DEF SubtreesAt
<1> HIDE DEF S
<1>4. \E x \in S : \A y \in S : x >= y
    <2>1. R \subseteq Nat /\ R # {}
        BY <1>1, <1>2, HeightAssumption
    <2>2. PICK r \in R : \A q \in R : r <= q
        BY <2>1, LeastNumber
    <2>3. PICK x \in S : r = TopHeight - x
        BY <2>2
    <2>4. \A y \in S : TopHeight - y \in R
        OBVIOUS
    <2>5. ASSUME NEW y \in S PROVE x >= y
        <3>1. TopHeight - x <= TopHeight - y
            BY <2>2, <2>3, <2>4
        <3>2. x \in Int /\ y \in Int
            BY <1>1
        <3> QED
            BY <3>1, <3>2, HeightAssumption
    <2> QED
        BY <2>5
<1>5. Max(S) \in S
    BY <1>4 DEF Max
<1>6. Max(S) \in Levels /\ Max(S) \in 0..TopHeight /\ c \in Nat
    <2> DEFINE x == Max(S)
    <2>1. x \in 0..TopHeight
        BY <1>1, <1>5
    <2> HIDE DEF x
    <2>2. x \in Levels
        BY <2>1, HeightAssumption DEF Levels
    <2> QED
        BY <2>1, <2>2 DEF x
<1>7. Aligned(c, Max(S))
    BY <1>3, <1>5, <1>6, AlignedMod
<1> QED
    BY <1>3, <1>5, <1>6, <1>7, WidthType DEF S

RangeTurns(m, n, f) ==
    f = [c \in m..n |->
            IF c = n THEN <<>>
            ELSE <<At(c, Max(SubtreesAt(c, n)))>> \o f[c + Width(Max(SubtreesAt(c, n)))]]

LEMMA RangeTurnsExist ==
    ASSUME NEW n \in Nat, NEW m \in 0..n
    PROVE  \E f : RangeTurns(m, n, f)
<1> DEFINE Following(c) == c + Width(Max(SubtreesAt(c, n)))
           Turn(c, rest) == <<At(c, Max(SubtreesAt(c, n)))>> \o rest
           S == {d \in Nat : d <= n => \E f : f = [c \in (n - d)..n |->
                                IF c = n THEN <<>> ELSE Turn(c, f[Following(c)])]}
<1>1. \A c \in 0..n : c # n => Following(c) \in (c + 1)..n
    <2> SUFFICES ASSUME NEW c \in 0..n, c # n PROVE Following(c) \in (c + 1)..n
        OBVIOUS
    <2> DEFINE w == Width(Max(SubtreesAt(c, n)))
    <2>1. w \in Nat /\ w > 0 /\ c + w <= n
        BY TallestFits
    <2> HIDE DEF w
    <2>2. c + w \in (c + 1)..n
        BY <2>1
    <2> QED
        BY <2>2 DEF w
<1> HIDE DEF Following, Turn
<1>2. 0 \in S
    <2> DEFINE f == [c \in n..n |-> <<>>]
    <2>1. f = [c \in (n - 0)..n |-> IF c = n THEN <<>> ELSE Turn(c, f[Following(c)])]
        OBVIOUS
    <2> HIDE DEF f
    <2> QED
        BY <2>1
<1>3. ASSUME NEW d \in Nat, d \in S PROVE d + 1 \in S
    <2> SUFFICES ASSUME d + 1 <= n
                 PROVE  \E f : f = [c \in (n - (d + 1))..n |->
                                IF c = n THEN <<>> ELSE Turn(c, f[Following(c)])]
        OBVIOUS
    <2>1. PICK f : f = [c \in (n - d)..n |-> IF c = n THEN <<>> ELSE Turn(c, f[Following(c)])]
        BY <1>3
    <2> DEFINE g == [c \in (n - (d + 1))..n |-> IF c = n THEN <<>> ELSE Turn(c, f[Following(c)])]
    <2>2. \A c \in (n - d)..n : g[c] = f[c]
        BY <2>1
    <2>3. \A c \in (n - (d + 1))..n : c # n => Following(c) \in (n - d)..n
        <3> SUFFICES ASSUME NEW c \in (n - (d + 1))..n, c # n PROVE Following(c) \in (n - d)..n
            OBVIOUS
        <3>1. c \in 0..n
            OBVIOUS
        <3>2. Following(c) \in (c + 1)..n
            BY <1>1, <3>1
        <3> QED
            BY <3>1, <3>2
    <2>4. \A c \in (n - (d + 1))..n : c # n => g[Following(c)] = f[Following(c)]
        <3> HIDE DEF g
        <3> QED
            BY <2>2, <2>3
    <2>5. g = [c \in (n - (d + 1))..n |-> IF c = n THEN <<>> ELSE Turn(c, g[Following(c)])]
        BY <2>4
    <2> HIDE DEF g
    <2> QED
        BY <2>5
<1>4. n - m \in S
    <2>1. n - m \in Nat
        OBVIOUS
    <2>2. Nat \subseteq S
        <3> HIDE DEF S
        <3> QED
            BY <1>2, <1>3, NumbersUpward
    <2> QED
        BY <2>1, <2>2
<1>5. n - (n - m) = m /\ n - m <= n
    OBVIOUS
<1> QED
    BY <1>4, <1>5 DEF RangeTurns, Following, Turn

\* Aligned subtrees that follow each other from m to n.
Chain(R, m, n) ==
    /\ R \in Seq(Coords)
    /\ Len(R) = 0 => m = n
    /\ Len(R) # 0 => R[1].start = m /\ End(R[Len(R)]) = n
    /\ \A i \in 1..Len(R) : /\ Aligned(R[i].start, R[i].height)
                            /\ m <= R[i].start /\ End(R[i]) <= n
                            /\ i # Len(R) => R[i + 1].start = End(R[i])

LEMMA ChainType ==
    ASSUME NEW R, NEW m, NEW n, Chain(R, m, n)
    PROVE  /\ R \in Seq(Coords) /\ Len(R) \in Nat /\ DOMAIN R = 1..Len(R)
           /\ \A k \in 1..Len(R) : R[k] \in Coords
<1>1. R \in Seq(Coords)
    BY DEF Chain
<1> QED
    BY <1>1

\* One more in front.
LEMMA ChainLonger ==
    ASSUME NEW n \in Nat, NEW m \in Nat, NEW h \in 0..TopHeight, Aligned(m, h),
           NEW R, Chain(R, m + Width(h), n), m + Width(h) <= n
    PROVE  Chain(<<At(m, h)>> \o R, m, n)
<1> DEFINE c == At(m, h)
           Q == <<c>> \o R
<1>1. /\ c \in Coords /\ c.start = m /\ c.height = h /\ End(c) = m + Width(h)
      /\ Width(h) \in Nat /\ Width(h) > 0
    <2>1. c \in Coords /\ c.start = m /\ c.height = h /\ End(c) = m + Width(h)
        BY DEF Coords, At, End
    <2> QED
        BY <2>1, CoordType
<1> HIDE DEF c
<1>2. R \in Seq(Coords) /\ Len(R) \in Nat
    BY DEF Chain
<1>3. /\ Q \in Seq(Coords) /\ Len(Q) = Len(R) + 1 /\ Q[1] = c
      /\ \A i \in 1..Len(R) : Q[i + 1] = R[i]
    BY <1>1, <1>2
<1> HIDE DEF Q
<1>4. \A i \in 1..Len(Q) : i # 1 => i - 1 \in 1..Len(R) /\ Q[i] = R[i - 1]
    <2> SUFFICES ASSUME NEW i \in 1..Len(Q), i # 1 PROVE i - 1 \in 1..Len(R) /\ Q[i] = R[i - 1]
        OBVIOUS
    <2>1. i - 1 \in 1..Len(R) /\ (i - 1) + 1 = i
        BY <1>2, <1>3
    <2> QED
        BY <1>3, <2>1
<1>5. Len(R) # 0 => Q[2] = R[1] /\ Q[Len(Q)] = R[Len(R)] /\ R[1].start = m + Width(h) /\ End(R[Len(R)]) = n
    <2> SUFFICES ASSUME Len(R) # 0
                 PROVE  Q[2] = R[1] /\ Q[Len(Q)] = R[Len(R)] /\ R[1].start = m + Width(h) /\ End(R[Len(R)]) = n
        OBVIOUS
    <2>1. 1 \in 1..Len(R) /\ Len(R) \in 1..Len(R) /\ 1 + 1 = 2
        BY <1>2
    <2>2. Q[2] = R[1] /\ Q[Len(Q)] = R[Len(R)]
        BY <1>3, <2>1
    <2> QED
        BY <2>2 DEF Chain
<1>6. End(Q[Len(Q)]) = n
    <2>1. CASE Len(R) = 0
        BY <1>1, <1>3, <2>1 DEF Chain
    <2>2. CASE Len(R) # 0
        BY <1>5, <2>2
    <2> QED
        BY <2>1, <2>2
<1>7. ASSUME NEW i \in 1..Len(Q)
      PROVE  /\ Aligned(Q[i].start, Q[i].height) /\ m <= Q[i].start /\ End(Q[i]) <= n
             /\ i # Len(Q) => Q[i + 1].start = End(Q[i])
    <2>1. CASE i = 1
        <3>1. 1 # Len(Q) => Q[2].start = End(c)
            <4>1. 1 # Len(Q) => Len(R) # 0
                BY <1>2, <1>3
            <4> QED
                BY <1>1, <1>5, <4>1
        <3>2. m <= m /\ 1 + 1 = 2
            OBVIOUS
        <3> QED
            BY <1>1, <1>3, <2>1, <3>1, <3>2
    <2>2. CASE i # 1
        <3> DEFINE k == i - 1
        <3>1. k \in 1..Len(R) /\ Q[i] = R[k] /\ k + 1 = i
            BY <1>4, <2>2
        <3> HIDE DEF k
        <3>2. /\ Aligned(R[k].start, R[k].height) /\ m + Width(h) <= R[k].start /\ End(R[k]) <= n
              /\ k # Len(R) => R[k + 1].start = End(R[k])
            BY <3>1 DEF Chain
        <3>3. R[k].start \in Nat
            BY <1>2, <3>1, CoordType
        <3>4. m <= R[k].start
            BY <1>1, <3>2, <3>3
        <3>5. i # Len(Q) => k # Len(R) /\ k + 1 \in 1..Len(R) /\ Q[i + 1] = R[k + 1]
            <4> SUFFICES ASSUME i # Len(Q) PROVE k # Len(R) /\ k + 1 \in 1..Len(R) /\ Q[i + 1] = R[k + 1]
                OBVIOUS
            <4>1. k # Len(R) /\ k + 1 \in 1..Len(R)
                BY <1>2, <1>3, <3>1
            <4> QED
                BY <1>3, <3>1, <4>1
        <3> QED
            BY <3>1, <3>2, <3>4, <3>5
    <2> QED
        BY <2>1, <2>2
<1>8. Len(Q) # 0
    BY <1>2, <1>3
<1>9. Chain(Q, m, n)
    BY <1>1, <1>3, <1>6, <1>7, <1>8 DEF Chain
<1> QED
    BY <1>9 DEF Q, c

\* The canonical range is such a chain.
LEMMA CanonicalChain ==
    ASSUME NEW n \in Nat, NEW m \in 0..n
    PROVE  Chain(CanonicalRange(m, n), m, n)
<1> DEFINE F == CHOOSE f : RangeTurns(m, n, f)
<1>1. RangeTurns(m, n, F)
    BY RangeTurnsExist
<1>2. CanonicalRange(m, n) = F[m]
    BY DEF CanonicalRange, RangeTurns, At
<1> HIDE DEF F
<1>3. \A c \in m..n : F[c] = IF c = n THEN <<>>
             ELSE <<At(c, Max(SubtreesAt(c, n)))>> \o F[c + Width(Max(SubtreesAt(c, n)))]
    BY <1>1 DEF RangeTurns
<1> DEFINE Bad == {d \in Nat : d <= n - m /\ ~Chain(F[n - d], n - d, n)}
<1>4. Bad = {}
    <2> SUFFICES ASSUME Bad # {} PROVE FALSE
        OBVIOUS
    <2>1. PICK d \in Bad : \A e \in Bad : d <= e
        BY LeastNumber
    <2> DEFINE c == n - d
    <2>2. d \in Nat /\ d <= n - m /\ ~Chain(F[c], c, n)
        BY <2>1
    <2>3. c \in Nat /\ c \in m..n /\ c \in 0..n
        BY <2>2
    <2>4. CASE c = n
        <3>1. F[c] = <<>>
            BY <1>3, <2>3, <2>4
        <3>2. <<>> \in Seq(Coords) /\ Len(<<>>) = 0
            OBVIOUS
        <3>3. Chain(<<>>, n, n)
            BY <3>2 DEF Chain
        <3> QED
            BY <2>2, <2>4, <3>1, <3>3
    <2>5. CASE c # n
        <3> DEFINE h == Max(SubtreesAt(c, n))
                   e == n - (c + Width(h))
        <3>1. /\ h \in 0..TopHeight /\ Aligned(c, h) /\ Width(h) \in Nat /\ Width(h) > 0
              /\ c + Width(h) <= n
            BY <2>3, <2>5, TallestFits
        <3>2. F[c] = <<At(c, h)>> \o F[c + Width(h)]
            BY <1>3, <2>3, <2>5
        <3> HIDE DEF h
        <3>3. e \in Nat /\ e <= n - m /\ e < d /\ n - e = c + Width(h)
            BY <2>2, <2>3, <3>1
        <3>4. Chain(F[c + Width(h)], c + Width(h), n)
            <4>1. e \notin Bad
                BY <2>1, <2>2, <3>3
            <4> QED
                BY <3>3, <4>1
        <3>5. Chain(F[c], c, n)
            BY <2>3, <3>1, <3>2, <3>4, ChainLonger
        <3> QED
            BY <2>2, <3>5
    <2> QED
        BY <2>4, <2>5
<1>5. n - m \in Nat /\ n - (n - m) = m /\ n - m \notin Bad
    BY <1>4
<1> QED
    BY <1>2, <1>5

\* The subtrees that a consistency proof brings.
RangeOf(proof) == Place(CanonicalRange(proof.old_size, proof.new_size), proof.appended_subtrees)

MergeTurns(proof, f) ==
    f = [k \in 0..Len(RangeOf(proof)) |->
            IF k = 0
            THEN [peaks |-> Place(PeakLayout(proof.old_size), proof.old_peaks), adjacent |-> TRUE]
            ELSE LET merge == MergePeak(f[k - 1].peaks, RangeOf(proof)[k]) IN
                 [peaks |-> merge.peaks, adjacent |-> f[k - 1].adjacent /\ merge.adjacent]]

\* The peaks after each appended subtree.
LEMMA MergedDef ==
    ASSUME NEW proof, NEW N \in Nat, Len(RangeOf(proof)) = N
    PROVE  \E f :
           /\ Merged(proof) = f[N]
           /\ f[0] = [peaks |-> Place(PeakLayout(proof.old_size), proof.old_peaks), adjacent |-> TRUE]
           /\ \A k \in 1..N :
                 f[k] = [peaks |-> MergePeak(f[k - 1].peaks, RangeOf(proof)[k]).peaks,
                         adjacent |-> f[k - 1].adjacent
                                      /\ MergePeak(f[k - 1].peaks, RangeOf(proof)[k]).adjacent]
<1> DEFINE first == [peaks |-> Place(PeakLayout(proof.old_size), proof.old_peaks), adjacent |-> TRUE]
           Turn(k, before) ==
               [peaks |-> MergePeak(before.peaks, RangeOf(proof)[k]).peaks,
                adjacent |-> before.adjacent /\ MergePeak(before.peaks, RangeOf(proof)[k]).adjacent]
           Solves(f, m) == f = [k \in 0..m |-> IF k = 0 THEN first ELSE Turn(k, f[k - 1])]
           S == {m \in Nat : \E f : Solves(f, m)}
<1> HIDE DEF Turn, first
<1>1. 0 \in S
    <2>1. Solves([k \in 0..0 |-> first], 0)
        OBVIOUS
    <2> QED
        BY <2>1
<1>2. ASSUME NEW m \in Nat, m \in S PROVE m + 1 \in S
    <2>1. PICK f : Solves(f, m)
        BY <1>2
    <2> DEFINE g == [k \in 0..(m + 1) |-> IF k = 0 THEN first ELSE Turn(k, f[k - 1])]
    <2>2. \A k \in 0..m : g[k] = f[k]
        BY <2>1
    <2>3. \A k \in 0..(m + 1) : k # 0 => g[k - 1] = f[k - 1]
        <3> HIDE DEF g
        <3> QED
            BY <2>2
    <2>4. Solves(g, m + 1)
        BY <2>3
    <2> HIDE DEF g, Solves
    <2> QED
        BY <2>4
<1>3. N \in S
    <2> HIDE DEF S
    <2> QED
        BY <1>1, <1>2, NumbersUpward
<1>4. \E f : MergeTurns(proof, f)
    BY <1>3 DEF MergeTurns, Turn, first
<1> DEFINE F == CHOOSE f : MergeTurns(proof, f)
<1>5. MergeTurns(proof, F)
    BY <1>4
<1>6. Merged(proof) = F[N]
    BY DEF Merged, MergeTurns, RangeOf
<1> HIDE DEF F
<1>7. F = [k \in 0..N |-> IF k = 0 THEN first ELSE Turn(k, F[k - 1])]
    BY <1>5 DEF MergeTurns, Turn, first
<1>8. F[0] = first /\ \A k \in 1..N : F[k] = Turn(k, F[k - 1])
    BY <1>7
<1> QED
    BY <1>6, <1>8 DEF Turn, first

\* The place a canonical range up to n has reached after k of its subtrees.
Reached(R, n, k) == IF k = Len(R) THEN n ELSE R[k + 1].start

LEMMA RangeEnds ==
    ASSUME NEW n \in Nat, NEW m \in 0..n
    PROVE  LET R == CanonicalRange(m, n) IN
           Len(R) \in Nat /\ Reached(R, n, 0) = m /\ Reached(R, n, Len(R)) = n
<1> DEFINE R == CanonicalRange(m, n)
<1>1. Chain(R, m, n)
    BY CanonicalChain
<1> HIDE DEF R
<1>2. Len(R) \in Nat
    BY <1>1, ChainType
<1>3. (Len(R) = 0 => m = n) /\ (Len(R) # 0 => R[1].start = m)
    BY <1>1 DEF Chain
<1>4. 0 + 1 = 1
    OBVIOUS
<1>5. Reached(R, n, 0) = m /\ Reached(R, n, Len(R)) = n
    BY <1>2, <1>3, <1>4 DEF Reached
<1> QED
    BY <1>2, <1>5 DEF R

\* Each of its subtrees starts where the last one ended, and is no taller than the
\* last peak of what is there.
Follows(R, n, k, a, h) ==
    /\ k + 1 \in 1..Len(R) /\ R[k + 1] = At(a, h)
    /\ a = Reached(R, n, k) /\ a + Width(h) = Reached(R, n, k + 1)
    /\ a \in Nat /\ h \in 0..TopHeight /\ Width(h) \in Nat /\ Aligned(a, h)
    /\ a <= MaxLeaves /\ a + Width(h) <= MaxLeaves
    /\ Layout(PeakLayout(a), a)
    /\ Len(PeakLayout(a)) > 0 => h <= PeakLayout(a)[Len(PeakLayout(a))].height

LEMMA RangeStep ==
    ASSUME NEW n \in Nat, n <= MaxLeaves, NEW m \in 0..n, NEW R, R = CanonicalRange(m, n),
           NEW k \in 0..(Len(R) - 1)
    PROVE  Follows(R, n, k, R[k + 1].start, R[k + 1].height)
<1> DEFINE a == R[k + 1].start
           h == R[k + 1].height
           c == R[k + 1]
           P == PeakLayout(a)
<1>1. Chain(R, m, n) /\ Len(R) \in Nat
    BY CanonicalChain, RangeEnds
<1>2. k + 1 \in 1..Len(R) /\ k # Len(R) /\ Len(R) # 0
    BY <1>1
<1>3. /\ c \in Coords /\ Aligned(a, h) /\ End(c) <= n
      /\ k + 1 # Len(R) => R[(k + 1) + 1].start = End(c)
      /\ k + 1 = Len(R) => End(c) = n
    BY <1>1, <1>2, ChainType DEF Chain
<1>4. /\ a \in Nat /\ h \in 0..TopHeight /\ h \in Levels /\ h \in Nat /\ c = At(a, h)
      /\ Width(h) \in Nat /\ End(c) = a + Width(h)
    BY <1>3, CoordType DEF At, End
<1>5. a = Reached(R, n, k) /\ a + Width(h) = Reached(R, n, k + 1)
    BY <1>2, <1>3, <1>4 DEF Reached
<1> HIDE DEF c, a, h
<1>6. a <= MaxLeaves /\ a + Width(h) <= MaxLeaves
    BY <1>3, <1>4, MaxLeavesType
<1>7. Layout(P, a)
    BY <1>4, <1>6, NodeCountIs
<1>8. Len(P) > 0 => h <= P[Len(P)].height
    <2> SUFFICES ASSUME Len(P) > 0, ~(h <= P[Len(P)].height) PROVE FALSE
        OBVIOUS
    <2>1. P[Len(P)].height \in 0..TopHeight /\ ~Aligned(a, P[Len(P)].height + 1)
        BY <1>7, LayoutAligned
    <2> DEFINE top == P[Len(P)].height
               g == top + 1
    <2>2. top \in 0..TopHeight /\ ~(h <= top)
        BY <2>1
    <2> HIDE DEF top
    <2>3. g \in Levels /\ g <= h
        BY <1>4, <2>2, HeightAssumption DEF Levels
    <2> HIDE DEF g
    <2>4. Aligned(a, g)
        BY <1>3, <1>4, <2>3, AlignedDown
    <2> QED
        BY <2>1, <2>4 DEF g, top
<1> QED
    BY <1>2, <1>3, <1>4, <1>5, <1>6, <1>7, <1>8 DEF Follows, c, a, h

\* Peaks on the layout of a range take such a subtree and are on the layout of the
\* longer range.
TakesUp(a, h, peaks, carry) ==
    LET M == MergePeak(peaks, carry) IN
    /\ MergeGood(PeakLayout(a), a, peaks, h, carry)
    /\ M.adjacent = TRUE
    /\ Coordinates(M.peaks) = PeakLayout(a + Width(h))
    /\ OnCoords(PeakLayout(a + Width(h)), M.peaks)

LEMMA LayoutTakes ==
    ASSUME NEW R, NEW n, NEW k, NEW a, NEW h, Follows(R, n, k, a, h),
           NEW peaks, OnCoords(PeakLayout(a), peaks), NEW carry, carry.coordinate = At(a, h)
    PROVE  TakesUp(a, h, peaks, carry)
<1> DEFINE M == MergePeak(peaks, carry)
           P == PeakLayout(a)
           Q == PeakLayout(a + Width(h))
           j == Joins(peaks, carry)
<1>1. /\ a \in Nat /\ h \in 0..TopHeight /\ Width(h) \in Nat /\ Aligned(a, h)
      /\ a + Width(h) <= MaxLeaves /\ Layout(P, a)
      /\ Len(P) > 0 => h <= P[Len(P)].height
    BY DEF Follows
<1>2. carry.coordinate = [start |-> a, height |-> h]
    BY DEF At
<1>3. MergeGood(P, a, peaks, h, carry)
    BY <1>1, <1>2, MergeWorks
<1>4. M.adjacent = TRUE
    <2>1. M.adjacent \in BOOLEAN
        BY DEF MergePeak
    <2> QED
        BY <1>3, <2>1 DEF MergeGood
<1>5. Coordinates(M.peaks) = Q
    <2>1. Layout(Q, a + Width(h))
        BY <1>1, NodeCountIs
    <2> QED
        BY <1>3, <2>1, LayoutUnique DEF MergeGood
<1>6. OnCoords(Q, M.peaks)
    <2>1. j \in 0..Len(P) /\ Len(P) \in Nat
        BY <1>1, <1>3, LayoutType DEF MergeGood
    <2> DEFINE N == Len(P) - j + 1
    <2>2. M.peaks = [i \in 1..N |-> M.peaks[i]] /\ DOMAIN M.peaks = 1..N
        BY <1>3 DEF MergeGood
    <2> HIDE DEF M, j
    <2>3. Q = [i \in 1..N |-> M.peaks[i].coordinate]
        BY <1>5, <2>2 DEF Coordinates
    <2>4. N \in Nat
        BY <2>1
    <2> HIDE DEF Q, N
    <2>5. Len(Q) = N
        <3>1. Q = [i \in 1..N |-> Q[i]]
            BY <2>3
        <3> QED
            BY <2>4, <3>1, SequenceLen
    <2> QED
        BY <2>2, <2>3, <2>5 DEF OnCoords
<1> QED
    BY <1>3, <1>4, <1>5, <1>6 DEF TakesUp

\* True peaks merged with the true subtrees of the canonical range are the true
\* peaks of the longer range.
LEMMA MergedTrue ==
    ASSUME NEW log, NEW n \in Nat, n <= MaxLeaves, NEW m \in 0..n,
           NEW proof, proof.old_size = m, proof.new_size = n,
           proof.old_peaks = PeakHashes(log, m),
           \A k \in 1..Len(CanonicalRange(m, n)) :
               proof.appended_subtrees[k] = PerfectHash(log, CanonicalRange(m, n)[k])
    PROVE  Merged(proof) = [peaks |-> TruePeaks(log, n), adjacent |-> TRUE]
<1> DEFINE R == CanonicalRange(m, n)
           N == Len(R)
           at(k) == Reached(R, n, k)
<1>1. /\ Chain(R, m, n) /\ R \in Seq(Coords) /\ N \in Nat /\ DOMAIN R = 1..N
      /\ \A k \in 1..N : R[k] \in Coords
    <2>1. Chain(R, m, n)
        BY CanonicalChain
    <2> HIDE DEF R
    <2> QED
        BY <2>1, ChainType
<1>2. RangeOf(proof) = [k \in 1..N |-> Hashed(log, R[k])]
    <2>1. RangeOf(proof) = [k \in 1..N |-> [coordinate |-> R[k], hash |-> proof.appended_subtrees[k]]]
        BY <1>1 DEF RangeOf, Place
    <2> QED
        BY <2>1 DEF Hashed
<1>3. Len(RangeOf(proof)) = N
    <2>1. RangeOf(proof) = [k \in 1..N |-> RangeOf(proof)[k]]
        BY <1>2
    <2> QED
        BY <1>1, <2>1, SequenceLen
<1>4. Place(PeakLayout(m), proof.old_peaks) = TruePeaks(log, m)
    <2>1. m \in Nat /\ m <= MaxLeaves
        BY MaxLeavesType
    <2>2. DOMAIN PeakLayout(m) = 1..Len(PeakLayout(m))
        BY <2>1, NodeCountIs, LayoutType
    <2>3. \A k \in 1..Len(PeakLayout(m)) : proof.old_peaks[k] = PerfectHash(log, PeakLayout(m)[k])
        BY DEF PeakHashes
    <2> QED
        BY <2>2, <2>3 DEF Place, TruePeaks, HashedPeaks, Hashed
<1>5. PICK f : /\ Merged(proof) = f[N]
               /\ f[0] = [peaks |-> TruePeaks(log, m), adjacent |-> TRUE]
               /\ \A k \in 1..N :
                     f[k] = [peaks |-> MergePeak(f[k - 1].peaks, RangeOf(proof)[k]).peaks,
                             adjacent |-> f[k - 1].adjacent
                                          /\ MergePeak(f[k - 1].peaks, RangeOf(proof)[k]).adjacent]
    <2> HIDE DEF N
    <2>1. \E f :
           /\ Merged(proof) = f[N]
           /\ f[0] = [peaks |-> Place(PeakLayout(proof.old_size), proof.old_peaks), adjacent |-> TRUE]
           /\ \A k \in 1..N :
                 f[k] = [peaks |-> MergePeak(f[k - 1].peaks, RangeOf(proof)[k]).peaks,
                         adjacent |-> f[k - 1].adjacent
                                      /\ MergePeak(f[k - 1].peaks, RangeOf(proof)[k]).adjacent]
        <3>1. N \in Nat /\ Len(RangeOf(proof)) = N
            BY <1>1, <1>3
        <3> QED
            BY <3>1, MergedDef, Zenon
    <2>2. Place(PeakLayout(proof.old_size), proof.old_peaks) = TruePeaks(log, m)
        BY <1>4
    <2> QED
        BY <2>1, <2>2, Zenon
<1>6. R = CanonicalRange(m, n)
    OBVIOUS
<1> HIDE DEF R
<1>7. N \in Nat /\ at(0) = m /\ at(N) = n
    BY <1>6, RangeEnds
<1> HIDE DEF N
<1> DEFINE Good(k) == f[k] = [peaks |-> TruePeaks(log, at(k)), adjacent |-> TRUE]
           S == {k \in Nat : k <= N => Good(k)}
<1>8. 0 \in S
    BY <1>5, <1>7
<1>9. ASSUME NEW k \in Nat, k \in S PROVE k + 1 \in S
    <2> SUFFICES ASSUME k + 1 <= N PROVE Good(k + 1)
        OBVIOUS
    <2> DEFINE a == R[k + 1].start
               h == R[k + 1].height
               peaks == HashedPeaks(log, PeakLayout(a))
               carry == Hashed(log, At(a, h))
               M == MergePeak(peaks, carry)
    <2>0. k \in 0..(N - 1) /\ k <= N /\ (k + 1) - 1 = k
        BY <1>7
    <2>1. Follows(R, n, k, a, h)
        BY <1>6, <2>0, RangeStep DEF N
    <2> HIDE DEF a, h
    <2>2. /\ k + 1 \in 1..N /\ R[k + 1] = At(a, h)
          /\ a = at(k) /\ a + Width(h) = at(k + 1)
          /\ a \in Nat /\ h \in 0..TopHeight /\ Aligned(a, h) /\ a + Width(h) <= MaxLeaves
          /\ Layout(PeakLayout(a), a)
          /\ Len(PeakLayout(a)) > 0 => h <= PeakLayout(a)[Len(PeakLayout(a))].height
        BY <2>1 DEF Follows, N
    <2>3. M.peaks = HashedPeaks(log, Coordinates(M.peaks))
        BY <2>2, MergeTrue
    <2>4. M.adjacent = TRUE /\ Coordinates(M.peaks) = PeakLayout(a + Width(h))
        <3>1. OnCoords(PeakLayout(a), peaks) /\ carry.coordinate = At(a, h)
            BY <2>2, HashedOnCoords DEF Hashed
        <3> HIDE DEF peaks, carry
        <3>2. TakesUp(a, h, peaks, carry)
            BY <2>1, <3>1, LayoutTakes
        <3> QED
            BY <3>2 DEF TakesUp
    <2>5. M.peaks = TruePeaks(log, at(k + 1))
        BY <2>2, <2>3, <2>4 DEF TruePeaks
    <2>6. f[k].peaks = peaks /\ f[k].adjacent = TRUE
        BY <1>9, <2>0, <2>2 DEF TruePeaks
    <2>7. RangeOf(proof)[k + 1] = carry
        BY <1>2, <2>2
    <2>8. f[k + 1] = [peaks |-> MergePeak(f[k].peaks, RangeOf(proof)[k + 1]).peaks,
                      adjacent |-> f[k].adjacent /\ MergePeak(f[k].peaks, RangeOf(proof)[k + 1]).adjacent]
        BY <1>5, <2>0, <2>2
    <2> HIDE DEF M, peaks, carry
    <2>9. f[k + 1] = [peaks |-> M.peaks, adjacent |-> TRUE /\ M.adjacent]
        BY <2>6, <2>7, <2>8 DEF M
    <2> QED
        BY <2>4, <2>5, <2>9
<1>10. Good(N)
    <2>1. Nat \subseteq S
        <3> HIDE DEF S
        <3> QED
            BY <1>8, <1>9, NumbersUpward
    <2> QED
        BY <1>7, <2>1
<1> QED
    BY <1>5, <1>7, <1>10

\* What such a proof reaches.
LEMMA ReachesTrue ==
    ASSUME NEW log, NEW n \in Nat, n <= MaxLeaves, NEW m \in 0..n,
           NEW proof, proof.old_size = m, proof.new_size = n,
           proof.old_peaks = PeakHashes(log, m),
           \A k \in 1..Len(CanonicalRange(m, n)) :
               proof.appended_subtrees[k] = PerfectHash(log, CanonicalRange(m, n)[k]),
           NEW root
    PROVE  ReachesRoot(root, proof) <=> root = RootAt(log, n)
<1>1. Merged(proof) = [peaks |-> TruePeaks(log, n), adjacent |-> TRUE]
    BY MergedTrue
<1>2. OnLayout(n, TruePeaks(log, n))
    <2>1. Layout(PeakLayout(n), n)
        BY NodeCountIs
    <2> QED
        BY <2>1, HashedOnCoords DEF OnLayout, TruePeaks
<1> QED
    BY <1>1, <1>2 DEF ReachesRoot, RootAt

\* What the consistency query of two committed sizes gives.
LEMMA QueryTrue ==
    ASSUME NEW X, records \in Seq(X), Held(records, nodes, roots),
           NEW n \in 0..Len(records), NEW m \in 0..n
    PROVE  LET proof == ConsistencyProof(m, n) IN
           /\ m \in 0..Len(records) /\ n \in Nat /\ n <= MaxLeaves /\ m \in Nat /\ m <= MaxLeaves
           /\ proof.old_size = m /\ proof.new_size = n
           /\ proof.old_peaks = PeakHashes(records, m)
           /\ RootOfHashes(m, proof.old_peaks) = ReadRootAt(m)
           /\ \A k \in 1..Len(CanonicalRange(m, n)) :
                 proof.appended_subtrees[k] = PerfectHash(records, CanonicalRange(m, n)[k])
           /\ ConsistencyStructure(proof)
<1> DEFINE proof == ConsistencyProof(m, n)
           R == CanonicalRange(m, n)
<1>1. m \in 0..Len(records) /\ n \in Nat /\ n <= MaxLeaves /\ m \in Nat /\ m <= MaxLeaves /\ m <= n
    <2>1. m \in 0..Len(records) /\ n \in Nat /\ m \in Nat /\ m <= n
        OBVIOUS
    <2> QED
        BY <2>1, ReadTrue
<1>2. /\ proof.old_size = m /\ proof.new_size = n
      /\ proof.old_peaks = ReadNodes(PeakLayout(m)) /\ proof.appended_subtrees = ReadNodes(R)
    BY DEF ConsistencyProof
<1>3. Chain(R, m, n) /\ Len(R) \in Nat /\ DOMAIN R = 1..Len(R)
    <2>1. Chain(R, m, n)
        BY <1>1, CanonicalChain
    <2> HIDE DEF R
    <2> QED
        BY <2>1, ChainType
<1>4. \A k \in 1..Len(R) : R[k] \in Sub(n)
    <2> HIDE DEF R
    <2>1. \A k \in 1..Len(R) : R[k] \in Coords
        BY <1>3, ChainType
    <2>2. \A k \in 1..Len(R) : Aligned(R[k].start, R[k].height) /\ End(R[k]) <= n
        BY <1>3 DEF Chain
    <2> QED
        BY <2>1, <2>2 DEF Sub
<1>5. /\ ReadNodes(R) = [k \in 1..Len(R) |-> PerfectHash(records, R[k])]
      /\ Len(ReadNodes(R)) = Len(R)
    BY <1>3, <1>4, ReadHashes
<1>6. /\ ReadNodes(PeakLayout(m)) = PeakHashes(records, m)
      /\ Len(ReadNodes(PeakLayout(m))) = Len(PeakLayout(m))
      /\ RootOfHashes(m, ReadNodes(PeakLayout(m))) = ReadRootAt(m)
    BY <1>1, ReadPeakHashes
<1> HIDE DEF proof, R
<1>7. ConsistencyStructure(proof)
    BY <1>1, <1>2, <1>5, <1>6 DEF ConsistencyStructure, R
<1> QED
    BY <1>1, <1>2, <1>5, <1>6, <1>7 DEF proof, R

\* Every committed prefix is proved to be the beginning of every later one.
THEOREM PrefixesAlwaysProved == Spec => []ConsistencyComplete
<1>1. HistoryInv => ConsistencyComplete
    <2> SUFFICES ASSUME HistoryInv, NEW m \in Sizes, NEW n \in Sizes, m <= n
                 PROVE  VerifyConsistency(ReadRootAt(m), ReadRootAt(n), ConsistencyProof(m, n))
        BY DEF ConsistencyComplete
    <2>1. records \in Seq(Records) /\ Held(records, nodes, roots)
        BY DEF HistoryInv, StoreGood, Kinds
    <2>2. n \in 0..Len(records) /\ m \in 0..n
        BY <2>1 DEF Sizes
    <2> DEFINE proof == ConsistencyProof(m, n)
    <2>3. /\ n \in Nat /\ n <= MaxLeaves /\ proof.old_size = m /\ proof.new_size = n
          /\ proof.old_peaks = PeakHashes(records, m)
          /\ RootOfHashes(m, proof.old_peaks) = ReadRootAt(m)
          /\ \A k \in 1..Len(CanonicalRange(m, n)) :
                proof.appended_subtrees[k] = PerfectHash(records, CanonicalRange(m, n)[k])
          /\ ConsistencyStructure(proof)
        BY <2>1, <2>2, QueryTrue
    <2>4. ReadRootAt(n) = RootAt(records, n)
        BY <2>1, <2>2, ReadTrue
    <2> HIDE DEF proof
    <2>5. ReachesRoot(ReadRootAt(n), proof)
        BY <2>2, <2>3, <2>4, ReachesTrue
    <2> QED
        BY <2>3, <2>5 DEF VerifyConsistency, proof
<1> QED
    BY <1>1, HistoryAlways, PTL

-----------------------------------------------------------------------------
(* Soundness of the verifiers: what a proof shows that comes from anywhere *)

\* A root commits its leaf count.
LEMMA RootSize ==
    ASSUME NEW n, NEW hs, NEW m, NEW gs, RootOfHashes(n, hs) = RootOfHashes(m, gs)
    PROVE  n = m
<1> DEFINE f == [i \in DOMAIN PeakLayout(n) |-> <<PeakLayout(n)[i].height, hs[i]>>]
           g == [i \in DOMAIN PeakLayout(m) |-> <<PeakLayout(m)[i].height, gs[i]>>]
<1>1. <<"root", n, f>> = <<"root", m, g>>
    BY DEF RootOfHashes
<1> HIDE DEF f, g
<1> QED
    BY <1>1

\* A proof of inclusion that verifies against the root of a committed prefix is
\* of this prefix, and the record at its index is the record that was shown.
LEMMA InclusionShows ==
    ASSUME NEW X, records \in Seq(X), Held(records, nodes, roots), NEW n \in 0..Len(records),
           NEW r, NEW proof, proof.leaf_index \in Nat, VerifyInclusion(ReadRootAt(n), r, proof)
    PROVE  /\ proof.leaf_count = n /\ proof.leaf_index < n
           /\ r = records[proof.leaf_index + 1]
<1> DEFINE P == PeakLayout(n)
           leaf == proof.leaf_index
           b == TargetPeak(P, leaf)
           p == P[b]
           H == p.height
<1>1. n \in Nat /\ n <= MaxLeaves /\ ReadRootAt(n) = RootAt(records, n)
    BY ReadTrue
<1>2. RootOfHashes(proof.leaf_count, proof.peaks) = RootOfHashes(n, PeakHashes(records, n))
    BY <1>1, RootHashes DEF VerifyInclusion
<1>3. proof.leaf_count = n
    BY <1>2, RootSize
<1>4. /\ leaf \in Nat /\ leaf < n /\ Len(proof.siblings) = H
      /\ proof.peaks[b] = Climb(proof, r)
    BY <1>3 DEF VerifyInclusion, InclusionStructure
<1>5. Layout(P, n)
    BY <1>1, NodeCountIs
<1>6. b \in 1..Len(P) /\ p.start <= leaf /\ leaf < End(p)
    BY <1>4, <1>5, TargetIs
<1>7. p \in Sub(n) /\ p \in Coords
    BY <1>1, <1>5, <1>6, PeakIsSubtree, SubMember
<1>8. H \in 0..TopHeight /\ H \in Nat /\ p = At(p.start, H)
    BY <1>7, CoordType DEF At
<1>9. proof.peaks[b] = PerfectHash(records, p)
    <2>1. proof.peaks[b] = PeakHashes(records, n)[b]
        BY <1>1, <1>2, <1>3, <1>6, RootInjective
    <2> QED
        BY <1>6, <2>1 DEF PeakHashes
<1> HIDE DEF b, p, H, leaf
<1>10. PICK f : /\ Climb(proof, r) = f[H]
                /\ f[0] = LeafHash(leaf, r)
                /\ Climbs(leaf, H, f, proof.siblings)
    <2>1. Len(proof.siblings) \in Nat
        BY <1>4, <1>8
    <2>2. \E f : /\ Climb(proof, r) = f[Len(proof.siblings)]
                 /\ f[0] = LeafHash(proof.leaf_index, r)
                 /\ Climbs(proof.leaf_index, Len(proof.siblings), f, proof.siblings)
        BY <2>1, ClimbDef, Zenon
    <2> QED
        BY <1>4, <2>2 DEF leaf
<1>11. Above(leaf, H) = p.start
    BY <1>1, <1>4, <1>6, <1>7, PathInPeak DEF H
<1>12. f[H] = PerfectHash(records, At(Above(leaf, H), H))
    BY <1>4, <1>8, <1>9, <1>10, <1>11
<1>13. f[0] = PerfectHash(records, At(Above(leaf, 0), 0))
    BY <1>4, <1>8, <1>10, <1>12, PathExact
<1>14. LeafHash(leaf, r) = LeafHash(leaf, records[leaf + 1])
    <2>1. Above(leaf, 0) = leaf
        BY <1>4, PathStart
    <2>2. PerfectHash(records, At(leaf, 0)) = LeafHash(leaf, records[leaf + 1])
        BY <1>4, PerfectHashIs, HeightAssumption
    <2> QED
        BY <1>10, <1>13, <2>1, <2>2
<1>15. r = records[leaf + 1]
    BY <1>14 DEF LeafHash
<1> QED
    BY <1>3, <1>4, <1>15 DEF leaf

\* No proof object, whoever made it, shows a record that is not at its place.
InclusionTold ==
    \A n \in Sizes : \A r, proof :
        proof.leaf_index \in Nat /\ VerifyInclusion(ReadRootAt(n), r, proof)
            => /\ proof.leaf_count = n /\ proof.leaf_index < n
               /\ r = records[proof.leaf_index + 1]

\* verify_inclusion accepts only what is true: whatever peaks and siblings a proof
\* brings, when it verifies against the root of a committed prefix it is of this
\* prefix and the record is the one at its index.
THEOREM InclusionSound == Spec => []InclusionTold
<1>1. HistoryInv => InclusionTold
    <2> SUFFICES ASSUME HistoryInv, NEW n \in Sizes, NEW r, NEW proof,
                        proof.leaf_index \in Nat, VerifyInclusion(ReadRootAt(n), r, proof)
                 PROVE  /\ proof.leaf_count = n /\ proof.leaf_index < n
                        /\ r = records[proof.leaf_index + 1]
        BY DEF InclusionTold
    <2>1. records \in Seq(Records) /\ Held(records, nodes, roots)
        BY DEF HistoryInv, StoreGood, Kinds
    <2> QED
        BY <2>1, InclusionShows DEF Sizes
<1> QED
    BY <1>1, HistoryAlways, PTL

\* Peaks with the hashes that a log gives their coordinates.
TrueOn(log, P, peaks) == \A i \in 1..Len(P) : peaks[i].hash = PerfectHash(log, P[i])

\* A merge hides nothing: when the hashes after it are true, those before it were.
LEMMA MergeTells ==
    ASSUME NEW log, NEW P, NEW n, Layout(P, n), NEW peaks, OnCoords(P, peaks),
           NEW h \in 0..TopHeight, NEW carry, carry.coordinate = [start |-> n, height |-> h],
           MergeGood(P, n, peaks, h, carry),
           NEW Q, Q = Coordinates(MergePeak(peaks, carry).peaks),
           TrueOn(log, Q, MergePeak(peaks, carry).peaks)
    PROVE  TrueOn(log, P, peaks)
<1> DEFINE j == Joins(peaks, carry)
           C == Carried(peaks, carry)
           N == Len(P)
           K(k) == CarryCoord(P, n, h, k)
           M == MergePeak(peaks, carry)
<1>1. n \in Nat /\ N \in Nat /\ h \in Nat /\ P = [i \in 1..N |-> P[i]]
    BY LayoutType DEF Layout
<1>2. /\ j \in 0..N
      /\ M.peaks = [i \in 1..(N - j + 1) |-> IF i <= N - j THEN peaks[i] ELSE C[j]]
      /\ Q = Append(SubSeq(P, 1, N - j), K(j))
    BY DEF MergeGood
<1>3. \A k \in 0..(j - 1) :
         /\ N - k \in 1..N
         /\ C[k + 1] = [coordinate |-> K(k + 1),
                       hash |-> ParentHash(h + k + 1, peaks[N - k].hash, C[k].hash)]
         /\ PerfectHash(log, K(k + 1))
              = ParentHash(h + k + 1, PerfectHash(log, P[N - k]), PerfectHash(log, K(k)))
    <2>1. MergeHashing(log, P, n, peaks, h, carry)
        BY MergeHashes
    <2> QED
        BY <2>1 DEF MergeHashing
<1>4. TrueOn(log, Q, M.peaks)
    OBVIOUS
<1> HIDE DEF j, C, N, K, M
<1>5. /\ j \in Nat /\ N - j \in 0..N /\ N - j \in Nat
      /\ Q = [i \in 1..(N - j + 1) |-> IF i <= N - j THEN P[i] ELSE K(j)] /\ Len(Q) = N - j + 1
    <2>1. j \in Nat /\ N - j \in 0..N /\ N - j \in Nat
        BY <1>1, <1>2
    <2>2. Q = [i \in 1..(N - j + 1) |-> IF i <= N - j THEN P[i] ELSE K(j)]
        BY <1>1, <1>2, <2>1, CutAndAppend
    <2>3. Q = [i \in 1..(N - j + 1) |-> Q[i]] /\ N - j + 1 \in Nat
        BY <2>1, <2>2
    <2> QED
        BY <2>1, <2>2, <2>3, SequenceLen
\* The peaks that did not join, and the last carry.
<1>6. \A i \in 1..(N - j) : peaks[i].hash = PerfectHash(log, P[i])
    <2> SUFFICES ASSUME NEW i \in 1..(N - j) PROVE peaks[i].hash = PerfectHash(log, P[i])
        OBVIOUS
    <2>1. i \in 1..(N - j + 1) /\ i <= N - j
        BY <1>5
    <2>2. M.peaks[i] = peaks[i] /\ Q[i] = P[i]
        BY <1>2, <1>5, <2>1
    <2> QED
        BY <1>4, <1>5, <2>1, <2>2 DEF TrueOn
<1>7. C[j].hash = PerfectHash(log, K(j))
    <2> DEFINE i == N - j + 1
    <2>1. i \in 1..(N - j + 1) /\ ~(i <= N - j)
        BY <1>5
    <2>2. M.peaks[i] = C[j] /\ Q[i] = K(j)
        BY <1>2, <1>5, <2>1
    <2> HIDE DEF i
    <2> QED
        BY <1>4, <1>5, <2>1, <2>2 DEF TrueOn
\* From the last carry down to the first: a parent commits both its children.
<1>8. ASSUME NEW k \in 0..(j - 1), C[k + 1].hash = PerfectHash(log, K(k + 1))
      PROVE  C[k].hash = PerfectHash(log, K(k)) /\ peaks[N - k].hash = PerfectHash(log, P[N - k])
    <2> DEFINE g == h + k + 1
    <2>1. /\ C[k + 1] = [coordinate |-> K(k + 1),
                       hash |-> ParentHash(g, peaks[N - k].hash, C[k].hash)]
          /\ PerfectHash(log, K(k + 1))
               = ParentHash(g, PerfectHash(log, P[N - k]), PerfectHash(log, K(k)))
        BY <1>3
    <2> HIDE DEF g
    <2>2. C[k + 1].hash = ParentHash(g, peaks[N - k].hash, C[k].hash)
        BY <2>1
    <2> QED
        BY <1>8, <2>1, <2>2 DEF ParentHash
<1> DEFINE Good(d) == C[j - d].hash = PerfectHash(log, K(j - d))
           S == {d \in Nat : d <= j => Good(d)}
<1>9. Nat \subseteq S
    <2>1. 0 \in S
        <3>1. j - 0 = j
            BY <1>5
        <3> QED
            BY <1>7, <3>1
    <2>2. ASSUME NEW d \in Nat, d \in S PROVE d + 1 \in S
        <3> SUFFICES ASSUME d + 1 <= j PROVE Good(d + 1)
            OBVIOUS
        <3> DEFINE k == j - (d + 1)
        <3>1. k \in 0..(j - 1) /\ k + 1 = j - d /\ d <= j
            BY <1>5
        <3>2. C[j - d].hash = PerfectHash(log, K(j - d))
            BY <2>2, <3>1
        <3> HIDE DEF k
        <3>3. C[k].hash = PerfectHash(log, K(k))
            BY <1>8, <3>1, <3>2
        <3> QED
            BY <3>3 DEF k
    <2> HIDE DEF S
    <2> QED
        BY <2>1, <2>2, NumbersUpward
<1>10. \A k \in 0..(j - 1) : peaks[N - k].hash = PerfectHash(log, P[N - k])
    <2> SUFFICES ASSUME NEW k \in 0..(j - 1) PROVE peaks[N - k].hash = PerfectHash(log, P[N - k])
        OBVIOUS
    <2> DEFINE d == j - (k + 1)
    <2>1. d \in Nat /\ d <= j /\ j - d = k + 1
        BY <1>5
    <2>2. Good(d)
        BY <1>9, <2>1
    <2>3. C[k + 1].hash = PerfectHash(log, K(k + 1))
        BY <2>1, <2>2
    <2> QED
        BY <1>8, <2>3
<1>11. ASSUME NEW i \in 1..N PROVE peaks[i].hash = PerfectHash(log, P[i])
    <2>1. CASE i <= N - j
        BY <1>5, <1>6, <2>1
    <2>2. CASE ~(i <= N - j)
        <3>1. N - i \in 0..(j - 1) /\ N - (N - i) = i
            BY <1>1, <1>5, <2>2
        <3> QED
            BY <1>10, <3>1
    <2> QED
        BY <2>1, <2>2
<1> QED
    BY <1>11 DEF TrueOn, N

\* When merging the subtrees of a proof gives the true peaks, the proof started
\* from the true peaks.
LEMMA MergedTells ==
    ASSUME NEW log, NEW n \in Nat, n <= MaxLeaves, NEW m \in 0..n,
           NEW proof, proof.old_size = m, proof.new_size = n,
           TrueOn(log, PeakLayout(n), Merged(proof).peaks)
    PROVE  \A i \in 1..Len(PeakLayout(m)) : proof.old_peaks[i] = PeakHashes(log, m)[i]
<1> DEFINE R == CanonicalRange(m, n)
           N == Len(R)
           at(k) == Reached(R, n, k)
           first == Place(PeakLayout(m), proof.old_peaks)
<1>1. R = CanonicalRange(m, n)
    OBVIOUS
<1>2. RangeOf(proof) = [k \in DOMAIN R |-> [coordinate |-> R[k], hash |-> proof.appended_subtrees[k]]]
    BY DEF RangeOf, Place
<1> HIDE DEF R
<1>3. N \in Nat /\ DOMAIN R = 1..N /\ at(0) = m /\ at(N) = n
    <2>1. N \in Nat /\ at(0) = m /\ at(N) = n
        BY <1>1, RangeEnds
    <2>2. DOMAIN R = 1..N
        BY <1>1, CanonicalChain, ChainType
    <2> QED
        BY <2>1, <2>2
<1> HIDE DEF N
<1>4. \A k \in 1..N : RangeOf(proof)[k].coordinate = R[k]
    BY <1>2, <1>3
<1>5. Len(RangeOf(proof)) = N
    <2>1. RangeOf(proof) = [k \in 1..N |-> RangeOf(proof)[k]]
        BY <1>2, <1>3
    <2> QED
        BY <1>3, <2>1, SequenceLen
<1>6. PICK f : /\ Merged(proof) = f[N]
               /\ f[0] = [peaks |-> Place(PeakLayout(proof.old_size), proof.old_peaks), adjacent |-> TRUE]
               /\ \A k \in 1..N :
                     f[k] = [peaks |-> MergePeak(f[k - 1].peaks, RangeOf(proof)[k]).peaks,
                             adjacent |-> f[k - 1].adjacent
                                          /\ MergePeak(f[k - 1].peaks, RangeOf(proof)[k]).adjacent]
    BY <1>3, <1>5, MergedDef, Zenon
<1>7. f[0].peaks = first
    BY <1>6
<1>8. /\ OnCoords(PeakLayout(m), first)
      /\ \A i \in 1..Len(PeakLayout(m)) : first[i].hash = proof.old_peaks[i]
    <2>1. m \in Nat /\ m <= MaxLeaves
        BY MaxLeavesType
    <2>2. DOMAIN PeakLayout(m) = 1..Len(PeakLayout(m))
        BY <2>1, NodeCountIs, LayoutType
    <2> QED
        BY <2>2 DEF Place, OnCoords
<1> HIDE DEF first
<1> DEFINE Shaped(k) == OnCoords(PeakLayout(at(k)), f[k].peaks)
           Told(k) == TrueOn(log, PeakLayout(at(k)), f[k].peaks)
<1>9. ASSUME NEW k \in 0..(N - 1), Shaped(k)
      PROVE  Shaped(k + 1) /\ (Told(k + 1) => Told(k))
    <2> DEFINE a == R[k + 1].start
               h == R[k + 1].height
               carry == RangeOf(proof)[k + 1]
               peaks == f[k].peaks
               M == MergePeak(peaks, carry)
    <2>1. Follows(R, n, k, a, h)
        BY <1>1, RangeStep DEF N
    <2> HIDE DEF a, h
    <2>2. /\ k + 1 \in 1..N /\ R[k + 1] = At(a, h) /\ a = at(k) /\ a + Width(h) = at(k + 1)
          /\ h \in 0..TopHeight /\ Layout(PeakLayout(a), a)
        BY <2>1 DEF Follows, N
    <2>3. carry.coordinate = At(a, h)
        BY <1>4, <2>2
    <2>4. f[k + 1].peaks = M.peaks
        <3>1. (k + 1) - 1 = k
            BY <1>3
        <3>2. f[k + 1] = [peaks |-> M.peaks, adjacent |-> f[k].adjacent /\ M.adjacent]
            BY <1>6, <2>2, <3>1
        <3> HIDE DEF M
        <3> QED
            BY <3>2
    <2>5. OnCoords(PeakLayout(a), peaks)
        BY <1>9, <2>2
    <2> HIDE DEF peaks, carry
    <2>6. TakesUp(a, h, peaks, carry)
        BY <2>1, <2>3, <2>5, LayoutTakes
    <2>7. /\ MergeGood(PeakLayout(a), a, peaks, h, carry)
          /\ Coordinates(M.peaks) = PeakLayout(a + Width(h))
          /\ OnCoords(PeakLayout(a + Width(h)), M.peaks)
        BY <2>6 DEF TakesUp
    <2>8. TrueOn(log, PeakLayout(a + Width(h)), M.peaks) => TrueOn(log, PeakLayout(a), peaks)
        <3>1. carry.coordinate = [start |-> a, height |-> h]
            BY <2>3 DEF At
        <3> QED
            BY <2>2, <2>5, <2>7, <3>1, MergeTells
    <2> QED
        BY <2>2, <2>4, <2>7, <2>8 DEF peaks
<1> DEFINE S == {k \in Nat : k <= N => Shaped(k)}
<1>10. Nat \subseteq S
    <2> HIDE DEF at
    <2>1. 0 \in S
        BY <1>3, <1>7, <1>8
    <2>2. ASSUME NEW k \in Nat, k \in S PROVE k + 1 \in S
        <3> SUFFICES ASSUME k + 1 <= N PROVE Shaped(k + 1)
            OBVIOUS
        <3>1. k \in 0..(N - 1) /\ k <= N
            BY <1>3
        <3>2. Shaped(k)
            BY <2>2, <3>1
        <3> HIDE DEF Shaped, Told
        <3> QED
            BY <1>9, <3>1, <3>2
    <2> HIDE DEF S
    <2> QED
        BY <2>1, <2>2, NumbersUpward
<1> DEFINE D == {d \in Nat : d <= N => Told(N - d)}
<1>11. Nat \subseteq D
    <2>1. 0 \in D
        <3>1. N - 0 = N
            BY <1>3
        <3>2. Told(N)
            BY <1>3, <1>6
        <3> HIDE DEF Told
        <3> QED
            BY <3>1, <3>2
    <2>2. ASSUME NEW d \in Nat, d \in D PROVE d + 1 \in D
        <3> SUFFICES ASSUME d + 1 <= N PROVE Told(N - (d + 1))
            OBVIOUS
        <3> DEFINE k == N - (d + 1)
        <3>1. k \in 0..(N - 1) /\ k \in Nat /\ k <= N /\ k + 1 = N - d /\ d <= N
            BY <1>3
        <3> HIDE DEF Shaped, Told
        <3>2. Told(N - d) /\ Shaped(k)
            BY <1>10, <2>2, <3>1
        <3> HIDE DEF k
        <3>3. Told(k)
            BY <1>9, <3>1, <3>2
        <3> QED
            BY <3>3 DEF k
    <2> HIDE DEF D
    <2> QED
        BY <2>1, <2>2, NumbersUpward
<1>12. TrueOn(log, PeakLayout(m), first)
    <2>1. Told(0)
        <3>1. N \in Nat /\ N - N = 0
            BY <1>3
        <3> HIDE DEF Told
        <3> QED
            BY <1>11, <3>1
    <2> HIDE DEF at
    <2> QED
        BY <1>3, <1>7, <2>1
<1> QED
    BY <1>8, <1>12 DEF TrueOn, PeakHashes

\* A proof of consistency that verifies against the root of a committed prefix
\* ends in this prefix, and the old root that was shown is its root at the old size.
LEMMA ConsistencyShows ==
    ASSUME NEW X, records \in Seq(X), Held(records, nodes, roots), NEW n \in 0..Len(records),
           NEW oldRoot, NEW proof, proof.old_size \in Nat,
           VerifyConsistency(oldRoot, ReadRootAt(n), proof)
    PROVE  /\ proof.new_size = n /\ proof.old_size <= n
           /\ oldRoot = ReadRootAt(proof.old_size)
<1> DEFINE P == PeakLayout(n)
           peaks == Merged(proof).peaks
           m == proof.old_size
<1>1. n \in Nat /\ n <= MaxLeaves /\ ReadRootAt(n) = RootAt(records, n)
    BY ReadTrue
<1>2. /\ proof.old_size <= proof.new_size
      /\ RootOfHashes(m, proof.old_peaks) = oldRoot
      /\ OnLayout(proof.new_size, peaks)
      /\ RootOfHashes(proof.new_size, Hashes(peaks)) = ReadRootAt(n)
    BY DEF VerifyConsistency, ConsistencyStructure, ReachesRoot, RootOfPeaks
<1> HIDE DEF peaks
<1>3. RootOfHashes(proof.new_size, Hashes(peaks)) = RootOfHashes(n, PeakHashes(records, n))
    BY <1>1, <1>2, RootHashes
<1>4. proof.new_size = n /\ m \in 0..n /\ m \in 0..Len(records)
    BY <1>1, <1>2, <1>3, RootSize
<1>5. TrueOn(records, P, peaks)
    <2>1. Coordinates(peaks) = P /\ DOMAIN P = 1..Len(P)
        BY <1>1, <1>2, <1>4, NodeCountIs, LayoutType DEF OnLayout
    <2>2. DOMAIN peaks = 1..Len(P)
        BY <2>1 DEF Coordinates
    <2>3. \A i \in 1..Len(P) : Hashes(peaks)[i] = PeakHashes(records, n)[i]
        BY <1>1, <1>3, <1>4, RootInjective
    <2> QED
        BY <2>2, <2>3 DEF TrueOn, Hashes, PeakHashes
<1>6. \A i \in 1..Len(PeakLayout(m)) : proof.old_peaks[i] = PeakHashes(records, m)[i]
    BY <1>1, <1>4, <1>5, MergedTells DEF peaks
<1>7. RootOfHashes(m, proof.old_peaks) = RootOfHashes(m, PeakHashes(records, m))
    <2>1. m \in Nat /\ m <= MaxLeaves
        BY <1>1, <1>4, MaxLeavesType
    <2>2. DOMAIN PeakLayout(m) = 1..Len(PeakLayout(m))
        BY <2>1, NodeCountIs, LayoutType
    <2> HIDE DEF m
    <2> QED
        BY <1>6, <2>2 DEF RootOfHashes
<1>8. RootOfHashes(m, PeakHashes(records, m)) = ReadRootAt(m)
    BY <1>4, ReadTrue, RootHashes
<1> QED
    BY <1>2, <1>4, <1>7, <1>8

\* No proof object, whoever made it, shows a root that this history did not have.
ConsistencyTold ==
    \A n \in Sizes : \A oldRoot, proof :
        proof.old_size \in Nat /\ VerifyConsistency(oldRoot, ReadRootAt(n), proof)
            => /\ proof.new_size = n /\ proof.old_size <= n
               /\ oldRoot = ReadRootAt(proof.old_size)

\* verify_consistency accepts only what is true: whatever old peaks and subtrees a
\* proof brings, when it verifies against the root of a committed prefix the old
\* root is the one this history had at the old size.
THEOREM ConsistencySound == Spec => []ConsistencyTold
<1>1. HistoryInv => ConsistencyTold
    <2> SUFFICES ASSUME HistoryInv, NEW n \in Sizes, NEW oldRoot, NEW proof,
                        proof.old_size \in Nat, VerifyConsistency(oldRoot, ReadRootAt(n), proof)
                 PROVE  /\ proof.new_size = n /\ proof.old_size <= n
                        /\ oldRoot = ReadRootAt(proof.old_size)
        BY DEF ConsistencyTold
    <2>1. records \in Seq(Records) /\ Held(records, nodes, roots)
        BY DEF HistoryInv, StoreGood, Kinds
    <2> QED
        BY <2>1, ConsistencyShows DEF Sizes
<1> QED
    BY <1>1, HistoryAlways, PTL

-----------------------------------------------------------------------------
(* Forks *)

\* The root of a fork of a committed prefix is not the root of the prefix.
LEMMA ForkDiffers ==
    ASSUME NEW X, records \in Seq(X), Held(records, nodes, roots),
           NEW m \in 0..Len(records), NEW i \in 1..m, NEW r \in X, r # records[i]
    PROVE  ReferenceRoot([Committed(m) EXCEPT ![i] = r]) # ReadRootAt(m)
<1> DEFINE log == Committed(m)
           fork == [log EXCEPT ![i] = r]
<1>1. log \in Seq(X) /\ Len(log) = m
    BY LogFacts DEF Committed
<1> HIDE DEF log
<1>2. fork \in Seq(X) /\ Len(fork) = m /\ fork[i] = r
    BY <1>1
<1> HIDE DEF fork
<1>3. m \in Nat /\ m <= MaxLeaves /\ ReadRootAt(m) = RootAt(records, m)
    BY ReadTrue
<1>4. ReferenceRoot(fork) = RootAt(fork, m)
    BY <1>2, <1>3, ReferenceRootIs
<1>5. RootAt(fork, m) # RootAt(records, m)
    BY <1>2, <1>3, RootExact
<1> QED
    BY <1>3, <1>4, <1>5 DEF fork, log

\* A consequence: the root of a history that differs in one record is never shown to
\* be the beginning of this one, with its own peaks or with those of this history.
THEOREM ForksAlwaysRefused == Spec => []ForkRefused
<1>1. HistoryInv => ForkRefused
    <2> SUFFICES ASSUME HistoryInv, NEW m \in Sizes, NEW i \in 1..m,
                        NEW r \in Records \ {records[i]}, NEW n \in m..Len(records)
                 PROVE  LET fork == [Committed(m) EXCEPT ![i] = r]
                            proof == ConsistencyProof(m, n) IN
                        /\ ~VerifyConsistency(ReferenceRoot(fork), ReadRootAt(n), proof)
                        /\ ~VerifyConsistency(ReferenceRoot(fork), ReadRootAt(n),
                                              [proof EXCEPT !.old_peaks = MountainHashes(fork)])
        BY DEF ForkRefused
    <2>1. records \in Seq(Records) /\ Held(records, nodes, roots)
        BY DEF HistoryInv, StoreGood, Kinds
    <2>2. n \in 0..Len(records) /\ m \in 0..n
        BY <2>1 DEF Sizes
    <2> DEFINE forkRoot == ReferenceRoot([Committed(m) EXCEPT ![i] = r])
    <2>3. forkRoot # ReadRootAt(m)
        <3>1. m \in 0..Len(records) /\ r # records[i]
            BY DEF Sizes
        <3> QED
            BY <2>1, <3>1, ForkDiffers
    <2> HIDE DEF forkRoot
    <2>4. ASSUME NEW proof, proof.old_size = m PROVE ~VerifyConsistency(forkRoot, ReadRootAt(n), proof)
        <3>1. proof.old_size \in Nat
            BY <2>2, <2>4
        <3> QED
            BY <2>1, <2>2, <2>3, <2>4, <3>1, ConsistencyShows
    <2>5. \A peaks : /\ ConsistencyProof(m, n).old_size = m
                     /\ [ConsistencyProof(m, n) EXCEPT !.old_peaks = peaks].old_size = m
        BY DEF ConsistencyProof
    <2> QED
        BY <2>4, <2>5 DEF forkRoot
<1> QED
    BY <1>1, HistoryAlways, PTL
==============================================================================
