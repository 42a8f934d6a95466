---------------------------- MODULE GRAWFrame_proofs ----------------------------
(***************************************************************************)
(* Proofs about the reading of a frame, for every header and every layout  *)
(* of the electronics.                                                     *)
(***************************************************************************)
EXTENDS GRAWFrame, WellFoundedInduction, FiniteSetTheorems, TLAPS

-----------------------------------------------------------------------------
(* The loops.  KeptUpTo is defined by recursion; that there is such a      *)
(* function, and what it contains, is found by looking at the first step   *)
(* at which it would not be so.                                            *)

(* Every nonempty set of natural numbers has a least element. *)
LEMMA LeastOf ==
  ASSUME NEW S, S \subseteq Nat, S # {}
  PROVE  \E m \in S : \A k \in S : m <= k
<1>1. PICK m \in S : \A k \in S : ~(<<k, m>> \in OpToRel(<, Nat))
  BY WFMin, NatLessThanWellFounded
<1>2. ASSUME NEW k \in S, k < m PROVE <<k, m>> \in OpToRel(<, Nat)
  BY <1>2 DEF OpToRel
<1>3. m \in Nat /\ \A k \in S : k \in Nat /\ ~(k < m)
  BY <1>1, <1>2
<1>4. \A k \in S : m <= k
  BY <1>3
<1> QED BY <1>4

(* A set of natural numbers without a first gap has no gap. *)
LEMMA Everywhere ==
  ASSUME NEW T, 0 \in T, \A n \in Nat : n \in T => n + 1 \in T
  PROVE  Nat \subseteq T
<1> DEFINE S == Nat \ T
<1>1. SUFFICES ASSUME S # {} PROVE FALSE
  OBVIOUS
<1>2. PICK m \in S : \A k \in S : m <= k
  <2>1. S \subseteq Nat
    OBVIOUS
  <2> HIDE DEF S
  <2> QED BY <1>1, <2>1, LeastOf
<1>3. m \in Nat /\ m \notin T /\ m # 0
  BY <1>2
<1>4. m - 1 \in Nat /\ ~(m <= m - 1) /\ (m - 1) + 1 = m
  BY <1>3
<1>5. m - 1 \in T
  BY <1>2, <1>4
<1> QED BY <1>3, <1>4, <1>5

NextKept(k, s, keep, n) == IF n \in keep THEN Append(k, s[n]) ELSE k

\* p is the beginning of KeptUpTo(s, keep) up to m.
Beginning(p, s, keep, m) ==
  p = [n \in 0..m |-> IF n = 0 THEN <<>> ELSE NextKept(p[n - 1], s, keep, n)]

LEMMA BeginningExtended ==
  ASSUME NEW s, NEW keep, NEW m \in Nat, NEW p, Beginning(p, s, keep, m)
  PROVE  \E q : Beginning(q, s, keep, m + 1)
<1> DEFINE q == [n \in 0..(m + 1) |->
                  IF n = m + 1 THEN NextKept(p[m], s, keep, m + 1) ELSE p[n]]
<1>1. p[0] = <<>>
  BY DEF Beginning
<1>2. ASSUME NEW n \in 0..(m + 1)
      PROVE  q[n] = IF n = 0 THEN <<>> ELSE NextKept(q[n - 1], s, keep, n)
  <2>1. CASE n = 0
    <3>1. 0 # m + 1 /\ 0 \in 0..(m + 1)
      OBVIOUS
    <3> QED BY <1>1, <2>1, <3>1
  <2>2. CASE n \in 1..m
    <3>1. /\ n \in 0..m /\ n # 0 /\ n # m + 1 /\ n \in 0..(m + 1)
          /\ n - 1 # m + 1 /\ n - 1 \in 0..(m + 1)
      BY <2>2
    <3>2. p[n] = NextKept(p[n - 1], s, keep, n)
      BY <3>1 DEF Beginning
    <3>3. q[n] = p[n] /\ q[n - 1] = p[n - 1]
      BY <3>1
    <3> HIDE DEF q
    <3> QED BY <3>1, <3>2, <3>3
  <2>3. CASE n = m + 1
    <3>1. n # 0 /\ n - 1 = m /\ m # m + 1 /\ m \in 0..(m + 1)
      BY <2>3
    <3>2. q[n] = NextKept(p[m], s, keep, n) /\ q[m] = p[m]
      BY <2>3, <3>1
    <3> HIDE DEF q
    <3> QED BY <3>1, <3>2
  <2>4. n = 0 \/ n \in 1..m \/ n = m + 1
    OBVIOUS
  <2> QED BY <2>1, <2>2, <2>3, <2>4
<1>3. Beginning(q, s, keep, m + 1)
  <2>1. q = [n \in 0..(m + 1) |-> q[n]]
    OBVIOUS
  <2> HIDE DEF q
  <2> QED BY <1>2, <2>1 DEF Beginning
<1> QED BY <1>3

LEMMA BeginningExists ==
  ASSUME NEW s, NEW keep
  PROVE  \A m \in Nat : \E p : Beginning(p, s, keep, m)
<1> DEFINE T == {m \in Nat : \E p : Beginning(p, s, keep, m)}
<1>1. 0 \in T
  <2> DEFINE p == [n \in 0..0 |-> <<>>]
  <2>1. \A n \in 0..0 : n = 0
    OBVIOUS
  <2>2. Beginning(p, s, keep, 0)
    BY <2>1 DEF Beginning
  <2> QED BY <2>2
<1>2. \A n \in Nat : n \in T => n + 1 \in T
  BY BeginningExtended
<1>3. Nat \subseteq T
  <2> HIDE DEF T
  <2> QED BY <1>1, <1>2, Everywhere
<1> QED BY <1>3

(* What each step of a loop does. *)
LEMMA KeptSteps ==
  ASSUME NEW s, NEW keep, Len(s) \in Nat
  PROVE  /\ KeptUpTo(s, keep)[0] = <<>>
         /\ \A n \in Nat : n + 1 <= Len(s) =>
              KeptUpTo(s, keep)[n + 1] = NextKept(KeptUpTo(s, keep)[n], s, keep, n + 1)
<1> DEFINE Steps(f) == [n \in 0..Len(s) |-> IF n = 0 THEN <<>>
                                           ELSE IF n \in keep THEN Append(f[n - 1], s[n])
                                           ELSE f[n - 1]]
           F == KeptUpTo(s, keep)
<1>1. PICK p : p = Steps(p)
  <2>1. PICK p : Beginning(p, s, keep, Len(s))
    BY BeginningExists
  <2>2. p = Steps(p)
    BY <2>1 DEF Beginning, NextKept
  <2> QED BY <2>2
<1>2. F = CHOOSE f : f = Steps(f)
  BY DEF KeptUpTo
<1>3. F = Steps(F)
  <2> HIDE DEF Steps, F
  <2> QED BY <1>1, <1>2
<1> HIDE DEF F
<1>4. F[0] = <<>>
  BY <1>3
<1>5. ASSUME NEW n \in Nat, n + 1 <= Len(s) PROVE F[n + 1] = NextKept(F[n], s, keep, n + 1)
  <2>1. n + 1 \in 0..Len(s) /\ n + 1 # 0 /\ (n + 1) - 1 = n
    BY <1>5
  <2> QED BY <1>3, <2>1 DEF NextKept
<1> QED BY <1>4, <1>5 DEF F

\* How many indices up to i are kept: the place of the i-th element, if it is.
Rank(keep, i) == Cardinality({j \in 1..i : j \in keep})

LEMMA RankSteps ==
  ASSUME NEW keep, NEW n \in Nat
  PROVE  /\ Rank(keep, n) \in Nat /\ Rank(keep, 0) = 0
         /\ Rank(keep, n + 1) = IF n + 1 \in keep THEN Rank(keep, n) + 1 ELSE Rank(keep, n)
<1> DEFINE R(m) == {j \in 1..m : j \in keep}
<1>1. IsFiniteSet(1..n)
  BY FS_Interval
<1>2. IsFiniteSet(R(n)) /\ Cardinality(R(n)) \in Nat
  <2>1. R(n) \subseteq 1..n
    OBVIOUS
  <2>2. IsFiniteSet(R(n))
    BY <1>1, <2>1, FS_Subset
  <2> QED BY <2>2, FS_CardinalityType
<1>3. Cardinality(R(0)) = 0
  <2>1. R(0) = {}
    OBVIOUS
  <2> QED BY <2>1, FS_EmptySet
<1>4. CASE n + 1 \in keep
  <2>1. R(n + 1) = R(n) \cup {n + 1} /\ n + 1 \notin R(n)
    BY <1>4
  <2> HIDE DEF R
  <2>2. Cardinality(R(n + 1)) = Cardinality(R(n)) + 1
    BY <1>2, <2>1, FS_AddElement
  <2> QED BY <1>2, <1>3, <1>4, <2>2 DEF R, Rank
<1>5. CASE n + 1 \notin keep
  <2>1. R(n + 1) = R(n)
    BY <1>5
  <2> QED BY <1>2, <1>3, <1>5, <2>1 DEF Rank
<1> QED BY <1>4, <1>5

LEMMA AppendFacts ==
  ASSUME NEW S, NEW k \in Seq(S), NEW e \in S
  PROVE  /\ Append(k, e) \in Seq(S) /\ Len(Append(k, e)) = Len(k) + 1 /\ Len(k) \in Nat
         /\ \A p \in 1..Len(k) : Append(k, e)[p] = k[p]
         /\ Append(k, e)[Len(k) + 1] = e
  OBVIOUS

\* What is kept of the first N elements of s is of this kind.
KeepsOnly(S, s, keep, N) == \A i \in 1..N : i \in keep => s[i] \in S

\* k holds those of the first n elements of s that are in keep, each in its
\* place, and nothing else.
Holding(S, k, s, keep, n) ==
  /\ k \in Seq(S) /\ Len(k) = Rank(keep, n)
  /\ \A i \in 1..n : i \in keep => Rank(keep, i) \in 1..Len(k) /\ k[Rank(keep, i)] = s[i]
  /\ \A p \in 1..Len(k) : \E i \in 1..n : i \in keep /\ Rank(keep, i) = p

(* This is what a loop over the elements of s leaves at every step. *)
LEMMA KeptInPlace ==
  ASSUME NEW S, NEW s, NEW keep, Len(s) \in Nat, KeepsOnly(S, s, keep, Len(s))
  PROVE  \A n \in 0..Len(s) : Holding(S, KeptUpTo(s, keep)[n], s, keep, n)
<1> DEFINE K(n) == KeptUpTo(s, keep)[n]
           N == Len(s)
           Good(n) == Holding(S, K(n), s, keep, n)
           T == {n \in Nat : n <= N => Good(n)}
<1> USE DEF KeepsOnly, Holding
<1>1. 0 \in T
  <2>1. K(0) = <<>>
    BY KeptSteps
  <2>2. Rank(keep, 0) = 0
    BY RankSteps
  <2>3. K(0) \in Seq(S) /\ Len(K(0)) = 0 /\ 1..0 = {}
    BY <2>1
  <2> HIDE DEF K
  <2>4. Good(0)
    BY <2>2, <2>3
  <2> QED BY <2>4
<1>2. ASSUME NEW n \in Nat, n \in T PROVE n + 1 \in T
  <2> SUFFICES ASSUME n + 1 <= N PROVE Good(n + 1)
    OBVIOUS
  <2>1. Good(n)
    BY <1>2
  <2>2. K(n + 1) = NextKept(K(n), s, keep, n + 1)
    BY KeptSteps
  <2>3. /\ Rank(keep, n) \in Nat
        /\ Rank(keep, n + 1) = IF n + 1 \in keep THEN Rank(keep, n) + 1 ELSE Rank(keep, n)
    BY RankSteps
  <2> HIDE DEF K
  <2>4. \A i \in 1..(n + 1) : i \in 1..n \/ i = n + 1
    OBVIOUS
  <2>5. CASE n + 1 \notin keep
    <3>1. K(n + 1) = K(n)
      BY <2>2, <2>5 DEF NextKept
    <3>2. \A i \in 1..(n + 1) : i \in keep => i \in 1..n
      BY <2>4, <2>5
    <3>3. 1..n \subseteq 1..(n + 1)
      OBVIOUS
    <3>4. K(n + 1) \in Seq(S) /\ Len(K(n + 1)) = Rank(keep, n + 1)
      BY <2>1, <2>3, <2>5, <3>1
    <3>5. ASSUME NEW i \in 1..(n + 1), i \in keep
          PROVE  Rank(keep, i) \in 1..Len(K(n + 1)) /\ K(n + 1)[Rank(keep, i)] = s[i]
      BY <2>1, <3>1, <3>2, <3>5
    <3>6. ASSUME NEW p \in 1..Len(K(n + 1))
          PROVE  \E i \in 1..(n + 1) : i \in keep /\ Rank(keep, i) = p
      BY <2>1, <3>1, <3>3
    <3> QED BY <3>4, <3>5, <3>6
  <2>6. CASE n + 1 \in keep
    <3> DEFINE l == Len(K(n))
    <3>1. K(n + 1) = Append(K(n), s[n + 1])
      BY <2>2, <2>6 DEF NextKept
    <3>2. s[n + 1] \in S /\ n + 1 \in 1..(n + 1)
      BY <2>6
    <3>3. /\ K(n + 1) \in Seq(S) /\ Len(K(n + 1)) = l + 1 /\ l \in Nat
          /\ \A p \in 1..l : K(n + 1)[p] = K(n)[p]
          /\ K(n + 1)[l + 1] = s[n + 1]
      <4>1. K(n) \in Seq(S)
        BY <2>1
      <4> QED BY <3>1, <3>2, <4>1, AppendFacts
    <3>4. Rank(keep, n) = l /\ Rank(keep, n + 1) = l + 1
      BY <2>1, <2>3, <2>6
    <3>5. ASSUME NEW i \in 1..(n + 1), i \in keep
          PROVE  Rank(keep, i) \in 1..(l + 1) /\ K(n + 1)[Rank(keep, i)] = s[i]
      <4>1. CASE i = n + 1
        BY <3>3, <3>4, <4>1
      <4>2. CASE i \in 1..n
        <5>1. Rank(keep, i) \in 1..l /\ K(n)[Rank(keep, i)] = s[i]
          BY <2>1, <3>5, <4>2
        <5>2. Rank(keep, i) \in 1..(l + 1)
          BY <3>3, <5>1
        <5> QED BY <3>3, <5>1, <5>2
      <4> QED BY <2>4, <4>1, <4>2
    <3>6. ASSUME NEW p \in 1..(l + 1)
          PROVE  \E i \in 1..(n + 1) : i \in keep /\ Rank(keep, i) = p
      <4>1. CASE p = l + 1
        BY <2>6, <3>2, <3>4, <4>1
      <4>2. CASE p # l + 1
        <5>1. p \in 1..l
          BY <3>3, <4>2
        <5>2. PICK i \in 1..n : i \in keep /\ Rank(keep, i) = p
          BY <2>1, <5>1
        <5>3. i \in 1..(n + 1)
          OBVIOUS
        <5> QED BY <5>2, <5>3
      <4> QED BY <4>1, <4>2
    <3>7. Len(K(n + 1)) = Rank(keep, n + 1)
      BY <3>3, <3>4
    <3> QED BY <3>3, <3>5, <3>6, <3>7
  <2> QED BY <2>5, <2>6
<1>3. Nat \subseteq T
  <2> HIDE DEF T
  <2> QED BY <1>1, <1>2, Everywhere
<1>4. \A n \in 0..N : Good(n)
  <2> HIDE DEF Good
  <2>1. \A n \in 0..N : n \in Nat /\ n <= N
    OBVIOUS
  <2> QED BY <1>3, <2>1
<1> QED BY <1>4

LEMMA LoopResult ==
  ASSUME NEW S, NEW s, NEW keep, Len(s) \in Nat, KeepsOnly(S, s, keep, Len(s))
  PROVE  Holding(S, Kept(s, keep), s, keep, Len(s))
<1>1. \A n \in 0..Len(s) : Holding(S, KeptUpTo(s, keep)[n], s, keep, n)
  BY KeptInPlace
<1>2. Len(s) \in 0..Len(s)
  OBVIOUS
<1> QED BY <1>1, <1>2 DEF Kept

-----------------------------------------------------------------------------
(* The header *)

LEMMA Division ==
  ASSUME NEW x \in Nat, NEW s \in Nat \ {0}
  PROVE  x \div s \in Nat /\ (x \div s) * s <= x /\ x < (x \div s) * s + s
  OBVIOUS

(* A number of items that goes with the size of the frame fits into it,    *)
(* and so does the number that is computed otherwise.                      *)
LEMMA ItemsThatFit ==
  ASSUME NEW p \in Nat, NEW s \in Nat \ {0}, NEW size \in Nat,
         size = (p + HeaderSize * s + s - 1) \div s
  PROVE  HeaderSize * s + p <= size * s
<1> DEFINE x == p + s + s - 1
<1>1. x \in Nat /\ HeaderSize * s = s
  BY DEF HeaderSize
<1>2. size = x \div s
  BY <1>1
<1>3. x < size * s + s
  BY <1>1, <1>2, Division
<1>4. size * s \in Nat
  OBVIOUS
<1>5. s + p <= size * s
  BY <1>3, <1>4
<1> QED BY <1>1, <1>5

LEMMA ItemsComputed ==
  ASSUME NEW w \in Nat \ {0}, NEW s \in Nat \ {0}, NEW size \in Nat \ {0}
  PROVE  HeaderSize * s + (((size - HeaderSize) * s) \div w) * w <= size * s
<1> DEFINE x == (size - 1) * s
<1>1. x \in Nat /\ x = size * s - s /\ HeaderSize * s = s /\ size - HeaderSize = size - 1
      /\ size * s \in Nat
  BY DEF HeaderSize
<1>2. x \div w \in Nat /\ (x \div w) * w <= x
  BY <1>1, Division
<1>3. (x \div w) * w \in Nat
  BY <1>2
<1> HIDE DEF x
<1>4. s + (x \div w) * w <= size * s
  BY <1>1, <1>2, <1>3
<1>5. (size - HeaderSize) * s = x
  BY <1>1 DEF x
<1> QED BY <1>1, <1>4, <1>5

LEMMA Remainder ==
  ASSUME NEW x \in Nat, NEW s \in Nat \ {0}
  PROVE  x % s = x - (x \div s) * s
  OBVIOUS

LEMMA QuotientUnique ==
  ASSUME NEW q \in Nat, NEW r \in Nat, NEW s \in Nat \ {0}, r < s
  PROVE  (q * s + r) \div s = q /\ (q * s + r) % s = r
<1> DEFINE y == q * s + r
           d == y \div s
<1>1. y \in Nat /\ q * s \in Nat /\ q * s <= y /\ y < q * s + s
  OBVIOUS
<1>2. d \in Nat /\ d * s <= y /\ y < d * s + s
  <2> HIDE DEF y
  <2> QED BY <1>1, Division
<1>3. d = q
  <2> HIDE DEF y, d
  <2>1. d * s \in Nat /\ (d + 1) * s = d * s + s /\ (q + 1) * s = q * s + s
    BY <1>2
  <2>2. d * s < (q + 1) * s /\ q * s < (d + 1) * s
    BY <1>1, <1>2, <2>1
  <2>3. d < q + 1 /\ q < d + 1
    BY <1>2, <2>2
  <2> QED BY <1>2, <2>3
<1>4. y % s = y - d * s
  OBVIOUS
<1> QED BY <1>1, <1>3, <1>4

(* Arithmetic in so many bits leaves alone what fits, and takes away the    *)
(* modulus once from the sum of two such numbers that does not.            *)
LEMMA Wraps ==
  ASSUME NEW x \in Nat, NEW u \in Nat \ {0}
  PROVE  /\ x % u \in Nat /\ x % u < u
         /\ x < u => x % u = x
         /\ (u <= x /\ x < u + u) => x % u = x - u
<1>1. x % u \in Nat /\ x % u < u
  OBVIOUS
<1>2. ASSUME x < u PROVE x % u = x
  <2>1. (0 * u + x) % u = x /\ 0 * u + x = x
    BY <1>2, QuotientUnique
  <2> QED BY <2>1
<1>3. ASSUME u <= x, x < u + u PROVE x % u = x - u
  <2>1. x - u \in Nat /\ x - u < u /\ 1 * u + (x - u) = x /\ 1 \in Nat
    BY <1>3
  <2>2. (1 * u + (x - u)) % u = x - u
    BY <2>1, QuotientUnique
  <2> QED BY <2>1, <2>2
<1> QED BY <1>1, <1>2, <1>3

(* A frame whose items seem to fit although the sum has wrapped has one    *)
(* block.                                                                  *)
LEMMA WrapsToOne ==
  ASSUME NEW x \in Nat, NEW s \in Nat \ {0}, NEW size \in Nat \ {0}, x < s,
         size = (x + s - 1) \div s
  PROVE  size = 1 /\ x > 0
<1> DEFINE y == x + s - 1
<1>1. y \in Nat /\ y < s + s - 1
  OBVIOUS
<1>2. size * s <= y /\ y < size * s + s
  <2>1. size = y \div s
    OBVIOUS
  <2> HIDE DEF y
  <2> QED BY <1>1, <2>1, Division
<1>3. size = 1
  <2>1. size * s < 2 * s
    BY <1>1, <1>2
  <2>2. size < 2
    BY <2>1
  <2> QED BY <2>2
<1> QED BY <1>2, <1>3

\* What the header leaves to be read.
NumberRead ==
  IF ItemsFit THEN rawFrame.nItems ELSE ((FrameSize - HeaderSize) * SizeUnit) \div ItemSize

HeaderRead ==
  /\ itemSize = ItemSize /\ nItems = NumberRead
  /\ ItemsInside \/ (rawFrame.size = HeaderSize /\ ItemBytes + HeaderSize * SizeUnit > UintMod)

\* The items that are read, when they are within the frame.
ItemsRead ==
  /\ itemSize = ItemSize /\ nItems = NumberRead
  /\ ItemCount \in Nat
  /\ HeaderSize * SizeUnit + ItemCount * itemSize <= rawFrame.size * SizeUnit

\* What the two loops make of it.
PartialData == Kept(ItemsFound, {i \in 1..ItemCount : Possible(ItemsFound[i])})
FullData == [n \in 1..(NumAgets * ArrayLength) |-> ItemAt(n - 1)]

ReadInv ==
  /\ rawFrame \in RawFrames
  /\ phase \in {"header", "items", "done", "threw", "crashed"}
  /\ {frameSize, itemSize, nItems} \subseteq Nat
  /\ phase \in {"items", "done", "threw"} => HeaderRead
  /\ phase \in {"header", "items", "crashed", "threw"} => data = <<>>
  /\ phase = "done" =>
       /\ IsPartial => IF ItemsInside THEN data = PartialData ELSE data \in Strays
       /\ IsFull => ItemsInside /\ ~Overflows /\ data = FullData
       /\ ~IsPartial /\ ~IsFull => data = <<>>
  /\ (phase = "threw" /\ ItemsInside) => IsFull /\ Overflows

LEMMA RawTypes ==
  ASSUME NEW raw \in RawFrames
  PROVE  /\ raw.size \in Nat \ {0} /\ raw.itemSize \in Nat /\ raw.nItems \in Nat
         /\ raw.words \in Seq(WordType) /\ Len(raw.words) \in Nat
         /\ Len(raw.words) * 2 = (raw.size - 1) * SizeUnit
         /\ raw.size * SizeUnit < UintMod
         /\ raw.written \in Seq(ItemType) /\ Len(raw.written) \in Nat
<1>1. /\ {raw.size, raw.itemSize, raw.nItems} \subseteq Nat /\ raw.size > 0
      /\ raw.size * SizeUnit < UintMod
      /\ raw.words \in Seq(WordType)
      /\ Len(raw.words) * 2 = (raw.size - 1) * SizeUnit
  BY GRAWFrameAssumption
<1>2. raw.written \in Seq(ItemType)
  BY WrittenAssumption
<1> QED BY <1>1, <1>2

LEMMA Layout ==
  /\ SizeUnit \in Nat \ {0} /\ NumAgets \in Nat \ {0} /\ NumAgets <= 4
  /\ NumChannels \in Nat \ {0} /\ NumTbs \in Nat \ {0} /\ UintMod \in Nat \ {0}
  BY GRAWFrameAssumption

LEMMA HeaderInside ==
  ASSUME rawFrame \in RawFrames, ItemsFit \/ ItemSize > 0
  PROVE  /\ ItemSize \in Nat /\ NumberRead \in Nat /\ FrameSize \in Nat
         /\ \/ HeaderSize * SizeUnit + Bytes(NumberRead, ItemSize) <= rawFrame.size * SizeUnit
            \/ /\ rawFrame.size = HeaderSize
               /\ Bytes(NumberRead, ItemSize) + HeaderSize * SizeUnit > UintMod
<1> DEFINE n == rawFrame.nItems
           w == ItemSize
           size == rawFrame.size
           s == SizeUnit
           u == UintMod
<1>1. /\ s \in Nat \ {0} /\ size \in Nat \ {0} /\ n \in Nat /\ rawFrame.itemSize \in Nat
      /\ u \in Nat \ {0} /\ size * s < u
  BY Layout, RawTypes
<1>2. w \in Nat
  BY <1>1 DEF ItemSize
<1>3. /\ NumberRead = IF ItemsFit THEN n ELSE ((size - HeaderSize) * s) \div w
      /\ FrameSize = size /\ HeaderSize * s = s
  BY <1>1 DEF NumberRead, FrameSize, HeaderSize
<1>4. ItemsFit => size = (((Bytes(n, w) + s) % u) + s - 1) \div s
  BY <1>3 DEF ItemsFit, BlocksFor, FrameSize
<1>5. ItemsFit \/ w > 0
  OBVIOUS
<1>6. \A m \in Nat : Bytes(m, w) \in Nat /\ Bytes(m, w) < u /\ (m * w < u => Bytes(m, w) = m * w)
  <2>1. ASSUME NEW m \in Nat PROVE m * w \in Nat
    BY <1>2
  <2> QED BY <1>1, <2>1, Wraps DEF Bytes
<1>7. s <= size * s
  BY <1>1
<1> HIDE DEF n, w, size, s, u
<1>8. CASE ItemsFit
  <2> DEFINE b == Bytes(n, w)
  <2>1. b \in Nat /\ b < u /\ b + s \in Nat
    BY <1>1, <1>6
  <2>2. size = (((b + s) % u) + s - 1) \div s
    BY <1>4, <1>8
  <2> HIDE DEF b
  <2>3. CASE b + s < u
    <3>1. (b + s) % u = b + s
      BY <1>1, <2>1, <2>3, Wraps
    <3>2. size = (b + HeaderSize * s + s - 1) \div s
      BY <1>3, <2>2, <3>1
    <3>3. HeaderSize * s + b <= size * s
      BY <1>1, <2>1, <3>2, ItemsThatFit
    <3> QED BY <3>3, <1>1, <1>2, <1>3, <1>8 DEF size, w, s, b
  <2>4. CASE u <= b + s
    <3>1. s < u /\ b + s < u + u
      BY <1>1, <1>7, <2>1
    <3>2. (b + s) % u = (b + s) - u
      BY <1>1, <2>1, <2>4, <3>1, Wraps
    <3>3. PICK x \in Nat : x = (b + s) - u /\ x < s
      BY <1>1, <2>1, <2>4
    <3>4. size = (x + s - 1) \div s
      BY <2>2, <3>2, <3>3
    <3>5. size = 1 /\ x > 0
      BY <1>1, <3>3, <3>4, WrapsToOne
    <3>6. size = HeaderSize /\ b + HeaderSize * s > u
      BY <1>1, <1>3, <2>1, <3>3, <3>5 DEF HeaderSize
    <3> QED BY <3>6, <1>1, <1>2, <1>3, <1>8 DEF size, w, s, u, b
  <2> QED BY <1>1, <2>1, <2>3, <2>4
<1>9. CASE ~ItemsFit
  <2> DEFINE m == ((size - HeaderSize) * s) \div w
  <2>1. w \in Nat \ {0}
    BY <1>2, <1>5, <1>9
  <2>2. HeaderSize * s + m * w <= size * s
    BY <2>1, <1>1, ItemsComputed
  <2>3. m \in Nat
    <3>1. (size - HeaderSize) * s \in Nat
      BY <1>1 DEF HeaderSize
    <3> QED BY <2>1, <3>1, Division
  <2>4. NumberRead = m
    BY <1>3, <1>9
  <2> HIDE DEF m
  <2>5. m * w < u
    <3>1. m * w \in Nat /\ size * s \in Nat
      BY <1>1, <2>1, <2>3
    <3> QED BY <1>1, <1>3, <2>2, <3>1
  <2>6. HeaderSize * s + Bytes(m, w) <= size * s
    BY <1>6, <2>2, <2>3, <2>5
  <2> QED BY <2>3, <2>4, <2>6, <1>1, <1>2, <1>3 DEF size, w, s
<1> QED BY <1>8, <1>9

(* Items that lie within the frame are as many as their bytes say; when    *)
(* their number is not too large for the frame, it has not wrapped.        *)
LEMMA InsideRead ==
  ASSUME rawFrame \in RawFrames, HeaderRead, ItemsInside, IsPartial \/ IsFull, nItems \in Nat
  PROVE  ItemsRead
<1>1. ItemSize \in {2, 4}
  BY DEF IsPartial, IsFull, ItemSize
<1>2. itemSize \in Nat \ {0} /\ nItems * itemSize \in Nat
  <2>1. itemSize = 2 \/ itemSize = 4
    BY <1>1 DEF HeaderRead
  <2>2. itemSize \in Nat \ {0}
    BY <2>1
  <2> QED BY <2>2
<1>3. ItemBytes \in Nat
  BY <1>2, Layout, Wraps DEF ItemBytes, Bytes
<1>4. ItemCount \in Nat /\ ItemCount * itemSize <= ItemBytes
  BY <1>2, <1>3, Division DEF ItemCount
<1>5. HeaderSize * SizeUnit + ItemBytes <= rawFrame.size * SizeUnit
  BY DEF ItemsInside
<1>6. /\ HeaderSize * SizeUnit \in Nat /\ rawFrame.size * SizeUnit \in Nat
      /\ ItemCount * itemSize \in Nat
  BY <1>2, <1>4, Layout, RawTypes DEF HeaderSize
<1>7. HeaderSize * SizeUnit + ItemCount * itemSize <= rawFrame.size * SizeUnit
  BY <1>3, <1>4, <1>5, <1>6
<1> QED BY <1>4, <1>7 DEF HeaderRead, ItemsRead

LEMMA SmallNumber ==
  ASSUME rawFrame \in RawFrames, nItems \in Nat, itemSize \in Nat \ {0},
         HeaderSize * SizeUnit + nItems * itemSize <= rawFrame.size * SizeUnit
  PROVE  ItemsInside /\ ItemCount = nItems
<1>1. /\ SizeUnit \in Nat \ {0} /\ UintMod \in Nat \ {0} /\ rawFrame.size \in Nat
      /\ rawFrame.size * SizeUnit < UintMod
  BY Layout, RawTypes
<1>2. /\ nItems * itemSize \in Nat /\ HeaderSize * SizeUnit \in Nat
      /\ rawFrame.size * SizeUnit \in Nat
  BY <1>1 DEF HeaderSize
<1>3. nItems * itemSize < UintMod
  BY <1>1, <1>2
<1>4. ItemBytes = nItems * itemSize
  BY <1>1, <1>2, <1>3, Wraps DEF ItemBytes, Bytes
<1>5. ItemCount = nItems
  <2>1. (nItems * itemSize + 0) \div itemSize = nItems
    BY QuotientUnique
  <2> QED BY <1>2, <1>4, <2>1 DEF ItemCount
<1> QED BY <1>4, <1>5 DEF ItemsInside

(* What is read depends on the raw frame and the number of items only. *)
LEMMA Unchanged ==
  ASSUME rawFrame' = rawFrame, nItems' = nItems, itemSize' = itemSize
  PROVE  PartialData' = PartialData /\ FullData' = FullData /\ Overflows' = Overflows
<1> DEFINE
      found(r, n) == [i \in 1..n |-> Decoded(r.words[2 * i - 1], r.words[2 * i])]
      partial(r, n) == Kept(found(r, n), {i \in 1..n : Possible(found(r, n)[i])})
      samples(r, n, aget) == Kept([i \in 1..n |-> WordSample(r.words[i])],
                                  {i \in 1..n : WordAget(r.words[i]) = aget})
      item(r, n, m) ==
        LET aget == m \div ArrayLength
            tb == (m % ArrayLength) \div NumChannels
            channel == m % NumChannels
            s == samples(r, n, aget)
            i == IndexOf(tb, channel)
        IN  Item(aget, channel, tb, IF i <= Len(s) THEN s[i] ELSE 0)
      full(r, n) == [m \in 1..(NumAgets * ArrayLength) |-> item(r, n, m - 1)]
      over(r, n) == \E aget \in 0..(NumAgets - 1) : Len(samples(r, n, aget)) > ArrayLength
<1>1. PartialData = partial(rawFrame, ItemCount) /\ PartialData' = partial(rawFrame', ItemCount')
  BY DEF PartialData, ItemsFound
<1>2. FullData = full(rawFrame, ItemCount) /\ FullData' = full(rawFrame', ItemCount')
  BY DEF FullData, ItemAt, SamplesOf
<1>3. Overflows = over(rawFrame, ItemCount) /\ Overflows' = over(rawFrame', ItemCount')
  BY DEF Overflows, SamplesOf
<1>4. ItemCount' = ItemCount
  BY DEF ItemCount, ItemBytes, Bytes
<1> HIDE DEF partial, full, over
<1> QED BY <1>1, <1>2, <1>3, <1>4

LEMMA ReadStep ==
  ReadInv /\ [Next]_vars => ReadInv'
<1> SUFFICES ASSUME ReadInv, [Next]_vars PROVE ReadInv'
  OBVIOUS
<1>1. CASE ParseHeader
  <2>1. /\ rawFrame' = rawFrame /\ data' = <<>> /\ phase' = "items"
        /\ frameSize' = FrameSize /\ itemSize' = ItemSize /\ nItems' = NumberRead
        /\ ItemsFit \/ ItemSize > 0
    BY <1>1 DEF ParseHeader, NumberRead, ReadInv
  <2>2. ItemSize' = ItemSize /\ NumberRead' = NumberRead
    BY <2>1 DEF ItemSize, NumberRead, ItemsFit, BlocksFor, Bytes, FrameSize
  <2>3. rawFrame \in RawFrames
    BY DEF ReadInv
  <2>4. /\ ItemSize \in Nat /\ NumberRead \in Nat /\ FrameSize \in Nat
        /\ \/ HeaderSize * SizeUnit + Bytes(NumberRead, ItemSize) <= rawFrame.size * SizeUnit
           \/ /\ rawFrame.size = HeaderSize
              /\ Bytes(NumberRead, ItemSize) + HeaderSize * SizeUnit > UintMod
    BY <2>1, <2>3, HeaderInside
  <2>5. ItemBytes' = Bytes(NumberRead, ItemSize)
    BY <2>1 DEF ItemBytes, Bytes
  <2>6. HeaderRead'
    BY <2>1, <2>2, <2>4, <2>5 DEF HeaderRead, ItemsInside
  <2> QED BY <2>1, <2>3, <2>4, <2>6 DEF ReadInv
<1>2. CASE HeaderCrashes
  BY <1>2 DEF HeaderCrashes, ReadInv
<1>3. CASE ReadOutside \/ ExtractPartialReadoutData \/ ExtractFullReadoutData \/ ExtractNothing
           \/ Terminated \/ UNCHANGED vars
  <2>1. /\ rawFrame' = rawFrame /\ frameSize' = frameSize /\ itemSize' = itemSize
        /\ nItems' = nItems
    BY <1>3 DEF ReadOutside, ExtractPartialReadoutData, ExtractFullReadoutData, ExtractNothing, Terminated, vars
  <2>2. PartialData' = PartialData /\ FullData' = FullData /\ Overflows' = Overflows
    BY <2>1, Unchanged
  <2>3. HeaderRead' = HeaderRead /\ IsPartial' = IsPartial /\ IsFull' = IsFull
    BY <2>1 DEF HeaderRead, ItemSize, NumberRead, ItemsFit, BlocksFor, Bytes, FrameSize,
                ItemsInside, ItemBytes, IsPartial, IsFull
  <2>8. ItemsInside' = ItemsInside
    BY <2>1 DEF ItemsInside, ItemBytes, Bytes
  <2>4. CASE ExtractPartialReadoutData
    <3>1. /\ data' = PartialData /\ phase = "items" /\ phase' = "done" /\ IsPartial /\ ~IsFull
          /\ ItemsInside
      BY <2>4 DEF ExtractPartialReadoutData, PartialData, IsPartial, IsFull,
                  PartialReadout, FullReadout
    <3> QED BY <2>1, <2>2, <2>3, <2>8, <3>1 DEF ReadInv
  <2>5. CASE ExtractFullReadoutData
    <3>1. /\ phase = "items" /\ IsFull /\ ~IsPartial /\ ItemsInside
          /\ \/ Overflows /\ phase' = "threw" /\ data' = data
             \/ ~Overflows /\ phase' = "done" /\ data' = FullData
      BY <2>5 DEF ExtractFullReadoutData, FullData, IsPartial, IsFull,
                  PartialReadout, FullReadout
    <3> QED BY <2>1, <2>2, <2>3, <2>8, <3>1 DEF ReadInv
  <2>6. CASE ExtractNothing
    <3>1. phase = "items" /\ phase' = "done" /\ data' = data /\ ~IsPartial /\ ~IsFull
      BY <2>6 DEF ExtractNothing, IsPartial, IsFull
    <3> QED BY <2>1, <2>2, <2>3, <2>8, <3>1 DEF ReadInv
  <2>7. CASE Terminated \/ UNCHANGED vars
    <3>1. phase' = phase /\ data' = data
      BY <2>7 DEF Terminated, vars
    <3> QED BY <2>1, <2>2, <2>3, <2>8, <3>1 DEF ReadInv
  <2>9. CASE ReadOutside
    <3>1. /\ phase = "items" /\ ~ItemsInside
          /\ \/ phase' \in {"crashed", "threw"} /\ data' = data
             \/ IsPartial /\ ~IsFull /\ phase' = "done" /\ data' \in Strays
      BY <2>9 DEF ReadOutside, IsPartial, IsFull, PartialReadout, FullReadout
    <3> QED BY <2>1, <2>2, <2>3, <2>8, <3>1 DEF ReadInv
  <2> QED BY <1>3, <2>4, <2>5, <2>6, <2>7, <2>9
<1> QED BY <1>1, <1>2, <1>3 DEF Next

LEMMA ReadInvariant ==
  Spec => []ReadInv
<1>1. Init => ReadInv
  BY DEF Init, ReadInv
<1> QED BY <1>1, ReadStep, PTL DEF Spec

(* Whatever the header of a frame says, the items read from it lie within  *)
(* its bytes: a number of items that goes with its size, in 32 bits, gives *)
(* a dataEnd within it, and one that does not is replaced by what fits.    *)
(* The exception is a frame of one block, where the sum that wraps can     *)
(* still come to one block.                                                *)
THEOREM ItemsInsideFrameCorrect ==
  Spec => []ItemsInsideFrame
<1>1. ReadInv => ItemsInsideFrame
  BY DEF ReadInv, HeaderRead, ItemsInsideFrame
<1> QED BY <1>1, ReadInvariant, PTL

-----------------------------------------------------------------------------
(* Partial readout *)

(* The masks and shifts of the four extractions undo the layout of an item *)
(* in a partial readout, for every value its fields have room for.         *)
THEOREM DecodedIsWritten ==
  ASSUME NEW item \in ItemType, NEW unused \in 0..3, NEW hi, NEW lo,
         <<hi, lo>> = PartialWords(item, unused)
  PROVE  Decoded(hi, lo) = item
<1>1. /\ item.agetId \in 0..3 /\ item.channel \in 0..127
      /\ item.timeBucketId \in 0..511 /\ item.sample \in 0..4095
  BY DEF ItemType
<1>2. /\ hi = item.agetId * 16384 + item.channel * 128 + item.timeBucketId \div 4
      /\ lo = (item.timeBucketId % 4) * 16384 + unused * 4096 + item.sample
  BY DEF PartialWords
<1>3. /\ AgetId(hi, lo) = item.agetId /\ Channel(hi, lo) = item.channel
      /\ TBid(hi, lo) = item.timeBucketId /\ Sample(hi, lo) = item.sample
  <2>0. PICK a, c, tb, x : a = item.agetId /\ c = item.channel
                           /\ tb = item.timeBucketId /\ x = item.sample
    OBVIOUS
  <2>1. /\ a \in 0..3 /\ c \in 0..127 /\ tb \in 0..511 /\ x \in 0..4095
        /\ hi = a * 16384 + c * 128 + tb \div 4
        /\ lo = (tb % 4) * 16384 + unused * 4096 + x
    <3>1. a \in 0..3 /\ c \in 0..127 /\ tb \in 0..511 /\ x \in 0..4095
      <4>1. a \in 0..3
        BY <1>1, <2>0
      <4>2. c \in 0..127
        BY <1>1, <2>0
      <4>3. tb \in 0..511
        BY <1>1, <2>0
      <4>4. x \in 0..4095
        BY <1>1, <2>0
      <4> QED BY <4>1, <4>2, <4>3, <4>4
    <3>2. hi = a * 16384 + c * 128 + tb \div 4
      BY <1>2, <2>0
    <3>3. lo = (tb % 4) * 16384 + unused * 4096 + x
      BY <1>2, <2>0
    <3> QED BY <3>1, <3>2, <3>3
  <2>2. AgetId(hi, lo) = a
    BY <2>1, SMT DEF AgetId
  <2>3. Channel(hi, lo) = c
    BY <2>1, SMT DEF Channel
  <2>4. TBid(hi, lo) = tb
    BY <2>1, SMT DEF TBid
  <2>5. Sample(hi, lo) = x
    <3> DEFINE q == (tb % 4) * 4 + unused
    <3>1. lo = 4096 * q + x /\ q \in Nat
      BY <2>1
    <3> HIDE DEF q
    <3>2. lo % 4096 = x
      BY <2>1, <3>1
    <3> QED BY <3>2 DEF Sample
  <2> QED BY <2>0, <2>2, <2>3, <2>4, <2>5
<1>4. item = [agetId |-> item.agetId, channel |-> item.channel,
              timeBucketId |-> item.timeBucketId, sample |-> item.sample]
  BY DEF ItemType
<1> QED BY <1>3, <1>4 DEF Decoded, Item

(* The blocks of a frame hold the items that were written: so many of them    *)
(* fit, and no block less would do.                                           *)
LEMMA ItemsHeld ==
  ASSUME NEW raw \in RawFrames, NEW w \in Nat \ {0}, NEW n \in Nat, Holds(raw, w * n)
  PROVE  /\ BlocksFor(n, w) = raw.size
         /\ HeaderSize * SizeUnit + n * w <= raw.size * SizeUnit
         /\ n <= ((raw.size - HeaderSize) * SizeUnit) \div w
<1> DEFINE s == SizeUnit
           size == raw.size
           b == n * w
<1>1. s \in Nat \ {0} /\ size \in Nat \ {0} /\ b \in Nat /\ w * n = b
  BY Layout, RawTypes
<1>2. (size - 2) * s < b /\ b <= (size - 1) * s
  BY <1>1 DEF Holds
<1>6. (size - 1) * s = size * s - s /\ size * s \in Nat /\ UintMod \in Nat \ {0} /\ size * s < UintMod
  BY <1>1, Layout, RawTypes
<1>7. s + b <= size * s
  BY <1>1, <1>2, <1>6
<1>3. BlocksFor(n, w) = (b + s + s - 1) \div s
  <2>1. b < UintMod /\ b + s < UintMod /\ b + s \in Nat
    BY <1>1, <1>6, <1>7
  <2>2. b % UintMod = b /\ (b + s) % UintMod = b + s
    BY <1>1, <1>6, <2>1, Wraps
  <2>3. HeaderSize * s = s
    BY <1>1 DEF HeaderSize
  <2> HIDE DEF s
  <2>4. BlocksFor(n, w) = ((((b % UintMod) + HeaderSize * s) % UintMod) + s - 1) \div s
    BY DEF BlocksFor, Bytes, s
  <2> QED BY <2>2, <2>3, <2>4
<1>4. n <= ((size - 1) * s) \div w
  <2> DEFINE x == (size - 1) * s
             q == x \div w
  <2>1. x \in Nat
    BY <1>1
  <2>2. q \in Nat /\ x < q * w + w /\ n * w <= x
    BY <1>2, <2>1, Division
  <2> HIDE DEF q, x
  <2>3. (q + 1) * w = q * w + w /\ n * w \in Nat /\ q * w \in Nat
    BY <2>2
  <2>4. n * w < (q + 1) * w
    BY <2>1, <2>2, <2>3
  <2>5. n < q + 1
    BY <2>2, <2>4
  <2> QED BY <2>2, <2>5 DEF q, x
<1>5. (b + s + s - 1) \div s = size
  <2> DEFINE y == b + s + s - 1
             q == y \div s
  <2>1. y \in Nat
    BY <1>1
  <2>2. q \in Nat /\ q * s <= y /\ y < q * s + s
    BY <1>1, <2>1, Division
  <2>3. size * s = (size - 1) * s + s /\ size * s = (size - 2) * s + s + s /\ size * s \in Nat
    BY <1>1
  <2>4. q * s < (size + 1) * s /\ size * s < (q + 1) * s
    <3> HIDE DEF q
    <3>1. q * s \in Nat /\ (q + 1) * s = q * s + s /\ (size + 1) * s = size * s + s
      BY <1>1, <2>2
    <3>2. size * s <= y /\ y < size * s + s
      BY <1>1, <1>2, <2>3
    <3> HIDE DEF y
    <3> QED BY <1>1, <2>1, <2>2, <2>3, <3>1, <3>2
  <2> HIDE DEF q
  <2>5. q < size + 1 /\ size < q + 1
    BY <1>1, <2>2, <2>4
  <2>6. q = size
    BY <1>1, <2>2, <2>5
  <2> QED BY <2>6 DEF q
<1> QED BY <1>1, <1>3, <1>4, <1>5, <1>7 DEF HeaderSize

(* An intact number of items, and one that is corrected, has not wrapped.     *)
LEMMA NumberWritten ==
  ASSUME rawFrame \in RawFrames, itemSize = ItemSize, nItems = NumberRead,
         ItemSize \in Nat \ {0}, rawFrame.nItems = Len(Written),
         Holds(rawFrame, ItemSize * Len(Written))
  PROVE  ItemsInside /\ ItemCount \in Nat /\ ItemCount = Len(Written)
<1>1. Len(Written) \in Nat
  BY RawTypes DEF Written
<1>2. /\ BlocksFor(Len(Written), ItemSize) = rawFrame.size
      /\ HeaderSize * SizeUnit + Len(Written) * ItemSize <= rawFrame.size * SizeUnit
  BY <1>1, ItemsHeld
<1>3. nItems = Len(Written)
  BY <1>2 DEF NumberRead, ItemsFit, FrameSize
<1> QED BY <1>1, <1>2, <1>3, SmallNumber

LEMMA NumberCorrected ==
  ASSUME rawFrame \in RawFrames, itemSize = ItemSize, nItems = NumberRead,
         ItemSize \in Nat \ {0}, ~ItemsFit
  PROVE  /\ ItemsInside /\ ItemCount \in Nat
         /\ ItemCount = ((rawFrame.size - HeaderSize) * SizeUnit) \div ItemSize
<1>1. SizeUnit \in Nat \ {0} /\ rawFrame.size \in Nat \ {0}
  BY Layout, RawTypes
<1>2. nItems = ((rawFrame.size - HeaderSize) * SizeUnit) \div ItemSize
  BY DEF NumberRead, FrameSize
<1>3. HeaderSize * SizeUnit + nItems * itemSize <= rawFrame.size * SizeUnit
  BY <1>1, <1>2, ItemsComputed
<1>4. nItems \in Nat
  <2>1. (rawFrame.size - HeaderSize) * SizeUnit \in Nat
    BY <1>1 DEF HeaderSize
  <2> QED BY <1>2, <2>1, Division
<1> QED BY <1>2, <1>3, <1>4, SmallNumber

(* The items found in a partial readout begin with those that were written,   *)
(* unless a wrong number of items went with the size of the frame.            *)
LEMMA WrittenFound ==
  ASSUME rawFrame \in RawFrames, itemSize = ItemSize, nItems = NumberRead, IsPartial,
         ~ItemsFit \/ rawFrame.damage \in {"none", "sizes"}
  PROVE  /\ ItemsInside
         /\ Len(Written) \in Nat /\ ItemCount \in Nat /\ Len(Written) <= ItemCount
         /\ rawFrame.damage \in {"none", "sizes"} => ItemCount = Len(Written)
         /\ Written \in Seq(ItemType) /\ DOMAIN Written = 1..Len(Written)
         /\ \A i \in 1..Len(Written) : ItemsFound[i] = Written[i]
<1>1. Written \in Seq(ItemType) /\ Len(Written) \in Nat /\ DOMAIN Written = 1..Len(Written)
  BY RawTypes DEF Written
<1>2. /\ Holds(rawFrame, 4 * Len(Written))
      /\ \A i \in DOMAIN Written : \E unused \in 0..3 :
           <<rawFrame.words[2 * i - 1], rawFrame.words[2 * i]>> = PartialWords(Written[i], unused)
      /\ rawFrame.damage \in {"none", "sizes"} => rawFrame.nItems = Len(Written)
  BY WrittenAssumption DEF Written, IsPartial
<1>3. ItemSize = 4
  BY DEF IsPartial, ItemSize, PartialReadout, FullReadout
<1>4. Len(Written) <= ((rawFrame.size - HeaderSize) * SizeUnit) \div 4
  BY <1>1, <1>2, ItemsHeld
<1>5. rawFrame.damage \in {"none", "sizes"} =>
        ItemsInside /\ ItemCount \in Nat /\ ItemCount = Len(Written)
  BY <1>2, <1>3, NumberWritten
<1>6. ItemsInside /\ ItemCount \in Nat /\ Len(Written) <= ItemCount
  <2>1. CASE ~ItemsFit
    BY <1>3, <1>4, <2>1, NumberCorrected
  <2>2. CASE rawFrame.damage \in {"none", "sizes"}
    BY <1>1, <1>5, <2>2
  <2> QED BY <2>1, <2>2
<1>7. ASSUME NEW i \in 1..Len(Written) PROVE ItemsFound[i] = Written[i]
  <2>1. i \in 1..ItemCount /\ i \in DOMAIN Written
    BY <1>1, <1>6
  <2>2. Written[i] \in ItemType
    BY <1>1
  <2>3. PICK unused \in 0..3 :
          <<rawFrame.words[2 * i - 1], rawFrame.words[2 * i]>> = PartialWords(Written[i], unused)
    BY <1>2, <2>1
  <2>4. ItemsFound[i] = Decoded(rawFrame.words[2 * i - 1], rawFrame.words[2 * i])
    BY <2>1 DEF ItemsFound
  <2>5. Decoded(rawFrame.words[2 * i - 1], rawFrame.words[2 * i]) = Written[i]
    BY <2>2, <2>3, DecodedIsWritten
  <2> QED BY <2>4, <2>5
<1> QED BY <1>1, <1>5, <1>6, <1>7

KeepPossible == {i \in 1..ItemCount : Possible(ItemsFound[i])}

LEMMA PlacesKept ==
  ASSUME rawFrame \in RawFrames, itemSize = ItemSize, nItems = NumberRead, IsPartial,
         ~ItemsFit \/ rawFrame.damage \in {"none", "sizes"}
  PROVE  /\ \A i \in 0..Len(Written) : PlaceOf(i) = Rank(KeepPossible, i)
         /\ \A i \in 1..Len(Written) : Possible(Written[i]) => i \in KeepPossible
<1>1. /\ Len(Written) \in Nat /\ ItemCount \in Nat /\ Len(Written) <= ItemCount
      /\ \A i \in 1..Len(Written) : ItemsFound[i] = Written[i]
  BY WrittenFound
<1>2. \A i \in 1..Len(Written) : i \in KeepPossible <=> Possible(Written[i])
  BY <1>1 DEF KeepPossible
<1>3. ASSUME NEW i \in 0..Len(Written) PROVE PlaceOf(i) = Rank(KeepPossible, i)
  <2>1. \A j \in 1..i : j \in 1..Len(Written)
    BY <1>1
  <2>2. {j \in 1..i : Possible(Written[j])} = {j \in 1..i : j \in KeepPossible}
    BY <1>2, <2>1
  <2> QED BY <2>2 DEF PlaceOf, Rank
<1> QED BY <1>2, <1>3

LEMMA WordNat ==
  WordType \subseteq Nat
  BY DEF WordType

LEMMA PossibleType ==
  ASSUME NEW hi \in WordType, NEW lo \in WordType, Possible(Decoded(hi, lo))
  PROVE  Decoded(hi, lo) \in DataType
<1>1. hi \in Nat /\ lo \in Nat
  BY WordNat
<1>2. AgetId(hi, lo) \in Nat /\ Channel(hi, lo) \in Nat /\ TBid(hi, lo) \in Nat
      /\ Sample(hi, lo) \in 0..4095
  BY <1>1 DEF AgetId, Channel, TBid, Sample
<1>3. AgetId(hi, lo) < NumAgets /\ Channel(hi, lo) < NumChannels /\ TBid(hi, lo) < NumTbs
  BY DEF Possible, Decoded, Item
<1>4. /\ AgetId(hi, lo) \in 0..(NumAgets - 1) /\ Channel(hi, lo) \in 0..(NumChannels - 1)
      /\ TBid(hi, lo) \in 0..(NumTbs - 1) /\ Sample(hi, lo) \in 0..4095
  <2> DEFINE a == AgetId(hi, lo)
             c == Channel(hi, lo)
             tb == TBid(hi, lo)
  <2>1. a \in Nat /\ c \in Nat /\ tb \in Nat /\ a < NumAgets /\ c < NumChannels /\ tb < NumTbs
    BY <1>2, <1>3
  <2> HIDE DEF a, c, tb
  <2>2. a \in 0..(NumAgets - 1) /\ c \in 0..(NumChannels - 1) /\ tb \in 0..(NumTbs - 1)
    BY <2>1, Layout
  <2> QED BY <1>2, <2>2 DEF a, c, tb
<1> QED BY <1>4 DEF Decoded, Item, DataType

(* Every item found lies within the words of the frame, and is one that       *)
(* AppendFrame can store unless it is left out.                               *)
LEMMA PartialTypes ==
  ASSUME rawFrame \in RawFrames, ItemsRead, IsPartial
  PROVE  \A i \in 1..ItemCount : i \in KeepPossible => ItemsFound[i] \in DataType
<1>1. /\ SizeUnit \in Nat \ {0} /\ rawFrame.size \in Nat \ {0}
      /\ rawFrame.words \in Seq(WordType) /\ Len(rawFrame.words) \in Nat
      /\ Len(rawFrame.words) * 2 = (rawFrame.size - 1) * SizeUnit
  BY Layout, RawTypes
<1>2. ItemSize = 4
  BY DEF IsPartial, ItemSize, PartialReadout, FullReadout
<1>5. ItemCount \in Nat
  BY DEF ItemsRead
<1>3. 2 * ItemCount <= Len(rawFrame.words)
  <2>1. SizeUnit + ItemCount * 4 <= rawFrame.size * SizeUnit
    BY <1>1, <1>2 DEF ItemsRead, HeaderSize
  <2>2. (rawFrame.size - 1) * SizeUnit = rawFrame.size * SizeUnit - SizeUnit
        /\ rawFrame.size * SizeUnit \in Nat
    BY <1>1
  <2> QED BY <1>1, <1>5, <2>1, <2>2
<1>4. ASSUME NEW i \in 1..ItemCount, i \in KeepPossible PROVE ItemsFound[i] \in DataType
  <2> DEFINE hi == rawFrame.words[2 * i - 1]
             lo == rawFrame.words[2 * i]
  <2>1. 2 * i - 1 \in 1..Len(rawFrame.words) /\ 2 * i \in 1..Len(rawFrame.words)
    BY <1>1, <1>3, <1>5
  <2>2. hi \in WordType /\ lo \in WordType
    BY <1>1, <2>1
  <2>3. ItemsFound[i] = Decoded(hi, lo)
    BY DEF ItemsFound
  <2>4. Possible(Decoded(hi, lo))
    BY <1>4, <2>3 DEF KeepPossible
  <2> HIDE DEF hi, lo
  <2> QED BY <2>2, <2>3, <2>4, PossibleType
<1> QED BY <1>4

(* Where the loop over the items puts them. *)
LEMMA PartialPlaces ==
  ASSUME rawFrame \in RawFrames, ItemsRead, IsPartial
  PROVE  /\ PartialData \in Seq(DataType) /\ Len(PartialData) = Rank(KeepPossible, ItemCount)
         /\ \A i \in 1..ItemCount : i \in KeepPossible =>
              /\ Rank(KeepPossible, i) \in 1..Len(PartialData)
              /\ PartialData[Rank(KeepPossible, i)] = ItemsFound[i]
<1>1. Len(ItemsFound) = ItemCount
  BY DEF ItemsFound, ItemsRead
<1>2. PartialData = Kept(ItemsFound, KeepPossible)
  BY DEF PartialData, KeepPossible
<1>3. KeepsOnly(DataType, ItemsFound, KeepPossible, Len(ItemsFound))
  BY <1>1, PartialTypes DEF KeepsOnly
<1>4. Holding(DataType, PartialData, ItemsFound, KeepPossible, ItemCount)
  BY <1>1, <1>2, <1>3, LoopResult
<1> QED BY <1>4 DEF Holding

LEMMA WrittenPlaced ==
  ASSUME rawFrame \in RawFrames, ItemsRead, IsPartial, data = PartialData,
         ~ItemsFit \/ rawFrame.damage \in {"none", "sizes"}
  PROVE  /\ WrittenInPlace
         /\ rawFrame.damage \in {"none", "sizes"} => Len(data) = PlaceOf(Len(Written))
<1>7. itemSize = ItemSize /\ nItems = NumberRead
  BY DEF ItemsRead
<1>0. Len(Written) \in Nat /\ ItemCount \in Nat /\ Len(Written) <= ItemCount
      /\ DOMAIN Written = 1..Len(Written)
  BY <1>7, WrittenFound
<1>1. /\ rawFrame.damage \in {"none", "sizes"} => ItemCount = Len(Written)
      /\ \A i \in 1..Len(Written) : ItemsFound[i] = Written[i]
  BY <1>7, WrittenFound
<1>2. /\ \A i \in 0..Len(Written) : PlaceOf(i) = Rank(KeepPossible, i)
      /\ \A i \in 1..Len(Written) : Possible(Written[i]) => i \in KeepPossible
  BY <1>7, PlacesKept
<1>3. /\ data \in Seq(DataType) /\ Len(data) = Rank(KeepPossible, ItemCount)
      /\ \A i \in 1..ItemCount : i \in KeepPossible =>
           Rank(KeepPossible, i) \in 1..Len(data) /\ data[Rank(KeepPossible, i)] = ItemsFound[i]
  BY PartialPlaces
<1>4. DOMAIN data = 1..Len(data)
  BY <1>3
<1>5. ASSUME NEW i \in DOMAIN Written, Possible(Written[i])
      PROVE  PlaceOf(i) \in DOMAIN data /\ data[PlaceOf(i)] = Written[i]
  <2>1. i \in 1..Len(Written) /\ i \in 0..Len(Written) /\ i \in 1..ItemCount
    BY <1>0
  <2>2. i \in KeepPossible /\ PlaceOf(i) = Rank(KeepPossible, i) /\ ItemsFound[i] = Written[i]
    BY <1>1, <1>2, <1>5, <2>1
  <2> QED BY <1>3, <1>4, <2>1, <2>2
<1>6. rawFrame.damage \in {"none", "sizes"} => Len(data) = PlaceOf(Len(Written))
  <2>1. Len(Written) \in 0..Len(Written)
    BY <1>0
  <2> QED BY <1>1, <1>2, <1>3, <2>1
<1> QED BY <1>5, <1>6 DEF WrittenInPlace

(* The items of a partial readout are those that were written, in their order, *)
(* without the impossible ones: they are all decoded as they were, there are   *)
(* as many as were written, and the loop leaves each in the place that the     *)
(* possible ones before it give it.                                            *)
THEOREM PartialItemsReadCorrect ==
  Spec => []PartialItemsRead
<1>1. ReadInv => PartialItemsRead
  <2> SUFFICES ASSUME ReadInv, phase = "done", IsPartial, rawFrame.damage \in {"none", "sizes"}
               PROVE  Len(data) = PlaceOf(Len(Written)) /\ WrittenInPlace
    BY DEF PartialItemsRead
  <2>1. rawFrame \in RawFrames /\ HeaderRead /\ nItems \in Nat
    BY DEF ReadInv
  <2>2. ItemsInside
    BY <2>1, WrittenFound DEF HeaderRead
  <2>3. ItemsRead
    BY <2>1, <2>2, InsideRead
  <2>4. data = PartialData
    BY <2>2 DEF ReadInv
  <2> QED BY <2>1, <2>3, <2>4, WrittenPlaced
<1> QED BY <1>1, ReadInvariant, PTL

(* When the number of items is corrected, to as many as the frame has room     *)
(* for, it is never too small.                                                 *)
THEOREM NothingLostCorrect ==
  Spec => []NothingLostWhenCorrected
<1>1. ReadInv => NothingLostWhenCorrected
  <2> SUFFICES ASSUME ReadInv, phase = "done", IsPartial, ~ItemsFit
               PROVE  WrittenInPlace
    BY DEF NothingLostWhenCorrected
  <2>1. rawFrame \in RawFrames /\ HeaderRead /\ nItems \in Nat
    BY DEF ReadInv
  <2>2. ItemsInside
    BY <2>1, WrittenFound DEF HeaderRead
  <2>3. ItemsRead
    BY <2>1, <2>2, InsideRead
  <2>4. data = PartialData
    BY <2>2 DEF ReadInv
  <2> QED BY <2>1, <2>3, <2>4, WrittenPlaced
<1> QED BY <1>1, ReadInvariant, PTL

-----------------------------------------------------------------------------
(* Full readout.  The n-th item is that of the AGET, time bucket and channel *)
(* that n is made of.                                                        *)

LEMMA LayoutNumbers ==
  /\ NumAgets \in Nat \ {0} /\ NumChannels \in Nat \ {0} /\ NumTbs \in Nat \ {0}
  /\ ArrayLength \in Nat \ {0}
  BY GRAWFrameAssumption DEF ArrayLength

\* The number of an item among those of all AGETs, and the three it is made of.
NumberOf(aget, tb, channel) == aget * ArrayLength + tb * NumChannels + channel
AgetOf(n) == n \div ArrayLength
TbOf(n) == (n % ArrayLength) \div NumChannels
ChannelOf(n) == n % NumChannels

LEMMA NumberTaken ==
  ASSUME NEW aget \in Nat, NEW channel \in 0..(NumChannels - 1), NEW tb \in 0..(NumTbs - 1)
  PROVE  /\ NumberOf(aget, tb, channel) \in Nat
         /\ AgetOf(NumberOf(aget, tb, channel)) = aget
         /\ TbOf(NumberOf(aget, tb, channel)) = tb
         /\ ChannelOf(NumberOf(aget, tb, channel)) = channel
         /\ tb * NumChannels + channel \in Nat /\ tb * NumChannels + channel < ArrayLength
<1> DEFINE L == ArrayLength
           C == NumChannels
           T == NumTbs
           r == tb * C + channel
<1>1. L \in Nat \ {0} /\ C \in Nat \ {0} /\ T \in Nat \ {0} /\ L = T * C
  BY LayoutNumbers DEF ArrayLength
<1>2. channel \in Nat /\ channel < C /\ tb \in Nat /\ tb + 1 <= T
  BY <1>1
<1> HIDE DEF L, C, T
<1>3. r \in Nat /\ r < L
  <2>1. (tb + 1) * C <= T * C
    BY <1>1, <1>2
  <2>2. (tb + 1) * C = tb * C + C /\ tb * C \in Nat
    BY <1>1, <1>2
  <2> QED BY <1>1, <1>2, <2>1, <2>2
<1>4. r \div C = tb
  BY <1>1, <1>2, QuotientUnique
<1>5. NumberOf(aget, tb, channel) = aget * L + r /\ aget * L \in Nat
  <2>1. aget * L \in Nat /\ tb * C \in Nat
    BY <1>1, <1>2
  <2> QED BY <1>2, <2>1 DEF NumberOf, L, C
<1>6. (aget * L + r) \div L = aget /\ (aget * L + r) % L = r
  <2> HIDE DEF r
  <2> QED BY <1>1, <1>3, QuotientUnique
<1>7. (aget * L + r) % C = channel
  <2> DEFINE q == aget * T + tb
  <2>1. aget * L + r = q * C + channel /\ q \in Nat
    BY <1>1, <1>2
  <2> HIDE DEF r, q
  <2>2. (q * C + channel) % C = channel
    BY <1>1, <1>2, <2>1, QuotientUnique
  <2> QED BY <2>1, <2>2
<1> QED BY <1>3, <1>4, <1>5, <1>6, <1>7 DEF AgetOf, TbOf, ChannelOf, L, C, r

LEMMA NumberGiven ==
  ASSUME NEW n \in 0..(NumAgets * ArrayLength - 1)
  PROVE  /\ AgetOf(n) \in 0..(NumAgets - 1) /\ TbOf(n) \in 0..(NumTbs - 1)
         /\ ChannelOf(n) \in 0..(NumChannels - 1)
         /\ n = NumberOf(AgetOf(n), TbOf(n), ChannelOf(n))
<1> DEFINE L == ArrayLength
           C == NumChannels
           T == NumTbs
           A == NumAgets
           a == AgetOf(n)
           r == n % L
           tb == TbOf(n)
           c == r % C
<1>1. L \in Nat \ {0} /\ C \in Nat \ {0} /\ T \in Nat \ {0} /\ A \in Nat \ {0} /\ L = T * C
  BY LayoutNumbers DEF ArrayLength
<1>2. n \in Nat /\ n < A * L
  <2>1. A * L \in Nat
    BY <1>1
  <2> QED BY <2>1
<1>3. a = n \div L /\ tb = r \div C
  BY DEF AgetOf, TbOf
<1> HIDE DEF L, C, T, A, a, tb
<1>4. a \in Nat /\ r \in Nat /\ n = a * L + r /\ r < L
  <2>1. a \in Nat /\ a * L <= n /\ n < a * L + L
    BY <1>1, <1>2, <1>3, Division
  <2>2. r = n - a * L
    BY <1>1, <1>2, <1>3, Remainder
  <2>3. a * L \in Nat
    BY <1>1, <2>1
  <2> HIDE DEF r
  <2> QED BY <1>1, <1>2, <2>1, <2>2, <2>3
<1> HIDE DEF r
<1>5. tb \in Nat /\ c \in Nat /\ r = tb * C + c /\ c < C
  BY <1>1, <1>3, <1>4
<1> HIDE DEF c
<1>6. a < A
  <2>1. a * L \in Nat /\ a * L < A * L
    BY <1>1, <1>2, <1>4
  <2> QED BY <1>1, <1>4, <2>1
<1>7. tb < T
  <2>1. tb * C \in Nat /\ tb * C < T * C
    BY <1>1, <1>4, <1>5
  <2> QED BY <1>1, <1>5, <2>1
<1>8. ChannelOf(n) = c
  <2>1. n = (a * T + tb) * C + c /\ a * T + tb \in Nat
    BY <1>1, <1>4, <1>5
  <2>2. n % C = c
    BY <1>1, <1>5, <2>1, QuotientUnique
  <2> QED BY <2>2 DEF ChannelOf, C
<1>9. n = NumberOf(a, tb, c)
  <2>1. a * L \in Nat /\ tb * C \in Nat
    BY <1>1, <1>4, <1>5
  <2>2. n = a * L + tb * C + c
    BY <1>4, <1>5, <2>1
  <2> QED BY <2>2 DEF NumberOf, L, C
<1>10. a \in 0..(A - 1) /\ tb \in 0..(T - 1) /\ c \in 0..(C - 1)
  BY <1>1, <1>4, <1>5, <1>6, <1>7
<1> QED BY <1>8, <1>9, <1>10 DEF a, tb, A, T, C

\* The indices of the samples of an AGET.
KeepAget(aget) == {i \in 1..ItemCount : WordAget(rawFrame.words[i]) = aget}
SampleType == 0..4095

(* What the loop over the words leaves in the array of an AGET. *)
LEMMA SamplesHeld ==
  ASSUME rawFrame \in RawFrames, ItemsRead, IsFull, NEW aget
  PROVE  Holding(SampleType, SamplesOf(aget),
                 [i \in 1..ItemCount |-> WordSample(rawFrame.words[i])], KeepAget(aget), ItemCount)
<1> DEFINE s == [i \in 1..ItemCount |-> WordSample(rawFrame.words[i])]
<1>1. /\ SizeUnit \in Nat \ {0} /\ rawFrame.size \in Nat \ {0}
      /\ rawFrame.words \in Seq(WordType) /\ Len(rawFrame.words) \in Nat
      /\ Len(rawFrame.words) * 2 = (rawFrame.size - 1) * SizeUnit
  BY Layout, RawTypes
<1>2. ItemSize = 2
  BY DEF IsFull, ItemSize, PartialReadout, FullReadout
<1>9. ItemCount \in Nat
  BY DEF ItemsRead
<1>3. ItemCount <= Len(rawFrame.words)
  <2>1. SizeUnit + ItemCount * 2 <= rawFrame.size * SizeUnit
    BY <1>1, <1>2 DEF ItemsRead, HeaderSize
  <2>2. (rawFrame.size - 1) * SizeUnit = rawFrame.size * SizeUnit - SizeUnit
        /\ rawFrame.size * SizeUnit \in Nat
    BY <1>1
  <2> QED BY <1>1, <1>9, <2>1, <2>2
<1>4. Len(s) = ItemCount
  BY <1>9
<1>5. ASSUME NEW i \in 1..ItemCount PROVE s[i] \in SampleType
  <2>1. i \in 1..Len(rawFrame.words)
    BY <1>1, <1>3, <1>9
  <2>2. rawFrame.words[i] \in WordType
    BY <1>1, <2>1
  <2>3. \A w \in WordType : WordSample(w) \in SampleType
    <3>1. ASSUME NEW w \in Nat PROVE WordSample(w) \in SampleType
      BY DEF WordSample, SampleType
    <3>2. WordType \subseteq Nat
      BY DEF WordType
    <3> QED BY <3>1, <3>2
  <2>4. s[i] = WordSample(rawFrame.words[i])
    OBVIOUS
  <2> QED BY <2>2, <2>3, <2>4
<1>6. SamplesOf(aget) = Kept(s, KeepAget(aget))
  BY DEF SamplesOf, KeepAget
<1> HIDE DEF s
<1>7. KeepsOnly(SampleType, s, KeepAget(aget), Len(s))
  BY <1>4, <1>5 DEF KeepsOnly
<1>8. Holding(SampleType, Kept(s, KeepAget(aget)), s, KeepAget(aget), Len(s))
  BY <1>4, <1>7, LoopResult
<1> QED BY <1>4, <1>6, <1>8 DEF s

SampleAt(aget, tb, channel) ==
  IF IndexOf(tb, channel) <= Len(SamplesOf(aget)) THEN SamplesOf(aget)[IndexOf(tb, channel)]
  ELSE 0

LEMMA ItemAtIs ==
  ASSUME NEW n
  PROVE  ItemAt(n) = Item(AgetOf(n), ChannelOf(n), TbOf(n),
                          SampleAt(AgetOf(n), TbOf(n), ChannelOf(n)))
  BY DEF ItemAt, AgetOf, TbOf, ChannelOf, SampleAt

LEMMA SampleAtType ==
  ASSUME rawFrame \in RawFrames, ItemsRead, IsFull,
         NEW aget, NEW channel \in 0..(NumChannels - 1), NEW tb \in 0..(NumTbs - 1)
  PROVE  SampleAt(aget, tb, channel) \in SampleType /\ IndexOf(tb, channel) \in 1..ArrayLength
<1>1. SamplesOf(aget) \in Seq(SampleType)
  BY SamplesHeld DEF Holding
<1>2. IndexOf(tb, channel) \in 1..ArrayLength
  <2>1. tb * NumChannels + channel \in Nat /\ tb * NumChannels + channel < ArrayLength
    BY NumberTaken
  <2>2. IndexOf(tb, channel) = (tb * NumChannels + channel) + 1
    BY DEF IndexOf
  <2>3. \A x \in Nat : x < ArrayLength => x + 1 \in 1..ArrayLength
    BY LayoutNumbers
  <2> QED BY <2>1, <2>2, <2>3
<1>3. 0 \in SampleType
  BY DEF SampleType
<1>4. CASE IndexOf(tb, channel) <= Len(SamplesOf(aget))
  <2>1. IndexOf(tb, channel) \in 1..Len(SamplesOf(aget))
    <3>1. Len(SamplesOf(aget)) \in Nat
      BY <1>1
    <3> QED BY <1>2, <1>4, <3>1
  <2> QED BY <1>1, <1>2, <1>4, <2>1 DEF SampleAt
<1>5. CASE ~(IndexOf(tb, channel) <= Len(SamplesOf(aget)))
  BY <1>2, <1>3, <1>5 DEF SampleAt
<1> QED BY <1>4, <1>5

LEMMA FullTypes ==
  ASSUME rawFrame \in RawFrames, ItemsRead, IsFull,
         NEW n \in 0..(NumAgets * ArrayLength - 1)
  PROVE  ItemAt(n) \in DataType
<1> DEFINE a == AgetOf(n)
           tb == TbOf(n)
           c == ChannelOf(n)
           x == SampleAt(a, tb, c)
<1>1. a \in 0..(NumAgets - 1) /\ tb \in 0..(NumTbs - 1) /\ c \in 0..(NumChannels - 1)
  BY NumberGiven
<1>2. x \in 0..4095
  <2> HIDE DEF a, tb, c
  <2> QED BY <1>1, SampleAtType DEF SampleType
<1>3. ItemAt(n) = Item(a, c, tb, x)
  BY ItemAtIs
<1> HIDE DEF a, tb, c, x
<1> QED BY <1>1, <1>2, <1>3 DEF Item, DataType

(* Every item, of either readout, is one that AppendFrame can store. *)
THEOREM TypeCorrect ==
  Spec => []TypeOK
<1>1. ReadInv => TypeOK
  <2> SUFFICES ASSUME ReadInv PROVE \A i \in DOMAIN data : data[i] \in DataType
    BY DEF ReadInv, TypeOK
  <2>1. CASE data = <<>>
    BY <2>1
  <2>2. CASE phase = "done" /\ IsPartial
    <3>1. CASE ItemsInside
      <4>1. rawFrame \in RawFrames /\ HeaderRead /\ nItems \in Nat /\ data = PartialData
        BY <2>2, <3>1 DEF ReadInv
      <4>2. data \in Seq(DataType)
        BY <2>2, <3>1, <4>1, InsideRead, PartialPlaces
      <4> QED BY <4>2
    <3>2. CASE ~ItemsInside
      <4>1. data \in Strays
        BY <2>2, <3>2 DEF ReadInv
      <4>2. data \in Seq(DataType)
        <5>1. Strays \subseteq Seq(DataType)
          BY GRAWFrameAssumption
        <5> QED BY <4>1, <5>1
      <4> QED BY <4>2
    <3> QED BY <3>1, <3>2
  <2>3. CASE phase = "done" /\ IsFull
    <3>0. /\ rawFrame \in RawFrames /\ HeaderRead /\ nItems \in Nat /\ ItemsInside
          /\ data = FullData
      BY <2>3 DEF ReadInv
    <3>1. rawFrame \in RawFrames /\ ItemsRead /\ data = FullData
      BY <2>3, <3>0, InsideRead
    <3>2. ASSUME NEW i \in DOMAIN data PROVE data[i] \in DataType
      <4>1. i \in 1..(NumAgets * ArrayLength) /\ data[i] = ItemAt(i - 1)
        BY <3>1 DEF FullData
      <4>2. NumAgets * ArrayLength \in Nat
        BY LayoutNumbers
      <4>3. i - 1 \in 0..(NumAgets * ArrayLength - 1)
        BY <4>1, <4>2
      <4> QED BY <2>3, <3>1, <4>1, <4>3, FullTypes
    <3> QED BY <3>2
  <2> QED BY <2>1, <2>2, <2>3 DEF ReadInv
<1> QED BY <1>1, ReadInvariant, PTL

LEMMA ItemFields ==
  ASSUME NEW item \in ItemType
  PROVE  /\ item.agetId \in 0..3 /\ item.sample \in 0..4095
         /\ item.channel \in Nat /\ item.timeBucketId \in Nat
  BY SMTT(30) DEF ItemType

LEMMA FullWordRead ==
  ASSUME NEW item \in ItemType
  PROVE  WordAget(FullWord(item)) = item.agetId /\ WordSample(FullWord(item)) = item.sample
<1> DEFINE a == item.agetId
           x == item.sample
<1>1. a \in 0..3 /\ x \in 0..4095 /\ FullWord(item) = a * 16384 + x
  BY ItemFields DEF FullWord
<1> HIDE DEF a, x
<1>2. (a * 16384 + x) \div 16384 = a
  BY <1>1
<1>3. (a * 16384 + x) % 4096 = x
  <2> DEFINE q == a * 4
  <2>1. a * 16384 + x = 4096 * q + x /\ q \in Nat
    BY <1>1
  <2> HIDE DEF q
  <2>2. (4096 * q + x) % 4096 = x
    BY <1>1, <2>1
  <2> QED BY <2>1, <2>2
<1> QED BY <1>1, <1>2, <1>3 DEF WordAget, WordSample, a, x

(* The items of an intact full readout are all those that were written. *)
LEMMA FullInside ==
  ASSUME rawFrame \in RawFrames, itemSize = ItemSize, nItems = NumberRead, IsFull,
         rawFrame.damage = "none"
  PROVE  ItemsInside /\ ItemCount = Len(Written)
<1>1. Holds(rawFrame, 2 * Len(Written)) /\ rawFrame.nItems = Len(Written)
  BY WrittenAssumption DEF Written, IsFull
<1>2. ItemSize = 2
  BY DEF IsFull, ItemSize, PartialReadout, FullReadout
<1> QED BY <1>1, <1>2, NumberWritten

(* What an intact full readout was made of. *)
LEMMA FullWritten ==
  ASSUME rawFrame \in RawFrames, ItemsRead, IsFull, rawFrame.damage = "none"
  PROVE  /\ ItemCount = Len(Written) /\ DOMAIN Written = 1..ItemCount
         /\ \A i \in 1..ItemCount :
              /\ WordAget(rawFrame.words[i]) = Written[i].agetId
              /\ WordSample(rawFrame.words[i]) = Written[i].sample
              /\ Written[i].channel \in 0..(NumChannels - 1)
              /\ Written[i].timeBucketId \in 0..(NumTbs - 1)
              /\ Rank(KeepAget(Written[i].agetId), i)
                   = IndexOf(Written[i].timeBucketId, Written[i].channel)
<1>1. Written \in Seq(ItemType) /\ Len(Written) \in Nat /\ DOMAIN Written = 1..Len(Written)
  BY RawTypes DEF Written
<1>8. \A i \in 1..Len(Written) :
        /\ rawFrame.words[i] = FullWord(Written[i])
        /\ Written[i].channel < NumChannels /\ Written[i].timeBucketId < NumTbs
  <2>1. \A i \in DOMAIN Written :
          /\ rawFrame.words[i] = FullWord(Written[i])
          /\ Written[i].channel < NumChannels /\ Written[i].timeBucketId < NumTbs
    BY WrittenAssumption DEF Written, IsFull
  <2> QED BY <1>1, <2>1
<1>9. \A i \in 1..Len(Written) :
        Cardinality({j \in 1..i : Written[j].agetId = Written[i].agetId})
          = Written[i].timeBucketId * NumChannels + Written[i].channel + 1
  <2>1. \A i \in DOMAIN Written :
          Cardinality({j \in 1..i : Written[j].agetId = Written[i].agetId})
            = Written[i].timeBucketId * NumChannels + Written[i].channel + 1
    BY WrittenAssumption DEF Written, IsFull
  <2> QED BY <1>1, <2>1
<1>4. ItemCount = Len(Written)
  BY FullInside DEF ItemsRead
<1>5. ASSUME NEW i \in 1..ItemCount
      PROVE  /\ Written[i] \in ItemType
             /\ WordAget(rawFrame.words[i]) = Written[i].agetId
             /\ WordSample(rawFrame.words[i]) = Written[i].sample
  <2>1. Written[i] \in ItemType /\ rawFrame.words[i] = FullWord(Written[i])
    BY <1>1, <1>4, <1>8
  <2> QED BY <2>1, FullWordRead
<1>6. ASSUME NEW i \in 1..ItemCount
      PROVE  /\ Written[i].channel \in 0..(NumChannels - 1)
             /\ Written[i].timeBucketId \in 0..(NumTbs - 1)
  <2> DEFINE c == Written[i].channel
             tb == Written[i].timeBucketId
  <2>1. c < NumChannels /\ tb < NumTbs
    BY <1>4, <1>8
  <2>2. c \in Nat /\ tb \in Nat
    BY <1>5, ItemFields
  <2> HIDE DEF c, tb
  <2>3. c \in 0..(NumChannels - 1) /\ tb \in 0..(NumTbs - 1)
    BY <2>1, <2>2, Layout
  <2> QED BY <2>3 DEF c, tb
<1>7. ASSUME NEW i \in 1..ItemCount
      PROVE  Rank(KeepAget(Written[i].agetId), i)
               = IndexOf(Written[i].timeBucketId, Written[i].channel)
  <2>1. \A j \in 1..i : j \in 1..ItemCount
    BY <1>1, <1>4
  <2>2. \A j \in 1..i : j \in KeepAget(Written[i].agetId)
                          <=> Written[j].agetId = Written[i].agetId
    BY <1>5, <2>1 DEF KeepAget
  <2>3. {j \in 1..i : j \in KeepAget(Written[i].agetId)}
          = {j \in 1..i : Written[j].agetId = Written[i].agetId}
    BY <2>2
  <2> QED BY <1>4, <1>9, <2>3 DEF Rank, IndexOf
<1> QED BY <1>1, <1>4, <1>5, <1>6, <1>7

LEMMA IndexUnique ==
  ASSUME NEW c \in 0..(NumChannels - 1), NEW tb \in 0..(NumTbs - 1),
         NEW d \in 0..(NumChannels - 1), NEW tc \in 0..(NumTbs - 1),
         IndexOf(tb, c) = IndexOf(tc, d)
  PROVE  tb = tc /\ c = d
<1> DEFINE r == tb * NumChannels + c
           q == tc * NumChannels + d
<1>1. /\ r \in Nat /\ TbOf(NumberOf(0, tb, c)) = tb /\ ChannelOf(NumberOf(0, tb, c)) = c
      /\ q \in Nat /\ TbOf(NumberOf(0, tc, d)) = tc /\ ChannelOf(NumberOf(0, tc, d)) = d
  BY NumberTaken
<1>2. r = q
  <2>1. r + 1 = q + 1
    BY DEF IndexOf
  <2>2. r \in Nat /\ q \in Nat
    BY <1>1
  <2> HIDE DEF r, q
  <2> QED BY <2>1, <2>2
<1>3. NumberOf(0, tb, c) = r /\ NumberOf(0, tc, d) = q
  <2>1. tb * NumChannels \in Nat /\ tc * NumChannels \in Nat /\ 0 * ArrayLength = 0
    BY LayoutNumbers
  <2> QED BY <2>1 DEF NumberOf
<1> QED BY <1>1, <1>2, <1>3

\* The written samples of this channel and time bucket.
WrittenAt(aget, tb, channel) ==
  {j \in DOMAIN Written : Written[j].agetId = aget
     /\ Written[j].channel = channel /\ Written[j].timeBucketId = tb}

(* The array of an AGET has room for its samples, and the one of a channel and *)
(* time bucket is where it is looked for, or none is there.                    *)
LEMMA SamplesInPlace ==
  ASSUME rawFrame \in RawFrames, ItemsRead, IsFull, rawFrame.damage = "none",
         NEW aget
  PROVE  /\ Len(SamplesOf(aget)) <= ArrayLength
         /\ \A channel \in 0..(NumChannels - 1), tb \in 0..(NumTbs - 1) :
              /\ \A j \in WrittenAt(aget, tb, channel) :
                   SampleAt(aget, tb, channel) = Written[j].sample
              /\ WrittenAt(aget, tb, channel) = {} => SampleAt(aget, tb, channel) = 0
<1> DEFINE k == SamplesOf(aget)
           keep == KeepAget(aget)
           s == [i \in 1..ItemCount |-> WordSample(rawFrame.words[i])]
<1>1. Holding(SampleType, k, s, keep, ItemCount)
  BY SamplesHeld
<1>2. /\ DOMAIN Written = 1..ItemCount
      /\ \A i \in 1..ItemCount :
           /\ WordAget(rawFrame.words[i]) = Written[i].agetId
           /\ WordSample(rawFrame.words[i]) = Written[i].sample
           /\ Written[i].channel \in 0..(NumChannels - 1)
           /\ Written[i].timeBucketId \in 0..(NumTbs - 1)
           /\ Rank(KeepAget(Written[i].agetId), i)
                = IndexOf(Written[i].timeBucketId, Written[i].channel)
  BY FullWritten
<1>3. \A i \in keep :
        /\ i \in 1..ItemCount /\ Written[i].agetId = aget
        /\ Rank(keep, i) = IndexOf(Written[i].timeBucketId, Written[i].channel)
  BY <1>2 DEF KeepAget
<1>4. \A i \in 1..ItemCount : Written[i].agetId = aget => i \in keep
  BY <1>2 DEF KeepAget
<1>5. \A i \in 1..ItemCount : s[i] = Written[i].sample
  BY <1>2
<1> HIDE DEF k, keep, s
<1>6. Len(k) \in Nat /\ DOMAIN k = 1..Len(k)
  BY <1>1 DEF Holding
<1>7. Len(k) <= ArrayLength
  <2>1. CASE Len(k) = 0
    BY <2>1, LayoutNumbers
  <2>2. CASE Len(k) # 0
    <3>1. Len(k) \in 1..Len(k)
      BY <1>6, <2>2
    <3>2. PICK i \in 1..ItemCount : i \in keep /\ Rank(keep, i) = Len(k)
      BY <1>1, <3>1 DEF Holding
    <3>3. Len(k) = IndexOf(Written[i].timeBucketId, Written[i].channel)
      BY <1>3, <3>2
    <3>4. IndexOf(Written[i].timeBucketId, Written[i].channel) \in 1..ArrayLength
      BY <1>2, SampleAtType
    <3> QED BY <3>3, <3>4, LayoutNumbers
  <2> QED BY <2>1, <2>2
<1>8. ASSUME NEW channel \in 0..(NumChannels - 1), NEW tb \in 0..(NumTbs - 1)
      PROVE  /\ \A j \in WrittenAt(aget, tb, channel) :
                   SampleAt(aget, tb, channel) = Written[j].sample
             /\ WrittenAt(aget, tb, channel) = {} => SampleAt(aget, tb, channel) = 0
  <2> DEFINE p == IndexOf(tb, channel)
  <2>0. p \in 1..ArrayLength
    BY SampleAtType
  <2>1. SampleAt(aget, tb, channel) = IF p <= Len(k) THEN k[p] ELSE 0
    BY DEF SampleAt, k
  <2>2. ASSUME NEW j \in WrittenAt(aget, tb, channel)
        PROVE  SampleAt(aget, tb, channel) = Written[j].sample
    <3>1. /\ j \in 1..ItemCount /\ Written[j].agetId = aget
          /\ Written[j].channel = channel /\ Written[j].timeBucketId = tb
      BY <1>2 DEF WrittenAt
    <3>2. j \in keep /\ Rank(keep, j) = p
      BY <1>3, <1>4, <3>1
    <3>3. p \in 1..Len(k) /\ k[p] = s[j]
      BY <1>1, <3>1, <3>2 DEF Holding
    <3> HIDE DEF p
    <3>4. p <= Len(k)
      BY <1>6, <3>3
    <3> QED BY <1>5, <2>1, <3>1, <3>3, <3>4
  <2>3. ASSUME p <= Len(k) PROVE WrittenAt(aget, tb, channel) # {}
    <3>1. p \in 1..Len(k)
      <4> HIDE DEF p
      <4> QED BY <1>6, <2>0, <2>3
    <3>2. PICK i \in 1..ItemCount : i \in keep /\ Rank(keep, i) = p
      BY <1>1, <3>1 DEF Holding
    <3>3. p = IndexOf(Written[i].timeBucketId, Written[i].channel) /\ Written[i].agetId = aget
      BY <1>3, <3>2
    <3>4. Written[i].channel \in 0..(NumChannels - 1)
          /\ Written[i].timeBucketId \in 0..(NumTbs - 1)
      BY <1>2
    <3>5. Written[i].timeBucketId = tb /\ Written[i].channel = channel
      BY <3>3, <3>4, IndexUnique
    <3>6. i \in WrittenAt(aget, tb, channel)
      BY <1>2, <3>3, <3>5 DEF WrittenAt
    <3> QED BY <3>6
  <2> HIDE DEF p
  <2> QED BY <2>1, <2>2, <2>3
<1> QED BY <1>7, <1>8 DEF k

(* There is one item for an AGET, channel and time bucket: the one whose       *)
(* number is made of them.                                                     *)
LEMMA ItemOf ==
  ASSUME data = FullData, NEW aget \in 0..(NumAgets - 1),
         NEW channel \in 0..(NumChannels - 1), NEW tb \in 0..(NumTbs - 1)
  PROVE  LET at == NumberOf(aget, tb, channel) + 1
         IN  /\ at \in DOMAIN data
             /\ data[at] = Item(aget, channel, tb, SampleAt(aget, tb, channel))
             /\ {i \in DOMAIN data : data[i].agetId = aget /\ data[i].channel = channel
                                     /\ data[i].timeBucketId = tb} = {at}
<1> DEFINE m == NumberOf(aget, tb, channel)
           N == NumAgets * ArrayLength
<1>1. DOMAIN data = 1..N /\ \A i \in 1..N : data[i] = ItemAt(i - 1)
  BY DEF FullData
<1>2. /\ m \in Nat /\ AgetOf(m) = aget /\ TbOf(m) = tb /\ ChannelOf(m) = channel
      /\ tb * NumChannels + channel \in Nat /\ tb * NumChannels + channel < ArrayLength
  BY NumberTaken
<1>3. N \in Nat /\ m < N
  <2> DEFINE L == ArrayLength
             A == NumAgets
             r == tb * NumChannels + channel
  <2>1. L \in Nat \ {0} /\ A \in Nat \ {0}
    BY LayoutNumbers
  <2>2. aget \in Nat /\ aget + 1 <= A /\ r \in Nat /\ r < L
    BY <1>2, <2>1
  <2>3. m = aget * L + r
    <3>1. aget * L \in Nat /\ tb * NumChannels \in Nat
      BY LayoutNumbers
    <3> QED BY <3>1 DEF NumberOf
  <2> HIDE DEF L, A, r, m
  <2>4. (aget + 1) * L <= A * L /\ (aget + 1) * L = aget * L + L /\ A * L \in Nat
    BY <2>1, <2>2
  <2>5. aget * L \in Nat
    BY <2>1, <2>2
  <2>6. m < A * L
    BY <2>1, <2>2, <2>3, <2>4, <2>5
  <2> QED BY <2>4, <2>6 DEF A, L
<1> HIDE DEF m, N
<1>4. m + 1 \in 1..N /\ (m + 1) - 1 = m
  BY <1>2, <1>3
<1>5. data[m + 1] = Item(aget, channel, tb, SampleAt(aget, tb, channel))
  <2>1. data[m + 1] = ItemAt(m)
    BY <1>1, <1>4
  <2> QED BY <1>2, <2>1, ItemAtIs
<1>6. ASSUME NEW i \in 1..N, data[i].agetId = aget, data[i].channel = channel,
             data[i].timeBucketId = tb
      PROVE  i = m + 1
  <2>1. i - 1 \in 0..(N - 1)
    BY <1>3
  <2>2. data[i] = Item(AgetOf(i - 1), ChannelOf(i - 1), TbOf(i - 1),
                       SampleAt(AgetOf(i - 1), TbOf(i - 1), ChannelOf(i - 1)))
    BY <1>1, ItemAtIs
  <2>3. AgetOf(i - 1) = aget /\ ChannelOf(i - 1) = channel /\ TbOf(i - 1) = tb
    BY <1>6, <2>2 DEF Item
  <2>4. i - 1 = NumberOf(AgetOf(i - 1), TbOf(i - 1), ChannelOf(i - 1))
    BY <2>1, NumberGiven DEF N
  <2>5. i - 1 = m
    BY <2>3, <2>4 DEF m
  <2> QED BY <1>3, <2>5
<1>7. data[m + 1].agetId = aget /\ data[m + 1].channel = channel /\ data[m + 1].timeBucketId = tb
  BY <1>5 DEF Item
<1> QED BY <1>1, <1>4, <1>5, <1>6, <1>7 DEF m

(* Each channel and time bucket of an intact full readout gets one item, with  *)
(* its sample or 0: the samples of an AGET fit its array, the loop leaves each *)
(* where its channel and time bucket look for it, and the numbering of the     *)
(* items misses and repeats none.                                              *)
THEOREM FullReadoutInPlaceCorrect ==
  Spec => []FullReadoutInPlace
<1>1. ReadInv => FullReadoutInPlace
  <2> SUFFICES ASSUME ReadInv, phase \in {"done", "threw"}, IsFull, rawFrame.damage = "none",
                      NEW aget \in 0..(NumAgets - 1), NEW channel \in 0..(NumChannels - 1),
                      NEW tb \in 0..(NumTbs - 1)
      PROVE  LET found == {i \in DOMAIN data : data[i].agetId = aget
                             /\ data[i].channel = channel /\ data[i].timeBucketId = tb}
                 samples == {Written[i].sample : i \in WrittenAt(aget, tb, channel)}
             IN  /\ Cardinality(found) = 1
                 /\ {data[i].sample : i \in found} = IF samples = {} THEN {0} ELSE samples
    BY DEF FullReadoutInPlace, WrittenAt
  <2>10. rawFrame \in RawFrames /\ HeaderRead /\ nItems \in Nat
    BY DEF ReadInv
  <2>11. ItemsInside
    BY <2>10, FullInside DEF HeaderRead
  <2>1. rawFrame \in RawFrames /\ ItemsRead
    BY <2>10, <2>11, InsideRead
  <2>2. \A a : Len(SamplesOf(a)) <= ArrayLength /\ Len(SamplesOf(a)) \in Nat
    <3>1. \A a : SamplesOf(a) \in Seq(SampleType)
      BY <2>1, SamplesHeld DEF Holding
    <3> QED BY <2>1, <3>1, SamplesInPlace
  <2>3. ~Overflows
    BY <2>2, LayoutNumbers DEF Overflows
  <2>4. data = FullData
    BY <2>3, <2>11 DEF ReadInv
  <2> DEFINE at == NumberOf(aget, tb, channel) + 1
             found == {i \in DOMAIN data : data[i].agetId = aget
                         /\ data[i].channel = channel /\ data[i].timeBucketId = tb}
             W == WrittenAt(aget, tb, channel)
             samples == {Written[i].sample : i \in W}
             x == SampleAt(aget, tb, channel)
  <2>5. found = {at} /\ data[at].sample = x
    <3>1. found = {at} /\ data[at] = Item(aget, channel, tb, x)
      BY <2>4, ItemOf
    <3> QED BY <3>1 DEF Item
  <2>6. (\A j \in W : x = Written[j].sample) /\ (W = {} => x = 0)
    BY <2>1, SamplesInPlace
  <2> HIDE DEF at, found, W, x
  <2>7. Cardinality(found) = 1
    BY <2>5, FS_Singleton
  <2>8. {data[i].sample : i \in found} = {x}
    BY <2>5
  <2>9. {x} = IF samples = {} THEN {0} ELSE samples
    <3>1. CASE W = {}
      BY <2>6, <3>1
    <3>2. CASE W # {}
      <4>1. samples = {x}
        BY <2>6, <3>2
      <4> QED BY <4>1
    <3> QED BY <3>1, <3>2
  <2> QED BY <2>7, <2>8, <2>9 DEF found, W
<1> QED BY <1>1, ReadInvariant, PTL
=============================================================================
