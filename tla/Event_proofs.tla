------------------------------ MODULE Event_proofs ------------------------------
(***************************************************************************)
(* Proofs about the traces of an event, for every sequence of frames, every *)
(* lookup table and every layout of the electronics.                       *)
(***************************************************************************)
EXTENDS Event, WellFoundedInduction, TLAPS

-----------------------------------------------------------------------------
(* The loops *)

(* Every nonempty set of natural numbers has a least element. *)
LEMMA LeastOf ==
  ASSUME NEW S, S \subseteq Nat, S # {}
  PROVE  \E m \in S : \A k \in S : m <= k
<1>1. PICK m \in S : \A k \in S : ~(<<k, m>> \in OpToRel(<, Nat))
  BY WFMin, NatLessThanWellFounded
<1>2. ASSUME NEW k \in S, k < m PROVE <<k, m>> \in OpToRel(<, Nat)
  BY <1>2 DEF OpToRel
<1>3. m \in Nat /\ \A k \in S : k \in Nat /\ ~(k < m)
  BY <1>1, <1>2
<1>4. \A k \in S : m <= k
  BY <1>3
<1> QED BY <1>4

(* What holds before a loop of N steps and is kept by each step holds at   *)
(* its end.                                                                *)
LEMMA AfterEveryStep ==
  ASSUME NEW N \in Nat, NEW T, 0 \in T, \A n \in 0..N : n < N /\ n \in T => n + 1 \in T
  PROVE  0..N \subseteq T
<1> DEFINE S == (0..N) \ T
<1>1. SUFFICES ASSUME S # {} PROVE FALSE
  OBVIOUS
<1>2. PICK m \in S : \A k \in S : m <= k
  <2>1. S \subseteq Nat
    OBVIOUS
  <2> HIDE DEF S
  <2> QED BY <1>1, <2>1, LeastOf
<1>3. m \in 0..N /\ m \notin T /\ m # 0
  BY <1>2
<1>4. m - 1 \in 0..N /\ m - 1 < N /\ ~(m <= m - 1) /\ (m - 1) + 1 = m
  BY <1>3
<1>5. m - 1 \in T
  BY <1>2, <1>4
<1> QED BY <1>3, <1>4, <1>5

\* f has the values of the first m steps of a loop.
Records(f, m, S, init, step) ==
  /\ f \in [0..m -> S] /\ f[0] = init
  /\ \A n \in 1..m : f[n] = step[n][f[n - 1]]

IsLoop(N, S, init, step) == init \in S /\ step \in [1..N -> [S -> S]]

(* There is a function that has the values of all steps. *)
LEMMA Recursion ==
  ASSUME NEW N \in Nat, NEW S, NEW init, NEW step, IsLoop(N, S, init, step)
  PROVE  \E f : Records(f, N, S, init, step)
<1> USE DEF IsLoop
<1> DEFINE T == {m \in 0..N : \E f : Records(f, m, S, init, step)}
<1>1. 0 \in T
  <2>1. Records([n \in 0..0 |-> init], 0, S, init, step)
    BY DEF Records
  <2>2. 0 \in 0..N
    OBVIOUS
  <2> QED BY <2>1, <2>2
<1>2. ASSUME NEW m \in 0..N, m < N, m \in T PROVE m + 1 \in T
  <2>1. PICK f : Records(f, m, S, init, step)
    BY <1>2
  <2> DEFINE g == [n \in 0..(m + 1) |-> IF n = m + 1 THEN step[m + 1][f[m]] ELSE f[n]]
  <2>2. f[m] \in S /\ m + 1 \in 1..N
    BY <1>2, <2>1 DEF Records
  <2>3. step[m + 1][f[m]] \in S
    BY <2>2
  <2>4. g \in [0..(m + 1) -> S] /\ g[0] = init
    <3>1. \A n \in 0..(m + 1) : n # m + 1 => n \in 0..m
      OBVIOUS
    <3>2. 0 # m + 1 /\ 0 \in 0..(m + 1)
      OBVIOUS
    <3> QED BY <2>1, <2>3, <3>1, <3>2 DEF Records
  <2>5. ASSUME NEW n \in 1..(m + 1) PROVE g[n] = step[n][g[n - 1]]
    <3>1. n \in 0..(m + 1) /\ n - 1 \in 0..(m + 1) /\ n - 1 # m + 1
      OBVIOUS
    <3>2. g[n - 1] = f[n - 1]
      BY <3>1
    <3>3. CASE n = m + 1
      <4>1. g[n] = step[m + 1][f[m]] /\ n - 1 = m
        BY <3>3
      <4> HIDE DEF g
      <4> QED BY <3>2, <3>3, <4>1
    <3>4. CASE n # m + 1
      <4>1. n \in 1..m /\ g[n] = f[n]
        BY <3>1, <3>4
      <4> HIDE DEF g
      <4> QED BY <2>1, <3>2, <4>1 DEF Records
    <3> QED BY <3>3, <3>4
  <2>6. Records(g, m + 1, S, init, step)
    <3> HIDE DEF g
    <3> QED BY <2>4, <2>5 DEF Records
  <2> QED BY <1>2, <2>6
<1>3. 0..N \subseteq T
  <2> HIDE DEF T
  <2> QED BY <1>1, <1>2, AfterEveryStep
<1>4. N \in T
  BY <1>3
<1> QED BY <1>4

-----------------------------------------------------------------------------
(* Sums *)

LEMMA SumSteps ==
  ASSUME NEW N \in Nat, NEW terms \in [1..N -> Int], Len(terms) = N
  PROVE  /\ SumUpTo(terms) \in [0..N -> Int] /\ SumUpTo(terms)[0] = 0
         /\ \A n \in 1..N : SumUpTo(terms)[n] = SumUpTo(terms)[n - 1] + terms[n]
<1> DEFINE step == [n \in 1..N |-> [v \in Int |-> v + terms[n]]]
           Steps(f) == [n \in 0..Len(terms) |-> IF n = 0 THEN 0 ELSE f[n - 1] + terms[n]]
           F == SumUpTo(terms)
<1>1. IsLoop(N, Int, 0, step)
  BY DEF IsLoop
<1>2. PICK p \in [0..N -> Int] : p[0] = 0 /\ \A n \in 1..N : p[n] = step[n][p[n - 1]]
  <2> HIDE DEF step
  <2>1. PICK p : Records(p, N, Int, 0, step)
    BY <1>1, Recursion
  <2> QED BY <2>1 DEF Records
<1>3. \A n \in 1..N : p[n] = p[n - 1] + terms[n]
  <2>1. \A n \in 1..N : n - 1 \in 0..N
    OBVIOUS
  <2>2. \A n \in 1..N : p[n - 1] \in Int
    BY <2>1
  <2>3. \A n \in 1..N : \A v \in Int : step[n][v] = v + terms[n]
    OBVIOUS
  <2> HIDE DEF step
  <2> QED BY <1>2, <2>2, <2>3
<1>4. p = Steps(p)
  <2>1. \A n \in 0..N : n = 0 \/ n \in 1..N
    OBVIOUS
  <2>2. \A n \in 0..N : p[n] = IF n = 0 THEN 0 ELSE p[n - 1] + terms[n]
    BY <1>2, <1>3, <2>1
  <2> QED BY <1>2, <2>2
<1>5. F = CHOOSE f : f = Steps(f)
  BY DEF SumUpTo
<1>6. F = Steps(F)
  <2> HIDE DEF Steps, F
  <2> QED BY <1>4, <1>5
<1> HIDE DEF F
<1>7. F[0] = 0
  BY <1>6
<1>8. \A n \in 1..N : F[n] = F[n - 1] + terms[n]
  BY <1>6
<1>9. \A n \in 0..N : F[n] \in Int
  <2> DEFINE T == {n \in 0..N : F[n] \in Int}
  <2>1. 0 \in T
    BY <1>7
  <2>2. ASSUME NEW n \in 0..N, n < N, n \in T PROVE n + 1 \in T
    <3>1. n + 1 \in 1..N /\ (n + 1) - 1 = n
      BY <2>2
    <3>2. F[n + 1] = F[n] + terms[n + 1]
      BY <1>8, <3>1
    <3> QED BY <2>2, <3>1, <3>2
  <2>3. 0..N \subseteq T
    <3> HIDE DEF T
    <3> QED BY <2>1, <2>2, AfterEveryStep
  <2> QED BY <2>3
<1>10. F \in [0..N -> Int]
  <2>1. F = [n \in 0..N |-> F[n]]
    BY <1>6
  <2> QED BY <1>9, <2>1
<1> QED BY <1>7, <1>8, <1>10 DEF F

\* These are nowhere less than those, which are not negative, and not all 0.
AtLeast(terms, ones, N) ==
  /\ terms \in [1..N -> Int] /\ ones \in [1..N -> Int] /\ Len(terms) = N /\ Len(ones) = N
  /\ \A n \in 1..N : terms[n] >= ones[n] /\ ones[n] >= 0
  /\ \E n \in 1..N : ones[n] > 0

(* Nor is then their sum.                                                  *)
LEMMA SumAtLeast ==
  ASSUME NEW N \in Nat, NEW terms, NEW ones, AtLeast(terms, ones, N)
  PROVE  /\ SumOf(terms) \in Int /\ SumOf(ones) \in Int /\ SumOf(terms) >= SumOf(ones)
         /\ SumOf(ones) > 0
<1> USE DEF AtLeast
<1> DEFINE F == SumUpTo(terms)
           G == SumUpTo(ones)
           Good(n) == F[n] >= G[n] /\ G[n] >= 0 /\ ((\E i \in 1..n : ones[i] > 0) => G[n] > 0)
           T == {n \in 0..N : Good(n)}
<1>1. /\ F \in [0..N -> Int] /\ F[0] = 0 /\ \A n \in 1..N : F[n] = F[n - 1] + terms[n]
      /\ G \in [0..N -> Int] /\ G[0] = 0 /\ \A n \in 1..N : G[n] = G[n - 1] + ones[n]
  BY SumSteps
<1> HIDE DEF F, G
<1>2. 0 \in T
  <2>1. 0 \in 0..N /\ 1..0 = {}
    OBVIOUS
  <2>2. Good(0)
    BY <1>1, <2>1
  <2> HIDE DEF Good
  <2> QED BY <2>1, <2>2
<1>3. ASSUME NEW n \in 0..N, n < N, n \in T PROVE n + 1 \in T
  <2>1. n + 1 \in 1..N /\ (n + 1) - 1 = n /\ n + 1 \in 0..N
    BY <1>3
  <2>2. F[n + 1] = F[n] + terms[n + 1] /\ G[n + 1] = G[n] + ones[n + 1]
    BY <1>1, <2>1
  <2>3. F[n] \in Int /\ G[n] \in Int /\ F[n] >= G[n] /\ G[n] >= 0
    BY <1>1, <1>3
  <2>4. terms[n + 1] >= ones[n + 1] /\ ones[n + 1] >= 0 /\ terms[n + 1] \in Int
        /\ ones[n + 1] \in Int
    BY <2>1
  <2>5. F[n + 1] >= G[n + 1] /\ G[n + 1] >= 0
    BY <2>2, <2>3, <2>4, SMTT(30)
  <2>6. ASSUME NEW i \in 1..(n + 1), ones[i] > 0 PROVE G[n + 1] > 0
    <3>1. CASE i = n + 1
      BY <2>2, <2>3, <2>4, <2>6, <3>1
    <3>2. CASE i # n + 1
      <4>1. i \in 1..n
        BY <3>2
      <4>2. G[n] > 0
        BY <1>3, <2>6, <4>1
      <4> QED BY <2>2, <2>3, <2>4, <4>2
    <3> QED BY <3>1, <3>2
  <2> QED BY <2>1, <2>5, <2>6
<1>4. 0..N \subseteq T
  <2> HIDE DEF T
  <2> QED BY <1>2, <1>3, AfterEveryStep
<1>5. Good(N)
  BY <1>4
<1> QED BY <1>1, <1>5 DEF SumOf, F, G

-----------------------------------------------------------------------------
(* Storing samples *)

TracesFor(D) == [D -> [TimeBuckets -> Int]]

\* These samples have a place in the traces of D.
HavePlace(samples, D) ==
  /\ Len(samples) \in Nat
  /\ \A n \in 1..Len(samples) :
       samples[n].addr \in D /\ samples[n].tb \in TimeBuckets /\ samples[n].sample \in Int

LEMMA StoreOne ==
  ASSUME NEW D, NEW traces \in TracesFor(D), NEW addr \in D, NEW tb \in TimeBuckets,
         NEW x \in Int, NEW item, item.addr = addr, item.tb = tb, item.sample = x
  PROVE  /\ StoreSample(traces, item) \in TracesFor(D)
         /\ \A a \in D, t \in TimeBuckets :
              StoreSample(traces, item)[a][t] = IF a = addr /\ t = tb THEN x ELSE traces[a][t]
  BY DEF TracesFor, StoreSample

LEMMA StoredSteps ==
  ASSUME NEW D, NEW traces \in TracesFor(D), NEW samples, HavePlace(samples, D)
  PROVE  /\ StoredUpTo(traces, samples) \in [0..Len(samples) -> TracesFor(D)]
         /\ StoredUpTo(traces, samples)[0] = traces
         /\ \A n \in 1..Len(samples) :
              StoredUpTo(traces, samples)[n]
                = StoreSample(StoredUpTo(traces, samples)[n - 1], samples[n])
<1> DEFINE N == Len(samples)
           S == TracesFor(D)
           step == [n \in 1..N |-> [v \in S |-> StoreSample(v, samples[n])]]
           Steps(f) == [n \in 0..N |-> IF n = 0 THEN traces
                                       ELSE StoreSample(f[n - 1], samples[n])]
           F == StoredUpTo(traces, samples)
<1>1. N \in Nat
  BY DEF HavePlace
<1>2. ASSUME NEW n \in 1..N, NEW v \in S PROVE StoreSample(v, samples[n]) \in S
  <2>1. samples[n].addr \in D /\ samples[n].tb \in TimeBuckets /\ samples[n].sample \in Int
    BY DEF HavePlace
  <2> QED BY <2>1, StoreOne
<1> HIDE DEF N, S
<1>3. IsLoop(N, S, traces, step)
  BY <1>2 DEF IsLoop, S
<1>4. PICK p \in [0..N -> S] : p[0] = traces /\ \A n \in 1..N : p[n] = step[n][p[n - 1]]
  <2> HIDE DEF step
  <2>1. PICK p : Records(p, N, S, traces, step)
    BY <1>1, <1>3, Recursion
  <2> QED BY <2>1 DEF Records
<1>5. \A n \in 1..N : p[n] = StoreSample(p[n - 1], samples[n])
  <2>1. \A n \in 1..N : p[n - 1] \in S
    <3>1. \A n \in 1..N : n - 1 \in 0..N
      BY <1>1
    <3> QED BY <3>1
  <2>2. \A n \in 1..N : \A v \in S : step[n][v] = StoreSample(v, samples[n])
    OBVIOUS
  <2> HIDE DEF step
  <2> QED BY <1>4, <2>1, <2>2
<1>6. p = Steps(p)
  <2>1. \A n \in 0..N : n = 0 \/ n \in 1..N
    BY <1>1
  <2>2. \A n \in 0..N : p[n] = IF n = 0 THEN traces ELSE StoreSample(p[n - 1], samples[n])
    BY <1>4, <1>5, <2>1
  <2> QED BY <2>2
<1>7. F = CHOOSE f : f = Steps(f)
  BY DEF StoredUpTo, N
<1>8. F = Steps(F)
  <2> HIDE DEF Steps, F
  <2> QED BY <1>6, <1>7
<1> HIDE DEF F
<1>9. F[0] = traces /\ \A n \in 1..N : F[n] = StoreSample(F[n - 1], samples[n])
  <2>1. 0 \in 0..N /\ \A n \in 1..N : n \in 0..N /\ n # 0
    BY <1>1
  <2> QED BY <1>8, <2>1
<1>10. \A n \in 0..N : F[n] \in S
  <2> DEFINE T == {n \in 0..N : F[n] \in S}
  <2>1. 0 \in T
    BY <1>1, <1>9 DEF S
  <2>2. ASSUME NEW n \in 0..N, n < N, n \in T PROVE n + 1 \in T
    <3>1. n + 1 \in 1..N /\ (n + 1) - 1 = n /\ n + 1 \in 0..N
      BY <1>1, <2>2
    <3>2. F[n + 1] = StoreSample(F[n], samples[n + 1])
      BY <1>9, <3>1
    <3> QED BY <1>2, <2>2, <3>1, <3>2
  <2>3. 0..N \subseteq T
    <3> HIDE DEF T
    <3> QED BY <1>1, <2>1, <2>2, AfterEveryStep
  <2> QED BY <2>3
<1>11. F \in [0..N -> S]
  <2>1. F = [n \in 0..N |-> F[n]]
    BY <1>8
  <2> QED BY <1>10, <2>1
<1> QED BY <1>9, <1>11 DEF F, N, S

\* This is a sample for the element tb of the trace of addr.
SampleFor(item, addr, tb) == item.addr = addr /\ item.tb = tb

(* An element of a trace has the last of the samples stored for it, and is *)
(* as it was if there is none.                                             *)
LEMMA StoredLast ==
  ASSUME NEW D, NEW traces \in TracesFor(D), NEW samples, HavePlace(samples, D),
         NEW addr \in D, NEW tb \in TimeBuckets
  PROVE  /\ StoreSamples(traces, samples) \in TracesFor(D)
         /\ \A i \in 1..Len(samples) :
              /\ SampleFor(samples[i], addr, tb)
              /\ \A j \in 1..Len(samples) : j > i => ~SampleFor(samples[j], addr, tb)
              => StoreSamples(traces, samples)[addr][tb] = samples[i].sample
         /\ (\A i \in 1..Len(samples) : ~SampleFor(samples[i], addr, tb))
              => StoreSamples(traces, samples)[addr][tb] = traces[addr][tb]
<1> DEFINE N == Len(samples)
           F == StoredUpTo(traces, samples)
           Hit(i) == SampleFor(samples[i], addr, tb)
           LastHit(n) == \A i \in 1..n :
                           Hit(i) /\ (\A j \in 1..n : j > i => ~Hit(j))
                             => F[n][addr][tb] = samples[i].sample
           NoHit(n) == (\A i \in 1..n : ~Hit(i)) => F[n][addr][tb] = traces[addr][tb]
           T == {n \in 0..N : LastHit(n) /\ NoHit(n)}
<1>1. N \in Nat
  BY DEF HavePlace
<1>2. /\ F \in [0..N -> TracesFor(D)] /\ F[0] = traces
      /\ \A n \in 1..N : F[n] = StoreSample(F[n - 1], samples[n])
  BY StoredSteps
<1>3. \A n \in 1..N : samples[n].addr \in D /\ samples[n].tb \in TimeBuckets
                      /\ samples[n].sample \in Int
  BY DEF HavePlace
<1> HIDE DEF N, F
<1>4. 0 \in T
  BY <1>1, <1>2
<1>5. ASSUME NEW n \in 0..N, n < N, n \in T PROVE n + 1 \in T
  <2>1. n + 1 \in 1..N /\ (n + 1) - 1 = n /\ n + 1 \in 0..N
    BY <1>1, <1>5
  <2>2. F[n + 1] = StoreSample(F[n], samples[n + 1]) /\ F[n] \in TracesFor(D)
    BY <1>2, <2>1
  <2>3. F[n + 1][addr][tb] = IF Hit(n + 1) THEN samples[n + 1].sample ELSE F[n][addr][tb]
    <3> DEFINE item == samples[n + 1]
    <3>1. item.addr \in D /\ item.tb \in TimeBuckets /\ item.sample \in Int
      BY <1>3, <2>1
    <3> HIDE DEF item
    <3>2. StoreSample(F[n], item)[addr][tb]
            = IF addr = item.addr /\ tb = item.tb THEN item.sample ELSE F[n][addr][tb]
      BY <2>2, <3>1, StoreOne
    <3> QED BY <2>2, <3>2 DEF item, SampleFor
  <2> HIDE DEF Hit
  <2>4. LastHit(n + 1)
    <3> SUFFICES ASSUME NEW i \in 1..(n + 1), Hit(i), \A j \in 1..(n + 1) : j > i => ~Hit(j)
                 PROVE  F[n + 1][addr][tb] = samples[i].sample
      OBVIOUS
    <3>1. CASE i = n + 1
      BY <2>3, <3>1
    <3>2. CASE i # n + 1
      <4>1. i \in 1..n /\ n + 1 > i /\ n + 1 \in 1..(n + 1)
        BY <3>2
      <4>2. ~Hit(n + 1) /\ \A j \in 1..n : j > i => ~Hit(j)
        BY <4>1
      <4>3. F[n][addr][tb] = samples[i].sample
        BY <1>5, <4>1, <4>2
      <4> QED BY <2>3, <4>2, <4>3
    <3> QED BY <3>1, <3>2
  <2>5. NoHit(n + 1)
    <3> SUFFICES ASSUME \A i \in 1..(n + 1) : ~Hit(i)
                 PROVE  F[n + 1][addr][tb] = traces[addr][tb]
      OBVIOUS
    <3>1. n + 1 \in 1..(n + 1) /\ \A i \in 1..n : i \in 1..(n + 1)
      OBVIOUS
    <3>2. ~Hit(n + 1) /\ \A i \in 1..n : ~Hit(i)
      BY <3>1
    <3>3. F[n][addr][tb] = traces[addr][tb]
      BY <1>5, <3>2
    <3> QED BY <2>3, <3>2, <3>3
  <2> HIDE DEF LastHit, NoHit
  <2> QED BY <2>1, <2>4, <2>5
<1>6. 0..N \subseteq T
  <2> HIDE DEF T
  <2> QED BY <1>1, <1>4, <1>5, AfterEveryStep
<1>7. LastHit(N) /\ NoHit(N)
  <2> HIDE DEF LastHit, NoHit
  <2>1. N \in 0..N
    BY <1>1
  <2> QED BY <1>6, <2>1
<1>8. StoreSamples(traces, samples) = F[N] /\ F[N] \in TracesFor(D)
  <2>1. N \in 0..N
    BY <1>1
  <2> QED BY <1>2, <2>1 DEF StoreSamples, F, N
<1> QED BY <1>7, <1>8 DEF N

-----------------------------------------------------------------------------
(* The traces of an event *)

(* The samples of a frame are a sequence of samples. *)
LEMMA FrameSamples ==
  ASSUME NEW frame \in Frames
  PROVE  /\ Len(Samples(frame)) \in Nat /\ DOMAIN Samples(frame) = 1..Len(Samples(frame))
         /\ \A k \in 1..Len(Samples(frame)) : Samples(frame)[k] \in SampleType
  BY FramesAssumption

LEMMA SamplesPlaced ==
  ASSUME NEW frame \in Frames, NEW D, AddressesOf(frame) \subseteq D
  PROVE  HavePlace(Samples(frame), D)
<1> DEFINE s == Samples(frame)
<1>1. Len(s) \in Nat /\ DOMAIN s = 1..Len(s) /\ \A k \in 1..Len(s) : s[k] \in SampleType
  BY FrameSamples
<1>2. \A k \in 1..Len(s) : s[k].addr \in D
  BY <1>1 DEF AddressesOf
<1> HIDE DEF s
<1>3. ASSUME NEW x \in SampleType PROVE x.tb \in TimeBuckets /\ x.sample \in Int
  <2>1. x.tb \in TimeBuckets /\ x.sample \in 0..4095
    BY DEF SampleType
  <2>2. PICK v \in 0..4095 : x.sample = v
    BY <2>1
  <2>3. v \in Int
    OBVIOUS
  <2>4. x.sample \in Int
    BY <2>2, <2>3
  <2> QED BY <2>1, <2>4
<1>4. HavePlace(s, D)
  BY <1>1, <1>2, <1>3 DEF HavePlace
<1> QED BY <1>4 DEF s

\* The addresses left by the noise subtraction.
Remaining ==
  {addr \in Appended : addr[1] \notin KnownAgets \/ addr[2] \notin FPNSet
                       \/ Find(addr) # MissingValue}

TraceInv ==
  /\ TypeOK /\ LastSampleKept
  /\ data \in TracesFor(DOMAIN data)
  /\ TableIsEmpty => DOMAIN data = {}
  /\ phase = "building" => DOMAIN data = Appended
  /\ phase \in {"processed", "written"} => DOMAIN data = Remaining
  /\ phase = "terminated" =>
       \/ TableIsEmpty
       \/ DOMAIN data = Appended /\ \E aget \in KnownAgets : RenormalizeCrashes(aget)
  /\ phase = "written" =>
       rows = {[name |-> eventId, addr |-> addr, pad |-> Find(addr), samples |-> data[addr]] :
                 addr \in DOMAIN data}

\* The samples of the frames in a, for an element of a trace.
EntriesIn(a, addr, tb) ==
  {e \in (DOMAIN a) \X Nat :
     e[2] \in DOMAIN Samples(a[e[1]]) /\ SampleFor(Samples(a[e[1]])[e[2]], addr, tb)}

LEMMA EntriesAre ==
  ASSUME NEW a \in Seq(Frames), NEW addr, NEW tb
  PROVE  EntriesIn(a, addr, tb) =
           UNION {{<<i, k>> : k \in {j \in DOMAIN Samples(a[i]) :
                                      Samples(a[i])[j].addr = addr /\ Samples(a[i])[j].tb = tb}} :
                   i \in DOMAIN a}
<1>1. \A i \in DOMAIN a : DOMAIN Samples(a[i]) \subseteq Nat
  <2>1. \A i \in DOMAIN a : a[i] \in Frames
    OBVIOUS
  <2>2. \A frame \in Frames : DOMAIN Samples(frame) \subseteq Nat
    BY FrameSamples
  <2> QED BY <2>1, <2>2
<1> QED BY <1>1 DEF EntriesIn, SampleFor

LEMMA AppendedFrame ==
  ASSUME NEW a \in Seq(Frames), NEW frame \in Frames, NEW b, b = Append(a, frame)
  PROVE  /\ b \in Seq(Frames) /\ DOMAIN a = 1..Len(a) /\ DOMAIN b = 1..(Len(a) + 1)
         /\ Len(a) \in Nat /\ Len(b) = Len(a) + 1
         /\ b[Len(a) + 1] = frame /\ \A i \in 1..Len(a) : b[i] = a[i] /\ b[i] \in Frames
  OBVIOUS

\* These traces are those of the event, and have a place for the samples of a
\* frame.
Extended(base, frame) ==
  base \in TracesFor(Appended \cup AddressesOf(frame)) /\ \A addr \in Appended : base[addr] = data[addr]

\* The last sample for this element of a trace.
IsLast(e, a, addr, tb) == e \in EntriesIn(a, addr, tb) /\ Last(e, EntriesIn(a, addr, tb))

SampleAt(e, a) == Samples(a[e[1]])[e[2]].sample

\* These are the frames of the event and one more.
OneMore(b, frame) == b = Append(appended, frame)

\* Storing the samples of this frame stores this sample.
Stores(base, frame, addr, tb, e, b) ==
  StoreSamples(base, Samples(frame))[addr][tb] = SampleAt(e, b)

(* Storing the samples of one more frame. *)
LEMMA LastKeptStep ==
  ASSUME TraceInv, phase = "building", NEW frame \in Frames,
         NEW base, Extended(base, frame), NEW b, OneMore(b, frame),
         NEW addr \in Appended \cup AddressesOf(frame), NEW tb \in TimeBuckets,
         NEW e, IsLast(e, b, addr, tb)
  PROVE  Stores(base, frame, addr, tb, e, b)
<1> USE DEF Extended, IsLast, SampleAt, OneMore, Stores
<1> DEFINE D == Appended \cup AddressesOf(frame)
           s == Samples(frame)
           n == Len(appended) + 1
           R == StoreSamples(base, s)
<1>1. appended \in Seq(Frames)
  BY DEF TraceInv, TypeOK
<1>2. /\ b \in Seq(Frames) /\ DOMAIN appended = 1..Len(appended) /\ DOMAIN b = 1..n
      /\ Len(appended) \in Nat /\ b[n] = frame
      /\ \A i \in 1..Len(appended) : b[i] = appended[i] /\ b[i] \in Frames
  BY <1>1, AppendedFrame
<1>3. HavePlace(s, D) /\ Len(s) \in Nat /\ DOMAIN s = 1..Len(s)
  BY SamplesPlaced, FrameSamples
<1>4. /\ \A k \in 1..Len(s) :
           /\ SampleFor(s[k], addr, tb)
           /\ \A j \in 1..Len(s) : j > k => ~SampleFor(s[j], addr, tb)
           => R[addr][tb] = s[k].sample
      /\ (\A k \in 1..Len(s) : ~SampleFor(s[k], addr, tb)) => R[addr][tb] = base[addr][tb]
  BY <1>3, StoredLast
<1>5. \A k \in 1..Len(s) : SampleFor(s[k], addr, tb) <=> <<n, k>> \in EntriesIn(b, addr, tb)
  <2>1. n \in DOMAIN b /\ \A k \in 1..Len(s) : k \in Nat /\ k \in DOMAIN s
    BY <1>2, <1>3
  <2> HIDE DEF n
  <2> QED BY <1>2, <2>1 DEF EntriesIn
<1> HIDE DEF D, s, R
<1>6. e[1] \in 1..n /\ e[2] \in Nat /\ e = <<e[1], e[2]>> /\ e[2] \in DOMAIN Samples(b[e[1]])
      /\ SampleFor(Samples(b[e[1]])[e[2]], addr, tb)
  BY <1>2 DEF EntriesIn
<1>7. CASE e[1] = n
  <2>1. e[2] \in 1..Len(s)
    BY <1>2, <1>3, <1>6, <1>7 DEF s
  <2>2. SampleFor(s[e[2]], addr, tb)
    BY <1>2, <1>6, <1>7 DEF s
  <2>3. ASSUME NEW j \in 1..Len(s), j > e[2] PROVE ~SampleFor(s[j], addr, tb)
    <3>1. After(<<n, j>>, e)
      BY <1>7, <2>3 DEF After
    <3> QED BY <1>5, <3>1 DEF Last
  <2>4. R[addr][tb] = s[e[2]].sample
    BY <1>4, <2>1, <2>2, <2>3
  <2> QED BY <1>2, <1>3, <1>7, <2>1, <2>4 DEF R, s
<1>8. CASE e[1] # n
  <2>1. e[1] \in 1..Len(appended) /\ n > e[1]
    BY <1>2, <1>6, <1>8
  <2>2. \A k \in 1..Len(s) : ~SampleFor(s[k], addr, tb)
    <3>1. \A k \in 1..Len(s) : After(<<n, k>>, e)
      BY <2>1 DEF After
    <3> QED BY <1>5, <3>1 DEF Last
  <2>3. R[addr][tb] = base[addr][tb]
    BY <1>4, <2>2
  <2>4. addr \in Appended /\ appended[e[1]] = b[e[1]]
    <3>1. e[1] \in DOMAIN appended /\ appended[e[1]] = b[e[1]]
      BY <1>2, <2>1
    <3>2. e[2] \in DOMAIN Samples(appended[e[1]]) /\ Samples(appended[e[1]])[e[2]].addr = addr
      BY <1>6, <3>1 DEF SampleFor
    <3>3. addr \in AddressesOf(appended[e[1]])
      BY <3>2 DEF AddressesOf
    <3> QED BY <3>1, <3>3 DEF Appended
  <2>5. e \in EntriesIn(appended, addr, tb)
    BY <1>2, <1>6, <2>1 DEF EntriesIn
  <2>6. EntriesIn(appended, addr, tb) \subseteq EntriesIn(b, addr, tb)
    <3>1. \A f \in EntriesIn(appended, addr, tb) :
            /\ f \in (DOMAIN b) \X Nat
            /\ f[1] \in 1..Len(appended) /\ b[f[1]] = appended[f[1]]
      <4>1. \A i \in 1..Len(appended) : i \in 1..n
        BY <1>2
      <4> HIDE DEF n
      <4> QED BY <1>2, <4>1 DEF EntriesIn
    <3> QED BY <3>1 DEF EntriesIn
  <2>7. Last(e, EntriesIn(appended, addr, tb))
    BY <2>6 DEF Last
  <2>8. data[addr][tb] = Samples(appended[e[1]])[e[2]].sample
    <3>1. addr \in DOMAIN data
      BY <2>4 DEF TraceInv
    <3>2. Entries(addr, tb) = EntriesIn(appended, addr, tb)
      BY <1>1, EntriesAre DEF Entries, EntriesOf
    <3> QED BY <2>5, <2>7, <3>1, <3>2 DEF TraceInv, LastSampleKept
  <2> QED BY <2>3, <2>4, <2>8 DEF R, s
<1> QED BY <1>7, <1>8

LEMMA TraceInit ==
  Init => TraceInv
<1> SUFFICES ASSUME Init PROVE TraceInv
  OBVIOUS
<1>1. /\ lookupTable \in Tables /\ appended = <<>> /\ data = <<>>
      /\ phase = "building"
  BY DEF Init
<1>2. DOMAIN data = {} /\ DOMAIN appended = {} /\ appended \in Seq(Frames) /\ Len(appended) = 0
  BY <1>1
<1>3. data \in TracesFor(DOMAIN data)
  <2>1. data = [addr \in {} |-> 0]
    BY <1>1
  <2> QED BY <1>2, <2>1 DEF TracesFor
<1>4. Appended = {}
  BY <1>2 DEF Appended
<1>5. TypeOK
  BY <1>1, <1>2, EventAssumption DEF TypeOK
<1>6. LastSampleKept
  BY <1>2 DEF LastSampleKept
<1> QED BY <1>1, <1>2, <1>3, <1>4, <1>5, <1>6 DEF TraceInv

(* A frame is appended.                                                    *)
LEMMA AppendStep ==
  ASSUME TraceInv, NEW frame \in Frames, AppendFrame(frame)
  PROVE  TraceInv'
<1>1. /\ TypeOK /\ LastSampleKept /\ data \in TracesFor(DOMAIN data)
      /\ appended \in Seq(Frames) /\ Len(appended) <= MaxFrames /\ DOMAIN data \subseteq Addresses
      /\ lookupTable \in Tables
  BY DEF TraceInv, TypeOK
<1>2. /\ phase = "building" /\ Len(appended) < MaxFrames
      /\ appended' = Append(appended, frame) /\ lookupTable' = lookupTable
  BY DEF AppendFrame
<1>3. DOMAIN data = Appended /\ (TableIsEmpty => DOMAIN data = {})
  BY <1>2 DEF TraceInv
<1>4. TableIsEmpty' = TableIsEmpty
  BY <1>2 DEF TableIsEmpty
<1>5. /\ appended' \in Seq(Frames) /\ DOMAIN appended = 1..Len(appended)
      /\ DOMAIN appended' = 1..(Len(appended) + 1) /\ Len(appended) \in Nat
      /\ Len(appended') = Len(appended) + 1 /\ appended'[Len(appended) + 1] = frame
      /\ \A i \in 1..Len(appended) : appended'[i] = appended[i]
  BY <1>1, <1>2, AppendedFrame
<1>6. Appended' = Appended \cup AddressesOf(frame)
  <2>1. \A i \in DOMAIN appended' : i \in DOMAIN appended \/ i = Len(appended) + 1
    BY <1>5
  <2>2. DOMAIN appended \subseteq DOMAIN appended' /\ Len(appended) + 1 \in DOMAIN appended'
    BY <1>5
  <2>3. Appended' = UNION {AddressesOf(appended'[i]) : i \in DOMAIN appended'}
    BY DEF Appended, AddressesOf
  <2> QED BY <1>5, <2>1, <2>2, <2>3 DEF Appended
<1>7. Len(appended') <= MaxFrames
  BY <1>2, <1>5, EventAssumption
<1>8. CASE TableIsEmpty /\ Samples(frame) # <<>>
  <2>1. phase' = "terminated" /\ data' = data
    BY <1>8 DEF AppendFrame
  <2>2. DOMAIN data' = {} /\ data' \in TracesFor(DOMAIN data')
    BY <1>1, <1>3, <1>8, <2>1
  <2>3. TypeOK'
    BY <1>1, <1>2, <1>5, <1>7, <2>1 DEF TypeOK
  <2>4. LastSampleKept'
    BY <2>2 DEF LastSampleKept
  <2> QED BY <1>4, <1>8, <2>1, <2>2, <2>3, <2>4 DEF TraceInv
<1>9. CASE ~(TableIsEmpty /\ Samples(frame) # <<>>)
  <2> DEFINE D == Appended \cup AddressesOf(frame)
  <2>1. phase' = "building"
    BY <1>2, <1>9 DEF AppendFrame
  <2>2. PICK new \in Sized(AddressesOf(frame) \ DOMAIN data) :
          data' = StoreSamples(
                    [addr \in DOMAIN data \cup DOMAIN new |->
                       IF addr \in DOMAIN data THEN data[addr] ELSE new[addr]],
                    Samples(frame))
    BY <1>9 DEF AppendFrame
  <2>3. new \in TracesFor(AddressesOf(frame) \ DOMAIN data)
    <3> DEFINE S == AddressesOf(frame) \ DOMAIN data
    <3>1. PICK f \in [S -> [TimeBuckets -> Garbage]] : new = [addr \in S |-> f[addr]]
      BY DEF Sized
    <3>2. \A g \in [TimeBuckets -> Garbage] : g \in [TimeBuckets -> Int]
      BY EventAssumption
    <3> HIDE DEF S
    <3>3. \A addr \in S : f[addr] \in [TimeBuckets -> Int]
      BY <3>2
    <3>4. new \in TracesFor(S)
      BY <3>1, <3>3 DEF TracesFor
    <3> QED BY <3>4 DEF S
  <2>4. PICK base : base = [addr \in DOMAIN data \cup DOMAIN new |->
                              IF addr \in DOMAIN data THEN data[addr] ELSE new[addr]]
    OBVIOUS
  <2>5. base \in TracesFor(D) /\ \A addr \in Appended : base[addr] = data[addr]
    <3>1. DOMAIN new = AddressesOf(frame) \ DOMAIN data
      BY <2>3 DEF TracesFor
    <3>2. DOMAIN data \cup DOMAIN new = D
      BY <1>3, <3>1
    <3> QED BY <1>1, <1>3, <2>3, <2>4, <3>1, <3>2 DEF TracesFor
  <2>6. HavePlace(Samples(frame), D)
    BY SamplesPlaced
  <2>7. data' = StoreSamples(base, Samples(frame))
    BY <2>2, <2>4
  <2> HIDE DEF D
  <2>8. data' \in TracesFor(D)
    <3>1. Len(Samples(frame)) \in Nat
      BY FrameSamples
    <3> QED BY <2>5, <2>6, <2>7, <3>1, StoredSteps DEF StoreSamples
  <2>9. DOMAIN data' = D /\ data' \in TracesFor(DOMAIN data')
    BY <2>8 DEF TracesFor
  <2>10. D \subseteq Addresses
    <3>1. \A k \in DOMAIN Samples(frame) : Samples(frame)[k].addr \in Addresses
      <4>1. \A x \in SampleType : x.addr \in Addresses
        BY DEF SampleType
      <4> QED BY <4>1, FrameSamples
    <3> QED BY <1>1, <1>3, <3>1 DEF AddressesOf, D
  <2>11. TypeOK'
    <3>1. \A addr \in DOMAIN data' : data'[addr] \in [TimeBuckets -> Int]
      BY <2>9 DEF TracesFor
    <3> QED BY <1>1, <1>2, <1>5, <1>7, <2>1, <2>9, <2>10, <3>1 DEF TypeOK
  <2>12. LastSampleKept'
    <3>1. ASSUME NEW addr \in D, NEW tb \in TimeBuckets,
                 NEW e \in EntriesIn(appended', addr, tb), Last(e, EntriesIn(appended', addr, tb))
          PROVE  data'[addr][tb] = Samples(appended'[e[1]])[e[2]].sample
      <4>1. Extended(base, frame) /\ addr \in Appended \cup AddressesOf(frame)
        BY <2>5, <3>1 DEF D, Extended
      <4>2. PICK b : b = appended'
        OBVIOUS
      <4>3. OneMore(b, frame) /\ phase = "building" /\ IsLast(e, b, addr, tb)
        BY <1>2, <3>1, <4>2 DEF IsLast, OneMore
      <4>4. Stores(base, frame, addr, tb, e, b)
        BY <4>1, <4>3, LastKeptStep
      <4> QED BY <2>7, <4>2, <4>4 DEF SampleAt, Stores
    <3>2. ASSUME NEW addr, NEW tb
          PROVE  Entries(addr, tb)' = EntriesIn(appended', addr, tb)
      BY <1>5, EntriesAre DEF Entries, EntriesOf
    <3>3. ASSUME NEW addr \in DOMAIN data', NEW tb \in TimeBuckets, NEW e \in Entries(addr, tb)',
                 Last(e, Entries(addr, tb)')
          PROVE  data'[addr][tb] = Samples(appended'[e[1]])[e[2]].sample
      <4>1. addr \in D /\ Entries(addr, tb)' = EntriesIn(appended', addr, tb)
        BY <2>9, <3>2
      <4>2. e \in EntriesIn(appended', addr, tb) /\ Last(e, EntriesIn(appended', addr, tb))
        BY <3>3, <4>1
      <4> QED BY <3>1, <4>1, <4>2
    <3> QED BY <3>3 DEF LastSampleKept
  <2>13. TableIsEmpty => D = {}
    BY <1>3, <1>9 DEF D, AddressesOf
  <2> QED BY <1>4, <1>6, <2>1, <2>9, <2>11, <2>12, <2>13 DEF TraceInv, D
<1> QED BY <1>8, <1>9

(* Which addresses the noise subtraction leaves.                           *)
LEMMA RemainingAre ==
  ASSUME DOMAIN data = Appended, DOMAIN data \subseteq Addresses
  PROVE  DOMAIN data \ UNION {Erased(aget) : aget \in KnownAgets} = Remaining
<1> DEFINE gone == UNION {Erased(aget) : aget \in KnownAgets}
<1>1. ASSUME NEW addr \in Appended
      PROVE  addr \in gone <=> /\ addr[1] \in KnownAgets /\ addr[2] \in FPNSet
                              /\ Find(addr) = MissingValue
  <2>1. addr = <<addr[1], addr[2]>> /\ addr[2] \in Channels
    BY DEF Addresses
  <2>2. ASSUME NEW aget \in KnownAgets, addr \in Erased(aget)
        PROVE  aget = addr[1] /\ addr[2] \in FPNSet /\ Find(addr) = MissingValue
    <3>1. addr \in {aget} \X FPNSet /\ Find(addr) = MissingValue
      BY <2>2 DEF Erased
    <3> QED BY <3>1
  <2>3. ASSUME addr[1] \in KnownAgets, addr[2] \in FPNSet, Find(addr) = MissingValue
        PROVE  addr \in Erased(addr[1])
    <3>1. PICK i \in DOMAIN FPNChannels : addr[2] = FPNChannels[i]
      BY <2>3 DEF FPNSet
    <3>2. i \in FPNTraces(addr[1])
      BY <2>1, <3>1 DEF FPNTraces
    <3>3. addr \in {addr[1]} \X FPNSet
      BY <2>1, <2>3
    <3> QED BY <2>3, <3>2, <3>3 DEF Erased
  <2> QED BY <2>2, <2>3
<1> HIDE DEF gone
<1>2. Appended \ gone = Remaining
  BY <1>1 DEF Remaining
<1> QED BY <1>2 DEF gone

(* The noise is subtracted.                                                *)
LEMMA SubtractStep ==
  ASSUME TraceInv, SubtractFPN
  PROVE  TraceInv'
<1>1. /\ TypeOK /\ LastSampleKept /\ data \in TracesFor(DOMAIN data)
      /\ DOMAIN data \subseteq Addresses
      /\ \A addr \in DOMAIN data : data[addr] \in [TimeBuckets -> Int]
  BY DEF TraceInv, TypeOK
<1>2. /\ phase = "building" /\ lookupTable' = lookupTable /\ appended' = appended
      /\ DOMAIN data = Appended /\ (TableIsEmpty => DOMAIN data = {})
  BY DEF SubtractFPN, TraceInv
<1>3. /\ TableIsEmpty' = TableIsEmpty /\ Appended' = Appended
      /\ \A addr, tb : Entries(addr, tb)' = Entries(addr, tb)
      /\ \A addr : Find(addr)' = Find(addr)
  BY <1>2 DEF TableIsEmpty, Appended, Entries, EntriesOf, Find
<1>4. CASE TableIsEmpty \/ \E aget \in KnownAgets : RenormalizeCrashes(aget)
  <2>1. phase' = "terminated" /\ data' = data
    BY <1>4 DEF SubtractFPN
  <2>2. TypeOK'
    BY <1>1, <1>2, <2>1 DEF TypeOK
  <2>3. LastSampleKept'
    BY <1>1, <1>2, <1>3, <2>1 DEF LastSampleKept
  <2>4. \A aget : RenormalizeCrashes(aget)' = RenormalizeCrashes(aget)
    BY <2>1 DEF RenormalizeCrashes, FPNTraces, NonzeroMeans, MeanFPN, Total, Multiplicity, FPNSample
  <2> QED BY <1>1, <1>2, <1>3, <1>4, <2>1, <2>2, <2>3, <2>4 DEF TraceInv
<1>5. CASE ~(TableIsEmpty \/ \E aget \in KnownAgets : RenormalizeCrashes(aget))
  <2> DEFINE D == DOMAIN data \ UNION {Erased(aget) : aget \in KnownAgets}
  <2>1. phase' = "processed" /\ data' = [addr \in D |-> data[addr]]
    BY <1>5 DEF SubtractFPN
  <2>2. D = Remaining
    BY <1>1, <1>2, RemainingAre
  <2>3. D \subseteq DOMAIN data
    OBVIOUS
  <2> HIDE DEF D
  <2>4. DOMAIN data' = D /\ data' \in TracesFor(DOMAIN data')
        /\ \A addr \in D : data'[addr] = data[addr] /\ data'[addr] \in [TimeBuckets -> Int]
    BY <1>1, <2>1, <2>3 DEF TracesFor
  <2>5. TypeOK'
    BY <1>1, <1>2, <2>1, <2>3, <2>4 DEF TypeOK
  <2>6. LastSampleKept'
    BY <1>1, <1>2, <1>3, <2>3, <2>4 DEF LastSampleKept
  <2>7. Remaining' = Remaining
    BY <1>3 DEF Remaining
  <2> QED BY <1>2, <1>3, <1>5, <2>1, <2>2, <2>4, <2>5, <2>6, <2>7 DEF TraceInv
<1> QED BY <1>4, <1>5

(* Nothing else touches a trace.                                           *)
LEMMA UnchangedTraces ==
  ASSUME TraceInv, UNCHANGED <<lookupTable, appended, data>>
  PROVE  /\ LastSampleKept' /\ (data \in TracesFor(DOMAIN data))' /\ TableIsEmpty' = TableIsEmpty
         /\ Appended' = Appended /\ Remaining' = Remaining
         /\ \A addr : Find(addr)' = Find(addr)
         /\ \A aget : RenormalizeCrashes(aget)' = RenormalizeCrashes(aget)
<1>1. lookupTable' = lookupTable /\ appended' = appended /\ data' = data
      /\ LastSampleKept /\ data \in TracesFor(DOMAIN data)
  BY DEF TraceInv
<1>2. /\ TableIsEmpty' = TableIsEmpty /\ Appended' = Appended
      /\ \A addr, tb : Entries(addr, tb)' = Entries(addr, tb)
      /\ \A addr : Find(addr)' = Find(addr)
  BY <1>1 DEF TableIsEmpty, Appended, Entries, EntriesOf, Find
<1>3. LastSampleKept'
  BY <1>1, <1>2 DEF LastSampleKept
<1>4. Remaining' = Remaining
  BY <1>2 DEF Remaining
<1>5. \A aget : RenormalizeCrashes(aget)' = RenormalizeCrashes(aget)
  BY <1>1 DEF RenormalizeCrashes, FPNTraces, NonzeroMeans, MeanFPN, Total, Multiplicity, FPNSample
<1> QED BY <1>1, <1>2, <1>3, <1>4, <1>5

LEMMA WriteStep ==
  ASSUME TraceInv, WriteEvent
  PROVE  TraceInv'
<1>1. /\ phase = "processed" /\ phase' = "written" /\ eventId' = eventId
      /\ lookupTable' = lookupTable /\ appended' = appended /\ data' = data
      /\ rows' = {[name |-> eventId, addr |-> addr, pad |-> Find(addr), samples |-> data[addr]] :
                    addr \in DOMAIN data}
  BY DEF WriteEvent
<1>2. /\ LastSampleKept' /\ (data \in TracesFor(DOMAIN data))' /\ TableIsEmpty' = TableIsEmpty
      /\ Remaining' = Remaining /\ \A addr : Find(addr)' = Find(addr)
  BY <1>1, UnchangedTraces
<1>3. TypeOK' /\ DOMAIN data = Remaining /\ (TableIsEmpty => DOMAIN data = {})
  BY <1>1 DEF TraceInv, TypeOK
<1>4. rows' = {[name |-> eventId', addr |-> addr, pad |-> Find(addr)', samples |-> data'[addr]] :
                 addr \in DOMAIN data'}
  BY <1>1, <1>2
<1> QED BY <1>1, <1>2, <1>3, <1>4 DEF TraceInv

LEMMA StutterStep ==
  ASSUME TraceInv, UNCHANGED vars
  PROVE  TraceInv'
<1>1. UNCHANGED <<lookupTable, appended, data>> /\ phase' = phase /\ rows' = rows /\ eventId' = eventId
  BY DEF vars
<1>2. /\ LastSampleKept' /\ (data \in TracesFor(DOMAIN data))' /\ TableIsEmpty' = TableIsEmpty
      /\ Appended' = Appended /\ Remaining' = Remaining /\ \A addr : Find(addr)' = Find(addr)
      /\ \A aget : RenormalizeCrashes(aget)' = RenormalizeCrashes(aget)
  BY <1>1, UnchangedTraces
<1>3. TypeOK'
  BY <1>1 DEF TraceInv, TypeOK
<1> QED BY <1>1, <1>2, <1>3 DEF TraceInv

LEMMA TraceStep ==
  TraceInv /\ [Next]_vars => TraceInv'
<1> SUFFICES ASSUME TraceInv, [Next]_vars PROVE TraceInv'
  OBVIOUS
<1>1. ASSUME NEW frame \in Frames, AppendFrame(frame) PROVE TraceInv'
  BY <1>1, AppendStep
<1>2. CASE SubtractFPN
  BY <1>2, SubtractStep
<1>3. CASE WriteEvent
  BY <1>3, WriteStep
<1>4. CASE UNCHANGED vars
  BY <1>4, StutterStep
<1> QED BY <1>1, <1>2, <1>3, <1>4 DEF Next, Terminated

THEOREM TraceInvariant == Spec => []TraceInv
  BY TraceInit, TraceStep, PTL DEF Spec

(* Every variable has its type, whatever frames an event is made of.       *)
THEOREM TypeCorrect == Spec => []TypeOK
<1>1. TraceInv => TypeOK
  BY DEF TraceInv
<1> QED BY <1>1, TraceInvariant, PTL

(* For every sequence of frames, with their samples in any order and any    *)
(* of them missing or repeated, a trace holds the last sample that came for *)
(* each of its time buckets, from Event::AppendFrame to the output file.    *)
THEOREM LastSampleKeptCorrect == Spec => []LastSampleKept
<1>1. TraceInv => LastSampleKept
  BY DEF TraceInv
<1> QED BY <1>1, TraceInvariant, PTL

(* For every lookup table and every layout of the electronics, the dataset  *)
(* has one row for each trace with a signal, and none for an FPN channel    *)
(* that the addresses SubtractFPN erases cover.                             *)
THEOREM OneRowPerTraceCorrect == Spec => []OneRowPerTrace
<1>1. TraceInv => OneRowPerTrace
  <2> SUFFICES ASSUME TraceInv, phase = "written" PROVE OneRowPerTrace
    BY DEF OneRowPerTrace
  <2> DEFINE Row(addr) == [name |-> eventId, addr |-> addr, pad |-> Find(addr),
                           samples |-> data[addr]]
  <2>1. rows = {Row(addr) : addr \in DOMAIN data} /\ DOMAIN data = Remaining
    BY DEF TraceInv
  <2>2. \A addr : Row(addr).addr = addr /\ Row(addr).pad = Find(addr)
    OBVIOUS
  <2> HIDE DEF Row
  <2>3. \A r1, r2 \in rows : r1.addr = r2.addr => r1 = r2
    BY <2>1, <2>2
  <2>4. ASSUME NEW r \in rows
        PROVE  r.addr \in Remaining /\ r.pad = Find(r.addr)
    BY <2>1, <2>2
  <2>5. \A addr \in Remaining : \E r \in rows : r.addr = addr
    BY <2>1, <2>2
  <2> QED BY <2>3, <2>4, <2>5 DEF OneRowPerTrace, Remaining
<1> QED BY <1>1, TraceInvariant, PTL

-----------------------------------------------------------------------------
(* The mean of the noise *)

(* Among the samples that came for an element one is the last.              *)
LEMMA LastExists ==
  ASSUME NEW a \in Seq(Frames), NEW addr, NEW tb, EntriesIn(a, addr, tb) # {}
  PROVE  \E e \in EntriesIn(a, addr, tb) : Last(e, EntriesIn(a, addr, tb))
<1> DEFINE E == EntriesIn(a, addr, tb)
<1>1. ASSUME NEW e \in E
      PROVE  /\ e[1] \in 1..Len(a) /\ e[2] \in 1..Len(Samples(a[e[1]]))
             /\ Len(Samples(a[e[1]])) \in Nat
  <2>1. e[1] \in DOMAIN a /\ e[2] \in DOMAIN Samples(a[e[1]])
    BY DEF EntriesIn
  <2>2. e[1] \in 1..Len(a) /\ a[e[1]] \in Frames
    BY <2>1
  <2> QED BY <2>1, <2>2, FrameSamples
<1>2. Len(a) \in Nat
  OBVIOUS
<1> HIDE DEF E
<1>3. PICK first \in E : \A f \in E : f[1] <= first[1]
  <2> DEFINE S == {Len(a) - e[1] : e \in E}
  <2>1. S # {}
    BY DEF E
  <2>2. \A e \in E : Len(a) - e[1] \in Nat /\ e[1] \in Int
    BY <1>1, <1>2
  <2>3. S \subseteq Nat
    BY <2>2
  <2> HIDE DEF S
  <2>4. PICK m \in S : \A k \in S : m <= k
    BY <2>1, <2>3, LeastOf
  <2>5. PICK g \in E : m = Len(a) - g[1]
    BY DEF S
  <2>6. ASSUME NEW f \in E PROVE f[1] <= g[1]
    <3>1. Len(a) - f[1] \in S
      BY DEF S
    <3>2. Len(a) - g[1] <= Len(a) - f[1]
      BY <2>4, <2>5, <3>1
    <3> QED BY <1>2, <2>2, <3>2
  <2> QED BY <2>6
<1> DEFINE i == first[1]
           Q == {e \in E : e[1] = i}
           L == Len(Samples(a[i]))
<1>4. L \in Nat /\ \A e \in Q : e[2] \in 1..L
  BY <1>1
<1>5. first \in Q
  OBVIOUS
<1>6. \A e \in E : e \in Q \/ e[1] < i
  BY <1>1, <1>3
<1>7. i \in Int /\ \A e \in Q : e \in E /\ e[1] = i
  BY <1>1
<1> HIDE DEF i, Q, L
<1>8. PICK last \in Q : \A f \in Q : f[2] <= last[2]
  <2> DEFINE S == {L - e[2] : e \in Q}
  <2>1. S # {}
    BY <1>5
  <2>2. \A e \in Q : L - e[2] \in Nat /\ e[2] \in Int
    BY <1>4
  <2>3. S \subseteq Nat
    BY <2>2
  <2> HIDE DEF S
  <2>4. PICK m \in S : \A k \in S : m <= k
    BY <2>1, <2>3, LeastOf
  <2>5. PICK g \in Q : m = L - g[2]
    BY DEF S
  <2>6. ASSUME NEW f \in Q PROVE f[2] <= g[2]
    <3>1. L - f[2] \in S
      BY DEF S
    <3>2. L - g[2] <= L - f[2]
      BY <2>4, <2>5, <3>1
    <3> QED BY <1>4, <2>2, <3>2
  <2> QED BY <2>6
<1>9. ASSUME NEW f \in E PROVE ~After(f, last)
  <2>1. last[1] = i /\ last[2] \in Int /\ f[1] \in Int /\ f[2] \in Int
    BY <1>1, <1>4, <1>7
  <2>2. CASE f \in Q
    <3>1. f[1] = i /\ f[2] <= last[2]
      BY <1>7, <1>8, <2>2
    <3> QED BY <1>7, <2>1, <3>1 DEF After
  <2>3. CASE f[1] < i
    BY <1>7, <2>1, <2>3 DEF After
  <2> QED BY <1>6, <2>2, <2>3
<1>10. last \in E
  BY <1>7
<1> QED BY <1>9, <1>10 DEF Last, E

(* A complete trace holds samples, and no garbage.                         *)
LEMMA CompleteTrace ==
  ASSUME TraceInv, NEW addr \in DOMAIN data, Complete(addr), NEW tb \in TimeBuckets
  PROVE  data[addr][tb] \in Nat
<1>1. appended \in Seq(Frames) /\ LastSampleKept
  BY DEF TraceInv, TypeOK
<1>2. Entries(addr, tb) = EntriesIn(appended, addr, tb)
  BY <1>1, EntriesAre DEF Entries, EntriesOf
<1>3. PICK e \in EntriesIn(appended, addr, tb) : Last(e, EntriesIn(appended, addr, tb))
  BY <1>1, <1>2, LastExists DEF Complete
<1>4. data[addr][tb] = Samples(appended[e[1]])[e[2]].sample
  BY <1>1, <1>2, <1>3 DEF LastSampleKept
<1>5. Samples(appended[e[1]])[e[2]] \in SampleType
  <2>1. e[1] \in DOMAIN appended /\ e[2] \in DOMAIN Samples(appended[e[1]])
    BY DEF EntriesIn
  <2>2. appended[e[1]] \in Frames
    BY <1>1, <2>1
  <2> QED BY <2>1, <2>2, FrameSamples
<1>6. ASSUME NEW x \in SampleType PROVE x.sample \in Nat
  <2>1. x.sample \in 0..4095
    BY DEF SampleType
  <2>2. PICK v \in 0..4095 : x.sample = v
    BY <2>1
  <2>3. v \in Nat
    OBVIOUS
  <2> QED BY <2>2, <2>3
<1> QED BY <1>4, <1>5, <1>6

LEMMA QuotientNotZero ==
  ASSUME NEW n \in Int, NEW d \in Int, d > 0, n >= d
  PROVE  Quotient(n, d) # 0
  BY DEF Quotient

(* The mean of samples one of which is positive is not zero.               *)
LEMMA MeanNotZero ==
  ASSUME NEW aget, NEW tb \in TimeBuckets, NEW j \in FPNTraces(aget),
         \A i \in FPNTraces(aget) : data[<<aget, FPNChannels[i]>>][tb] \in Nat,
         data[<<aget, FPNChannels[j]>>][tb] # 0
  PROVE  MeanFPN(aget, tb) # 0
<1> DEFINE N == Len(FPNChannels)
           terms == [i \in DOMAIN FPNChannels |-> FPNSample(aget, tb, i)]
           ones == [i \in DOMAIN FPNChannels |-> IF FPNSample(aget, tb, i) # 0 THEN 1 ELSE 0]
<1>1. N \in Nat /\ DOMAIN FPNChannels = 1..N
  BY EventAssumption
<1>2. \A i \in 1..N : FPNSample(aget, tb, i) \in Nat
  BY DEF FPNSample
<1>3. j \in 1..N /\ FPNSample(aget, tb, j) # 0
  BY <1>1 DEF FPNSample, FPNTraces
<1> HIDE DEF N
<1>4. \A i \in 1..N : terms[i] \in Int /\ ones[i] \in Int /\ terms[i] >= ones[i] /\ ones[i] >= 0
  BY <1>1, <1>2
<1>5. terms \in [1..N -> Int] /\ ones \in [1..N -> Int] /\ Len(terms) = N /\ Len(ones) = N
  BY <1>1, <1>4
<1>6. ones[j] > 0
  BY <1>1, <1>3
<1> HIDE DEF terms, ones
<1>7. /\ SumOf(terms) \in Int /\ SumOf(ones) \in Int /\ SumOf(terms) >= SumOf(ones)
      /\ SumOf(ones) > 0
  <2>1. AtLeast(terms, ones, N)
    BY <1>3, <1>4, <1>5, <1>6 DEF AtLeast
  <2> QED BY <1>1, <2>1, SumAtLeast
<1>8. Total(aget, tb) = SumOf(terms) /\ Multiplicity(aget, tb) = SumOf(ones)
  BY DEF Total, Multiplicity, terms, ones
<1>9. Quotient(SumOf(terms), SumOf(ones)) # 0 /\ SumOf(ones) # 0
  BY <1>7, QuotientNotZero
<1> QED BY <1>8, <1>9 DEF MeanFPN

(* For every layout of the electronics and every table, an event whose FPN  *)
(* traces are complete and not silent is written: the division by the       *)
(* number of nonzero means in renormalizeVectorToZero cannot fail for it.   *)
THEOREM CompleteEventsSurviveCorrect == Spec => []CompleteEventsSurvive
<1>1. TraceInv => CompleteEventsSurvive
  <2> SUFFICES ASSUME TraceInv, ~TableIsEmpty, phase = "terminated",
                      \A addr \in Appended : addr[2] \in FPNSet => Complete(addr),
                      \A aget \in KnownAgets : PresentFPN(aget) # {} =>
                        \E ch \in PresentFPN(aget), tb \in TimeBuckets : data[<<aget, ch>>][tb] # 0
               PROVE  FALSE
    BY DEF CompleteEventsSurvive
  <2>1. DOMAIN data = Appended /\ \E aget \in KnownAgets : RenormalizeCrashes(aget)
    BY DEF TraceInv
  <2>2. PICK aget \in KnownAgets : FPNTraces(aget) # {} /\ NonzeroMeans(aget) = {}
    BY <2>1 DEF RenormalizeCrashes
  <2>3. PICK ch \in PresentFPN(aget), tb \in TimeBuckets : data[<<aget, ch>>][tb] # 0
    BY <2>2 DEF PresentFPN
  <2>4. PICK j \in FPNTraces(aget) : ch = FPNChannels[j]
    BY DEF PresentFPN
  <2>5. ASSUME NEW i \in FPNTraces(aget) PROVE data[<<aget, FPNChannels[i]>>][tb] \in Nat
    <3>1. <<aget, FPNChannels[i]>> \in DOMAIN data /\ FPNChannels[i] \in FPNSet
      BY DEF FPNTraces, FPNSet
    <3>2. Complete(<<aget, FPNChannels[i]>>)
      BY <2>1, <3>1
    <3> QED BY <3>1, <3>2, CompleteTrace
  <2>6. MeanFPN(aget, tb) # 0
    BY <2>3, <2>4, <2>5, MeanNotZero
  <2> QED BY <2>2, <2>6 DEF NonzeroMeans
<1> QED BY <1>1, TraceInvariant, PTL
=============================================================================
