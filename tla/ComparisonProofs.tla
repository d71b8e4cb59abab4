-------------------------- MODULE ComparisonProofs --------------------------
(***************************************************************************)
(* What is proved of the packets that a comparison draws, for any levels,  *)
(* any number drawn of each and any queues the packets met, of the series  *)
(* that GroundTruth.py counts, for any trace, whose periods add up to what *)
(* the trace holds, and of the sketches, for any trace, any hash functions *)
(* and tables of any size.                                                 *)
(***************************************************************************)
EXTENDS Comparison, Recursion, FiniteSetTheorems, SequenceTheorems

----------------------------------------------------------------------------
(* The inductive invariant.                                                *)

SamplingTypes ==
  /\ level \in Levels
  /\ sample_pkts \in [Levels -> SUBSET Pkts]
  /\ queue_len_array \in [Pkts -> Nat]
  /\ sampler \in {"idle", "drawing", "sampled", "failed"}

\* What is drawn of a level is of it, and the levels before have all they need.
Drawn ==
  /\ \A i \in Levels : sample_pkts[i] \subseteq PktsOf(i)
  /\ \A i \in Levels :
       i < level \/ sampler = "sampled" => Cardinality(sample_pkts[i]) = packet_sample_number
  /\ sampler = "idle" => part # "sampling"

SampleInv == SamplingTypes /\ Drawn

----------------------------------------------------------------------------
(* The levels.                                                             *)

LEMMA LevelNumbers ==
  /\ Len(threshold) \in Nat \ {0} /\ 1 \in Levels /\ Len(threshold) \in Levels
  /\ \A i \in Levels : threshold[i] \in Nat /\ i \in Nat
  /\ \A i \in Levels : i # Len(threshold) => i + 1 \in Levels
  BY SamplingAssumption DEF Levels

\* The level that a packet is put into holds its depth: it is over the threshold of
\* the level, and not over the next.
LEMMA LevelHolds ==
  ASSUME NEW depth \in Nat, NEW i \in Levels,
         i \in packet_experiencing_high_delay2(depth), depth # threshold[1]
  PROVE  /\ depth > threshold[i]
         /\ i < Len(threshold) => depth <= threshold[i + 1]
  <1> DEFINE N == Len(threshold)
             Between == {j \in Levels \ {N} :
                           depth > threshold[j] /\ depth <= threshold[j + 1]}
  <1>1. /\ depth >= threshold[1]
        /\ i \in IF Between # {} THEN Between ELSE {N}
    <2>1. i \in IF depth < threshold[1] THEN {}
                ELSE IF Between # {} THEN Between ELSE {N}
      BY DEF packet_experiencing_high_delay2
    <2>2. threshold[1] \in Nat
      BY LevelNumbers
    <2> HIDE DEF Between
    <2> QED
      BY <2>1, <2>2
  <1>2. depth > threshold[1]
    BY <1>1, LevelNumbers
  <1>3. CASE Between # {}
    BY <1>1, <1>3
  <1>4. CASE Between = {}
    <2> DEFINE S == {j \in 0 .. N - 1 : depth > threshold[j + 1]}
    <2>1. 0 \in S
      BY <1>2, LevelNumbers
    <2>2. ASSUME NEW j \in 1 .. N - 1, j - 1 \in S
          PROVE  j \in S
      <3>1. /\ j \in Levels \ {N} /\ j + 1 \in Levels /\ j \in 0 .. N - 1
            /\ (j - 1) + 1 = j
        BY LevelNumbers DEF Levels
      <3>2. depth > threshold[j]
        BY <2>2, <3>1
      <3>3. ~(depth <= threshold[j + 1])
        BY <1>4, <3>1, <3>2
      <3>4. depth > threshold[j + 1]
        BY <3>1, <3>3, LevelNumbers
      <3> QED
        BY <3>1, <3>4
    <2>3. \A j \in 0 .. N - 1 : j \in S
      <3> DEFINE M == N - 1
      <3>1. M \in Nat
        BY LevelNumbers
      <3> HIDE DEF M, S
      <3>2. \A j \in 1 .. M : j - 1 \in S => j \in S
        BY <2>2 DEF M
      <3>3. \A j \in 0 .. M : j \in S
        BY <2>1, <3>1, <3>2, InductionUpTo
      <3> QED
        BY <3>3 DEF M
    <2>4. i = N /\ N - 1 \in 0 .. N - 1
      BY <1>1, <1>4, LevelNumbers
    <2>5. depth > threshold[(N - 1) + 1]
      BY <2>3, <2>4
    <2>6. (N - 1) + 1 = N
      <3>1. N \in Nat
        BY LevelNumbers
      <3> HIDE DEF N
      <3> QED
        BY <3>1
    <2> QED
      BY <2>4, <2>5, <2>6, LevelNumbers
  <1> QED
    BY <1>3, <1>4

----------------------------------------------------------------------------
(* The invariant.                                                          *)

LEMMA InitSample == Init => SampleInv
  <1>1. ASSUME Init, part = "sampling", SamplingInit
        PROVE  SampleInv
    <2>1. /\ level = 1 /\ sample_pkts = [i \in Levels |-> {}] /\ sampler = "drawing"
          /\ queue_len_array \in [Pkts -> Nat]
      BY <1>1, SamplingAssumption DEF SamplingInit
    <2>2. \A i \in Levels : ~(i < 1)
      BY DEF Levels
    <2> QED
      BY <1>1, <2>1, <2>2, LevelNumbers DEF SampleInv, SamplingTypes, Drawn
  <1>2. ASSUME Init, part # "sampling", NoSampling
        PROVE  SampleInv
    <2>1. /\ level = 1 /\ sample_pkts = [i \in Levels |-> {}] /\ sampler = "idle"
          /\ queue_len_array \in [Pkts -> Nat]
      BY <1>2 DEF NoSampling
    <2>2. \A i \in Levels : ~(i < 1)
      BY DEF Levels
    <2> QED
      BY <1>2, <2>1, <2>2, LevelNumbers DEF SampleInv, SamplingTypes, Drawn
  <1> QED
    BY <1>1, <1>2 DEF Init

LEMMA NextSample == SampleInv /\ [Next]_vars => SampleInv'
  <1> SUFFICES ASSUME SampleInv, [Next]_vars
               PROVE  SampleInv'
    OBVIOUS
  <1> USE DEF SampleInv
  <1>1. ASSUME NEW p \in Pkts, Draw(p), part' = part
        PROVE  SampleInv'
    <2>1. /\ sampler = "drawing" /\ Cardinality(sample_pkts[level]) < packet_sample_number
          /\ p \in PktsOf(level)
          /\ sample_pkts' = [sample_pkts EXCEPT ![level] = @ \cup {p}]
          /\ queue_len_array' = queue_len_array /\ level' = level /\ sampler' = sampler
      BY <1>1 DEF Draw
    <2>2. /\ level \in Levels /\ sample_pkts \in [Levels -> SUBSET Pkts]
      BY DEF SamplingTypes
    <2>3. \A i \in Levels : PktsOf(i)' = PktsOf(i)
      BY <2>1 DEF PktsOf, packet_experiencing_high_delay2
    <2>4. /\ sample_pkts'[level] = sample_pkts[level] \cup {p}
          /\ \A i \in Levels : i # level => sample_pkts'[i] = sample_pkts[i]
      BY <2>1, <2>2
    <2>5. SamplingTypes'
      <3>1. sample_pkts' \in [Levels -> SUBSET Pkts]
        BY <2>1, <2>2
      <3> QED
        BY <2>1, <3>1 DEF SamplingTypes, Levels, Pkts
    <2>6. \A i \in Levels : i < level => i # level
      BY <2>2, LevelNumbers
    <2>7. Drawn'
      <3>1. \A i \in Levels : sample_pkts'[i] \subseteq PktsOf(i)'
        BY <2>1, <2>2, <2>3, <2>4 DEF Drawn
      <3>2. \A i \in Levels : i < level =>
              Cardinality(sample_pkts'[i]) = packet_sample_number
        BY <2>4, <2>6 DEF Drawn
      <3> QED
        BY <1>1, <2>1, <3>1, <3>2 DEF Drawn, Levels
    <2> QED
      BY <2>5, <2>7
  <1>2. ASSUME DrawFromNone, part' = part
        PROVE  SampleInv'
    <2>1. /\ sampler = "drawing" /\ sampler' = "failed"
          /\ UNCHANGED <<queue_len_array, level, sample_pkts>>
      BY <1>2 DEF DrawFromNone
    <2> QED
      BY <1>2, <2>1
      DEF SamplingTypes, Drawn, PktsOf, packet_experiencing_high_delay2, Levels, Pkts
  <1>3. ASSUME NextLevel, part' = part
        PROVE  SampleInv'
    <2>1. /\ sampler = "drawing" /\ Cardinality(sample_pkts[level]) = packet_sample_number
          /\ queue_len_array' = queue_len_array /\ sample_pkts' = sample_pkts
          /\ \/ level < Len(threshold) /\ level' = level + 1 /\ sampler' = sampler
             \/ ~(level < Len(threshold)) /\ sampler' = "sampled" /\ level' = level
      BY <1>3 DEF NextLevel
    <2>2. level \in Levels
      BY DEF SamplingTypes
    <2>3. \A i \in Levels :
            i <= level => Cardinality(sample_pkts[i]) = packet_sample_number
      <3>1. \A i \in Levels : i <= level => i = level \/ i < level
        BY <2>2, LevelNumbers
      <3> QED
        BY <2>1, <3>1 DEF Drawn
    <2>4. CASE level < Len(threshold)
      <3>1. level' \in Levels /\ \A i \in Levels : i < level' => i <= level
        BY <2>1, <2>2, <2>4, LevelNumbers DEF Levels
      <3>2. SamplingTypes'
        BY <2>1, <2>4, <3>1 DEF SamplingTypes, Levels, Pkts
      <3>3. sampler' # "sampled" /\ sampler' # "idle"
        BY <2>1, <2>4
      <3>4. \A i \in Levels : PktsOf(i)' = PktsOf(i)
        BY <2>1 DEF PktsOf, packet_experiencing_high_delay2
      <3>5. Drawn'
        BY <2>1, <2>3, <3>1, <3>3, <3>4 DEF Drawn, Levels
      <3> QED
        BY <3>2, <3>5
    <2>5. CASE ~(level < Len(threshold))
      <3>1. \A i \in Levels : i <= level
        BY <2>2, <2>5 DEF Levels
      <3>2. \A i \in Levels : Cardinality(sample_pkts[i]) = packet_sample_number
        BY <2>3, <3>1
      <3>3. level' = level /\ sampler' = "sampled"
        BY <2>1, <2>5
      <3>4. SamplingTypes'
        BY <2>1, <3>3 DEF SamplingTypes, Levels, Pkts
      <3>5. \A i \in Levels : PktsOf(i)' = PktsOf(i)
        BY <2>1 DEF PktsOf, packet_experiencing_high_delay2
      <3>6. Drawn'
        BY <2>1, <3>2, <3>3, <3>5 DEF Drawn, Levels
      <3> QED
        BY <3>4, <3>6
    <2> QED
      BY <2>4, <2>5
  <1>4. ASSUME UNCHANGED <<part, samplingVars>>
        PROVE  SampleInv'
    BY <1>4 DEF samplingVars, SamplingTypes, Drawn, PktsOf,
                packet_experiencing_high_delay2, Levels, Pkts
  <1> QED
    BY <1>1, <1>2, <1>3, <1>4 DEF Next, SamplingNext, vars

\* However the draws fall and however often a packet is drawn again, a level gets as
\* many different packets as were asked for, and each of them met a queue of the
\* level, for any thresholds.
THEOREM SamplesTrue == Spec => []SampleTrue
  <1>1. SampleInv => SampleTrue
    <2> SUFFICES ASSUME SampleInv
                 PROVE  SampleTrue
      OBVIOUS
    <2>1. sampler = "sampled" =>
            \A i \in Levels : Cardinality(sample_pkts[i]) = packet_sample_number
      BY DEF SampleInv, Drawn
    <2>2. ASSUME NEW i \in Levels, NEW p \in sample_pkts[i],
                 queue_len_array[p] # threshold[1]
          PROVE  /\ queue_len_array[p] > threshold[i]
                 /\ i < Len(threshold) => queue_len_array[p] <= threshold[i + 1]
      <3>1. p \in PktsOf(i) /\ queue_len_array[p] \in Nat
        BY DEF SampleInv, Drawn, SamplingTypes, PktsOf
      <3>2. i \in packet_experiencing_high_delay2(queue_len_array[p])
        BY <3>1 DEF PktsOf
      <3> QED
        BY <2>2, <3>1, <3>2, LevelHolds
    <2> QED
      BY <2>1, <2>2 DEF SampleTrue
  <1> QED
    BY <1>1, InitSample, NextSample, PTL DEF Spec


----------------------------------------------------------------------------
(* Sums.                                                                   *)

\* Induction over the subsets of a finite set.
LEMMA Subsets ==
  ASSUME NEW D, IsFiniteSet(D), NEW P,
         \A s \in SUBSET D : (\A x \in s : s \ {x} \in P) => s \in P
  PROVE  \A s \in SUBSET D : s \in P
  <1> SUFFICES ASSUME NEW bad \in SUBSET D, bad \notin P
               PROVE  FALSE
    OBVIOUS
  <1> DEFINE sizes == {n \in Nat : \E s \in SUBSET D : s \notin P /\ Cardinality(s) = n}
  <1>1. \A s \in SUBSET D : IsFiniteSet(s) /\ Cardinality(s) \in Nat
    BY FS_Subset, FS_CardinalityType
  <1>2. sizes \in SUBSET Nat /\ sizes # {}
    BY <1>1
  <1>3. PICK m \in sizes : \A n \in sizes : m <= n
    BY <1>2, Least
  <1>4. PICK s \in SUBSET D : s \notin P /\ Cardinality(s) = m
    BY <1>3
  <1>5. ASSUME NEW x \in s
        PROVE  s \ {x} \in P
    <2>1. Cardinality(s \ {x}) = m - 1
      BY <1>1, <1>4, FS_RemoveElement
    <2>2. Cardinality(s \ {x}) \in Nat /\ s \ {x} \in SUBSET D
      BY <1>1
    <2>3. s \ {x} \notin P => m - 1 \in sizes
      BY <2>1, <2>2
    <2>4. ~(m <= m - 1)
      BY <1>2, <1>3
    <2> QED
      BY <1>3, <2>2, <2>3, <2>4
  <1> QED
    BY <1>4, <1>5

Picked(s) == CHOOSE x \in s : TRUE

IterIs(f, iter) ==
  iter = [s \in SUBSET (DOMAIN f) |->
            IF s = {} THEN 0 ELSE f[Picked(s)] + iter[s \ {Picked(s)}]]

LEMMA SumUnfolds ==
  ASSUME NEW f
  PROVE  SumFunction(f) = (CHOOSE iter : IterIs(f, iter))[DOMAIN f]
  BY Zenon DEF SumFunction, SumFunctionOnSet, FoldFunctionOnSet, MapThenFoldSet,
               IterIs, Picked

LEMMA IterExists ==
  ASSUME NEW D, IsFiniteSet(D), NEW f \in [D -> Nat]
  PROVE  \E iter \in [SUBSET D -> Nat] : IterIs(f, iter)
  <1> DEFINE N == Cardinality(D)
             V == [SUBSET D -> Nat]
             zero == [s \in SUBSET D |-> 0]
             Add(g) == [s \in SUBSET D |->
                          IF s = {} THEN 0 ELSE f[Picked(s)] + g[s \ {Picked(s)}]]
             step == [p \in Nat \X V |-> Add(p[2])]
  <1>1. N \in Nat
    BY FS_CardinalityType
  <1>2. \A s \in SUBSET D : s # {} => Picked(s) \in s
    BY DEF Picked
  <1>3. \A g \in V : Add(g) \in V
    BY <1>2
  <1>4. step \in [Nat \X V -> V]
    <2> HIDE DEF V, Add
    <2> QED
      BY <1>3
  <1>5. zero \in V
    OBVIOUS
  <1>6. PICK r \in [0 .. N -> V] : RecursionUpTo(N, r, zero, step)
    <2> HIDE DEF V, step, zero, N
    <2> QED
      BY <1>1, <1>4, <1>5, Recursion, Zenon
  <1>7. r[0] = zero /\ \A n \in 1 .. N : r[n] = Add(r[n - 1])
    <2> HIDE DEF V, Add, zero, N
    <2>1. r[0] = zero /\ \A n \in 1 .. N : r[n] = step[<<n, r[n - 1]>>]
      BY <1>6 DEF RecursionUpTo
    <2>2. \A n \in 1 .. N : <<n, r[n - 1]>> \in Nat \X V
      BY <1>1, <1>6
    <2> QED
      BY <2>1, <2>2
  <1> DEFINE same(n) == \A s \in SUBSET D : Cardinality(s) <= n => Add(r[n])[s] = r[n][s]
             S == {n \in 0 .. N : same(n)}
  <1>8. \A s \in SUBSET D : IsFiniteSet(s) /\ Cardinality(s) \in Nat /\ Cardinality(s) <= N
    BY FS_Subset, FS_CardinalityType
  <1> HIDE DEF N
  <1>9. 0 \in S
    <2>1. \A s \in SUBSET D : Cardinality(s) <= 0 => s = {}
      BY <1>8, FS_EmptySet
    <2>2. same(0)
      BY <1>7, <2>1
    <2>3. 0 \in 0 .. N
      BY <1>1
    <2> HIDE DEF same
    <2> QED
      BY <2>2, <2>3
  <1>10. ASSUME NEW n \in 1 .. N, n - 1 \in S
         PROVE  n \in S
    <2>1. same(n - 1) /\ r[n] = Add(r[n - 1]) /\ n \in 0 .. N
      <3> HIDE DEF Add
      <3> QED
        BY <1>1, <1>7, <1>10
    <2>2. ASSUME NEW s \in SUBSET D, Cardinality(s) <= n
          PROVE  Add(r[n])[s] = r[n][s]
      <3>1. CASE s = {}
        BY <2>1, <3>1
      <3>2. CASE s # {}
        <4> DEFINE less == s \ {Picked(s)}
        <4>1. less \in SUBSET D /\ Cardinality(less) = Cardinality(s) - 1
          BY <1>2, <1>8, <3>2, FS_RemoveElement
        <4>2. Cardinality(less) <= n - 1
          BY <1>8, <2>2, <4>1
        <4>3. Add(r[n - 1])[less] = r[n - 1][less]
          <5> HIDE DEF Add
          <5> QED
            BY <2>1, <4>1, <4>2
        <4>4. r[n][less] = r[n - 1][less]
          <5> HIDE DEF Add, less
          <5> QED
            BY <2>1, <4>3
        <4>5. Add(r[n])[s] = f[Picked(s)] + r[n][less]
          BY <3>2
        <4>6. Add(r[n - 1])[s] = f[Picked(s)] + r[n - 1][less]
          BY <3>2
        <4> HIDE DEF Add, less
        <4> QED
          BY <2>1, <4>4, <4>5, <4>6
      <3> QED
        BY <3>1, <3>2
    <2> HIDE DEF Add
    <2> QED
      BY <2>1, <2>2
  <1>11. N \in S
    <2>1. N \in 0 .. N
      BY <1>1
    <2> HIDE DEF S
    <2> QED
      BY <1>1, <1>9, <1>10, <2>1, InductionUpTo
  <1>12. r[N] \in V /\ \A s \in SUBSET D : Add(r[N])[s] = r[N][s]
    <2>1. N \in 0 .. N /\ same(N)
      BY <1>1, <1>11
    <2> HIDE DEF V, Add
    <2> QED
      BY <1>6, <1>8, <2>1
  <1>13. r[N] = Add(r[N])
    <2>1. Add(r[N]) \in V
      BY <1>3, <1>12
    <2> DEFINE g == Add(r[N])
    <2> HIDE DEF Add
    <2> HIDE DEF g
    <2>2. r[N] \in [SUBSET D -> Nat] /\ g \in [SUBSET D -> Nat]
          /\ \A s \in SUBSET D : g[s] = r[N][s]
      BY <1>12, <2>1 DEF g
    <2>3. r[N] = g
      BY <2>2
    <2> QED
      BY <2>3 DEF g
  <1> DEFINE it == r[N]
  <1>14. it \in [SUBSET D -> Nat]
    BY <1>12
  <1>15. it = [s \in SUBSET D |->
                 IF s = {} THEN 0 ELSE f[Picked(s)] + it[s \ {Picked(s)}]]
    BY <1>13
  <1>16. IterIs(f, it)
    <2>1. DOMAIN f = D
      OBVIOUS
    <2> HIDE DEF it
    <2> QED
      BY <1>15, <2>1 DEF IterIs
  <1> HIDE DEF it
  <1> QED
    BY <1>14, <1>16

\* A sum is what is left after any of its terms, and that term.
SumsTo(D, f, iter) ==
  /\ iter \in [SUBSET D -> Nat] /\ iter[{}] = 0
  /\ \A s \in SUBSET D : \A x \in s : iter[s] = f[x] + iter[s \ {x}]

LEMMA Sums ==
  ASSUME NEW D, IsFiniteSet(D), NEW f \in [D -> Nat]
  PROVE  \E iter : SumsTo(D, f, iter) /\ SumFunction(f) = iter[D]
  <1> DEFINE iter == CHOOSE i : IterIs(f, i)
  <1>1. IterIs(f, iter)
    BY IterExists
  <1>2. SumFunction(f) = iter[D]
    BY SumUnfolds
  <1> HIDE DEF iter
  <1>3. iter = [s \in SUBSET D |->
                  IF s = {} THEN 0 ELSE f[Picked(s)] + iter[s \ {Picked(s)}]]
    BY <1>1 DEF IterIs
  <1>4. /\ DOMAIN iter = SUBSET D /\ iter[{}] = 0
        /\ \A s \in SUBSET D :
             s # {} => iter[s] = f[Picked(s)] + iter[s \ {Picked(s)}]
    BY <1>3
  <1>5. \A s \in SUBSET D : s # {} => Picked(s) \in s
    BY DEF Picked
  <1>6. \A s \in SUBSET D : iter[s] \in Nat
    <2> DEFINE P == {s \in SUBSET D : iter[s] \in Nat}
    <2>1. ASSUME NEW s \in SUBSET D, \A x \in s : s \ {x} \in P
          PROVE  s \in P
      <3>1. CASE s = {}
        BY <1>4, <3>1
      <3>2. CASE s # {}
        <4>1. Picked(s) \in s /\ iter[s] = f[Picked(s)] + iter[s \ {Picked(s)}]
          BY <1>4, <1>5, <3>2
        <4>2. iter[s \ {Picked(s)}] \in Nat /\ f[Picked(s)] \in Nat
          BY <2>1, <4>1
        <4> QED
          BY <4>1, <4>2
      <3> QED
        BY <3>1, <3>2
    <2>2. \A s \in SUBSET D : s \in P
      <3> HIDE DEF P
      <3> QED
        BY <2>1, Subsets
    <2> QED
      BY <2>2
  <1> DEFINE P == {s \in SUBSET D : \A x \in s : iter[s] = f[x] + iter[s \ {x}]}
  <1>7. ASSUME NEW s \in SUBSET D, \A x \in s : s \ {x} \in P
        PROVE  s \in P
    <2>1. ASSUME NEW x \in s
          PROVE  iter[s] = f[x] + iter[s \ {x}]
      <3> DEFINE c == Picked(s)
      <3>1. c \in s /\ iter[s] = f[c] + iter[s \ {c}]
        BY <1>4, <1>5
      <3> HIDE DEF c
      <3>2. CASE x = c
        BY <3>1, <3>2
      <3>3. CASE x # c
        <4> DEFINE less == (s \ {c}) \ {x}
        <4>1. x \in s \ {c} /\ c \in s \ {x} /\ less = (s \ {x}) \ {c}
          BY <3>1, <3>3
        <4>2. s \ {c} \in P /\ s \ {x} \in P
          BY <1>7, <3>1
        <4>3. iter[s \ {c}] = f[x] + iter[less]
          BY <4>1, <4>2
        <4>4. iter[s \ {x}] = f[c] + iter[less]
          BY <4>1, <4>2
        <4>5. less \in SUBSET D /\ f[c] \in Nat /\ f[x] \in Nat
          BY <3>1
        <4>6. iter[less] \in Nat
          BY <1>6, <4>5
        <4> HIDE DEF less, P
        <4> QED
          BY <3>1, <4>3, <4>4, <4>5, <4>6
      <3> QED
        BY <3>2, <3>3
    <2> QED
      BY <2>1
  <1>8. \A s \in SUBSET D : s \in P
    <2> HIDE DEF P
    <2> QED
      BY <1>7, Subsets
  <1>9. iter \in [SUBSET D -> Nat]
    BY <1>3, <1>6
  <1>10. \A s \in SUBSET D : \A x \in s : iter[s] = f[x] + iter[s \ {x}]
    BY <1>8
  <1>11. SumsTo(D, f, iter)
    BY <1>4, <1>9, <1>10 DEF SumsTo
  <1> QED
    BY <1>2, <1>11

LEMMA SumTyped ==
  ASSUME NEW D, IsFiniteSet(D), NEW f \in [D -> Nat]
  PROVE  SumFunction(f) \in Nat /\ \A x \in D : f[x] <= SumFunction(f)
  <1>1. PICK iter : SumsTo(D, f, iter) /\ SumFunction(f) = iter[D]
    BY Sums
  <1>2. D \in SUBSET D /\ \A x \in D : D \ {x} \in SUBSET D
    OBVIOUS
  <1>3. iter[D] \in Nat /\ \A x \in D : iter[D \ {x}] \in Nat /\ f[x] \in Nat
    BY <1>1, <1>2 DEF SumsTo
  <1>4. \A x \in D : iter[D] = f[x] + iter[D \ {x}]
    BY <1>1, <1>2 DEF SumsTo
  <1>5. ASSUME NEW x \in D
        PROVE  f[x] <= iter[D]
    <2>1. PICK n : n = iter[D \ {x}]
      OBVIOUS
    <2>2. iter[D] = f[x] + n /\ n \in Nat /\ f[x] \in Nat
      BY <1>3, <1>4, <2>1
    <2> QED
      BY <2>2
  <1> QED
    BY <1>1, <1>3, <1>5

\* Two sums, term by term.
LEMMA SumMonotone ==
  ASSUME NEW D, IsFiniteSet(D), NEW f \in [D -> Nat], NEW g \in [D -> Nat],
         \A x \in D : f[x] <= g[x]
  PROVE  SumFunction(f) <= SumFunction(g)
  <1>1. PICK a : SumsTo(D, f, a) /\ SumFunction(f) = a[D]
    BY Sums
  <1>2. PICK b : SumsTo(D, g, b) /\ SumFunction(g) = b[D]
    BY Sums
  <1> DEFINE P == {s \in SUBSET D : a[s] <= b[s]}
  <1>3. ASSUME NEW s \in SUBSET D, \A x \in s : s \ {x} \in P
        PROVE  s \in P
    <2>1. CASE s = {}
      BY <1>1, <1>2, <2>1 DEF SumsTo
    <2>2. CASE s # {}
      <3>1. PICK x \in s : TRUE
        BY <2>2
      <3>2. a[s] = f[x] + a[s \ {x}] /\ b[s] = g[x] + b[s \ {x}]
        BY <1>1, <1>2, <3>1 DEF SumsTo
      <3>3. s \ {x} \in SUBSET D /\ x \in D /\ a[s \ {x}] <= b[s \ {x}]
        BY <1>3, <3>1
      <3>4. a[s \ {x}] \in Nat /\ b[s \ {x}] \in Nat /\ f[x] \in Nat /\ g[x] \in Nat
        BY <1>1, <1>2, <3>3 DEF SumsTo
      <3>5. f[x] <= g[x]
        BY <3>3
      <3>6. a[s] <= b[s]
        BY <3>2, <3>3, <3>4, <3>5
      <3> QED
        BY <3>6
    <2> QED
      BY <2>1, <2>2
  <1>4. D \in P
    <2>1. \A s \in SUBSET D : s \in P
      <3> HIDE DEF P
      <3> QED
        BY <1>3, Subsets
    <2> QED
      BY <2>1
  <1> QED
    BY <1>1, <1>2, <1>4

\* Two sums that differ in one term, differ by what it does.
LEMMA SumChanged ==
  ASSUME NEW D, IsFiniteSet(D), NEW f \in [D -> Nat], NEW g \in [D -> Nat],
         NEW x \in D, \A y \in D : y # x => f[y] = g[y]
  PROVE  SumFunction(f) + g[x] = SumFunction(g) + f[x]
  <1>1. PICK a : SumsTo(D, f, a) /\ SumFunction(f) = a[D]
    BY Sums
  <1>2. PICK b : SumsTo(D, g, b) /\ SumFunction(g) = b[D]
    BY Sums
  <1> DEFINE P == {s \in SUBSET D : x \notin s => a[s] = b[s]}
  <1>3. ASSUME NEW s \in SUBSET D, \A y \in s : s \ {y} \in P
        PROVE  s \in P
    <2>1. CASE s = {}
      BY <1>1, <1>2, <2>1 DEF SumsTo
    <2>2. CASE s # {} /\ x \notin s
      <3>1. PICK y \in s : y # x
        BY <2>2
      <3>2. a[s] = f[y] + a[s \ {y}] /\ b[s] = g[y] + b[s \ {y}]
        BY <1>1, <1>2, <3>1 DEF SumsTo
      <3>3. a[s \ {y}] = b[s \ {y}] /\ f[y] = g[y]
        BY <1>3, <2>2, <3>1
      <3> QED
        BY <3>2, <3>3
    <2> QED
      BY <2>1, <2>2
  <1>4. a[D \ {x}] = b[D \ {x}]
    <2>1. \A s \in SUBSET D : s \in P
      <3> HIDE DEF P
      <3> QED
        BY <1>3, Subsets
    <2>2. D \ {x} \in P
      BY <2>1
    <2> QED
      BY <2>2
  <1>5. a[D] = f[x] + a[D \ {x}] /\ b[D] = g[x] + b[D \ {x}]
    BY <1>1, <1>2 DEF SumsTo
  <1>6. a[D \ {x}] \in Nat /\ f[x] \in Nat /\ g[x] \in Nat
    BY <1>1 DEF SumsTo
  <1> QED
    BY <1>1, <1>2, <1>4, <1>5, <1>6

LEMMA SumZeros ==
  ASSUME NEW D, IsFiniteSet(D), NEW f \in [D -> Nat], \A x \in D : f[x] = 0
  PROVE  SumFunction(f) = 0
  <1>1. PICK a : SumsTo(D, f, a) /\ SumFunction(f) = a[D]
    BY Sums
  <1> DEFINE P == {s \in SUBSET D : a[s] = 0}
  <1>2. ASSUME NEW s \in SUBSET D, \A x \in s : s \ {x} \in P
        PROVE  s \in P
    <2>1. CASE s = {}
      BY <1>1, <2>1 DEF SumsTo
    <2>2. CASE s # {}
      <3>1. PICK x \in s : TRUE
        BY <2>2
      <3>2. a[s] = f[x] + a[s \ {x}] /\ f[x] = 0 /\ a[s \ {x}] = 0
        BY <1>1, <1>2, <3>1 DEF SumsTo
      <3> QED
        BY <3>2
    <2> QED
      BY <2>1, <2>2
  <1>3. \A s \in SUBSET D : s \in P
    <2> HIDE DEF P
    <2> QED
      BY <1>2, Subsets
  <1> QED
    BY <1>1, <1>3

\* A sum of which all terms but one are zero.
LEMMA SumOne ==
  ASSUME NEW D, IsFiniteSet(D), NEW f \in [D -> Nat], NEW x \in D,
         \A y \in D : y # x => f[y] = 0
  PROVE  SumFunction(f) = f[x]
  <1> DEFINE g == [y \in D |-> 0]
  <1>1. g \in [D -> Nat] /\ g[x] = 0 /\ \A y \in D : y # x => f[y] = g[y]
    OBVIOUS
  <1>2. SumFunction(g) = 0
    BY SumZeros
  <1> HIDE DEF g
  <1>3. SumFunction(f) + g[x] = SumFunction(g) + f[x]
    BY <1>1, SumChanged
  <1>4. f[x] \in Nat /\ SumFunction(f) \in Nat
    BY SumTyped
  <1> QED
    BY <1>1, <1>2, <1>3, <1>4

\* A set, counted part by part.
LEMMA SumParts ==
  ASSUME NEW S, IsFiniteSet(S), NEW D, IsFiniteSet(D), NEW in \in [S -> D]
  PROVE  Cardinality(S) =
           SumFunction([d \in D |-> Cardinality({i \in S : in[i] = d})])
  <1> DEFINE of(s, d) == {i \in s : in[i] = d}
             parts(s) == [d \in D |-> Cardinality(of(s, d))]
             P == {s \in SUBSET S : Cardinality(s) = SumFunction(parts(s))}
  <1>1. \A s \in SUBSET S, d \in D : /\ IsFiniteSet(s) /\ IsFiniteSet(of(s, d))
                                     /\ Cardinality(s) \in Nat
                                     /\ Cardinality(of(s, d)) \in Nat
    BY FS_Subset, FS_CardinalityType
  <1>2. \A s \in SUBSET S : parts(s) \in [D -> Nat]
    BY <1>1
  <1>3. ASSUME NEW s \in SUBSET S, \A x \in s : s \ {x} \in P
        PROVE  s \in P
    <2>1. CASE s = {}
      <3>1. \A d \in D : parts(s)[d] = 0
        BY <2>1, FS_EmptySet
      <3>2. Cardinality(s) = 0
        BY <2>1, FS_EmptySet
      <3>3. SumFunction(parts(s)) = 0
        <4> HIDE DEF parts
        <4> QED
          BY <1>2, <3>1, SumZeros
      <3> QED
        BY <3>2, <3>3
    <2>2. CASE s # {}
      <3>1. PICK x \in s : TRUE
        BY <2>2
      <3> DEFINE less == s \ {x}
                 d == in[x]
      <3>2. d \in D /\ less \in SUBSET S
        BY <3>1
      <3>3. Cardinality(less) = SumFunction(parts(less))
        BY <1>3, <3>1
      <3>4. Cardinality(s) = Cardinality(less) + 1
        <4>1. s = less \cup {x} /\ x \notin less
          BY <3>1
        <4> HIDE DEF less
        <4> QED
          BY <1>1, <3>2, <4>1, FS_AddElement
      <3>5. \A e \in D : e # d => of(s, e) = of(less, e)
        OBVIOUS
      <3>6. Cardinality(of(s, d)) = Cardinality(of(less, d)) + 1
        <4>1. of(s, d) = of(less, d) \cup {x} /\ x \notin of(less, d)
          BY <3>1
        <4>2. IsFiniteSet(of(less, d))
          BY <1>1, <3>2
        <4> HIDE DEF of
        <4> QED
          BY <4>1, <4>2, FS_AddElement
      <3>7. /\ \A e \in D : e # d => parts(s)[e] = parts(less)[e]
            /\ parts(s)[d] = parts(less)[d] + 1
        <4> HIDE DEF of, less, d
        <4> QED
          BY <3>2, <3>5, <3>6
      <3> HIDE DEF less, d, parts, of
      <3>8. SumFunction(parts(s)) + parts(less)[d] = SumFunction(parts(less)) + parts(s)[d]
        BY <1>2, <3>2, <3>7, SumChanged
      <3>9. /\ SumFunction(parts(s)) \in Nat /\ SumFunction(parts(less)) \in Nat
            /\ parts(less)[d] \in Nat
        BY <1>2, <3>2, SumTyped
      <3>10. Cardinality(s) = SumFunction(parts(s))
        BY <3>3, <3>4, <3>7, <3>8, <3>9
      <3> QED
        BY <3>10
    <2> QED
      BY <2>1, <2>2
  <1>4. S \in P
    <2>1. \A s \in SUBSET S : s \in P
      <3> HIDE DEF P
      <3> QED
        BY <1>3, Subsets
    <2>2. S \in SUBSET S
      OBVIOUS
    <2> HIDE DEF P
    <2> QED
      BY <2>1, <2>2
  <1> QED
    BY <1>4

----------------------------------------------------------------------------
(* The series.                                                             *)

SeriesTypes ==
  /\ FID_array \in Seq(SeriesFlows) /\ enqueue_ts_array \in Seq(Nat)
  /\ Len(FID_array) = Len(enqueue_ts_array)
  /\ filter_list \in SUBSET SeriesFlows

\* Packets are loaded in the order in which they enter the queue.
Rises(ts) == \A i, j \in DOMAIN ts : i <= j => ts[i] <= ts[j]

SeriesInv ==
  SeriesTypes /\ Rises(enqueue_ts_array) /\ (part = "series" => FID_array # <<>>)

LEMMA InitSeries == Init => SeriesInv
  <1>1. ASSUME SeriesInit, part = "series"
        PROVE  SeriesInv
    <2>1. PICK f \in SeriesFlows : FID_array = <<f>>
      BY <1>1 DEF SeriesInit
    <2>2. enqueue_ts_array = <<0>> /\ filter_list \in SUBSET SeriesFlows
      BY <1>1 DEF SeriesInit
    <2> QED
      BY <2>1, <2>2 DEF SeriesInv, SeriesTypes, Rises
  <1>2. ASSUME NoSeries, part # "series"
        PROVE  SeriesInv
    BY <1>2 DEF NoSeries, SeriesInv, SeriesTypes, Rises
  <1> QED
    BY <1>1, <1>2 DEF Init

LEMMA NextSeries == SeriesInv /\ [Next]_vars => SeriesInv'
  <1> SUFFICES ASSUME SeriesInv, [Next]_vars
               PROVE  SeriesInv'
    OBVIOUS
  <1>1. CASE UNCHANGED <<part, seriesVars>>
    BY <1>1 DEF SeriesInv, SeriesTypes, Rises, seriesVars
  <1>2. CASE part = "series" /\ LoadPacket /\ UNCHANGED part
    <2> DEFINE n == Len(FID_array)
               ts == enqueue_ts_array
    <2>1. n \in Nat \ {0} /\ n = Len(ts) /\ DOMAIN ts = 1 .. n
          /\ ts \in Seq(Nat) /\ FID_array \in Seq(SeriesFlows)
      BY <1>2 DEF SeriesInv, SeriesTypes
    <2>2. PICK gap \in EGaps : ts' = Append(ts, ts[n] + gap)
      BY <1>2, <2>1 DEF LoadPacket
    <2>3. PICK f \in SeriesFlows : FID_array' = Append(FID_array, f)
      BY <1>2 DEF LoadPacket
    <2>4. PICK x \in Nat : x = ts[n] + gap /\ ts[n] <= x
      <3>1. gap \in Nat /\ ts[n] \in Nat
        BY <2>1, SeriesAssumption
      <3> QED
        BY <3>1
    <2>5. ts' = Append(ts, x)
      BY <2>2, <2>4
    <2>6. \A i \in 1 .. n : ts[i] \in Nat /\ ts[i] <= ts[n]
      BY <2>1 DEF SeriesInv, Rises
    <2>7. \A i \in 1 .. n : ts[i] <= x
      <3>1. ts[n] \in Nat
        BY <2>1, <2>6
      <3> QED
        BY <2>4, <2>6, <3>1
    <2>8. ts' \in Seq(Nat) /\ Len(ts') = n + 1 /\ DOMAIN ts' = 1 .. n + 1
          /\ ts'[n + 1] = x /\ \A i \in 1 .. n : ts'[i] = ts[i]
      <3> HIDE DEF ts, n
      <3> QED
        BY <2>1, <2>5
    <2>9. Rises(ts')
      <3> SUFFICES ASSUME NEW i \in 1 .. n + 1, NEW j \in 1 .. n + 1, i <= j
                   PROVE  ts'[i] <= ts'[j]
        BY <2>8 DEF Rises
      <3>1. CASE j = n + 1
        <4>1. i = n + 1 \/ i \in 1 .. n
          BY <2>1
        <4> QED
          BY <2>4, <2>7, <2>8, <3>1, <4>1
      <3>2. CASE j # n + 1
        <4>1. i \in 1 .. n /\ j \in 1 .. n
          BY <2>1, <3>2
        <4> QED
          BY <2>1, <2>8, <4>1 DEF SeriesInv, Rises
      <3> QED
        BY <3>1, <3>2
    <2>10. FID_array' \in Seq(SeriesFlows) /\ Len(FID_array') = n + 1 /\ FID_array' # <<>>
      BY <2>1, <2>3
    <2>11. filter_list' = filter_list
      BY <1>2 DEF LoadPacket
    <2> QED
      BY <2>8, <2>9, <2>10, <2>11 DEF SeriesInv, SeriesTypes
  <1>3. \/ UNCHANGED <<part, seriesVars>>
        \/ part = "series" /\ LoadPacket /\ UNCHANGED part
    BY DEF Next, vars
  <1> QED
    BY <1>1, <1>2, <1>3

\* There are as many periods as asked for, and the last ends where the last packet
\* enters the queue, or one moment before.
LEMMA PeriodsAre ==
  ASSUME SeriesInv, FID_array # <<>>, enqueue_total > 0
  PROVE  /\ Periods = 1 .. n_period
         /\ \A j \in 1 .. n_period : End(j) \in Int
         /\ End(n_period) >= last_ets - 1
  <1> DEFINE N == n_period
             S == Scale
             a == first_ets
             b == last_ets
             T == enqueue_total
             k == T \div S
  <1>1. N \in Nat \ {0} /\ S = 2 * N /\ S \in Nat \ {0}
    BY SeriesAssumption DEF Scale
  <1>2. a \in Nat /\ b \in Nat /\ T = b - a /\ T \in Nat \ {0} /\ b = a + T
    <2>1. /\ enqueue_ts_array \in Seq(Nat)
          /\ 1 \in DOMAIN enqueue_ts_array
          /\ Len(enqueue_ts_array) \in DOMAIN enqueue_ts_array
      BY DEF SeriesInv, SeriesTypes
    <2>2. a \in Nat /\ b \in Nat
      BY <2>1 DEF first_ets, last_ets
    <2> QED
      BY <2>2 DEF enqueue_total
  <1> HIDE DEF S, a, b, T, N
  <1>3. k \in Nat /\ k * S <= T /\ T < (k + 1) * S
    <2>1. T \in Int /\ T \in Nat /\ S \in Nat \ {0}
      BY <1>1, <1>2
    <2> QED
      BY <2>1, DivMod
  <1>4. (S * a + T) \div S = k + a
    <2>1. S * a + T = T + a * S
      BY <1>1, <1>2
    <2>2. (T + a * S) \div S = T \div S + a
      <3>1. T \in Int /\ a \in Int
        BY <1>2
      <3> QED
        BY <1>1, <3>1, DivShift
    <2> QED
      BY <2>1, <2>2
  <1> HIDE DEF k
  <1>5. \A j \in Int : Middle(j) = S * (k + a) + 2 * ((j - 1) * T)
    <2>1. \A j \in Int : Middle(j) = S * ((S * a + T) \div S) + 2 * (j - 1) * T
      BY DEF Middle, S, a, T
    <2>2. \A j \in Int : 2 * (j - 1) * T = 2 * ((j - 1) * T)
      BY <1>2
    <2> QED
      BY <1>4, <2>1, <2>2
  <1> DEFINE c == k * S
             d == a * S
  <1>6. c \in Nat /\ d \in Nat /\ S * (k + a) = c + d /\ c <= T
    BY <1>1, <1>2, <1>3
  <1>7. S * b = d + 2 * (N * T)
    BY <1>1, <1>2
  <1>8. \A j \in 1 .. 2 * N : Middle(j) < S * b <=> j <= N
    <2> SUFFICES ASSUME NEW j \in 1 .. 2 * N
                 PROVE  Middle(j) < S * b <=> j <= N
      OBVIOUS
    <2> DEFINE u == (j - 1) * T
               v == N * T
    <2>1. u \in Int /\ v \in Int
      BY <1>1, <1>2
    <2>2. j <= N => u + T <= v
      <3>1. u + T = j * T
        BY <1>1, <1>2
      <3>2. j <= N => j * T <= N * T
        BY <1>1, <1>2
      <3> QED
        BY <3>1, <3>2
    <2>3. ~(j <= N) => v <= u
      <3>1. ~(j <= N) => N <= j - 1
        BY <1>1
      <3>2. N <= j - 1 => N * T <= (j - 1) * T
        BY <1>1, <1>2
      <3> QED
        BY <3>1, <3>2
    <2>4. Middle(j) = (c + d) + 2 * u /\ S * b = d + 2 * v
      BY <1>1, <1>5, <1>6, <1>7
    <2> HIDE DEF u, v, c, d
    <2> QED
      BY <1>2, <1>6, <2>1, <2>2, <2>3, <2>4
  <1>9. Periods = 1 .. N
    <2>1. Periods = {j \in 1 .. 2 * N : T > 0 /\ Middle(j) < S * b}
      BY DEF Periods, N, T, S, b
    <2>2. T > 0
      BY <1>2
    <2>3. Periods = {j \in 1 .. 2 * N : j <= N}
      BY <1>8, <2>1, <2>2
    <2> QED
      BY <1>1, <2>3
  <1>10. \A j \in 1 .. N : Middle(j) + T \in Int
    <2> SUFFICES ASSUME NEW j \in 1 .. N
                 PROVE  Middle(j) + T \in Int
      OBVIOUS
    <2>1. (j - 1) * T \in Int /\ j \in Int
      BY <1>1, <1>2
    <2>2. Middle(j) = (c + d) + 2 * ((j - 1) * T)
      BY <1>5, <1>6, <2>1
    <2> DEFINE u == (j - 1) * T
    <2> HIDE DEF u, c, d
    <2> QED
      BY <1>2, <1>6, <2>1, <2>2 DEF u
  <1>11. \A j \in 1 .. N : End(j) = (Middle(j) + T) \div S
    BY DEF End, T, S
  <1>12. \A j \in 1 .. N : End(j) \in Int
    BY <1>1, <1>10, <1>11, DivMod
  <1>13. Middle(N) + T = (-T) + (b + k) * S
    <2> DEFINE v == N * T
    <2>1. v \in Int /\ (N - 1) * T = v - T
      BY <1>1, <1>2
    <2>2. (b + k) * S = S * b + c
      BY <1>1, <1>2, <1>3
    <2>3. Middle(N) = (c + d) + 2 * (v - T)
      BY <1>1, <1>5, <1>6, <2>1
    <2>4. S * b = d + 2 * v
      BY <1>7
    <2> HIDE DEF v, c, d
    <2> QED
      BY <1>2, <1>6, <2>1, <2>2, <2>3, <2>4
  <1>14. (-T) \div S >= -(k + 1)
    <2>1. (-(k + 1)) * S <= -T
      BY <1>1, <1>2, <1>3
    <2>2. (-(k + 1)) * S \in Int /\ -T \in Int /\ -(k + 1) \in Int
      BY <1>1, <1>2, <1>3
    <2>3. ((-(k + 1)) * S) \div S <= (-T) \div S
      BY <1>1, <2>1, <2>2, DivMonotonic
    <2>4. ((-(k + 1)) * S) \div S = -(k + 1)
      BY <1>1, <2>2
    <2> QED
      BY <2>3, <2>4
  <1>15. ((-T) + (b + k) * S) \div S = (-T) \div S + (b + k)
    <2>1. -T \in Int /\ b + k \in Int
      BY <1>2, <1>3
    <2> QED
      BY <1>1, <2>1, DivShift
  <1>16. End(N) >= b - 1
    <2>1. N \in 1 .. N
      BY <1>1
    <2>2. End(N) = (-T) \div S + (b + k)
      BY <1>11, <1>13, <1>15, <2>1
    <2>3. (-T) \div S \in Int
      BY <1>1, <1>2, DivMod
    <2> QED
      BY <1>2, <1>3, <1>14, <2>2, <2>3
  <1> QED
    BY <1>9, <1>12, <1>16 DEF N, b

\* The loops of draw_flow_distribution, taken apart.
InPeriod(j, f) == Cardinality({i \in Counted(j) : FID_array[i] = f})
Plotted(f)     == filter_list # {} => f \in filter_list
NewIn(j, old)  == {f \in SeriesFlows \ DOMAIN old : InPeriod(j, f) > 0 /\ Plotted(f)}
Longer(j, old) ==
  [f \in DOMAIN old \cup NewIn(j, old) |->
     IF f \in DOMAIN old THEN Append(old[f], InPeriod(j, f))
     ELSE [l \in 1 .. j |-> IF l = j THEN InPeriod(j, f) ELSE 0]]
SeriesIs(series) ==
  series = [j \in 0 .. Cardinality(Periods) |->
              IF j = 0 THEN [f \in {} |-> <<>>] ELSE Longer(j, series[j - 1])]

LEMMA SeriesUnfolds ==
  draw_flow_distribution = (CHOOSE s : SeriesIs(s))[Cardinality(Periods)]
  BY Zenon DEF draw_flow_distribution, SeriesIs, Longer, NewIn, Plotted, InPeriod

\* The flows met in the first n periods, with a number for each of them.
Met(n) == {f \in SeriesFlows : Plotted(f) /\ \E l \in 1 .. n : InPeriod(l, f) > 0}
SeriesOf(n) == [f \in Met(n) |-> [l \in 1 .. n |-> InPeriod(l, f)]]

LEMMA CountedTyped ==
  ASSUME SeriesInv
  PROVE  /\ IsFiniteSet(DOMAIN FID_array)
         /\ \A j : /\ Counted(j) \subseteq DOMAIN FID_array /\ IsFiniteSet(Counted(j))
                   /\ \A f : InPeriod(j, f) \in Nat
         /\ \A i \in DOMAIN FID_array : FID_array[i] \in SeriesFlows
  <1>1. FID_array \in Seq(SeriesFlows)
    BY DEF SeriesInv, SeriesTypes
  <1>2. DOMAIN FID_array = 1 .. Len(FID_array) /\ Len(FID_array) \in Nat
    BY <1>1
  <1>3. IsFiniteSet(1 .. Len(FID_array))
    BY <1>2, FS_Interval
  <1>4. \A j : Counted(j) \subseteq DOMAIN FID_array /\ IsFiniteSet(Counted(j))
    BY <1>2, <1>3, FS_Subset DEF Counted
  <1>5. \A j, f : InPeriod(j, f) \in Nat
    BY <1>4, FS_Subset, FS_CardinalityType DEF InPeriod
  <1> QED
    BY <1>1, <1>2, <1>3, <1>4, <1>5

LEMMA NextSeriesOf ==
  ASSUME SeriesInv, NEW n \in Nat \ {0}
  PROVE  Longer(n, SeriesOf(n - 1)) = SeriesOf(n)
  <1> DEFINE old == SeriesOf(n - 1)
  <1>1. DOMAIN old = Met(n - 1)
    BY DEF SeriesOf
  <1>2. \A l : l \in 1 .. n <=> l \in 1 .. n - 1 \/ l = n
    OBVIOUS
  <1>3. Met(n - 1) \cup NewIn(n, old) = Met(n)
    BY <1>1, <1>2 DEF Met, NewIn
  <1>4. ASSUME NEW f \in Met(n - 1)
        PROVE  Append(old[f], InPeriod(n, f)) = [l \in 1 .. n |-> InPeriod(l, f)]
    <2> DEFINE s == [l \in 1 .. n - 1 |-> InPeriod(l, f)]
               x == InPeriod(n, f)
               t == [l \in 1 .. n |-> InPeriod(l, f)]
    <2>1. old[f] = s
      BY DEF SeriesOf
    <2>2. \A l : InPeriod(l, f) \in Nat
      BY CountedTyped
    <2>3. n - 1 \in Nat
      OBVIOUS
    <2>4. s \in Seq(Nat) /\ Len(s) = n - 1 /\ \A l \in 1 .. n - 1 : s[l] = t[l]
      BY <2>2, <2>3
    <2>5. x \in Nat /\ t[n] = x /\ t = [l \in 1 .. n |-> t[l]]
      BY <2>2
    <2> HIDE DEF s, x, t
    <2>6. Append(s, x) \in [1 .. n -> Nat]
      <3>1. Append(s, x) \in Seq(Nat) /\ Len(Append(s, x)) = n
        BY <2>4, <2>5
      <3>2. PICK q : q = Append(s, x)
        OBVIOUS
      <3>3. q \in [1 .. Len(q) -> Nat]
        BY <3>1, <3>2, LenProperties
      <3> QED
        BY <3>1, <3>2, <3>3
    <2>7. \A l \in 1 .. n : Append(s, x)[l] = t[l]
      <3>1. Append(s, x)[n] = x
        BY <2>4, <2>5
      <3>2. \A l \in 1 .. n - 1 : Append(s, x)[l] = s[l]
        BY <2>4, <2>5
      <3> QED
        BY <1>2, <2>4, <2>5, <3>1, <3>2
    <2>8. Append(s, x) = t
      <3>1. Append(s, x) = [l \in 1 .. n |-> Append(s, x)[l]]
        BY <2>6
      <3> QED
        BY <2>5, <2>7, <3>1
    <2> QED
      BY <2>1, <2>8 DEF x, t
  <1>5. ASSUME NEW f \in Met(n), f \notin Met(n - 1)
        PROVE  [l \in 1 .. n |-> IF l = n THEN InPeriod(n, f) ELSE 0]
                 = [l \in 1 .. n |-> InPeriod(l, f)]
    <2>1. \A l \in 1 .. n - 1 : InPeriod(l, f) = 0
      <3>1. \A l \in 1 .. n - 1 : ~(InPeriod(l, f) > 0) /\ InPeriod(l, f) \in Nat
        BY <1>5, CountedTyped DEF Met
      <3> QED
        BY <3>1
    <2> QED
      BY <1>2, <2>1
  <1> HIDE DEF old
  <1>6. Longer(n, old) = [f \in Met(n) |-> [l \in 1 .. n |-> InPeriod(l, f)]]
    BY <1>1, <1>3, <1>4, <1>5 DEF Longer
  <1> QED
    BY <1>6 DEF old, SeriesOf

\* A flow is plotted from its first period on, with zeros before.
LEMMA SeriesAre ==
  ASSUME SeriesInv, NEW N \in Nat, Cardinality(Periods) = N
  PROVE  draw_flow_distribution = SeriesOf(N)
  <1> DEFINE series == [j \in 0 .. N |-> SeriesOf(j)]
             s == CHOOSE x : SeriesIs(x)
  <1>1. SeriesOf(0) = [f \in {} |-> <<>>]
    <2>1. Met(0) = {}
      BY DEF Met
    <2> QED
      BY <2>1 DEF SeriesOf
  <1>2. \A j \in 1 .. N : SeriesOf(j) = Longer(j, SeriesOf(j - 1))
    BY NextSeriesOf
  <1>3. \A j \in 0 .. N : j # 0 => j - 1 \in 0 .. N /\ j \in 1 .. N
    OBVIOUS
  <1>4. SeriesIs(series)
    <2>1. \A j \in 0 .. N : series[j] =
            IF j = 0 THEN [f \in {} |-> <<>>] ELSE Longer(j, series[j - 1])
      BY <1>1, <1>2, <1>3
    <2>2. series = [j \in 0 .. N |-> series[j]]
      OBVIOUS
    <2> HIDE DEF series
    <2> QED
      BY <2>1, <2>2 DEF SeriesIs
  <1>5. SeriesIs(s)
    BY <1>4
  <1> HIDE DEF s
  <1>6. s = [j \in 0 .. N |->
               IF j = 0 THEN [f \in {} |-> <<>>] ELSE Longer(j, s[j - 1])]
    BY <1>5 DEF SeriesIs
  <1>7. /\ 0 \in 0 .. N => s[0] = [f \in {} |-> <<>>]
        /\ \A j \in 0 .. N : j # 0 => s[j] = Longer(j, s[j - 1])
    BY <1>6
  <1> DEFINE P == {j \in 0 .. N : s[j] = SeriesOf(j)}
  <1>8. 0 \in P
    <2>1. 0 \in 0 .. N
      OBVIOUS
    <2> QED
      BY <1>1, <1>7, <2>1
  <1>9. ASSUME NEW j \in 1 .. N, j - 1 \in P
        PROVE  j \in P
    <2>1. s[j - 1] = SeriesOf(j - 1) /\ j \in 0 .. N /\ j # 0
      BY <1>9
    <2> QED
      BY <1>2, <1>7, <2>1
  <1>10. N \in P
    <2>1. \A j \in 0 .. N : j \in P
      <3> HIDE DEF P
      <3> QED
        BY <1>8, <1>9, InductionUpTo
    <2> HIDE DEF P
    <2> QED
      BY <2>1
  <1> QED
    BY <1>10, SeriesUnfolds DEF s

LEMMA SeriesRight == SeriesInv => SeriesAgree
  <1> SUFFICES ASSUME SeriesInv, FID_array # <<>>
               PROVE  SeriesAgree
    BY DEF SeriesAgree
  <1> DEFINE n == Len(FID_array)
             flows == draw_flow_distribution
  <1>1. /\ n \in Nat \ {0} /\ DOMAIN FID_array = 1 .. n
        /\ n = Len(enqueue_ts_array) /\ DOMAIN enqueue_ts_array = 1 .. n
        /\ \A i \in 1 .. n : enqueue_ts_array[i] \in Nat /\ FID_array[i] \in SeriesFlows
    BY DEF SeriesInv, SeriesTypes
  <1>2. \A i \in 1 .. n : first_ets <= enqueue_ts_array[i]
    <2>1. 1 \in 1 .. n /\ \A i \in 1 .. n : 1 <= i
      BY <1>1
    <2> QED
      BY <1>1, <2>1 DEF SeriesInv, Rises, first_ets
  <1>3. first_ets \in Nat /\ last_ets \in Nat /\ first_ets <= last_ets
    <2>1. 1 \in 1 .. n /\ n \in 1 .. n
      BY <1>1
    <2> HIDE DEF n
    <2>2. last_ets = enqueue_ts_array[n]
      BY <1>1 DEF last_ets
    <2> QED
      BY <1>1, <1>2, <2>1, <2>2 DEF first_ets
  <1>4. PICK N \in Nat : /\ Periods = 1 .. N /\ Cardinality(Periods) = N
                         /\ \A j \in 1 .. N : End(j) \in Int
                         /\ \A i \in 1 .. n : \/ \E j \in 1 .. N : enqueue_ts_array[i] < End(j)
                                              \/ enqueue_ts_array[i] >= last_ets - 1
    <2>1. CASE enqueue_total > 0
      <3>1. n_period \in Nat \ {0} /\ n_period \in 1 .. n_period
        BY SeriesAssumption
      <3>2. /\ Periods = 1 .. n_period /\ \A j \in 1 .. n_period : End(j) \in Int
            /\ End(n_period) >= last_ets - 1
        BY <2>1, PeriodsAre
      <3>3. Cardinality(1 .. n_period) = n_period
        BY <3>1, FS_Interval
      <3>4. \A i \in 1 .. n : \/ enqueue_ts_array[i] < End(n_period)
                              \/ enqueue_ts_array[i] >= last_ets - 1
        <4>1. End(n_period) \in Int
          BY <3>1, <3>2
        <4> QED
          BY <1>1, <1>3, <3>2, <4>1
      <3> HIDE DEF n
      <3> QED
        BY <3>1, <3>2, <3>3, <3>4
    <2>2. CASE ~(enqueue_total > 0)
      <3>1. Periods = {}
        BY <2>2 DEF Periods
      <3>2. first_ets = last_ets
        BY <1>3, <2>2 DEF enqueue_total
      <3>3. Cardinality({}) = 0 /\ 1 .. 0 = {} /\ 0 \in Nat
        BY FS_EmptySet
      <3>4. \A i \in 1 .. n : enqueue_ts_array[i] >= last_ets - 1
        BY <1>1, <1>2, <1>3, <3>2
      <3> HIDE DEF n
      <3> QED
        BY <3>1, <3>3, <3>4
    <2> QED
      BY <2>1, <2>2
  <1> HIDE DEF n, flows
  <1>5. flows = SeriesOf(N)
    BY <1>4, SeriesAre DEF flows
  <1>6. DOMAIN flows = Met(N) /\ \A f \in Met(N) : flows[f] = [l \in 1 .. N |-> InPeriod(l, f)]
    BY <1>5 DEF SeriesOf
  <1>7. \A f \in DOMAIN flows : DOMAIN flows[f] = Periods
    BY <1>4, <1>6
  <1>8. \A f \in DOMAIN flows : \A j \in Periods :
          flows[f][j] = Cardinality({i \in Counted(j) : FID_array[i] = f})
    BY <1>4, <1>6 DEF InPeriod
  <1>9. ASSUME filter_list = {}, NEW j \in Periods
        PROVE  draw_total_distribution[j] = SumFunction([f \in DOMAIN flows |-> flows[f][j]])
    <2> DEFINE in == [i \in Counted(j) |-> FID_array[i]]
    <2>1. Counted(j) \subseteq 1 .. n /\ IsFiniteSet(Counted(j))
      BY <1>1, CountedTyped
    <2>2. ASSUME NEW i \in Counted(j)
          PROVE  FID_array[i] \in Met(N)
      <3> DEFINE S == {l \in Counted(j) : FID_array[l] = FID_array[i]}
      <3>1. IsFiniteSet(S) /\ S # {} /\ Cardinality(S) \in Nat
        BY <2>1, FS_Subset, FS_CardinalityType
      <3>2. Cardinality(S) # 0
        BY <3>1, FS_EmptySet
      <3>3. InPeriod(j, FID_array[i]) > 0
        BY <3>1, <3>2 DEF InPeriod
      <3> QED
        BY <1>1, <1>4, <1>9, <2>1, <3>3 DEF Met, Plotted
    <2>3. in \in [Counted(j) -> Met(N)]
      BY <2>2
    <2>4. IsFiniteSet(Met(N))
      <3> DEFINE T == {FID_array[i] : i \in 1 .. n}
      <3>1. FID_array \in Surjection(1 .. n, T)
        <4>1. FID_array \in [1 .. n -> T]
          <5>1. FID_array \in Seq(SeriesFlows)
            BY DEF SeriesInv, SeriesTypes
          <5>2. FID_array = [i \in 1 .. n |-> FID_array[i]]
            BY <1>1, <5>1
          <5> QED
            BY <5>2
        <4> QED
          BY <4>1 DEF Surjection
      <3>2. IsFiniteSet(1 .. n)
        BY <1>1, FS_Interval
      <3>3. IsFiniteSet(T)
        <4> HIDE DEF T
        <4> QED
          BY <3>1, <3>2, FS_Surjection
      <3>4. Met(N) \subseteq T
        <4> SUFFICES ASSUME NEW f \in Met(N)
                     PROVE  f \in T
          OBVIOUS
        <4>1. PICK l \in 1 .. N : InPeriod(l, f) > 0
          BY DEF Met
        <4>2. {i \in Counted(l) : FID_array[i] = f} # {}
          <5>1. Cardinality({}) = 0
            BY FS_EmptySet
          <5>2. InPeriod(l, f) # 0
            BY <4>1
          <5> QED
            BY <5>1, <5>2 DEF InPeriod
        <4>3. Counted(l) \subseteq 1 .. n
          BY <1>1, CountedTyped
        <4> QED
          BY <4>2, <4>3
      <3> QED
        BY <3>3, <3>4, FS_Subset
    <2>5. Cardinality(Counted(j)) =
            SumFunction([f \in Met(N) |-> Cardinality({i \in Counted(j) : in[i] = f})])
      <3> HIDE DEF in
      <3> QED
        BY <2>1, <2>3, <2>4, SumParts
    <2>6. \A f \in Met(N) : Cardinality({i \in Counted(j) : in[i] = f}) = flows[f][j]
      <3>1. \A f : {i \in Counted(j) : in[i] = f} = {i \in Counted(j) : FID_array[i] = f}
        OBVIOUS
      <3> QED
        BY <1>4, <1>6, <3>1 DEF InPeriod
    <2>7. [f \in Met(N) |-> Cardinality({i \in Counted(j) : in[i] = f})]
            = [f \in DOMAIN flows |-> flows[f][j]]
      BY <1>6, <2>6
    <2>8. draw_total_distribution[j] = Cardinality(Counted(j))
      BY DEF draw_total_distribution
    <2> QED
      BY <2>5, <2>7, <2>8
  <1>10. ASSUME NEW i \in DOMAIN FID_array
         PROVE  \/ \E j \in Periods : i \in Counted(j)
                \/ enqueue_ts_array[i] >= last_ets - 1
    <2>1. CASE enqueue_ts_array[i] >= last_ets - 1
      BY <2>1
    <2>2. CASE \E j \in 1 .. N : enqueue_ts_array[i] < End(j)
      <3> DEFINE S == {j \in 1 .. N : enqueue_ts_array[i] < End(j)}
      <3>1. S \in SUBSET Nat /\ S # {}
        BY <2>2
      <3>2. PICK j \in S : \A l \in S : j <= l
        <4> HIDE DEF S
        <4> QED
          BY <3>1, Least
      <3>3. ASSUME NEW l \in 1 .. j - 1
            PROVE  enqueue_ts_array[i] >= End(l)
        <4>1. l \in 1 .. N /\ ~(j <= l)
          BY <3>2
        <4>2. ~(enqueue_ts_array[i] < End(l))
          BY <3>2, <4>1
        <4>3. enqueue_ts_array[i] \in Nat /\ End(l) \in Int
          BY <1>1, <1>4, <4>1
        <4> QED
          BY <4>2, <4>3
      <3> QED
        BY <1>4, <3>2, <3>3 DEF Counted
    <2> QED
      BY <1>1, <1>4, <2>1, <2>2
  <1> QED
    BY <1>7, <1>8, <1>9, <1>10, Zenon DEF SeriesAgree, flows

\* What the flows' series count is what the total counts: they are of the same
\* periods, they add up, and no packet is left out but those of the end, for any
\* number of periods and flows and any traffic.
THEOREM SeriesAddUp == Spec => []SeriesAgree
  BY InitSeries, NextSeries, SeriesRight, PTL DEF Spec

----------------------------------------------------------------------------
(* More of sums, and of counting.                                          *)

\* Counting through a bijection.
LEMMA SameNumber ==
  ASSUME NEW S, IsFiniteSet(S), NEW T, NEW k \in [S -> T],
         \A x, y \in S : k[x] = k[y] => x = y,
         \A y \in T : \E x \in S : k[x] = y
  PROVE  IsFiniteSet(T) /\ Cardinality(T) = Cardinality(S)
  <1>1. k \in Surjection(S, T) /\ k \in Injection(S, T)
    BY DEF Surjection, Injection, IsInjective
  <1> QED
    BY <1>1, FS_Surjection

\* A sum of sums, term by term.
LEMMA SumAdd ==
  ASSUME NEW D, IsFiniteSet(D), NEW f \in [D -> Nat], NEW g \in [D -> Nat],
         NEW e \in [D -> Nat], \A x \in D : e[x] = f[x] + g[x]
  PROVE  SumFunction(e) = SumFunction(f) + SumFunction(g)
  <1>1. PICK a : SumsTo(D, f, a) /\ SumFunction(f) = a[D]
    BY Sums
  <1>2. PICK b : SumsTo(D, g, b) /\ SumFunction(g) = b[D]
    BY Sums
  <1>3. PICK c : SumsTo(D, e, c) /\ SumFunction(e) = c[D]
    BY Sums
  <1> DEFINE P == {s \in SUBSET D : c[s] = a[s] + b[s]}
  <1>4. ASSUME NEW s \in SUBSET D, \A x \in s : s \ {x} \in P
        PROVE  s \in P
    <2>1. CASE s = {}
      BY <1>1, <1>2, <1>3, <2>1 DEF SumsTo
    <2>2. CASE s # {}
      <3>1. PICK x \in s : TRUE
        BY <2>2
      <3>2. /\ a[s] = f[x] + a[s \ {x}] /\ b[s] = g[x] + b[s \ {x}]
            /\ c[s] = e[x] + c[s \ {x}]
        BY <1>1, <1>2, <1>3, <3>1 DEF SumsTo
      <3>3. s \ {x} \in SUBSET D /\ x \in D /\ c[s \ {x}] = a[s \ {x}] + b[s \ {x}]
        BY <1>4, <3>1
      <3>4. a[s \ {x}] \in Nat /\ b[s \ {x}] \in Nat /\ f[x] \in Nat /\ g[x] \in Nat
        BY <1>1, <1>2, <3>3 DEF SumsTo
      <3>5. e[x] = f[x] + g[x]
        BY <3>3
      <3>6. c[s] = a[s] + b[s]
        BY <3>2, <3>3, <3>4, <3>5
      <3> QED
        BY <3>6
    <2> QED
      BY <2>1, <2>2
  <1>5. D \in P
    <2>1. \A s \in SUBSET D : s \in P
      <3> HIDE DEF P
      <3> QED
        BY <1>4, Subsets
    <2> QED
      BY <2>1
  <1> QED
    BY <1>1, <1>2, <1>3, <1>5

\* The same terms in other places, and zeros.
LEMMA SumMoved ==
  ASSUME NEW D, IsFiniteSet(D), NEW f \in [D -> Nat],
         NEW E, IsFiniteSet(E), NEW g \in [E -> Nat],
         NEW k \in [D -> E], \A x, y \in D : k[x] = k[y] => x = y,
         \A x \in D : f[x] = g[k[x]],
         \A y \in E : g[y] = 0 \/ \E x \in D : k[x] = y
  PROVE  SumFunction(f) = SumFunction(g)
  <1>1. PICK a : SumsTo(D, f, a) /\ SumFunction(f) = a[D]
    BY Sums
  <1>2. PICK b : SumsTo(E, g, b) /\ SumFunction(g) = b[E]
    BY Sums
  <1> DEFINE to(s) == {k[x] : x \in s}
             P == {s \in SUBSET D : a[s] = b[to(s)]}
  <1>3. ASSUME NEW s \in SUBSET D, \A x \in s : s \ {x} \in P
        PROVE  s \in P
    <2>1. CASE s = {}
      <3>1. to(s) = {}
        BY <2>1
      <3>2. a[s] = b[to(s)]
        BY <1>1, <1>2, <2>1, <3>1 DEF SumsTo
      <3> QED
        BY <3>2
    <2>2. CASE s # {}
      <3>1. PICK x \in s : TRUE
        BY <2>2
      <3>2. to(s) \in SUBSET E /\ k[x] \in to(s) /\ to(s) \ {k[x]} = to(s \ {x})
        BY <3>1
      <3>3. x \in D /\ f[x] = g[k[x]] /\ a[s \ {x}] = b[to(s \ {x})]
        BY <1>3, <3>1
      <3>4. a[s] = f[x] + a[s \ {x}]
        BY <1>1, <3>1 DEF SumsTo
      <3>5. b[to(s)] = g[k[x]] + b[to(s) \ {k[x]}]
        <4> HIDE DEF to
        <4> QED
          BY <1>2, <3>2 DEF SumsTo
      <3>6. a[s] = b[to(s)]
        <4> HIDE DEF to
        <4> QED
          BY <3>2, <3>3, <3>4, <3>5
      <3> QED
        BY <3>6
    <2> QED
      BY <2>1, <2>2
  <1>4. a[D] = b[to(D)]
    <2>1. \A s \in SUBSET D : s \in P
      <3> HIDE DEF P
      <3> QED
        BY <1>3, Subsets
    <2>2. D \in P
      <3> HIDE DEF P
      <3> QED
        BY <2>1
    <2> QED
      BY <2>2
  <1> DEFINE R == {s \in SUBSET E : to(D) \subseteq s => b[s] = b[to(D)]}
  <1>5. ASSUME NEW s \in SUBSET E, \A y \in s : s \ {y} \in R
        PROVE  s \in R
    <2>1. CASE to(D) \subseteq s /\ s # to(D)
      <3>1. PICK y \in s : y \notin to(D)
        BY <2>1
      <3>2. g[y] = 0 /\ to(D) \subseteq s \ {y} /\ b[s \ {y}] = b[to(D)]
        BY <1>5, <2>1, <3>1
      <3>3. b[s] = g[y] + b[s \ {y}]
        <4> HIDE DEF to
        <4> QED
          BY <1>2, <3>1 DEF SumsTo
      <3>4. b[s \ {y}] \in Nat
        <4>1. s \ {y} \in SUBSET E
          OBVIOUS
        <4> QED
          BY <1>2, <4>1 DEF SumsTo
      <3>5. b[s] = b[to(D)]
        <4> HIDE DEF to
        <4> QED
          BY <3>2, <3>3, <3>4
      <3> QED
        BY <3>5
    <2>2. CASE ~(to(D) \subseteq s) \/ s = to(D)
      BY <2>2
    <2> QED
      BY <2>1, <2>2
  <1>6. b[E] = b[to(D)]
    <2>1. \A s \in SUBSET E : s \in R
      <3> HIDE DEF R
      <3> QED
        BY <1>5, Subsets
    <2>2. E \in R
      <3> HIDE DEF R
      <3> QED
        BY <2>1
    <2>3. to(D) \subseteq E
      OBVIOUS
    <2> HIDE DEF to
    <2> QED
      BY <2>2, <2>3
  <1> HIDE DEF to
  <1> QED
    BY <1>1, <1>2, <1>4, <1>6

----------------------------------------------------------------------------
(* Answers.                                                                *)

Items(items) ==
  /\ IsFiniteSet(items)
  /\ \A a \in items : a[2] \in Nat /\ a[3] \in Nat
  /\ \A a, b \in items : a[1] = b[1] \/ a[3] = b[3] => a = b

Rank(items, a) == Cardinality({b \in items : Before(b, a)})

LEMMA Ranks ==
  ASSUME NEW items, Items(items)
  PROVE  /\ \A a \in items : Rank(items, a) \in 0 .. Cardinality(items) - 1
         /\ \A a, b \in items : Rank(items, a) = Rank(items, b) => a = b
  <1> DEFINE below(a) == {b \in items : Before(b, a)}
  <1>1. /\ IsFiniteSet(items) /\ Cardinality(items) \in Nat
        /\ \A a \in items : a[2] \in Nat /\ a[3] \in Nat
        /\ \A a, b \in items : a[3] = b[3] => a = b
    BY FS_CardinalityType DEF Items
  <1>2. \A s \in SUBSET items : IsFiniteSet(s) /\ Cardinality(s) \in Nat
    BY <1>1, FS_Subset, FS_CardinalityType
  <1>3. ASSUME NEW a \in items, NEW b \in items, Before(a, b)
        PROVE  Cardinality(below(a)) < Cardinality(below(b))
    <2>1. below(a) \cup {a} \subseteq below(b)
      BY <1>1, <1>3 DEF Before
    <2>2. a \notin below(a)
      BY <1>1 DEF Before
    <2>3. below(a) \in SUBSET items /\ below(b) \in SUBSET items
      OBVIOUS
    <2> HIDE DEF below
    <2>4. Cardinality(below(a) \cup {a}) = Cardinality(below(a)) + 1
      BY <1>2, <2>2, <2>3, FS_AddElement
    <2>5. Cardinality(below(a) \cup {a}) <= Cardinality(below(b))
      BY <1>2, <2>1, <2>3, FS_Subset
    <2> QED
      BY <1>2, <2>3, <2>4, <2>5
  <1>4. ASSUME NEW a \in items, NEW b \in items, Rank(items, a) = Rank(items, b)
        PROVE  a = b
    <2>1. Before(a, b) \/ Before(b, a) \/ a = b
      BY <1>1 DEF Before
    <2>2. Cardinality(below(a)) = Cardinality(below(b))
      BY <1>4 DEF Rank
    <2>3. Cardinality(below(a)) \in Nat /\ below(a) \in SUBSET items
      BY <1>2
    <2> HIDE DEF below
    <2> QED
      BY <1>3, <2>1, <2>2, <2>3
  <1>5. ASSUME NEW a \in items
        PROVE  Rank(items, a) \in 0 .. Cardinality(items) - 1
    <2>1. below(a) \in SUBSET (items \ {a})
      BY <1>1 DEF Before
    <2>2. /\ IsFiniteSet(items \ {a})
          /\ Cardinality(items \ {a}) = Cardinality(items) - 1
      BY <1>1, FS_RemoveElement
    <2>3. Cardinality(below(a)) <= Cardinality(items) - 1
      <3> HIDE DEF below
      <3> QED
        BY <2>1, <2>2, FS_Subset
    <2>4. Cardinality(below(a)) \in Nat
      BY <1>2
    <2> QED
      BY <1>1, <2>3, <2>4 DEF Rank
  <1> QED
    BY <1>4, <1>5

\* An answer has each of its items in one place.
LEMMA Answers ==
  ASSUME NEW items, Items(items)
  PROVE  /\ Descending(items) \in Seq(items)
         /\ Len(Descending(items)) = Cardinality(items)
         /\ \A a \in items : \E l \in DOMAIN Descending(items) : Descending(items)[l] = a
         /\ \A l, m \in DOMAIN Descending(items) :
              Descending(items)[l] = Descending(items)[m] => l = m
  <1> DEFINE N == Cardinality(items)
             rank == [a \in items |-> Rank(items, a)]
             answer == [l \in 1 .. N |-> CHOOSE a \in items : Rank(items, a) = l - 1]
  <1>1. IsFiniteSet(items) /\ N \in Nat
    BY FS_CardinalityType DEF Items
  <1>2. rank \in Injection(items, 0 .. N - 1)
    BY Ranks DEF Injection, IsInjective
  <1>3. IsFiniteSet(0 .. N - 1) /\ Cardinality(0 .. N - 1) = N
    <2> HIDE DEF N
    <2> QED
      BY <1>1, FS_Interval
  <1>4. rank \in Surjection(items, 0 .. N - 1)
    <2> HIDE DEF rank
    <2> QED
      BY <1>2, <1>3, FS_Injection
  <1>5. \A r \in 0 .. N - 1 : \E a \in items : Rank(items, a) = r
    BY <1>4 DEF Surjection
  <1>6. Descending(items) = answer
    BY Zenon DEF Descending, Rank
  <1> HIDE DEF N
  <1>7. \A l \in 1 .. N : answer[l] \in items /\ Rank(items, answer[l]) = l - 1
    <2> SUFFICES ASSUME NEW l \in 1 .. N
                 PROVE  answer[l] \in items /\ Rank(items, answer[l]) = l - 1
      OBVIOUS
    <2>1. l - 1 \in 0 .. N - 1
      BY <1>1
    <2>2. \E a \in items : Rank(items, a) = l - 1
      BY <1>5, <2>1
    <2>3. answer[l] = CHOOSE a \in items : Rank(items, a) = l - 1
      OBVIOUS
    <2> QED
      BY <2>2, <2>3, Zenon
  <1>8. answer \in Seq(items) /\ Len(answer) = N /\ DOMAIN answer = 1 .. N
    <2>1. answer \in [1 .. N -> items]
      BY <1>7
    <2> HIDE DEF answer
    <2> QED
      BY <1>1, <2>1
  <1> HIDE DEF answer
  <1>9. \A a \in items : \E l \in 1 .. N : answer[l] = a
    <2> SUFFICES ASSUME NEW a \in items
                 PROVE  \E l \in 1 .. N : answer[l] = a
      OBVIOUS
    <2>1. Rank(items, a) \in 0 .. N - 1
      BY Ranks DEF N
    <2>2. PICK l \in 1 .. N : l - 1 = Rank(items, a)
      BY <1>1, <2>1
    <2>3. answer[l] = a
      BY <1>7, <2>2, Ranks
    <2> QED
      BY <2>3
  <1>10. \A l, m \in 1 .. N : answer[l] = answer[m] => l = m
    BY <1>1, <1>7
  <1> QED
    BY <1>6, <1>8, <1>9, <1>10 DEF N

\* Where a flow comes first.
LEMMA Firsts ==
  ASSUME NEW X, NEW s \in Seq(X)
  PROVE  /\ IsFiniteSet(ToSet(s))
         /\ \A f \in ToSet(s) : First(s, f) \in DOMAIN s /\ s[First(s, f)] = f
  <1>1. Len(s) \in Nat /\ s \in [1 .. Len(s) -> X] /\ DOMAIN s = 1 .. Len(s)
    BY LenProperties
  <1>2. IsFiniteSet(ToSet(s))
    <2>1. IsFiniteSet(1 .. Len(s))
      BY <1>1, FS_Interval
    <2>2. s \in Surjection(1 .. Len(s), ToSet(s))
      BY <1>1 DEF Surjection, ToSet
    <2> QED
      BY <2>1, <2>2, FS_Surjection
  <1>3. ASSUME NEW f \in ToSet(s)
        PROVE  First(s, f) \in DOMAIN s /\ s[First(s, f)] = f
    <2> DEFINE at == {i \in DOMAIN s : s[i] = f}
               Is(i) == s[i] = f /\ \A j \in 1 .. i - 1 : s[j] # f
    <2>1. at \in SUBSET Nat /\ at # {}
      BY <1>1, <1>3 DEF ToSet
    <2>2. PICK i \in at : \A j \in at : i <= j
      <3> HIDE DEF at
      <3> QED
        BY <2>1, Least
    <2>3. i \in DOMAIN s /\ Is(i)
      <3>1. i \in 1 .. Len(s) /\ s[i] = f
        BY <1>1, <2>2
      <3>2. ASSUME NEW j \in 1 .. i - 1
            PROVE  s[j] # f
        <4>1. j \in DOMAIN s /\ ~(i <= j)
          BY <1>1, <3>1
        <4> QED
          BY <2>2, <4>1
      <3> QED
        BY <1>1, <3>1, <3>2
    <2>4. First(s, f) = CHOOSE m \in DOMAIN s : Is(m)
      BY DEF First
    <2>5. First(s, f) \in DOMAIN s /\ Is(First(s, f))
      <3> HIDE DEF Is
      <3> QED
        BY <2>3, <2>4, Zenon
    <2> QED
      BY <2>5
  <1> QED
    BY <1>2, <1>3

LEMMA ItemsOf ==
  ASSUME NEW X, NEW s \in Seq(X), NEW F \in SUBSET ToSet(s), NEW n \in [F -> Nat]
  PROVE  Items({<<f, n[f], First(s, f)>> : f \in F})
  <1> DEFINE items == {<<f, n[f], First(s, f)>> : f \in F}
             k == [f \in F |-> <<f, n[f], First(s, f)>>]
  <1>1. DOMAIN s \subseteq Nat
    BY LenProperties
  <1>2. IsFiniteSet(F) /\ \A f \in F : First(s, f) \in DOMAIN s /\ s[First(s, f)] = f
    BY Firsts, FS_Subset
  <1>3. IsFiniteSet(items)
    <2>1. k \in [F -> items] /\ (\A x, y \in F : k[x] = k[y] => x = y)
          /\ \A y \in items : \E x \in F : k[x] = y
      OBVIOUS
    <2> HIDE DEF items, k
    <2> QED
      BY <1>2, <2>1, SameNumber
  <1>4. \A a \in items : a[1] \in F /\ a[2] = n[a[1]] /\ a[3] = First(s, a[1])
    OBVIOUS
  <1>5. \A a, b \in items : a[1] = b[1] => a = b
    OBVIOUS
  <1>6. \A a, b \in items : a[3] = b[3] => a[1] = b[1]
    <2> HIDE DEF items
    <2> QED
      BY <1>2, <1>4
  <1>7. \A a \in items : a[2] \in Nat /\ a[3] \in Nat
    <2> HIDE DEF items
    <2> QED
      BY <1>1, <1>2, <1>4
  <1> HIDE DEF items
  <1>8. Items(items)
    BY <1>3, <1>5, <1>6, <1>7 DEF Items
  <1> QED
    BY <1>8 DEF items

\* An answer lists the flows of S, each once, with the numbers n.
Lists(answer, S, n) ==
  /\ Len(answer) \in Nat /\ DOMAIN answer = 1 .. Len(answer)
  /\ \A l \in 1 .. Len(answer) : answer[l][1] \in S /\ answer[l][2] = n[answer[l][1]]
  /\ \A l, m \in 1 .. Len(answer) : answer[l][1] = answer[m][1] => l = m
  /\ \A f \in S : \E l \in 1 .. Len(answer) : answer[l][1] = f

LEMMA ListsItems ==
  ASSUME NEW items, Items(items), NEW S, NEW n,
         \A a \in items : a[1] \in S /\ a[2] = n[a[1]],
         \A f \in S : \E a \in items : a[1] = f
  PROVE  Lists(Descending(items), S, n)
  <1> DEFINE answer == Descending(items)
  <1>1. /\ answer \in Seq(items)
        /\ \A a \in items : \E l \in DOMAIN answer : answer[l] = a
        /\ \A l, m \in DOMAIN answer : answer[l] = answer[m] => l = m
    BY Answers
  <1> HIDE DEF answer
  <1>2. /\ Len(answer) \in Nat /\ DOMAIN answer = 1 .. Len(answer)
        /\ \A l \in 1 .. Len(answer) : answer[l] \in items
    BY <1>1, LenProperties
  <1>3. \A a, b \in items : a[1] = b[1] => a = b
    BY DEF Items
  <1>4. Lists(answer, S, n)
    BY <1>1, <1>2, <1>3 DEF Lists
  <1> QED
    BY <1>4 DEF answer

LEMMA ListsFIDs ==
  ASSUME NEW answer, NEW S, NEW n, Lists(answer, S, n)
  PROVE  FIDsOf(answer) = S
  BY DEF Lists, FIDsOf

\* An answer without its last.
LEMMA ListsFront ==
  ASSUME NEW answer, NEW S, NEW n, Lists(answer, S, n)
  PROVE  \E F \in SUBSET S : Lists(SubSeq(answer, 1, Len(answer) - 1), F, n)
  <1> DEFINE front == SubSeq(answer, 1, Len(answer) - 1)
             F == {answer[l][1] : l \in 1 .. Len(answer) - 1}
             items == {answer[l] : l \in 1 .. Len(answer)}
  <1>1. Len(answer) \in Nat /\ \A l \in 1 .. Len(answer) - 1 : l \in 1 .. Len(answer)
    BY DEF Lists
  <1>2. \A l \in 1 .. Len(answer) - 1 : answer[l] \in items
    BY <1>1
  <1>3. /\ front \in Seq(items)
        /\ Len(front) = IF 1 <= Len(answer) - 1 THEN Len(answer) - 1 ELSE 0
        /\ \A l \in 1 .. Len(answer) - 1 : front[l] = answer[l]
    <2> DEFINE N == Len(answer) - 1
    <2>1. N \in Int /\ \A l \in 1 .. N : answer[l] \in items
      BY <1>1, <1>2
    <2> HIDE DEF N, items
    <2>2. /\ SubSeq(answer, 1, N) \in Seq(items)
          /\ Len(SubSeq(answer, 1, N)) = IF 1 <= N THEN N - 1 + 1 ELSE 0
          /\ \A l \in 1 .. N - 1 + 1 : SubSeq(answer, 1, N)[l] = answer[1 + l - 1]
      BY <2>1, SubSeqProperties
    <2>3. N - 1 + 1 = N /\ \A l \in 1 .. N : 1 + l - 1 = l
      BY <2>1
    <2>4. /\ SubSeq(answer, 1, N) \in Seq(items)
          /\ Len(SubSeq(answer, 1, N)) = IF 1 <= N THEN N ELSE 0
          /\ \A l \in 1 .. N : SubSeq(answer, 1, N)[l] = answer[l]
      BY <2>2, <2>3
    <2> QED
      BY <2>4 DEF N
  <1>4. Len(front) \in Nat /\ DOMAIN front = 1 .. Len(front)
        /\ 1 .. Len(front) = 1 .. Len(answer) - 1
    <2>1. DOMAIN front = 1 .. Len(front)
      <3> HIDE DEF front
      <3> QED
        BY <1>3, LenProperties
    <2> HIDE DEF front
    <2> QED
      BY <1>1, <1>3, <2>1
  <1>5. F \in SUBSET S
    BY <1>1 DEF Lists
  <1> HIDE DEF front
  <1>6. /\ \A l \in 1 .. Len(front) : front[l] = answer[l] /\ l \in 1 .. Len(answer)
    BY <1>1, <1>3, <1>4
  <1>7. /\ \A l \in 1 .. Len(front) : front[l][1] \in F /\ front[l][2] = n[front[l][1]]
        /\ \A l, m \in 1 .. Len(front) : front[l][1] = front[m][1] => l = m
    <2>1. \A l \in 1 .. Len(front) : front[l][1] \in F
      BY <1>4, <1>6
    <2>2. \A l \in 1 .. Len(answer) : answer[l][2] = n[answer[l][1]]
      BY DEF Lists
    <2>3. \A l, m \in 1 .. Len(answer) : answer[l][1] = answer[m][1] => l = m
      BY DEF Lists
    <2>4. \A l \in 1 .. Len(front) : front[l][2] = n[front[l][1]]
      BY <1>6, <2>2
    <2>5. \A l, m \in 1 .. Len(front) : front[l][1] = front[m][1] => l = m
      BY <1>6, <2>3
    <2> QED
      BY <2>1, <2>4, <2>5
  <1>8. \A f \in F : \E l \in 1 .. Len(front) : front[l][1] = f
    BY <1>4, <1>6
  <1>9. Lists(front, F, n)
    <2> HIDE DEF F
    <2> QED
      BY <1>4, <1>7, <1>8 DEF Lists
  <1> QED
    BY <1>5, <1>9 DEF front

\* The sum over the places of an answer is one over its flows, or any more.
LEMMA Totals ==
  ASSUME NEW E, IsFiniteSet(E), NEW S \in SUBSET E, NEW n \in [E -> Nat],
         NEW answer, Lists(answer, S, n), NEW T
  PROVE  Total(answer, T) =
           SumFunction([f \in E |-> IF f \in S /\ f \in T THEN n[f] ELSE 0])
  <1> DEFINE D == DOMAIN answer
             a == [i \in D |-> IF answer[i][1] \in T THEN answer[i][2] ELSE 0]
             b == [f \in E |-> IF f \in S /\ f \in T THEN n[f] ELSE 0]
             k == [i \in D |-> answer[i][1]]
  <1>1. Len(answer) \in Nat /\ D = 1 .. Len(answer)
    BY DEF Lists
  <1>2. IsFiniteSet(D)
    BY <1>1, FS_Interval
  <1>3. \A i \in D : answer[i][1] \in S /\ answer[i][2] = n[answer[i][1]]
    BY <1>1 DEF Lists
  <1>4. a \in [D -> Nat] /\ b \in [E -> Nat] /\ k \in [D -> E]
    BY <1>3
  <1>5. \A x, y \in D : k[x] = k[y] => x = y
    BY <1>1 DEF Lists
  <1>6. \A x \in D : a[x] = b[k[x]]
    BY <1>3
  <1>7. \A y \in E : b[y] = 0 \/ \E x \in D : k[x] = y
    BY <1>1 DEF Lists
  <1>8. SumFunction(a) = SumFunction(b)
    <2> HIDE DEF D, a, b, k
    <2> QED
      BY <1>2, <1>4, <1>5, <1>6, <1>7, SumMoved
  <1> QED
    BY <1>8 DEF Total

LEMMA NumbersIn ==
  ASSUME NEW E, IsFiniteSet(E), NEW S \in SUBSET E, NEW n \in [E -> Nat],
         NEW answer, Lists(answer, S, n), NEW f \in E
  PROVE  NumberIn(answer, f) = IF f \in S THEN n[f] ELSE 0
  <1> DEFINE b == [g \in E |-> IF g \in S /\ g \in {f} THEN n[g] ELSE 0]
  <1>1. NumberIn(answer, f) = SumFunction(b)
    BY Totals DEF NumberIn
  <1>2. b \in [E -> Nat] /\ (\A y \in E : y # f => b[y] = 0)
        /\ b[f] = IF f \in S THEN n[f] ELSE 0
    OBVIOUS
  <1> HIDE DEF b
  <1> QED
    BY <1>1, <1>2, SumOne

----------------------------------------------------------------------------
(* The trace, and Count-Min.                                               *)

SketchTypes ==
  \/ traces = <<>>
  \/ part = "sketches" /\ hash \in Hashes /\ traces \in Seq(Flows)

seen == ToSet(traces)

LEMMA Seen ==
  ASSUME traces \in Seq(Flows)
  PROVE  /\ IsFiniteSet(seen) /\ seen \subseteq Flows
         /\ DOMAIN traces = 1 .. Len(traces) /\ Len(traces) \in Nat
         /\ IsFiniteSet(DOMAIN traces)
         /\ \A f : Number(f) \in Nat
  <1>1. DOMAIN traces = 1 .. Len(traces) /\ Len(traces) \in Nat
        /\ traces \in [1 .. Len(traces) -> Flows]
    BY LenProperties
  <1>2. IsFiniteSet(seen) /\ seen \subseteq Flows
    BY <1>1, Firsts DEF seen, ToSet
  <1>3. IsFiniteSet(DOMAIN traces)
    BY <1>1, FS_Interval
  <1>4. ASSUME NEW f
        PROVE  Number(f) \in Nat
    <2>1. {i \in DOMAIN traces : traces[i] = f} \in SUBSET DOMAIN traces
      OBVIOUS
    <2> QED
      BY <1>3, <2>1, FS_Subset, FS_CardinalityType DEF Number
  <1> QED
    BY <1>1, <1>2, <1>3, <1>4

LEMMA RetrieveLists ==
  ASSUME traces \in Seq(Flows)
  PROVE  Lists(retrieve, seen, [f \in seen |-> Number(f)])
  <1> DEFINE n == [f \in seen |-> Number(f)]
             items == {<<f, n[f], First(traces, f)>> : f \in seen}
  <1>1. n \in [seen -> Nat]
    BY Seen
  <1>2. Items(items)
    <2> HIDE DEF n
    <2> QED
      BY <1>1, ItemsOf DEF seen
  <1>3. /\ \A a \in items : a[1] \in seen /\ a[2] = n[a[1]]
        /\ \A f \in seen : \E a \in items : a[1] = f
    <2>1. \A f \in seen : <<f, n[f], First(traces, f)>> \in items
      OBVIOUS
    <2>2. \A a \in items : a[1] \in seen /\ a[2] = n[a[1]]
      <3> HIDE DEF n
      <3> QED
        OBVIOUS
    <2> HIDE DEF items, n
    <2> QED
      BY <2>1, <2>2
  <1>4. items = {<<f, Number(f), First(traces, f)>> : f \in ToSet(traces)}
    BY DEF seen
  <1>5. retrieve = Descending(items)
    BY <1>4 DEF retrieve
  <1> HIDE DEF items, n
  <1>6. Lists(Descending(items), seen, n)
    BY <1>2, <1>3, ListsItems
  <1> QED
    BY <1>5, <1>6 DEF n

\* hash functions have values.
LEMMA Hashed ==
  ASSUME hash \in Hashes, NEW f \in Flows
  PROVE  /\ \A i \in 1 .. 3 : h(i, f) \in Cells
         /\ \A i \in 1 .. stages : h(i, f) \in Cells
         /\ \A i \in 1 .. Len(hash) : h(i, f) \in Cells
  <1>1. hash \in Seq([Flows -> Nat]) /\ Len(hash) >= 3 /\ Len(hash) >= stages
        /\ cell_number \in Nat \ {0} /\ stages \in Nat
    BY SketchesAssumption
  <1>2. Len(hash) \in Nat /\ hash \in [1 .. Len(hash) -> [Flows -> Nat]]
    BY <1>1, LenProperties
  <1>3. \A i \in 1 .. Len(hash) : h(i, f) \in Cells
    <2> SUFFICES ASSUME NEW i \in 1 .. Len(hash)
                 PROVE  h(i, f) \in Cells
      OBVIOUS
    <2>1. PICK a : a = hash[i][f]
      OBVIOUS
    <2>2. a \in Nat
      BY <1>2, <2>1
    <2>3. PICK m : m = cell_number
      OBVIOUS
    <2>4. m \in Nat \ {0}
      BY <1>1, <2>3
    <2>5. a % m \in 0 .. m - 1
      BY <2>2, <2>4
    <2> QED
      BY <2>1, <2>3, <2>5 DEF h, Cells
  <1> QED
    BY <1>1, <1>2, <1>3

LEMMA CountMinCell ==
  ASSUME traces \in Seq(Flows), hash \in Hashes, NEW f \in seen, NEW i \in 1 .. stages
  PROVE  /\ CountMinTable(i, h(i, f)) \in Nat /\ CountMinTable(i, h(i, f)) >= Number(f)
         /\ (\A g \in seen \ {f} : h(i, g) # h(i, f))
              => CountMinTable(i, h(i, f)) = Number(f)
  <1> DEFINE c == [g \in seen |-> IF h(i, g) = h(i, f) THEN Number(g) ELSE 0]
  <1>1. CountMinTable(i, h(i, f)) = SumFunction(c)
    BY DEF CountMinTable, seen
  <1>2. c \in [seen -> Nat] /\ c[f] = Number(f) /\ IsFiniteSet(seen) /\ Number(f) \in Nat
    BY Seen
  <1>3. (\A g \in seen \ {f} : h(i, g) # h(i, f)) => \A g \in seen : g # f => c[g] = 0
    OBVIOUS
  <1> HIDE DEF c
  <1>4. SumFunction(c) \in Nat /\ c[f] <= SumFunction(c)
    BY <1>2, SumTyped
  <1>5. (\A g \in seen : g # f => c[g] = 0) => SumFunction(c) = c[f]
    BY <1>2, SumOne
  <1> QED
    BY <1>1, <1>2, <1>3, <1>4, <1>5

RowIs(f, row) ==
  row = [i \in 1 .. stages |->
           LET n == CountMinTable(i, h(i, f))
           IN IF i = 1 \/ n < row[i - 1] THEN n ELSE row[i - 1]]

LEMMA SmallestIs ==
  ASSUME NEW f
  PROVE  Smallest(f) = (CHOOSE row : RowIs(f, row))[stages]
  BY Zenon DEF Smallest, RowIs

\* What is asked for is one of its cells', and none of them is less.
LEMMA SmallestOf ==
  ASSUME traces \in Seq(Flows), hash \in Hashes, NEW f \in seen
  PROVE  /\ \E i \in 1 .. stages : Smallest(f) = CountMinTable(i, h(i, f))
         /\ \A i \in 1 .. stages : Smallest(f) <= CountMinTable(i, h(i, f))
  <1> DEFINE of(i) == CountMinTable(i, h(i, f))
             Lower(i, m) == IF i = 1 \/ of(i) < m THEN of(i) ELSE m
             at == [i \in 1 .. stages |-> of(i)]
             step == [p \in Nat \X Nat |->
                        IF p[1] \in 1 .. stages THEN Lower(p[1], p[2]) ELSE 0]
  <1>1. stages \in Nat \ {0}
    BY SketchesAssumption
  <1>2. \A i \in 1 .. stages : of(i) \in Nat
    BY CountMinCell
  <1>3. step \in [Nat \X Nat -> Nat]
    BY <1>2
  <1>4. PICK r \in [0 .. stages -> Nat] : RecursionUpTo(stages, r, 0, step)
    <2> HIDE DEF step
    <2> QED
      BY <1>1, <1>3, Recursion
  <1>5. \A i \in 1 .. stages : r[i] = Lower(i, r[i - 1])
    <2>1. \A i \in 1 .. stages : r[i] = step[<<i, r[i - 1]>>]
      <3> HIDE DEF step
      <3> QED
        BY <1>4 DEF RecursionUpTo
    <2>2. \A i \in 1 .. stages : <<i, r[i - 1]>> \in Nat \X Nat
      BY <1>1, <1>4
    <2> HIDE DEF Lower
    <2> QED
      BY <2>1, <2>2
  <1> DEFINE q == [i \in 1 .. stages |-> r[i]]
  <1>6. RowIs(f, q)
    <2>1. \A i \in 1 .. stages :
            q[i] = IF i = 1 \/ of(i) < q[i - 1] THEN of(i) ELSE q[i - 1]
      <3> SUFFICES ASSUME NEW i \in 1 .. stages
                   PROVE  q[i] = IF i = 1 \/ of(i) < q[i - 1] THEN of(i) ELSE q[i - 1]
        OBVIOUS
      <3>1. i # 1 => i - 1 \in 1 .. stages
        BY <1>1
      <3>2. i # 1 => q[i - 1] = r[i - 1]
        BY <3>1
      <3> HIDE DEF of
      <3> QED
        BY <1>5, <3>2
    <2>2. q = [i \in 1 .. stages |-> q[i]]
      OBVIOUS
    <2> HIDE DEF q
    <2>3. q = [i \in 1 .. stages |-> IF i = 1 \/ of(i) < q[i - 1] THEN of(i) ELSE q[i - 1]]
      <3> HIDE DEF of
      <3> QED
        BY <2>1, <2>2
    <2> QED
      BY <2>3 DEF RowIs
  <1> DEFINE row == CHOOSE w : RowIs(f, w)
  <1>7. RowIs(f, row) /\ Smallest(f) = row[stages]
    <2> HIDE DEF q
    <2> QED
      BY <1>6, SmallestIs, Zenon
  <1> HIDE DEF row
  <1>8. \A i \in 1 .. stages : row[i] = Lower(i, row[i - 1])
    <2>1. row = [i \in 1 .. stages |->
                   IF i = 1 \/ of(i) < row[i - 1] THEN of(i) ELSE row[i - 1]]
      BY <1>7 DEF RowIs
    <2> HIDE DEF of
    <2> QED
      BY <2>1
  <1> DEFINE LeastAt(i) == /\ \E l \in 1 .. i : row[i] = of(l)
                           /\ \A l \in 1 .. i : row[i] <= of(l)
             S == {i \in 0 .. stages : i # 0 => LeastAt(i)}
  <1>9. 0 \in S
    BY <1>1
  <1>10. ASSUME NEW i \in 1 .. stages, i - 1 \in S
         PROVE  i \in S
    <2>1. CASE i = 1
      <3>1. row[1] = of(1)
        <4> HIDE DEF of
        <4> QED
          BY <1>8, <2>1
      <3>2. of(1) \in Nat
        BY <1>2, <2>1
      <3> HIDE DEF of
      <3> QED
        BY <1>1, <2>1, <3>1, <3>2
    <2>2. CASE i # 1
      <3>1. LeastAt(i - 1) /\ i - 1 \in 1 .. stages
        BY <1>1, <1>10, <2>2
      <3>2. /\ \A l \in 1 .. i : l = i \/ l \in 1 .. i - 1
            /\ \A l \in 1 .. i - 1 : l \in 1 .. i /\ l \in 1 .. stages
        BY <1>1
      <3>3. row[i] = IF of(i) < row[i - 1] THEN of(i) ELSE row[i - 1]
        <4> HIDE DEF of
        <4> QED
          BY <1>8, <2>2
      <3>4. PICK a : a = row[i - 1]
        OBVIOUS
      <3>5. PICK l \in 1 .. i - 1 : a = of(l)
        BY <3>1, <3>4
      <3>6. a \in Nat /\ of(i) \in Nat
        BY <1>2, <3>2, <3>5
      <3>7. \A m \in 1 .. i - 1 : a <= of(m) /\ of(m) \in Nat
        BY <1>2, <3>1, <3>2, <3>4
      <3>8. \E m \in 1 .. i : row[i] = of(m)
        <4> HIDE DEF of
        <4> QED
          BY <3>2, <3>3, <3>4, <3>5
      <3>9. \A m \in 1 .. i : row[i] <= of(m)
        <4> HIDE DEF of
        <4> QED
          BY <3>2, <3>3, <3>4, <3>6, <3>7
      <3> HIDE DEF of
      <3> QED
        BY <1>1, <3>8, <3>9
    <2> QED
      BY <2>1, <2>2
  <1>11. stages \in S
    <2>1. stages \in 0 .. stages
      BY <1>1
    <2> HIDE DEF S
    <2> QED
      BY <1>1, <1>9, <1>10, <2>1, InductionUpTo
  <1>12. LeastAt(stages)
    BY <1>1, <1>11
  <1> QED
    BY <1>7, <1>12

LEMMA SmallestBounds ==
  ASSUME traces \in Seq(Flows), hash \in Hashes, NEW f \in seen
  PROVE  /\ Smallest(f) \in Nat /\ Smallest(f) >= Number(f)
         /\ (\E i \in 1 .. stages : \A g \in seen \ {f} : h(i, g) # h(i, f))
              => Smallest(f) = Number(f)
  <1>1. PICK i \in 1 .. stages : Smallest(f) = CountMinTable(i, h(i, f))
    BY SmallestOf
  <1>2. Smallest(f) \in Nat /\ Smallest(f) >= Number(f)
    BY <1>1, CountMinCell
  <1>3. ASSUME NEW l \in 1 .. stages, \A g \in seen \ {f} : h(l, g) # h(l, f)
        PROVE  Smallest(f) = Number(f)
    <2>1. Smallest(f) <= CountMinTable(l, h(l, f))
      BY SmallestOf
    <2>2. CountMinTable(l, h(l, f)) = Number(f)
      BY <1>3, CountMinCell
    <2>3. Number(f) \in Nat
      BY Seen
    <2> QED
      BY <1>2, <2>1, <2>2, <2>3
  <1> QED
    BY <1>2, <1>3

LEMMA CountMinLists ==
  ASSUME traces \in Seq(Flows), hash \in Hashes
  PROVE  Lists(Count_Min, seen, [f \in seen |-> Smallest(f)])
  <1> DEFINE n == [f \in seen |-> Smallest(f)]
             Entry(l) == <<retrieve[l][1], Smallest(retrieve[l][1]), l>>
             items == {Entry(l) : l \in DOMAIN retrieve}
             k == [l \in DOMAIN retrieve |-> Entry(l)]
  <1>1. Lists(retrieve, seen, [f \in seen |-> Number(f)])
    BY RetrieveLists
  <1>2. /\ Len(retrieve) \in Nat /\ DOMAIN retrieve = 1 .. Len(retrieve)
        /\ \A l \in DOMAIN retrieve : retrieve[l][1] \in seen
        /\ \A l, m \in DOMAIN retrieve : retrieve[l][1] = retrieve[m][1] => l = m
        /\ \A f \in seen : \E l \in DOMAIN retrieve : retrieve[l][1] = f
    BY <1>1 DEF Lists
  <1>3. IsFiniteSet(items)
    <2>1. IsFiniteSet(DOMAIN retrieve)
      BY <1>2, FS_Interval
    <2>2. k \in [DOMAIN retrieve -> items] /\ (\A x, y \in DOMAIN retrieve : k[x] = k[y] => x = y)
          /\ \A y \in items : \E x \in DOMAIN retrieve : k[x] = y
      OBVIOUS
    <2> HIDE DEF items, k
    <2> QED
      BY <2>1, <2>2, SameNumber
  <1>4. \A a \in items : a[3] \in DOMAIN retrieve /\ a = Entry(a[3])
    OBVIOUS
  <1>5. \A a \in items : a[1] = retrieve[a[3]][1] /\ a[2] = Smallest(a[1])
    OBVIOUS
  <1>6. \A f \in seen : \E a \in items : a[1] = f
    <2> SUFFICES ASSUME NEW f \in seen
                 PROVE  \E a \in items : a[1] = f
      OBVIOUS
    <2>1. PICK l \in DOMAIN retrieve : retrieve[l][1] = f
      BY <1>2
    <2>2. Entry(l) \in items /\ Entry(l)[1] = f
      BY <2>1
    <2> HIDE DEF items, Entry
    <2> QED
      BY <2>2
  <1>7. Count_Min = Descending(items)
    BY DEF Count_Min
  <1> HIDE DEF items, Entry
  <1>8. \A a, b \in items : a[1] = b[1] \/ a[3] = b[3] => a = b
    BY <1>2, <1>4, <1>5
  <1>9. \A a \in items : a[1] \in seen /\ a[3] \in Nat
    BY <1>2, <1>4, <1>5
  <1>10. \A f \in seen : Smallest(f) \in Nat
    BY SmallestBounds
  <1>11. Items(items)
    BY <1>3, <1>5, <1>8, <1>9, <1>10 DEF Items
  <1>12. \A a \in items : a[1] \in seen /\ a[2] = n[a[1]]
    BY <1>5, <1>9
  <1> HIDE DEF n
  <1>13. Lists(Descending(items), seen, n)
    BY <1>6, <1>11, <1>12, ListsItems
  <1> QED
    BY <1>7, <1>13 DEF n

LEMMA CountMinRight == SketchTypes => CountMinAbove
  <1>1. CASE traces = <<>>
    <2>1. ToSet(traces) = {}
      BY <1>1 DEF ToSet
    <2> QED
      BY <2>1 DEF CountMinAbove
  <1>2. CASE hash \in Hashes /\ traces \in Seq(Flows)
    <2> DEFINE n == [f \in seen |-> Smallest(f)]
    <2>1. Lists(Count_Min, seen, n)
      BY <1>2, CountMinLists
    <2>2. n \in [seen -> Nat] /\ IsFiniteSet(seen)
      BY <1>2, SmallestBounds, Seen
    <2>3. \A f \in seen : NumberIn(Count_Min, f) = n[f]
      <3> HIDE DEF n
      <3> QED
        BY <2>1, <2>2, NumbersIn
    <2>4. \A f \in seen : NumberIn(Count_Min, f) = Smallest(f)
      BY <2>3
    <2> QED
      BY <1>2, <2>4, SmallestBounds DEF CountMinAbove, seen
  <1> QED
    BY <1>1, <1>2 DEF SketchTypes

----------------------------------------------------------------------------
(* HashPipe.                                                               *)

Cell == [FID : Flows \cup {NoFlow}, n : Nat]
PipeTables == [1 .. stages -> [Cells -> Cell]]

In(c, f) == IF c.FID = f THEN c.n ELSE 0

LEMMA FinitelyMany ==
  IsFiniteSet(1 .. stages) /\ IsFiniteSet(Cells) /\ IsFiniteSet((1 .. stages) \X Cells)
  <1>1. stages \in Int /\ cell_number - 1 \in Int
    BY SketchesAssumption
  <1>2. IsFiniteSet(1 .. stages) /\ IsFiniteSet(Cells)
    BY <1>1, FS_Interval DEF Cells
  <1> QED
    BY <1>2, FS_Product

LEMMA HeldTyped ==
  ASSUME NEW old \in PipeTables, NEW f
  PROVE  /\ Held(old, f) \in Nat
         /\ \A i \in 1 .. stages, j \in Cells : In(old[i][j], f) <= Held(old, f)
  <1> DEFINE D == (1 .. stages) \X Cells
             a == [c \in D |-> In(old[c[1]][c[2]], f)]
  <1>2. IsFiniteSet(D)
    BY FinitelyMany
  <1>3. a \in [D -> Nat]
    BY DEF In, PipeTables, Cell
  <1>4. Held(old, f) = SumFunction(a)
    BY DEF Held, In
  <1>5. \A i \in 1 .. stages, j \in Cells : <<i, j>> \in D /\ a[<<i, j>>] = In(old[i][j], f)
    BY Zenon
  <1> HIDE DEF D, a
  <1>6. SumFunction(a) \in Nat /\ \A x \in D : a[x] <= SumFunction(a)
    BY <1>2, <1>3, SumTyped
  <1>7. \A i \in 1 .. stages, j \in Cells : a[<<i, j>>] <= SumFunction(a)
    BY <1>5, <1>6
  <1> QED
    BY <1>4, <1>5, <1>6, <1>7

\* What a cell takes or loses, all cells do.
LEMMA HeldChanged ==
  ASSUME NEW old \in PipeTables, NEW i \in 1 .. stages, NEW j \in Cells, NEW c \in Cell, NEW f
  PROVE  /\ [old EXCEPT ![i][j] = c] \in PipeTables
         /\ Held([old EXCEPT ![i][j] = c], f) + In(old[i][j], f) = Held(old, f) + In(c, f)
  <1> DEFINE D == (1 .. stages) \X Cells
             a == [x \in D |-> In(old[x[1]][x[2]], f)]
             new == [old EXCEPT ![i][j] = c]
             b == [x \in D |-> In(new[x[1]][x[2]], f)]
  <1>2. IsFiniteSet(D)
    BY FinitelyMany
  <1>3. new \in PipeTables
    BY DEF PipeTables
  <1>4. /\ new[i][j] = c
        /\ \A l \in 1 .. stages, m \in Cells : l # i \/ m # j => new[l][m] = old[l][m]
    BY DEF PipeTables
  <1> HIDE DEF new
  <1>5. Held(old, f) = SumFunction(a) /\ Held(new, f) = SumFunction(b)
    BY DEF Held, In
  <1>6. a \in [D -> Nat] /\ b \in [D -> Nat]
    BY <1>3 DEF In, PipeTables, Cell
  <1>7. <<i, j>> \in D /\ a[<<i, j>>] = In(old[i][j], f) /\ b[<<i, j>>] = In(c, f)
    BY <1>4
  <1>8. \A x \in D : x # <<i, j>> => a[x] = b[x]
    <2> SUFFICES ASSUME NEW x \in D, x # <<i, j>>
                 PROVE  a[x] = b[x]
      OBVIOUS
    <2>1. x[1] \in 1 .. stages /\ x[2] \in Cells /\ (x[1] # i \/ x[2] # j)
      OBVIOUS
    <2>2. new[x[1]][x[2]] = old[x[1]][x[2]]
      BY <1>4, <2>1
    <2> QED
      BY <2>2
  <1> HIDE DEF D, a, b
  <1>9. SumFunction(a) + b[<<i, j>>] = SumFunction(b) + a[<<i, j>>]
    BY <1>2, <1>6, <1>7, <1>8, SumChanged
  <1>10. Held(new, f) + In(old[i][j], f) = Held(old, f) + In(c, f)
    BY <1>5, <1>7, <1>9
  <1> QED
    BY <1>3, <1>10 DEF new

\* A stage: the tables and what is carried on to the next.
States == [tables : PipeTables, carried : Cell]

LEMMA Swapped ==
  ASSUME hash \in Hashes, NEW i \in 1 .. stages, NEW s \in States, s.carried.FID # NoFlow
  PROVE  LET t == swap(s.tables, i, s.carried)
         IN /\ t \in States
            /\ \A l \in 1 .. stages : l # i => t.tables[l] = s.tables[l]
            /\ \A f \in Flows : Held(t.tables, f) + In(t.carried, f)
                                  = Held(s.tables, f) + In(s.carried, f)
            /\ \A F : /\ NoFlow \in F /\ s.carried.FID \in F
                      /\ \A l \in 1 .. stages, m \in Cells : s.tables[l][m].FID \in F
                      => /\ t.carried.FID \in F
                         /\ \A l \in 1 .. stages, m \in Cells : t.tables[l][m].FID \in F
  <1> DEFINE old == s.tables
             c == s.carried
             idx == h(i, c.FID)
             cell == old[i][idx]
             none == [FID |-> NoFlow, n |-> 0]
             Into(x) == [old EXCEPT ![i][idx] = x]
             more == [FID |-> c.FID, n |-> cell.n + c.n]
             t == swap(old, i, c)
  <1>1. c \in Cell /\ old \in PipeTables /\ c.FID \in Flows /\ c.n \in Nat
    BY DEF States, Cell
  <1>2. idx \in Cells
    BY <1>1, Hashed
  <1>3. cell \in Cell /\ cell.n \in Nat
    BY <1>1, <1>2 DEF PipeTables, Cell
  <1>4. none \in Cell /\ more \in Cell
    BY <1>1, <1>3, SketchesAssumption DEF Cell, NoFlow
  <1>5. \A x \in Cell : /\ Into(x) \in PipeTables
                        /\ Into(x)[i][idx] = x
                        /\ \A l \in 1 .. stages : l # i => Into(x)[l] = old[l]
                        /\ \A l \in 1 .. stages, m \in Cells :
                             l # i \/ m # idx => Into(x)[l][m] = old[l][m]
    <2> HIDE DEF idx, old
    <2> QED
      BY <1>1, <1>2 DEF PipeTables
  <1>6. \A x \in Cell, f \in Flows :
          Held(Into(x), f) + In(cell, f) = Held(old, f) + In(x, f)
    <2> HIDE DEF idx, old, c
    <2> QED
      BY <1>1, <1>2, HeldChanged
  <1>7. \A f \in Flows : /\ Held(old, f) \in Nat /\ In(cell, f) \in Nat /\ In(c, f) \in Nat
                         /\ \A x \in Cell : Held(Into(x), f) \in Nat
    <2> HIDE DEF idx, old, c, cell
    <2> QED
      BY <1>1, <1>3, <1>5, HeldTyped DEF In
  <1>8. \A f \in Flows : In(none, f) = 0
    BY DEF In
  <1>9. CASE cell.FID = c.FID
    <2>1. Into(more) = [old EXCEPT ![i][idx].n = @ + c.n]
      <3>1. [cell EXCEPT !.n = @ + c.n] = more
        BY <1>3, <1>9 DEF Cell
      <3> HIDE DEF idx, c, old
      <3> QED
        BY <1>1, <1>2, <3>1 DEF PipeTables
    <2>2. t = [tables |-> Into(more), carried |-> none]
      BY <1>9, <2>1 DEF swap
    <2>3. \A f \in Flows : In(more, f) = In(cell, f) + In(c, f)
      BY <1>1, <1>3, <1>9 DEF In
    <2>4. \A f \in Flows : Held(t.tables, f) + In(t.carried, f) = Held(old, f) + In(c, f)
      <3> HIDE DEF more, c, old, cell, none, Into, t
      <3> QED
        BY <1>4, <1>6, <1>7, <1>8, <2>2, <2>3
    <2>5. t \in States
      BY <1>4, <1>5, <2>2 DEF States
    <2>6. \A l \in 1 .. stages : l # i => t.tables[l] = old[l]
      BY <1>4, <1>5, <2>2
    <2>7. ASSUME NEW F, NoFlow \in F, c.FID \in F,
                 \A l \in 1 .. stages, m \in Cells : old[l][m].FID \in F
          PROVE  /\ t.carried.FID \in F
                 /\ \A l \in 1 .. stages, m \in Cells : t.tables[l][m].FID \in F
      BY <1>4, <1>5, <2>2, <2>7
    <2> HIDE DEF t
    <2> QED
      BY <2>4, <2>5, <2>6, <2>7 DEF t
  <1>10. CASE cell.FID # c.FID /\ cell.FID = NoFlow
    <2>1. t = [tables |-> Into(c), carried |-> none]
      BY <1>10 DEF swap
    <2>2. \A f \in Flows : In(cell, f) = 0
      BY <1>10, SketchesAssumption DEF In, NoFlow
    <2>3. \A f \in Flows : Held(t.tables, f) + In(t.carried, f) = Held(old, f) + In(c, f)
      <3> HIDE DEF c, old, cell, none, Into, t
      <3> QED
        BY <1>1, <1>6, <1>7, <1>8, <2>1, <2>2
    <2>4. t \in States
      BY <1>1, <1>4, <1>5, <2>1 DEF States
    <2>5. \A l \in 1 .. stages : l # i => t.tables[l] = old[l]
      BY <1>1, <1>5, <2>1
    <2>6. ASSUME NEW F, NoFlow \in F, c.FID \in F,
                 \A l \in 1 .. stages, m \in Cells : old[l][m].FID \in F
          PROVE  /\ t.carried.FID \in F
                 /\ \A l \in 1 .. stages, m \in Cells : t.tables[l][m].FID \in F
      BY <1>1, <1>5, <2>1, <2>6
    <2> HIDE DEF t
    <2> QED
      BY <2>3, <2>4, <2>5, <2>6 DEF t
  <1>11. CASE cell.FID # c.FID /\ cell.FID # NoFlow /\ cell.n < c.n
    <2>1. t = [tables |-> Into(c), carried |-> cell]
      BY <1>11 DEF swap
    <2>2. \A f \in Flows : Held(t.tables, f) + In(t.carried, f) = Held(old, f) + In(c, f)
      <3> HIDE DEF c, old, cell, none, Into, t
      <3> QED
        BY <1>1, <1>6, <1>7, <2>1
    <2>3. t \in States
      BY <1>1, <1>3, <1>5, <2>1 DEF States
    <2>4. \A l \in 1 .. stages : l # i => t.tables[l] = old[l]
      BY <1>1, <1>5, <2>1
    <2>5. ASSUME NEW F, NoFlow \in F, c.FID \in F,
                 \A l \in 1 .. stages, m \in Cells : old[l][m].FID \in F
          PROVE  /\ t.carried.FID \in F
                 /\ \A l \in 1 .. stages, m \in Cells : t.tables[l][m].FID \in F
      BY <1>1, <1>2, <1>5, <2>1, <2>5
    <2> HIDE DEF t
    <2> QED
      BY <2>2, <2>3, <2>4, <2>5 DEF t
  <1>12. CASE cell.FID # c.FID /\ cell.FID # NoFlow /\ ~(cell.n < c.n)
    <2>1. t = [tables |-> old, carried |-> c]
      BY <1>12 DEF swap
    <2>2. t \in States
      BY <1>1, <2>1 DEF States
    <2> HIDE DEF t
    <2> QED
      BY <2>1, <2>2 DEF t
  <1> QED
    BY <1>9, <1>10, <1>11, <1>12

\* A packet's way through the stages.
Entered(old, pkt) ==
  [tables |-> [old EXCEPT ![1][h(1, pkt)] = [FID |-> pkt, n |-> 1]],
   carried |-> old[1][h(1, pkt)]]

Stage(i, s) == IF s.carried.FID = NoFlow THEN s ELSE swap(s.tables, i, s.carried)

PipeIs(old, pkt, pipe) ==
  pipe = [i \in 1 .. stages |-> IF i = 1 THEN Entered(old, pkt) ELSE Stage(i, pipe[i - 1])]

LEMMA PipeUnfolds ==
  ASSUME NEW old, NEW pkt
  PROVE  hash_pipe(old, pkt) =
           IF old[1][h(1, pkt)].FID = pkt THEN [old EXCEPT ![1][h(1, pkt)].n = @ + 1]
           ELSE (CHOOSE pipe : PipeIs(old, pkt, pipe))[stages].tables
  BY Zenon DEF hash_pipe, PipeIs, Stage, Entered

\* The cells are of flows in F, whatever F the flows so far and the packet's are in.
Within(s, F) ==
  s.carried.FID \in F /\ \A l \in 1 .. stages, m \in Cells : s.tables[l][m].FID \in F

Carries(old, pkt, s) ==
  /\ s \in States /\ s.tables[1] = Entered(old, pkt).tables[1]
  /\ \A f \in Flows : Held(s.tables, f) + In(s.carried, f)
                         = Held(old, f) + IF f = pkt THEN 1 ELSE 0
  /\ \A F : /\ NoFlow \in F /\ pkt \in F
            /\ \A l \in 1 .. stages, m \in Cells : old[l][m].FID \in F
            => Within(s, F)

LEMMA Enters ==
  ASSUME hash \in Hashes, NEW old \in PipeTables, NEW pkt \in Flows
  PROVE  /\ Entered(old, pkt) \in States
         /\ old[1][h(1, pkt)].FID # pkt => Carries(old, pkt, Entered(old, pkt))
  <1> DEFINE idx == h(1, pkt)
             one == [FID |-> pkt, n |-> 1]
             new == [old EXCEPT ![1][idx] = one]
             s == Entered(old, pkt)
  <1>1. idx \in Cells /\ 1 \in 1 .. stages
    BY Hashed, SketchesAssumption
  <1>2. one \in Cell /\ old[1][idx] \in Cell
    BY <1>1 DEF Cell, PipeTables
  <1>3. s = [tables |-> new, carried |-> old[1][idx]]
    BY DEF Entered
  <1>4. /\ new \in PipeTables
        /\ \A f : Held(new, f) + In(old[1][idx], f) = Held(old, f) + In(one, f)
    <2> HIDE DEF idx, one
    <2> QED
      BY <1>1, <1>2, HeldChanged
  <1>5. s \in States
    BY <1>2, <1>3, <1>4 DEF States
  <1>6. ASSUME NEW F, NoFlow \in F, pkt \in F,
               \A l \in 1 .. stages, m \in Cells : old[l][m].FID \in F
        PROVE  Within(s, F)
    <2>1. \A l \in 1 .. stages, m \in Cells : new[l][m].FID \in F
      BY <1>1, <1>6 DEF PipeTables
    <2> HIDE DEF new
    <2> QED
      BY <1>1, <1>3, <1>6, <2>1 DEF Within
  <1>7. \A f \in Flows : In(one, f) = IF f = pkt THEN 1 ELSE 0
    BY DEF In
  <1>8. \A f \in Flows : Held(s.tables, f) + In(s.carried, f)
                             = Held(old, f) + IF f = pkt THEN 1 ELSE 0
    <2> HIDE DEF new, one
    <2> QED
      BY <1>3, <1>4, <1>7
  <1> QED
    BY <1>5, <1>6, <1>8 DEF Carries

LEMMA NextStage ==
  ASSUME hash \in Hashes, NEW old \in PipeTables, NEW pkt \in Flows,
         NEW i \in 2 .. stages, NEW s, Carries(old, pkt, s)
  PROVE  Carries(old, pkt, Stage(i, s))
  <1>1. CASE s.carried.FID = NoFlow
    BY <1>1 DEF Stage
  <1>2. CASE s.carried.FID # NoFlow
    <2> DEFINE t == swap(s.tables, i, s.carried)
    <2>1. s \in States /\ i \in 1 .. stages /\ 1 \in 1 .. stages /\ i # 1
      BY SketchesAssumption DEF Carries
    <2>2. /\ t \in States
          /\ \A l \in 1 .. stages : l # i => t.tables[l] = s.tables[l]
          /\ \A f \in Flows : Held(t.tables, f) + In(t.carried, f)
                                = Held(s.tables, f) + In(s.carried, f)
          /\ \A F : /\ NoFlow \in F /\ s.carried.FID \in F
                    /\ \A l \in 1 .. stages, m \in Cells : s.tables[l][m].FID \in F
                    => /\ t.carried.FID \in F
                       /\ \A l \in 1 .. stages, m \in Cells : t.tables[l][m].FID \in F
      BY <1>2, <2>1, Swapped
    <2>3. Stage(i, s) = t
      BY <1>2 DEF Stage
    <2> HIDE DEF t
    <2>4. \A F : NoFlow \in F /\ Within(s, F) => Within(t, F)
      BY <2>2 DEF Within
    <2>5. t.tables[1] = Entered(old, pkt).tables[1]
      BY <2>1, <2>2 DEF Carries
    <2>6. \A f \in Flows : Held(t.tables, f) + In(t.carried, f)
                               = Held(old, f) + IF f = pkt THEN 1 ELSE 0
      BY <2>2 DEF Carries
    <2>7. ASSUME NEW F, NoFlow \in F, pkt \in F,
                 \A l \in 1 .. stages, m \in Cells : old[l][m].FID \in F
          PROVE  Within(t, F)
      <3>1. Within(s, F)
        BY <2>7 DEF Carries
      <3> QED
        BY <2>4, <2>7, <3>1
    <2>8. Carries(old, pkt, t)
      BY <2>2, <2>5, <2>6, <2>7 DEF Carries
    <2> QED
      BY <2>3, <2>8
  <1> QED
    BY <1>1, <1>2

LEMMA PipeEnds ==
  ASSUME hash \in Hashes, NEW old \in PipeTables, NEW pkt \in Flows,
         old[1][h(1, pkt)].FID # pkt
  PROVE  \E s : hash_pipe(old, pkt) = s.tables /\ Carries(old, pkt, s)
  <1> DEFINE V == {s \in States : Carries(old, pkt, s)}
             base == Entered(old, pkt)
             step == [p \in Nat \X V |-> IF p[1] \in 2 .. stages THEN Stage(p[1], p[2]) ELSE p[2]]
  <1>1. stages \in Nat /\ stages >= 2
    BY SketchesAssumption
  <1>2. base \in V
    BY Enters
  <1>3. step \in [Nat \X V -> V]
    <2> SUFFICES ASSUME NEW p \in Nat \X V
                 PROVE  (IF p[1] \in 2 .. stages THEN Stage(p[1], p[2]) ELSE p[2]) \in V
      OBVIOUS
    <2>1. p[2] \in V
      OBVIOUS
    <2>2. CASE p[1] \in 2 .. stages
      <3>1. Carries(old, pkt, Stage(p[1], p[2]))
        BY <2>1, <2>2, NextStage
      <3>2. Stage(p[1], p[2]) \in V
        BY <3>1 DEF Carries
      <3> QED
        BY <2>2, <3>2
    <2> QED
      BY <2>1, <2>2
  <1>4. PICK r \in [0 .. stages -> V] : RecursionUpTo(stages, r, base, step)
    <2> HIDE DEF V, base, step
    <2> QED
      BY <1>1, <1>2, <1>3, Recursion
  <1>5. r[0] = base /\ \A i \in 1 .. stages : r[i] = IF i = 1 THEN base ELSE Stage(i, r[i - 1])
    <2> HIDE DEF V, base
    <2>1. r[0] = base /\ \A i \in 1 .. stages : r[i] = step[<<i, r[i - 1]>>]
      <3> HIDE DEF step
      <3> QED
        BY <1>4 DEF RecursionUpTo
    <2>2. \A i \in 1 .. stages : <<i, r[i - 1]>> \in Nat \X V
      BY <1>1, <1>4
    <2>3. \A i \in 1 .. stages :
            r[i] = IF i \in 2 .. stages THEN Stage(i, r[i - 1]) ELSE r[i - 1]
      <3>1. \A p \in Nat \X V :
              step[p] = IF p[1] \in 2 .. stages THEN Stage(p[1], p[2]) ELSE p[2]
        OBVIOUS
      <3> HIDE DEF step
      <3> QED
        BY <2>1, <2>2, <3>1
    <2>4. ASSUME NEW i \in 1 .. stages
          PROVE  r[i] = IF i = 1 THEN base ELSE Stage(i, r[i - 1])
      <3>1. CASE i = 1
        <4>1. i \notin 2 .. stages /\ i - 1 = 0
          BY <3>1
        <4> QED
          BY <2>1, <2>3, <3>1, <4>1
      <3>2. CASE i # 1
        <4>1. i \in 2 .. stages
          BY <1>1, <3>2
        <4> QED
          BY <2>3, <3>2, <4>1
      <3> QED
        BY <3>1, <3>2
    <2> QED
      BY <2>1, <2>4
  <1> DEFINE q == [i \in 1 .. stages |-> r[i]]
  <1> HIDE DEF V, base, step
  <1>6. PipeIs(old, pkt, q)
    <2>1. \A i \in 1 .. stages : q[i] = IF i = 1 THEN base ELSE Stage(i, q[i - 1])
      <3> SUFFICES ASSUME NEW i \in 1 .. stages
                   PROVE  q[i] = IF i = 1 THEN base ELSE Stage(i, q[i - 1])
        OBVIOUS
      <3>1. i # 1 => i - 1 \in 1 .. stages
        BY <1>1
      <3>2. i # 1 => q[i - 1] = r[i - 1]
        BY <3>1
      <3> QED
        BY <1>5, <3>2
    <2>2. q = [i \in 1 .. stages |-> q[i]]
      OBVIOUS
    <2> HIDE DEF q
    <2>3. q = [i \in 1 .. stages |-> IF i = 1 THEN base ELSE Stage(i, q[i - 1])]
      BY <2>1, <2>2
    <2> QED
      BY <2>3 DEF PipeIs, base
  <1> DEFINE pipe == CHOOSE w : PipeIs(old, pkt, w)
  <1>7. PipeIs(old, pkt, pipe)
    <2> HIDE DEF q
    <2> QED
      BY <1>6, Zenon
  <1>8. hash_pipe(old, pkt) = pipe[stages].tables
    BY PipeUnfolds, Zenon
  <1> HIDE DEF pipe, q
  <1>9. \A i \in 1 .. stages : pipe[i] = IF i = 1 THEN base ELSE Stage(i, pipe[i - 1])
    <2>1. pipe = [i \in 1 .. stages |-> IF i = 1 THEN base ELSE Stage(i, pipe[i - 1])]
      BY <1>7 DEF PipeIs, base
    <2> QED
      BY <2>1
  <1> DEFINE S == {i \in 0 .. stages : i # 0 => Carries(old, pkt, pipe[i])}
  <1>10. 0 \in S
    BY <1>1
  <1>11. ASSUME NEW i \in 1 .. stages, i - 1 \in S
         PROVE  i \in S
    <2>1. CASE i = 1
      <3>1. pipe[i] = base /\ Carries(old, pkt, base)
        BY <1>2, <1>9, <2>1 DEF V
      <3> QED
        BY <1>1, <3>1
    <2>2. CASE i # 1
      <3>1. Carries(old, pkt, pipe[i - 1]) /\ pipe[i] = Stage(i, pipe[i - 1]) /\ i \in 2 .. stages
        BY <1>1, <1>9, <1>11, <2>2
      <3>2. Carries(old, pkt, Stage(i, pipe[i - 1]))
        BY <3>1, NextStage
      <3> QED
        BY <1>1, <3>1, <3>2
    <2> QED
      BY <2>1, <2>2
  <1>12. stages \in S
    <2>1. stages \in 0 .. stages
      BY <1>1
    <2> HIDE DEF S
    <2> QED
      BY <1>1, <1>10, <1>11, <2>1, InductionUpTo
  <1> QED
    BY <1>1, <1>8, <1>12

\* What a packet changes.
LEMMA Piped ==
  ASSUME hash \in Hashes, NEW old \in PipeTables, NEW pkt \in Flows
  PROVE  LET new == hash_pipe(old, pkt)
             idx == h(1, pkt)
         IN /\ new \in PipeTables
            /\ \A f \in Flows : Held(new, f) <= Held(old, f) + IF f = pkt THEN 1 ELSE 0
            /\ \A F : /\ NoFlow \in F /\ pkt \in F
                      /\ \A l \in 1 .. stages, m \in Cells : old[l][m].FID \in F
                      => \A l \in 1 .. stages, m \in Cells : new[l][m].FID \in F
            /\ new[1][idx] = [FID |-> pkt,
                               n |-> IF old[1][idx].FID = pkt THEN old[1][idx].n + 1 ELSE 1]
            /\ \A m \in Cells : m # idx => new[1][m] = old[1][m]
  <1> DEFINE idx == h(1, pkt)
             cell == old[1][idx]
             new == hash_pipe(old, pkt)
  <1>1. idx \in Cells /\ 1 \in 1 .. stages
    BY Hashed, SketchesAssumption
  <1>2. cell \in Cell
    BY <1>1 DEF PipeTables
  <1>3. CASE cell.FID = pkt
    <2> DEFINE more == [FID |-> pkt, n |-> cell.n + 1]
    <2>1. more \in Cell
      BY <1>2 DEF Cell
    <2>2. new = [old EXCEPT ![1][idx] = more]
      <3>1. new = [old EXCEPT ![1][idx].n = @ + 1]
        BY <1>3, PipeUnfolds, Zenon
      <3>2. [cell EXCEPT !.n = @ + 1] = more
        BY <1>2, <1>3 DEF Cell
      <3> HIDE DEF idx, new, more
      <3> QED
        BY <1>1, <3>1, <3>2 DEF PipeTables
    <2> HIDE DEF new
    <2>3. /\ new \in PipeTables
          /\ \A f : Held(new, f) + In(cell, f) = Held(old, f) + In(more, f)
      <3> HIDE DEF idx, more
      <3> QED
        BY <1>1, <2>1, <2>2, HeldChanged
    <2>4. \A f \in Flows : /\ In(more, f) = In(cell, f) + IF f = pkt THEN 1 ELSE 0
                           /\ In(cell, f) \in Nat
      BY <1>2, <1>3 DEF In, Cell
    <2>5. \A f \in Flows : Held(new, f) \in Nat /\ Held(old, f) \in Nat
      BY <2>3, HeldTyped
    <2>6. \A f \in Flows : Held(new, f) <= Held(old, f) + IF f = pkt THEN 1 ELSE 0
      <3> HIDE DEF more, cell
      <3> QED
        BY <2>3, <2>4, <2>5
    <2>7. /\ new[1][idx] = more /\ \A m \in Cells : m # idx => new[1][m] = old[1][m]
          /\ \A l \in 1 .. stages, m \in Cells : l # 1 \/ m # idx => new[l][m] = old[l][m]
      <3> HIDE DEF more, idx
      <3> QED
        BY <1>1, <2>2 DEF PipeTables
    <2>8. ASSUME NEW F, NoFlow \in F, pkt \in F,
                 \A l \in 1 .. stages, m \in Cells : old[l][m].FID \in F
          PROVE  \A l \in 1 .. stages, m \in Cells : new[l][m].FID \in F
      BY <2>7, <2>8
    <2> QED
      BY <1>3, <2>3, <2>6, <2>7, <2>8 DEF new
  <1>4. CASE cell.FID # pkt
    <2>1. PICK s : new = s.tables /\ Carries(old, pkt, s)
      BY <1>4, PipeEnds
    <2> HIDE DEF new
    <2>2. new \in PipeTables /\ s.carried \in Cell
      BY <2>1 DEF Carries, States
    <2>3. \A f \in Flows : /\ Held(new, f) + In(s.carried, f) = Held(old, f) + IF f = pkt THEN 1 ELSE 0
                           /\ In(s.carried, f) \in Nat
                           /\ Held(new, f) \in Nat /\ Held(old, f) \in Nat
      <3>1. \A f \in Flows : In(s.carried, f) \in Nat
        BY <2>2 DEF In, Cell
      <3> QED
        BY <2>1, <2>2, <3>1, HeldTyped DEF Carries
    <2>4. \A f \in Flows : Held(new, f) <= Held(old, f) + IF f = pkt THEN 1 ELSE 0
      BY <2>3
    <2>5. \A F : /\ NoFlow \in F /\ pkt \in F
                 /\ \A l \in 1 .. stages, m \in Cells : old[l][m].FID \in F
                 => \A l \in 1 .. stages, m \in Cells : new[l][m].FID \in F
      BY <2>1 DEF Carries, Within
    <2>6. new[1] = Entered(old, pkt).tables[1]
      BY <2>1 DEF Carries
    <2>7. Entered(old, pkt).tables[1] = [old[1] EXCEPT ![idx] = [FID |-> pkt, n |-> 1]]
      <3> HIDE DEF idx
      <3> QED
        BY <1>1 DEF PipeTables, Entered, idx
    <2>8. old[1] \in [Cells -> Cell]
      BY <1>1 DEF PipeTables
    <2>9. /\ new[1][idx] = [FID |-> pkt, n |-> 1]
          /\ \A m \in Cells : m # idx => new[1][m] = old[1][m]
      <3> HIDE DEF idx
      <3> QED
        BY <1>1, <2>6, <2>7, <2>8
    <2> QED
      BY <1>4, <2>2, <2>4, <2>5, <2>9 DEF new
  <1> QED
    BY <1>3, <1>4

----------------------------------------------------------------------------
(* The inductive invariant of the sketches.                                *)

Alone(f) == \A g \in seen \ {f} : h(1, g) # h(1, f)

PipeInv ==
  /\ tables \in PipeTables
  /\ \A l \in 1 .. stages, m \in Cells : tables[l][m].FID \in seen \cup {NoFlow}
  /\ \A f \in Flows : Held(tables, f) <= Number(f)
  /\ \A f \in seen : Alone(f) => tables[1][h(1, f)] = [FID |-> f, n |-> Number(f)]
  /\ \A f : traces # <<>> /\ f = traces[Len(traces)] =>
       tables[1][h(1, f)].FID = f /\ tables[1][h(1, f)].n > 0

SketchInv ==
  \/ part # "sketches" /\ traces = <<>>
  \/ part = "sketches" /\ hash \in Hashes /\ traces \in Seq(Flows) /\ PipeInv

LEMMA InitSketches == Init => SketchInv
  <1>1. ASSUME SketchesInit, part = "sketches"
        PROVE  SketchInv
    <2>1. hash \in Hashes /\ traces = <<>> /\ traces \in Seq(Flows)
      BY <1>1 DEF SketchesInit
    <2>2. seen = {}
      BY <2>1 DEF seen, ToSet
    <2>3. tables = [i \in 1 .. stages |-> [j \in Cells |-> [FID |-> NoFlow, n |-> 0]]]
      BY <1>1 DEF SketchesInit
    <2>4. tables \in PipeTables
      BY <2>3 DEF PipeTables, Cell
    <2>5. \A l \in 1 .. stages, m \in Cells : tables[l][m].FID = NoFlow
      BY <2>3
    <2>6. ASSUME NEW f \in Flows
          PROVE  Held(tables, f) <= Number(f)
      <3> DEFINE D == (1 .. stages) \X Cells
                 a == [c \in D |-> IF tables[c[1]][c[2]].FID = f THEN tables[c[1]][c[2]].n ELSE 0]
      <3>1. Held(tables, f) = SumFunction(a)
        BY DEF Held
      <3>2. f # NoFlow
        BY SketchesAssumption DEF NoFlow
      <3>3. \A c \in D : a[c] = 0
        BY <2>5, <3>2
      <3>4. a \in [D -> Nat]
        BY <3>3
      <3>5. SumFunction(a) = 0
        <4> HIDE DEF a
        <4> QED
          BY <3>3, <3>4, FinitelyMany, SumZeros
      <3>6. Number(f) \in Nat
        BY <2>1, Seen
      <3> QED
        BY <3>1, <3>5, <3>6
    <2> QED
      BY <1>1, <2>1, <2>2, <2>4, <2>5, <2>6 DEF SketchInv, PipeInv
  <1> QED
    BY <1>1 DEF Init, NoSketches, SketchInv

LEMMA Appended ==
  ASSUME traces \in Seq(Flows), NEW pkt \in Flows, traces' = Append(traces, pkt)
  PROVE  /\ traces' \in Seq(Flows) /\ seen' = seen \cup {pkt}
         /\ traces'[Len(traces')] = pkt
         /\ \A f : Number(f)' = Number(f) + IF f = pkt THEN 1 ELSE 0
  <1> DEFINE N == Len(traces)
  <1>1. N \in Nat /\ DOMAIN traces = 1 .. N /\ IsFiniteSet(DOMAIN traces)
    BY Seen
  <1>2. /\ traces' \in Seq(Flows) /\ Len(traces') = N + 1 /\ DOMAIN traces' = 1 .. N + 1
        /\ traces'[N + 1] = pkt /\ \A i \in 1 .. N : traces'[i] = traces[i]
    BY AppendProperties, LenProperties
  <1>3. \A i \in 1 .. N + 1 : i = N + 1 \/ i \in 1 .. N
    BY <1>1
  <1>4. seen' = seen \cup {pkt}
    <2>1. seen' = {traces'[i] : i \in 1 .. N + 1}
      BY <1>2 DEF seen, ToSet
    <2>2. seen = {traces[i] : i \in 1 .. N}
      BY <1>1 DEF seen, ToSet
    <2>3. \A i \in 1 .. N : i \in 1 .. N + 1
      BY <1>1
    <2>4. N + 1 \in 1 .. N + 1
      BY <1>1
    <2> HIDE DEF N
    <2> QED
      BY <1>2, <1>3, <2>1, <2>2, <2>3, <2>4
  <1>5. ASSUME NEW f
        PROVE  Number(f)' = Number(f) + IF f = pkt THEN 1 ELSE 0
    <2> DEFINE old == {i \in DOMAIN traces : traces[i] = f}
               new == {i \in DOMAIN traces' : traces'[i] = f}
    <2>1. new = IF f = pkt THEN old \cup {N + 1} ELSE old
      <3>1. \A i \in 1 .. N : i \in 1 .. N + 1 /\ i # N + 1
        BY <1>1
      <3>2. N + 1 \in 1 .. N + 1
        BY <1>1
      <3> HIDE DEF N
      <3> QED
        BY <1>1, <1>2, <1>3, <3>1, <3>2
    <2>2. N + 1 \notin old
      BY <1>1
    <2>3. IsFiniteSet(old) /\ Cardinality(old) \in Nat
      BY <1>1, FS_Subset, FS_CardinalityType
    <2>4. Number(f) = Cardinality(old) /\ Number(f)' = Cardinality(new)
      BY DEF Number
    <2> HIDE DEF old, new, N
    <2>5. Cardinality(old \cup {N + 1}) = Cardinality(old) + 1
      BY <2>2, <2>3, FS_AddElement
    <2> QED
      BY <2>1, <2>3, <2>4, <2>5
  <1> QED
    BY <1>1, <1>2, <1>4, <1>5

LEMMA NextSketches == SketchInv /\ [Next]_vars => SketchInv'
  <1> SUFFICES ASSUME SketchInv, [Next]_vars
               PROVE  SketchInv'
    OBVIOUS
  <1>1. CASE UNCHANGED <<part, sketchVars>>
    <2>1. /\ part' = part /\ hash' = hash /\ traces' = traces /\ tables' = tables
      BY <1>1 DEF sketchVars
    <2>2. seen' = seen /\ \A i, f : h(i, f)' = h(i, f)
      BY <2>1 DEF seen, h
    <2>3. \A f : Number(f)' = Number(f) /\ Alone(f)' = Alone(f)
      BY <2>1, <2>2 DEF Number, Alone, seen, h
    <2>4. PipeInv' = PipeInv
      BY <2>1, <2>2, <2>3 DEF PipeInv
    <2> QED
      BY <2>1, <2>4 DEF SketchInv
  <1>2. ASSUME part = "sketches", SketchesNext, part' = part
        PROVE  SketchInv'
    <2>1. PICK pkt \in Flows : Packet(pkt)
      BY <1>2 DEF SketchesNext
    <2>2. hash \in Hashes /\ traces \in Seq(Flows) /\ PipeInv
      BY <1>2 DEF SketchInv
    <2>3. traces' = Append(traces, pkt) /\ tables' = hash_pipe(tables, pkt) /\ hash' = hash
      BY <2>1 DEF Packet
    <2>4. /\ traces' \in Seq(Flows) /\ seen' = seen \cup {pkt}
          /\ traces'[Len(traces')] = pkt
          /\ \A f : Number(f)' = Number(f) + IF f = pkt THEN 1 ELSE 0
      BY <2>2, <2>3, Appended
    <2>5. \A i, f : h(i, f)' = h(i, f)
      BY <2>3 DEF h
    <2>6. tables \in PipeTables
      BY <2>2 DEF PipeInv
    <2> DEFINE idx == h(1, pkt)
    <2>7. /\ tables' \in PipeTables
          /\ \A f \in Flows : Held(tables', f) <= Held(tables, f) + IF f = pkt THEN 1 ELSE 0
          /\ \A F : /\ NoFlow \in F /\ pkt \in F
                    /\ \A l \in 1 .. stages, m \in Cells : tables[l][m].FID \in F
                    => \A l \in 1 .. stages, m \in Cells : tables'[l][m].FID \in F
          /\ tables'[1][idx] =
               [FID |-> pkt,
                n |-> IF tables[1][idx].FID = pkt THEN tables[1][idx].n + 1 ELSE 1]
          /\ \A m \in Cells : m # idx => tables'[1][m] = tables[1][m]
      BY <2>2, <2>3, <2>6, Piped
    <2>8. idx \in Cells /\ 1 \in 1 .. stages /\ \A f \in Flows : h(1, f) \in Cells
      BY <2>2, Hashed, SketchesAssumption
    <2>9. \A f : Number(f) \in Nat
      BY <2>2, Seen
    <2>10. \A l \in 1 .. stages, m \in Cells : tables'[l][m].FID \in seen' \cup {NoFlow}
      <3>1. \A l \in 1 .. stages, m \in Cells : tables[l][m].FID \in seen' \cup {NoFlow}
        BY <2>2, <2>4 DEF PipeInv
      <3>2. NoFlow \in seen' \cup {NoFlow} /\ pkt \in seen' \cup {NoFlow}
        BY <2>4
      <3> DEFINE F == seen' \cup {NoFlow}
      <3> HIDE DEF F
      <3>3. \A l \in 1 .. stages, m \in Cells : tables'[l][m].FID \in F
        BY <2>7, <3>1, <3>2 DEF F
      <3> QED
        BY <3>3 DEF F
    <2>11. ASSUME NEW f \in Flows
           PROVE  Held(tables', f) <= Number(f)'
      <3>1. Held(tables, f) \in Nat /\ Held(tables', f) \in Nat
        BY <2>6, <2>7, HeldTyped
      <3>2. Held(tables, f) <= Number(f) /\ Number(f) \in Nat
        BY <2>2, <2>9 DEF PipeInv
      <3>3. Held(tables', f) <= Held(tables, f) + IF f = pkt THEN 1 ELSE 0
        BY <2>7
      <3>4. Number(f)' = Number(f) + IF f = pkt THEN 1 ELSE 0
        BY <2>4
      <3> QED
        BY <3>1, <3>2, <3>3, <3>4
    <2>12. ASSUME NEW f \in seen', \A g \in seen' \ {f} : h(1, g) # h(1, f)
           PROVE  tables'[1][h(1, f)] = [FID |-> f, n |-> Number(f)']
      <3>1. \A g \in seen \ {f} : h(1, g) # h(1, f)
        BY <2>4, <2>12
      <3>2. seen \subseteq Flows
        BY <2>2, Seen
      <3>3. f \in seen => tables[1][h(1, f)] = [FID |-> f, n |-> Number(f)]
        BY <2>2, <3>1 DEF PipeInv, Alone
      <3>4. CASE f = pkt /\ f \in seen
        BY <2>4, <2>7, <3>3, <3>4
      <3>5. CASE f = pkt /\ f \notin seen
        <4>1. tables[1][idx].FID \in seen \cup {NoFlow} /\ pkt # NoFlow
          BY <2>2, <2>8, SketchesAssumption DEF PipeInv, NoFlow
        <4>2. tables[1][idx].FID # pkt
          BY <3>5, <4>1
        <4>3. Number(f) = 0
          <5>1. {i \in DOMAIN traces : traces[i] = f} = {}
            BY <3>5 DEF seen, ToSet
          <5> QED
            BY <5>1, FS_EmptySet DEF Number
        <4> QED
          BY <2>4, <2>7, <3>5, <4>2, <4>3
      <3>6. CASE f # pkt
        <4>1. f \in seen /\ f \in Flows /\ pkt \in seen' \ {f}
          BY <2>4, <3>2, <3>6
        <4>2. h(1, f) # idx /\ h(1, f) \in Cells
          BY <2>8, <2>12, <4>1
        <4>3. Number(f)' = Number(f)
          BY <2>4, <2>9, <3>6
        <4> QED
          BY <2>7, <3>3, <4>1, <4>2, <4>3
      <3> QED
        BY <3>4, <3>5, <3>6
    <2>13. tables'[1][idx].FID = pkt /\ tables'[1][idx].n > 0
      <3>1. tables[1][idx].n \in Nat
        BY <2>6, <2>8 DEF PipeTables, Cell
      <3> QED
        BY <2>7, <3>1
    <2>14. \A f : Alone(f)' = \A g \in seen' \ {f} : h(1, g) # h(1, f)
      BY <2>5 DEF Alone
    <2>15. PipeInv'
      <3>1. \A f \in Flows : Held(tables, f)' <= Number(f)'
        BY <2>11 DEF Held
      <3>2. \A f \in seen' : Alone(f)' => tables'[1][h(1, f)'] = [FID |-> f, n |-> Number(f)']
        BY <2>5, <2>12, <2>14
      <3>3. \A f : traces' # <<>> /\ f = traces'[Len(traces')] =>
              tables'[1][h(1, f)'].FID = f /\ tables'[1][h(1, f)'].n > 0
        BY <2>4, <2>5, <2>13
      <3> QED
        BY <2>7, <2>10, <3>1, <3>2, <3>3 DEF PipeInv
    <2> QED
      BY <1>2, <2>2, <2>3, <2>4, <2>15 DEF SketchInv
  <1> QED
    BY <1>1, <1>2 DEF Next, vars

----------------------------------------------------------------------------
(* HashPipe's answer.                                                      *)

Piping == {tables[l][m].FID : l \in 1 .. stages, m \in Cells} \ {NoFlow}

\* The cells are retrieved stage by stage.
LEMMA InOrder ==
  ASSUME NEW s \in Nat \ {0}, NEW n \in Nat \ {0}
  PROVE  /\ \A l \in 1 .. s * n : (l - 1) \div n + 1 \in 1 .. s /\ (l - 1) % n \in 0 .. n - 1
         /\ \A i \in 1 .. s, j \in 0 .. n - 1 :
              \E l \in 1 .. s * n : (l - 1) \div n + 1 = i /\ (l - 1) % n = j
  <1>4. s \in Nat \ {0} /\ n \in Nat \ {0}
    OBVIOUS
  <1>5. ASSUME NEW l \in 1 .. s * n
        PROVE  (l - 1) \div n + 1 \in 1 .. s /\ (l - 1) % n \in 0 .. n - 1
    <2>1. s * n \in Nat
      BY <1>4
    <2>2. PICK a : a = l - 1
      OBVIOUS
    <2>3. a \in Nat /\ a < s * n
      BY <2>1, <2>2
    <2>4. a < n * s
      BY <1>4, <2>3
    <2>5. a \div n < s
      BY <1>4, <2>3, <2>4, DivBelow
    <2>6. a \div n \in Nat /\ a % n \in 0 .. n - 1
      <3>1. a \in Int
        BY <2>3
      <3>2. a \in Nat
        BY <2>3
      <3> QED
        BY <1>4, <3>1, <3>2, DivMod
    <2>7. a \div n + 1 \in 1 .. s
      <3> DEFINE q == a \div n
      <3> HIDE DEF q
      <3>1. q \in Nat /\ q < s
        BY <2>5, <2>6 DEF q
      <3>2. q + 1 \in 1 .. s
        BY <1>4, <3>1
      <3> QED
        BY <3>2 DEF q
    <2> QED
      BY <2>2, <2>6, <2>7
  <1>6. ASSUME NEW i \in 1 .. s, NEW j \in 0 .. n - 1
        PROVE  \E l \in 1 .. s * n : (l - 1) \div n + 1 = i /\ (l - 1) % n = j
    <2>1. PICK b : b = i - 1
      OBVIOUS
    <2>2. b \in Nat /\ j \in Nat /\ j < n /\ b + 1 <= s /\ i = b + 1
      BY <1>4, <2>1
    <2>3. b * n \in Nat /\ (b + 1) * n = b * n + n /\ (b + 1) * n <= s * n
      BY <1>4, <2>2
    <2>4. PICK a : a = b * n + j
      OBVIOUS
    <2>5. a \in Int /\ b * n <= a /\ a < (b + 1) * n /\ a - b * n = j
      BY <1>4, <2>2, <2>3, <2>4
    <2>6. a \div n = b /\ a % n = a - b * n
      BY <1>4, <2>2, <2>5, DivIs
    <2>7. PICK l : l = a + 1
      OBVIOUS
    <2>8. a + 1 \in 1 .. s * n
      <3>1. PICK p : p = s * n
        OBVIOUS
      <3>2. PICK q : q = (b + 1) * n
        OBVIOUS
      <3>3. p \in Nat /\ q \in Nat /\ q <= p
        BY <1>4, <2>2, <2>3, <3>1, <3>2
      <3>4. a \in Nat /\ a < q
        BY <2>2, <2>3, <2>4, <2>5, <3>2
      <3>5. a + 1 \in 1 .. p
        BY <3>3, <3>4
      <3> QED
        BY <3>1, <3>5
    <2>9. l - 1 = a
      BY <2>5, <2>7
    <2>10. (l - 1) \div n + 1 = i /\ (l - 1) % n = j
      BY <2>2, <2>5, <2>6, <2>9
    <2>11. l \in 1 .. s * n
      BY <2>7, <2>8
    <2> QED
      BY <2>10, <2>11
  <1> QED
    BY <1>5, <1>6

LEMMA CellsInOrder ==
  /\ \A l \in 1 .. stages * cell_number :
       (l - 1) \div cell_number + 1 \in 1 .. stages /\ (l - 1) % cell_number \in Cells
  /\ \A i \in 1 .. stages, j \in Cells :
       \E l \in 1 .. stages * cell_number :
         (l - 1) \div cell_number + 1 = i /\ (l - 1) % cell_number = j
  <1>1. stages \in Nat \ {0} /\ cell_number \in Nat \ {0}
    BY SketchesAssumption
  <1> QED
    BY <1>1, InOrder, Zenon DEF Cells

LEMMA PipeLists ==
  ASSUME hash \in Hashes, traces \in Seq(Flows), PipeInv
  PROVE  /\ Piping \subseteq seen
         /\ Lists(RetrievePipe, Piping, [f \in seen |-> Held(tables, f)])
  <1> DEFINE n == [f \in seen |-> Held(tables, f)]
             N == stages * cell_number
             of(l) == tables[(l - 1) \div cell_number + 1][(l - 1) % cell_number].FID
             cells == [l \in 1 .. N |-> of(l)]
             items == {<<f, Held(tables, f), First(cells, f)>> : f \in ToSet(cells) \ {NoFlow}}
  <1>1. tables \in PipeTables /\ \A l \in 1 .. stages, m \in Cells : tables[l][m].FID \in seen \cup {NoFlow}
    BY DEF PipeInv
  <1>2. Piping \subseteq seen
    BY <1>1 DEF Piping
  <1>3. N \in Nat
    BY SketchesAssumption
  <1>4. \A l \in 1 .. N : of(l) \in seen \cup {NoFlow}
    BY <1>1, CellsInOrder
  <1>5. cells \in Seq(seen \cup {NoFlow}) /\ DOMAIN cells = 1 .. N
    <2>1. cells \in [1 .. N -> seen \cup {NoFlow}]
      BY <1>4
    <2> HIDE DEF cells, N
    <2> QED
      BY <1>3, <2>1
  <1>6. ToSet(cells) \ {NoFlow} = Piping
    <2>1. ASSUME NEW f \in ToSet(cells) \ {NoFlow}
          PROVE  f \in Piping
      <3>1. PICK l \in 1 .. N : f = of(l)
        BY <2>1 DEF ToSet
      <3>2. PICK i \in 1 .. stages : i = (l - 1) \div cell_number + 1
        BY CellsInOrder
      <3>3. PICK j \in Cells : j = (l - 1) % cell_number
        BY CellsInOrder
      <3>4. f = tables[i][j].FID
        BY <3>1, <3>2, <3>3
      <3> QED
        BY <2>1, <3>4 DEF Piping
    <2>2. ASSUME NEW f \in Piping
          PROVE  f \in ToSet(cells) \ {NoFlow}
      <3>1. PICK i \in 1 .. stages, j \in Cells : f = tables[i][j].FID
        BY DEF Piping
      <3>3. PICK l \in 1 .. N : (l - 1) \div cell_number + 1 = i /\ (l - 1) % cell_number = j
        BY CellsInOrder
      <3>4. cells[l] = f /\ l \in DOMAIN cells
        BY <3>1, <3>3
      <3>5. f # NoFlow
        BY DEF Piping
      <3> HIDE DEF cells
      <3> QED
        BY <3>4, <3>5 DEF ToSet
    <2> QED
      BY <2>1, <2>2
  <1>7. RetrievePipe = Descending(items)
    BY Zenon DEF RetrievePipe
  <1> HIDE DEF cells, N
  <1> DEFINE p == [f \in Piping |-> Held(tables, f)]
  <1>8. p \in [Piping -> Nat]
    BY <1>1, HeldTyped
  <1>9. Items({<<f, p[f], First(cells, f)>> : f \in Piping})
    <2>1. Piping \in SUBSET ToSet(cells)
      BY <1>6
    <2> HIDE DEF p
    <2> QED
      BY <1>5, <1>8, <2>1, ItemsOf
  <1>10. items = {<<f, p[f], First(cells, f)>> : f \in Piping}
    BY <1>6
  <1>11. \A a \in items : a[1] \in Piping /\ a[2] = n[a[1]]
    BY <1>2, <1>6
  <1>12. \A f \in Piping : \E a \in items : a[1] = f
    <2>1. \A f \in Piping : <<f, p[f], First(cells, f)>> \in items
      BY <1>10
    <2> HIDE DEF items, p
    <2> QED
      BY <2>1
  <1> HIDE DEF items, n, p
  <1>13. Lists(Descending(items), Piping, n)
    BY <1>9, <1>10, <1>11, <1>12, ListsItems
  <1> QED
    BY <1>2, <1>7, <1>13 DEF n

LEMMA PipeNumbers ==
  ASSUME hash \in Hashes, traces \in Seq(Flows), PipeInv, NEW f \in seen
  PROVE  NumberIn(RetrievePipe, f) = Held(tables, f)
  <1> DEFINE n == [g \in seen |-> Held(tables, g)]
  <1>1. Piping \in SUBSET seen /\ Lists(RetrievePipe, Piping, n)
    BY PipeLists
  <1>2. n \in [seen -> Nat] /\ IsFiniteSet(seen)
    BY HeldTyped, Seen DEF PipeInv
  <1>3. n[f] = Held(tables, f)
    OBVIOUS
  <1> HIDE DEF n
  <1>4. NumberIn(RetrievePipe, f) = IF f \in Piping THEN n[f] ELSE 0
    BY <1>1, <1>2, NumbersIn
  <1>5. f \notin Piping => Held(tables, f) = 0
    <2> SUFFICES ASSUME f \notin Piping
                 PROVE  Held(tables, f) = 0
      OBVIOUS
    <2> DEFINE D == (1 .. stages) \X Cells
               a == [c \in D |-> IF tables[c[1]][c[2]].FID = f THEN tables[c[1]][c[2]].n ELSE 0]
    <2>1. Held(tables, f) = SumFunction(a)
      BY DEF Held
    <2>2. f # NoFlow
      BY Seen, SketchesAssumption DEF NoFlow
    <2>3. \A l \in 1 .. stages, m \in Cells : tables[l][m].FID # f
      BY <2>2 DEF Piping
    <2>4. \A c \in D : a[c] = 0
      BY <2>3
    <2>5. a \in [D -> Nat]
      BY <2>4
    <2> HIDE DEF a
    <2> QED
      BY <2>1, <2>4, <2>5, FinitelyMany, SumZeros
  <1> QED
    BY <1>3, <1>4, <1>5

LEMMA PipeRight == SketchInv => PipeBelow
  <1>1. CASE traces = <<>>
    <2>1. ToSet(traces) = {}
      BY <1>1 DEF ToSet
    <2> QED
      BY <2>1 DEF PipeBelow
  <1>2. CASE hash \in Hashes /\ traces \in Seq(Flows) /\ PipeInv
    <2> SUFFICES ASSUME NEW f \in seen
                 PROVE  /\ Held(tables, f) <= Number(f)
                        /\ (\A g \in seen \ {f} : h(1, g) # h(1, f)) => Held(tables, f) = Number(f)
                        /\ traces[Len(traces)] = f => Held(tables, f) > 0
      BY <1>2, PipeNumbers DEF PipeBelow, seen
    <2>1. f \in Flows /\ Number(f) \in Nat
      BY <1>2, Seen
    <2>2. Held(tables, f) <= Number(f) /\ Held(tables, f) \in Nat
      BY <1>2, <2>1, HeldTyped DEF PipeInv
    <2>3. PICK j \in Cells : j = h(1, f)
      BY <1>2, <2>1, Hashed
    <2>4. In(tables[1][j], f) <= Held(tables, f)
      BY <1>2, HeldTyped, SketchesAssumption DEF PipeInv
    <2>5. ASSUME \A g \in seen \ {f} : h(1, g) # h(1, f)
          PROVE  Held(tables, f) = Number(f)
      <3>1. tables[1][j] = [FID |-> f, n |-> Number(f)]
        BY <1>2, <2>3, <2>5 DEF PipeInv, Alone
      <3>2. In(tables[1][j], f) = Number(f)
        BY <3>1 DEF In
      <3> QED
        BY <2>1, <2>2, <2>4, <3>2
    <2>6. ASSUME traces[Len(traces)] = f
          PROVE  Held(tables, f) > 0
      <3>1. traces # <<>>
        BY DEF seen, ToSet
      <3>2. tables[1][j].FID = f /\ tables[1][j].n > 0
        BY <1>2, <2>3, <2>6, <3>1 DEF PipeInv
      <3>3. In(tables[1][j], f) = tables[1][j].n /\ tables[1][j].n \in Nat
        BY <1>2, <2>3, <3>2, SketchesAssumption DEF In, PipeInv, PipeTables, Cell
      <3> QED
        BY <2>2, <2>4, <3>2, <3>3
    <2> QED
      BY <2>2, <2>5, <2>6
  <1> QED
    BY <1>1, <1>2 DEF SketchInv

----------------------------------------------------------------------------
(* Scores.                                                                 *)

\* What some of the flows have together.
Part(E, S, n) == SumFunction([f \in E |-> IF f \in S THEN n[f] ELSE 0])

LEMMA Parts ==
  ASSUME NEW E, IsFiniteSet(E), NEW n \in [E -> Nat], NEW S, NEW T
  PROVE  /\ Part(E, S, n) \in Nat
         /\ Part(E, S, n) = Part(E, S \cap T, n) + Part(E, S \ T, n)
  <1> DEFINE a == [f \in E |-> IF f \in S THEN n[f] ELSE 0]
             b == [f \in E |-> IF f \in S \cap T THEN n[f] ELSE 0]
             c == [f \in E |-> IF f \in S \ T THEN n[f] ELSE 0]
  <1>1. a \in [E -> Nat] /\ b \in [E -> Nat] /\ c \in [E -> Nat]
    OBVIOUS
  <1>2. \A f \in E : a[f] = b[f] + c[f]
    OBVIOUS
  <1>3. Part(E, S, n) = SumFunction(a) /\ Part(E, S \cap T, n) = SumFunction(b)
        /\ Part(E, S \ T, n) = SumFunction(c)
    BY DEF Part
  <1> HIDE DEF a, b, c
  <1>4. SumFunction(a) = SumFunction(b) + SumFunction(c)
    BY <1>1, <1>2, SumAdd
  <1>5. SumFunction(a) \in Nat
    BY <1>1, SumTyped
  <1> QED
    BY <1>3, <1>4, <1>5

LEMMA PartBelow ==
  ASSUME NEW E, IsFiniteSet(E), NEW n \in [E -> Nat], NEW m \in [E -> Nat],
         \A f \in E : n[f] <= m[f], NEW S, NEW T \in SUBSET S
  PROVE  Part(E, T, n) <= Part(E, S, m)
  <1> DEFINE a == [f \in E |-> IF f \in T THEN n[f] ELSE 0]
             b == [f \in E |-> IF f \in S THEN m[f] ELSE 0]
  <1>1. a \in [E -> Nat] /\ b \in [E -> Nat] /\ \A f \in E : a[f] <= b[f]
    OBVIOUS
  <1>2. Part(E, T, n) = SumFunction(a) /\ Part(E, S, m) = SumFunction(b)
    BY DEF Part
  <1> HIDE DEF a, b
  <1> QED
    BY <1>1, <1>2, SumMonotone

LEMMA TotalPart ==
  ASSUME NEW E, IsFiniteSet(E), NEW S \in SUBSET E, NEW n \in [E -> Nat],
         NEW answer, Lists(answer, S, n), NEW T
  PROVE  Total(answer, T) = Part(E, S \cap T, n)
  <1>1. [f \in E |-> IF f \in S /\ f \in T THEN n[f] ELSE 0]
          = [f \in E |-> IF f \in S \cap T THEN n[f] ELSE 0]
    OBVIOUS
  <1>2. Total(answer, T) =
          SumFunction([f \in E |-> IF f \in S /\ f \in T THEN n[f] ELSE 0])
    BY Totals
  <1> QED
    BY <1>1, <1>2 DEF Part

Smaller(a, b) == IF a < b THEN a ELSE b

\* A flow is hit by the smaller of its two numbers, if it has two.
LEMMA Hits ==
  ASSUME NEW E, IsFiniteSet(E), NEW G \in SUBSET E, NEW m \in [E -> Nat],
         NEW T \in SUBSET E, NEW n \in [E -> Nat],
         NEW g, Lists(g, G, m), NEW t, Lists(t, T, n)
  PROVE  SumFunction([i \in DOMAIN t |-> Smaller(t[i][2], NumberIn(g, t[i][1]))])
           = Part(E, T \cap G, [f \in E |-> Smaller(n[f], m[f])])
  <1> DEFINE D == DOMAIN t
             a == [i \in D |-> Smaller(t[i][2], NumberIn(g, t[i][1]))]
             s == [f \in E |-> Smaller(n[f], m[f])]
             b == [f \in E |-> IF f \in T \cap G THEN s[f] ELSE 0]
             k == [i \in D |-> t[i][1]]
  <1>1. Len(t) \in Nat /\ D = 1 .. Len(t)
    BY DEF Lists
  <1>2. IsFiniteSet(D)
    BY <1>1, FS_Interval
  <1>3. \A i \in D : t[i][1] \in T /\ t[i][2] = n[t[i][1]]
    BY <1>1 DEF Lists
  <1>4. \A f \in E : NumberIn(g, f) = IF f \in G THEN m[f] ELSE 0
    BY NumbersIn
  <1>5. s \in [E -> Nat] /\ b \in [E -> Nat] /\ k \in [D -> E]
    BY <1>3 DEF Smaller
  <1>6. \A x, y \in D : k[x] = k[y] => x = y
    BY <1>1 DEF Lists
  <1>7. \A x \in D : a[x] = b[k[x]]
    BY <1>3, <1>4 DEF Smaller
  <1>8. \A y \in E : b[y] = 0 \/ \E x \in D : k[x] = y
    BY <1>1 DEF Lists
  <1>9. a \in [D -> Nat]
    <2>1. \A x \in D : k[x] \in E
      BY <1>5
    <2>2. \A x \in D : a[x] \in Nat
      <3> HIDE DEF D, a, b, k
      <3> QED
        BY <1>5, <1>7, <2>1
    <2> QED
      BY <2>2
  <1>10. SumFunction(a) = SumFunction(b)
    <2> HIDE DEF D, a, b, k, s
    <2> QED
      BY <1>2, <1>5, <1>6, <1>7, <1>8, <1>9, SumMoved
  <1> QED
    BY <1>10 DEF Part

\* The score of an answer with the flows of T left, against G of the truth.
ScoredBy(E, m, n, gt, answer, G, T) ==
  LET g == SubSeq(gt, 1, Len(gt) - 1)
      t == SubSeq(answer, 1, Len(answer) - 1)
      score == precision_and_recall_packet_number(gt, answer)
  IN /\ G \in SUBSET E /\ T \in SUBSET E
     /\ FIDsOf(g) = G /\ FIDsOf(t) = T
     /\ \A X : Total(g, X) = Part(E, G \cap X, m) /\ Total(t, X) = Part(E, T \cap X, n)
     /\ score.hit = Part(E, T \cap G, [f \in E |-> Smaller(n[f], m[f])])
     /\ score.precision = Part(E, T, n) /\ score.recall = Part(E, G, m)

LEMMA Scores ==
  ASSUME NEW E, IsFiniteSet(E), NEW m \in [E -> Nat], NEW n \in [E -> Nat],
         NEW gt, NEW R \in SUBSET E, Lists(gt, R, m),
         NEW answer, NEW S \in SUBSET E, Lists(answer, S, n)
  PROVE  \E G, T : ScoredBy(E, m, n, gt, answer, G, T)
  <1> DEFINE g == SubSeq(gt, 1, Len(gt) - 1)
             t == SubSeq(answer, 1, Len(answer) - 1)
             score == precision_and_recall_packet_number(gt, answer)
             s == [f \in E |-> Smaller(n[f], m[f])]
  <1>1. PICK G \in SUBSET R : Lists(g, G, m)
    BY ListsFront
  <1>2. PICK T \in SUBSET S : Lists(t, T, n)
    BY ListsFront
  <1>3. score = [hit |-> SumFunction([i \in DOMAIN t |-> Smaller(t[i][2], NumberIn(g, t[i][1]))]),
                 precision |-> Total(t, FIDsOf(t)), recall |-> Total(g, FIDsOf(g))]
    BY Zenon DEF precision_and_recall_packet_number, Smaller
  <1> HIDE DEF g, t, score, s
  <1>4. FIDsOf(g) = G /\ FIDsOf(t) = T
    BY <1>1, <1>2, ListsFIDs
  <1>5. G \in SUBSET E /\ T \in SUBSET E
    OBVIOUS
  <1>6. \A X : Total(g, X) = Part(E, G \cap X, m) /\ Total(t, X) = Part(E, T \cap X, n)
    BY <1>1, <1>2, <1>5, TotalPart
  <1>7. score.hit = Part(E, T \cap G, s)
    <2>1. SumFunction([i \in DOMAIN t |-> Smaller(t[i][2], NumberIn(g, t[i][1]))])
            = Part(E, T \cap G, [f \in E |-> Smaller(n[f], m[f])])
      BY <1>1, <1>2, <1>5, Hits
    <2> QED
      BY <1>3, <2>1 DEF s
  <1>8. score.precision = Part(E, T, n) /\ score.recall = Part(E, G, m)
    <2>1. T \cap T = T /\ G \cap G = G
      OBVIOUS
    <2>2. Total(t, T) = Part(E, T, n) /\ Total(g, G) = Part(E, G, m)
      BY <1>6, <2>1
    <2> QED
      BY <1>3, <1>4, <2>2
  <1>9. /\ FIDsOf(g) = G /\ FIDsOf(t) = T
        /\ \A X : Total(g, X) = Part(E, G \cap X, m) /\ Total(t, X) = Part(E, T \cap X, n)
        /\ score.hit = Part(E, T \cap G, s)
        /\ score.precision = Part(E, T, n) /\ score.recall = Part(E, G, m)
    BY <1>4, <1>6, <1>7, <1>8
  <1> QED
    BY <1>5, <1>9 DEF g, t, score, s, ScoredBy

LEMMA ScoresRight == SketchInv => ScoresTrue
  <1> SUFFICES ASSUME hash \in Hashes, traces \in Seq(Flows), PipeInv, traces # <<>>
               PROVE  ScoresTrue
    BY DEF SketchInv, ScoresTrue
  <1> DEFINE m == [f \in seen |-> Number(f)]
             held == [f \in seen |-> Held(tables, f)]
             least == [f \in seen |-> Smallest(f)]
             front(answer) == SubSeq(answer, 1, Len(answer) - 1)
             Score(answer) == precision_and_recall_packet_number(retrieve, answer)
  <1>1. IsFiniteSet(seen) /\ seen \subseteq Flows /\ m \in [seen -> Nat]
    BY Seen
  <1>2. held \in [seen -> Nat] /\ \A f \in seen : held[f] <= m[f]
    BY <1>1, HeldTyped DEF PipeInv
  <1>3. least \in [seen -> Nat] /\ \A f \in seen : m[f] <= least[f]
    BY <1>1, SmallestBounds
  <1>4. /\ Lists(retrieve, seen, m) /\ Lists(Count_Min, seen, least)
        /\ Lists(RetrievePipe, Piping, held) /\ Piping \in SUBSET seen /\ seen \in SUBSET seen
    BY RetrieveLists, CountMinLists, PipeLists
  <1>5. \A a, b : Smaller(a, b) = IF a < b THEN a ELSE b
    BY DEF Smaller
  <1>6. [f \in seen |-> Smaller(held[f], m[f])] = held
    <2>1. \A f \in seen : Smaller(held[f], m[f]) = held[f]
      <3> HIDE DEF held, m
      <3> QED
        BY <1>1, <1>2, <1>5
    <2>2. held = [f \in seen |-> held[f]]
      OBVIOUS
    <2> HIDE DEF held, m
    <2> QED
      BY <2>1, <2>2
  <1>7. [f \in seen |-> Smaller(least[f], m[f])] = m
    <2>1. \A f \in seen : Smaller(least[f], m[f]) = m[f]
      <3> HIDE DEF least, m
      <3> QED
        BY <1>1, <1>3, <1>5
    <2>2. m = [f \in seen |-> m[f]]
      OBVIOUS
    <2> HIDE DEF least, m
    <2> QED
      BY <2>1, <2>2
  <1> HIDE DEF m, held, least
  <1>8. /\ Score(RetrievePipe).hit <= Score(RetrievePipe).recall
        /\ Score(RetrievePipe).precision - Score(RetrievePipe).hit
             = Total(front(RetrievePipe), FIDsOf(front(RetrievePipe)) \ FIDsOf(front(retrieve)))
    <2>1. PICK G, T : ScoredBy(seen, m, held, retrieve, RetrievePipe, G, T)
      BY <1>1, <1>2, <1>4, Scores
    <2>7. /\ G \in SUBSET seen /\ T \in SUBSET seen
          /\ FIDsOf(front(retrieve)) = G /\ FIDsOf(front(RetrievePipe)) = T
          /\ \A X : /\ Total(front(retrieve), X) = Part(seen, G \cap X, m)
                    /\ Total(front(RetrievePipe), X) = Part(seen, T \cap X, held)
          /\ Score(RetrievePipe).hit
               = Part(seen, T \cap G, [f \in seen |-> Smaller(held[f], m[f])])
          /\ Score(RetrievePipe).precision = Part(seen, T, held)
          /\ Score(RetrievePipe).recall = Part(seen, G, m)
      BY <2>1 DEF ScoredBy
    <2> HIDE DEF Score, front
    <2>2. Score(RetrievePipe).hit = Part(seen, T \cap G, held)
      BY <1>6, <2>7
    <2>3. Part(seen, T \cap G, held) <= Part(seen, G, m)
      BY <1>1, <1>2, <2>7, PartBelow
    <2>4. /\ Part(seen, T, held) = Part(seen, T \cap G, held) + Part(seen, T \ G, held)
          /\ Part(seen, T \cap G, held) \in Nat /\ Part(seen, T \ G, held) \in Nat
      <3>1. \A A, B : /\ Part(seen, A, held) \in Nat
                     /\ Part(seen, A, held) = Part(seen, A \cap B, held) + Part(seen, A \ B, held)
        BY <1>1, <1>2, Parts
      <3> QED
        BY <3>1
    <2>5. T \cap (T \ G) = T \ G
      OBVIOUS
    <2>6. Total(front(RetrievePipe), T \ G) = Part(seen, T \ G, held)
      BY <2>5, <2>7
    <2> QED
      BY <2>7, <2>2, <2>3, <2>4, <2>6
  <1>9. /\ Score(Count_Min).recall - Score(Count_Min).hit
             = Total(front(retrieve), FIDsOf(front(retrieve)) \ FIDsOf(front(Count_Min)))
        /\ Score(Count_Min).hit <= Score(Count_Min).precision
    <2>1. PICK G, T : ScoredBy(seen, m, least, retrieve, Count_Min, G, T)
      BY <1>1, <1>3, <1>4, Scores
    <2>7. /\ G \in SUBSET seen /\ T \in SUBSET seen
          /\ FIDsOf(front(retrieve)) = G /\ FIDsOf(front(Count_Min)) = T
          /\ \A X : /\ Total(front(retrieve), X) = Part(seen, G \cap X, m)
                    /\ Total(front(Count_Min), X) = Part(seen, T \cap X, least)
          /\ Score(Count_Min).hit
               = Part(seen, T \cap G, [f \in seen |-> Smaller(least[f], m[f])])
          /\ Score(Count_Min).precision = Part(seen, T, least)
          /\ Score(Count_Min).recall = Part(seen, G, m)
      BY <2>1 DEF ScoredBy
    <2> HIDE DEF Score, front
    <2>2. Score(Count_Min).hit = Part(seen, T \cap G, m)
      BY <1>7, <2>7
    <2>3. Part(seen, T \cap G, m) <= Part(seen, T, least)
      BY <1>1, <1>3, <2>7, PartBelow
    <2>4. /\ Part(seen, G, m) = Part(seen, G \cap T, m) + Part(seen, G \ T, m)
          /\ Part(seen, G \cap T, m) \in Nat /\ Part(seen, G \ T, m) \in Nat
      <3>1. \A A, B : /\ Part(seen, A, m) \in Nat
                     /\ Part(seen, A, m) = Part(seen, A \cap B, m) + Part(seen, A \ B, m)
        BY <1>1, Parts
      <3> QED
        BY <3>1
    <2>5. G \cap (G \ T) = G \ T /\ T \cap G = G \cap T
      OBVIOUS
    <2>6. Total(front(retrieve), G \ T) = Part(seen, G \ T, m)
      BY <2>5, <2>7
    <2>8. Score(Count_Min).recall - Score(Count_Min).hit = Part(seen, G \ T, m)
      <3>1. Part(seen, T \cap G, m) = Part(seen, G \cap T, m)
        BY <2>5
      <3> QED
        BY <2>2, <2>4, <2>7, <3>1
    <2>9. Score(Count_Min).hit <= Score(Count_Min).precision
      BY <2>2, <2>3, <2>7
    <2> QED
      BY <2>6, <2>7, <2>8, <2>9
  <1> HIDE DEF Score
  <1> QED
    BY <1>8, <1>9 DEF ScoresTrue, Score

----------------------------------------------------------------------------
(* FlowRadar's cells.                                                      *)

RadarCells == [Cells -> [fn : Int, pn : Int, FIDXOR : SUBSET Flows]]

\* Each pair is a flow and the number of a hash function by which it was added.
Pairs == Flows \X (1 .. 3)

At(P, j)    == {p \in P : h(p[2], p[1]) = j}
By(P, j, f) == {i \in 1 .. 3 : <<f, i>> \in P /\ h(i, f) = j}
Odd(P, j)   == {f \in Flows : Cardinality(By(P, j, f)) % 2 = 1}

\* The cells count the pairs of P, and hold the exclusive or of their flows.
Counts(cells, P) ==
  /\ cells \in RadarCells /\ P \in SUBSET Pairs /\ IsFiniteSet(P)
  /\ \A j \in Cells : cells[j].fn = Cardinality(At(P, j)) /\ cells[j].FIDXOR = Odd(P, j)

LEMMA Parity ==
  ASSUME NEW n \in Nat
  PROVE  ((n + 1) % 2 = 1) <=> ~(n % 2 = 1)
  OBVIOUS

LEMMA ByTyped ==
  ASSUME NEW P, NEW j, NEW f
  PROVE  IsFiniteSet(By(P, j, f)) /\ Cardinality(By(P, j, f)) \in Nat
  <1>1. IsFiniteSet(1 .. 3)
    <2>1. PICK n \in Int : n = 3
      OBVIOUS
    <2>2. IsFiniteSet(1 .. n)
      BY FS_Interval
    <2> QED
      BY <2>1, <2>2
  <1>2. By(P, j, f) \in SUBSET (1 .. 3)
    BY DEF By
  <1> QED
    BY <1>1, <1>2, FS_Subset, FS_CardinalityType

\* What a pair changes in its cell.
PairAdds(P, Q, f, idx) ==
  /\ Q \in SUBSET Pairs /\ IsFiniteSet(Q)
  /\ \A j : j # idx => At(Q, j) = At(P, j) /\ Odd(Q, j) = Odd(P, j)
  /\ Cardinality(At(P, idx)) \in Nat
  /\ Cardinality(At(Q, idx)) = Cardinality(At(P, idx)) + 1
  /\ Odd(Q, idx) = (Odd(P, idx) \ {f}) \cup ({f} \ Odd(P, idx))
  /\ Odd(P, idx) = (Odd(Q, idx) \ {f}) \cup ({f} \ Odd(Q, idx))

LEMMA PairIn ==
  ASSUME NEW P \in SUBSET Pairs, IsFiniteSet(P), NEW f \in Flows, NEW i \in 1 .. 3,
         <<f, i>> \notin P
  PROVE  PairAdds(P, P \cup {<<f, i>>}, f, h(i, f))
  <1> DEFINE p == <<f, i>>
             Q == P \cup {p}
  <1>1. p \in Pairs /\ p[1] = f /\ p[2] = i
    BY DEF Pairs
  <1>2. Q \in SUBSET Pairs /\ IsFiniteSet(Q)
    <2> HIDE DEF p
    <2> QED
      BY <1>1, FS_AddElement
  <1>3. \A j, g : g # f => By(Q, j, g) = By(P, j, g)
    BY DEF By
  <1>4. ASSUME NEW j, j # h(i, f)
        PROVE  At(Q, j) = At(P, j) /\ Odd(Q, j) = Odd(P, j)
    <2>1. At(Q, j) = At(P, j)
      BY <1>4 DEF At
    <2>2. By(Q, j, f) = By(P, j, f)
      BY <1>4 DEF By
    <2>3. \A g : By(Q, j, g) = By(P, j, g)
      BY <1>3, <2>2
    <2> HIDE DEF Q
    <2> QED
      BY <2>1, <2>3 DEF Odd
  <1>5. ASSUME NEW j, j = h(i, f)
        PROVE  /\ Cardinality(At(P, j)) \in Nat
               /\ Cardinality(At(Q, j)) = Cardinality(At(P, j)) + 1
               /\ Odd(Q, j) = (Odd(P, j) \ {f}) \cup ({f} \ Odd(P, j))
               /\ Odd(P, j) = (Odd(Q, j) \ {f}) \cup ({f} \ Odd(Q, j))
    <2>1. At(Q, j) = At(P, j) \cup {p} /\ p \notin At(P, j)
      BY <1>1, <1>5 DEF At
    <2>2. IsFiniteSet(At(P, j)) /\ Cardinality(At(P, j)) \in Nat
      <3>1. At(P, j) \in SUBSET P
        BY DEF At
      <3> QED
        BY <3>1, FS_Subset, FS_CardinalityType
    <2>3. Cardinality(At(Q, j)) = Cardinality(At(P, j)) + 1
      <3> HIDE DEF p, Q
      <3> QED
        BY <2>1, <2>2, FS_AddElement
    <2>4. By(Q, j, f) = By(P, j, f) \cup {i} /\ i \notin By(P, j, f)
      BY <1>5 DEF By
    <2>5. Cardinality(By(Q, j, f)) = Cardinality(By(P, j, f)) + 1
      <3> HIDE DEF p, Q
      <3> QED
        BY <2>4, ByTyped, FS_AddElement
    <2>6. f \in Odd(Q, j) <=> f \notin Odd(P, j)
      <3>1. PICK n : n = Cardinality(By(P, j, f))
        OBVIOUS
      <3>2. n \in Nat
        BY <3>1, ByTyped
      <3>3. ((n + 1) % 2 = 1) <=> ~(n % 2 = 1)
        BY <3>2, Parity
      <3> HIDE DEF p, Q
      <3> QED
        BY <2>5, <3>1, <3>3 DEF Odd
    <2>7. \A g : g # f => (g \in Odd(Q, j) <=> g \in Odd(P, j))
      <3> HIDE DEF p, Q
      <3> QED
        BY <1>3 DEF Odd
    <2> HIDE DEF p, Q
    <2>8. /\ Odd(Q, j) = (Odd(P, j) \ {f}) \cup ({f} \ Odd(P, j))
          /\ Odd(P, j) = (Odd(Q, j) \ {f}) \cup ({f} \ Odd(Q, j))
      BY <2>6, <2>7
    <2> QED
      BY <2>2, <2>3, <2>8
  <1> QED
    BY <1>2, <1>4, <1>5 DEF PairAdds

LEMMA Changed ==
  ASSUME NEW cells \in RadarCells, NEW idx \in Cells, NEW df \in Int, NEW dp \in Int,
         NEW FIDs \in SUBSET Flows
  PROVE  LET new == Change(cells, idx, df, dp, FIDs)
         IN /\ new \in RadarCells
            /\ \A j \in Cells : j # idx => new[j] = cells[j]
            /\ new[idx].fn = cells[idx].fn + df
            /\ new[idx].FIDXOR = (cells[idx].FIDXOR \ FIDs) \cup (FIDs \ cells[idx].FIDXOR)
  BY DEF Change, RadarCells

LEMMA AddPair ==
  ASSUME hash \in Hashes, NEW cells, NEW P, Counts(cells, P), NEW f \in Flows, NEW i \in 1 .. 3,
         <<f, i>> \notin P, NEW dp \in Int
  PROVE  Counts(Change(cells, h(i, f), 1, dp, {f}), P \cup {<<f, i>>})
  <1> DEFINE Q == P \cup {<<f, i>>}
             idx == h(i, f)
             new == Change(cells, idx, 1, dp, {f})
  <1>1. idx \in Cells
    BY Hashed
  <1>2. /\ new \in RadarCells /\ \A j \in Cells : j # idx => new[j] = cells[j]
        /\ new[idx].fn = cells[idx].fn + 1
        /\ new[idx].FIDXOR = (cells[idx].FIDXOR \ {f}) \cup ({f} \ cells[idx].FIDXOR)
    <2>1. cells \in RadarCells /\ 1 \in Int /\ {f} \in SUBSET Flows
      BY DEF Counts
    <2> HIDE DEF idx
    <2> QED
      BY <1>1, <2>1, Changed
  <1>3. /\ Q \in SUBSET Pairs /\ IsFiniteSet(Q)
        /\ \A j : j # idx => At(Q, j) = At(P, j) /\ Odd(Q, j) = Odd(P, j)
        /\ Cardinality(At(Q, idx)) = Cardinality(At(P, idx)) + 1
        /\ Odd(Q, idx) = (Odd(P, idx) \ {f}) \cup ({f} \ Odd(P, idx))
    <2>1. P \in SUBSET Pairs /\ IsFiniteSet(P)
      BY DEF Counts
    <2>2. PairAdds(P, Q, f, idx)
      BY <2>1, PairIn
    <2> QED
      BY <2>2 DEF PairAdds
  <1> HIDE DEF Q, idx, new
  <1>4. Counts(new, Q)
    BY <1>1, <1>2, <1>3 DEF Counts
  <1> QED
    BY <1>4 DEF Q, idx, new

LEMMA TakePair ==
  ASSUME hash \in Hashes, NEW cells, NEW Q, Counts(cells, Q), NEW f \in Flows, NEW i \in 1 .. 3,
         <<f, i>> \in Q, NEW dp \in Int
  PROVE  Counts(Change(cells, h(i, f), -1, dp, {f}), Q \ {<<f, i>>})
  <1> DEFINE P == Q \ {<<f, i>>}
             idx == h(i, f)
             new == Change(cells, idx, -1, dp, {f})
  <1>1. idx \in Cells
    BY Hashed
  <1>2. /\ new \in RadarCells /\ \A j \in Cells : j # idx => new[j] = cells[j]
        /\ new[idx].fn = cells[idx].fn + (-1)
        /\ new[idx].FIDXOR = (cells[idx].FIDXOR \ {f}) \cup ({f} \ cells[idx].FIDXOR)
    <2>1. cells \in RadarCells /\ -1 \in Int /\ {f} \in SUBSET Flows
      BY DEF Counts
    <2> HIDE DEF idx
    <2> QED
      BY <1>1, <2>1, Changed
  <1>3. P \in SUBSET Pairs /\ IsFiniteSet(P) /\ <<f, i>> \notin P /\ P \cup {<<f, i>>} = Q
    BY FS_RemoveElement DEF Counts
  <1>4. /\ \A j : j # idx => At(Q, j) = At(P, j) /\ Odd(Q, j) = Odd(P, j)
        /\ Cardinality(At(P, idx)) \in Nat
        /\ Cardinality(At(Q, idx)) = Cardinality(At(P, idx)) + 1
        /\ Odd(P, idx) = (Odd(Q, idx) \ {f}) \cup ({f} \ Odd(Q, idx))
    <2> HIDE DEF P
    <2>1. PairAdds(P, P \cup {<<f, i>>}, f, idx)
      BY <1>3, PairIn
    <2> QED
      BY <1>3, <2>1 DEF PairAdds
  <1> HIDE DEF P, idx, new
  <1>5. new[idx].fn = Cardinality(At(P, idx))
    <2>1. cells[idx].fn = Cardinality(At(P, idx)) + 1
      BY <1>1, <1>4 DEF Counts
    <2> QED
      BY <1>2, <1>4, <2>1
  <1>6. new[idx].FIDXOR = Odd(P, idx)
    BY <1>1, <1>2, <1>4 DEF Counts
  <1>7. Counts(new, P)
    BY <1>1, <1>2, <1>3, <1>4, <1>5, <1>6 DEF Counts
  <1> QED
    BY <1>7 DEF P, idx, new

LEMMA KeepPairs ==
  ASSUME NEW cells, NEW P, Counts(cells, P), NEW idx \in Cells, NEW dp \in Int
  PROVE  Counts(Change(cells, idx, 0, dp, {}), P)
  <1> DEFINE new == Change(cells, idx, 0, dp, {})
  <1>1. /\ new \in RadarCells /\ \A j \in Cells : j # idx => new[j] = cells[j]
        /\ new[idx].fn = cells[idx].fn + 0
        /\ new[idx].FIDXOR = (cells[idx].FIDXOR \ {}) \cup ({} \ cells[idx].FIDXOR)
    <2>1. cells \in RadarCells /\ 0 \in Int /\ {} \in SUBSET Flows
      BY DEF Counts
    <2>2. PICK d \in Int : d = 0
      OBVIOUS
    <2>3. PICK none \in SUBSET Flows : none = {}
      OBVIOUS
    <2>4. /\ Change(cells, idx, d, dp, none) \in RadarCells
          /\ \A j \in Cells : j # idx => Change(cells, idx, d, dp, none)[j] = cells[j]
          /\ Change(cells, idx, d, dp, none)[idx].fn = cells[idx].fn + d
          /\ Change(cells, idx, d, dp, none)[idx].FIDXOR
               = (cells[idx].FIDXOR \ none) \cup (none \ cells[idx].FIDXOR)
      BY <2>1, Changed
    <2> QED
      BY <2>2, <2>3, <2>4
  <1> HIDE DEF new
  <1>2. cells[idx].fn \in Int
    BY DEF Counts, RadarCells
  <1>3. \A j \in Cells : new[j].fn = cells[j].fn /\ new[j].FIDXOR = cells[j].FIDXOR
    BY <1>1, <1>2
  <1>4. Counts(new, P)
    BY <1>1, <1>3 DEF Counts
  <1> QED
    BY <1>4 DEF new

----------------------------------------------------------------------------
(* Flows are added.                                                        *)

All(U) == U \X (1 .. 3)

\* What a flow changes in its three cells: df and FIDs are by how much.
AddIs(cells, FID, df, n, FIDs, c) ==
  c = [i \in 0 .. hash_number |-> IF i = 0 THEN cells
                                  ELSE Change(c[i - 1], h(i, FID), df, n, FIDs)]

LEMMA AddSteps ==
  ASSUME NEW cells, NEW FID, NEW df, NEW n, NEW FIDs
  PROVE  LET c == CHOOSE c : AddIs(cells, FID, df, n, FIDs, c)
             one == Change(cells, h(1, FID), df, n, FIDs)
             two == Change(one, h(2, FID), df, n, FIDs)
         IN c[3] = Change(two, h(3, FID), df, n, FIDs)
  <1> DEFINE one == Change(cells, h(1, FID), df, n, FIDs)
             two == Change(one, h(2, FID), df, n, FIDs)
             three == Change(two, h(3, FID), df, n, FIDs)
             q == [i \in 0 .. 3 |-> IF i = 0 THEN cells ELSE IF i = 1 THEN one
                                    ELSE IF i = 2 THEN two ELSE three]
             c == CHOOSE r : AddIs(cells, FID, df, n, FIDs, r)
  <1> HIDE DEF one, two, three
  <1>1. /\ q[0] = cells /\ q[1] = one /\ q[2] = two /\ q[3] = three
        /\ \A i \in 0 .. 3 : i = 0 \/ i = 1 \/ i = 2 \/ i = 3
    OBVIOUS
  <1>2. one = Change(cells, h(1, FID), df, n, FIDs) /\ two = Change(one, h(2, FID), df, n, FIDs)
        /\ three = Change(two, h(3, FID), df, n, FIDs)
    BY DEF one, two, three
  <1>3. \A i \in 0 .. 3 : q[i] = IF i = 0 THEN cells
                                 ELSE Change(q[i - 1], h(i, FID), df, n, FIDs)
    <2> HIDE DEF q
    <2>1. 1 - 1 = 0 /\ 2 - 1 = 1 /\ 3 - 1 = 2
      OBVIOUS
    <2> QED
      BY <1>1, <1>2, <2>1
  <1>4. AddIs(cells, FID, df, n, FIDs, q)
    <2>1. q = [i \in 0 .. 3 |-> q[i]]
      OBVIOUS
    <2> HIDE DEF q
    <2>2. q = [i \in 0 .. 3 |-> IF i = 0 THEN cells
                                ELSE Change(q[i - 1], h(i, FID), df, n, FIDs)]
      BY <1>3, <2>1
    <2> QED
      BY <2>2 DEF AddIs, hash_number
  <1>5. AddIs(cells, FID, df, n, FIDs, c)
    <2> HIDE DEF q
    <2> QED
      BY <1>4, Zenon
  <1> HIDE DEF c, q
  <1>6. \A i \in 0 .. 3 : c[i] = IF i = 0 THEN cells
                                 ELSE Change(c[i - 1], h(i, FID), df, n, FIDs)
    <2>1. c = [i \in 0 .. 3 |-> IF i = 0 THEN cells
                                ELSE Change(c[i - 1], h(i, FID), df, n, FIDs)]
      BY <1>5 DEF AddIs, hash_number
    <2> QED
      BY <2>1
  <1>7. c[0] = cells /\ c[1] = one /\ c[2] = two /\ c[3] = three
    <2>1. c[0] = cells
      BY <1>6
    <2>2. c[1] = Change(c[0], h(1, FID), df, n, FIDs)
      BY <1>6
    <2>3. c[2] = Change(c[1], h(2, FID), df, n, FIDs)
      BY <1>6
    <2>4. c[3] = Change(c[2], h(3, FID), df, n, FIDs)
      BY <1>6
    <2> QED
      BY <1>2, <2>1, <2>2, <2>3, <2>4
  <1> QED
    BY <1>7 DEF c, one, two, three

\* A flow changes nothing but numbers if it is not new.
Known(radar, FID) ==
  \A i \in 1 .. hash_number :
    h(i, FID) \in radar.bits \/ \E l \in 1 .. i - 1 : h(l, FID) = h(i, FID)

LEMMA RadarAddIs ==
  ASSUME NEW radar, NEW FID, NEW n
  PROVE  RadarAdd(radar, FID, n) =
           [bits  |-> radar.bits \cup {h(i, FID) : i \in 1 .. hash_number},
            cells |-> (CHOOSE c : AddIs(radar.cells, FID,
                                        IF Known(radar, FID) THEN 0 ELSE 1, n,
                                        IF Known(radar, FID) THEN {} ELSE {FID}, c))[hash_number]]
  BY Zenon DEF RadarAdd, Known, AddIs

RadarType == [bits : SUBSET Cells, cells : RadarCells]

LEMMA AddedTyped ==
  ASSUME hash \in Hashes, NEW cells \in RadarCells, NEW f \in Flows, NEW n \in Int,
         NEW df \in Int, NEW FIDs \in SUBSET Flows
  PROVE  (CHOOSE c : AddIs(cells, f, df, n, FIDs, c))[hash_number] \in RadarCells
  <1> DEFINE c == CHOOSE c : AddIs(cells, f, df, n, FIDs, c)
             one == Change(cells, h(1, f), df, n, FIDs)
             two == Change(one, h(2, f), df, n, FIDs)
             three == Change(two, h(3, f), df, n, FIDs)
  <1>1. c[3] = three
    BY AddSteps
  <1>2. h(1, f) \in Cells /\ h(2, f) \in Cells /\ h(3, f) \in Cells
    BY Hashed
  <1> HIDE DEF c
  <1>3. one \in RadarCells
    BY <1>2, Changed
  <1>4. two \in RadarCells
    <2> HIDE DEF one
    <2> QED
      BY <1>2, <1>3, Changed
  <1>5. three \in RadarCells
    <2> HIDE DEF two
    <2> QED
      BY <1>2, <1>4, Changed
  <1> QED
    BY <1>1, <1>5 DEF c, hash_number

LEMMA AddedNone ==
  ASSUME hash \in Hashes, NEW cells, NEW P, Counts(cells, P), NEW f \in Flows, NEW n \in Int
  PROVE  Counts((CHOOSE c : AddIs(cells, f, 0, n, {}, c))[hash_number], P)
  <1> DEFINE c == CHOOSE c : AddIs(cells, f, 0, n, {}, c)
             one == Change(cells, h(1, f), 0, n, {})
             two == Change(one, h(2, f), 0, n, {})
             three == Change(two, h(3, f), 0, n, {})
  <1>1. c[3] = three
    <2>1. PICK d, none : d = 0 /\ none = {}
      OBVIOUS
    <2>2. (CHOOSE r : AddIs(cells, f, d, n, none, r))[3] =
             Change(Change(Change(cells, h(1, f), d, n, none), h(2, f), d, n, none),
                    h(3, f), d, n, none)
      BY AddSteps
    <2> QED
      BY <2>1, <2>2
  <1>2. h(1, f) \in Cells /\ h(2, f) \in Cells /\ h(3, f) \in Cells
    BY Hashed
  <1> HIDE DEF c
  <1>3. Counts(one, P)
    BY <1>2, KeepPairs
  <1>4. Counts(two, P)
    <2> HIDE DEF one
    <2> QED
      BY <1>2, <1>3, KeepPairs
  <1>5. Counts(three, P)
    <2> HIDE DEF two
    <2> QED
      BY <1>2, <1>4, KeepPairs
  <1> QED
    BY <1>1, <1>5 DEF c, hash_number

LEMMA AddedNew ==
  ASSUME hash \in Hashes, NEW cells, NEW U, Counts(cells, All(U)), NEW f \in Flows, f \notin U,
         NEW n \in Int
  PROVE  Counts((CHOOSE c : AddIs(cells, f, 1, n, {f}, c))[hash_number], All(U \cup {f}))
  <1> DEFINE c == CHOOSE c : AddIs(cells, f, 1, n, {f}, c)
             one == Change(cells, h(1, f), 1, n, {f})
             two == Change(one, h(2, f), 1, n, {f})
             three == Change(two, h(3, f), 1, n, {f})
             P == All(U)
             P1 == P \cup {<<f, 1>>}
             P2 == P1 \cup {<<f, 2>>}
             P3 == P2 \cup {<<f, 3>>}
  <1>1. c[3] = three
    <2>1. PICK d, only : d = 1 /\ only = {f}
      OBVIOUS
    <2>2. (CHOOSE r : AddIs(cells, f, d, n, only, r))[3] =
             Change(Change(Change(cells, h(1, f), d, n, only), h(2, f), d, n, only),
                    h(3, f), d, n, only)
      BY AddSteps
    <2> QED
      BY <2>1, <2>2
  <1>2. <<f, 1>> \notin P /\ <<f, 2>> \notin P1 /\ <<f, 3>> \notin P2
        /\ P3 = All(U \cup {f})
    BY DEF All
  <1>3. 1 \in 1 .. 3 /\ 2 \in 1 .. 3 /\ 3 \in 1 .. 3
    OBVIOUS
  <1> HIDE DEF c
  <1>4. Counts(one, P1)
    <2> HIDE DEF P
    <2> QED
      BY <1>2, <1>3, AddPair DEF P
  <1>5. Counts(two, P2)
    <2> HIDE DEF one, P1
    <2> QED
      BY <1>2, <1>3, <1>4, AddPair
  <1>6. Counts(three, P3)
    <2> HIDE DEF two, P2
    <2> QED
      BY <1>2, <1>3, <1>5, AddPair
  <1> HIDE DEF three, P3
  <1> QED
    BY <1>1, <1>2, <1>6 DEF c, hash_number

LEMMA RadarAdded ==
  ASSUME hash \in Hashes, NEW radar \in RadarType, NEW f \in Flows, NEW n \in Int
  PROVE  /\ RadarAdd(radar, f, n) \in RadarType
         /\ \A U : Counts(radar.cells, All(U)) /\ f \notin U =>
              \/ Counts(RadarAdd(radar, f, n).cells, All(U))
              \/ Counts(RadarAdd(radar, f, n).cells, All(U \cup {f}))
  <1> DEFINE df == IF Known(radar, f) THEN 0 ELSE 1
             FIDs == IF Known(radar, f) THEN {} ELSE {f}
             new == (CHOOSE c : AddIs(radar.cells, f, df, n, FIDs, c))[hash_number]
             set == radar.bits \cup {h(i, f) : i \in 1 .. hash_number}
  <1>1. RadarAdd(radar, f, n) = [bits |-> set, cells |-> new]
    BY RadarAddIs, Zenon
  <1>2. set \in SUBSET Cells
    BY Hashed DEF RadarType, hash_number
  <1>3. new \in RadarCells
    <2>1. df \in Int /\ FIDs \in SUBSET Flows /\ radar.cells \in RadarCells
      BY DEF RadarType
    <2> HIDE DEF df, FIDs
    <2> QED
      BY <2>1, AddedTyped
  <1>4. ASSUME NEW U, Counts(radar.cells, All(U)), f \notin U
        PROVE  Counts(new, All(U)) \/ Counts(new, All(U \cup {f}))
    <2>1. CASE Known(radar, f)
      <3>1. df = 0 /\ FIDs = {}
        BY <2>1
      <3>2. Counts((CHOOSE c : AddIs(radar.cells, f, 0, n, {}, c))[hash_number], All(U))
        BY <1>4, AddedNone
      <3> HIDE DEF df, FIDs
      <3> QED
        BY <3>1, <3>2
    <2>2. CASE ~Known(radar, f)
      <3>1. df = 1 /\ FIDs = {f}
        BY <2>2
      <3>2. Counts((CHOOSE c : AddIs(radar.cells, f, 1, n, {f}, c))[hash_number], All(U \cup {f}))
        BY <1>4, AddedNew
      <3> HIDE DEF df, FIDs
      <3> QED
        BY <3>1, <3>2
    <2> QED
      BY <2>1, <2>2
  <1> HIDE DEF set, new
  <1> QED
    BY <1>1, <1>2, <1>3, <1>4 DEF RadarType

LEMMA EmptyCounts ==
  RadarEmpty \in RadarType /\ Counts(RadarEmpty.cells, All({}))
  <1> DEFINE cells == RadarEmpty.cells
  <1>1. RadarEmpty \in RadarType
    BY DEF RadarEmpty, RadarType, RadarCells
  <1>2. All({}) = {} /\ IsFiniteSet({}) /\ Cardinality({}) = 0
    BY FS_EmptySet DEF All
  <1>3. \A j, f : At({}, j) = {} /\ By({}, j, f) = {}
    BY DEF At, By
  <1>4. \A j : Odd({}, j) = {}
    <2>1. ~(0 % 2 = 1)
      OBVIOUS
    <2> QED
      BY <1>2, <1>3, <2>1 DEF Odd
  <1>5. \A j \in Cells : cells[j].fn = 0 /\ cells[j].FIDXOR = {}
    BY DEF RadarEmpty
  <1>6. cells \in RadarCells
    BY <1>1 DEF RadarType
  <1>7. Counts(cells, {})
    <2> HIDE DEF cells
    <2> QED
      BY <1>2, <1>3, <1>4, <1>5, <1>6 DEF Counts
  <1> QED
    BY <1>1, <1>2, <1>7

RadarIs(gt, r) ==
  r = [l \in 0 .. Len(gt) |-> IF l = 0 THEN RadarEmpty
                              ELSE RadarAdd(r[l - 1], gt[l][1], gt[l][2])]

LEMMA RadarUnfolds == Radar = (CHOOSE r : RadarIs(retrieve, r))[Len(retrieve)].cells
  BY Zenon DEF Radar, RadarIs

LEMMA RadarCounts ==
  ASSUME traces \in Seq(Flows), traces # <<>> => hash \in Hashes
  PROVE  \E U \in SUBSET seen : Counts(Radar, All(U))
  <1> DEFINE gt == retrieve
             N == Len(gt)
             V == RadarType
             step == [p \in Nat \X V |->
                        IF p[1] \in 1 .. N THEN RadarAdd(p[2], gt[p[1]][1], gt[p[1]][2])
                        ELSE p[2]]
             r == CHOOSE r : RadarIs(gt, r)
  <1>1. /\ N \in Nat
        /\ \A l \in 1 .. N : gt[l][1] \in seen /\ gt[l][1] \in Flows /\ gt[l][2] \in Int
        /\ \A l, m \in 1 .. N : gt[l][1] = gt[m][1] => l = m
    <2> DEFINE n == [f \in seen |-> Number(f)]
    <2>1. Lists(gt, seen, n)
      BY RetrieveLists
    <2>2. seen \subseteq Flows /\ \A f \in seen : n[f] \in Int
      BY Seen
    <2> HIDE DEF gt, n
    <2> QED
      BY <2>1, <2>2 DEF Lists
  <1>2. N > 0 => hash \in Hashes
    <2>1. N > 0 => 1 \in 1 .. N
      BY <1>1
    <2>2. traces = <<>> => seen = {}
      BY DEF seen, ToSet
    <2> HIDE DEF gt
    <2> QED
      BY <1>1, <2>1, <2>2
  <1> HIDE DEF gt, N, V
  <1>3. /\ RadarEmpty \in V
        /\ \A radar \in V, l \in 1 .. N : RadarAdd(radar, gt[l][1], gt[l][2]) \in V
    <2>1. \A l \in 1 .. N : hash \in Hashes
      BY <1>1, <1>2
    <2> QED
      BY <1>1, <2>1, EmptyCounts, RadarAdded DEF V
  <1>4. step \in [Nat \X V -> V]
    BY <1>3
  <1>5. PICK q \in [0 .. N -> V] : RecursionUpTo(N, q, RadarEmpty, step)
    <2> HIDE DEF step
    <2> QED
      BY <1>1, <1>3, <1>4, Recursion
  <1>6. RadarIs(gt, q)
    <2>1. q[0] = RadarEmpty /\ \A l \in 1 .. N : q[l] = step[<<l, q[l - 1]>>]
      <3> HIDE DEF step
      <3> QED
        BY <1>5 DEF RecursionUpTo
    <2>2. \A l \in 1 .. N : <<l, q[l - 1]>> \in Nat \X V
      BY <1>1, <1>5
    <2>3. \A l \in 1 .. N : q[l] = RadarAdd(q[l - 1], gt[l][1], gt[l][2])
      BY <2>1, <2>2
    <2>4. \A l \in 0 .. N : q[l] = IF l = 0 THEN RadarEmpty
                                   ELSE RadarAdd(q[l - 1], gt[l][1], gt[l][2])
      BY <1>1, <2>1, <2>3
    <2>5. q = [l \in 0 .. N |-> q[l]]
      BY <1>5
    <2>6. q = [l \in 0 .. N |-> IF l = 0 THEN RadarEmpty
                                ELSE RadarAdd(q[l - 1], gt[l][1], gt[l][2])]
      BY <2>4, <2>5
    <2> QED
      BY <2>6 DEF RadarIs, N
  <1>7. r[0] = RadarEmpty /\ \A l \in 1 .. N : r[l] = RadarAdd(r[l - 1], gt[l][1], gt[l][2])
    <2>1. RadarIs(gt, r)
      BY <1>6, Zenon
    <2> HIDE DEF r
    <2>2. r = [l \in 0 .. N |-> IF l = 0 THEN RadarEmpty
                                ELSE RadarAdd(r[l - 1], gt[l][1], gt[l][2])]
      BY <2>1 DEF RadarIs, N
    <2>3. \A l \in 0 .. N : r[l] = IF l = 0 THEN RadarEmpty
                                   ELSE RadarAdd(r[l - 1], gt[l][1], gt[l][2])
      BY <2>2
    <2> QED
      BY <1>1, <2>3
  <1> HIDE DEF r, step
  <1> DEFINE S == {l \in 0 .. N : /\ r[l] \in V
                                  /\ \E U \in SUBSET {gt[m][1] : m \in 1 .. l} :
                                       Counts(r[l].cells, All(U))}
  <1>8. 0 \in S
    <2>1. {} \in SUBSET {gt[m][1] : m \in 1 .. 0}
      OBVIOUS
    <2>2. \E U \in SUBSET {gt[m][1] : m \in 1 .. 0} : Counts(r[0].cells, All(U))
      BY <1>7, <2>1, EmptyCounts
    <2> QED
      BY <1>1, <1>3, <1>7, <2>2
  <1>9. ASSUME NEW l \in 1 .. N, l - 1 \in S
        PROVE  l \in S
    <2> DEFINE f == gt[l][1]
               n == gt[l][2]
    <2>1. PICK U \in SUBSET {gt[m][1] : m \in 1 .. l - 1} : Counts(r[l - 1].cells, All(U))
      BY <1>9
    <2>2. r[l - 1] \in V /\ f \in Flows /\ n \in Int /\ hash \in Hashes
          /\ r[l] = RadarAdd(r[l - 1], f, n) /\ l \in 0 .. N
      BY <1>1, <1>2, <1>7, <1>9
    <2>3. f \notin U
      <3>1. \A m \in 1 .. l - 1 : m \in 1 .. N /\ m # l
        BY <1>1
      <3> QED
        BY <1>1, <2>1, <3>1
    <2> HIDE DEF n
    <2>4. U \in SUBSET {gt[m][1] : m \in 1 .. l}
          /\ U \cup {f} \in SUBSET {gt[m][1] : m \in 1 .. l}
      <3>1. \A m \in 1 .. l - 1 : m \in 1 .. l
        BY <1>1
      <3>2. l \in 1 .. l
        BY <1>1
      <3> QED
        BY <2>1, <3>1, <3>2
    <2> HIDE DEF f
    <2>5. /\ RadarAdd(r[l - 1], f, n) \in RadarType
          /\ \/ Counts(RadarAdd(r[l - 1], f, n).cells, All(U))
             \/ Counts(RadarAdd(r[l - 1], f, n).cells, All(U \cup {f}))
      BY <2>1, <2>2, <2>3, RadarAdded DEF V
    <2>6. \E W \in SUBSET {gt[m][1] : m \in 1 .. l} : Counts(r[l].cells, All(W))
      BY <2>2, <2>4, <2>5
    <2> QED
      BY <2>2, <2>5, <2>6 DEF V
  <1>10. N \in S
    <2>1. N \in 0 .. N
      BY <1>1
    <2> HIDE DEF S
    <2>2. \A l \in 0 .. N : l \in S
      BY <1>1, <1>8, <1>9, InductionUpTo
    <2> QED
      BY <2>1, <2>2
  <1>11. PICK U \in SUBSET {gt[m][1] : m \in 1 .. N} : Counts(r[N].cells, All(U))
    BY <1>10
  <1>12. U \in SUBSET seen
    BY <1>1, <1>11
  <1>13. Radar = r[N].cells
    BY RadarUnfolds DEF r, N, gt
  <1> QED
    BY <1>11, <1>12, <1>13

----------------------------------------------------------------------------
(* Flows are taken out.                                                    *)

\* A cell that counts one flow holds it.
LEMMA Lone ==
  ASSUME NEW cells, NEW U, Counts(cells, All(U)), NEW j \in Cells, cells[j].fn = 1
  PROVE  \E f \in U : f \in Flows /\ cells[j].FIDXOR = {f}
  <1> DEFINE P == All(U)
  <1>1. /\ P \in SUBSET Pairs /\ IsFiniteSet(P)
        /\ Cardinality(At(P, j)) = 1 /\ cells[j].FIDXOR = Odd(P, j)
    BY DEF Counts
  <1>2. IsFiniteSet(At(P, j))
    <2>1. At(P, j) \in SUBSET P
      BY DEF At
    <2> QED
      BY <1>1, <2>1, FS_Subset
  <1>3. PICK p : At(P, j) = {p}
    <2> HIDE DEF P
    <2> QED
      BY <1>1, <1>2, FS_Singleton
  <1>4. p \in P /\ h(p[2], p[1]) = j
    BY <1>3 DEF At
  <1> DEFINE f == p[1]
             i == p[2]
  <1>5. p = <<f, i>> /\ f \in U /\ f \in Flows /\ i \in 1 .. 3
    BY <1>1, <1>4 DEF All, Pairs
  <1>6. By(P, j, f) = {i}
    <2>1. \A l : <<f, l>> \in P /\ h(l, f) = j => <<f, l>> = p
      BY <1>3 DEF At
    <2>2. \A l \in By(P, j, f) : l = i
      BY <2>1 DEF By
    <2>3. i \in By(P, j, f)
      BY <1>4, <1>5 DEF By
    <2> HIDE DEF i
    <2> QED
      BY <2>2, <2>3
  <1>7. \A g : g # f => By(P, j, g) = {}
    <2>1. \A g, l : <<g, l>> \in P /\ h(l, g) = j => <<g, l>> = p
      BY <1>3 DEF At
    <2> QED
      BY <2>1 DEF By
  <1>8. Cardinality({i}) = 1 /\ Cardinality({}) = 0
    <2> HIDE DEF i
    <2>1. IsFiniteSet({i}) /\ Cardinality({i}) = 1
      BY FS_Singleton
    <2> QED
      BY <2>1, FS_EmptySet
  <1>9. Odd(P, j) = {f}
    <2>1. 1 % 2 = 1 /\ 0 % 2 # 1
      OBVIOUS
    <2> HIDE DEF P, f, i
    <2>2. \A g \in Flows : Cardinality(By(P, j, g)) % 2 = 1 <=> g = f
      BY <1>6, <1>7, <1>8, <2>1
    <2> QED
      BY <1>5, <2>2 DEF Odd
  <1> QED
    BY <1>1, <1>5, <1>9

\* A flow is taken out of its three cells.
TakeIs(cells, i, FIDs, t) ==
  t = [j \in 0 .. hash_number |->
         IF j = 0 THEN cells
         ELSE Change(t[j - 1], h(j, The(FIDs)), -1, -t[j - 1][i].pn, FIDs)]

LEMMA TakeUnfolds ==
  ASSUME NEW cells, NEW i, NEW FIDs
  PROVE  RadarTake(cells, i, FIDs) = (CHOOSE t : TakeIs(cells, i, FIDs, t))[hash_number]
  BY Zenon DEF RadarTake, TakeIs

LEMMA TakeSteps ==
  ASSUME NEW cells, NEW i, NEW FIDs
  PROVE  LET f == The(FIDs)
             one == Change(cells, h(1, f), -1, -cells[i].pn, FIDs)
             two == Change(one, h(2, f), -1, -one[i].pn, FIDs)
         IN RadarTake(cells, i, FIDs) = Change(two, h(3, f), -1, -two[i].pn, FIDs)
  <1> DEFINE f == The(FIDs)
             by(c, j) == Change(c, h(j, f), -1, -c[i].pn, FIDs)
             one == by(cells, 1)
             two == by(one, 2)
             three == by(two, 3)
             q == [j \in 0 .. 3 |-> IF j = 0 THEN cells ELSE IF j = 1 THEN one
                                    ELSE IF j = 2 THEN two ELSE three]
             t == CHOOSE t : TakeIs(cells, i, FIDs, t)
  <1>0. /\ one = by(cells, 1) /\ two = by(one, 2) /\ three = by(two, 3)
    OBVIOUS
  <1> HIDE DEF one, two, three, by
  <1>1. /\ q[0] = cells /\ q[1] = one /\ q[2] = two /\ q[3] = three
        /\ \A j \in 0 .. 3 : j = 0 \/ j = 1 \/ j = 2 \/ j = 3
    OBVIOUS
  <1>2. \A j \in 0 .. 3 : q[j] = IF j = 0 THEN cells ELSE by(q[j - 1], j)
    <2> HIDE DEF q
    <2>1. 1 - 1 = 0 /\ 2 - 1 = 1 /\ 3 - 1 = 2
      OBVIOUS
    <2> QED
      BY <1>0, <1>1, <2>1
  <1>3. TakeIs(cells, i, FIDs, q)
    <2>1. q = [j \in 0 .. 3 |-> q[j]]
      OBVIOUS
    <2> HIDE DEF q
    <2>2. q = [j \in 0 .. 3 |-> IF j = 0 THEN cells ELSE by(q[j - 1], j)]
      BY <1>2, <2>1
    <2>3. q = [j \in 0 .. hash_number |-> IF j = 0 THEN cells ELSE by(q[j - 1], j)]
      BY <2>2 DEF hash_number
    <2> QED
      BY <2>3, Zenon DEF TakeIs, by
  <1>4. TakeIs(cells, i, FIDs, t)
    <2> HIDE DEF q
    <2> QED
      BY <1>3, Zenon
  <1>5. RadarTake(cells, i, FIDs) = t[3]
    BY TakeUnfolds DEF hash_number
  <1> HIDE DEF t, q
  <1>6. \A j \in 0 .. 3 : t[j] = IF j = 0 THEN cells ELSE by(t[j - 1], j)
    <2>1. t = [j \in 0 .. hash_number |-> IF j = 0 THEN cells ELSE by(t[j - 1], j)]
      BY <1>4, Zenon DEF TakeIs, by
    <2> QED
      BY <2>1 DEF hash_number
  <1>7. t[3] = three
    <2>1. t[0] = cells
      BY <1>6
    <2>2. t[1] = by(t[0], 1)
      BY <1>6
    <2>3. t[2] = by(t[1], 2)
      BY <1>6
    <2>4. t[3] = by(t[2], 3)
      BY <1>6
    <2> QED
      BY <1>0, <2>1, <2>2, <2>3, <2>4
  <1> QED
    BY <1>5, <1>7 DEF one, two, three, by

LEMMA RadarTaken ==
  ASSUME hash \in Hashes, NEW cells, NEW U, Counts(cells, All(U)), NEW f \in Flows, f \in U,
         NEW i \in Cells
  PROVE  Counts(RadarTake(cells, i, {f}), All(U \ {f}))
  <1> DEFINE one == Change(cells, h(1, f), -1, -cells[i].pn, {f})
             two == Change(one, h(2, f), -1, -one[i].pn, {f})
             three == Change(two, h(3, f), -1, -two[i].pn, {f})
             P == All(U)
             P1 == P \ {<<f, 1>>}
             P2 == P1 \ {<<f, 2>>}
             P3 == P2 \ {<<f, 3>>}
  <1>1. RadarTake(cells, i, {f}) = three
    <2>1. The({f}) = f
      BY DEF The
    <2>2. LET g == The({f})
              o == Change(cells, h(1, g), -1, -cells[i].pn, {f})
              t == Change(o, h(2, g), -1, -o[i].pn, {f})
          IN RadarTake(cells, i, {f}) = Change(t, h(3, g), -1, -t[i].pn, {f})
      BY TakeSteps
    <2> QED
      BY <2>1, <2>2, Zenon
  <1>2. <<f, 1>> \in P /\ <<f, 2>> \in P1 /\ <<f, 3>> \in P2
        /\ P3 = All(U \ {f})
    BY DEF All
  <1>3. 1 \in 1 .. 3 /\ 2 \in 1 .. 3 /\ 3 \in 1 .. 3
    OBVIOUS
  <1>4. \A c, Q : Counts(c, Q) => -c[i].pn \in Int
    BY DEF Counts, RadarCells
  <1>5. Counts(one, P1)
    <2> HIDE DEF P
    <2>1. -cells[i].pn \in Int
      BY <1>4 DEF P
    <2> QED
      BY <1>2, <1>3, <2>1, TakePair DEF P
  <1>6. Counts(two, P2)
    <2> HIDE DEF one, P1
    <2>1. -one[i].pn \in Int
      BY <1>4, <1>5
    <2> QED
      BY <1>2, <1>3, <1>5, <2>1, TakePair
  <1>7. Counts(three, P3)
    <2> HIDE DEF two, P2
    <2>1. -two[i].pn \in Int
      BY <1>4, <1>6
    <2> QED
      BY <1>2, <1>3, <1>6, <2>1, TakePair
  <1> HIDE DEF three, P3
  <1> QED
    BY <1>1, <1>2, <1>7

----------------------------------------------------------------------------
(* The scans.                                                              *)

\* What is found, and what is left in the cells.
Scanned(s, U) ==
  /\ U \in SUBSET seen /\ Counts(s.cells, All(U))
  /\ \A l \in 1 .. Len(s.ret) : s.ret[l][1] \in seen \ U
  /\ \A l, m \in 1 .. Len(s.ret) : s.ret[l][1] = s.ret[m][1] => l = m

Scannings == {s \in [cells : RadarCells, ret : Seq(Flows \X Int)] : \E U : Scanned(s, U)}

ScanStep(s, n) ==
  LET i    == (n - 1) % cell_number
      cell == s.cells[i]
  IN IF cell.fn # 1 \/ Cardinality(cell.FIDXOR) # 1 THEN s
     ELSE [cells |-> RadarTake(s.cells, i, cell.FIDXOR),
           ret   |-> Append(s.ret, <<The(cell.FIDXOR), cell.pn>>)]

LEMMA Scan ==
  ASSUME traces \in Seq(Flows), traces # <<>> => hash \in Hashes,
         NEW s \in Scannings, NEW n \in Nat \ {0}
  PROVE  /\ ScanStep(s, n) \in Scannings
         /\ \/ ScanStep(s, n) = s /\ s.cells[(n - 1) % cell_number].fn # 1
            \/ Len(ScanStep(s, n).ret) = Len(s.ret) + 1
  <1> DEFINE i == (n - 1) % cell_number
             FIDs == s.cells[i].FIDXOR
             pn == s.cells[i].pn
             new == [cells |-> RadarTake(s.cells, i, FIDs), ret |-> Append(s.ret, <<The(FIDs), pn>>)]
  <1>1. i \in Cells
    <2>1. cell_number \in Nat \ {0} /\ n - 1 \in Int
      BY SketchesAssumption
    <2> QED
      BY <2>1, DivMod DEF Cells
  <1>2. ScanStep(s, n) = IF s.cells[i].fn # 1 \/ Cardinality(FIDs) # 1 THEN s ELSE new
    BY DEF ScanStep
  <1>3. CASE s.cells[i].fn # 1
    BY <1>2, <1>3
  <1>4. CASE s.cells[i].fn = 1
    <2>1. PICK U : Scanned(s, U)
      BY DEF Scannings
    <2>2. PICK f \in U : f \in Flows /\ FIDs = {f}
      BY <1>1, <1>4, <2>1, Lone DEF Scanned
    <2>3. Cardinality(FIDs) = 1 /\ The(FIDs) = f
      <3>1. Cardinality({f}) = 1 /\ The({f}) = f
        BY FS_Singleton DEF The
      <3> QED
        BY <2>2, <3>1
    <2>4. ScanStep(s, n) = new
      BY <1>2, <1>4, <2>3
    <2>5. hash \in Hashes
      BY <2>1, <2>2 DEF Scanned, seen, ToSet
    <2>6. s.cells \in RadarCells /\ s.ret \in Seq(Flows \X Int) /\ pn \in Int
      BY <1>1 DEF Scannings, RadarCells
    <2> DEFINE cells == RadarTake(s.cells, i, {f})
               item == <<f, pn>>
               ret == Append(s.ret, item)
    <2>7. Counts(cells, All(U \ {f}))
      BY <1>1, <2>1, <2>2, <2>5, RadarTaken DEF Scanned
    <2>8. new = [cells |-> cells, ret |-> ret]
      BY <2>2, <2>3
    <2>9. item \in Flows \X Int /\ item[1] = f
      BY <2>2, <2>6
    <2> HIDE DEF new, i, FIDs, pn, item
    <2>10. /\ Len(s.ret) \in Nat /\ ret \in Seq(Flows \X Int) /\ Len(ret) = Len(s.ret) + 1
           /\ ret[Len(s.ret) + 1] = item
           /\ \A l \in 1 .. Len(s.ret) : ret[l] = s.ret[l]
      BY <2>6, <2>9, AppendProperties, LenProperties
    <2> HIDE DEF ret, cells
    <2>11. \A l \in 1 .. Len(ret) : l \in 1 .. Len(s.ret) \/ l = Len(s.ret) + 1
      BY <2>10
    <2>12. \A l \in 1 .. Len(ret) : ret[l][1] \in seen \ (U \ {f})
      BY <2>1, <2>2, <2>9, <2>10, <2>11 DEF Scanned
    <2>13. \A l, m \in 1 .. Len(ret) : ret[l][1] = ret[m][1] => l = m
      <3>1. \A l \in 1 .. Len(s.ret) : ret[l][1] # f
        <4>1. \A l \in 1 .. Len(s.ret) : s.ret[l][1] \notin U
          BY <2>1 DEF Scanned
        <4>2. \A l \in 1 .. Len(s.ret) : s.ret[l][1] # f
          BY <2>2, <4>1
        <4> QED
          BY <2>10, <4>2
      <3> QED
        BY <2>1, <2>9, <2>10, <2>11, <3>1 DEF Scanned
    <2>14. U \ {f} \in SUBSET seen
      BY <2>1 DEF Scanned
    <2>15. new.cells = cells /\ new.ret = ret /\ cells \in RadarCells
      BY <2>7, <2>8 DEF Counts
    <2>16. Scanned(new, U \ {f})
      BY <2>7, <2>12, <2>13, <2>14, <2>15 DEF Scanned
    <2>17. new \in [cells : RadarCells, ret : Seq(Flows \X Int)]
      BY <2>8, <2>10, <2>15
    <2>18. new \in Scannings
      BY <2>16, <2>17 DEF Scannings
    <2> QED
      BY <2>4, <2>10, <2>15, <2>18
  <1> QED
    BY <1>3, <1>4

\* As many flows can be found as there are.
LEMMA UpTo ==
  ASSUME NEW n \in Nat
  PROVE  IsFiniteSet(1 .. n) /\ Cardinality(1 .. n) = n
  <1>1. PICK a \in Int : a = 1
    OBVIOUS
  <1>2. IsFiniteSet(a .. n) /\ Cardinality(a .. n) = IF a > n THEN 0 ELSE n - a + 1
    BY FS_Interval
  <1> QED
    BY <1>1, <1>2

LEMMA ScannedLess ==
  ASSUME traces \in Seq(Flows), NEW s \in Scannings
  PROVE  /\ Len(s.ret) \in Nat /\ Len(retrieve) \in Nat /\ Len(s.ret) <= Len(retrieve)
         /\ Cardinality(FIDsOf(s.ret)) = Len(s.ret) /\ FIDsOf(s.ret) \subseteq seen
  <1> DEFINE gt == retrieve
             n == [f \in seen |-> Number(f)]
             T == FIDsOf(s.ret)
  <1>1. IsFiniteSet(seen)
    BY Seen
  <1>2. Len(gt) \in Nat /\ Cardinality(seen) = Len(gt)
    <2>1. Lists(gt, seen, n)
      BY RetrieveLists
    <2> HIDE DEF gt, n
    <2> DEFINE k == [l \in 1 .. Len(gt) |-> gt[l][1]]
    <2>2. /\ Len(gt) \in Nat /\ k \in [1 .. Len(gt) -> seen]
          /\ \A l, m \in 1 .. Len(gt) : k[l] = k[m] => l = m
          /\ \A f \in seen : \E l \in 1 .. Len(gt) : k[l] = f
      BY <2>1 DEF Lists
    <2>3. IsFiniteSet(1 .. Len(gt)) /\ Cardinality(1 .. Len(gt)) = Len(gt)
      BY <2>2, UpTo
    <2> HIDE DEF k
    <2> QED
      BY <2>2, <2>3, SameNumber
  <1> HIDE DEF gt, n
  <1>3. PICK U : Scanned(s, U)
    BY DEF Scannings
  <1>4. Len(s.ret) \in Nat /\ DOMAIN s.ret = 1 .. Len(s.ret)
    BY LenProperties DEF Scannings
  <1>5. T \in SUBSET seen
    BY <1>3, <1>4 DEF Scanned, FIDsOf
  <1>6. Cardinality(T) = Len(s.ret)
    <2> DEFINE k == [l \in 1 .. Len(s.ret) |-> s.ret[l][1]]
    <2>1. /\ k \in [1 .. Len(s.ret) -> T]
          /\ \A l, m \in 1 .. Len(s.ret) : k[l] = k[m] => l = m
          /\ \A f \in T : \E l \in 1 .. Len(s.ret) : k[l] = f
      BY <1>3, <1>4 DEF Scanned, FIDsOf
    <2>2. IsFiniteSet(1 .. Len(s.ret)) /\ Cardinality(1 .. Len(s.ret)) = Len(s.ret)
      BY <1>4, UpTo
    <2>3. PICK N : N = Len(s.ret)
      OBVIOUS
    <2>4. k \in [1 .. N -> T] /\ IsFiniteSet(1 .. N) /\ Cardinality(1 .. N) = N
      BY <2>1, <2>2, <2>3
    <2>5. \A l, m \in 1 .. N : k[l] = k[m] => l = m
      BY <2>1, <2>3
    <2>6. \A f \in T : \E l \in 1 .. N : k[l] = f
      BY <2>1, <2>3
    <2> HIDE DEF k, T
    <2>7. Cardinality(T) = Cardinality(1 .. N)
      BY <2>4, <2>5, <2>6, SameNumber
    <2> QED
      BY <2>3, <2>4, <2>7
  <1>7. Cardinality(T) <= Cardinality(seen)
    <2> HIDE DEF T
    <2> QED
      BY <1>1, <1>5, FS_Subset
  <1> QED
    BY <1>2, <1>4, <1>5, <1>6, <1>7 DEF gt

ScanIs(s) ==
  s = [n \in 0 .. Scans |-> IF n = 0 THEN [cells |-> Radar, ret |-> <<>>]
                            ELSE ScanStep(s[n - 1], n)]

LEMMA ScanUnfolds == Flow_Radar = (CHOOSE s : ScanIs(s))[Scans]
  BY Zenon DEF Flow_Radar, ScanIs, ScanStep

LEMMA Scanning ==
  ASSUME traces \in Seq(Flows), traces # <<>> => hash \in Hashes
  PROVE  LET s == CHOOSE s : ScanIs(s)
         IN /\ Scans \in Nat
            /\ \A n \in 0 .. Scans : s[n] \in Scannings
            /\ \A n \in 1 .. Scans : s[n] = ScanStep(s[n - 1], n)
  <1> DEFINE V == Scannings
             s == CHOOSE s : ScanIs(s)
             v == [cells |-> Radar, ret |-> <<>>]
             step == [p \in Nat \X V |-> IF p[1] > 0 THEN ScanStep(p[2], p[1]) ELSE p[2]]
  <1>1. Scans \in Nat
    <2>1. cell_number \in Nat /\ Len(retrieve) \in Nat
      BY RetrieveLists, SketchesAssumption DEF Lists
    <2> QED
      BY <2>1 DEF Scans
  <1>2. v \in V
    <2>1. PICK U \in SUBSET seen : Counts(Radar, All(U))
      BY RadarCounts
    <2>2. Radar \in RadarCells
      BY <2>1 DEF Counts
    <2>3. v.cells = Radar /\ v.ret = <<>> /\ Len(v.ret) = 0 /\ 1 .. 0 = {}
          /\ <<>> \in Seq(Flows \X Int)
      OBVIOUS
    <2>4. v \in [cells : RadarCells, ret : Seq(Flows \X Int)]
      BY <2>2, <2>3
    <2> HIDE DEF v
    <2>5. Scanned(v, U)
      BY <2>1, <2>3 DEF Scanned
    <2> QED
      BY <2>4, <2>5 DEF Scannings
  <1> HIDE DEF V, v
  <1>3. \A a \in V, n \in Nat \ {0} : ScanStep(a, n) \in V
    BY Scan DEF V
  <1>4. step \in [Nat \X V -> V]
    BY <1>3
  <1>5. PICK q \in [0 .. Scans -> V] : RecursionUpTo(Scans, q, v, step)
    <2> HIDE DEF step
    <2> QED
      BY <1>1, <1>2, <1>4, Recursion
  <1>6. ScanIs(q)
    <2>1. q[0] = v /\ \A n \in 1 .. Scans : q[n] = step[<<n, q[n - 1]>>]
      <3> HIDE DEF step
      <3> QED
        BY <1>5 DEF RecursionUpTo
    <2>2. \A n \in 1 .. Scans : <<n, q[n - 1]>> \in Nat \X V /\ n > 0
      BY <1>1, <1>5
    <2>3. \A n \in 1 .. Scans : q[n] = ScanStep(q[n - 1], n)
      BY <2>1, <2>2
    <2>4. \A n \in 0 .. Scans : q[n] = IF n = 0 THEN v ELSE ScanStep(q[n - 1], n)
      BY <1>1, <2>1, <2>3
    <2>5. q = [n \in 0 .. Scans |-> q[n]]
      BY <1>5
    <2>6. q = [n \in 0 .. Scans |-> IF n = 0 THEN v ELSE ScanStep(q[n - 1], n)]
      BY <2>4, <2>5
    <2> QED
      BY <2>6 DEF ScanIs, v
  <1>7. s[0] = v /\ \A n \in 1 .. Scans : s[n] = ScanStep(s[n - 1], n)
    <2>1. ScanIs(s)
      BY <1>6, Zenon
    <2> HIDE DEF s
    <2>2. s = [n \in 0 .. Scans |-> IF n = 0 THEN v ELSE ScanStep(s[n - 1], n)]
      BY <2>1 DEF ScanIs, v
    <2>3. \A n \in 0 .. Scans : s[n] = IF n = 0 THEN v ELSE ScanStep(s[n - 1], n)
      BY <2>2
    <2> QED
      BY <1>1, <2>3
  <1> HIDE DEF s, step
  <1> DEFINE S == {n \in 0 .. Scans : s[n] \in V}
  <1>8. 0 \in S
    BY <1>1, <1>2, <1>7
  <1>9. ASSUME NEW n \in 1 .. Scans, n - 1 \in S
        PROVE  n \in S
    <2>1. n \in Nat \ {0} /\ n \in 0 .. Scans
      BY <1>1
    <2>2. s[n - 1] \in V /\ s[n] = ScanStep(s[n - 1], n)
      BY <1>7, <1>9
    <2> QED
      BY <1>3, <2>1, <2>2
  <1>10. \A n \in 0 .. Scans : n \in S
    <2> HIDE DEF S
    <2> QED
      BY <1>1, <1>8, <1>9, InductionUpTo
  <1> QED
    BY <1>1, <1>7, <1>10 DEF s, V

\* The next number has the next rest, or is the next multiple.
LEMMA NextDivided ==
  ASSUME NEW n \in Nat \ {0}, NEW b \in Nat \ {0}
  PROVE  LET q == (n - 1) \div b
             r == (n - 1) % b
         IN /\ q \in Nat /\ r \in 0 .. b - 1
            /\ r + 1 < b => n \div b = q /\ n % b = r + 1
            /\ r + 1 >= b => r = b - 1 /\ n \div b = q + 1 /\ n % b = 0
  <1> DEFINE q == (n - 1) \div b
             r == (n - 1) % b
  <1>1. n - 1 \in Nat /\ n \in Int /\ b \in Nat
    OBVIOUS
  <1>2. q \in Nat /\ r \in Nat /\ r < b /\ n - 1 = q * b + r
    BY <1>1, Divided
  <1> HIDE DEF q, r
  <1>3. r \in 0 .. b - 1
    BY <1>1, <1>2
  <1>4. PICK m \in Int : m = q * b
    BY <1>2
  <1>5. n = m + r + 1 /\ (q + 1) * b = m + b /\ q + 1 \in Int /\ q \in Int
    BY <1>2, <1>4
  <1>6. ASSUME r + 1 < b
        PROVE  n \div b = q /\ n % b = r + 1
    <2>1. q * b <= n /\ n < (q + 1) * b /\ n - q * b = r + 1
      BY <1>2, <1>4, <1>5, <1>6
    <2>2. n \div b = q /\ n % b = n - q * b
      BY <1>1, <1>5, <2>1, DivIs
    <2> QED
      BY <2>1, <2>2
  <1>7. ASSUME r + 1 >= b
        PROVE  r = b - 1 /\ n \div b = q + 1 /\ n % b = 0
    <2>1. r = b - 1 /\ n = m + b
      BY <1>1, <1>2, <1>5, <1>7
    <2>2. PICK k \in Int : k = q + 1
      BY <1>5
    <2>3. k * b <= n /\ n < (k + 1) * b /\ n - k * b = 0
      BY <1>1, <1>5, <2>1, <2>2
    <2>4. n \div b = k /\ n % b = n - k * b
      BY <1>1, <2>3, DivIs
    <2> QED
      BY <2>1, <2>2, <2>3, <2>4
  <1> QED
    BY <1>2, <1>3, <1>6, <1>7 DEF q, r

\* A scan finds a flow, or has found none in the cells it looked at.
NoneLeft(s, C) == \A j \in C : s.cells[j].fn # 1

Progress(s, n) ==
  \/ NoneLeft(s, Cells)
  \/ Len(s.ret) >= n \div cell_number + 1
  \/ Len(s.ret) >= n \div cell_number /\ NoneLeft(s, 0 .. (n % cell_number) - 1)

LEMMA Progresses ==
  ASSUME NEW s, NEW t, NEW n \in Nat \ {0}, Progress(s, n - 1), Len(s.ret) \in Nat,
         \/ t = s /\ s.cells[(n - 1) % cell_number].fn # 1
         \/ ~NoneLeft(s, Cells) /\ Len(t.ret) = Len(s.ret) + 1
  PROVE  Progress(t, n)
  <1> DEFINE b == cell_number
             q == (n - 1) \div b
             r == (n - 1) % b
             m == Len(s.ret)
  <1>1. b \in Nat \ {0} /\ Cells = 0 .. b - 1
    BY SketchesAssumption DEF Cells
  <1>2. /\ q \in Nat /\ r \in 0 .. b - 1
        /\ r + 1 < b => n \div b = q /\ n % b = r + 1
        /\ r + 1 >= b => r = b - 1 /\ n \div b = q + 1 /\ n % b = 0
    BY <1>1, NextDivided
  <1>3. PICK k, c : k = n \div b /\ c = n % b
    OBVIOUS
  <1> HIDE DEF b
  <1>4. /\ Progress(s, n - 1) <=> \/ NoneLeft(s, Cells) \/ m >= q + 1
                                  \/ m >= q /\ NoneLeft(s, 0 .. r - 1)
        /\ Progress(t, n) <=> \/ NoneLeft(t, Cells) \/ Len(t.ret) >= k + 1
                              \/ Len(t.ret) >= k /\ NoneLeft(t, 0 .. c - 1)
    BY <1>3 DEF Progress, b
  <1> HIDE DEF q, r, m
  <1>5. CASE t = s /\ s.cells[(n - 1) % cell_number].fn # 1
    <2>1. s.cells[r].fn # 1
      BY <1>5 DEF r, b
    <2>2. CASE r + 1 < b
      <3>1. k = q /\ c = r + 1 /\ Len(t.ret) = m
        BY <1>2, <1>3, <1>5, <2>2 DEF m
      <3>2. NoneLeft(s, 0 .. r - 1) => NoneLeft(t, 0 .. c - 1)
        BY <1>2, <1>5, <2>1, <3>1 DEF NoneLeft
      <3> QED
        BY <1>4, <1>5, <3>1, <3>2
    <2>3. CASE r + 1 >= b
      <3>1. k = q + 1 /\ c = 0 /\ Len(t.ret) = m /\ r = b - 1
        BY <1>2, <1>3, <1>5, <2>3 DEF m
      <3>2. NoneLeft(s, 0 .. r - 1) => NoneLeft(t, Cells)
        BY <1>1, <1>2, <1>5, <2>1, <3>1 DEF NoneLeft
      <3>3. NoneLeft(t, 0 .. c - 1)
        BY <3>1 DEF NoneLeft
      <3> QED
        BY <1>4, <1>5, <3>1, <3>2, <3>3
    <2>4. r \in Int /\ b \in Int
      BY <1>1, <1>2
    <2> QED
      BY <2>2, <2>3, <2>4
  <1>6. CASE ~NoneLeft(s, Cells) /\ Len(t.ret) = Len(s.ret) + 1
    <2>1. m \in Nat /\ m >= q /\ Len(t.ret) = m + 1
      BY <1>2, <1>4, <1>6 DEF m
    <2>2. k = q \/ (k = q + 1 /\ c = 0)
      BY <1>1, <1>2, <1>3
    <2>3. c = 0 => NoneLeft(t, 0 .. c - 1)
      BY DEF NoneLeft
    <2> QED
      BY <1>2, <1>4, <2>1, <2>2, <2>3
  <1> QED
    BY <1>5, <1>6

LEMMA ScansEnd ==
  ASSUME traces \in Seq(Flows), traces # <<>> => hash \in Hashes
  PROVE  Flow_Radar \in Scannings /\ NoneLeft(Flow_Radar, Cells)
  <1> DEFINE s == CHOOSE s : ScanIs(s)
             b == cell_number
             K == Len(retrieve)
             S == {n \in 0 .. Scans : Progress(s[n], n)}
  <1>1. /\ Scans \in Nat
        /\ \A n \in 0 .. Scans : s[n] \in Scannings
        /\ \A n \in 1 .. Scans : s[n] = ScanStep(s[n - 1], n)
    BY Scanning
  <1>2. Flow_Radar = s[Scans]
    BY ScanUnfolds
  <1> HIDE DEF s
  <1>3. b \in Nat \ {0} /\ b \in Int /\ Cells = 0 .. b - 1
    BY SketchesAssumption DEF Cells
  <1>4. /\ K \in Nat
        /\ \A n \in 0 .. Scans : Len(s[n].ret) \in Nat /\ Len(s[n].ret) <= K
    <2>1. Scans \in 0 .. Scans
      BY <1>1
    <2> QED
      BY <1>1, <2>1, ScannedLess
  <1>5. 0 \in S
    <2>1. 0 \div b = 0 /\ 0 % b = 0
      <3>1. 0 \in Nat /\ 0 < b
        BY <1>3
      <3> HIDE DEF b
      <3> QED
        BY <1>3, <3>1, ModSmall
    <2>2. 0 \in 0 .. Scans /\ Len(s[0].ret) >= 0
      BY <1>1, <1>4
    <2>3. NoneLeft(s[0], 0 .. 0 - 1)
      BY DEF NoneLeft
    <2>4. Progress(s[0], 0)
      BY <2>1, <2>2, <2>3 DEF Progress
    <2> QED
      BY <2>2, <2>4
  <1>6. ASSUME NEW n \in 1 .. Scans, n - 1 \in S
        PROVE  n \in S
    <2>1. n \in Nat \ {0} /\ n - 1 \in 0 .. Scans /\ n \in 0 .. Scans
      BY <1>1
    <2>2. Progress(s[n - 1], n - 1) /\ s[n - 1] \in Scannings /\ s[n] = ScanStep(s[n - 1], n)
          /\ Len(s[n - 1].ret) \in Nat
      BY <1>1, <1>4, <1>6, <2>1
    <2>3. \/ s[n] = s[n - 1] /\ s[n - 1].cells[(n - 1) % cell_number].fn # 1
          \/ Len(s[n].ret) = Len(s[n - 1].ret) + 1
      BY <2>1, <2>2, Scan
    <2>4. ASSUME NoneLeft(s[n - 1], Cells)
          PROVE  s[n] = s[n - 1] /\ s[n - 1].cells[(n - 1) % cell_number].fn # 1
      <3>1. (n - 1) % cell_number \in Cells
        <4>1. n - 1 \in Int
          BY <2>1
        <4> QED
          BY <1>3, <4>1, DivMod
      <3>2. s[n - 1].cells[(n - 1) % cell_number].fn # 1
        BY <2>4, <3>1 DEF NoneLeft
      <3> QED
        BY <2>2, <3>2 DEF ScanStep
    <2>5. Progress(s[n], n)
      BY <2>1, <2>2, <2>3, <2>4, Progresses
    <2> QED
      BY <2>1, <2>5
  <1>7. Scans \in S
    <2>1. Scans \in 0 .. Scans
      BY <1>1
    <2> HIDE DEF S
    <2>2. \A n \in 0 .. Scans : n \in S
      BY <1>1, <1>5, <1>6, InductionUpTo
    <2> QED
      BY <2>1, <2>2
  <1>8. Scans \div b = K + 1
    <2>1. PICK k \in Nat : k = K + 1
      BY <1>4
    <2>2. PICK a \in Int : a = k * b
      BY <1>3, <2>1
    <2>3. Scans = a
      BY <1>3, <1>4, <2>1, <2>2 DEF Scans
    <2>4. k * b <= a /\ a < (k + 1) * b /\ k \in Int
      <3>1. (k + 1) * b = a + b
        BY <1>3, <2>1, <2>2
      <3> QED
        BY <1>3, <2>1, <2>2, <3>1
    <2> HIDE DEF b
    <2>5. a \div b = k
      BY <1>3, <2>4, DivIs
    <2> QED
      BY <2>1, <2>3, <2>5
  <1>9. NoneLeft(s[Scans], Cells)
    <2>1. Scans \in 0 .. Scans
      BY <1>1
    <2>2. Progress(s[Scans], Scans) /\ Len(s[Scans].ret) \in Nat /\ Len(s[Scans].ret) <= K
      BY <1>4, <1>7, <2>1
    <2>3. Scans \div cell_number = K + 1
      BY <1>8
    <2> HIDE DEF K
    <2> QED
      BY <1>4, <2>2, <2>3 DEF Progress
  <1> QED
    BY <1>1, <1>2, <1>9

LEMMA RadarRight == SketchTypes => RadarReal
  <1>1. ASSUME SketchTypes
        PROVE  traces \in Seq(Flows) /\ (traces # <<>> => hash \in Hashes)
    <2>1. <<>> \in Seq(Flows)
      OBVIOUS
    <2> QED
      BY <1>1, <2>1 DEF SketchTypes
  <1>2. ASSUME SketchTypes
        PROVE  /\ Flow_Radar \in Scannings /\ NoneLeft(Flow_Radar, Cells)
               /\ Cardinality(FIDsOf(Flow_Radar.ret)) = Len(Flow_Radar.ret)
               /\ FIDsOf(Flow_Radar.ret) \subseteq seen
    BY <1>1, <1>2, ScansEnd, ScannedLess
  <1> QED
    BY <1>2 DEF RadarReal, NoneLeft, seen

----------------------------------------------------------------------------
(* The theorems.                                                           *)

LEMMA SketchTyped == SketchInv => SketchTypes
  BY DEF SketchInv, SketchTypes

\* A Count-Min table never says less of a flow than there is of it, and says it
\* exactly if one of its rows holds the flow alone: whatever the trace and the
\* hash functions.
THEOREM CountMinNeverBelow == Spec => []CountMinAbove
  BY InitSketches, NextSketches, SketchTyped, CountMinRight, PTL DEF Spec

\* A HashPipe never says more of a flow than there is of it, says it exactly if
\* the flow is alone in its first cell, and holds the flow of the last packet.
THEOREM PipeNeverAbove == Spec => []PipeBelow
  BY InitSketches, NextSketches, PipeRight, PTL DEF Spec

\* What FlowRadar finds is of the trace, and each flow is found once; its loop
\* ends, for no cell is left that holds one flow.
THEOREM RadarFinds == Spec => []RadarReal
  BY InitSketches, NextSketches, SketchTyped, RadarRight, PTL DEF Spec

\* Precision and recall of HashPipe and of Count-Min, by packet number, lose
\* nothing but the flows that one of the two answers leaves out.
THEOREM ScoresOfBoth == Spec => []ScoresTrue
  BY InitSketches, NextSketches, ScoresRight, PTL DEF Spec
=============================================================================
