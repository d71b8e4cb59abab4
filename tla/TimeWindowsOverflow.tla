------------------------ MODULE TimeWindowsOverflow ------------------------
(***************************************************************************)
(* What is proved of the filter however often the time stamps overflow, of *)
(* a port whose packets are dense enough: each use of a quarter fills its  *)
(* first window, and the next set comes soon.  That is what the counting   *)
(* of overflows, by stamps alone, rests on.  The last part is about what   *)
(* must not be lost: of a use without a silence, the cascade passes every  *)
(* record on and the filter retains it.                                    *)
(***************************************************************************)
EXTENDS TimeWindowsProofs

\* Every cell of the first window holds a packet of this use of the quarter, and the
\* use before began less than the threshold ago.
Filled ==
  /\ \A j \in Indices : tw_r[second_highest][0][j].FID >= start
  /\ now - used_since <= 2^(TW0_TB + threshold_bit) - 2^TW0_TB

\* The sets polled are filled, but for those before the first packet.
Busy ==
  now >= due =>
    \/ Filled
    \/ /\ origin = NoOrigin
       /\ \A i \in Windows, j \in Indices : tw_r[second_highest][i][j] = Empty

----------------------------------------------------------------------------
(* The inductive invariant.                                                *)

\* Which use of its quarter a record is of.
Uses ==
  /\ used_since \in Nat /\ start \in Nat /\ used_since <= start /\ start <= now
  /\ \A i \in Windows, j \in Indices :
       /\ LET c == tw_r[second_highest][i][j]
          IN c # Empty => c.FID < used_since \/ c.FID >= start
       /\ LET c == tw_r[1 - second_highest][i][j]
          IN c # Empty => c.FID < start

\* In the first use there is no record of an earlier one.
FirstUse ==
  /\ due \in Int
  /\ used_since = start =>
       \A q \in Quarters, i \in Windows, j \in Indices :
         tw_r[q][i][j] # Empty => tw_r[q][i][j].FID >= start
  /\ used_since # start => start < due

\* The cell of the latest packet of the last set, as the analysis counts it.
LatestCell == pre_largest_tts + (wrapping + origin) * 2^tts_bit

\* The analysis has counted the overflows up to it.
OverflowsKnown ==
  /\ wrapping \in Nat /\ pre_largest_tts \in 0 .. 2^tts_bit - 1 /\ origin \in Int
  /\ origin = NoOrigin => wrapping = 0 /\ pre_largest_tts = 0 /\ TW_result = {}
  /\ origin # NoOrigin => /\ origin \in Nat
                          /\ CellOf(0, used_since) <= LatestCell
                          /\ LatestCell <= CellOf(0, start)

OverflowInv ==
  /\ WindowInv /\ RecordsFollow /\ Uses /\ FirstUse /\ OverflowsKnown
  /\ \A c \in TW_result : c.twid \in Windows /\ c.FID \in Nat
  /\ RetainedTrue /\ WindowsOrdered

----------------------------------------------------------------------------
(* Stamps a short time apart.                                              *)

\* Of two moments less than half a period apart, the stamps tell which is later,
\* and whether an overflow lies between them.
LEMMA Later ==
  ASSUME NEW m \in Nat \ {0}, NEW h \in Nat \ {0}, 2 * h <= m,
         NEW x \in Nat, NEW y \in Nat, x < y + h, y < x + h
  PROVE  /\ x > y /\ (x \div m) = (y \div m) =>
              (x % m) > (y % m) /\ m + (y % m) - (x % m) > h
         /\ x > y /\ (x \div m) # (y \div m) =>
              /\ (x \div m) = (y \div m) + 1
              /\ (x % m) <= (y % m) /\ m + (x % m) - (y % m) < h
         /\ x <= y /\ (x % m) > (y % m) => ~(m + (y % m) - (x % m) > h)
         /\ x <= y /\ (x % m) <= (y % m) => ~(m + (x % m) - (y % m) < h)
  <1> DEFINE q == x \div m
             p == y \div m
             X == x % m
             Y == y % m
  <1>1. /\ q \in Nat /\ X \in Nat /\ X < m /\ x = q * m + X
        /\ p \in Nat /\ Y \in Nat /\ Y < m /\ y = p * m + Y
    BY Divided
  <1> HIDE DEF q, p, X, Y
  <1>2. q * m \in Int /\ p * m \in Int
    BY <1>1
  <1>3. q = p \/ q = p + 1 \/ p = q + 1
    <2>1. CASE q > p + 1
      <3>1. q * m >= (p + 2) * m /\ (p + 2) * m = p * m + 2 * m
        BY <1>1, <2>1
      <3> QED
        BY <1>1, <1>2, <3>1
    <2>2. CASE p > q + 1
      <3>1. p * m >= (q + 2) * m /\ (q + 2) * m = q * m + 2 * m
        BY <1>1, <2>2
      <3> QED
        BY <1>1, <1>2, <3>1
    <2> QED
      BY <1>1, <2>1, <2>2
  <1>4. CASE q = p
    BY <1>1, <1>2, <1>4 DEF q, p, X, Y
  <1>5. CASE q = p + 1
    <2>1. q * m = p * m + m
      BY <1>1, <1>5
    <2> QED
      BY <1>1, <1>2, <1>5, <2>1 DEF q, p, X, Y
  <1>6. CASE p = q + 1
    <2>1. p * m = q * m + m
      BY <1>1, <1>6
    <2> QED
      BY <1>1, <1>2, <1>6, <2>1 DEF q, p, X, Y
  <1> QED
    BY <1>3, <1>4, <1>5, <1>6

LEMMA HalfPeriod ==
  ASSUME PowersOfTwo
  PROVE  2 * 2^threshold_bit <= 2^tts_bit
  <1> DEFINE d == tts_bit - threshold_bit - 1
  <1>1. tts_bit \in Nat /\ tts_bit > k
    BY Parameters DEF tts_bit
  <1>2. threshold_bit \in Nat /\ d \in Nat /\ tts_bit = 1 + (threshold_bit + d)
    BY <1>1, Parameters DEF threshold_bit
  <1> HIDE DEF d
  <1> DEFINE e == threshold_bit + d
  <1>3. 2^tts_bit = 2^1 * 2^e /\ 2^e = 2^threshold_bit * 2^d
    <2>1. 2^e = 2^threshold_bit * 2^d
      BY <1>2 DEF PowersOfTwo
    <2>2. e \in Nat /\ tts_bit = 1 + e
      BY <1>2
    <2> HIDE DEF e
    <2> QED
      BY <2>1, <2>2 DEF PowersOfTwo
  <1>4. 2^threshold_bit \in Nat \ {0} /\ 2^d \in Nat \ {0} /\ 2^1 = 2
    BY <1>2, Powers
  <1>5. 2^threshold_bit * 2^d >= 2^threshold_bit
    BY <1>4
  <1> QED
    BY <1>3, <1>4, <1>5

\* The scan finds the latest of cells less than the threshold apart, and whether an
\* overflow lies between the first it meets and that.
LEMMA LargestCellNear ==
  ASSUME PowersOfTwo, NEW TW0 \in [Indices -> Cells], NEW C \in [Indices -> Nat],
         \A j \in Indices : TW0[j].tts = C[j] % 2^tts_bit,
         \A i, j \in Indices : C[i] < C[j] + 2^threshold_bit
  PROVE  LET r == LargestCell(TW0) IN
         /\ r.idx \in Indices /\ r.tts = TW0[r.idx].tts
         /\ \A j \in Indices : C[j] <= C[r.idx]
         /\ r.wraps \in Nat
         /\ (C[r.idx] \div 2^tts_bit) = (C[0] \div 2^tts_bit) + r.wraps
  <1> DEFINE N == 2^k - 1
             h == 2^threshold_bit
             m == 2^tts_bit
  <1>1. N \in Nat /\ Indices = 0 .. N
    BY Sizes DEF Indices
  <1>8. h \in Nat \ {0} /\ m \in Nat \ {0} /\ 2 * h <= m
    BY Threshold, HalfPeriod
  <1>9. \A c \in Nat : (c \div m) \in Nat /\ (c % m) \in Nat
    <2> HIDE DEF m
    <2> QED
      BY <1>8
  <1>2. PICK scan \in [Indices -> Bests] :
          /\ scan[0] = [tts |-> TW0[0].tts, idx |-> 0, wraps |-> 0]
          /\ \A j \in Indices : j # 0 =>
               j - 1 \in Indices /\ scan[j] = Scanned(scan[j - 1], TW0[j].tts, j)
          /\ LargestCell(TW0) = scan[2^k - 1]
    BY LargestCellIs
  <1> DEFINE J(j) == /\ scan[j].idx \in 0 .. j /\ scan[j].tts = TW0[scan[j].idx].tts
                     /\ \A n \in 0 .. j : C[n] <= C[scan[j].idx]
                     /\ (C[scan[j].idx] \div m) = (C[0] \div m) + scan[j].wraps
             S == {j \in 0 .. N : J(j)}
  <1>3. 0 \in S
    <2>1. scan[0].idx = 0 /\ scan[0].tts = TW0[0].tts /\ scan[0].wraps = 0
      BY <1>2
    <2>2. C[0] \in Nat
      BY <1>1
    <2>3. (C[0] \div m) \in Nat
      BY <1>9, <2>2
    <2>4. \A n \in 0 .. 0 : n = 0
      OBVIOUS
    <2> HIDE DEF m
    <2>5. J(0)
      BY <2>1, <2>2, <2>3, <2>4
    <2> QED
      BY <1>1, <2>5
  <1>4. ASSUME NEW j \in 1 .. N, j - 1 \in S
        PROVE  j \in S
    <2> DEFINE best == scan[j - 1]
               x == C[j]
               y == C[best.idx]
    <2>1. /\ j \in Indices /\ j # 0 /\ j - 1 \in Indices /\ j \in Nat
          /\ scan[j] = Scanned(best, TW0[j].tts, j) /\ best \in Bests
      BY <1>1, <1>2
    <2>2. /\ best.idx \in 0 .. j - 1 /\ best.tts = TW0[best.idx].tts
          /\ \A n \in 0 .. j - 1 : C[n] <= y
          /\ (y \div m) = (C[0] \div m) + best.wraps
      BY <1>4
    <2>3. best.idx \in Indices
      BY <1>1, <2>1, <2>2
    <2>4. x \in Nat /\ y \in Nat /\ x < y + h /\ y < x + h
      BY <2>1, <2>3
    <2>5. TW0[j].tts = x % m /\ best.tts = y % m
      BY <2>1, <2>2, <2>3
    <2>6. (C[0] \div m) \in Nat /\ (x \div m) \in Nat /\ (y \div m) \in Nat
      <3>1. C[0] \in Nat
        BY <1>1
      <3> QED
        BY <1>9, <2>4, <3>1
    <2> HIDE DEF m, h, best, x, y
    <2>7. CASE x > y
      <3>1. \A n \in 0 .. j : C[n] <= x
        <4> TAKE n \in 0 .. j
        <4>1. CASE n = j
          BY <2>4, <4>1 DEF x
        <4>2. CASE n # j
          <5>1. n \in 0 .. j - 1 /\ C[n] \in Nat
            BY <1>1, <2>1, <4>2
          <5> QED
            BY <2>2, <2>4, <2>7, <5>1
        <4> QED
          BY <4>1, <4>2
      <3>2. CASE (x \div m) = (y \div m)
        <4>1. (x % m) > (y % m) /\ m + (y % m) - (x % m) > h
          BY <1>8, <2>4, <2>7, <3>2, Later
        <4>2. scan[j] = [best EXCEPT !.tts = TW0[j].tts, !.idx = j]
          BY <2>1, <2>5, <4>1 DEF Scanned, m, h
        <4>3. scan[j].idx = j /\ scan[j].tts = TW0[j].tts /\ scan[j].wraps = best.wraps
          BY <2>1, <4>2 DEF Bests
        <4> QED
          BY <1>1, <2>1, <2>2, <3>1, <3>2, <4>3 DEF x
      <3>3. CASE (x \div m) # (y \div m)
        <4>1. /\ (x \div m) = (y \div m) + 1
              /\ (x % m) <= (y % m) /\ m + (x % m) - (y % m) < h
          BY <1>8, <2>4, <2>7, <3>3, Later
        <4>2. ~((x % m) > (y % m))
          BY <1>9, <2>4, <4>1
        <4>3. scan[j] = [tts |-> TW0[j].tts, idx |-> j, wraps |-> best.wraps + 1]
          BY <2>1, <2>5, <4>1, <4>2 DEF Scanned, Overflowed, m, h
        <4>4. scan[j].idx = j /\ scan[j].tts = TW0[j].tts /\ scan[j].wraps = best.wraps + 1
          BY <4>3
        <4>5. best.wraps \in Nat
          BY <2>1 DEF Bests
        <4>6. (x \div m) = (C[0] \div m) + scan[j].wraps
          BY <2>2, <2>6, <4>1, <4>4, <4>5
        <4> QED
          BY <1>1, <2>1, <3>1, <4>4, <4>6 DEF x
      <3> QED
        BY <3>2, <3>3
    <2>8. CASE x <= y
      <3>1. /\ (x % m) > (y % m) => ~(m + (y % m) - (x % m) > h)
            /\ (x % m) <= (y % m) => ~(m + (x % m) - (y % m) < h)
        BY <1>8, <2>4, <2>8, Later
      <3>2. scan[j] = best
        <4>1. (x % m) \in Nat /\ (y % m) \in Nat
          BY <1>9, <2>4
        <4>2. CASE (x % m) > (y % m)
          BY <2>1, <2>5, <3>1, <4>2 DEF Scanned, m, h
        <4>3. CASE (x % m) <= (y % m)
          <5>1. ~((x % m) > (y % m))
            BY <4>1, <4>3
          <5> QED
            BY <2>1, <2>5, <3>1, <4>3, <5>1 DEF Scanned, Overflowed, m, h
        <4> QED
          BY <4>1, <4>2, <4>3
      <3>3. \A n \in 0 .. j : C[n] <= y
        <4> TAKE n \in 0 .. j
        <4>1. CASE n = j
          BY <2>8, <4>1 DEF x
        <4>2. CASE n # j
          BY <2>1, <2>2, <4>2
        <4> QED
          BY <4>1, <4>2
      <3>4. best.idx \in 0 .. j
        BY <2>1, <2>2
      <3> QED
        BY <1>1, <2>1, <2>2, <3>2, <3>3, <3>4 DEF y
    <2> QED
      BY <2>4, <2>7, <2>8
  <1>5. N \in S
    <2>1. \A n \in 0 .. N : n \in S
      <3> HIDE DEF S, N
      <3> QED
        BY <1>1, <1>3, <1>4, InductionUpTo
    <2> QED
      BY <1>1, <2>1
  <1>6. LargestCell(TW0) = scan[N] /\ scan[N] \in Bests
    BY <1>1, <1>2
  <1>7. J(N)
    BY <1>5
  <1> HIDE DEF m, h
  <1> QED
    BY <1>1, <1>6, <1>7 DEF Bests, m

----------------------------------------------------------------------------
(* The latest record of each window, from the stamp and from the cell.     *)

\* The cells of window i in a period of the stamps.
Period(i) == 2^(TsBits - TrimmedBits(i))

LEMMA Periods ==
  ASSUME PowersOfTwo
  PROVE  /\ Period(0) = 2^tts_bit
         /\ \A i \in Windows : Period(i) \in Nat \ {0} /\ Period(i) >= 2 * 2^k
         /\ \A i \in Windows : i # 0 => Period(i - 1) = Period(i) * 2^ALPHA
  <1>1. Period(0) = 2^tts_bit
    BY Threshold DEF Period
  <1>2. ASSUME NEW i \in Windows
        PROVE  Period(i) \in Nat \ {0} /\ Period(i) >= 2 * 2^k
    <2> DEFINE g == 2^(tts_bit - k - i * ALPHA)
    <2>1. g \in Nat /\ g >= 2 /\ Period(i) = 2^k * g /\ 2^k \in Nat \ {0}
      BY Cycles, Sizes DEF Period
    <2> HIDE DEF g
    <2>2. 2^k * g >= 2^k * 2
      BY <2>1
    <2> QED
      BY <2>1, <2>2
  <1>3. ASSUME NEW i \in Windows, i # 0
        PROVE  Period(i - 1) = Period(i) * 2^ALPHA
    <2> DEFINE e == TsBits - TrimmedBits(i)
    <2>1. i \in Nat /\ i <= T - 1
      BY Parameters DEF Windows
    <2>2. /\ ALPHA * i \in Nat /\ ALPHA * i <= ALPHA * (T - 1)
          /\ ALPHA * (i - 1) = ALPHA * i - ALPHA
      BY <2>1, Parameters
    <2>3. e \in Nat /\ TsBits - TrimmedBits(i - 1) = e + ALPHA
      BY <2>2, Parameters DEF TrimmedBits
    <2> HIDE DEF e
    <2>4. 2^(e + ALPHA) = 2^e * 2^ALPHA
      BY <2>3, Parameters DEF PowersOfTwo
    <2> QED
      BY <2>3, <2>4 DEF Period, e
  <1> QED
    BY <1>1, <1>2, <1>3

\* Counted from moment zero, the latest of every window is as many periods later
\* as that of the first.
LEMMA LargestTtsShift ==
  ASSUME PowersOfTwo, NEW x \in Int, NEW n \in Nat
  PROVE  \A i \in Windows :
           LargestTts(x + n * 2^tts_bit)[i] = LargestTts(x)[i] + n * Period(i)
  <1> DEFINE N == T - 1
             y == x + n * 2^tts_bit
             L == LargestTts(y)
             l == LargestTts(x)
             S == {i \in 0 .. N : L[i] = l[i] + n * Period(i)}
  <1>1. N \in Nat /\ Windows = 0 .. N /\ 0 \in Windows
    BY Parameters DEF Windows
  <1>2. 2^k \in Nat /\ 2^ALPHA \in Nat \ {0} /\ 2^tts_bit \in Nat /\ y \in Int
    BY Sizes, Threshold
  <1>3. \A i \in Windows : Period(i) \in Nat
    BY Periods
  <1>4. /\ L[0] = y
        /\ \A i \in Windows : i # 0 => i - 1 \in Windows /\ L[i] = (L[i - 1] - 2^k) \div 2^ALPHA
    BY <1>2, LargestTtsIs
  <1>5. /\ l[0] = x /\ l \in [Windows -> Int]
        /\ \A i \in Windows : i # 0 => i - 1 \in Windows /\ l[i] = (l[i - 1] - 2^k) \div 2^ALPHA
    BY LargestTtsIs
  <1>6. 0 \in S
    BY <1>1, <1>4, <1>5, Periods
  <1>7. ASSUME NEW i \in 1 .. N, i - 1 \in S
        PROVE  i \in S
    <2> DEFINE g == i - 1
               A == 2^ALPHA
               P == Period(i)
    <2>1. i \in Windows /\ i # 0 /\ g \in Windows
      BY <1>1
    <2>2. L[g] = l[g] + n * Period(g) /\ Period(g) = P * A
      BY <1>7, <2>1, Periods
    <2>3. L[i] = (L[g] - 2^k) \div A /\ l[i] = (l[g] - 2^k) \div A
      BY <1>4, <1>5, <2>1
    <2>4. P \in Nat /\ l[g] \in Int /\ A \in Nat \ {0}
      BY <1>2, <1>3, <1>5, <2>1
    <2> DEFINE z == l[g] - 2^k
    <2>5. z \in Int
      BY <1>2, <2>4
    <2> HIDE DEF L, l, g, A, P
    <2>6. L[g] - 2^k = z + (n * P) * A
      <3>1. n * (P * A) = (n * P) * A /\ (n * P) * A \in Int
        BY <2>4
      <3> QED
        BY <1>2, <2>2, <2>4, <3>1
    <2> HIDE DEF z
    <2>7. n * P \in Int
      BY <2>4
    <2>8. (z + (n * P) * A) \div A = (z \div A) + n * P
      BY <2>4, <2>5, <2>7, DivShift, Zenon
    <2>9. L[i] = l[i] + n * P
      BY <2>3, <2>6, <2>8 DEF z
    <2> QED
      BY <2>9 DEF P
  <1> HIDE DEF L, l
  <1>8. \A i \in 0 .. N : i \in S
    <2> HIDE DEF S, N
    <2> QED
      BY <1>1, <1>6, <1>7, InductionUpTo
  <1> QED
    BY <1>1, <1>8 DEF L, l

\* However many windows there are, the latest of the last is less than a cycle
\* before the overflow.
LEMMA LargestTtsAbove ==
  ASSUME PowersOfTwo, NEW x \in Nat
  PROVE  \A i \in Windows : LargestTts(x)[i] \in Int /\ LargestTts(x)[i] >= -(2^k)
  <1> DEFINE N == T - 1
             K == 2^k
             A == 2^ALPHA
             l == LargestTts(x)
             S == {i \in 0 .. N : l[i] >= -K}
  <1>1. N \in Nat /\ Windows = 0 .. N /\ 0 \in Windows
    BY Parameters DEF Windows
  <1>2. K \in Nat \ {0} /\ A \in Nat \ {0} /\ A >= 2
    BY Sizes
  <1>3. /\ l \in [Windows -> Int] /\ l[0] = x
        /\ \A i \in Windows : i # 0 => i - 1 \in Windows /\ l[i] = (l[i - 1] - K) \div A
    BY LargestTtsIs
  <1> HIDE DEF l, K, A
  <1>4. 0 \in S
    BY <1>1, <1>2, <1>3
  <1>5. ASSUME NEW i \in 1 .. N, i - 1 \in S
        PROVE  i \in S
    <2> DEFINE z == l[i - 1] - K
    <2>1. i \in Windows /\ i # 0
      BY <1>1
    <2>2. l[i] = z \div A /\ l[i - 1] >= -K /\ l[i - 1] \in Int
      BY <1>3, <1>5, <2>1
    <2>3. z \in Int /\ z >= -(2 * K)
      BY <1>2, <2>2
    <2> HIDE DEF z
    <2>4. (-K) * A <= -(2 * K)
      <3>1. K * A >= K * 2
        BY <1>2
      <3> QED
        BY <1>2, <3>1
    <2>5. -K \in Int /\ (-K) * A \in Int /\ (-K) * A <= z
      BY <1>2, <2>3, <2>4
    <2>6. ((-K) * A) \div A <= z \div A
      BY <1>2, <2>3, <2>5, DivMonotonic
    <2>7. ((-K) * A) \div A = -K
      BY <1>2, <2>5
    <2> QED
      BY <2>2, <2>6, <2>7
  <1>6. \A i \in 0 .. N : i \in S
    <2> HIDE DEF S, N
    <2> QED
      BY <1>1, <1>4, <1>5, InductionUpTo
  <1> QED
    BY <1>1, <1>3, <1>6 DEF l, K

----------------------------------------------------------------------------
(* What the filter retains of a window.                                    *)

\* The stamp tts of a cell X that comes, by less than a period, before the latest
\* of its window, whose stamp, after n overflows, is l.
Before(i, X, tts, l, n) ==
  /\ X \in Nat /\ l \in Int /\ n \in Nat /\ tts \in Nat
  /\ l < Period(i) /\ l >= -(2^k)
  /\ tts = X % Period(i)
  /\ X <= l + n * Period(i) /\ l + n * Period(i) < X + Period(i)

\* Less than a cycle before the latest, after m overflows.
Within(i, X, tts, l, n, m) ==
  /\ (l + n * Period(i)) - 2^k < X
  /\ X = tts + m * Period(i)

\* The filter knows from the stamp whether a cell is less than a cycle before the
\* latest, and whether an overflow lies between them.
LEMMA LastCycleOver ==
  ASSUME PowersOfTwo, NEW i \in Windows, NEW X, NEW tts, NEW l, NEW n,
         Before(i, X, tts, l, n)
  PROVE  /\ CID(tts) = CID(l) /\ tts % 2^k <= l % 2^k => Within(i, X, tts, l, n, n)
         /\ CIDMask(i, CID(tts) + 1) = CIDMask(i, CID(l)) /\ tts % 2^k > l % 2^k =>
              Within(i, X, tts, l, n, IF CID(tts) > CID(l) THEN n - 1 ELSE n)
  <1> DEFINE K == 2^k
             g == 2^(tts_bit - k - i * ALPHA)
             P == Period(i)
             u == X \div P
             p == tts \div K
             r == tts % K
             q == l \div K
             s == l % K
             L == l + n * P
  <1>0. /\ X \in Nat /\ l \in Int /\ n \in Nat /\ tts \in Nat
        /\ l < P /\ l >= -K /\ tts = X % P /\ X <= L /\ L < X + P
    BY DEF Before
  <1>1. K \in Nat \ {0} /\ g \in Nat /\ g >= 2 /\ P = K * g /\ P \in Nat \ {0} /\ K < P
    BY Cycles, Sizes, WindowSizes DEF Period
  <1>2. u \in Nat /\ tts < P /\ X = u * P + tts
    <2>1. tts = X % P
      BY <1>0
    <2> HIDE DEF P
    <2>2. /\ (X \div P) \in Nat /\ (X % P) < P
          /\ X = (X \div P) * P + (X % P)
      BY <1>0, <1>1, Divided
    <2> QED
      BY <2>1, <2>2
  <1>3. p \in Nat /\ r \in Nat /\ r < K /\ tts = p * K + r
    <2> HIDE DEF K
    <2> QED
      BY <1>0, <1>1, <1>2, Divided
  <1>4. q \in Int /\ s \in Nat /\ s < K /\ l = q * K + s
    <2> HIDE DEF K
    <2>1. q \in Int /\ s \in 0 .. K - 1 /\ s = l - q * K
      BY <1>0, <1>1, DivMod
    <2> QED
      BY <1>0, <1>1, <2>1
  <1>5. CID(tts) = p /\ CID(l) = q
    BY DEF CID
  <1>6. \A c : CIDMask(i, c) = c % g
    BY DEF CIDMask
  <1>7. p < g
    <2>1. tts < K * g
      BY <1>0, <1>1, <1>2
    <2>2. K \in Nat \ {0} /\ g \in Nat \ {0} /\ tts \in Nat
      BY <1>0, <1>1, <1>2
    <2> HIDE DEF K, g
    <2> QED
      BY <2>1, <2>2, DivBelow
  <1>8. l < P /\ l >= -K /\ X <= L /\ L < X + P
    BY <1>0
  <1> HIDE DEF K, g, P, u, p, r, q, s
  <1>9. p * K \in Int /\ q * K \in Int /\ u * P \in Int /\ n * P \in Int
    BY <1>0, <1>1, <1>2, <1>3, <1>4
  <1>10. q < g /\ q >= -1
    <2>1. CASE q >= g
      <3>1. q * K >= g * K /\ g * K = K * g
        BY <1>0, <1>1, <1>4, <2>1
      <3> QED
        BY <1>0, <1>1, <1>4, <1>8, <1>9, <3>1
    <2>2. CASE q < -1
      <3>1. q * K <= (-2) * K
        BY <1>0, <1>1, <1>4, <2>2
      <3> QED
        BY <1>0, <1>1, <1>4, <1>8, <1>9, <3>1
    <2> QED
      BY <1>0, <1>1, <1>4, <2>1, <2>2
  <1>11. ASSUME p = q, r <= s
         PROVE  L - K < X /\ X = tts + n * P
    <2>1. l - tts = s - r /\ 0 <= s - r /\ s - r < K
      BY <1>0, <1>1, <1>2, <1>3, <1>4, <1>9, <1>11
    <2>2. L - X = (n * P - u * P) + (s - r)
      BY <1>0, <1>2, <1>4, <1>9, <2>1
    <2>3. n = u
      <3>1. CASE n > u
        <4>1. n * P >= (u + 1) * P /\ (u + 1) * P = u * P + P
          BY <1>0, <1>1, <1>2, <3>1
        <4> QED
          BY <1>0, <1>1, <1>2, <1>3, <1>4, <1>8, <1>9, <2>1, <2>2, <4>1
      <3>2. CASE n < u
        <4>1. u * P >= (n + 1) * P /\ (n + 1) * P = n * P + P
          BY <1>0, <1>1, <1>2, <3>2
        <4> QED
          BY <1>0, <1>1, <1>2, <1>3, <1>4, <1>8, <1>9, <2>1, <2>2, <4>1
      <3> QED
        BY <1>0, <1>2, <3>1, <3>2
    <2> QED
      BY <1>0, <1>1, <1>2, <1>3, <1>4, <1>9, <2>1, <2>2, <2>3
  <1>12. ASSUME (p + 1) % g = q % g, r > s
         PROVE  /\ L - K < X
                /\ X = tts + (IF p > q THEN n - 1 ELSE n) * P
    <2> DEFINE z == IF p > q THEN 1 ELSE 0
    <2>1. p + 1 - q = z * g
      <3>1. CASE q = -1
        <4>1. q % g = g - 1
          <5>1. -g <= -1 /\ -1 < 0 /\ -1 \in Int /\ g \in Nat \ {0}
            BY <1>1
          <5>2. (-1) % g = -1 + g
            BY <5>1, ModNegative
          <5> QED
            BY <1>0, <1>1, <3>1, <5>2
        <4>2. p + 1 = g \/ p + 1 < g
          BY <1>0, <1>1, <1>3, <1>7
        <4>3. CASE p + 1 = g
          <5>1. (p + 1) % g = 0
            BY <1>0, <1>1, <4>3
          <5> QED
            BY <1>0, <1>1, <1>12, <4>1, <5>1
        <4>4. CASE p + 1 < g
          <5>1. (p + 1) % g = p + 1
            BY <1>0, <1>1, <1>3, <4>4, ModSmall
          <5>2. p + 1 - q = g /\ p > q
            BY <1>0, <1>1, <1>3, <1>12, <3>1, <4>1, <5>1
          <5> QED
            BY <1>0, <1>1, <5>2
        <4> QED
          BY <4>2, <4>3, <4>4
      <3>2. CASE q >= 0
        <4>1. q % g = q
          BY <1>0, <1>1, <1>4, <1>10, <3>2, ModSmall
        <4>2. CASE p + 1 = g
          <5>1. (p + 1) % g = 0
            BY <1>0, <1>1, <4>2
          <5>2. q = 0 /\ p > q
            BY <1>0, <1>1, <1>3, <1>12, <4>1, <4>2, <5>1
          <5> QED
            BY <1>0, <1>1, <4>2, <5>2
        <4>3. CASE p + 1 < g
          <5>1. (p + 1) % g = p + 1
            BY <1>0, <1>1, <1>3, <4>3, ModSmall
          <5>2. q = p + 1 /\ ~(p > q)
            BY <1>0, <1>1, <1>3, <1>12, <4>1, <5>1
          <5> QED
            BY <1>0, <1>1, <1>3, <5>2
        <4> QED
          BY <1>0, <1>1, <1>3, <1>7, <4>2, <4>3
      <3> QED
        BY <1>4, <1>10, <3>1, <3>2
    <2>2. z \in Nat
      OBVIOUS
    <2> DEFINE w == n - z
    <2>3. w \in Int /\ w * P = n * P - z * P /\ z * P \in Int /\ w * P \in Int
      BY <1>0, <1>1, <2>2
    <2>4. (p + 1 - q) * K = z * P /\ (p + 1 - q) * K = p * K + K - q * K
      <3>1. (z * g) * K = z * (K * g)
        BY <1>0, <1>1, <2>2
      <3> QED
        BY <1>0, <1>1, <1>3, <1>4, <2>1, <3>1
    <2> HIDE DEF z, w
    <2>5. L - X = (w * P - u * P) + (K + s - r)
      BY <1>0, <1>1, <1>2, <1>3, <1>4, <1>9, <2>3, <2>4
    <2>6. 0 < K + s - r /\ K + s - r < K
      BY <1>0, <1>1, <1>3, <1>4, <1>12
    <2>7. w = u
      <3>1. CASE w > u
        <4>1. w * P >= (u + 1) * P /\ (u + 1) * P = u * P + P
          BY <1>0, <1>1, <1>2, <2>3, <3>1
        <4> QED
          BY <1>0, <1>1, <1>2, <1>3, <1>4, <1>8, <1>9, <2>3, <2>5, <2>6, <4>1
      <3>2. CASE w < u
        <4>1. u * P >= (w + 1) * P /\ (w + 1) * P = w * P + P
          BY <1>0, <1>1, <1>2, <2>3, <3>2
        <4> QED
          BY <1>0, <1>1, <1>2, <1>3, <1>4, <1>8, <1>9, <2>3, <2>5, <2>6, <4>1
      <3> QED
        BY <1>0, <1>2, <2>3, <3>1, <3>2
    <2>8. (IF p > q THEN n - 1 ELSE n) = w
      BY <1>0 DEF w, z
    <2> QED
      BY <1>0, <1>1, <1>2, <1>3, <1>4, <1>9, <2>5, <2>6, <2>7, <2>8
  <1>13. CID(tts) = CID(l) /\ r <= s => L - K < X /\ X = tts + n * P
    BY <1>5, <1>11
  <1>14. CIDMask(i, CID(tts) + 1) = CIDMask(i, CID(l)) /\ r > s =>
           /\ L - K < X
           /\ X = tts + (IF CID(tts) > CID(l) THEN n - 1 ELSE n) * P
    BY <1>5, <1>6, <1>12
  <1> QED
    BY <1>13, <1>14 DEF Within, K, P, r, s

LEMMA RetainedOver ==
  ASSUME PowersOfTwo, NEW i \in Windows, NEW window \in [Indices -> Cells],
         NEW l \in Int, NEW n \in Nat, NEW wraps \in Int,
         \A j \in Indices : window[j] # Empty =>
           /\ window[j].FID \in Nat /\ window[j].tts % 2^k = j
           /\ Before(i, CellOf(i, window[j].FID), window[j].tts, l, n),
         NEW c \in Retained(window, i, l, l % 2^k, wraps)
  PROVE  /\ c.twid = i /\ c.wrap \in Int
         /\ \E j \in Indices : window[j] # Empty /\ c.FID = window[j].FID
         /\ Within(i, CellOf(i, c.FID), c.tts, l, n, (c.wrap - wraps) + n)
  <1> DEFINE idx   == l % 2^k
             upTo  == {j \in 0 .. idx : /\ window[j].FID # NoFID
                                        /\ CID(window[j].tts) = CID(l)}
             after == {j \in idx + 1 .. 2^k - 1 :
                         /\ window[j].FID # NoFID
                         /\ CIDMask(i, CID(window[j].tts) + 1) = CIDMask(i, CID(l))}
  <1>1. PICK j \in upTo \cup after :
          c = [FID |-> window[j].FID, tts |-> window[j].tts, twid |-> i,
               wrap |-> IF j \in after /\ CID(window[j].tts) > CID(l)
                          THEN wraps - 1 ELSE wraps]
    BY DEF Retained
  <1>2. idx \in Indices
    BY Sizes DEF Indices
  <1>3. j \in Indices /\ window[j] # Empty
    <2>1. window[j].FID # NoFID
      OBVIOUS
    <2>2. Empty.FID = NoFID
      BY DEF Empty
    <2>3. j \in Indices
      BY <1>2, Sizes DEF Indices
    <2> QED
      BY <2>1, <2>2, <2>3
  <1> DEFINE X == CellOf(i, window[j].FID)
             tts == window[j].tts
  <1>4. Before(i, X, tts, l, n) /\ tts % 2^k = j
    BY <1>3
  <1> HIDE DEF X, tts
  <1>5. /\ CID(tts) = CID(l) /\ tts % 2^k <= l % 2^k => Within(i, X, tts, l, n, n)
        /\ CIDMask(i, CID(tts) + 1) = CIDMask(i, CID(l)) /\ tts % 2^k > l % 2^k =>
             Within(i, X, tts, l, n, IF CID(tts) > CID(l) THEN n - 1 ELSE n)
    BY <1>4, LastCycleOver
  <1>6. c.twid = i /\ c.FID = window[j].FID /\ c.tts = tts /\ c.wrap \in Int
    BY <1>1 DEF tts
  <1>7. Within(i, X, tts, l, n, (c.wrap - wraps) + n)
    <2>1. CASE j \in after
      <3>1. j > idx /\ CIDMask(i, CID(tts) + 1) = CIDMask(i, CID(l))
        BY <1>2, <2>1, Sizes DEF Indices, tts
      <3>2. Within(i, X, tts, l, n, IF CID(tts) > CID(l) THEN n - 1 ELSE n)
        BY <1>4, <1>5, <3>1
      <3>3. c.wrap = IF CID(tts) > CID(l) THEN wraps - 1 ELSE wraps
        BY <1>1, <2>1 DEF tts
      <3>4. (c.wrap - wraps) + n = IF CID(tts) > CID(l) THEN n - 1 ELSE n
        BY <3>3
      <3> QED
        BY <3>2, <3>4
    <2>2. CASE j \notin after
      <3>1. j \in upTo
        BY <2>2
      <3>2. j <= idx /\ CID(tts) = CID(l)
        BY <1>2, <3>1, Sizes DEF Indices, tts
      <3>3. Within(i, X, tts, l, n, n)
        BY <1>4, <1>5, <3>2
      <3>4. c.wrap = wraps
        BY <1>1, <2>2 DEF tts
      <3>5. (c.wrap - wraps) + n = n
        BY <3>4
      <3> QED
        BY <3>3, <3>5
    <2> QED
      BY <2>1, <2>2
  <1> QED
    BY <1>3, <1>6, <1>7 DEF X

----------------------------------------------------------------------------
(* The uses of a quarter.                                                  *)

\* A packet brings its own record, and moves others.
LEMMA PacketBrings ==
  ASSUME PowersOfTwo, WindowInv, Packet,
         NEW q \in Quarters, NEW i \in Windows, NEW j \in Indices,
         tw_r'[q][i][j] # Empty
  PROVE  \/ tw_r[q][i][j] # Empty /\ tw_r'[q][i][j].FID = tw_r[q][i][j].FID
         \/ /\ q = second_highest
            /\ \/ tw_r'[q][i][j].FID = now
               \/ \E h \in Windows, n \in Indices :
                    /\ tw_r[q][h][n] # Empty
                    /\ tw_r'[q][i][j].FID = tw_r[q][h][n].FID
  <1> DEFINE W == tw_r[second_highest]
             E == Entering(W, Record(now))
  <1>1. /\ W \in [Windows -> [Indices -> Cells]] /\ E \in [Windows -> Cells]
        /\ E[0] = Record(now)
        /\ \A h \in Windows : h # 0 => h - 1 \in Windows /\ E[h] = Moved(W[h - 1], E[h - 1])
        /\ tw_r'[q][i][j] = IF /\ q = second_highest
                               /\ E[i] # Empty /\ E[i].tts % 2^k = j
                              THEN E[i] ELSE tw_r[q][i][j]
    BY PacketWrites
  <1> HIDE DEF E
  <1>2. CASE ~(q = second_highest /\ E[i] # Empty /\ E[i].tts % 2^k = j)
    <2>1. tw_r'[q][i][j] = tw_r[q][i][j]
      BY <1>1, <1>2
    <2> QED
      BY <2>1
  <1>3. CASE q = second_highest /\ E[i] # Empty /\ E[i].tts % 2^k = j
    <2>1. tw_r'[q][i][j] = E[i]
      BY <1>1, <1>3
    <2>2. CASE i = 0
      <3>1. Record(now).FID = now
        BY DEF Record
      <3>2. tw_r'[q][i][j].FID = now
        BY <1>1, <2>1, <2>2, <3>1
      <3> QED
        BY <1>3, <3>2
    <2>3. CASE i # 0
      <3> DEFINE h == i - 1
                 n == E[h].tts % 2^k
                 old == W[h][n]
      <3>1. h \in Windows /\ E[i] = Moved(W[h], E[h])
        BY <1>1, <2>3
      <3>2. n \in Indices
        BY <1>1, <3>1, MovedType
      <3>3. E[i] = NextRecord(old) /\ Passes(E[h], old)
        BY <1>3, <3>1 DEF Moved
      <3>4. E[i].FID = old.FID
        BY <3>3 DEF NextRecord
      <3>5. old # Empty
        BY <3>3 DEF Passes, Empty
      <3> QED
        BY <1>3, <2>1, <3>1, <3>2, <3>4, <3>5
    <2> QED
      BY <2>2, <2>3
  <1> QED
    BY <1>2, <1>3

LEMMA InitUses == ControllerInit => Uses /\ FirstUse
  <1> SUFFICES ASSUME ControllerInit
               PROVE  Uses /\ FirstUse
    OBVIOUS
  <1>1. now \in Nat /\ start = now /\ used_since = start /\ second_highest = 0
    BY WindowsAssumption DEF ControllerInit, WindowInit
  <1>2. due \in Int
    <2>1. PICK d \in Polls \cup {0} : due = now + d
      BY DEF ControllerInit, WindowInit
    <2> QED
      BY <1>1, <2>1, WindowsAssumption
  <1>3. \A q \in Quarters, i \in Windows, j \in Indices : tw_r[q][i][j] = Empty
    BY DEF ControllerInit, WindowInit
  <1>4. second_highest \in Quarters /\ 1 - second_highest \in Quarters
    BY <1>1 DEF Quarters
  <1> QED
    BY <1>1, <1>2, <1>3, <1>4 DEF Uses, FirstUse

LEMMA NextUses ==
  ASSUME PowersOfTwo, WindowInv, Uses, FirstUse, [Next]_vars
  PROVE  Uses' /\ FirstUse'
  <1>1. /\ now \in Nat /\ used_since \in Nat /\ start \in Nat
        /\ used_since <= start /\ start <= now /\ due \in Int
        /\ second_highest \in Quarters /\ 1 - second_highest \in Quarters
        /\ 1 - (1 - second_highest) = second_highest
    BY DEF WindowInv, WindowTypes, Uses, FirstUse, Quarters
  <1>2. \A q \in Quarters, i \in Windows, j \in Indices :
          tw_r[q][i][j] # Empty => tw_r[q][i][j].FID \in Nat /\ tw_r[q][i][j].FID < now
    BY DEF WindowInv, RecordsGenuine, Genuine
  <1>3. CASE Packet
    <2>1. /\ used_since' = used_since /\ start' = start /\ due' = due
          /\ second_highest' = second_highest /\ now' \in Nat /\ now < now'
      <3>1. UNCHANGED <<start, due, second_highest>> /\ now' \in Nat /\ now < now'
        BY <1>3, PacketWrites DEF Packet
      <3>2. used_since' = used_since
        <4>1. ~Poll
          BY <1>1, <1>3 DEF Packet, Poll, Retire
        <4> QED
          BY <4>1 DEF Next, Traffic, vars
      <3> QED
        BY <3>1, <3>2
    <2>2. ASSUME NEW q \in Quarters, NEW i \in Windows, NEW j \in Indices,
                 tw_r'[q][i][j] # Empty
          PROVE  \/ tw_r[q][i][j] # Empty /\ tw_r'[q][i][j].FID = tw_r[q][i][j].FID
                 \/ /\ q = second_highest
                    /\ \/ tw_r'[q][i][j].FID = now
                       \/ \E h \in Windows, n \in Indices :
                            /\ tw_r[q][h][n] # Empty
                            /\ tw_r'[q][i][j].FID = tw_r[q][h][n].FID
      BY <1>3, <2>2, PacketBrings
    <2>3. second_highest # 1 - second_highest
      BY <1>1 DEF Quarters
    <2>4. Uses'
      <3>1. ASSUME NEW i \in Windows, NEW j \in Indices,
                   tw_r'[second_highest][i][j] # Empty
            PROVE  \/ tw_r'[second_highest][i][j].FID < used_since
                   \/ tw_r'[second_highest][i][j].FID >= start
        BY <1>1, <2>2, <3>1 DEF Uses
      <3>2. ASSUME NEW i \in Windows, NEW j \in Indices,
                   tw_r'[1 - second_highest][i][j] # Empty
            PROVE  tw_r'[1 - second_highest][i][j].FID < start
        BY <1>1, <2>2, <2>3, <3>2 DEF Uses
      <3> QED
        BY <1>1, <2>1, <3>1, <3>2 DEF Uses
    <2>5. FirstUse'
      <3>1. ASSUME used_since = start,
                   NEW q \in Quarters, NEW i \in Windows, NEW j \in Indices,
                   tw_r'[q][i][j] # Empty
            PROVE  tw_r'[q][i][j].FID >= start
        BY <1>1, <2>2, <3>1 DEF FirstUse
      <3> QED
        BY <2>1, <3>1 DEF FirstUse
    <2> QED
      BY <2>4, <2>5
  <1>4. CASE Poll
    <2>1. /\ used_since' = start /\ start' = now /\ now' = now /\ tw_r' = tw_r
          /\ second_highest' = 1 - second_highest /\ now >= due
      BY <1>4 DEF Poll, Retire
    <2>2. due' \in Int /\ now < due'
      <3>1. PICK d \in Polls : due' = now + d
        BY <1>4 DEF Poll, Retire
      <3> QED
        BY <1>1, <3>1, WindowsAssumption
    <2>3. Uses'
      <3>1. \A i \in Windows, j \in Indices : tw_r[1 - second_highest][i][j] # Empty =>
              tw_r[1 - second_highest][i][j].FID < start
        BY DEF Uses
      <3>2. \A i \in Windows, j \in Indices : tw_r[second_highest][i][j] # Empty =>
              tw_r[second_highest][i][j].FID < now
        BY <1>1, <1>2
      <3> QED
        BY <1>1, <2>1, <3>1, <3>2 DEF Uses
    <2>4. FirstUse'
      <3>1. ASSUME start = now,
                   NEW q \in Quarters, NEW i \in Windows, NEW j \in Indices,
                   tw_r[q][i][j] # Empty
            PROVE  FALSE
        <4>1. used_since = start
          BY <1>1, <2>1, <3>1 DEF FirstUse
        <4> QED
          BY <1>1, <1>2, <3>1, <4>1 DEF FirstUse
      <3> QED
        BY <1>1, <2>1, <2>2, <3>1 DEF FirstUse
    <2> QED
      BY <2>3, <2>4
  <1>5. CASE Silence \/ UNCHANGED vars
    <2>1. UNCHANGED <<used_since, start, due, second_highest, tw_r>>
      <3>1. CASE Silence
        <4>1. UNCHANGED <<start, due, second_highest, tw_r>> /\ now < due
          BY <3>1 DEF Silence
        <4>2. ~Poll
          BY <1>1, <4>1 DEF Poll, Retire
        <4> QED
          BY <4>1, <4>2 DEF Next, Traffic, vars
      <3>2. CASE UNCHANGED vars
        BY <3>2 DEF vars, windowVars
      <3> QED
        BY <1>5, <3>1, <3>2
    <2>2. now' \in Nat /\ now <= now'
      <3>1. CASE Silence
        <4>1. PICK d \in Spells : now' = now + d
          BY <3>1 DEF Silence
        <4> QED
          BY <1>1, <4>1, WindowsAssumption
      <3>2. CASE UNCHANGED vars
        BY <1>1, <3>2 DEF vars, windowVars
      <3> QED
        BY <1>5, <3>1, <3>2
    <2> QED
      BY <1>1, <2>1, <2>2 DEF Uses, FirstUse
  <1> QED
    BY <1>3, <1>4, <1>5 DEF Next, Traffic

----------------------------------------------------------------------------
(* The overflows counted.                                                  *)

\* The cells of the first window, when it is filled.
LEMMA SetCells ==
  ASSUME PowersOfTwo, WindowInv, Uses, Filled, NEW j \in Indices
  PROVE  LET c == tw_r[second_highest][0][j] IN
         /\ c # Empty /\ c.FID \in Nat /\ c.FID >= start /\ c.FID < now
         /\ c.tts = CellOf(0, c.FID) % 2^tts_bit /\ c.tts % 2^k = j
         /\ CellOf(0, start) <= CellOf(0, c.FID) /\ CellOf(0, c.FID) <= CellOf(0, now)
  <1> DEFINE c == tw_r[second_highest][0][j]
  <1>1. /\ now \in Nat /\ start \in Nat /\ second_highest \in Quarters /\ 0 \in Windows
        /\ c.FID >= start
    BY Parameters DEF WindowInv, WindowTypes, Uses, Filled
  <1>2. c # Empty
    <2>1. Empty.FID = -1
      BY DEF Empty, NoFID
    <2> HIDE DEF c
    <2> QED
      BY <1>1, <2>1
  <1>3. Genuine(0, c, now) /\ c.tts % 2^k = j
    BY <1>1, <1>2 DEF WindowInv, RecordsGenuine
  <1>4. c.FID \in Nat /\ c.FID < now /\ c.tts = Stamped(0, c.FID)
    BY <1>3 DEF Genuine
  <1> HIDE DEF c
  <1>5. Stamped(0, c.FID) = CellOf(0, c.FID) % 2^tts_bit
    BY <1>1, <1>4, StampOfCell, Threshold
  <1>6. CellOf(0, start) <= CellOf(0, c.FID) /\ CellOf(0, c.FID) <= CellOf(0, now)
    BY <1>1, <1>4, CellMonotonic
  <1> QED
    BY <1>1, <1>2, <1>3, <1>4, <1>5, <1>6 DEF c

\* The moments of two uses are of cells less than the threshold apart.
LEMMA UsesNear ==
  ASSUME PowersOfTwo, WindowInv, Uses, Filled
  PROVE  /\ CellOf(0, used_since) \in Nat /\ CellOf(0, start) \in Nat /\ CellOf(0, now) \in Nat
         /\ CellOf(0, used_since) <= CellOf(0, start) /\ CellOf(0, start) <= CellOf(0, now)
         /\ CellOf(0, now) < CellOf(0, used_since) + 2^threshold_bit
  <1> DEFINE b == 2^TW0_TB
             h == 2^threshold_bit
             s == used_since
  <1>1. /\ now \in Nat /\ start \in Nat /\ s \in Nat /\ s <= start /\ start <= now
        /\ 0 \in Windows
    BY Parameters DEF WindowInv, WindowTypes, Uses
  <1>2. b \in Nat \ {0} /\ h \in Nat \ {0} /\ 2^(TW0_TB + threshold_bit) = b * h
    BY Sizes, Threshold
  <1>3. now - s <= b * h - b
    BY <1>2 DEF Filled
  <1>4. /\ CellOf(0, s) \in Nat /\ CellOf(0, start) \in Nat /\ CellOf(0, now) \in Nat
        /\ CellOf(0, s) <= CellOf(0, start) /\ CellOf(0, start) <= CellOf(0, now)
    BY <1>1, CellMonotonic, StampOfCell
  <1>5. CellOf(0, now) = now \div b /\ CellOf(0, s) = s \div b
    BY Threshold DEF CellOf, b
  <1> HIDE DEF b, h, s
  <1>6. now <= s + (h - 1) * b
    <2>1. (h - 1) * b = b * h - b /\ b * h \in Int
      BY <1>2
    <2> QED
      BY <1>1, <1>2, <1>3, <2>1
  <1>7. (s + (h - 1) * b) \div b = (s \div b) + (h - 1)
    <2>1. h - 1 \in Int /\ s \in Int
      BY <1>1, <1>2
    <2> QED
      BY <1>2, <2>1, DivShift
  <1>8. now \div b <= (s + (h - 1) * b) \div b
    <2>1. (h - 1) * b \in Int
      BY <1>2
    <2>2. s + (h - 1) * b \in Int /\ now \in Int
      BY <1>1, <2>1
    <2> QED
      BY <1>2, <1>6, <2>2, DivMonotonic
  <1> QED
    BY <1>2, <1>4, <1>5, <1>7, <1>8 DEF h, s

\* The scan finds the latest packet, and what is carried from set to set gives its
\* cell.
LEMMA PollCounts ==
  ASSUME PowersOfTwo, OverflowInv, Filled, Poll
  PROVE  LET R == tw_r[second_highest]
             r == LargestCell(R[0])
             n == wrapping' + origin'
             C == CellOf(0, R[0][r.idx].FID) IN
         /\ r.idx \in Indices /\ r.tts = R[0][r.idx].tts
         /\ \A j \in Indices : CellOf(0, R[0][j].FID) <= C
         /\ wrapping' \in Nat /\ origin' \in Nat /\ n \in Nat
         /\ C \in Nat /\ r.tts = C % 2^tts_bit /\ C = r.tts + n * 2^tts_bit
         /\ TW_result' = UNION {
              Retained(R[i], i, LargestTts(r.tts)[i],
                       IF i = 0 THEN r.idx ELSE LargestTts(r.tts)[i] % 2^k,
                       wrapping') : i \in Windows}
         /\ OverflowsKnown'
  <1> DEFINE R == tw_r[second_highest]
             TW0 == R[0]
             r == LargestCell(TW0)
             X == [j \in Indices |-> CellOf(0, TW0[j].FID)]
             C == X[r.idx]
             h == 2^threshold_bit
             m == 2^tts_bit
             across == r.wraps = 0 /\ Overflowed(pre_largest_tts, r.tts)
  <1>1. /\ 0 \in Windows /\ 0 \in Indices /\ h \in Nat \ {0} /\ m \in Nat \ {0}
        /\ 2 * h <= m /\ h < m
    BY Parameters, Sizes, Threshold, HalfPeriod
  <1>2. TW0 \in [Indices -> Cells]
    BY <1>1 DEF OverflowInv, WindowInv, WindowTypes
  <1>3. \A j \in Indices : /\ TW0[j].FID \in Nat /\ TW0[j].FID >= start /\ TW0[j].FID < now
                           /\ TW0[j].tts = X[j] % m
                           /\ CellOf(0, start) <= X[j] /\ X[j] <= CellOf(0, now)
    BY SetCells DEF OverflowInv
  <1>4. X \in [Indices -> Nat]
    <2>1. \A j \in Indices : CellOf(0, TW0[j].FID) \in Nat
      BY <1>1, <1>3, StampOfCell
    <2> QED
      BY <2>1
  <1>5. /\ CellOf(0, used_since) \in Nat /\ CellOf(0, start) \in Nat /\ CellOf(0, now) \in Nat
        /\ CellOf(0, used_since) <= CellOf(0, start) /\ CellOf(0, start) <= CellOf(0, now)
        /\ CellOf(0, now) < CellOf(0, used_since) + h
    BY UsesNear DEF OverflowInv
  <1> HIDE DEF TW0, X
  <1>6. \A i, j \in Indices : X[i] < X[j] + h
    <2> TAKE i, j \in Indices
    <2>1. /\ X[i] \in Nat /\ X[j] \in Nat /\ CellOf(0, start) <= X[j]
          /\ X[i] <= CellOf(0, now)
      BY <1>3, <1>4
    <2> HIDE DEF h
    <2> QED
      BY <1>1, <1>5, <2>1
  <1>7. /\ r.idx \in Indices /\ r.tts = TW0[r.idx].tts
        /\ \A j \in Indices : X[j] <= C
        /\ r.wraps \in Nat /\ (C \div m) = (X[0] \div m) + r.wraps
    BY <1>2, <1>3, <1>4, <1>6, LargestCellNear
  <1>8. /\ wrapping' = wrapping + r.wraps + (IF across THEN 1 ELSE 0)
        /\ pre_largest_tts' = r.tts
        /\ TW_result' = UNION {Retained(R[i], i, LargestTts(r.tts)[i],
                                        IF i = 0 THEN r.idx ELSE LargestTts(r.tts)[i] % 2^k,
                                        wrapping') : i \in Windows}
        /\ origin' = IF origin # NoOrigin THEN origin
                     ELSE (TW0[r.idx].FID \div 2^TsBits) - wrapping'
        /\ used_since' = start /\ start' = now
    <2>1. TW0[0].FID # NoFID
      <3>1. TW0[0].FID \in Nat
        BY <1>1, <1>3
      <3> QED
        BY <3>1 DEF NoFID
    <2>2. ~ \A i \in Windows, j \in Indices : R[i][j].FID = NoFID
      BY <1>1, <2>1 DEF TW0
    <2> QED
      BY <2>2 DEF Poll, Retire, TW0
  <1> HIDE DEF R, r
  <1>9. C \in Nat /\ X[0] \in Nat /\ X[0] <= C
    BY <1>1, <1>4, <1>7
  <1> DEFINE u == C \div m
             v == X[0] \div m
  <1>10. /\ u \in Nat /\ r.tts = C % m /\ C = u * m + r.tts /\ v \in Nat
         /\ u = v + r.wraps /\ r.tts \in Nat /\ r.tts < m
    <2>1. r.tts = C % m
      BY <1>3, <1>7
    <2> HIDE DEF m, C
    <2>2. /\ u \in Nat /\ (C % m) \in Nat /\ (C % m) < m /\ C = u * m + (C % m)
          /\ v \in Nat
      BY <1>1, <1>9, Divided
    <2> QED
      BY <1>7, <2>1, <2>2
  <1>11. /\ wrapping \in Nat /\ pre_largest_tts \in 0 .. m - 1 /\ origin \in Int
         /\ origin = NoOrigin => wrapping = 0 /\ pre_largest_tts = 0
         /\ origin # NoOrigin => /\ origin \in Nat
                                 /\ CellOf(0, used_since) <= LatestCell
                                 /\ LatestCell <= CellOf(0, start)
    BY DEF OverflowInv, OverflowsKnown
  <1>12. wrapping' \in Nat /\ origin' \in Nat /\ wrapping' + origin' = u
    <2>1. CASE origin = NoOrigin
      <3>1. ~across
        <4>1. ~(m + r.tts - 0 < h)
          <5> HIDE DEF m, h
          <5> QED
            BY <1>1, <1>10
        <4> QED
          BY <1>11, <2>1, <4>1 DEF Overflowed
      <3>2. wrapping' = r.wraps
        <4> HIDE DEF across
        <4> QED
          BY <1>7, <1>8, <1>11, <2>1, <3>1
      <3>3. (TW0[r.idx].FID \div 2^TsBits) = u
        <4> DEFINE f == TW0[r.idx].FID
                   b == 2^TW0_TB
        <4>1. f \in Nat /\ b \in Nat \ {0} /\ 2^TsBits = b * m /\ C = f \div b
          BY <1>3, <1>7, Sizes, Threshold DEF X, CellOf
        <4> HIDE DEF f, b, m
        <4> QED
          BY <1>1, <4>1, DivDiv DEF f
      <3>4. origin' = u - r.wraps
        BY <1>8, <2>1, <3>2, <3>3
      <3> HIDE DEF u, v
      <3> QED
        BY <1>7, <1>10, <3>2, <3>4
    <2>2. CASE origin # NoOrigin
      <3> DEFINE p == wrapping + origin
                 P == pre_largest_tts + p * m
      <3>1. origin' = origin /\ origin \in Nat /\ p \in Nat
        BY <1>8, <1>11, <2>2
      <3>2. /\ P \in Nat /\ CellOf(0, used_since) <= P /\ P <= CellOf(0, start)
            /\ pre_largest_tts \in Nat /\ pre_largest_tts < m
        <4>1. P = LatestCell
          BY DEF LatestCell
        <4>2. p * m \in Nat
          <5> HIDE DEF p, m
          <5> QED
            BY <1>1, <3>1
        <4>3. pre_largest_tts \in Nat /\ pre_largest_tts < m
          <5> HIDE DEF m
          <5> QED
            BY <1>1, <1>11
        <4>4. P \in Nat
          <5> HIDE DEF p, m
          <5> QED
            BY <4>2, <4>3
        <4> QED
          BY <1>11, <2>2, <4>1, <4>3, <4>4
      <3>3. P \div m = p /\ P % m = pre_largest_tts
        <4> DEFINE t == pre_largest_tts
        <4>1. t \in Int /\ p \in Int
          BY <3>1, <3>2
        <4>2. t \div m = 0 /\ t % m = t
          <5> HIDE DEF m, P, p, t
          <5> QED
            BY <1>1, <3>2, ModSmall DEF t
        <4> HIDE DEF m, p, t
        <4>3. /\ (t + p * m) \div m = (t \div m) + p
              /\ (t + p * m) % m = t % m
          BY <1>1, <4>1, DivShift
        <4> QED
          BY <4>1, <4>2, <4>3 DEF t
      <3>4. P <= X[0] /\ P <= C /\ C < P + h
        <4>1. CellOf(0, start) <= X[0] /\ C <= CellOf(0, now)
          BY <1>1, <1>3, <1>7
        <4> HIDE DEF P, C, h
        <4> QED
          BY <1>1, <1>5, <1>9, <3>2, <4>1
      <3>5. P < C + h
        <4> HIDE DEF P, C, h
        <4> QED
          BY <1>1, <1>9, <3>2, <3>4
      <3> HIDE DEF P, p, C, m, h, u, v
      <3>6. p <= v
        <4>1. P \div m <= X[0] \div m
          BY <1>1, <1>9, <3>2, <3>4, DivMonotonic
        <4> QED
          BY <3>3, <4>1 DEF v
      <3>7. CASE u = p
        <4>1. r.wraps = 0
          BY <1>7, <1>10, <3>1, <3>6, <3>7
        <4>2. ~across
          <5>1. CASE C > P
            <6>1. (C % m) > (P % m)
              BY <1>1, <1>9, <3>2, <3>3, <3>4, <3>5, <3>7, <5>1, Later DEF u
            <6>2. ~(m + r.tts - pre_largest_tts < h)
              BY <1>1, <1>10, <3>2, <3>3, <6>1
            <6> QED
              BY <6>2 DEF Overflowed, m, h
          <5>2. CASE C = P
            <6>1. ~(m + r.tts - pre_largest_tts < h)
              BY <1>1, <1>10, <3>2, <3>3, <5>2
            <6> QED
              BY <6>1 DEF Overflowed, m, h
          <5> QED
            BY <1>9, <3>2, <3>4, <5>1, <5>2
        <4> HIDE DEF across
        <4> QED
          BY <1>8, <1>11, <3>1, <3>7, <4>1, <4>2 DEF p
      <3>8. CASE u # p
        <4>1. C > P
          BY <1>9, <3>2, <3>3, <3>4, <3>8 DEF u
        <4>2. u = p + 1 /\ m + (C % m) - (P % m) < h
          BY <1>1, <1>9, <3>2, <3>3, <3>4, <3>5, <3>8, <4>1, Later DEF u
        <4>3. Overflowed(pre_largest_tts, r.tts)
          BY <1>10, <3>3, <4>2 DEF Overflowed, m, h
        <4>4. r.wraps + (IF across THEN 1 ELSE 0) = 1
          <5>1. across <=> r.wraps = 0
            BY <4>3
          <5> HIDE DEF across
          <5>2. r.wraps = 0 \/ r.wraps = 1
            BY <1>7, <1>10, <3>1, <3>6, <4>2
          <5> QED
            BY <5>1, <5>2
        <4> HIDE DEF across
        <4>5. wrapping' = wrapping + 1
          BY <1>7, <1>8, <1>11, <4>4
        <4> QED
          BY <1>11, <3>1, <4>2, <4>5 DEF p
      <3> QED
        BY <3>7, <3>8
    <2> QED
      BY <2>1, <2>2
  <1>13. C = r.tts + (wrapping' + origin') * m
    <2>1. C = r.tts + u * m
      <3> HIDE DEF m, C, u
      <3> QED
        BY <1>1, <1>10
    <2> QED
      BY <1>12, <2>1
  <1>14. OverflowsKnown'
    <2>1. CellOf(0, start) <= C /\ C <= CellOf(0, now)
      BY <1>3, <1>7
    <2>2. origin' # NoOrigin /\ pre_largest_tts' \in 0 .. m - 1
      <3>1. origin' # NoOrigin
        BY <1>12 DEF NoOrigin
      <3> HIDE DEF m
      <3> QED
        BY <1>1, <1>8, <1>10, <3>1
    <2>3. LatestCell' = C
      BY <1>8, <1>13 DEF LatestCell, tts_bit
    <2>4. now' = now
      BY DEF Poll, Retire
    <2> HIDE DEF m, C
    <2> QED
      BY <1>8, <1>12, <2>1, <2>2, <2>3, <2>4 DEF OverflowsKnown, CellOf, m, TrimmedBits, tts_bit
  <1>15. C = CellOf(0, R[0][r.idx].FID) /\ \A j \in Indices : X[j] = CellOf(0, R[0][j].FID)
    BY <1>7 DEF X, TW0
  <1>16. wrapping' + origin' \in Nat
    BY <1>10, <1>12
  <1> HIDE DEF C, X
  <1> QED
    BY <1>7, <1>8, <1>9, <1>10, <1>12, <1>13, <1>14, <1>15, <1>16 DEF R, r, TW0, m

----------------------------------------------------------------------------
(* The filter, over an overflow.                                           *)

\* The latest of a window is no later than what the latest of the first is, as the
\* window trims it.
LEMMA LargestTtsNow ==
  ASSUME PowersOfTwo, NEW f \in Nat
  PROVE  \A i \in Windows : LargestTts(CellOf(0, f))[i] <= CellOf(i, f)
  <1> DEFINE N == T - 1
             K == 2^k
             A == 2^ALPHA
             L == LargestTts(CellOf(0, f))
             S == {i \in 0 .. N : L[i] <= CellOf(i, f)}
  <1>1. N \in Nat /\ Windows = 0 .. N /\ 0 \in Windows
    BY Parameters DEF Windows
  <1>2. K \in Nat \ {0} /\ A \in Nat \ {0}
    BY Sizes
  <1>3. \A i \in Windows : CellOf(i, f) \in Nat
    BY StampOfCell
  <1>4. /\ L \in [Windows -> Int] /\ L[0] = CellOf(0, f)
        /\ \A i \in Windows : i # 0 => i - 1 \in Windows /\ L[i] = (L[i - 1] - K) \div A
    BY <1>1, <1>3, LargestTtsIs
  <1> HIDE DEF L, K, A
  <1>5. 0 \in S
    BY <1>1, <1>3, <1>4
  <1>6. ASSUME NEW i \in 1 .. N, i - 1 \in S
        PROVE  i \in S
    <2> DEFINE g == i - 1
    <2>1. i \in Windows /\ i # 0 /\ g \in Windows /\ g + 1 = i /\ g + 1 \in Windows
      BY <1>1
    <2>2. L[i] = (L[g] - K) \div A /\ L[g] <= CellOf(g, f) /\ L[g] \in Int
      BY <1>4, <1>6, <2>1
    <2>3. CellOf(i, f) = CellOf(g, f) \div A
      <3> HIDE DEF g
      <3> QED
        BY <2>1, NextCell DEF A
    <2>4. CellOf(g, f) \in Nat
      BY <1>3, <2>1
    <2> HIDE DEF g
    <2>5. L[g] - K \in Int /\ L[g] - K <= CellOf(g, f)
      BY <1>2, <2>2, <2>4
    <2>6. (L[g] - K) \div A <= CellOf(g, f) \div A
      BY <1>2, <2>4, <2>5, DivMonotonic
    <2> QED
      BY <2>2, <2>3, <2>6
  <1>7. \A i \in 0 .. N : i \in S
    <2> HIDE DEF S, N
    <2> QED
      BY <1>1, <1>5, <1>6, InductionUpTo
  <1> QED
    BY <1>1, <1>7 DEF L

\* Where the records of a set are to the latest of their windows, when the stamp of
\* the latest packet, f, is tts after n overflows.
LEMMA SetBefore ==
  ASSUME PowersOfTwo, WindowInv, RecordsFollow, Current, NEW q \in Quarters,
         NEW f \in Nat, f < now, NEW tts \in Nat, tts < 2^tts_bit, NEW n \in Nat,
         CellOf(0, f) = tts + n * 2^tts_bit,
         \A j \in Indices : tw_r[q][0][j] # Empty =>
           CellOf(0, tw_r[q][0][j].FID) <= CellOf(0, f)
  PROVE  LET R == tw_r[q]
             l == LargestTts(tts) IN
         /\ l \in [Windows -> Int] /\ l[0] = tts
         /\ \A i \in Windows, j \in Indices : R[i][j] # Empty =>
              /\ R[i][j].FID \in Nat /\ R[i][j].tts % 2^k = j
              /\ Before(i, CellOf(i, R[i][j].FID), R[i][j].tts, l[i], n)
              /\ \A h \in Windows : h < i =>
                   CellOf(h, R[i][j].FID) <= (l[h] + n * Period(h)) - 2^k
  <1> DEFINE R == tw_r[q]
             l == LargestTts(tts)
             C == CellOf(0, f)
             L == LargestTts(C)
  <1>1. C \in Nat /\ now \in Nat
    BY Parameters, StampOfCell DEF WindowInv, WindowTypes
  <1>2. /\ L \in [Windows -> Int]
        /\ \A i \in Windows, j \in Indices : R[i][j] # Empty =>
             /\ CellOf(i, R[i][j].FID) <= L[i]
             /\ \A h \in Windows : h < i => CellOf(h, R[i][j].FID) <= L[h] - 2^k
    <2> HIDE DEF C
    <2> QED
      BY <1>1, LatestBounds DEF C
  <1>3. \A i \in Windows : L[i] = l[i] + n * Period(i)
    BY LargestTtsShift
  <1>4. \A i \in Windows : l[i] < Period(i) /\ l[i] >= -(2^k) /\ l[i] \in Int
    BY LargestTtsBelow, LargestTtsAbove DEF Period
  <1>5. \A i \in Windows : L[i] <= CellOf(i, f)
    BY LargestTtsNow
  <1>6. l \in [Windows -> Int] /\ l[0] = tts
    BY LargestTtsIs
  <1> HIDE DEF l, L, C
  <1>7. ASSUME NEW i \in Windows, NEW j \in Indices, R[i][j] # Empty
        PROVE  /\ R[i][j].FID \in Nat /\ R[i][j].tts % 2^k = j
               /\ Before(i, CellOf(i, R[i][j].FID), R[i][j].tts, l[i], n)
               /\ \A h \in Windows : h < i =>
                    CellOf(h, R[i][j].FID) <= (l[h] + n * Period(h)) - 2^k
    <2> DEFINE c == R[i][j]
               d == c.FID
               X == CellOf(i, d)
               b == 2^TrimmedBits(i)
               P == Period(i)
    <2>1. Genuine(i, c, now) /\ c.tts % 2^k = j
      BY <1>7 DEF WindowInv, RecordsGenuine
    <2>2. d \in Nat /\ d < now /\ c.tts = Stamped(i, d)
      BY <2>1 DEF Genuine
    <2>3. /\ b \in Nat \ {0} /\ P \in Nat \ {0} /\ 2^TsBits = b * P
      BY WindowSizes DEF Period
    <2>4. now - d <= b * P - b
      BY <1>7, <2>3 DEF Current
    <2> HIDE DEF c, d
    <2>5. c.tts = X % P /\ X \in Nat /\ c.tts \in Nat
      BY <2>2, StampOfCell DEF Period
    <2>6. X = d \div b /\ CellOf(i, f) = f \div b
      BY DEF CellOf
    <2>7. X <= L[i]
      BY <1>2, <1>7 DEF c, d
    <2> HIDE DEF X, b, P
    <2>8. f <= d + (P - 1) * b
      <3>1. (P - 1) * b = b * P - b /\ b * P \in Int
        BY <2>3
      <3> QED
        BY <1>1, <2>2, <2>3, <2>4, <3>1
    <2>9. CellOf(i, f) <= X + (P - 1)
      <3>1. P - 1 \in Int /\ d \in Int /\ (P - 1) * b \in Int
        BY <2>2, <2>3
      <3>2. d + (P - 1) * b \in Int /\ f \in Int
        BY <3>1
      <3>3. f \div b <= (d + (P - 1) * b) \div b
        BY <2>3, <2>8, <3>2, DivMonotonic
      <3>4. (d + (P - 1) * b) \div b = (d \div b) + (P - 1)
        BY <2>3, <3>1, DivShift
      <3> QED
        BY <2>6, <3>3, <3>4
    <2>10. CellOf(i, f) \in Nat /\ L[i] \in Int /\ L[i] <= CellOf(i, f)
      BY <1>2, <1>5, StampOfCell
    <2>11. L[i] < X + P
      BY <2>3, <2>5, <2>9, <2>10
    <2>12. L[i] = l[i] + n * P
      BY <1>3 DEF P
    <2>13. Before(i, X, c.tts, l[i], n)
      BY <1>4, <2>5, <2>7, <2>11, <2>12 DEF Before, P
    <2>14. \A h \in Windows : h < i => CellOf(h, d) <= (l[h] + n * Period(h)) - 2^k
      BY <1>2, <1>3, <1>7 DEF c, d
    <2> QED
      BY <2>1, <2>2, <2>13, <2>14 DEF X, c, d
  <1> QED
    BY <1>6, <1>7 DEF l

\* What is retained of a filled set: the time of each record, and that it is less than
\* a cycle before the latest of its window.
LEMMA PollRetains ==
  ASSUME PowersOfTwo, OverflowInv, Current, Filled, Poll
  PROVE  LET R == tw_r[second_highest]
             f == R[0][LargestCell(R[0]).idx].FID
             L == LargestTts(CellOf(0, f)) IN
         /\ f \in Nat /\ \A j \in Indices : CellOf(0, R[0][j].FID) <= CellOf(0, f)
         /\ L \in [Windows -> Int]
         /\ \A c \in TW_result' :
              /\ c.twid \in Windows /\ c.FID \in Nat
              /\ \E j \in Indices : R[c.twid][j] # Empty /\ c.FID = R[c.twid][j].FID
              /\ CellOf(c.twid, c.FID)
                   = c.tts + (c.wrap + origin') * Period(c.twid)
              /\ L[c.twid] - 2^k < CellOf(c.twid, c.FID)
              /\ \A h \in Windows : h < c.twid => CellOf(h, c.FID) <= L[h] - 2^k
  <1> DEFINE R == tw_r[second_highest]
             r == LargestCell(R[0])
             f == R[0][r.idx].FID
             n == wrapping' + origin'
             l == LargestTts(r.tts)
             L == LargestTts(CellOf(0, f))
  <1>1. WindowInv /\ RecordsFollow /\ Uses
    BY DEF OverflowInv
  <1>2. second_highest \in Quarters /\ 0 \in Windows /\ R \in [Windows -> [Indices -> Cells]]
    BY <1>1, Parameters DEF WindowInv, WindowTypes
  <1>3. /\ r.idx \in Indices /\ r.tts = R[0][r.idx].tts
        /\ \A j \in Indices : CellOf(0, R[0][j].FID) <= CellOf(0, f)
        /\ wrapping' \in Nat /\ origin' \in Nat /\ n \in Nat
        /\ CellOf(0, f) \in Nat /\ r.tts = CellOf(0, f) % 2^tts_bit
        /\ CellOf(0, f) = r.tts + n * 2^tts_bit
        /\ TW_result' = UNION {
             Retained(R[i], i, l[i], IF i = 0 THEN r.idx ELSE l[i] % 2^k, wrapping')
               : i \in Windows}
    BY PollCounts
  <1>4. f \in Nat /\ f < now /\ r.idx = r.tts % 2^k
    BY <1>1, <1>3, SetCells
  <1>5. r.tts \in Nat /\ r.tts < 2^tts_bit
    <2> DEFINE m == 2^tts_bit
    <2>1. m \in Nat \ {0}
      BY Threshold
    <2> HIDE DEF m
    <2>2. (CellOf(0, f) % m) \in Nat /\ (CellOf(0, f) % m) < m
      BY <1>3, <2>1, Divided
    <2> QED
      BY <1>3, <2>2 DEF m
  <1> HIDE DEF r, f, n
  <1>6. /\ l \in [Windows -> Int] /\ l[0] = r.tts
        /\ \A i \in Windows, j \in Indices : R[i][j] # Empty =>
             /\ R[i][j].FID \in Nat /\ R[i][j].tts % 2^k = j
             /\ Before(i, CellOf(i, R[i][j].FID), R[i][j].tts, l[i], n)
             /\ \A h \in Windows : h < i =>
                  CellOf(h, R[i][j].FID) <= (l[h] + n * Period(h)) - 2^k
    BY <1>1, <1>2, <1>3, <1>4, <1>5, SetBefore
  <1>7. L \in [Windows -> Int] /\ \A i \in Windows : L[i] = l[i] + n * Period(i)
    <2>1. \A i \in Windows : LargestTts(r.tts + n * 2^tts_bit)[i] = l[i] + n * Period(i)
      BY <1>3, <1>5, LargestTtsShift
    <2>2. L \in [Windows -> Int]
      BY <1>3, LargestTtsIs
    <2> QED
      BY <1>3, <2>1, <2>2
  <1> HIDE DEF R, l, L
  <1>8. ASSUME NEW c \in TW_result'
        PROVE  /\ c.twid \in Windows /\ c.FID \in Nat
               /\ \E j \in Indices : R[c.twid][j] # Empty /\ c.FID = R[c.twid][j].FID
               /\ CellOf(c.twid, c.FID)
                    = c.tts + (c.wrap + origin') * Period(c.twid)
               /\ L[c.twid] - 2^k < CellOf(c.twid, c.FID)
               /\ \A h \in Windows : h < c.twid => CellOf(h, c.FID) <= L[h] - 2^k
    <2>1. PICK i \in Windows :
            c \in Retained(R[i], i, l[i], IF i = 0 THEN r.idx ELSE l[i] % 2^k, wrapping')
      BY <1>3
    <2>2. c \in Retained(R[i], i, l[i], l[i] % 2^k, wrapping')
      BY <1>4, <1>6, <2>1
    <2>3. R[i] \in [Indices -> Cells] /\ l[i] \in Int /\ wrapping' \in Int
      BY <1>2, <1>3, <1>6
    <2>4. \A j \in Indices : R[i][j] # Empty =>
            /\ R[i][j].FID \in Nat /\ R[i][j].tts % 2^k = j
            /\ Before(i, CellOf(i, R[i][j].FID), R[i][j].tts, l[i], n)
      BY <1>6
    <2>5. /\ c.twid = i /\ c.wrap \in Int
          /\ \E j \in Indices : R[i][j] # Empty /\ c.FID = R[i][j].FID
          /\ Within(i, CellOf(i, c.FID), c.tts, l[i], n, (c.wrap - wrapping') + n)
      BY <1>3, <2>2, <2>3, <2>4, RetainedOver
    <2>6. PICK j \in Indices : R[i][j] # Empty /\ c.FID = R[i][j].FID
      BY <2>5
    <2>7. /\ c.FID \in Nat
          /\ \A h \in Windows : h < i => CellOf(h, c.FID) <= L[h] - 2^k
      BY <1>6, <1>7, <2>6
    <2>8. (c.wrap - wrapping') + n = c.wrap + origin'
      BY <1>3, <2>5 DEF n
    <2>9. /\ CellOf(i, c.FID) = c.tts + (c.wrap + origin') * Period(i)
          /\ L[i] - 2^k < CellOf(i, c.FID)
      BY <1>7, <2>5, <2>8 DEF Within
    <2> QED
      BY <2>5, <2>6, <2>7, <2>9
  <1> QED
    BY <1>3, <1>4, <1>7, <1>8 DEF R, r, f, L

----------------------------------------------------------------------------
(* The invariant, and what follows from it.                                *)

LEMMA InitOver ==
  ASSUME PowersOfTwo, ControllerInit
  PROVE  OverflowInv
  <1>1. WindowInv /\ RecordsFollow /\ Uses /\ FirstUse
    BY InitWindowInv, InitFollows, InitUses
  <1>2. wrapping = 0 /\ pre_largest_tts = 0 /\ TW_result = {} /\ origin = NoOrigin
    BY DEF ControllerInit
  <1>3. 0 \in 0 .. 2^tts_bit - 1
    <2> DEFINE m == 2^tts_bit
    <2>1. m \in Nat \ {0}
      BY Threshold
    <2> HIDE DEF m
    <2>2. 0 \in 0 .. m - 1
      BY <2>1
    <2> QED
      BY <2>2 DEF m
  <1>4. OverflowsKnown
    BY <1>2, <1>3 DEF OverflowsKnown, NoOrigin
  <1> QED
    BY <1>1, <1>2, <1>4 DEF OverflowInv, RetainedTrue, WindowsOrdered

\* What a poll leaves to the next set.
LEMMA PollOver ==
  ASSUME PowersOfTwo, OverflowInv, Current, Busy, Poll
  PROVE  /\ OverflowsKnown' /\ RetainedTrue' /\ WindowsOrdered'
         /\ \A c \in TW_result' : c.twid \in Windows /\ c.FID \in Nat
  <1>1. CASE Filled
    <2> DEFINE R == tw_r[second_highest]
               L == LargestTts(CellOf(0, R[0][LargestCell(R[0]).idx].FID))
    <2>1. /\ L \in [Windows -> Int]
          /\ \A c \in TW_result' :
               /\ c.twid \in Windows /\ c.FID \in Nat
               /\ CellOf(c.twid, c.FID)
                    = c.tts + (c.wrap + origin') * Period(c.twid)
               /\ L[c.twid] - 2^k < CellOf(c.twid, c.FID)
               /\ \A h \in Windows : h < c.twid => CellOf(h, c.FID) <= L[h] - 2^k
      BY <1>1, PollRetains
    <2>2. OverflowsKnown'
      BY <1>1, PollCounts
    <2>3. RetainedTrue'
      BY <2>1 DEF RetainedTrue, CellOf, Period, TrimmedBits
    <2> HIDE DEF L
    <2>4. WindowsOrdered'
      <3> SUFFICES ASSUME NEW c \in TW_result', NEW d \in TW_result',
                          c.twid < d.twid, c.FID <= d.FID
                   PROVE  FALSE
        BY <2>1 DEF WindowsOrdered
      <3> DEFINE h == c.twid
      <3>1. h \in Windows /\ c.FID \in Nat /\ d.FID \in Nat
        BY <2>1
      <3>2. CellOf(h, d.FID) <= L[h] - 2^k /\ L[h] - 2^k < CellOf(h, c.FID)
        BY <2>1
      <3>3. CellOf(h, c.FID) <= CellOf(h, d.FID)
        BY <3>1, CellMonotonic
      <3>4. /\ CellOf(h, c.FID) \in Nat /\ CellOf(h, d.FID) \in Nat
            /\ L[h] - 2^k \in Int
        BY <2>1, <3>1, StampOfCell, Sizes
      <3> QED
        BY <3>2, <3>3, <3>4
    <2> QED
      BY <2>1, <2>2, <2>3, <2>4
  <1>2. CASE ~Filled
    <2>1. now >= due
      BY DEF Poll, Retire
    <2>2. /\ origin = NoOrigin
          /\ \A i \in Windows, j \in Indices : tw_r[second_highest][i][j] = Empty
      BY <1>2, <2>1 DEF Busy
    <2>3. \A i \in Windows, j \in Indices : tw_r[second_highest][i][j].FID = NoFID
      BY <2>2 DEF Empty
    <2>4. /\ TW_result' = {} /\ wrapping' = wrapping
          /\ pre_largest_tts' = pre_largest_tts /\ origin' = origin
      BY <2>3 DEF Poll
    <2>5. OverflowsKnown'
      BY <2>2, <2>4 DEF OverflowInv, OverflowsKnown, tts_bit
    <2> QED
      BY <2>4, <2>5 DEF RetainedTrue, WindowsOrdered
  <1> QED
    BY <1>1, <1>2

\* No record is older than a period.
LEMMA CurrentIsRecent ==
  ASSUME PowersOfTwo, WindowInv, Current
  PROVE  Recent
  <1> SUFFICES ASSUME NEW q \in Quarters, NEW i \in Windows, NEW j \in Indices,
                      tw_r[q][i][j] # Empty
               PROVE  now - tw_r[q][i][j].FID <= 2^TsBits
    BY DEF Recent
  <1>1. now - tw_r[q][i][j].FID <= 2^TsBits - 2^TrimmedBits(i)
    BY DEF Current
  <1>2. /\ now \in Nat /\ tw_r[q][i][j].FID \in Nat /\ 2^TsBits \in Nat
        /\ 2^TrimmedBits(i) \in Nat
    BY WindowSizes, Sizes
      DEF WindowInv, WindowTypes, RecordsGenuine, Genuine
  <1> QED
    BY <1>1, <1>2

LEMMA NextOver ==
  ASSUME PowersOfTwo, OverflowInv, Current, Busy, [Next]_vars
  PROVE  OverflowInv'
  <1>1. WindowInv' /\ Uses' /\ FirstUse'
    BY NextWindowInv, NextUses DEF OverflowInv
  <1>2. Recent
    BY CurrentIsRecent DEF OverflowInv
  <1>3. RecordsFollow'
    BY <1>2, NextFollows DEF OverflowInv
  <1>4. CASE Poll
    BY <1>1, <1>3, <1>4, PollOver DEF OverflowInv
  <1>5. CASE ~Poll
    <2>1. UNCHANGED <<wrapping, pre_largest_tts, TW_result, used_since, origin>>
      BY <1>5 DEF Next, Traffic, vars
    <2>2. start' = start
      BY <1>5 DEF Next, Traffic, Packet, Silence, vars, windowVars
    <2>3. OverflowsKnown'
      BY <2>1, <2>2 DEF OverflowInv, OverflowsKnown, LatestCell, CellOf, TrimmedBits, tts_bit
    <2>4. RetainedTrue' /\ WindowsOrdered'
      BY <2>1 DEF OverflowInv, RetainedTrue, WindowsOrdered
    <2> QED
      BY <1>1, <1>3, <2>1, <2>3, <2>4 DEF OverflowInv
  <1> QED
    BY <1>4, <1>5

\* The analysis knows, up to the latest packet of the last set, how often the time
\* stamps have overflowed, of a port whose sets are filled and soon enough after
\* another; and it is inductive, for any number of overflows.
THEOREM OverflowInvariant ==
  ASSUME PowersOfTwo
  PROVE  Spec /\ []Current /\ []Busy => []OverflowInv
  <1>1. ControllerInit => OverflowInv
    BY InitOver
  <1>2. OverflowInv /\ Current /\ Busy /\ [Next]_vars => OverflowInv'
    BY NextOver
  <1> QED
    BY <1>1, <1>2, PTL DEF Spec

\* However often the time stamps overflow, every record retained is given the time of
\* its packet, when the sets are filled and soon enough after another: the analysis
\* misses no overflow and counts none twice, within a set and from one to the next.
THEOREM OverflowsCountedOnce ==
  ASSUME PowersOfTwo
  PROVE  Spec /\ []Current /\ []Busy => []RetainedTrue
  <1>1. OverflowInv => RetainedTrue
    BY DEF OverflowInv
  <1> QED
    BY <1>1, OverflowInvariant, PTL

\* Then, too, the windows of a set do not overlap, over an overflow as before the first.
THEOREM WindowsStayOrdered ==
  ASSUME PowersOfTwo
  PROVE  Spec /\ []Current /\ []Busy => []WindowsOrdered
  <1>1. OverflowInv => WindowsOrdered
    BY DEF OverflowInv
  <1> QED
    BY <1>1, OverflowInvariant, PTL

----------------------------------------------------------------------------
(* Records of earlier uses.                                                *)

\* All the windows together reach back from the latest packet by less than twice a
\* cycle of the last.
LEMMA WindowsReach ==
  ASSUME PowersOfTwo, NEW x \in Nat
  PROVE  \A i \in Windows :
           (x + 1) * 2^TW0_TB - 2^k * 2^TrimmedBits(i)
             <= (LargestTts(x)[i] + 1) * 2^TrimmedBits(i)
  <1> DEFINE N == T - 1
             K == 2^k
             A == 2^ALPHA
             b(i) == 2^TrimmedBits(i)
             B == (x + 1) * 2^TW0_TB
             L == LargestTts(x)
             S == {i \in 0 .. N : B - K * b(i) <= (L[i] + 1) * b(i)}
  <1>1. N \in Nat /\ Windows = 0 .. N /\ 0 \in Windows
    BY Parameters DEF Windows
  <1>2. K \in Nat \ {0} /\ A \in Nat \ {0} /\ A >= 2 /\ B \in Nat
    BY Sizes
  <1>3. \A i \in Windows : b(i) \in Nat \ {0}
    BY WindowSizes
  <1>4. /\ L \in [Windows -> Int] /\ L[0] = x
        /\ \A i \in Windows : i # 0 => i - 1 \in Windows /\ L[i] = (L[i - 1] - K) \div A
    BY LargestTtsIs
  <1>5. \A i \in Windows : i # 0 => b(i) = b(i - 1) * A
    <2> TAKE i \in Windows
    <2> HAVE i # 0
    <2> DEFINE g == i - 1
    <2>1. g \in Windows /\ g + 1 \in Windows /\ g + 1 = i
      BY <1>1
    <2> HIDE DEF g
    <2>2. 2^TrimmedBits(g + 1) = 2^TrimmedBits(g) * 2^ALPHA
      BY <2>1, NextSize
    <2> QED
      BY <2>1, <2>2 DEF g
  <1>6. (L[0] + 1) * b(0) = B
    BY <1>4, Threshold
  <1> HIDE DEF L, K, A, b, B
  <1>7. 0 \in S
    <2>1. K * b(0) \in Nat
      BY <1>1, <1>2, <1>3
    <2> QED
      BY <1>1, <1>2, <1>6, <2>1
  <1>8. ASSUME NEW i \in 1 .. N, i - 1 \in S
        PROVE  i \in S
    <2> DEFINE z == L[i - 1] - K
               a == b(i - 1)
               q == L[i]
    <2>1. i \in Windows /\ i # 0 /\ i - 1 \in Windows
      BY <1>1
    <2>2. /\ a \in Nat \ {0} /\ b(i) = a * A /\ L[i - 1] \in Int /\ q \in Int
          /\ q = z \div A /\ z \in Int
      BY <1>2, <1>3, <1>4, <1>5, <2>1
    <2>3. B - K * a <= (L[i - 1] + 1) * a
      BY <1>8
    <2> HIDE DEF a, q
    <2>4. (z + 1) * a = (L[i - 1] + 1) * a - K * a /\ K * a \in Int
      BY <1>2, <2>2
    <2> HIDE DEF z
    <2>5. z + 1 <= (q + 1) * A
      <3>1. z < ((z \div A) + 1) * A
        BY <1>2, <2>2, DivMod
      <3>2. (q + 1) * A \in Int
        BY <1>2, <2>2
      <3> QED
        BY <2>2, <3>1, <3>2
    <2>6. (z + 1) * a <= (q + 1) * (a * A)
      <3> DEFINE y == (q + 1) * A
      <3>1. y \in Int /\ z + 1 <= y
        BY <1>2, <2>2, <2>5
      <3>2. y * a = (q + 1) * (a * A)
        BY <1>2, <2>2
      <3> HIDE DEF y
      <3>3. (z + 1) * a <= y * a
        BY <2>2, <3>1
      <3> QED
        BY <3>2, <3>3
    <2>7. K * (a * A) >= 2 * (K * a)
      <3>1. K * (a * A) = (K * a) * A /\ K * a \in Nat
        BY <1>2, <2>2
      <3> DEFINE y == K * a
      <3> HIDE DEF y
      <3>2. y * A >= y * 2
        BY <1>2, <3>1 DEF y
      <3> QED
        BY <1>2, <3>1, <3>2 DEF y
    <2>8. (L[i - 1] + 1) * a \in Int /\ (q + 1) * (a * A) \in Int /\ K * (a * A) \in Int
      BY <1>2, <2>2
    <2>9. B - K * (a * A) <= (q + 1) * (a * A)
      BY <1>2, <2>3, <2>4, <2>6, <2>7, <2>8
    <2> QED
      BY <2>2, <2>9 DEF q
  <1>9. \A i \in 0 .. N : i \in S
    <2> HIDE DEF S, N
    <2> QED
      BY <1>1, <1>7, <1>8, InductionUpTo
  <1> QED
    BY <1>1, <1>9 DEF L, K, b, B

\* A cell of a window lasts no longer than one of the last.
LEMMA LastSize ==
  ASSUME PowersOfTwo, NEW i \in Windows
  PROVE  /\ 2^TrimmedBits(i) <= 2^TrimmedBits(T - 1)
         /\ 2^(TrimmedBits(T - 1) + k + 1) = 2 * (2^k * 2^TrimmedBits(T - 1))
  <1> DEFINE a == TrimmedBits(i)
             z == TrimmedBits(T - 1)
             d == z - a
  <1>1. i \in Nat /\ i <= T - 1 /\ T - 1 \in Windows
    BY Parameters DEF Windows
  <1>2. a \in Nat /\ z \in Nat
    BY <1>1, WindowSizes
  <1>3. d \in Nat /\ z = a + d
    <2>1. /\ ALPHA * i \in Nat /\ ALPHA * (T - 1) \in Nat
          /\ ALPHA * i <= ALPHA * (T - 1)
      BY <1>1, Parameters
    <2>2. d = ALPHA * (T - 1) - ALPHA * i
      BY <2>1, Parameters DEF TrimmedBits
    <2> QED
      BY <1>2, <2>1, <2>2
  <1> HIDE DEF a, z, d
  <1>4. 2^z = 2^a * 2^d
    BY <1>2, <1>3 DEF PowersOfTwo
  <1>5. 2^z \in Nat \ {0} /\ 2^a \in Nat \ {0} /\ 2^d \in Nat \ {0} /\ 2^k \in Nat \ {0}
    BY <1>2, <1>3, Powers, Sizes
  <1>6. 2^a <= 2^z
    BY <1>4, <1>5
  <1>7. 2^((z + k) + 1) = (2^z * 2^k) * 2
    <2>1. z + k \in Nat /\ k \in Nat /\ 1 \in Nat /\ 2^1 = 2
      BY <1>2, Parameters
    <2>2. 2^((z + k) + 1) = 2^(z + k) * 2^1
      BY <2>1 DEF PowersOfTwo
    <2>3. 2^(z + k) = 2^z * 2^k
      BY <1>2, <2>1 DEF PowersOfTwo
    <2> QED
      BY <2>1, <2>2, <2>3
  <1>8. (2^z * 2^k) * 2 = 2 * (2^k * 2^z)
    BY <1>5
  <1> QED
    BY <1>6, <1>7, <1>8 DEF a, z

\* The stamps of the first window tell the order of its packets.
LEMMA StampsNear ==
  ASSUME PowersOfTwo, WindowInv, StampsTell
  PROVE  LET W == tw_r[second_highest][0] IN
         /\ \A j \in Indices :
              /\ W[j] # Empty /\ W[j].FID \in Nat /\ W[j].FID < now
              /\ CellOf(0, W[j].FID) \in Nat
              /\ W[j].tts = CellOf(0, W[j].FID) % 2^tts_bit /\ W[j].tts % 2^k = j
         /\ \A i, j \in Indices :
              CellOf(0, W[i].FID) < CellOf(0, W[j].FID) + 2^threshold_bit
  <1> DEFINE W == tw_r[second_highest][0]
             b == 2^TW0_TB
             h == 2^threshold_bit
  <1>1. /\ now \in Nat /\ second_highest \in Quarters /\ 0 \in Windows
        /\ b \in Nat \ {0} /\ h \in Nat \ {0} /\ 2^(TW0_TB + threshold_bit) = b * h
    BY Parameters, Sizes, Threshold DEF WindowInv, WindowTypes
  <1>2. ASSUME NEW j \in Indices
        PROVE  /\ W[j] # Empty /\ W[j].FID \in Nat /\ W[j].FID < now
               /\ CellOf(0, W[j].FID) \in Nat
               /\ W[j].tts = CellOf(0, W[j].FID) % 2^tts_bit /\ W[j].tts % 2^k = j
               /\ now - W[j].FID <= b * h - b
    <2>1. W[j] # Empty /\ now - W[j].FID <= b * h - b
      BY <1>1 DEF StampsTell
    <2>2. Genuine(0, W[j], now) /\ W[j].tts % 2^k = j
      BY <1>1, <2>1 DEF WindowInv, RecordsGenuine
    <2>3. W[j].FID \in Nat /\ W[j].FID < now /\ W[j].tts = Stamped(0, W[j].FID)
      BY <2>2 DEF Genuine
    <2> HIDE DEF W
    <2>4. /\ Stamped(0, W[j].FID) = CellOf(0, W[j].FID) % 2^tts_bit
          /\ CellOf(0, W[j].FID) \in Nat
      BY <1>1, <2>3, StampOfCell, Threshold
    <2> QED
      BY <2>1, <2>2, <2>3, <2>4
  <1>3. ASSUME NEW i \in Indices, NEW j \in Indices
        PROVE  CellOf(0, W[i].FID) < CellOf(0, W[j].FID) + h
    <2> DEFINE f == W[i].FID
               g == W[j].FID
    <2>1. f \in Nat /\ f < now /\ g \in Nat /\ now - g <= b * h - b
      BY <1>2
    <2>2. CellOf(0, f) = f \div b /\ CellOf(0, g) = g \div b
      BY Threshold DEF CellOf
    <2> HIDE DEF f, g, b, h
    <2>3. f <= g + (h - 1) * b /\ (h - 1) * b \in Int
      <3>1. (h - 1) * b = b * h - b /\ b * h \in Int
        BY <1>1
      <3> QED
        BY <1>1, <2>1, <3>1
    <2>4. f \div b <= (g + (h - 1) * b) \div b
      <3>1. f \in Int /\ g + (h - 1) * b \in Int
        BY <2>1, <2>3
      <3> QED
        BY <1>1, <2>3, <3>1, DivMonotonic
    <2>5. (g + (h - 1) * b) \div b = (g \div b) + (h - 1)
      <3>1. h - 1 \in Int /\ g \in Int
        BY <1>1, <2>1
      <3> QED
        BY <1>1, <3>1, DivShift
    <2>6. f \div b \in Int /\ g \div b \in Int
      <3>1. f \in Int /\ g \in Int
        BY <2>1
      <3> QED
        BY <1>1, <3>1, DivMod
    <2> QED
      BY <1>1, <2>2, <2>4, <2>5, <2>6 DEF f, g
  <1> QED
    BY <1>2, <1>3

\* What is retained of a set whose stamps tell, whatever was counted before: the
\* records less than a cycle before the latest of their window.
LEMMA StampsRetain ==
  ASSUME PowersOfTwo, WindowInv, RecordsFollow, Current, StampsTell, wrapping \in Int, Poll
  PROVE  LET R == tw_r[second_highest]
             f == R[0][LargestCell(R[0]).idx].FID
             L == LargestTts(CellOf(0, f)) IN
         /\ f \in Nat /\ \A j \in Indices : CellOf(0, R[0][j].FID) <= CellOf(0, f)
         /\ L \in [Windows -> Int]
         /\ \A c \in TW_result' :
              /\ c.twid \in Windows /\ c.FID \in Nat
              /\ \E j \in Indices : R[c.twid][j] # Empty /\ c.FID = R[c.twid][j].FID
              /\ L[c.twid] - 2^k < CellOf(c.twid, c.FID)
  <1> DEFINE R == tw_r[second_highest]
             TW0 == R[0]
             r == LargestCell(TW0)
             f == TW0[r.idx].FID
             X == [j \in Indices |-> CellOf(0, TW0[j].FID)]
             m == 2^tts_bit
             n == CellOf(0, f) \div m
             l == LargestTts(r.tts)
             L == LargestTts(CellOf(0, f))
  <1>1. /\ second_highest \in Quarters /\ 0 \in Windows /\ 0 \in Indices
        /\ R \in [Windows -> [Indices -> Cells]] /\ TW0 \in [Indices -> Cells]
        /\ m \in Nat \ {0}
    BY Parameters, Sizes, Threshold DEF WindowInv, WindowTypes
  <1>2. /\ \A j \in Indices :
             /\ TW0[j] # Empty /\ TW0[j].FID \in Nat /\ TW0[j].FID < now
             /\ X[j] \in Nat /\ TW0[j].tts = X[j] % m /\ TW0[j].tts % 2^k = j
        /\ \A i, j \in Indices : X[i] < X[j] + 2^threshold_bit
    BY StampsNear
  <1>3. X \in [Indices -> Nat]
    <2>1. \A j \in Indices : CellOf(0, TW0[j].FID) \in Nat
      BY <1>2
    <2> QED
      BY <2>1
  <1> HIDE DEF TW0
  <1>4. /\ r.idx \in Indices /\ r.tts = TW0[r.idx].tts
        /\ \A j \in Indices : X[j] <= X[r.idx]
        /\ r.wraps \in Nat
    <2> HIDE DEF X, r
    <2> QED
      BY <1>1, <1>2, <1>3, LargestCellNear DEF r, m
  <1>5. /\ TW_result' = UNION {Retained(R[i], i, l[i],
                                        IF i = 0 THEN r.idx ELSE l[i] % 2^k,
                                        wrapping') : i \in Windows}
        /\ wrapping' \in Int
    <2>1. TW0[0].FID # NoFID
      <3>1. TW0[0].FID \in Nat
        BY <1>1, <1>2
      <3> QED
        BY <3>1 DEF NoFID
    <2>2. ~ \A i \in Windows, j \in Indices : R[i][j].FID = NoFID
      BY <1>1, <2>1 DEF TW0
    <2> DEFINE a == r.wraps = 0 /\ Overflowed(pre_largest_tts, r.tts)
    <2>3. /\ wrapping' = wrapping + r.wraps + (IF a THEN 1 ELSE 0)
          /\ TW_result' = UNION {Retained(R[i], i, l[i],
                                          IF i = 0 THEN r.idx ELSE l[i] % 2^k,
                                          wrapping') : i \in Windows}
      BY <2>2 DEF Poll, TW0
    <2> HIDE DEF r, a
    <2> QED
      BY <1>4, <2>3
  <1>6. /\ f \in Nat /\ f < now /\ r.tts = CellOf(0, f) % m /\ r.idx = r.tts % 2^k
        /\ CellOf(0, f) \in Nat
        /\ \A j \in Indices : CellOf(0, TW0[j].FID) <= CellOf(0, f)
    <2> HIDE DEF r
    <2> QED
      BY <1>2, <1>4
  <1> HIDE DEF r, f
  <1>7. /\ n \in Nat /\ r.tts \in Nat /\ r.tts < m /\ CellOf(0, f) = r.tts + n * m
    <2> HIDE DEF m, n
    <2>1. /\ n \in Nat /\ (CellOf(0, f) % m) \in Nat /\ (CellOf(0, f) % m) < m
          /\ CellOf(0, f) = n * m + (CellOf(0, f) % m)
      BY <1>1, <1>6, Divided DEF n
    <2> QED
      BY <1>1, <1>6, <2>1
  <1> HIDE DEF n
  <1>8. /\ l \in [Windows -> Int] /\ l[0] = r.tts
        /\ \A i \in Windows, j \in Indices : R[i][j] # Empty =>
             /\ R[i][j].FID \in Nat /\ R[i][j].tts % 2^k = j
             /\ Before(i, CellOf(i, R[i][j].FID), R[i][j].tts, l[i], n)
    BY <1>1, <1>6, <1>7, SetBefore DEF TW0
  <1>9. L \in [Windows -> Int] /\ \A i \in Windows : L[i] = l[i] + n * Period(i)
    <2>1. \A i \in Windows : LargestTts(r.tts + n * 2^tts_bit)[i] = l[i] + n * Period(i)
      BY <1>7, LargestTtsShift
    <2>2. L \in [Windows -> Int]
      BY <1>6, LargestTtsIs
    <2> QED
      BY <1>7, <2>1, <2>2
  <1> HIDE DEF R, l, L
  <1>10. ASSUME NEW c \in TW_result'
         PROVE  /\ c.twid \in Windows /\ c.FID \in Nat
                /\ \E j \in Indices : R[c.twid][j] # Empty /\ c.FID = R[c.twid][j].FID
                /\ L[c.twid] - 2^k < CellOf(c.twid, c.FID)
    <2>1. PICK i \in Windows :
            c \in Retained(R[i], i, l[i], IF i = 0 THEN r.idx ELSE l[i] % 2^k, wrapping')
      BY <1>5
    <2>2. c \in Retained(R[i], i, l[i], l[i] % 2^k, wrapping')
      BY <1>6, <1>8, <2>1
    <2>3. R[i] \in [Indices -> Cells] /\ l[i] \in Int /\ wrapping' \in Int /\ n \in Nat
      BY <1>1, <1>5, <1>7, <1>8
    <2>4. \A j \in Indices : R[i][j] # Empty =>
            /\ R[i][j].FID \in Nat /\ R[i][j].tts % 2^k = j
            /\ Before(i, CellOf(i, R[i][j].FID), R[i][j].tts, l[i], n)
      BY <1>8
    <2>5. /\ c.twid = i
          /\ \E j \in Indices : R[i][j] # Empty /\ c.FID = R[i][j].FID
          /\ Within(i, CellOf(i, c.FID), c.tts, l[i], n, (c.wrap - wrapping') + n)
      <3> DEFINE w == R[i]
                 x == l[i]
                 v == wrapping'
      <3>1. w \in [Indices -> Cells] /\ x \in Int /\ v \in Int /\ n \in Nat
        BY <2>3
      <3>2. c \in Retained(w, i, x, x % 2^k, v)
        BY <2>2
      <3>3. \A j \in Indices : w[j] # Empty =>
              /\ w[j].FID \in Nat /\ w[j].tts % 2^k = j
              /\ Before(i, CellOf(i, w[j].FID), w[j].tts, x, n)
        BY <2>4
      <3> HIDE DEF w, x, v
      <3>4. /\ c.twid = i
            /\ \E j \in Indices : w[j] # Empty /\ c.FID = w[j].FID
            /\ Within(i, CellOf(i, c.FID), c.tts, x, n, (c.wrap - v) + n)
        BY <3>1, <3>2, <3>3, RetainedOver
      <3> QED
        BY <3>4 DEF w, x, v
    <2>6. c.FID \in Nat
      BY <1>8, <2>5
    <2>7. L[i] - 2^k < CellOf(i, c.FID)
      BY <1>9, <2>5 DEF Within
    <2> QED
      BY <2>5, <2>6, <2>7
  <1> QED
    BY <1>6, <1>9, <1>10 DEF R, f, L, r, TW0

\* A poll of a set whose stamps tell, of a use that outlasts the windows.
LEMMA PollFresh ==
  ASSUME PowersOfTwo, WindowInv, RecordsFollow, Uses, wrapping \in Int,
         Poll, Current, StampsTell, Outlasts
  PROVE  Fresh'
  <1> DEFINE R == tw_r[second_highest]
             f == R[0][LargestCell(R[0]).idx].FID
             C == CellOf(0, f)
             L == LargestTts(C)
  <1>1. /\ used_since' = start /\ second_highest \in Quarters
        /\ start \in Nat /\ used_since \in Nat /\ used_since <= start
    BY DEF Poll, Retire, Uses, WindowInv, WindowTypes
  <1> SUFFICES ASSUME NEW c \in TW_result', ~(c.FID >= start)
               PROVE  FALSE
    BY <1>1 DEF Fresh
  <1> DEFINE i == c.twid
  <1>2. /\ f \in Nat /\ \A j \in Indices : CellOf(0, R[0][j].FID) <= C
        /\ i \in Windows /\ c.FID \in Nat
        /\ \E j \in Indices : R[i][j] # Empty /\ c.FID = R[i][j].FID
        /\ L[i] - 2^k < CellOf(i, c.FID) /\ L \in [Windows -> Int]
    BY StampsRetain
  <1>3. c.FID < used_since
    BY <1>2 DEF Uses
  <1>4. PICK j \in Indices : R[0][j].FID - used_since >= 2^(TrimmedBits(T - 1) + k + 1)
    BY DEF Outlasts
  <1> DEFINE g == R[0][j].FID
             b == 2^TW0_TB
             a == 2^TrimmedBits(i)
             z == 2^TrimmedBits(T - 1)
             K == 2^k
             X == CellOf(i, c.FID)
             q == L[i]
  <1>5. g \in Nat /\ CellOf(0, g) \in Nat /\ CellOf(0, g) <= C /\ C \in Nat
    <2>1. g \in Nat /\ CellOf(0, g) \in Nat
      BY StampsNear
    <2> HIDE DEF f, g
    <2> QED
      BY <1>2, <2>1, Parameters, StampOfCell DEF g
  <1>6. /\ b \in Nat \ {0} /\ a \in Nat \ {0} /\ z \in Nat \ {0} /\ K \in Nat \ {0}
        /\ a <= z /\ g - used_since >= 2 * (K * z)
    <2>1. z \in Nat \ {0}
      <3>1. T - 1 \in Windows
        BY Parameters DEF Windows
      <3> QED
        BY <3>1, WindowSizes
    <2> QED
      BY <1>2, <1>4, <2>1, LastSize, WindowSizes, Sizes
  <1>7. CellOf(0, g) = g \div b /\ X = c.FID \div a
    BY Threshold DEF CellOf
  <1>8. (C + 1) * b - K * a <= (q + 1) * a
    <2> HIDE DEF C
    <2> QED
      BY <1>2, <1>5, WindowsReach DEF C
  <1>9. q \in Int /\ q - K < X
    BY <1>2
  <1> HIDE DEF g, b, a, z, K, X, q, C, L, f, i, R
  <1>10. g < (C + 1) * b
    <2>1. g < ((g \div b) + 1) * b
      BY <1>5, <1>6, DivMod
    <2>2. ((g \div b) + 1) * b <= (C + 1) * b
      BY <1>5, <1>6, <1>7
    <2>3. ((g \div b) + 1) * b \in Int /\ (C + 1) * b \in Int
      BY <1>5, <1>6, <1>7
    <2> QED
      BY <1>5, <2>1, <2>2, <2>3
  <1>11. X * a <= c.FID /\ X \in Int
    <2>1. c.FID \in Int
      BY <1>2
    <2>2. (c.FID \div a) * a <= c.FID /\ (c.FID \div a) \in Int
      BY <1>6, <2>1, DivMod
    <2> QED
      BY <1>7, <2>2
  <1>12. ((q + 1) - K) * a <= X * a
    BY <1>6, <1>9, <1>11
  <1>13. ((q + 1) - K) * a = (q + 1) * a - K * a /\ (q + 1) * a \in Int /\ K * a \in Int
    BY <1>6, <1>9
  <1>14. K * a <= K * z /\ K * z \in Int
    BY <1>6
  <1>15. (C + 1) * b \in Int /\ X * a \in Int
    BY <1>5, <1>6, <1>11
  <1> QED
    BY <1>1, <1>2, <1>3, <1>5, <1>6, <1>8, <1>10, <1>11, <1>12, <1>13, <1>14, <1>15

\* What it rests on, whatever the traffic: the records follow one another from window
\* to window, and each is of this use of its quarter or of one before the last.
UseInv == WindowInv /\ RecordsFollow /\ Uses /\ FirstUse /\ wrapping \in Int

LEMMA NextUseInv ==
  ASSUME PowersOfTwo, UseInv, Current, [Next]_vars
  PROVE  UseInv'
  <1>1. WindowInv' /\ Uses' /\ FirstUse'
    BY NextWindowInv, NextUses DEF UseInv
  <1>2. RecordsFollow'
    <2>1. WindowInv /\ RecordsFollow
      BY DEF UseInv
    <2> QED
      BY <2>1, CurrentIsRecent, NextFollows
  <1>3. wrapping' \in Int
    <2>1. CASE Poll
      <3> DEFINE W == tw_r[second_highest][0]
                 r == LargestCell(W)
                 a == r.wraps = 0 /\ Overflowed(pre_largest_tts, r.tts)
      <3>1. r.wraps \in Nat
        <4>1. W \in [Indices -> Cells]
          BY Parameters DEF UseInv, WindowInv, WindowTypes
        <4>2. PICK scan \in [Indices -> Bests] : LargestCell(W) = scan[2^k - 1]
          <5> HIDE DEF W
          <5> QED
            BY <4>1, LargestCellIs
        <4>3. 2^k - 1 \in Indices
          BY Sizes DEF Indices
        <4> QED
          BY <4>2, <4>3 DEF Bests
      <3>2. \/ wrapping' = wrapping
            \/ wrapping' = wrapping + r.wraps + (IF a THEN 1 ELSE 0)
        BY <2>1 DEF Poll
      <3> HIDE DEF r, a
      <3> QED
        BY <3>1, <3>2 DEF UseInv
    <2>2. CASE ~Poll
      BY <2>2 DEF Next, Traffic, vars, UseInv
    <2> QED
      BY <2>1, <2>2
  <1> QED
    BY <1>1, <1>2, <1>3 DEF UseInv

\* Whatever the traffic, of a port on which no record grows a period old: a set whose
\* stamps tell their cycles, of a use longer than the windows cover, retains no record
\* of an earlier use, though some quarters may have been idle for whole uses.
THEOREM NothingStaleRetained ==
  ASSUME PowersOfTwo
  PROVE  Spec /\ []Current => SetFresh
  <1>1. ControllerInit => UseInv
    BY InitWindowInv, InitFollows, InitUses DEF UseInv, ControllerInit
  <1>2. UseInv /\ Current /\ [Next]_vars => UseInv'
    BY NextUseInv
  <1>3. UseInv /\ [Next]_vars
          => [Poll /\ Current /\ StampsTell /\ Outlasts => Fresh']_vars
    <2> SUFFICES ASSUME UseInv, Poll, Current, StampsTell, Outlasts
                 PROVE  Fresh'
      OBVIOUS
    <2> QED
      BY PollFresh DEF UseInv
  <1> QED
    BY <1>1, <1>2, <1>3, PTL DEF Spec, SetFresh

----------------------------------------------------------------------------
(* Completeness.                                                           *)

\* No packet follows another within a cell of the first window.
Paced ==
  \A i \in Windows, j \in Indices :
    /\ LET c == tw_r[second_highest][i][j]
       IN c # Empty => c.FID + 2^TW0_TB <= now
    /\ LET c == tw_r[1 - second_highest][i][j]
       IN c # Empty => c.FID + 2^TW0_TB <= start

LEMMA NextCellAfter ==
  ASSUME PowersOfTwo, NEW f \in Nat, NEW g \in Nat, f + 2^TW0_TB <= g
  PROVE  CellOf(0, f) < CellOf(0, g)
  <1> DEFINE b == 2^TW0_TB
  <1>1. b \in Nat \ {0} /\ TrimmedBits(0) = TW0_TB
    <2>1. ALPHA * 0 = 0
      BY Parameters
    <2> QED
      BY <2>1, Parameters DEF PowersOfTwo, TrimmedBits
  <1>2. CellOf(0, f) = f \div b /\ CellOf(0, g) = g \div b
    BY <1>1 DEF CellOf
  <1> HIDE DEF b
  <1>3. f = (f \div b) * b + (f % b) /\ f % b < b /\ f % b \in Nat /\ f \div b \in Nat
    BY <1>1, Divided
  <1>4. g = (g \div b) * b + (g % b) /\ g % b < b /\ g % b \in Nat /\ g \div b \in Nat
    BY <1>1, Divided
  <1> DEFINE x == f \div b
             y == g \div b
             r == g % b
             q == f % b
  <1>5. f + b <= g
    BY DEF b
  <1> HIDE DEF x, y, r, q
  <1>6. y <= x => y * b <= x * b
    BY <1>1, <1>3, <1>4 DEF x, y
  <1>7. x * b \in Int /\ y * b \in Int /\ f = x * b + q /\ g = y * b + r
    BY <1>1, <1>3, <1>4 DEF x, y, r, q
  <1>8. q \in Nat /\ r \in Nat /\ r < b /\ x \in Nat /\ y \in Nat
    BY <1>3, <1>4 DEF x, y, r, q
  <1>9. x < y
    BY <1>1, <1>5, <1>6, <1>7, <1>8
  <1> QED
    BY <1>2, <1>9 DEF x, y

LEMMA NextPaced ==
  ASSUME PowersOfTwo, WindowInv, Uses, Paced, [Next]_vars
  PROVE  Paced'
  <1>1. /\ now \in Nat /\ start \in Nat /\ start <= now /\ second_highest \in Quarters
        /\ 1 - second_highest \in Quarters /\ 1 - (1 - second_highest) = second_highest
        /\ 1 - second_highest # second_highest
    BY DEF WindowInv, WindowTypes, Uses, Quarters
  <1>2. 2^TW0_TB \in Nat
    BY Parameters DEF PowersOfTwo
  <1>3. \A q \in Quarters, i \in Windows, j \in Indices :
          tw_r[q][i][j] # Empty => tw_r[q][i][j].FID \in Nat
    BY DEF WindowInv, RecordsGenuine, Genuine
  <1>4. CASE Packet
    <2>1. start' = start /\ second_highest' = second_highest /\ now' = now + 2^TW0_TB
      BY <1>4 DEF Packet
    <2> SUFFICES ASSUME NEW q \in Quarters, NEW i \in Windows, NEW j \in Indices,
                        tw_r'[q][i][j] # Empty
                 PROVE  tw_r'[q][i][j].FID + 2^TW0_TB
                          <= IF q = second_highest THEN now' ELSE start
      BY <1>1, <2>1 DEF Paced
    <2>2. CASE tw_r[q][i][j] # Empty /\ tw_r'[q][i][j].FID = tw_r[q][i][j].FID
      <3>1. q = second_highest \/ q = 1 - second_highest
        BY <1>1 DEF Quarters
      <3>2. tw_r[q][i][j].FID + 2^TW0_TB <= IF q = second_highest THEN now ELSE start
        BY <1>1, <2>2, <3>1 DEF Paced
      <3>3. tw_r[q][i][j].FID \in Nat
        BY <1>3, <2>2
      <3> QED
        BY <1>1, <1>2, <2>1, <2>2, <3>2, <3>3
    <2>3. CASE q = second_highest /\ tw_r'[q][i][j].FID = now
      BY <1>1, <1>2, <2>1, <2>3
    <2>4. CASE /\ q = second_highest
               /\ \E h \in Windows, n \in Indices :
                    /\ tw_r[q][h][n] # Empty
                    /\ tw_r'[q][i][j].FID = tw_r[q][h][n].FID
      <3>1. PICK h \in Windows, n \in Indices :
              tw_r[q][h][n] # Empty /\ tw_r'[q][i][j].FID = tw_r[q][h][n].FID
        BY <2>4
      <3>2. tw_r[q][h][n].FID \in Nat /\ tw_r[q][h][n].FID + 2^TW0_TB <= now
        BY <1>3, <2>4, <3>1 DEF Paced
      <3> QED
        BY <1>1, <1>2, <2>1, <2>4, <3>1, <3>2
    <2> QED
      BY <1>4, <2>2, <2>3, <2>4, PacketBrings
  <1>5. CASE Silence
    <2>1. PICK d \in Spells : now' = now + d
      BY <1>5 DEF Silence
    <2>2. d \in Nat /\ UNCHANGED <<start, tw_r, second_highest>>
      BY <1>5, WindowsAssumption DEF Silence
    <2> SUFFICES ASSUME NEW i \in Windows, NEW j \in Indices,
                        tw_r[second_highest][i][j] # Empty
                 PROVE  tw_r[second_highest][i][j].FID + 2^TW0_TB <= now'
      BY <2>2 DEF Paced
    <2>3. /\ tw_r[second_highest][i][j].FID \in Nat
          /\ tw_r[second_highest][i][j].FID + 2^TW0_TB <= now
      BY <1>1, <1>3 DEF Paced
    <2> QED
      BY <1>1, <1>2, <2>1, <2>2, <2>3
  <1>6. CASE Poll
    <2>1. /\ start' = now /\ now' = now /\ tw_r' = tw_r
          /\ second_highest' = 1 - second_highest
      BY <1>6 DEF Poll, Retire
    <2> SUFFICES ASSUME NEW i \in Windows, NEW j \in Indices,
                        tw_r[1 - second_highest][i][j] # Empty
                 PROVE  tw_r[1 - second_highest][i][j].FID + 2^TW0_TB <= now
      BY <1>1, <2>1 DEF Paced
    <2>2. /\ tw_r[1 - second_highest][i][j].FID \in Nat
          /\ tw_r[1 - second_highest][i][j].FID + 2^TW0_TB <= start
      BY <1>1, <1>3 DEF Paced
    <2> QED
      BY <1>1, <1>2, <2>2
  <1>7. CASE UNCHANGED vars
    BY <1>7 DEF vars, windowVars, Paced
  <1> QED
    BY <1>4, <1>5, <1>6, <1>7 DEF Next, Traffic

\* The index of a cell is that of its stamp: the period is a multiple of the cells.
LEMMA SameIndex ==
  ASSUME PowersOfTwo, NEW i \in Windows, NEW X \in Int
  PROVE  (X % Period(i)) % 2^k = X % 2^k
  <1> DEFINE p == Period(i)
             K == 2^k
             d == X \div p
  <1>1. PICK m \in Nat : p = K * m
    BY Cycles DEF Period
  <1>2. p \in Nat \ {0} /\ K \in Nat \ {0}
    BY Periods, Sizes
  <1> HIDE DEF p, K
  <1>3. d \in Int /\ X % p = X - d * p
    BY <1>2, DivMod
  <1> HIDE DEF d
  <1>4. X % p = X + (-(d * m)) * K /\ -(d * m) \in Int
    <2>1. d * p = (d * m) * K /\ d * m \in Int
      BY <1>1, <1>2, <1>3
    <2>2. (-(d * m)) * K = -((d * m) * K) /\ (d * m) * K \in Int
      BY <1>2, <2>1
    <2> QED
      BY <1>2, <1>3, <2>1, <2>2
  <1>5. (X + (-(d * m)) * K) % K = X % K
    BY <1>2, <1>4, DivShift
  <1> QED
    BY <1>4, <1>5 DEF p, K

\* A quotient grows by at most one when its dividend does, and only to an exact one.
LEMMA DivStep ==
  ASSUME NEW a \in Int, NEW b \in Nat \ {0}
  PROVE  \/ a \div b = (a - 1) \div b
         \/ a \div b = (a - 1) \div b + 1 /\ a = (a \div b) * b
  <1> DEFINE q == a \div b
             r == (a - 1) \div b
  <1>1. q \in Int /\ q * b <= a /\ a < (q + 1) * b
    BY DivMod
  <1>2. r \in Int /\ r * b <= a - 1 /\ a - 1 < (r + 1) * b
    <2>1. a - 1 \in Int
      OBVIOUS
    <2> QED
      BY <2>1, DivMod
  <1> HIDE DEF q, r
  <1>3. q * b \in Int /\ r * b \in Int
    BY <1>1, <1>2
  <1>4. (q + 1) * b = q * b + b /\ (r + 1) * b = r * b + b
    BY <1>1, <1>2
  <1>5. q >= r
    <2>1. CASE q < r
      <3>1. (q + 1) * b <= r * b
        BY <1>1, <1>2, <2>1
      <3> QED
        BY <1>1, <1>2, <1>3, <1>4, <3>1
    <2> QED
      BY <1>1, <1>2, <2>1
  <1>6. CASE q > r
    <2>1. (r + 1) * b <= q * b
      BY <1>1, <1>2, <1>6
    <2>2. a = q * b /\ (r + 1) * b = q * b
      BY <1>1, <1>2, <1>3, <1>4, <2>1
    <2>3. q = r + 1
      <3>1. CASE q > r + 1
        <4>1. (r + 2) * b <= q * b /\ (r + 2) * b = (r + 1) * b + b
          BY <1>1, <1>2, <3>1
        <4> QED
          BY <1>3, <1>4, <2>2, <4>1
      <3> QED
        BY <1>1, <1>2, <1>6, <3>1
    <2> QED
      BY <2>2, <2>3 DEF q, r
  <1> QED
    BY <1>1, <1>2, <1>5, <1>6 DEF q, r

\* What a window can hold at the latest is behind what the first one holds.
LEMMA ReachedBehind ==
  ASSUME PowersOfTwo, NEW x \in Int
  PROVE  \A i \in Windows : /\ LargestTts(x)[i] \in Int
                            /\ LargestTts(x)[i] * 2^TrimmedBits(i) <= x * 2^TW0_TB
  <1> DEFINE N == T - 1
             K == 2^k
             A == 2^ALPHA
             u == 2^TW0_TB
             L == LargestTts(x)
             S == {i \in 0 .. N : L[i] * 2^TrimmedBits(i) <= x * u}
  <1>1. N \in Nat /\ Windows = 0 .. N /\ 0 \in Windows
    BY Parameters DEF Windows
  <1>2. K \in Nat \ {0} /\ A \in Nat \ {0} /\ u \in Nat \ {0} /\ TrimmedBits(0) = TW0_TB
    BY Sizes, Threshold
  <1>3. /\ L \in [Windows -> Int] /\ L[0] = x
        /\ \A i \in Windows : i # 0 => i - 1 \in Windows /\ L[i] = (L[i - 1] - K) \div A
    BY LargestTtsIs
  <1>4. \A i \in Windows : 2^TrimmedBits(i) \in Nat \ {0}
    BY WindowSizes
  <1> HIDE DEF L, K, A
  <1>5. 0 \in S
    BY <1>1, <1>2, <1>3
  <1>6. ASSUME NEW i \in 1 .. N, i - 1 \in S
        PROVE  i \in S
    <2> DEFINE g == i - 1
               a == 2^TrimmedBits(g)
               b == 2^TrimmedBits(i)
    <2>1. i \in Windows /\ i # 0 /\ g \in Windows /\ g + 1 = i
      BY <1>1
    <2>2. L[i] = (L[g] - K) \div A /\ L[g] * a <= x * u /\ L[g] \in Int /\ L[i] \in Int
      BY <1>3, <1>6, <2>1
    <2>3. b = a * A /\ a \in Nat \ {0}
      <3> HIDE DEF g
      <3> QED
        BY <1>4, <2>1, NextSize DEF A
    <2> HIDE DEF g, a, b, u
    <2>4. L[i] * A <= L[g] - K
      <3>1. L[g] - K \in Int
        BY <1>2, <2>2
      <3> QED
        BY <1>2, <2>2, <3>1, DivMod
    <2>5. L[i] * b = (L[i] * A) * a /\ L[i] * A \in Int
      BY <1>2, <2>2, <2>3
    <2>6. (L[i] * A) * a <= (L[g] - K) * a /\ (L[g] - K) * a <= L[g] * a
      BY <1>2, <2>2, <2>3, <2>4, <2>5
    <2>7. (L[i] * A) * a \in Int /\ (L[g] - K) * a \in Int /\ L[g] * a \in Int /\ x * u \in Int
      BY <1>2, <2>2, <2>3, <2>5
    <2>8. L[i] * b <= x * u
      BY <2>2, <2>5, <2>6, <2>7
    <2> QED
      BY <1>6, <2>8 DEF b
  <1>7. \A i \in 0 .. N : i \in S
    <2> HIDE DEF S, N
    <2> QED
      BY <1>1, <1>5, <1>6, InductionUpTo
  <1> QED
    BY <1>1, <1>3, <1>7 DEF L

\* A packet later, a window can hold the same cell or the next; the next one only if
\* the window before can, and only from the first of its cells that make one up.
LEMMA ReachedNext ==
  ASSUME PowersOfTwo, NEW x \in Int
  PROVE  LET L == LargestTts(x)
             M == LargestTts(x - 1) IN
         \A i \in Windows :
           /\ L[i] = M[i] \/ L[i] = M[i] + 1
           /\ i # 0 /\ L[i] # M[i] => /\ L[i - 1] = M[i - 1] + 1
                                      /\ L[i - 1] - 2^k = L[i] * 2^ALPHA
  <1> DEFINE N == T - 1
             K == 2^k
             A == 2^ALPHA
             L == LargestTts(x)
             M == LargestTts(x - 1)
             Next1(i) == L[i] = M[i] \/ L[i] = M[i] + 1
             S == {i \in 0 .. N : Next1(i)}
  <1>1. N \in Nat /\ Windows = 0 .. N /\ 0 \in Windows
    BY Parameters DEF Windows
  <1>2. K \in Nat \ {0} /\ A \in Nat \ {0}
    BY Sizes
  <1>3. /\ L \in [Windows -> Int] /\ L[0] = x
        /\ \A i \in Windows : i # 0 => i - 1 \in Windows /\ L[i] = (L[i - 1] - K) \div A
    BY LargestTtsIs
  <1>4. /\ M \in [Windows -> Int] /\ M[0] = x - 1
        /\ \A i \in Windows : i # 0 => i - 1 \in Windows /\ M[i] = (M[i - 1] - K) \div A
    <2>1. x - 1 \in Int
      OBVIOUS
    <2> QED
      BY <2>1, LargestTtsIs
  <1> HIDE DEF L, M, K, A
  <1>5. 0 \in S
    BY <1>1, <1>3, <1>4
  <1>6. ASSUME NEW i \in Windows, i # 0, Next1(i - 1)
        PROVE  /\ Next1(i)
               /\ L[i] # M[i] => L[i - 1] = M[i - 1] + 1 /\ L[i - 1] - K = L[i] * A
    <2>1. /\ i - 1 \in Windows /\ L[i] = (L[i - 1] - K) \div A
          /\ M[i] = (M[i - 1] - K) \div A /\ L[i - 1] \in Int /\ M[i - 1] \in Int
      BY <1>3, <1>4, <1>6
    <2>2. CASE L[i - 1] = M[i - 1]
      BY <2>1, <2>2
    <2>3. CASE L[i - 1] = M[i - 1] + 1
      <3>1. L[i - 1] - K \in Int /\ (L[i - 1] - K) - 1 = M[i - 1] - K
        BY <1>2, <2>1, <2>3
      <3> QED
        BY <1>2, <2>1, <2>3, <3>1, DivStep
    <2> QED
      BY <1>6, <2>2, <2>3
  <1>7. \A i \in 0 .. N : i \in S
    <2>1. ASSUME NEW i \in 1 .. N, i - 1 \in S
          PROVE  i \in S
      BY <1>1, <1>6, <2>1
    <2> HIDE DEF S, N
    <2> QED
      BY <1>1, <1>5, <2>1, InductionUpTo
  <1>8. \A i \in Windows : i # 0 => Next1(i - 1)
    BY <1>1, <1>3, <1>7
  <1> QED
    BY <1>1, <1>6, <1>7, <1>8 DEF L, M, K, A

\* Whatever enters a window is of the cell that the window can hold at the latest.
LEMMA EnteringIsReached ==
  ASSUME PowersOfTwo, WindowInv, RecordsFollow, Recent, Packet
  PROVE  LET E == Entering(tw_r[second_highest], Record(now))
             L == LargestTts(CellOf(0, now)) IN
         \A i \in Windows : E[i] # Empty => CellOf(i, E[i].FID) = L[i]
  <1> DEFINE N == T - 1
             K == 2^k
             E == Entering(tw_r[second_highest], Record(now))
             L == LargestTts(CellOf(0, now))
             S == {i \in 0 .. N : E[i] # Empty => CellOf(i, E[i].FID) = L[i]}
  <1>1. N \in Nat /\ Windows = 0 .. N /\ 0 \in Windows
    BY Parameters DEF Windows
  <1>2. now \in Nat /\ E[0] = Record(now) /\ E[0].FID = now
    BY PacketWrites DEF Record
  <1>3. CellOf(0, now) \in Nat /\ K \in Nat
    BY <1>1, <1>2, StampOfCell, Sizes
  <1>4. /\ L \in [Windows -> Int] /\ L[0] = CellOf(0, now)
        /\ \A i \in Windows : i # 0 => i - 1 \in Windows /\ L[i] = (L[i - 1] - K) \div 2^ALPHA
    BY <1>3, LargestTtsIs
  <1>5. \A i \in Windows : E[i] # Empty =>
          /\ E[i].FID \in Nat
          /\ i # 0 => /\ E[i - 1] # Empty
                      /\ CellOf(i - 1, E[i - 1].FID) = CellOf(i - 1, E[i].FID) + K
    <2>1. \A i \in Windows : E[i] # Empty => E[i].FID \in Nat
      BY PacketWrites, EnteringGenuine DEF Genuine
    <2> QED
      BY <2>1, EnteringFollows
  <1> HIDE DEF E, L, K
  <1>6. 0 \in S
    BY <1>1, <1>2, <1>4
  <1>7. ASSUME NEW i \in 1 .. N, i - 1 \in S
        PROVE  i \in S
    <2> SUFFICES ASSUME E[i] # Empty
                 PROVE  CellOf(i, E[i].FID) = L[i]
      OBVIOUS
    <2> DEFINE g == i - 1
    <2>1. i \in Windows /\ i # 0 /\ g \in Windows /\ g + 1 = i /\ g + 1 \in Windows
      BY <1>1
    <2>2. /\ E[i].FID \in Nat /\ E[g].FID \in Nat /\ L[g] \in Int
          /\ CellOf(g, E[g].FID) = CellOf(g, E[i].FID) + K /\ CellOf(g, E[g].FID) = L[g]
          /\ L[i] = (L[g] - K) \div 2^ALPHA
      BY <1>4, <1>5, <1>7, <2>1
    <2>3. CellOf(g, E[i].FID) \in Nat
      BY <2>1, <2>2, StampOfCell
    <2>4. CellOf(i, E[i].FID) = CellOf(g, E[i].FID) \div 2^ALPHA
      <3> HIDE DEF g
      <3> QED
        BY <2>1, <2>2, NextCell
    <2>5. CellOf(g, E[i].FID) = L[g] - K
      BY <1>3, <2>2, <2>3
    <2> QED
      BY <2>2, <2>4, <2>5
  <1>8. \A i \in 0 .. N : i \in S
    <2> HIDE DEF S, N
    <2> QED
      BY <1>1, <1>6, <1>7, InductionUpTo
  <1> QED
    BY <1>1, <1>8 DEF E, L

\* The port has not fallen silent since the use of the quarter began.
NoSilence == \A s \in silences : s < start

\* The record of cell X is in its place in window i.
Recorded(i, X) ==
  LET c == tw_r[second_highest][i][X % 2^k] IN c # Empty /\ CellOf(i, c.FID) = X

\* The latest cells that each window can hold.
Reached == LargestTts(CellOf(0, now) - 1)

\* As long as packets come one after another, the first window holds all its latest
\* cells, and as long as the stamps do not overflow, so does each other window.
DenseInv ==
  NoSilence =>
    /\ \A X \in Reached[0] - 2^k + 1 .. Reached[0] : X >= CellOf(0, start) => Recorded(0, X)
    /\ start \div 2^TsBits = now \div 2^TsBits =>
         \A i \in Windows : \A X \in Reached[i] - 2^k + 1 .. Reached[i] :
           X * 2^TrimmedBits(i) >= start => Recorded(i, X)

\* The quarter's use did not begin at the very moment the stamps overflow: a record
\* with the time stamp zero is taken for none and not passed on.
NotAtZero == start % 2^TsBits # 0

\* Of two cells of one use without an overflow, a cycle apart, the stamps tell that
\* they are, and that the earlier is one.
LEMMA PassedInUse ==
  ASSUME PowersOfTwo, NEW g \in Windows, NEW X \in Int, NEW s \in Nat, NEW t \in Nat,
         s \div 2^TsBits = t \div 2^TsBits, s % 2^TsBits # 0,
         (X - 2^k) * 2^TrimmedBits(g) >= s, X * 2^TrimmedBits(g) <= t
  PROVE  /\ ((X % Period(g)) - 2^k) % 2^TsBits = (X - 2^k) % Period(g)
         /\ (X - 2^k) % Period(g) # 0
  <1> DEFINE a == 2^TrimmedBits(g)
             p == Period(g)
             P == 2^TsBits
             K == 2^k
             b == s \div P
             Y == X - K
  <1>1. a \in Nat \ {0} /\ p \in Nat \ {0} /\ P = a * p /\ P \in Nat \ {0} /\ K \in Nat \ {0}
    BY WindowSizes, Sizes DEF Period
  <1>2. b \in Nat /\ b * P <= s /\ s # b * P /\ t < (b + 1) * P
    <2>1. b = t \div P /\ s % P # 0
      OBVIOUS
    <2>0. P \in Nat \ {0}
      BY <1>1
    <2> HIDE DEF P, b
    <2>2. (s \div P) \in Nat /\ (s % P) \in Nat /\ s = (s \div P) * P + (s % P)
      BY <2>0, Divided
    <2>3. t < (t \div P + 1) * P
      BY <2>0, DivMod
    <2>6. b = s \div P
      BY DEF b
    <2>4. b * P \in Int
      BY <2>0, <2>2, <2>6
    <2>5. t < (b + 1) * P
      BY <2>1, <2>3
    <2> QED
      BY <2>1, <2>2, <2>4, <2>5, <2>6
  <1>3. Y * a >= s /\ X * a <= t /\ Y \in Int /\ X = Y + K
    BY <1>1
  <1> HIDE DEF a, p, P, K, b, Y
  <1>4. (b * p) * a <= s /\ s # (b * p) * a /\ t < (b * p + p) * a /\ b * p \in Int
    <2>1. b * P = (b * p) * a /\ (b + 1) * P = (b * p + p) * a
      BY <1>1, <1>2
    <2> QED
      BY <1>1, <1>2, <2>1
  <1> DEFINE B == b * p
  <1>5. B * a <= s /\ s # B * a /\ t < (B + p) * a /\ B \in Int
    BY <1>4
  <1> HIDE DEF B
  <1>6. Y > B
    <2>1. CASE Y <= B
      <3>1. Y * a <= B * a /\ Y * a \in Int /\ B * a \in Int
        BY <1>1, <1>3, <1>5, <2>1
      <3> QED
        BY <1>3, <1>5, <3>1
    <2> QED
      BY <1>3, <1>5, <2>1
  <1>7. X < B + p
    <2>1. CASE X >= B + p
      <3>1. X * a >= (B + p) * a /\ X * a \in Int /\ (B + p) * a \in Int
        BY <1>1, <1>3, <1>5, <2>1
      <3> QED
        BY <1>3, <1>5, <3>1
    <2> QED
      BY <1>1, <1>3, <1>5, <2>1
  <1>14. b * p = B /\ (b + 1) * p = B + p
    BY <1>1, <1>2 DEF B
  <1>15. B = b * p
    BY DEF B
  <1>8. X % p = X - B
    <2>1. b * p <= X /\ X < (b + 1) * p
      BY <1>1, <1>3, <1>5, <1>6, <1>7, <1>14
    <2>3. p \in Nat \ {0} /\ b \in Int /\ X \in Int
      BY <1>1, <1>2, <1>3
    <2>2. X \div p = b /\ X % p = X - b * p
      BY <2>1, <2>3, DivIs
    <2> QED
      BY <1>15, <2>2
  <1>9. Y % p = Y - B
    <2>1. b * p <= Y /\ Y < (b + 1) * p
      BY <1>1, <1>3, <1>5, <1>6, <1>7, <1>14
    <2>3. p \in Nat \ {0} /\ b \in Int /\ Y \in Int
      BY <1>1, <1>2, <1>3
    <2>2. Y \div p = b /\ Y % p = Y - b * p
      BY <2>1, <2>3, DivIs
    <2> QED
      BY <1>15, <2>2
  <1>10. (Y - B) % P = Y - B
    <2>1. Y - B \in Nat /\ Y - B < p
      BY <1>1, <1>3, <1>5, <1>6, <1>7
    <2>2. p <= a * p
      BY <1>1
    <2>3. Y - B < P
      BY <1>1, <1>3, <1>5, <2>1, <2>2
    <2> QED
      BY <1>1, <2>1, <2>3, ModSmall
  <1>11. (X % p) - K = Y - B
    BY <1>1, <1>3, <1>5, <1>8
  <1>12. Y - B # 0
    BY <1>3, <1>5, <1>6
  <1>13. ((X % p) - K) % P = Y % p /\ Y % p # 0
    BY <1>9, <1>10, <1>11, <1>12
  <1> QED
    BY <1>13 DEF p, K, P, Y

\* In a use without a silence or an overflow, each window is entered by a record of
\* the next cell it can hold, as soon as it can.
LEMMA EntersReached ==
  ASSUME PowersOfTwo, WindowInv, RecordsFollow, Recent, Packet, DenseInv, NoSilence,
         start \in Nat, start \div 2^TsBits = now \div 2^TsBits, NotAtZero
  PROVE  LET E == Entering(tw_r[second_highest], Record(now))
             L == LargestTts(CellOf(0, now)) IN
         \A i \in Windows : L[i] # Reached[i] /\ L[i] * 2^TrimmedBits(i) >= start
                              => E[i] # Empty
  <1> DEFINE N == T - 1
             K == 2^k
             W == tw_r[second_highest]
             E == Entering(W, Record(now))
             x == CellOf(0, now)
             L == LargestTts(x)
             M == Reached
             Enters(i) == L[i] # M[i] /\ L[i] * 2^TrimmedBits(i) >= start => E[i] # Empty
             S == {i \in 0 .. N : Enters(i)}
  <1>1. N \in Nat /\ Windows = 0 .. N /\ 0 \in Windows
    BY Parameters DEF Windows
  <1>2. /\ now \in Nat /\ E[0] # Empty /\ W \in [Windows -> [Indices -> Cells]]
        /\ E \in [Windows -> Cells]
        /\ \A i \in Windows : i # 0 => i - 1 \in Windows /\ E[i] = Moved(W[i - 1], E[i - 1])
    BY PacketWrites
  <1>3. x \in Nat /\ K \in Nat \ {0} /\ 2^ALPHA \in Nat \ {0}
    BY <1>1, <1>2, StampOfCell, Sizes
  <1>4. \A i \in Windows : /\ L[i] \in Int
                           /\ L[i] * 2^TrimmedBits(i) <= now
    <2> SUFFICES ASSUME NEW i \in Windows
                 PROVE  L[i] \in Int /\ L[i] * 2^TrimmedBits(i) <= now
      OBVIOUS
    <2>1. L[i] \in Int /\ L[i] * 2^TrimmedBits(i) <= x * 2^TW0_TB
      BY <1>3, ReachedBehind
    <2>2. x * 2^TW0_TB <= now
      <3>1. x = now \div 2^TW0_TB /\ 2^TW0_TB \in Nat \ {0}
        BY Threshold, Sizes DEF CellOf
      <3>2. now = (now \div 2^TW0_TB) * 2^TW0_TB + (now % 2^TW0_TB)
            /\ (now % 2^TW0_TB) \in Nat
        BY <1>2, <3>1, Divided
      <3> HIDE DEF x
      <3>3. x * 2^TW0_TB \in Int
        BY <1>3, <3>1
      <3>4. now = x * 2^TW0_TB + (now % 2^TW0_TB)
        BY <3>1, <3>2
      <3> QED
        BY <1>2, <3>2, <3>3, <3>4
    <2>3. x * 2^TW0_TB \in Int /\ L[i] * 2^TrimmedBits(i) \in Int
      <3>1. 2^TW0_TB \in Nat /\ 2^TrimmedBits(i) \in Nat
        BY Sizes, WindowSizes
      <3> HIDE DEF x, L
      <3> QED
        BY <1>3, <2>1, <3>1
    <2> HIDE DEF x, L
    <2> QED
      BY <1>2, <2>1, <2>2, <2>3
  <1>5. \A i \in Windows : E[i] # Empty => CellOf(i, E[i].FID) = L[i] /\ Genuine(i, E[i], now + 1)
    BY EnteringIsReached, EnteringGenuine, PacketWrites
  <1>6. \A i \in Windows :
           /\ M[i] \in Int
           /\ L[i] = M[i] \/ L[i] = M[i] + 1
           /\ i # 0 /\ L[i] # M[i] => /\ L[i - 1] = M[i - 1] + 1
                                      /\ L[i - 1] - K = L[i] * 2^ALPHA
    <2>1. x - 1 \in Int
      BY <1>3
    <2> QED
      BY <1>3, <2>1, ReachedNext, ReachedBehind DEF Reached
  <1>7. \A i \in Windows : \A X \in M[i] - K + 1 .. M[i] :
          X * 2^TrimmedBits(i) >= start => Recorded(i, X)
    BY DEF DenseInv
  <1> HIDE DEF E, L, M, x, N
  <1>8. 0 \in S
    BY <1>1, <1>2
  <1>9. ASSUME NEW i \in 1 .. N, i - 1 \in S
        PROVE  i \in S
    <2> SUFFICES ASSUME L[i] # M[i], L[i] * 2^TrimmedBits(i) >= start
                 PROVE  E[i] # Empty
      OBVIOUS
    <2> DEFINE g == i - 1
               a == 2^TrimmedBits(g)
               X == L[g]
               e == E[g]
               old == W[g][e.tts % K]
    <2>1. i \in Windows /\ i # 0 /\ g \in Windows /\ g + 1 = i /\ g + 1 \in Windows
      BY <1>1
    <2>2. /\ X \in Int /\ X * a <= now /\ X = M[g] + 1 /\ M[g] \in Int
          /\ X - K = L[i] * 2^ALPHA /\ L[i] \in Int /\ Enters(g)
      BY <1>4, <1>6, <1>9, <2>1
    <2>3. a \in Nat \ {0} /\ 2^TrimmedBits(i) = a * 2^ALPHA
      <3> HIDE DEF g
      <3> QED
        BY <2>1, WindowSizes, NextSize
    <2>4. (X - K) * a >= start /\ X * a >= start
      <3> HIDE DEF X, a, K
      <3>1. (X - K) * a = L[i] * (a * 2^ALPHA)
        BY <1>3, <2>2, <2>3
      <3>2. (X - K) * a <= X * a /\ (X - K) * a \in Int /\ X * a \in Int
        BY <1>3, <2>2, <2>3
      <3> QED
        BY <2>3, <3>1, <3>2
    <2>5. e # Empty /\ CellOf(g, e.FID) = X /\ Genuine(g, e, now + 1) /\ e \in Cells
      <3>1. L[g] # M[g]
        BY <2>2
      <3> QED
        BY <1>2, <1>5, <2>1, <2>2, <2>4, <3>1
    <2>6. Recorded(g, X - K)
      <3>1. X - K \in M[g] - K + 1 .. M[g]
        BY <1>3, <2>2
      <3> QED
        BY <1>7, <2>1, <2>4, <3>1
    <2>7. e.tts = X % Period(g) /\ e.tts \in Nat /\ e.tts % K = (X - K) % K
      <3>1. e.FID \in Nat /\ e.tts = Stamped(g, e.FID)
        BY <2>5 DEF Genuine
      <3>2. e.tts = X % Period(g) /\ e.tts \in Nat
        BY <2>1, <2>5, <3>1, StampOfCell DEF Period
      <3>3. (X % Period(g)) % K = X % K
        BY <2>1, <2>2, SameIndex
      <3>4. X % K = (X - K) % K
        <4> HIDE DEF X, K
        <4>1. PICK c \in Int : c = -1
          OBVIOUS
        <4>2. X \in Int /\ K \in Nat \ {0}
          BY <1>3, <2>2
        <4>3. (X + c * K) % K = X % K
          BY <4>2, DivShift
        <4>4. X + c * K = X - K
          BY <4>1, <4>2
        <4> QED
          BY <4>3, <4>4
      <3> HIDE DEF X, e, K
      <3> QED
        BY <3>2, <3>3, <3>4
    <2>8. old # Empty /\ CellOf(g, old.FID) = X - K /\ Genuine(g, old, now)
      <3>1. old # Empty /\ CellOf(g, old.FID) = X - K
        BY <2>6, <2>7 DEF Recorded
      <3>2. e.tts % K \in Indices
        <4> HIDE DEF e, K
        <4>1. (e.tts % K) \in Nat /\ e.tts % K < K
          BY <1>3, <2>7, Divided
        <4> QED
          BY <1>3, <4>1 DEF Indices, K
      <3> QED
        BY <2>1, <3>1, <3>2 DEF WindowInv, WindowTypes, RecordsGenuine
    <2>9. old.tts = (X - K) % Period(g)
      BY <2>1, <2>8, StampOfCell DEF Genuine, Period
    <2>10. /\ ((X % Period(g)) - K) % 2^TsBits = (X - K) % Period(g)
           /\ (X - K) % Period(g) # 0
      <3> HIDE DEF g, X
      <3> QED
        BY <1>2, <2>1, <2>2, <2>4, PassedInUse DEF NotAtZero
    <2>11. Passes(e, old)
      BY <2>7, <2>9, <2>10 DEF Passes
    <2>12. E[i] = NextRecord(old)
      BY <1>2, <2>1, <2>5, <2>11 DEF Moved
    <2>13. NextRecord(old).FID \in Nat
      BY <2>8 DEF NextRecord, Genuine
    <2> QED
      BY <2>12, <2>13 DEF Empty, NoFID
  <1>10. \A i \in 0 .. N : i \in S
    <2> HIDE DEF S
    <2> QED
      BY <1>1, <1>8, <1>9, InductionUpTo
  <1> QED
    BY <1>1, <1>10 DEF E, L, M, x

\* Of the latest cells of a window, no two have one index.
LEMMA OneIndex ==
  ASSUME NEW m \in Nat \ {0}, NEW X \in Int, NEW L \in Int, L - m < X, X <= L,
         X % m = L % m
  PROVE  X = L
  <1> DEFINE p == X \div m
             q == L \div m
             r == X % m
  <1>1. p \in Int /\ r \in Int /\ X = p * m + r
    <2>1. (X \div m) \in Int /\ X % m = X - (X \div m) * m
      BY DivMod
    <2> HIDE DEF p, r
    <2>2. p * m \in Int /\ r = X - p * m /\ p \in Int
      BY <2>1 DEF p, r
    <2> QED
      BY <2>2
  <1>2. q \in Int /\ L = q * m + r
    <2>1. (L \div m) \in Int /\ L % m = L - (L \div m) * m
      BY DivMod
    <2> HIDE DEF q, r
    <2>2. q * m \in Int /\ r = L - q * m /\ q \in Int
      BY <2>1 DEF q, r
    <2> QED
      BY <2>2
  <1> HIDE DEF p, q, r
  <1>3. L - X = (q - p) * m
    BY <1>1, <1>2
  <1>4. CASE q > p
    <2>1. (q - p) * m >= 1 * m
      BY <1>1, <1>2, <1>4
    <2> QED
      BY <1>3, <2>1
  <1>5. CASE q < p
    <2>1. (q - p) * m <= (-1) * m
      BY <1>1, <1>2, <1>5
    <2> QED
      BY <1>3, <2>1
  <1> QED
    BY <1>1, <1>2, <1>4, <1>5

\* The latest cells of a window, up to m, are in their places as far as they are of S.
LatestIn(i, window, m, S) ==
  \A Y \in m - 2^k + 1 .. m : Y \in S =>
    window[Y % 2^k] # Empty /\ CellOf(i, window[Y % 2^k].FID) = Y

EnteredBy(window, old, e) ==
  \A j \in Indices : window[j] = IF e # Empty /\ e.tts % 2^k = j THEN e ELSE old[j]

\* A window that holds the latest cells still does when the next one enters.
LEMMA WindowKeeps ==
  ASSUME PowersOfTwo, NEW i \in Windows, NEW M \in Int, NEW L \in Int,
         L = M \/ L = M + 1, NEW S, NEW W, NEW V, NEW e,
         e # Empty => CellOf(i, e.FID) = L /\ e.tts % 2^k = L % 2^k,
         EnteredBy(V, W, e), LatestIn(i, W, M, S), L # M /\ L \in S => e # Empty
  PROVE  LatestIn(i, V, L, S)
  <1> SUFFICES ASSUME NEW X \in L - 2^k + 1 .. L, X \in S
               PROVE  V[X % 2^k] # Empty /\ CellOf(i, V[X % 2^k].FID) = X
    BY DEF LatestIn
  <1> DEFINE K == 2^k
  <1>1. K \in Nat \ {0} /\ X \in Int /\ L - K < X /\ X <= L
    BY Sizes
  <1>2. X % K \in Indices
    <2> HIDE DEF K
    <2>1. X % K \in 0 .. K - 1
      BY <1>1, DivMod
    <2> QED
      BY <2>1 DEF Indices, K
  <1>6. \A j \in Indices : V[j] = IF e # Empty /\ e.tts % K = j THEN e ELSE W[j]
    BY DEF EnteredBy
  <1>3. CASE X = L /\ e # Empty
    BY <1>2, <1>3, <1>6
  <1>4. CASE X = L /\ e = Empty
    <2>1. L = M
      BY <1>4
    <2>2. X \in M - K + 1 .. M
      BY <1>1, <1>4, <2>1
    <2> QED
      BY <1>2, <1>4, <1>6, <2>2 DEF LatestIn
  <1>5. CASE X # L
    <2>1. X \in M - K + 1 .. M
      BY <1>1, <1>5
    <2>2. ~(e # Empty /\ e.tts % K = X % K)
      <3>1. X % K # L % K
        <4> HIDE DEF K
        <4> QED
          BY <1>1, <1>5, OneIndex
      <3> QED
        BY <3>1
    <2>3. V[X % K] = W[X % K]
      BY <1>2, <1>6, <2>2
    <2> QED
      BY <2>1, <2>3 DEF LatestIn
  <1> QED
    BY <1>3, <1>4, <1>5

LEMMA PacketDense ==
  ASSUME PowersOfTwo, WindowInv, RecordsFollow, Recent, Packet, DenseInv, NotAtZero,
         start \in Nat, start <= now
  PROVE  DenseInv'
  <1> DEFINE W == tw_r[second_highest]
             E == Entering(W, Record(now))
             x == CellOf(0, now)
             L == LargestTts(x)
             M == Reached
             u == 2^TW0_TB
             P == 2^TsBits
  <1>1. /\ now \in Nat /\ E[0] # Empty /\ second_highest \in Quarters
        /\ second_highest' = second_highest /\ start' = start /\ silences' = silences
        /\ now' = now + u
    BY PacketWrites DEF WindowInv, WindowTypes, Packet
  <1>2. /\ E \in [Windows -> Cells] /\ 0 \in Windows
        /\ \A i \in Windows, j \in Indices :
             tw_r'[second_highest][i][j]
               = IF E[i] # Empty /\ E[i].tts % 2^k = j THEN E[i] ELSE W[i][j]
    BY PacketWrites, Parameters, <1>1
  <1>3. u \in Nat \ {0} /\ P \in Nat \ {0} /\ 2^k \in Nat \ {0} /\ x \in Nat
    BY <1>1, <1>2, Sizes, StampOfCell
  <1>4. CellOf(0, now') = x + 1
    <2>1. \A f : CellOf(0, f) = f \div u
      BY Threshold DEF CellOf
    <2> HIDE DEF u
    <2>2. PICK c \in Int : c = 1
      OBVIOUS
    <2>5. now \in Int /\ u \in Nat \ {0}
      BY <1>1, <1>3
    <2>3. (now + c * u) \div u = now \div u + c
      BY <2>5, DivShift
    <2>4. now + c * u = now + u
      BY <1>1, <1>3, <2>2
    <2> QED
      BY <1>1, <2>1, <2>2, <2>3, <2>4
  <1>5. Reached' = L
    <2>1. (x + 1) - 1 = x
      BY <1>3
    <2> QED
      BY <1>4, <2>1 DEF Reached
  <1>6. \A i \in Windows : /\ M[i] \in Int /\ L[i] \in Int
                           /\ L[i] = M[i] \/ L[i] = M[i] + 1
    <2>1. x - 1 \in Int
      BY <1>3
    <2> QED
      BY <1>3, <2>1, ReachedNext, ReachedBehind DEF Reached
  <1>7. L[0] = x /\ x >= CellOf(0, start)
    BY <1>1, <1>2, <1>3, LargestTtsIs, CellMonotonic
  <1>8. \A i \in Windows : E[i] # Empty =>
          CellOf(i, E[i].FID) = L[i] /\ E[i].tts % 2^k = L[i] % 2^k
    <2> SUFFICES ASSUME NEW i \in Windows, E[i] # Empty
                 PROVE  CellOf(i, E[i].FID) = L[i] /\ E[i].tts % 2^k = L[i] % 2^k
      OBVIOUS
    <2>1. CellOf(i, E[i].FID) = L[i] /\ E[i].FID \in Nat /\ E[i].tts = Stamped(i, E[i].FID)
      BY EnteringIsReached, EnteringGenuine, PacketWrites DEF Genuine
    <2>2. E[i].tts = L[i] % Period(i)
      BY <2>1, StampOfCell DEF Period
    <2> HIDE DEF E, L
    <2>3. (L[i] % Period(i)) % 2^k = L[i] % 2^k
      BY <1>6, SameIndex
    <2> QED
      BY <2>1, <2>2, <2>3
  <1> SUFFICES ASSUME NoSilence
               PROVE  /\ \A X \in L[0] - 2^k + 1 .. L[0] :
                           X >= CellOf(0, start) => Recorded(0, X)'
                      /\ start \div P = now' \div P =>
                           \A i \in Windows : \A X \in L[i] - 2^k + 1 .. L[i] :
                             X * 2^TrimmedBits(i) >= start => Recorded(i, X)'
    <2>1. NoSilence' <=> NoSilence
      BY <1>1 DEF NoSilence
    <2>2. CellOf(0, start)' = CellOf(0, start)
      BY <1>1 DEF CellOf, TrimmedBits
    <2> HIDE DEF L
    <2> QED
      BY <1>1, <1>5, <2>1, <2>2 DEF DenseInv
  <1>9. \A X : \A i \in Windows : Recorded(i, X)' <=>
          LET c == tw_r'[second_highest][i][X % 2^k] IN c # Empty /\ CellOf(i, c.FID) = X
    BY <1>1 DEF Recorded, CellOf, TrimmedBits, Empty, NoFID
  <1>12. 0 \in Windows
    BY <1>2
  <1> HIDE DEF E, L, M, x, u, P
  <1>10. \A X \in L[0] - 2^k + 1 .. L[0] : X >= CellOf(0, start) => Recorded(0, X)'
    <2> SUFFICES ASSUME NEW X \in L[0] - 2^k + 1 .. L[0], X >= CellOf(0, start)
                 PROVE  Recorded(0, X)'
      OBVIOUS
    <2> DEFINE S == {Y \in Int : Y >= CellOf(0, start)}
               V == tw_r'[second_highest][0]
    <2>1. \A Y \in M[0] - 2^k + 1 .. M[0] : Y \in S =>
            W[0][Y % 2^k] # Empty /\ CellOf(0, W[0][Y % 2^k].FID) = Y
      BY DEF DenseInv, Recorded, M
    <2>2. V[X % 2^k] # Empty /\ CellOf(0, V[X % 2^k].FID) = X
      <3>1. X \in S
        BY <1>2, <1>3, <1>6
      <3>2. \A j \in Indices : V[j] = IF E[0] # Empty /\ E[0].tts % 2^k = j
                                        THEN E[0] ELSE W[0][j]
        BY <1>2
      <3> DEFINE w == W[0]
                 e == E[0]
                 l == L[0]
                 m == M[0]
      <3>3. LatestIn(0, w, m, S)
        BY <2>1 DEF LatestIn
      <3>4. EnteredBy(V, w, e)
        BY <3>2 DEF EnteredBy
      <3>5. /\ m \in Int /\ l \in Int /\ (l = m \/ l = m + 1)
            /\ e # Empty => CellOf(0, e.FID) = l /\ e.tts % 2^k = l % 2^k
            /\ X \in l - 2^k + 1 .. l
        BY <1>2, <1>6, <1>8
      <3>6. l # m /\ l \in S => e # Empty
        BY <1>1
      <3>7. X \in l - 2^k + 1 .. l
        BY <3>5
      <3> HIDE DEF S, V, w, e, l, m
      <3>8. LatestIn(0, V, l, S)
        BY <1>12, <3>3, <3>4, <3>5, <3>6, WindowKeeps
      <3> QED
        BY <3>1, <3>7, <3>8 DEF LatestIn
    <2> QED
      BY <1>2, <1>9, <2>2
  <1>11. ASSUME start \div P = now' \div P, NEW i \in Windows,
                NEW X \in L[i] - 2^k + 1 .. L[i], X * 2^TrimmedBits(i) >= start
         PROVE  Recorded(i, X)'
    <2>1. start \div P = now \div P
      <3>1. now <= now' /\ now' \in Int
        BY <1>1, <1>3
      <3>2. start \div P <= now \div P /\ now \div P <= now' \div P
        BY <1>1, <1>3, <3>1, DivMonotonic
      <3>3. start \div P \in Int /\ now \div P \in Int
        BY <1>1, <1>3, DivMod
      <3> QED
        BY <1>11, <3>2, <3>3
    <2> DEFINE S == {Y \in Int : Y * 2^TrimmedBits(i) >= start}
               V == tw_r'[second_highest][i]
    <2>2. \A Y \in M[i] - 2^k + 1 .. M[i] : Y \in S =>
            W[i][Y % 2^k] # Empty /\ CellOf(i, W[i][Y % 2^k].FID) = Y
      BY <2>1 DEF DenseInv, Recorded, M, P
    <2>3. L[i] # M[i] /\ L[i] \in S => E[i] # Empty
      BY <2>1, EntersReached DEF L, M, E, x, P
    <2>4. V[X % 2^k] # Empty /\ CellOf(i, V[X % 2^k].FID) = X
      <3>1. X \in S
        BY <1>3, <1>6, <1>11
      <3>2. \A j \in Indices : V[j] = IF E[i] # Empty /\ E[i].tts % 2^k = j
                                        THEN E[i] ELSE W[i][j]
        BY <1>2
      <3> DEFINE w == W[i]
                 e == E[i]
                 l == L[i]
                 m == M[i]
      <3>3. LatestIn(i, w, m, S)
        BY <2>2 DEF LatestIn
      <3>4. EnteredBy(V, w, e)
        BY <3>2 DEF EnteredBy
      <3>5. /\ m \in Int /\ l \in Int /\ (l = m \/ l = m + 1)
            /\ e # Empty => CellOf(i, e.FID) = l /\ e.tts % 2^k = l % 2^k
            /\ X \in l - 2^k + 1 .. l
        BY <1>2, <1>6, <1>8
      <3>6. l # m /\ l \in S => e # Empty
        BY <2>3
      <3>7. X \in l - 2^k + 1 .. l
        BY <3>5
      <3> HIDE DEF S, V, w, e, l, m
      <3>8. LatestIn(i, V, l, S)
        BY <3>3, <3>4, <3>5, <3>6, WindowKeeps
      <3> QED
        BY <3>1, <3>7, <3>8 DEF LatestIn
    <2> QED
      BY <1>9, <2>4
  <1> QED
    BY <1>10, <1>11

\* The silences are of the past.
SilencesPast == \A s \in silences : s \in Nat /\ s <= now

LEMMA InitPast == ControllerInit => SilencesPast
  BY DEF ControllerInit, WindowInit, SilencesPast

LEMMA NextPast ==
  ASSUME PowersOfTwo, WindowInv, SilencesPast, [Next]_vars
  PROVE  SilencesPast'
  <1>1. now \in Nat
    BY DEF WindowInv, WindowTypes
  <1>2. CASE Packet
    <2>1. silences' = silences /\ now' = now + 2^TW0_TB /\ 2^TW0_TB \in Nat
      BY <1>2, Sizes DEF Packet
    <2> QED
      BY <1>1, <2>1 DEF SilencesPast
  <1>3. CASE Silence
    <2>1. PICK d \in Nat : now' = now + d
      BY <1>3, WindowsAssumption DEF Silence
    <2>2. silences' = silences \cup {now}
      BY <1>3 DEF Silence
    <2> QED
      BY <1>1, <2>1, <2>2 DEF SilencesPast
  <1>4. CASE Poll \/ UNCHANGED vars
    <2>1. silences' = silences /\ now' = now
      BY <1>4 DEF Poll, Retire, vars, windowVars
    <2> QED
      BY <2>1 DEF SilencesPast
  <1> QED
    BY <1>2, <1>3, <1>4 DEF Next, Traffic

\* When a quarter comes into use, nothing of that use is to be held yet.
LEMMA NewUseDense ==
  ASSUME PowersOfTwo, NEW t \in Nat
  PROVE  LET L == LargestTts(CellOf(0, t) - 1) IN
         /\ \A X \in L[0] - 2^k + 1 .. L[0] : ~(X >= CellOf(0, t))
         /\ \A i \in Windows : \A X \in L[i] - 2^k + 1 .. L[i] :
              ~(X * 2^TrimmedBits(i) >= t)
  <1> DEFINE u == 2^TW0_TB
             L == LargestTts(CellOf(0, t) - 1)
             x == CellOf(0, t)
             y == x - 1
  <1>1. 0 \in Windows /\ u \in Nat \ {0} /\ x = t \div u
    BY Parameters, Sizes, Threshold DEF CellOf, Windows
  <1>2. x \in Nat /\ y \in Int /\ y * u < t
    <2> HIDE DEF u
    <2>1. /\ (t \div u) \in Nat /\ (t % u) \in Nat
          /\ t = (t \div u) * u + (t % u)
      BY <1>1, Divided
    <2> HIDE DEF x
    <2>2. x \in Nat /\ t = x * u + (t % u) /\ x * u \in Int
      BY <1>1, <2>1
    <2>3. (x - 1) * u = x * u - u
      BY <1>1, <2>2
    <2> QED
      BY <1>1, <2>1, <2>2, <2>3
  <1> HIDE DEF u, x
  <1>3. \A i \in Windows : /\ L[i] \in Int
                           /\ L[i] * 2^TrimmedBits(i) <= y * u
    <2>1. L = LargestTts(y)
      BY DEF x
    <2> HIDE DEF y, L
    <2> QED
      BY <1>2, <2>1, ReachedBehind DEF u
  <1>4. L[0] = y
    <2>1. L = LargestTts(y)
      BY DEF x
    <2> HIDE DEF y, L
    <2> QED
      BY <1>1, <1>2, <2>1, LargestTtsIs
  <1> HIDE DEF L
  <1>5. \A X \in L[0] - 2^k + 1 .. L[0] : ~(X >= CellOf(0, t))
    <2>1. CellOf(0, t) = x
      BY DEF x
    <2>2. 2^k \in Nat
      BY Sizes
    <2> QED
      BY <1>2, <1>4, <2>1, <2>2
  <1>6. \A i \in Windows : \A X \in L[i] - 2^k + 1 .. L[i] :
          ~(X * 2^TrimmedBits(i) >= t)
    <2> SUFFICES ASSUME NEW i \in Windows, NEW X \in L[i] - 2^k + 1 .. L[i]
                 PROVE  ~(X * 2^TrimmedBits(i) >= t)
      OBVIOUS
    <2> DEFINE a == 2^TrimmedBits(i)
               m == L[i]
    <2>1. a \in Nat \ {0} /\ m \in Int /\ m * a <= y * u /\ 2^k \in Nat
      BY <1>3, WindowSizes, Sizes
    <2>2. X \in Int /\ X <= m
      BY <2>1
    <2> HIDE DEF a, m
    <2>3. X * a <= m * a /\ X * a \in Int /\ m * a \in Int /\ y * u \in Int
      BY <1>1, <1>2, <2>1, <2>2
    <2>4. X * a < t
      BY <1>2, <2>1, <2>3
    <2> QED
      BY <2>3, <2>4 DEF a
  <1> QED
    BY <1>5, <1>6 DEF L

\* The packets of a use without a silence leave no cell out, from its beginning to now.
LEMMA NextDense ==
  ASSUME PowersOfTwo, OverflowInv, Current, NotAtZero, SilencesPast, DenseInv, [Next]_vars
  PROVE  DenseInv'
  <1>1. now \in Nat /\ start \in Nat /\ start <= now
    BY DEF OverflowInv, WindowInv, WindowTypes, Uses
  <1>2. CASE Packet
    <2>1. Recent
      <3> SUFFICES ASSUME NEW q \in Quarters, NEW i \in Windows, NEW j \in Indices,
                          tw_r[q][i][j] # Empty
                   PROVE  now - tw_r[q][i][j].FID <= 2^TsBits
        BY DEF Recent
      <3>1. now - tw_r[q][i][j].FID <= 2^TsBits - 2^TrimmedBits(i)
        BY DEF Current
      <3>2. /\ tw_r[q][i][j].FID \in Nat /\ 2^TsBits \in Nat
            /\ 2^TrimmedBits(i) \in Nat
        BY WindowSizes, Sizes DEF OverflowInv, WindowInv, RecordsGenuine, Genuine
      <3> QED
        BY <1>1, <3>1, <3>2
    <2> QED
      BY <1>1, <1>2, <2>1, PacketDense DEF OverflowInv
  <1>3. CASE Silence
    <2>1. now \in silences' /\ start' = start
      BY <1>3 DEF Silence
    <2>2. ~NoSilence'
      BY <1>1, <2>1 DEF NoSilence
    <2> QED
      BY <2>2 DEF DenseInv
  <1>4. CASE Poll
    <2>1. now' = now /\ start' = now
      BY <1>4 DEF Poll, Retire
    <2>2. CellOf(0, now)' = CellOf(0, now) /\ CellOf(0, start)' = CellOf(0, now)
      BY <2>1 DEF CellOf, TrimmedBits
    <2>3. Reached' = LargestTts(CellOf(0, now) - 1)
      BY <2>2 DEF Reached
    <2> QED
      BY <1>1, <2>1, <2>2, <2>3, NewUseDense DEF DenseInv
  <1>5. CASE UNCHANGED vars
    BY <1>5 DEF vars, windowVars, DenseInv, NoSilence, Reached, Recorded, CellOf,
                TrimmedBits, Empty, NoFID
  <1> QED
    BY <1>2, <1>3, <1>4, <1>5 DEF Next, Traffic

\* The record of a register the filter finds to be of the last cycle.
LEMMA RetainedHas ==
  ASSUME NEW i, NEW window, NEW l, NEW idx, NEW wraps, NEW j,
         window[j].FID # NoFID,
         \/ j \in 0 .. idx /\ CID(window[j].tts) = CID(l)
         \/ /\ j \in idx + 1 .. 2^k - 1
            /\ CIDMask(i, CID(window[j].tts) + 1) = CIDMask(i, CID(l))
  PROVE  \E c \in Retained(window, i, l, idx, wraps) :
           c.twid = i /\ c.tts = window[j].tts
  <1> DEFINE upTo  == {h \in 0 .. idx : /\ window[h].FID # NoFID
                                       /\ CID(window[h].tts) = CID(l)}
             after == {h \in idx + 1 .. 2^k - 1 :
                         /\ window[h].FID # NoFID
                         /\ CIDMask(i, CID(window[h].tts) + 1) = CIDMask(i, CID(l))}
             w(h)  == IF h \in after /\ CID(window[h].tts) > CID(l)
                        THEN wraps - 1 ELSE wraps
             r(h)  == [FID |-> window[h].FID, tts |-> window[h].tts, twid |-> i,
                       wrap |-> w(h)]
  <1>1. Retained(window, i, l, idx, wraps) = {r(h) : h \in upTo \cup after}
    BY DEF Retained
  <1>2. j \in upTo \cup after
    OBVIOUS
  <1> HIDE DEF upTo, after, w
  <1>3. r(j) \in Retained(window, i, l, idx, wraps)
    BY <1>1, <1>2
  <1>4. r(j).twid = i /\ r(j).tts = window[j].tts
    OBVIOUS
  <1> QED
    BY <1>3, <1>4

\* The filter retains what a register holds of the last 2^k cells of its window, over
\* an overflow as before one.
LEMMA LastCycleKept ==
  ASSUME PowersOfTwo, NEW i \in Windows, NEW window \in [Indices -> Cells],
         NEW l \in Nat, l < Period(i), NEW n \in Nat, NEW wraps,
         NEW X \in Int, (l + n * Period(i)) - 2^k < X, X <= l + n * Period(i),
         window[X % 2^k].FID # NoFID, window[X % 2^k].tts = X % Period(i)
  PROVE  \E c \in Retained(window, i, l, l % 2^k, wraps) :
           c.twid = i /\ c.tts = X % Period(i)
  <1> DEFINE K == 2^k
             g == 2^(tts_bit - k - i * ALPHA)
             P == Period(i)
             v == X - n * P
             t == X % P
             j == X % K
             s == l % K
             p == t \div K
             q == l \div K
  <1>1. K \in Nat \ {0} /\ g \in Nat /\ g >= 2 /\ P = K * g /\ P \in Nat \ {0} /\ K < P
    BY Cycles, Sizes, WindowSizes DEF Period
  <1>2. CID(t) = p /\ CID(l) = q /\ \A c : CIDMask(i, c) = c % g
    BY DEF CID, CIDMask
  <1>3. t \in Nat /\ t < P
    <2> HIDE DEF P
    <2>1. X % P \in 0 .. P - 1
      BY <1>1, DivMod
    <2> QED
      BY <1>1, <2>1
  <1>4. p \in Nat /\ t % K \in Nat /\ t % K < K /\ t = p * K + (t % K)
    <2> HIDE DEF K, t
    <2> QED
      BY <1>1, <1>3, Divided
  <1>5. q \in Nat /\ s \in Nat /\ s < K /\ l = q * K + s
    <2> HIDE DEF K
    <2> QED
      BY <1>1, Divided
  <1>6. t % K = j
    BY SameIndex
  <1>21. (l + n * P) - K < X /\ X <= l + n * P
    OBVIOUS
  <1>7. v \in Int /\ X = v + n * P /\ l - K < v /\ v <= l
    <2> HIDE DEF K, P
    <2>1. n * P \in Int
      BY <1>1
    <2> QED
      BY <1>1, <1>21, <2>1
  <1>8. \/ v >= 0 /\ t = v
        \/ v < 0 /\ t = v + P
    <2> HIDE DEF K, v
    <2>1. (v + n * P) % P = v % P
      <3>1. v \in Int /\ P \in Nat \ {0} /\ n \in Int
        BY <1>1, <1>7
      <3> HIDE DEF P
      <3> QED
        BY <3>1, DivShift
    <2>2. v < P
      BY <1>1, <1>7 DEF P
    <2>3. v >= 0 => v % P = v
      <3> HIDE DEF P
      <3> QED
        BY <1>1, <1>7, <2>2, ModSmall
    <2>4. v < 0 => v % P = v + P
      <3>1. v < 0 => -P <= v
        BY <1>1, <1>7
      <3> HIDE DEF P
      <3> QED
        BY <1>1, <1>7, <3>1, ModNegative
    <2>5. v >= 0 \/ v < 0
      BY <1>7
    <2> QED
      BY <1>7, <2>1, <2>3, <2>4, <2>5
  <1>9. l < P
    BY DEF P
  <1>10. window[j].FID # NoFID /\ window[j].tts = t
    OBVIOUS
  <1>11. j \in Nat /\ j < K
    BY <1>4, <1>6
  <1>20. K = 2^k /\ s = l % 2^k
    OBVIOUS
  <1> HIDE DEF K, g, P, v, t, j, s, p, q
  <1>12. CASE j <= s
    <2>1. p = q
      <3>1. v >= 0 /\ t = v
        <4>1. CASE v < 0
          <5>1. q = 0
            <6>1. CASE q >= 1
              <7>1. q * K >= 1 * K
                BY <1>1, <1>5, <6>1
              <7> QED
                BY <1>1, <1>5, <1>7, <4>1, <7>1
            <6> QED
              BY <1>5, <6>1
          <5>2. l = s
            BY <1>1, <1>5, <5>1
          <5>3. P = (g - 1) * K + K
            BY <1>1
          <5>4. t = (g - 1) * K + (v + K) /\ 0 <= v + K /\ v + K < K
            <6>1. (g - 1) * K \in Int
              BY <1>1
            <6> QED
              BY <1>1, <1>5, <1>7, <1>8, <4>1, <5>3, <6>1
          <5>5. t \div K = g - 1 /\ t % K = t - (g - 1) * K
            <6>1. (g - 1) * K <= t /\ t < ((g - 1) + 1) * K
              <7>1. ((g - 1) + 1) * K = (g - 1) * K + K /\ (g - 1) * K \in Int
                BY <1>1
              <7> QED
                BY <1>1, <1>7, <5>4, <7>1
            <6>2. g - 1 \in Int /\ t \in Int
              BY <1>1, <1>3
            <6> QED
              BY <1>1, <6>1, <6>2, DivIs
          <5>6. j = v + K
            <6>1. (g - 1) * K \in Int
              BY <1>1
            <6> QED
              BY <1>1, <1>6, <1>7, <5>4, <5>5, <6>1
          <5> QED
            BY <1>1, <1>5, <1>7, <1>12, <5>2, <5>6
        <4> QED
          BY <1>7, <1>8, <4>1
      <3>2. l - t = (q - p) * K + (s - j)
        <4>1. p * K \in Int /\ q * K \in Int /\ (q - p) * K = q * K - p * K
          BY <1>1, <1>4, <1>5
        <4> QED
          BY <1>3, <1>4, <1>5, <1>6, <1>11, <4>1
      <3>3. CASE q > p
        <4>1. (q - p) * K >= 1 * K
          BY <1>1, <1>4, <1>5, <3>3
        <4>2. (q - p) * K \in Int
          BY <1>1, <1>4, <1>5
        <4> QED
          BY <1>1, <1>3, <1>5, <1>7, <1>11, <1>12, <3>1, <3>2, <4>1, <4>2
      <3>4. CASE q < p
        <4>1. (q - p) * K <= (-1) * K
          BY <1>1, <1>4, <1>5, <3>4
        <4>2. (q - p) * K \in Int
          BY <1>1, <1>4, <1>5
        <4> QED
          BY <1>1, <1>3, <1>5, <1>7, <1>11, <1>12, <3>1, <3>2, <4>1, <4>2
      <3> QED
        BY <1>4, <1>5, <3>3, <3>4
    <2>2. CID(window[j].tts) = CID(l) /\ j \in 0 .. s
      BY <1>2, <1>5, <1>10, <1>11, <1>12, <2>1
    <2>3. \E c \in Retained(window, i, l, s, wraps) : c.twid = i /\ c.tts = t
      <3>1. \E c \in Retained(window, i, l, s, wraps) : c.twid = i /\ c.tts = window[j].tts
        BY <1>10, <2>2, RetainedHas
      <3> QED
        BY <1>10, <3>1
    <2> QED
      BY <2>3 DEF s, t, P, K
  <1>13. CASE j > s
    <2>1. (p + 1) % g = q % g
      <3>1. CASE v >= 0
        <4>1. l - t = (q - p) * K + (s - j)
          <5>1. p * K \in Int /\ q * K \in Int /\ (q - p) * K = q * K - p * K
            BY <1>1, <1>4, <1>5
          <5> QED
            BY <1>3, <1>4, <1>5, <1>6, <1>11, <5>1
        <4>2. t = v /\ (q - p) * K \in Int
          BY <1>1, <1>4, <1>5, <1>8, <3>1, <1>7
        <4>3. CASE q <= p
          <5>1. (q - p) * K <= 0 * K
            BY <1>1, <1>4, <1>5, <4>3
          <5> QED
            BY <1>1, <1>3, <1>5, <1>7, <1>11, <1>13, <4>1, <4>2, <5>1
        <4>4. CASE q >= p + 2
          <5>1. (q - p) * K >= 2 * K
            BY <1>1, <1>4, <1>5, <4>4
          <5> QED
            BY <1>1, <1>3, <1>5, <1>7, <1>11, <1>13, <4>1, <4>2, <5>1
        <4> QED
          BY <1>4, <1>5, <4>3, <4>4
      <3>2. CASE v < 0
        <4>1. q = 0
          <5>1. CASE q >= 1
            <6>1. q * K >= 1 * K
              BY <1>1, <1>5, <5>1
            <6> QED
              BY <1>1, <1>5, <1>7, <3>2, <6>1
          <5> QED
            BY <1>5, <5>1
        <4>2. p = g - 1
          <5>1. t = v + P /\ v + K > 0 /\ v < 0
            BY <1>1, <1>5, <1>7, <1>8, <3>2
          <5>2. P = (g - 1) * K + K /\ (g - 1) * K \in Int
            BY <1>1
          <5>3. (g - 1) * K <= t /\ t < ((g - 1) + 1) * K
            <6>1. ((g - 1) + 1) * K = (g - 1) * K + K
              BY <1>1
            <6> QED
              BY <1>1, <1>3, <1>7, <5>1, <5>2, <6>1
          <5>4. g - 1 \in Int /\ t \in Int
            BY <1>1, <1>3
          <5> QED
            BY <1>1, <5>3, <5>4, DivIs DEF p
        <4>3. g % g = 0 /\ 0 % g = 0
          <5>1. g \in Nat \ {0}
            BY <1>1
          <5>2. 0 % g = 0
            BY <5>1, ModSmall
          <5>3. PICK c \in Int : c = 1
            OBVIOUS
          <5>4. (0 + c * g) % g = 0 % g
            <6>1. 0 \in Int
              OBVIOUS
            <6> QED
              BY <5>1, <6>1, DivShift
          <5>5. 0 + c * g = g
            BY <5>1, <5>3
          <5> QED
            BY <5>2, <5>4, <5>5
        <4> QED
          BY <1>1, <4>1, <4>2, <4>3
      <3> QED
        BY <1>7, <3>1, <3>2
    <2>2. CIDMask(i, CID(window[j].tts) + 1) = CIDMask(i, CID(l)) /\ j \in s + 1 .. K - 1
      BY <1>1, <1>2, <1>5, <1>10, <1>11, <1>13, <2>1
    <2>3. \E c \in Retained(window, i, l, s, wraps) : c.twid = i /\ c.tts = t
      <3>1. j \in s + 1 .. 2^k - 1
        BY <1>20, <2>2
      <3>2. \E c \in Retained(window, i, l, s, wraps) : c.twid = i /\ c.tts = window[j].tts
        BY <1>10, <2>2, <3>1, RetainedHas
      <3> QED
        BY <1>10, <3>2
    <2> QED
      BY <2>3 DEF s, t, P, K
  <1> QED
    BY <1>5, <1>11, <1>12, <1>13

\* A set polled after its quarter was filled without a silence holds all of the latest
\* cells of its windows, as the analysis counts them.
LEMMA PollComplete ==
  ASSUME PowersOfTwo, OverflowInv, Busy, Paced, SilencesPast, DenseInv, Poll
  PROVE  Complete'
  <1>1. CASE ~Filled
    <2>1. \A i \in Windows, j \in Indices : tw_r[second_highest][i][j] = Empty
      BY <1>1 DEF Poll, Retire, Busy
    <2>2. \A i \in Windows, j \in Indices : tw_r[second_highest][i][j].FID = NoFID
      BY <2>1 DEF Empty
    <2>3. TW_result' = {}
      BY <2>2 DEF Poll
    <2> QED
      BY <2>3 DEF Complete
  <1>2. CASE Filled
    <2> DEFINE R == tw_r[second_highest]
               r == LargestCell(R[0])
               n == wrapping' + origin'
               C == CellOf(0, R[0][r.idx].FID)
               m == 2^tts_bit
               K == 2^k
               P == 2^TsBits
               l == LargestTts(r.tts)
               L == LargestTts(C)
               Has(i) == {c.tts : c \in {d \in TW_result' : d.twid = i}}
    <2>1. /\ r.idx \in Indices /\ r.tts = R[0][r.idx].tts
          /\ \A j \in Indices : CellOf(0, R[0][j].FID) <= C
          /\ n \in Nat /\ C \in Nat /\ r.tts = C % m /\ C = r.tts + n * m
          /\ TW_result' = UNION {
               Retained(R[i], i, l[i], IF i = 0 THEN r.idx ELSE l[i] % K, wrapping') :
                 i \in Windows}
      BY <1>2, PollCounts
    <2>2. \A j \in Indices :
            LET c == R[0][j] IN
            /\ c # Empty /\ c.FID \in Nat /\ c.FID >= start /\ c.FID < now
            /\ c.tts % K = j
            /\ CellOf(0, start) <= CellOf(0, c.FID)
      BY <1>2, SetCells DEF OverflowInv
    <2>3. /\ 0 \in Windows /\ 0 \in Indices /\ K \in Nat \ {0} /\ m \in Nat \ {0}
          /\ P \in Nat \ {0}
      BY Parameters, Sizes, Threshold
    <2>4. /\ pre_largest_tts' = r.tts /\ used_since' = start /\ start' = now
          /\ silences' = silences
      <3>1. R[0][0].FID # NoFID
        BY <2>2, <2>3 DEF NoFID
      <3>2. ~ \A i \in Windows, j \in Indices : tw_r[second_highest][i][j].FID = NoFID
        BY <2>3, <3>1
      <3> QED
        BY <3>2 DEF Poll, Retire
    <2>5. now \in Nat /\ start \in Nat /\ start <= now
      BY DEF OverflowInv, WindowInv, WindowTypes, Uses
    <2> SUFFICES ASSUME NoSilence
                 PROVE  /\ \A v \in l[0] - K + 1 .. l[0] : v % m \in Has(0)
                        /\ start \div P = now \div P =>
                             \A i \in Windows : \A v \in l[i] - K + 1 .. l[i] :
                               v * 2^TrimmedBits(i) >= start % P => v \in Has(i)
      <3>1. (\A s \in silences : s \notin start .. now) => NoSilence
        BY <2>5 DEF NoSilence, SilencesPast
      <3> HIDE DEF R, r, n, C, l, L
      <3>2. pre_largest_tts' = r.tts
        BY <2>4
      <3>3. LargestTts(pre_largest_tts)' = l
        BY <3>2 DEF l
      <3>4. tts_bit' = tts_bit /\ \A i : TrimmedBits(i)' = TrimmedBits(i)
        BY DEF tts_bit, TrimmedBits
      <3> QED
        BY <2>4, <3>1, <3>3, <3>4 DEF Complete
    <2>6. /\ R \in [Windows -> [Indices -> Cells]]
          /\ \A i \in Windows, j \in Indices : R[i][j] # Empty =>
               R[i][j].FID \in Nat /\ R[i][j].tts = Stamped(i, R[i][j].FID)
      BY DEF OverflowInv, WindowInv, WindowTypes, RecordsGenuine, Genuine
    <2>7. r.idx = r.tts % K /\ l[0] = r.tts /\ r.tts \in Nat /\ r.tts < m
      <3>1. r.tts % K = r.idx
        BY <2>1, <2>2
      <3>2. r.tts \in Nat /\ r.tts < m
        <4>1. r.tts = C % m
          BY <2>1
        <4> HIDE DEF C, m, r
        <4>2. (C % m) \in Nat /\ C % m < m
          BY <2>1, <2>3, Divided
        <4> QED
          BY <4>1, <4>2
      <3> HIDE DEF r
      <3>3. LargestTts(r.tts)[0] = r.tts
        BY <3>2, LargestTtsIs
      <3> QED
        BY <3>1, <3>2, <3>3
    <2> HIDE DEF R, r, n, C
    <2>8. \A i \in Windows : /\ l[i] \in Int /\ l[i] < Period(i)
                             /\ L[i] = l[i] + n * Period(i)
      <3>1. r.tts \in Int /\ r.tts \in Nat /\ r.tts < 2^tts_bit
        BY <2>7
      <3>2. \A i \in Windows : l[i] \in Int /\ l[i] < Period(i)
        BY <3>1, LargestTtsIs, LargestTtsBelow DEF Period
      <3>3. C = r.tts + n * 2^tts_bit
        BY <2>1
      <3>4. \A i \in Windows :
              LargestTts(r.tts + n * 2^tts_bit)[i] = LargestTts(r.tts)[i] + n * Period(i)
        BY <2>1, <3>1, LargestTtsShift
      <3> QED
        BY <3>2, <3>3, <3>4
    <2> HIDE DEF l, L
    <2>9. Reached = L
      <3>1. CellOf(0, now) \in Nat
        BY <2>3, <2>5, StampOfCell
      <3>2. C < CellOf(0, now)
        <4> DEFINE f == R[0][r.idx].FID
        <4>1. f \in Nat /\ f + 2^TW0_TB <= now
          <5>1. R[0][r.idx] # Empty /\ f \in Nat
            BY <2>1, <2>2
          <5> QED
            BY <2>1, <2>3, <5>1 DEF Paced, R
        <4> HIDE DEF f
        <4>2. CellOf(0, f) < CellOf(0, now)
          BY <2>5, <4>1, NextCellAfter
        <4> QED
          BY <4>2 DEF C, f
      <3> DEFINE y == CellOf(0, now) - 1
      <3>3. Reached[0] = y /\ y \in Int
        <4>1. y \in Int
          BY <3>1
        <4>2. Reached = LargestTts(y)
          BY DEF Reached
        <4> HIDE DEF y
        <4> QED
          BY <4>1, <4>2, LargestTtsIs
      <3>4. y >= CellOf(0, start) /\ CellOf(0, start) \in Int
        <4>1. CellOf(0, start) <= C
          BY <2>1, <2>2 DEF C
        <4>2. CellOf(0, start) \in Nat
          BY <2>3, <2>5, StampOfCell
        <4> QED
          BY <2>1, <3>1, <3>2, <4>1, <4>2
      <3>5. Recorded(0, y)
        <4>1. y \in Reached[0] - K + 1 .. Reached[0]
          <5> HIDE DEF y, K
          <5> QED
            BY <2>3, <3>3
        <4> QED
          BY <3>4, <4>1 DEF DenseInv
      <3>6. y % K \in Indices
        <4> HIDE DEF K, y
        <4>1. y % K \in 0 .. K - 1
          BY <2>3, <3>3, DivMod
        <4> QED
          BY <4>1 DEF Indices, K
      <3>7. y <= C
        <4>1. CellOf(0, R[0][y % K].FID) = y
          BY <3>5 DEF Recorded, R
        <4> QED
          BY <2>1, <3>6, <4>1
      <3>8. C = y
        BY <2>1, <3>1, <3>2, <3>3, <3>7
      <3> QED
        BY <3>8 DEF Reached, L
    <2>10. ASSUME NEW i \in Windows, NEW X \in L[i] - K + 1 .. L[i], l[i] \in Nat,
                  Recorded(i, X)
           PROVE  X % Period(i) \in Has(i)
      <3> DEFINE c == R[i][X % K]
      <3>1. X \in Int /\ (l[i] + n * Period(i)) - K < X /\ X <= l[i] + n * Period(i)
        <4>1. L[i] = l[i] + n * Period(i) /\ L[i] \in Int
          <5>1. l[i] \in Int /\ n \in Int /\ Period(i) \in Int
            BY <2>1, <2>8, Periods
          <5> QED
            BY <2>8, <5>1
        <4> HIDE DEF K
        <4> QED
          BY <2>3, <4>1
      <3>2. X % K \in Indices
        <4> HIDE DEF K
        <4>1. X % K \in 0 .. K - 1
          BY <2>3, <3>1, DivMod
        <4> QED
          BY <4>1 DEF Indices, K
      <3>3. c # Empty /\ CellOf(i, c.FID) = X
        BY <2>10 DEF Recorded, R
      <3>4. c.FID \in Nat /\ c.tts = Stamped(i, c.FID)
        BY <2>6, <3>2, <3>3
      <3>5. c.tts = X % Period(i) /\ c.FID # NoFID
        BY <3>3, <3>4, StampOfCell DEF Period, NoFID
      <3>6. R[i] \in [Indices -> Cells] /\ l[i] < Period(i)
        BY <2>6, <2>8
      <3>7. \E e \in Retained(R[i], i, l[i], l[i] % K, wrapping') :
              e.twid = i /\ e.tts = X % Period(i)
        BY <2>1, <2>10, <3>1, <3>5, <3>6, LastCycleKept
      <3>8. (IF i = 0 THEN r.idx ELSE l[i] % K) = l[i] % K
        BY <2>7
      <3>9. Retained(R[i], i, l[i], l[i] % K, wrapping') \subseteq TW_result'
        BY <2>1, <3>8
      <3> QED
        BY <3>7, <3>9
    <2>11. ASSUME NEW v \in l[0] - K + 1 .. l[0]
           PROVE  v % m \in Has(0)
      <3> DEFINE X == v + n * m
                 s == CellOf(0, start)
      <3>1. Period(0) = m /\ L[0] = C /\ l[0] \in Nat
        <4>1. Period(0) = m
          BY Periods
        <4> QED
          BY <2>1, <2>3, <2>7, <2>8, <4>1
      <3>2. v \in Int /\ l[0] - K < v /\ v <= l[0]
        <4> HIDE DEF K
        <4> QED
          BY <2>3, <3>1
      <3>3. X \in Int /\ L[0] - K < X /\ X <= L[0] /\ L[0] \in Int
        <4> HIDE DEF K, m
        <4>1. n * m \in Int /\ L[0] = l[0] + n * m
          BY <2>1, <2>3, <2>7, <3>1
        <4> QED
          BY <2>3, <3>1, <3>2, <4>1
      <3>4. X >= s
        <4> DEFINE j == (C + 1) % K
                   f == R[0][j].FID
                   D == CellOf(0, f)
        <4>1. j \in Indices
          <5> HIDE DEF K
          <5>1. C + 1 \in Int
            BY <2>1
          <5>2. j \in 0 .. K - 1
            BY <2>3, <5>1, DivMod
          <5> QED
            BY <5>2 DEF Indices, K
        <4>2. s <= D /\ D <= C /\ f \in Nat /\ R[0][j] # Empty /\ R[0][j].tts % K = j
          BY <2>1, <2>2, <4>1
        <4>3. s \in Nat /\ D \in Nat
          BY <2>3, <2>5, <4>2, StampOfCell
        <4>4. D % K = (C + 1) % K
          <5>1. R[0][j].tts = D % Period(0)
            BY <2>3, <2>6, <4>1, <4>2, StampOfCell DEF Period
          <5>2. (D % Period(0)) % K = D % K
            BY <2>3, <4>3, SameIndex
          <5> QED
            BY <4>2, <5>1, <5>2
        <4>5. D <= C + 1 - K
          <5>1. CASE D > C + 1 - K
            <6>1. /\ D \in Int /\ C + 1 \in Int /\ (C + 1) - K < D /\ D <= C + 1
                  /\ K \in Nat \ {0}
              BY <2>1, <2>3, <4>2, <4>3, <5>1
            <6> DEFINE B == C + 1
            <6> HIDE DEF K, D, B
            <6>3. B \in Int /\ B - K < D /\ D <= B /\ D % K = B % K
              BY <4>4, <6>1 DEF B
            <6>2. D = B
              BY <6>1, <6>3, OneIndex
            <6>4. B = C + 1
              BY DEF B
            <6> QED
              BY <2>1, <4>2, <6>1, <6>2, <6>4
          <5> QED
            BY <2>1, <2>3, <4>3, <5>1
        <4> HIDE DEF K, D, s, X
        <4> QED
          BY <2>1, <2>3, <3>1, <3>3, <4>2, <4>3, <4>5
      <3>5. X \in L[0] - K + 1 .. L[0]
        <4> HIDE DEF X, K
        <4> QED
          BY <2>3, <3>3
      <3>6. Recorded(0, X)
        BY <2>9, <3>4, <3>5 DEF DenseInv
      <3>7. X % Period(0) \in Has(0)
        BY <2>3, <2>10, <3>1, <3>5, <3>6
      <3>8. (v + n * m) % m = v % m
        <4>1. m \in Nat \ {0} /\ n \in Int
          BY <2>1, <2>3
        <4> HIDE DEF m
        <4> QED
          BY <3>2, <4>1, DivShift
      <3> QED
        BY <3>1, <3>7, <3>8
    <2>12. ASSUME start \div P = now \div P, NEW i \in Windows,
                  NEW v \in l[i] - K + 1 .. l[i], v * 2^TrimmedBits(i) >= start % P
           PROVE  v \in Has(i)
      <3> DEFINE a == 2^TrimmedBits(i)
                 p == Period(i)
                 X == v + n * p
      <3>1. a \in Nat \ {0} /\ p \in Nat \ {0} /\ P = a * p
        BY <2>12, WindowSizes, Periods DEF Period
      <3>2. l[i] \in Int /\ l[i] < p /\ L[i] = l[i] + n * p
        BY <2>8
      <3>3. v \in Int /\ l[i] - K < v /\ v <= l[i]
        <4> HIDE DEF K
        <4> QED
          BY <2>3, <3>2
      <3>4. n = start \div P
        <4> DEFINE f == R[0][r.idx].FID
                   u == 2^TW0_TB
        <4>1. f \in Nat /\ start <= f /\ f <= now
          BY <2>1, <2>2, <2>5
        <4>2. start \div P <= f \div P /\ f \div P <= now \div P
          BY <2>3, <2>5, <4>1, DivMonotonic
        <4>3. start \div P \in Int /\ f \div P \in Int
          <5>1. f \in Int /\ start \in Int
            BY <2>5, <4>1
          <5> HIDE DEF f, P
          <5> QED
            BY <2>3, <5>1, DivMod
        <4>4. f \div P = start \div P
          BY <2>12, <4>2, <4>3
        <4>5. C = f \div u /\ u \in Nat \ {0} /\ P = u * m
          BY Sizes, Threshold DEF C, CellOf
        <4> HIDE DEF f, u, m, P
        <4>6. (f \div u) \div m = f \div (u * m)
          <5>1. f \in Int /\ u \in Nat \ {0} /\ m \in Nat \ {0}
            BY <2>3, <4>1, <4>5
          <5> QED
            BY <5>1, DivDiv
        <4>7. C \div m = n
          <5>1. n * m <= C /\ C < (n + 1) * m
            <6>1. n * m \in Int /\ (n + 1) * m = n * m + m
              BY <2>1, <2>3
            <6>2. r.tts \in Nat /\ r.tts < m
              BY <2>7
            <6>3. C = r.tts + n * m
              BY <2>1
            <6> QED
              BY <2>3, <6>1, <6>2, <6>3
          <5>2. C \in Int /\ n \in Int
            BY <2>1
          <5> QED
            BY <2>3, <5>1, <5>2, DivIs
        <4> QED
          BY <4>4, <4>5, <4>6, <4>7
      <3>5. start = n * P + (start % P) /\ (start % P) \in Nat
        <4> HIDE DEF P
        <4>1. start = (start \div P) * P + (start % P) /\ (start % P) \in Nat
          BY <2>3, <2>5, Divided
        <4> QED
          BY <3>4, <4>1
      <3>6. v * a >= start % P
        BY <2>12
      <3> HIDE DEF a, p, P, K
      <3>7. X * a >= start
        <4>1. X * a = v * a + n * P /\ v * a \in Int /\ n * P \in Int
          <5>1. (v + n * p) * a = v * a + (n * p) * a
            BY <2>1, <3>1, <3>3
          <5>2. (n * p) * a = n * (a * p)
            BY <2>1, <3>1
          <5> QED
            BY <2>1, <2>3, <3>1, <3>3, <5>1, <5>2
        <4> QED
          BY <2>5, <3>5, <3>6, <4>1
      <3>8. v >= 0
        <4>1. CASE v < 0
          <5>1. v * a <= (-1) * a
            BY <3>1, <3>3, <4>1
          <5>2. v * a \in Int
            BY <3>1, <3>3
          <5> QED
            BY <3>1, <3>5, <3>6, <5>1, <5>2
        <4> QED
          BY <3>3, <4>1
      <3>9. X \in L[i] - K + 1 .. L[i]
        <4>1. n * p \in Int
          BY <2>1, <3>1
        <4> QED
          BY <2>3, <3>2, <3>3, <4>1
      <3>10. Recorded(i, X)
        <4>1. start \div 2^TsBits = now \div 2^TsBits
          BY <2>12 DEF P
        <4>2. X * 2^TrimmedBits(i) >= start
          BY <3>7 DEF a
        <4>3. X \in Reached[i] - 2^k + 1 .. Reached[i]
          BY <2>9, <3>9 DEF K
        <4> HIDE DEF X
        <4> QED
          BY <4>1, <4>2, <4>3 DEF DenseInv
      <3>11. X % Period(i) \in Has(i)
        <4>1. l[i] \in Nat
          BY <3>2, <3>3, <3>8
        <4> QED
          BY <2>10, <3>9, <3>10, <4>1
      <3>12. X % p = v
        <4>1. p \in Nat \ {0} /\ n \in Int /\ v \in Int
          BY <2>1, <3>1, <3>3
        <4>2. (v + n * p) % p = v % p
          BY <4>1, DivShift
        <4>3. v \in Nat /\ v < p
          BY <3>1, <3>2, <3>3, <3>8
        <4>4. v % p = v
          BY <4>1, <4>3, ModSmall
        <4> QED
          BY <4>2, <4>4
      <3> QED
        BY <3>11, <3>12 DEF p
    <2> QED
      BY <2>11, <2>12
  <1> QED
    BY <1>1, <1>2

\* What is wanted of a set only shrinks until the next one is polled.
LEMMA NextComplete ==
  ASSUME PowersOfTwo, OverflowInv, Busy, Paced, SilencesPast, DenseInv, Complete,
         [Next]_vars
  PROVE  Complete'
  <1>1. CASE Poll
    BY <1>1, PollComplete
  <1>2. CASE ~Poll
    <2>1. UNCHANGED <<pre_largest_tts, TW_result, used_since>>
      BY <1>2 DEF Next, Traffic, vars
    <2>2. start' = start /\ silences \subseteq silences'
      BY <1>2 DEF Next, Traffic, Packet, Silence, vars, windowVars
    <2>3. /\ LargestTts(pre_largest_tts)' = LargestTts(pre_largest_tts)
          /\ tts_bit' = tts_bit /\ \A i : TrimmedBits(i)' = TrimmedBits(i)
      BY <2>1 DEF LargestTts, tts_bit, TrimmedBits
    <2> QED
      BY <2>1, <2>2, <2>3 DEF Complete
  <1> QED
    BY <1>1, <1>2

\* Of a port whose sets are filled and soon enough after another, and whose quarters
\* come into use at another moment than an overflow, nothing is missing: the cascade
\* drops no record, and the filter none of the last cycle, wherever it lies.
THEOREM NothingMissing ==
  ASSUME PowersOfTwo
  PROVE  Spec /\ []Current /\ []Busy /\ []NotAtZero => []Complete
  <1> DEFINE I == OverflowInv /\ Paced /\ SilencesPast /\ DenseInv /\ Complete
  <1>1. ControllerInit => I
    <2> SUFFICES ASSUME ControllerInit
                 PROVE  I
      OBVIOUS
    <2>1. OverflowInv /\ SilencesPast
      BY InitOver, InitPast
    <2>2. start = now /\ TW_result = {}
      BY DEF ControllerInit, WindowInit
    <2>3. \A q \in Quarters, i \in Windows, j \in Indices : tw_r[q][i][j] = Empty
      BY DEF ControllerInit, WindowInit
    <2>4. second_highest \in Quarters /\ 1 - second_highest \in Quarters
      BY DEF ControllerInit, WindowInit, Quarters
    <2>5. Paced
      BY <2>3, <2>4 DEF Paced
    <2>6. DenseInv
      <3>1. now \in Nat
        BY <2>1 DEF OverflowInv, WindowInv, WindowTypes
      <3> QED
        BY <2>2, <3>1, NewUseDense DEF DenseInv, Reached
    <2>7. Complete
      BY <2>2 DEF Complete
    <2> QED
      BY <2>1, <2>5, <2>6, <2>7
  <1>2. I /\ Current /\ Busy /\ NotAtZero /\ [Next]_vars => I'
    <2> SUFFICES ASSUME I, Current, Busy, NotAtZero, [Next]_vars
                 PROVE  I'
      OBVIOUS
    <2>1. OverflowInv' /\ SilencesPast' /\ DenseInv' /\ Complete'
      BY NextOver, NextPast, NextDense, NextComplete DEF OverflowInv
    <2>2. Paced'
      BY NextPaced DEF OverflowInv
    <2> QED
      BY <2>1, <2>2
  <1>3. I => Complete
    OBVIOUS
  <1> HIDE DEF I
  <1> QED
    BY <1>1, <1>2, <1>3, PTL DEF Spec

=============================================================================
