---------------------- MODULE TimeWindowQueriesProofs ----------------------
(***************************************************************************)
(* What is proved of the queries, for any windows, intervals and signals,  *)
(* over any number of sets and overflows, of a port whose traffic is dense *)
(* (TimeWindowsOverflow): the bounds of a set enclose what it retained,    *)
(* the filter of the earlier format retains the same cells, a query over   *)
(* two sets counts no cell twice, a signal is located right, and a query   *)
(* estimates the packets of its interval.  Where the cells of two windows  *)
(* are compared, a cell is no longer than the cycle of the window before   *)
(* (ALPHA <= k); only the query of one window takes the cells of the next  *)
(* to be twice as long, as its only caller does (ALPHA = 1).               *)
(***************************************************************************)
EXTENDS TimeWindowQueries, TimeWindowsOverflow, FiniteSetTheorems, FunctionTheorems

----------------------------------------------------------------------------
(* Moments.                                                                *)

\* The middle of cell X of window i, counted from moment zero.
Middle(i, X) == X * 2^TrimmedBits(i) + 2^(TrimmedBits(i) - 1)

LEMMA Halves ==
  ASSUME PowersOfTwo, NEW i \in Windows
  PROVE  /\ 2^(TrimmedBits(i) - 1) \in Nat \ {0}
         /\ 2^TrimmedBits(i) = 2 * 2^(TrimmedBits(i) - 1)
  <1> DEFINE m == TrimmedBits(i) - 1
  <1>1. TW0_TB \in Nat \ {0} /\ ALPHA * i \in Nat
    BY Parameters DEF Windows
  <1>2. m \in Nat /\ 1 \in Nat /\ TrimmedBits(i) = 1 + m
    BY <1>1 DEF TrimmedBits
  <1> HIDE DEF m
  <1>3. 2^(1 + m) = 2^1 * 2^m /\ 2^m \in Nat \ {0}
    BY <1>2 DEF PowersOfTwo
  <1>4. 2^1 = 2
    OBVIOUS
  <1> QED
    BY <1>2, <1>3, <1>4 DEF m

\* The moment of a record is the middle of its cell.
LEMMA MomentIs ==
  ASSUME PowersOfTwo, NEW c, c.twid \in Windows, c.tts \in Int, c.wrap \in Int,
         NEW o \in Int, NEW X \in Int, X = c.tts + (c.wrap + o) * Period(c.twid)
  PROVE  Moment(c) \in Int /\ Moment(c) + o * 2^TsBits = Middle(c.twid, X)
  <1> DEFINE b == 2^TrimmedBits(c.twid)
             h == 2^(TrimmedBits(c.twid) - 1)
             p == Period(c.twid)
             t == c.tts
             w == c.wrap
  <1>1. b \in Nat \ {0} /\ p \in Nat \ {0} /\ 2^TsBits = b * p
    BY WindowSizes, Periods DEF Period
  <1>2. h \in Nat
    BY Halves
  <1>3. Moment(c) = (t * b + h) + w * 2^TsBits
    BY DEF Moment, cell_duration
  <1>4. Middle(c.twid, X) = X * b + h
    BY DEF Middle
  <1>5. X = t + (w + o) * p
    OBVIOUS
  <1>6. t \in Int /\ w \in Int
    OBVIOUS
  <1> HIDE DEF b, h, p, t, w
  <1>7. (w + o) * p \in Int /\ ((w + o) * p) * b = w * (b * p) + o * (b * p)
    BY <1>1, <1>6
  <1>8. X * b = t * b + ((w + o) * p) * b
    BY <1>1, <1>5, <1>6, <1>7
  <1>9. t * b \in Int /\ w * (b * p) \in Int /\ o * (b * p) \in Int
    BY <1>1, <1>6
  <1> QED
    BY <1>1, <1>2, <1>3, <1>4, <1>7, <1>8, <1>9

LEMMA MiddleMonotonic ==
  ASSUME PowersOfTwo, NEW i \in Windows, NEW X \in Int, NEW Y \in Int
  PROVE  /\ Middle(i, X) \in Int
         /\ X <= Y => Middle(i, X) <= Middle(i, Y)
         /\ X < Y => Middle(i, X) < Middle(i, Y)
         /\ X * 2^TrimmedBits(i) < Middle(i, X)
         /\ Middle(i, X) < (X + 1) * 2^TrimmedBits(i)
  <1> DEFINE h == 2^(TrimmedBits(i) - 1)
             b == 2^TrimmedBits(i)
  <1>1. h \in Nat \ {0} /\ b = 2 * h
    BY Halves
  <1>2. Middle(i, X) = X * b + h /\ Middle(i, Y) = Y * b + h
    BY DEF Middle
  <1> HIDE DEF h, b
  <1>3. X * b \in Int /\ Y * b \in Int /\ (X + 1) * b = X * b + b
    BY <1>1
  <1>4. X <= Y => X * b <= Y * b
    BY <1>1
  <1>5. X < Y => X * b + b <= Y * b
    <2>1. X < Y => (X + 1) * b <= Y * b
      BY <1>1
    <2> QED
      BY <1>3, <2>1
  <1>6. X * b < X * b + h /\ X * b + h < X * b + b
    BY <1>1, <1>3
  <1> QED
    BY <1>1, <1>2, <1>3, <1>4, <1>5, <1>6 DEF b

\* The latest cell of an older window begins before the cycle of a newer one does.
LEMMA StartsInOrder ==
  ASSUME PowersOfTwo, NEW x \in Int
  PROVE  \A h, i \in Windows : h < i =>
           LargestTts(x)[i] * 2^TrimmedBits(i) <= (LargestTts(x)[h] - 2^k) * 2^TrimmedBits(h)
  <1> DEFINE N == T - 1
             L == LargestTts(x)
             B(h) == (L[h] - 2^k) * 2^TrimmedBits(h)
             A(i) == L[i] * 2^TrimmedBits(i)
             S == {i \in 0 .. N : \A h \in Windows : h < i => A(i) <= B(h)}
  <1>1. N \in Nat /\ Windows = 0 .. N /\ 0 \in Windows
    BY Parameters DEF Windows
  <1>2. 2^k \in Nat /\ 2^ALPHA \in Nat \ {0}
    BY Sizes
  <1>3. /\ L \in [Windows -> Int]
        /\ \A i \in Windows : i # 0 => i - 1 \in Windows /\ L[i] = (L[i - 1] - 2^k) \div 2^ALPHA
    BY LargestTtsIs
  <1> HIDE DEF L
  <1>4. \A h \in Windows : /\ B(h) \in Int /\ A(h) \in Int /\ B(h) <= A(h)
    <2> TAKE h \in Windows
    <2> DEFINE b == 2^TrimmedBits(h)
               y == L[h]
               K == 2^k
    <2>1. b \in Nat /\ y \in Int /\ K \in Nat
      BY <1>2, <1>3, WindowSizes
    <2> HIDE DEF b, y, K
    <2>2. (y - K) * b = y * b - K * b /\ y * b \in Int /\ K * b \in Nat
      BY <2>1
    <2>3. B(h) = (y - K) * b /\ A(h) = y * b
      BY DEF y, b, K
    <2> HIDE DEF A, B
    <2> QED
      BY <2>2, <2>3
  <1>5. 0 \in S
    BY <1>1
  <1>6. ASSUME NEW i \in 1 .. N, i - 1 \in S
        PROVE  i \in S
    <2> DEFINE g == i - 1
               b == 2^TrimmedBits(g)
               m == 2^ALPHA
               y == L[g] - 2^k
    <2>1. i \in Windows /\ g \in Windows /\ g + 1 = i
      BY <1>1
    <2>2. L[i] = y \div m /\ y \in Int /\ L[i] \in Int /\ m \in Nat \ {0} /\ b \in Nat \ {0}
      BY <1>2, <1>3, <2>1, WindowSizes
    <2>3. 2^TrimmedBits(i) = b * m
      BY <2>1, NextSize
    <2>4. A(i) = (L[i] * m) * b
      <3>1. A(i) = L[i] * (b * m)
        BY <2>3
      <3> HIDE DEF A, b, m
      <3> QED
        BY <2>2, <3>1
    <2>5. A(i) <= B(g)
      <3>1. B(g) = y * b
        OBVIOUS
      <3> HIDE DEF y, b, m, A, B
      <3>2. (y \div m) * m <= y /\ (y \div m) * m \in Int
        BY <2>2, DivMod
      <3>3. ((y \div m) * m) * b <= y * b
        BY <2>2, <3>2
      <3> QED
        BY <2>2, <2>4, <3>1, <3>3
    <2>6. ASSUME NEW h \in Windows, h < i
          PROVE  A(i) <= B(h)
      <3>1. CASE h = g
        BY <2>5, <3>1
      <3>2. CASE h < g
        <4>1. A(g) <= B(h)
          BY <1>6, <3>2
        <4> HIDE DEF A, B
        <4> QED
          BY <1>4, <2>1, <2>5, <4>1
      <3> QED
        BY <1>1, <2>1, <2>6, <3>1, <3>2
    <2> QED
      BY <2>6
  <1>7. \A i \in 0 .. N : i \in S
    <2> HIDE DEF S, N
    <2> QED
      BY <1>1, <1>5, <1>6, InductionUpTo
  <1> QED
    BY <1>1, <1>7 DEF L

\* ... and is passed, by its middle, before the middle of the first of that cycle, but
\* for half a cell less one and a half of the window before.
LEMMA MiddlesInOrder ==
  ASSUME PowersOfTwo, NEW x \in Int, NEW h \in Windows, NEW i \in Windows, h < i
  PROVE  /\ i - 1 \in Windows
         /\ Middle(i, LargestTts(x)[i]) <=
              Middle(h, LargestTts(x)[h] - 2^k + 1)
                + (2^(TrimmedBits(i) - 1) - 3 * 2^(TrimmedBits(i - 1) - 1))
  <1> DEFINE L == LargestTts(x)
             g == i - 1
             K == 2^k
             bi == 2^TrimmedBits(i)
             bg == 2^TrimmedBits(g)
             bh == 2^TrimmedBits(h)
             ci == 2^(TrimmedBits(i) - 1)
             cg == 2^(TrimmedBits(g) - 1)
             ch == 2^(TrimmedBits(h) - 1)
             Li == L[i]
             Lg == L[g]
             Lh == L[h]
             li == Li * bi
             lg == Lg * bg
             lh == Lh * bh
  <1>1. g \in Windows /\ (h = g \/ h < g) /\ g < i
    BY Parameters DEF Windows
  <1>2. /\ K \in Nat /\ K >= 2
        /\ bi \in Nat /\ bg \in Nat /\ bh \in Nat
        /\ ci \in Nat /\ cg \in Nat /\ ch \in Nat
        /\ bi = 2 * ci /\ bg = 2 * cg /\ bh = 2 * ch
    BY <1>1, Sizes, WindowSizes, Halves
  <1>3. Li \in Int /\ Lg \in Int /\ Lh \in Int
    BY <1>1, LargestTtsIs
  <1>4. li <= (Lg - K) * bg /\ (h < g => lg <= (Lh - K) * bh)
    BY <1>1, StartsInOrder
  <1>5. Middle(i, Li) = li + ci /\ Middle(h, Lh - K + 1) = (Lh - K + 1) * bh + ch
    BY DEF Middle
  <1> HIDE DEF K, Li, Lg, Lh, bi, bg, bh, ci, cg, ch
  <1>6. /\ (Lg - K) * bg = lg - K * bg /\ (Lh - K) * bh = lh - K * bh
        /\ (Lh - K + 1) * bh = (lh - K * bh) + bh
        /\ li \in Int /\ lg \in Int /\ lh \in Int /\ K * bg \in Nat /\ K * bh \in Nat
    BY <1>2, <1>3
  <1>7. K * bg >= 2 * bg
    BY <1>2
  <1> HIDE DEF li, lg, lh
  <1>8. li + ci <= ((lh - K * bh) + bh) + ch + (ci - 3 * cg)
    <2>1. CASE h = g
      <3>1. bh = bg /\ lh = lg /\ ch = cg
        BY <2>1 DEF bh, bg, lh, lg, Lh, Lg, ch, cg
      <3> QED
        BY <1>2, <1>4, <1>6, <3>1
    <2>2. CASE h < g
      BY <1>2, <1>4, <1>6, <1>7, <2>2
    <2> QED
      BY <1>1, <2>1, <2>2
  <1> QED
    BY <1>1, <1>5, <1>6, <1>8 DEF Li, Lh, K, ci, cg

LEMMA MaxIs ==
  ASSUME NEW a \in Int, NEW b \in Int
  PROVE  Max({a, b}) = IF a >= b THEN a ELSE b
  <1> DEFINE c == IF a >= b THEN a ELSE b
  <1>1. c \in {a, b} /\ \A y \in {a, b} : c >= y
    OBVIOUS
  <1>2. \A x \in {a, b} : (\A y \in {a, b} : x >= y) => x = c
    OBVIOUS
  <1> HIDE DEF c
  <1> QED
    BY <1>1, <1>2 DEF Max

\* A cell of an older window comes, by its middle, no later than Behind after any cell
\* retained of a newer one.
LEMMA BehindBounds ==
  ASSUME PowersOfTwo, NEW i \in Windows
  PROVE  /\ Behind(i) \in Nat
         /\ i > 0 => Behind(i) >= 2^(TrimmedBits(i) - 1) - 3 * 2^(TrimmedBits(i - 1) - 1)
  <1>1. CASE i = 0
    BY <1>1 DEF Behind
  <1>2. CASE i > 0
    <2> DEFINE a == 2^(TrimmedBits(i) - 1)
               b == 2^(TrimmedBits(i - 1) - 1)
               c == a - 3 * b
    <2>1. a \in Nat /\ b \in Nat
      BY <1>2, Halves, Parameters DEF Windows
    <2>2. c \in Int
      BY <2>1
    <2>3. Behind(i) = Max({0, c})
      BY <1>2 DEF Behind
    <2> HIDE DEF c
    <2>4. Behind(i) \in {0, c} /\ Behind(i) >= 0 /\ Behind(i) >= c
      BY <2>2, <2>3, MaxIs
    <2> QED
      BY <2>2, <2>4 DEF c
  <1> QED
    BY <1>1, <1>2 DEF Windows

\* What is retained of an older window comes, by its moments, before all that is
\* retained of a newer one, but for Behind.
LEMMA OlderBehind ==
  ASSUME PowersOfTwo, NEW x \in Int, NEW h \in Windows, NEW i \in Windows,
         h < i, NEW X \in Int, X <= LargestTts(x)[i],
         NEW Y \in Int, LargestTts(x)[h] - 2^k < Y
  PROVE  /\ i - 1 \in Windows
         /\ Middle(i, X) <=
              Middle(h, Y) + (2^(TrimmedBits(i) - 1) - 3 * 2^(TrimmedBits(i - 1) - 1))
  <1> DEFINE L == LargestTts(x)
             z == L[h] - 2^k + 1
             d == 2^(TrimmedBits(i) - 1) - 3 * 2^(TrimmedBits(i - 1) - 1)
  <1>1. L[i] \in Int /\ L[h] \in Int /\ 2^k \in Nat
    BY LargestTtsIs, Sizes
  <1>2. z \in Int /\ z <= Y
    BY <1>1
  <1>3. i - 1 \in Windows /\ Middle(i, L[i]) <= Middle(h, z) + d
    BY MiddlesInOrder
  <1>4. d \in Int
    BY <1>3, Halves
  <1> HIDE DEF L, z, d
  <1>5. Middle(i, X) <= Middle(i, L[i]) /\ Middle(i, X) \in Int /\ Middle(i, L[i]) \in Int
    BY <1>1, MiddleMonotonic DEF L
  <1>6. Middle(h, z) <= Middle(h, Y) /\ Middle(h, z) \in Int /\ Middle(h, Y) \in Int
    BY <1>2, MiddleMonotonic
  <1>7. Middle(i, X) <= Middle(h, Y) + d
    BY <1>3, <1>4, <1>5, <1>6
  <1> QED
    BY <1>3, <1>7 DEF d

\* Where the next window's cells are twice as long, Behind is nothing.
LEMMA OlderBefore ==
  ASSUME PowersOfTwo, ALPHA = 1, NEW x \in Int, NEW h \in Windows, NEW i \in Windows,
         h < i, NEW X \in Int, X <= LargestTts(x)[i],
         NEW Y \in Int, LargestTts(x)[h] - 2^k < Y
  PROVE  Middle(i, X) < Middle(h, Y)
  <1> DEFINE ci == 2^(TrimmedBits(i) - 1)
             cg == 2^(TrimmedBits(i - 1) - 1)
  <1>1. i - 1 \in Windows /\ Middle(i, X) <= Middle(h, Y) + (ci - 3 * cg)
    BY OlderBehind
  <1>2. /\ ci \in Nat \ {0} /\ cg \in Nat \ {0}
        /\ 2^TrimmedBits(i) = 2 * ci /\ 2^TrimmedBits(i - 1) = 2 * cg
    BY <1>1, Halves
  <1>3. 2^TrimmedBits(i) = 2^TrimmedBits(i - 1) * 2
    <2>1. (i - 1) + 1 = i /\ 2^ALPHA = 2
      BY Parameters, Sizes DEF Windows
    <2> QED
      BY <1>1, <2>1, NextSize
  <1>4. Middle(i, X) \in Int /\ Middle(h, Y) \in Int
    BY MiddleMonotonic
  <1> HIDE DEF ci, cg
  <1> QED
    BY <1>1, <1>2, <1>3, <1>4

\* A window is no wider than the cycle of the one before.
LEMMA Wider ==
  ASSUME PowersOfTwo, ALPHA <= k
  PROVE  2^ALPHA <= 2^k
  <1> DEFINE d == k - ALPHA
  <1>1. d \in Nat /\ ALPHA \in Nat /\ k = ALPHA + d
    BY Parameters
  <1> HIDE DEF d
  <1>2. 2^(ALPHA + d) = 2^ALPHA * 2^d /\ 2^d \in Nat \ {0} /\ 2^ALPHA \in Nat
    BY <1>1 DEF PowersOfTwo
  <1> QED
    BY <1>1, <1>2

\* Then the latest cell of an older window ends before that of a newer one begins.
LEMMA EndsInOrder ==
  ASSUME PowersOfTwo, ALPHA <= k, NEW x \in Int, NEW h \in Windows, NEW i \in Windows, h < i
  PROVE  (LargestTts(x)[i] + 1) * 2^TrimmedBits(i) <= LargestTts(x)[h] * 2^TrimmedBits(h)
  <1> DEFINE L == LargestTts(x)
             g == i - 1
             K == 2^k
             A == 2^ALPHA
             bi == 2^TrimmedBits(i)
             bg == 2^TrimmedBits(g)
             bh == 2^TrimmedBits(h)
             li == L[i] * bi
             lg == L[g] * bg
             lh == L[h] * bh
  <1>1. g \in Windows /\ (h = g \/ h < g) /\ g < i /\ g + 1 = i
    BY Parameters DEF Windows
  <1>2. /\ K \in Nat /\ A \in Nat /\ A <= K
        /\ bi \in Nat /\ bg \in Nat /\ bh \in Nat /\ bi = bg * A
    BY <1>1, Sizes, WindowSizes, NextSize, Wider
  <1>3. L[i] \in Int /\ L[g] \in Int /\ L[h] \in Int
    BY <1>1, LargestTtsIs
  <1>4. li <= (L[g] - K) * bg /\ (h < g => lg <= (L[h] - K) * bh)
    BY <1>1, StartsInOrder
  <1> HIDE DEF K, L, A, bi, bg, bh
  <1>5. /\ (L[g] - K) * bg = lg - K * bg /\ (L[h] - K) * bh = lh - K * bh
        /\ (L[i] + 1) * bi = li + bi
        /\ li \in Int /\ lg \in Int /\ lh \in Int /\ K * bg \in Nat /\ K * bh \in Nat
    BY <1>2, <1>3
  <1>6. bi <= K * bg
    BY <1>2
  <1>7. lg <= lh
    <2>1. CASE h = g
      BY <1>5, <2>1 DEF lh, lg, bh, bg
    <2>2. CASE h < g
      BY <1>4, <1>5, <2>2
    <2> QED
      BY <1>1, <2>1, <2>2
  <1> HIDE DEF li, lg, lh
  <1>8. li + bi <= lh
    BY <1>2, <1>4, <1>5, <1>6, <1>7
  <1> QED
    BY <1>5, <1>8 DEF L, bi, bh, lh

\* In a cycle that ends at L, indices after that of L are of the cells before.
LEMMA CycleInOrder ==
  ASSUME NEW m \in Nat \ {0}, NEW L \in Int, NEW X \in Int, NEW Y \in Int,
         L - m < X, X <= L, L - m < Y, Y <= L,
         \/ X % m > L % m /\ (Y % m > L % m => X % m <= Y % m)
         \/ X % m <= L % m /\ Y % m <= L % m /\ X % m <= Y % m
  PROVE  X <= Y
  <1> DEFINE q(a) == a \div m
             r(a) == a % m
  <1>1. \A a \in {L, X, Y} : /\ q(a) \in Int /\ r(a) \in Int /\ r(a) >= 0 /\ r(a) < m
                             /\ a = q(a) * m + r(a) /\ q(a) * m \in Int
    <2> SUFFICES ASSUME NEW a \in Int
                 PROVE  /\ q(a) \in Int /\ r(a) \in Int /\ r(a) >= 0 /\ r(a) < m
                        /\ a = q(a) * m + r(a) /\ q(a) * m \in Int
      OBVIOUS
    <2>1. /\ a \div m \in Int /\ a % m \in 0 .. m - 1
          /\ a % m = a - (a \div m) * m
      BY DivMod
    <2>2. (a \div m) * m \in Int
      BY <2>1
    <2> QED
      BY <2>1, <2>2
  <1>2. \A a \in {X, Y} : \/ q(a) = q(L) /\ r(a) <= r(L)
                          \/ q(a) = q(L) - 1 /\ r(a) > r(L)
    <2> SUFFICES ASSUME NEW a \in {X, Y}
                 PROVE  \/ q(a) = q(L) /\ r(a) <= r(L)
                        \/ q(a) = q(L) - 1 /\ r(a) > r(L)
      OBVIOUS
    <2> DEFINE A == q(a)
               B == q(L)
    <2>1. L - m < a /\ a <= L /\ a \in Int
      OBVIOUS
    <2>2. A \in Int /\ B \in Int /\ a = A * m + r(a) /\ L = B * m + r(L)
          /\ r(a) \in 0 .. m - 1 /\ r(L) \in 0 .. m - 1 /\ A * m \in Int /\ B * m \in Int
      BY <1>1
    <2> HIDE DEF A, B, r, q
    <2>3. ~(A > B)
      <3>1. A > B => A * m >= (B + 1) * m /\ (B + 1) * m = B * m + m
        BY <2>2
      <3> QED
        BY <2>1, <2>2, <3>1
    <2>4. ~(A < B - 1)
      <3>1. A < B - 1 => A * m <= (B - 2) * m /\ (B - 2) * m = B * m - 2 * m
        BY <2>2
      <3> QED
        BY <2>1, <2>2, <3>1
    <2>5. CASE A = B
      BY <2>1, <2>2, <2>5 DEF A, B
    <2>6. CASE A = B - 1
      <3>1. A * m = B * m - m
        BY <2>2, <2>6
      <3> QED
        BY <2>1, <2>2, <2>6, <3>1 DEF A, B
    <2> QED
      BY <2>2, <2>3, <2>4, <2>5, <2>6
  <1>3. (q(L) - 1) * m = q(L) * m - m
    BY <1>1
  <1> HIDE DEF q, r
  <1> QED
    BY <1>1, <1>2, <1>3 DEF r

----------------------------------------------------------------------------
(* The bounds of a set.                                                    *)

\* The smallest cell is of the deepest window that retains any: the first after the
\* latest index, or else the first.
LEMMA SmallestIs ==
  ASSUME PowersOfTwo, NEW cells, cells # {}, NEW idx, NEW smallest,
         \A c \in cells : c.twid \in Windows /\ c.tts \in Nat
  PROVE  LET s == SmallestCell(cells, idx, smallest) IN
         /\ s \in cells
         /\ \A c \in cells : c.twid <= s.twid
         /\ \A c \in cells : c.twid = s.twid =>
              \/ /\ s.tts % 2^k > idx[s.twid]
                 /\ c.tts % 2^k > idx[s.twid] => s.tts % 2^k <= c.tts % 2^k
              \/ /\ ~(s.tts % 2^k > idx[s.twid]) /\ ~(c.tts % 2^k > idx[s.twid])
                 /\ s.tts % 2^k <= c.tts % 2^k
  <1> DEFINE W == {d.twid : d \in cells}
             top == Max(W)
             oldest == {c \in cells : c.twid = top}
             after == {c \in oldest : c.tts % 2^k > idx[c.twid]}
             first == IF after # {} THEN after ELSE oldest
             J == {c.tts % 2^k : c \in first}
  <1>1. top \in W /\ \A w \in W : w <= top
    <2>1. T - 1 \in Nat /\ W \in SUBSET (0 .. T - 1) /\ W # {}
      BY Parameters DEF Windows
    <2>2. \E m \in W : \A n \in W : n <= m
      <3> HIDE DEF W
      <3> QED
        BY <2>1, Greatest
    <2>3. \E m \in W : \A n \in W : m >= n
      BY <2>1, <2>2
    <2> QED
      BY <2>1, <2>3 DEF Max
  <1>2. oldest # {} /\ first # {} /\ first \subseteq oldest /\ oldest \subseteq cells
    BY <1>1
  <1>3. \E c \in first : \A d \in first : c.tts % 2^k <= d.tts % 2^k
    <2>1. J \in SUBSET Nat /\ J # {}
      <3>1. \A c \in first : c.tts \in Nat
        BY <1>2
      <3> HIDE DEF first
      <3>2. \A c \in first : c.tts % 2^k \in Nat
        BY <3>1, Sizes
      <3> QED
        BY <1>2, <3>2
    <2>2. PICK m \in J : \A n \in J : m <= n
      <3> HIDE DEF J
      <3> QED
        BY <2>1, Least
    <2> HIDE DEF first
    <2> QED
      BY <2>2
  <1> DEFINE s == CHOOSE c \in first : \A d \in first : c.tts % 2^k <= d.tts % 2^k
  <1>4. SmallestCell(cells, idx, smallest) = s
    BY DEF SmallestCell
  <1>5. s \in first /\ \A d \in first : s.tts % 2^k <= d.tts % 2^k
    <2> HIDE DEF first
    <2> QED
      BY <1>3
  <1> HIDE DEF s
  <1>6. s \in cells /\ s.twid = top /\ s \in oldest
    BY <1>2, <1>5
  <1>7. ASSUME NEW c \in cells, c.twid = s.twid
        PROVE  \/ /\ s.tts % 2^k > idx[s.twid]
                  /\ c.tts % 2^k > idx[s.twid] => s.tts % 2^k <= c.tts % 2^k
               \/ /\ ~(s.tts % 2^k > idx[s.twid]) /\ ~(c.tts % 2^k > idx[s.twid])
                  /\ s.tts % 2^k <= c.tts % 2^k
    <2>1. c \in oldest
      BY <1>6, <1>7
    <2>2. CASE after # {}
      <3>1. s \in after /\ first = after
        BY <1>5, <2>2
      <3> QED
        BY <1>5, <1>7, <2>1, <3>1
    <2>3. CASE after = {}
      <3>1. first = oldest /\ s \notin after /\ c \notin after
        BY <2>3
      <3> QED
        BY <1>5, <1>6, <1>7, <2>1, <3>1
    <2> QED
      BY <2>2, <2>3
  <1> QED
    BY <1>1, <1>4, <1>6, <1>7

\* Of the cells retained when the latest cell of the first window was C: their moments
\* are true from the origin on, and each is of the cycle that ends with the latest
\* of its window.
Describes(cells, o, C) ==
  \A c \in cells :
    /\ c.twid \in Windows /\ c.FID \in Nat /\ c.tts \in Nat /\ c.wrap \in Int
    /\ CellOf(c.twid, c.FID) = c.tts + (c.wrap + o) * Period(c.twid)
    /\ LargestTts(C)[c.twid] - 2^k < CellOf(c.twid, c.FID)
    /\ CellOf(c.twid, c.FID) <= LargestTts(C)[c.twid]

\* The index of a cell, whatever overflows its stamp leaves out.
LEMMA IndexOf ==
  ASSUME PowersOfTwo, NEW i \in Windows, NEW t \in Int, NEW n \in Int
  PROVE  (t + n * Period(i)) % 2^k = t % 2^k
  <1> DEFINE g == 2^(tts_bit - k - i * ALPHA)
             K == 2^k
  <1>1. g \in Nat /\ Period(i) = K * g /\ K \in Nat \ {0}
    BY Cycles, Sizes DEF Period
  <1> HIDE DEF g, K
  <1>2. n * (K * g) = (n * g) * K /\ n * g \in Int
    BY <1>1
  <1>3. (t + (n * g) * K) % K = t % K
    BY <1>1, <1>2, DivShift
  <1> QED
    BY <1>1, <1>2, <1>3 DEF K

LEMMA FiniteImage ==
  ASSUME NEW S, IsFiniteSet(S), NEW f
  PROVE  IsFiniteSet({f[x] : x \in S})
  <1> DEFINE U == {f[x] : x \in S}
             g == [x \in S |-> f[x]]
  <1>1. g \in Surjection(S, U)
    BY DEF Surjection
  <1> HIDE DEF g, U
  <1>2. IsFiniteSet(U)
    BY <1>1, FS_Surjection
  <1> QED
    BY <1>2 DEF U

\* What the filter returns, whatever the window holds.
LEMMA RetainedForm ==
  ASSUME PowersOfTwo, NEW i \in Windows, NEW window \in [Indices -> Cells],
         NEW l \in Int, NEW idx \in Indices, NEW wraps \in Int
  PROVE  /\ IsFiniteSet(Retained(window, i, l, idx, wraps))
         /\ \A c \in Retained(window, i, l, idx, wraps) :
              /\ c \in [FID : Int, tts : Nat, twid : Windows, wrap : Int] /\ c.twid = i
              /\ \E j \in Indices :
                   window[j] # Empty /\ c.FID = window[j].FID /\ c.tts = window[j].tts
         /\ window[idx].FID # NoFID /\ window[idx].tts = l =>
              Retained(window, i, l, idx, wraps) # {}
  <1> DEFINE upTo  == {j \in 0 .. idx : /\ window[j].FID # NoFID
                                        /\ CID(window[j].tts) = CID(l)}
             after == {j \in idx + 1 .. 2^k - 1 :
                         /\ window[j].FID # NoFID
                         /\ CIDMask(i, CID(window[j].tts) + 1) = CIDMask(i, CID(l))}
             J == upTo \cup after
             cell == [j \in J |->
                        [FID |-> window[j].FID, tts |-> window[j].tts, twid |-> i,
                         wrap |-> IF j \in after /\ CID(window[j].tts) > CID(l)
                                    THEN wraps - 1 ELSE wraps]]
  <1>1. Retained(window, i, l, idx, wraps) = {cell[j] : j \in J}
    BY DEF Retained
  <1>2. J \subseteq Indices
    BY Sizes DEF Indices
  <1>3. IsFiniteSet(J)
    <2>1. 0 \in Int /\ 2^k - 1 \in Int
      BY Sizes
    <2>2. IsFiniteSet(Indices)
      BY <2>1, FS_Interval DEF Indices
    <2> HIDE DEF J
    <2> QED
      BY <1>2, <2>2, FS_Subset
  <1>4. IsFiniteSet({cell[j] : j \in J})
    <2> HIDE DEF J, cell
    <2> QED
      BY <1>3, FiniteImage
  <1>5. ASSUME NEW c \in Retained(window, i, l, idx, wraps)
        PROVE  /\ c \in [FID : Int, tts : Nat, twid : Windows, wrap : Int] /\ c.twid = i
               /\ \E j \in Indices :
                    window[j] # Empty /\ c.FID = window[j].FID /\ c.tts = window[j].tts
    <2>1. PICK j \in J : c = cell[j]
      BY <1>1
    <2>2. j \in Indices /\ window[j].FID # NoFID /\ window[j] \in Cells
      BY <1>2, <2>1
    <2>3. window[j] # Empty
      BY <2>2 DEF Empty
    <2>4. window[j].FID \in Int /\ window[j].tts \in Nat
      BY <2>2 DEF Cells
    <2>5. (IF j \in after /\ CID(window[j].tts) > CID(l) THEN wraps - 1 ELSE wraps) \in Int
      OBVIOUS
    <2>6. c = [FID |-> window[j].FID, tts |-> window[j].tts, twid |-> i,
               wrap |-> IF j \in after /\ CID(window[j].tts) > CID(l)
                          THEN wraps - 1 ELSE wraps]
      BY <2>1
    <2> HIDE DEF after, J, cell
    <2> QED
      BY <2>2, <2>3, <2>4, <2>5, <2>6
  <1>6. ASSUME window[idx].FID # NoFID, window[idx].tts = l
        PROVE  {cell[j] : j \in J} # {}
    <2>1. idx \in upTo
      BY <1>6, Sizes DEF Indices
    <2> QED
      BY <2>1
  <1> QED
    BY <1>1, <1>4, <1>5, <1>6

Kept == [FID : Int, tts : Nat, twid : Windows, wrap : Int]

\* A filled set, as the filter describes it.
LEMMA PollDescribes ==
  ASSUME PowersOfTwo, OverflowInv, Current, Filled, Poll
  PROVE  LET R == tw_r[second_highest]
             r == LargestCell(R[0])
             C == LatestCell' IN
         /\ C \in Nat /\ CellOf(0, start) <= C /\ C <= CellOf(0, now)
         /\ r.idx \in Indices /\ r.tts \in Nat
         /\ C = CellOf(0, R[0][r.idx].FID) /\ C = r.tts + (wrapping' + origin') * Period(0)
         /\ wrapping' \in Nat /\ origin' \in Nat
         /\ \A i \in Windows : (IF i = 0 THEN r.idx ELSE LargestTts(r.tts)[i] % 2^k)
                                 = LargestTts(C)[i] % 2^k
         /\ ~ \A i \in Windows, j \in Indices : R[i][j].FID = NoFID
         /\ TW_result' # {} /\ IsFiniteSet(TW_result') /\ TW_result' \subseteq Kept
         /\ Describes(TW_result', origin', C)
         /\ \A c \in TW_result' : \E j \in Indices :
              R[c.twid][j] # Empty /\ c.FID = R[c.twid][j].FID
  <1> DEFINE R == tw_r[second_highest]
             r == LargestCell(R[0])
             f == R[0][r.idx].FID
             C == CellOf(0, f)
             n == wrapping' + origin'
             L == LargestTts(C)
             l == LargestTts(r.tts)
             idx(i) == IF i = 0 THEN r.idx ELSE l[i] % 2^k
             S(i) == Retained(R[i], i, l[i], idx(i), wrapping')
  <1>1. WindowInv /\ RecordsFollow /\ Uses
    BY DEF OverflowInv
  <1>2. second_highest \in Quarters /\ 0 \in Windows /\ R \in [Windows -> [Indices -> Cells]]
    BY <1>1, Parameters DEF WindowInv, WindowTypes
  <1>3. /\ r.idx \in Indices /\ r.tts = R[0][r.idx].tts
        /\ \A j \in Indices : CellOf(0, R[0][j].FID) <= C
        /\ wrapping' \in Nat /\ origin' \in Nat /\ n \in Nat
        /\ C \in Nat /\ r.tts = C % 2^tts_bit /\ C = r.tts + n * 2^tts_bit
        /\ TW_result' = UNION {S(i) : i \in Windows}
    BY PollCounts
  <1>4. /\ R[0][r.idx] # Empty /\ f \in Nat /\ r.idx = r.tts % 2^k
        /\ CellOf(0, start) <= C /\ C <= CellOf(0, now)
    BY <1>1, <1>3, SetCells
  <1>5. ~ \A i \in Windows, j \in Indices : R[i][j].FID = NoFID
    <2>1. f # NoFID
      <3> HIDE DEF f
      <3> QED
        BY <1>4 DEF NoFID
    <2> HIDE DEF r
    <2> QED
      BY <1>2, <1>3, <2>1
  <1>6. r.tts \in Nat
    BY <1>2, <1>3 DEF Cells
  <1>7. LatestCell' = C
    <2>1. pre_largest_tts' = r.tts
      BY <1>5 DEF Poll
    <2> QED
      BY <1>3, <2>1 DEF LatestCell, tts_bit
  <1> HIDE DEF r, f, C, n
  <1>8. /\ L \in [Windows -> Int]
        /\ \A c \in TW_result' :
             /\ c.twid \in Windows /\ c.FID \in Nat
             /\ \E j \in Indices : R[c.twid][j] # Empty /\ c.FID = R[c.twid][j].FID
             /\ CellOf(c.twid, c.FID) = c.tts + (c.wrap + origin') * Period(c.twid)
             /\ L[c.twid] - 2^k < CellOf(c.twid, c.FID)
    BY PollRetains DEF r, f, C
  <1>9. \A i \in Windows, j \in Indices : R[i][j] # Empty => CellOf(i, R[i][j].FID) <= L[i]
    BY <1>1, <1>2, <1>3, LatestBounds
  <1>10. l \in [Windows -> Int] /\ l[0] = r.tts /\ Period(0) = 2^tts_bit
    BY <1>6, LargestTtsIs, Periods
  <1>11. \A i \in Windows : L[i] = l[i] + n * Period(i)
    BY <1>3, <1>6, LargestTtsShift
  <1>12. \A i \in Windows : idx(i) \in Indices /\ idx(i) = L[i] % 2^k
    <2> TAKE i \in Windows
    <2>1. l[i] \in Int /\ n \in Int
      BY <1>3, <1>10
    <2> HIDE DEF l, L
    <2>2. L[i] % 2^k = l[i] % 2^k
      <3>1. (l[i] + n * Period(i)) % 2^k = l[i] % 2^k
        BY <2>1, IndexOf
      <3> QED
        BY <1>11, <3>1
    <2>3. l[i] % 2^k \in Indices
      BY <2>1, Sizes DEF Indices
    <2> QED
      BY <1>3, <1>4, <1>10, <2>2, <2>3
  <1> HIDE DEF R, l, L, idx
  <1>13. \A i \in Windows :
           /\ IsFiniteSet(S(i))
           /\ \A c \in S(i) : c \in Kept
    <2> TAKE i \in Windows
    <2>1. R[i] \in [Indices -> Cells] /\ l[i] \in Int /\ wrapping' \in Int
      BY <1>2, <1>3, <1>10
    <2> QED
      BY <1>12, <2>1, RetainedForm DEF Kept
  <1>14. S(0) # {}
    <2>1. R[0] \in [Indices -> Cells] /\ l[0] \in Int /\ wrapping' \in Int
      <3>1. R[0] \in [Indices -> Cells] /\ l[0] \in Int
        BY <1>2, <1>10
      <3> QED
        BY <1>3, <3>1
    <2>2. idx(0) = r.idx
      BY DEF idx
    <2>3. R[0][r.idx].FID # NoFID
      <3>1. f # NoFID
        BY <1>4 DEF NoFID
      <3> QED
        BY <3>1 DEF f, R
    <2>4. R[0][r.idx].tts = l[0]
      BY <1>3, <1>10 DEF R
    <2> QED
      BY <1>2, <1>12, <2>1, <2>2, <2>3, <2>4, RetainedForm
  <1>15. IsFiniteSet({S(i) : i \in Windows})
    <2> DEFINE g == [i \in Windows |-> S(i)]
    <2>1. 0 \in Int /\ T - 1 \in Int
      BY Parameters
    <2>2. IsFiniteSet(Windows)
      BY <2>1, FS_Interval DEF Windows
    <2>3. {S(i) : i \in Windows} = {g[i] : i \in Windows}
      OBVIOUS
    <2> HIDE DEF g
    <2> QED
      BY <2>2, <2>3, FiniteImage
  <1> HIDE DEF S
  <1>16. IsFiniteSet(TW_result')
    BY <1>3, <1>13, <1>15, FS_UNION
  <1>17. TW_result' # {} /\ TW_result' \subseteq Kept
    BY <1>2, <1>3, <1>13, <1>14
  <1>18. Describes(TW_result', origin', C)
    <2>1. \A c \in TW_result' : c.tts \in Nat /\ c.wrap \in Int
      BY <1>17 DEF Kept
    <2>2. \A c \in TW_result' : CellOf(c.twid, c.FID) <= L[c.twid]
      BY <1>8, <1>9
    <2> QED
      BY <1>8, <2>1, <2>2 DEF Describes, L
  <1> QED
    BY <1>3, <1>4, <1>5, <1>6, <1>7, <1>8, <1>10, <1>12, <1>16, <1>17, <1>18
      DEF R, r, f, C, n, idx, l, L

\* The moment of a cell described, true from the origin on.
LEMMA DescribedMoment ==
  ASSUME PowersOfTwo, NEW cells, NEW o \in Int, NEW C, Describes(cells, o, C),
         NEW c \in cells
  PROVE  /\ c.twid \in Windows /\ c.FID \in Nat /\ Moment(c) \in Int
         /\ CellOf(c.twid, c.FID) \in Nat
         /\ Moment(c) + o * 2^TsBits = Middle(c.twid, CellOf(c.twid, c.FID))
         /\ CellOf(c.twid, c.FID) % 2^k = c.tts % 2^k
  <1> DEFINE X == CellOf(c.twid, c.FID)
  <1>1. /\ c.twid \in Windows /\ c.FID \in Nat /\ c.tts \in Int /\ c.wrap \in Int
        /\ X = c.tts + (c.wrap + o) * Period(c.twid)
    BY DEF Describes
  <1>2. X \in Nat
    BY <1>1, StampOfCell
  <1>3. c.wrap + o \in Int
    BY <1>1
  <1> HIDE DEF X
  <1>4. Moment(c) \in Int /\ Moment(c) + o * 2^TsBits = Middle(c.twid, X)
    BY <1>1, <1>2, MomentIs
  <1>5. X % 2^k = c.tts % 2^k
    BY <1>1, <1>3, IndexOf
  <1> QED
    BY <1>1, <1>2, <1>4, <1>5 DEF X

\* The smallest cell is the first of all that is retained, but for Behind, and the
\* latest cell of the first window the last.
LEMMA DescribedBounds ==
  ASSUME PowersOfTwo, ALPHA <= k, NEW cells, cells # {}, NEW o \in Int, NEW C \in Int,
         Describes(cells, o, C), NEW smallest,
         NEW idx, \A i \in Windows : idx[i] = LargestTts(C)[i] % 2^k
  PROVE  LET s == SmallestCell(cells, idx, smallest) IN
         /\ s \in cells
         /\ \A c \in cells : /\ Moment(s) <= Moment(c) + Behind(s.twid)
                             /\ Moment(c) + o * 2^TsBits <= Middle(0, C)
  <1> DEFINE s == SmallestCell(cells, idx, smallest)
             K == 2^k
             L == LargestTts(C)
             X(c) == CellOf(c.twid, c.FID)
             P == 2^TsBits
  <1>1. K \in Nat \ {0} /\ P \in Nat \ {0} /\ 0 \in Windows
    BY Sizes, Parameters
  <1>2. L \in [Windows -> Int] /\ L[0] = C
    BY LargestTtsIs
  <1>3. \A c \in cells : /\ c.twid \in Windows /\ Moment(c) \in Int /\ X(c) \in Nat
                         /\ Moment(c) + o * P = Middle(c.twid, X(c))
                         /\ X(c) % K = c.tts % K
    BY DescribedMoment
  <1>4. \A c \in cells : c.tts \in Nat /\ L[c.twid] - K < X(c) /\ X(c) <= L[c.twid]
    BY DEF Describes
  <1>5. /\ s \in cells
        /\ \A c \in cells : c.twid <= s.twid
        /\ \A c \in cells : c.twid = s.twid =>
             \/ /\ s.tts % K > idx[s.twid]
                /\ c.tts % K > idx[s.twid] => s.tts % K <= c.tts % K
             \/ /\ ~(s.tts % K > idx[s.twid]) /\ ~(c.tts % K > idx[s.twid])
                /\ s.tts % K <= c.tts % K
    BY <1>3, <1>4, SmallestIs
  <1> HIDE DEF s
  <1>6. ASSUME NEW c \in cells
        PROVE  Moment(s) <= Moment(c) + Behind(s.twid)
    <2> DEFINE i == s.twid
               h == c.twid
    <2>1. i \in Windows /\ h \in Windows /\ i \in Int /\ h \in Int /\ h <= i
      BY <1>3, <1>5 DEF Windows
    <2>2. L[i] \in Int /\ L[h] \in Int
      BY <1>2, <2>1
    <2> DEFINE B == Behind(i)
    <2>3. B \in Nat /\ Middle(i, X(s)) <= Middle(h, X(c)) + B
      <3>1. CASE h = i
        <4> DEFINE x == X(s)
                   y == X(c)
                   l == L[i]
        <4>1. l - K < x /\ x <= l /\ l - K < y /\ y <= l
          BY <1>4, <1>5, <3>1
        <4>2. x % K = s.tts % K /\ y % K = c.tts % K /\ idx[i] = l % K
          BY <1>3, <1>5, <2>1
        <4>3. x \in Int /\ y \in Int /\ l \in Int
          BY <1>3, <1>5, <2>2
        <4>4. \/ /\ s.tts % K > idx[i]
                 /\ c.tts % K > idx[i] => s.tts % K <= c.tts % K
              \/ /\ ~(s.tts % K > idx[i]) /\ ~(c.tts % K > idx[i])
                 /\ s.tts % K <= c.tts % K
          BY <1>5, <3>1
        <4> HIDE DEF x, y, l, i, K
        <4>5. \/ x % K > l % K /\ (y % K > l % K => x % K <= y % K)
              \/ ~(x % K > l % K) /\ ~(y % K > l % K) /\ x % K <= y % K
          BY <4>2, <4>4
        <4>6. x % K \in Int /\ y % K \in Int /\ l % K \in Int
          BY <1>1, <4>3
        <4>7. x <= y
          <5>1. \/ x % K > l % K /\ (y % K > l % K => x % K <= y % K)
                \/ x % K <= l % K /\ y % K <= l % K /\ x % K <= y % K
            BY <4>5, <4>6
          <5>2. K \in Nat \ {0}
            BY <1>1
          <5> QED
            BY <4>1, <4>3, <5>1, <5>2, CycleInOrder
        <4>8. /\ Middle(i, x) <= Middle(i, y)
              /\ Middle(i, x) \in Int /\ Middle(i, y) \in Int
          BY <2>1, <4>3, <4>7, MiddleMonotonic
        <4>9. B \in Nat
          BY <2>1, BehindBounds
        <4> HIDE DEF B
        <4> QED
          BY <3>1, <4>8, <4>9 DEF x, y
      <3>2. CASE h < i
        <4>1. X(s) \in Int /\ X(s) <= L[i] /\ X(c) \in Int /\ L[h] - K < X(c)
          BY <1>3, <1>4, <1>5
        <4> DEFINE d == 2^(TrimmedBits(i) - 1) - 3 * 2^(TrimmedBits(i - 1) - 1)
        <4>2. i - 1 \in Windows /\ Middle(i, X(s)) <= Middle(h, X(c)) + d
          BY <2>1, <3>2, <4>1, OlderBehind
        <4>3. Middle(i, X(s)) \in Int /\ Middle(h, X(c)) \in Int
          BY <2>1, <4>1, MiddleMonotonic
        <4>4. d \in Int
          BY <2>1, <4>2, Halves
        <4>5. B \in Nat /\ B >= d
          <5>1. i > 0
            BY <2>1, <3>2 DEF Windows
          <5> QED
            BY <2>1, <5>1, BehindBounds
        <4> HIDE DEF B, d
        <4> QED
          BY <4>2, <4>3, <4>4, <4>5
      <3> QED
        BY <2>1, <3>1, <3>2
    <2>4. /\ Moment(s) + o * P = Middle(i, X(s)) /\ Moment(c) + o * P = Middle(h, X(c))
          /\ Moment(s) \in Int /\ Moment(c) \in Int /\ o * P \in Int
      BY <1>1, <1>3, <1>5
    <2>5. Middle(i, X(s)) \in Int /\ Middle(h, X(c)) \in Int
      BY <1>3, <1>5, <2>1, MiddleMonotonic
    <2>6. Moment(s) <= Moment(c) + B
      <3> HIDE DEF i, h, X, P, B
      <3> QED
        BY <2>3, <2>4, <2>5
    <2> QED
      BY <2>6
  <1>7. ASSUME NEW c \in cells
        PROVE  Moment(c) + o * P <= Middle(0, C)
    <2> DEFINE h == c.twid
    <2>1. h \in Windows /\ h \in Nat /\ X(c) \in Int /\ X(c) <= L[h]
      BY <1>3, <1>4 DEF Windows
    <2>2. CASE h = 0
      BY <1>1, <1>2, <1>3, <2>1, <2>2, MiddleMonotonic
    <2>3. CASE h > 0
      <3> DEFINE b == 2^TrimmedBits(h)
                 a == 2^TrimmedBits(0)
                 l == L[h]
      <3>1. (l + 1) * b <= C * a
        BY <1>1, <1>2, <2>1, <2>3, EndsInOrder
      <3>2. Middle(h, X(c)) <= Middle(h, l) /\ Middle(h, l) < (l + 1) * b
        BY <1>2, <2>1, MiddleMonotonic
      <3>3. C * a < Middle(0, C) /\ Middle(0, C) \in Int
        BY <1>1, MiddleMonotonic
      <3>4. /\ Middle(h, X(c)) \in Int /\ Middle(h, l) \in Int
            /\ (l + 1) * b \in Int /\ C * a \in Int
        BY <1>1, <1>2, <2>1, WindowSizes, MiddleMonotonic
      <3>5. Middle(h, X(c)) <= Middle(0, C)
        <4> HIDE DEF l, a, b, X, h
        <4> QED
          BY <3>1, <3>2, <3>3, <3>4
      <3> QED
        BY <1>3, <3>5
    <2> QED
      BY <2>1, <2>2, <2>3
  <1> QED
    BY <1>5, <1>6, <1>7 DEF s, P

\* What a set is described by: the moment of the first cell it retains, but for Behind,
\* and a moment that none it retains comes after.
Enclosed(s) ==
  /\ s \in [sts : Int, lts : Int, smallest : Kept, TW_result : SUBSET Kept]
  /\ IsFiniteSet(s.TW_result)
  /\ s.smallest \in s.TW_result /\ s.sts = Moment(s.smallest)
  /\ \A c \in s.TW_result : /\ Moment(c) \in Int
                            /\ s.sts <= Moment(c) + Behind(s.smallest.twid)
                            /\ Moment(c) <= s.lts

LEMMA LoadAppends ==
  ASSUME PowersOfTwo, OverflowInv, Current, Filled, LoadSet
  PROVE  LET R == tw_r[second_highest]
             smallest == IF TW_registers = <<>> THEN NoCell
                         ELSE TW_registers[Len(TW_registers)].smallest
         IN TW_registers' = Append(TW_registers, Bounds(R, TW_result', wrapping', smallest))
  <1>1. Poll
    BY DEF LoadSet
  <1>2. ~ \A i \in Windows, j \in Indices : tw_r[second_highest][i][j].FID = NoFID
    BY <1>1, PollDescribes
  <1> QED
    BY <1>2 DEF LoadSet

LEMMA LoadEncloses ==
  ASSUME PowersOfTwo, ALPHA <= k, OverflowInv, Current, Filled, LoadSet
  PROVE  \E s : /\ TW_registers' = Append(TW_registers, s)
                /\ Enclosed(s) /\ s.TW_result = TW_result'
                /\ s.lts + origin' * 2^TsBits = Middle(0, LatestCell')
  <1> DEFINE R == tw_r[second_highest]
             smallest == IF TW_registers = <<>> THEN NoCell
                         ELSE TW_registers[Len(TW_registers)].smallest
             r == LargestCell(R[0])
             l == LargestTts(r.tts)
             idx == [i \in Windows |-> IF i = 0 THEN r.idx ELSE l[i] % 2^k]
             cells == TW_result'
             cell == SmallestCell(cells, idx, smallest)
             o == origin'
             w == wrapping'
             C == LatestCell'
             P == 2^TsBits
             last == [tts |-> r.tts, twid |-> 0, wrap |-> w]
             lts == Moment(last)
             s == [sts |-> Moment(cell), lts |-> lts, smallest |-> cell, TW_result |-> cells]
  <1>1. TW_registers' = Append(TW_registers, s)
    <2>1. lts = cell_duration(r.tts, 0)[3] + w * P
      BY DEF Moment
    <2>2. Bounds(R, cells, w, smallest) = s
      BY <2>1 DEF Bounds
    <2> QED
      BY <2>2, LoadAppends
  <1>2. /\ C \in Nat /\ r.tts \in Nat /\ C = r.tts + (w + o) * Period(0)
        /\ w \in Nat /\ o \in Nat
        /\ \A i \in Windows : (IF i = 0 THEN r.idx ELSE l[i] % 2^k) = LargestTts(C)[i] % 2^k
        /\ cells # {} /\ IsFiniteSet(cells) /\ cells \subseteq Kept
        /\ Describes(cells, o, C)
    BY PollDescribes DEF LoadSet
  <1>3. \A i \in Windows : idx[i] = LargestTts(C)[i] % 2^k
    BY <1>2
  <1>4. 0 \in Windows /\ P \in Nat
    BY Parameters, Sizes
  <1> HIDE DEF r, idx, cells, o, w, C, P, smallest
  <1>5. /\ cell \in cells
        /\ \A c \in cells : /\ Moment(cell) <= Moment(c) + Behind(cell.twid)
                            /\ Moment(c) + o * P <= Middle(0, C)
    <2>1. o \in Int /\ C \in Int /\ cells # {} /\ Describes(cells, o, C)
      BY <1>2
    <2>2. LET c == SmallestCell(cells, idx, smallest) IN
          /\ c \in cells
          /\ \A d \in cells : /\ Moment(c) <= Moment(d) + Behind(c.twid)
                              /\ Moment(d) + o * 2^TsBits <= Middle(0, C)
      BY <1>3, <2>1, DescribedBounds
    <2> QED
      BY <2>2 DEF P
  <1>6. lts \in Int /\ lts + o * P = Middle(0, C)
    <2>1. last.twid = 0 /\ last.tts = r.tts /\ last.wrap = w
      OBVIOUS
    <2> HIDE DEF last
    <2>2. /\ last.twid \in Windows /\ last.tts \in Int /\ last.wrap \in Int
          /\ o \in Int /\ C \in Int /\ C = last.tts + (last.wrap + o) * Period(last.twid)
      BY <1>2, <1>4, <2>1
    <2> QED
      BY <2>1, <2>2, MomentIs DEF P
  <1>7. \A c \in cells : Moment(c) \in Int
    BY <1>2, DescribedMoment
  <1>8. \A c \in cells : Moment(c) <= lts
    <2> TAKE c \in cells
    <2>1. Moment(c) \in Int /\ o * P \in Int
      BY <1>2, <1>4, <1>7
    <2> HIDE DEF lts
    <2> QED
      BY <1>5, <1>6, <2>1
  <1> HIDE DEF lts, cell
  <1>9. Enclosed(s)
    <2>1. s \in [sts : Int, lts : Int, smallest : Kept, TW_result : SUBSET Kept]
      BY <1>2, <1>5, <1>6, <1>7
    <2> QED
      BY <1>2, <1>5, <1>7, <1>8, <2>1 DEF Enclosed
  <1>10. s.TW_result = cells /\ s.lts + o * P = Middle(0, C)
    BY <1>6
  <1> HIDE DEF s
  <1> QED
    BY <1>1, <1>9, <1>10 DEF cells, o, P, C

\* The queries add nothing to what the polls do.
LEMMA QueriesFollowPolls == QueriesSpec => Spec
  <1>1. QueriesInit => ControllerInit
    BY DEF QueriesInit
  <1>2. [QueriesNext]_queryVars => [Next]_vars
    BY DEF QueriesNext, queryVars, Fill, LoadSet, Next, vars
  <1> QED
    BY <1>1, <1>2, PTL DEF QueriesSpec, Spec

LEMMA NowOverflows ==
  ASSUME PowersOfTwo
  PROVE  QueriesSpec /\ []Current /\ []Busy => []OverflowInv
  BY QueriesFollowPolls, OverflowInvariant, PTL

\* A set that holds something has just been polled, or nothing happened.
LEMMA JustLoaded ==
  ASSUME PowersOfTwo, WindowInv, Uses, [QueriesNext]_queryVars, JustPolled'
  PROVE  (LoadSet /\ Poll) \/ UNCHANGED queryVars
  <1>1. now \in Nat /\ start \in Nat /\ start <= now /\ now' = start'
    BY DEF Uses, WindowInv, WindowTypes, JustPolled
  <1>2. CASE Fill
    <2>1. CASE Packet
      <3>1. start' = start /\ now' \in Nat /\ now < now'
        BY <2>1, PacketWrites DEF Packet
      <3> QED
        BY <1>1, <3>1
    <2>2. CASE Silence
      <3>1. PICK d \in Spells : now' = now + d
        BY <2>2 DEF Silence
      <3>2. d \in Nat \ {0} /\ start' = start
        BY <2>2, WindowsAssumption DEF Silence
      <3>3. now + d > start
        BY <1>1, <3>2
      <3>4. now + d = start
        BY <1>1, <3>1, <3>2
      <3> QED
        BY <1>1, <3>3, <3>4
    <2> QED
      BY <1>2, <2>1, <2>2 DEF Fill, Traffic
  <1>3. CASE LoadSet
    BY <1>3 DEF LoadSet
  <1> QED
    BY <1>2, <1>3 DEF QueriesNext

\* And it was filled.
LEMMA SetJustPolled ==
  ASSUME PowersOfTwo, OverflowInv, Busy, [QueriesNext]_queryVars, JustPolled'
  PROVE  (LoadSet /\ Poll /\ Filled) \/ UNCHANGED queryVars
  <1> SUFFICES ASSUME LoadSet, Poll, ~Filled
               PROVE  FALSE
    BY JustLoaded DEF OverflowInv
  <1>1. now >= due
    BY DEF Poll, Retire
  <1>2. \A i \in Windows, j \in Indices : tw_r[second_highest][i][j] = Empty
    BY <1>1 DEF Busy
  <1>3. \A i \in Windows, j \in Indices : tw_r[second_highest][i][j].FID = NoFID
    BY <1>2 DEF Empty
  <1>4. TW_result' = {}
    BY <1>3 DEF Poll
  <1>5. TW_result' # {}
    BY DEF JustPolled
  <1> QED
    BY <1>4, <1>5

\* lts is after all a set retained, and sts before all but for Behind of the deepest
\* window that retains a cell, over an overflow and from any set to the next.  Behind is
\* 0 for cells twice as long in each window (ALPHA = 1): sts is then before them all.
\* The cells of a window may be as much longer than those of the one before as its
\* indices allow.
THEOREM BoundsEnclose ==
  ASSUME PowersOfTwo, ALPHA <= k
  PROVE  QueriesSpec /\ []Current /\ []Busy => []SetBounds
  <1>1. QueriesInit => SetBounds
    BY DEF QueriesInit, ControllerInit, SetBounds, JustPolled
  <1>2. ASSUME OverflowInv, Current, Busy, SetBounds, [QueriesNext]_queryVars
        PROVE  SetBounds'
    <2> SUFFICES ASSUME JustPolled'
                 PROVE  LET s == TW_registers'[Len(TW_registers')]
                        IN \A c \in s.TW_result : /\ s.sts <= Moment(c) + Behind(s.smallest.twid)
                                                  /\ Moment(c) <= s.lts
      BY DEF SetBounds, Moment, cell_duration, TrimmedBits, Behind
    <2>1. CASE LoadSet /\ Filled
      <3>1. PICK s : TW_registers' = Append(TW_registers, s) /\ Enclosed(s)
        BY <1>2, <2>1, LoadEncloses
      <3>2. TW_registers'[Len(TW_registers')] = s
        BY <1>2, <3>1
      <3> QED
        BY <3>1, <3>2 DEF Enclosed
    <2>2. CASE UNCHANGED queryVars
      BY <1>2, <2>2 DEF SetBounds, queryVars, JustPolled, vars, windowVars
    <2> QED
      BY <1>2, <2>1, <2>2, SetJustPolled
  <1> QED
    BY <1>1, <1>2, NowOverflows, PTL DEF QueriesSpec

----------------------------------------------------------------------------
(* The earlier filter.                                                     *)

\* Where no stamp is later than the latest, the masks leave nothing out.
LEMMA MasksAgree ==
  ASSUME PowersOfTwo, NEW i \in Windows, NEW tts \in Nat, NEW l \in Int,
         tts <= l, l < Period(i)
  PROVE  CIDMask(i, CID(tts) + 1) = CIDMask(i, CID(l)) <=> CID(tts) + 1 = CID(l)
  <1> DEFINE K == 2^k
             e == 2^(tts_bit - k - i * ALPHA)
             a == tts \div K
             b == l \div K
  <1>1. e \in Nat /\ e >= 2 /\ Period(i) = K * e /\ K \in Nat \ {0}
    BY Cycles, Sizes DEF Period
  <1>2. CIDMask(i, CID(tts) + 1) = (a + 1) % e /\ CIDMask(i, CID(l)) = b % e
    BY DEF CIDMask, CID
  <1>3. CID(tts) = a /\ CID(l) = b
    BY DEF CID
  <1> HIDE DEF K, e
  <1>4. l \in Nat /\ l < K * e
    BY <1>1
  <1>5. a \in Nat /\ b \in Nat /\ a <= b /\ b < e
    <2>1. b < e /\ a <= b
      BY <1>1, <1>4, DivBelow, DivMonotonic
    <2> QED
      BY <1>1, <1>4, <2>1, Divided
  <1> HIDE DEF a, b
  <1>6. b % e = b
    BY <1>1, <1>5, ModSmall
  <1>7. CASE a + 1 < e
    <2>1. (a + 1) % e = a + 1
      BY <1>1, <1>5, <1>7, ModSmall
    <2> QED
      BY <1>2, <1>3, <1>6, <2>1
  <1>8. CASE a + 1 = e
    <2>1. 1 * e <= a + 1 /\ a + 1 < (1 + 1) * e
      BY <1>1, <1>5, <1>8
    <2>2. (a + 1) % e = (a + 1) - 1 * e
      <3> DEFINE y == a + 1
      <3>1. y \in Int /\ e \in Nat \ {0} /\ 1 \in Int
        BY <1>1, <1>5
      <3> HIDE DEF y
      <3>2. y % e = y - 1 * e
        BY <2>1, <3>1, DivIs DEF y
      <3> QED
        BY <3>2 DEF y
    <2>3. (a + 1) % e # b
      BY <1>1, <1>5, <1>8, <2>2
    <2> QED
      BY <1>1, <1>2, <1>3, <1>5, <1>6, <1>8, <2>3
  <1> QED
    BY <1>1, <1>5, <1>7, <1>8

\* The indices of a window that the earlier filter retains.
Stale(window, l, idx) ==
  {j \in Indices : /\ window[j].tts # 0
                   /\ CID(window[j].tts) + (IF j > idx THEN 1 ELSE 0) = CID(l)}

\* In a window where none is greater than its latest, both filters retain the same.
LEMMA FilterAgrees ==
  ASSUME PowersOfTwo, NEW i \in Windows, NEW W \in [Indices -> Cells],
         NEW l \in Int, l < Period(i), NEW idx \in Indices, NEW wraps \in Int,
         \A j \in Indices : W[j] # Empty => W[j].FID # NoFID /\ W[j].tts <= l
  PROVE  LET S == Retained(W, i, l, idx, wraps) IN
         /\ \A c \in S : c.tts # 0 => \E j \in Stale(W, l, idx) :
              c.FID = W[j].FID /\ c.tts = W[j].tts /\ c.twid = i
         /\ \A j \in Stale(W, l, idx) : \E c \in S :
              c.FID = W[j].FID /\ c.tts = W[j].tts /\ c.twid = i /\ c.tts # 0
  <1> DEFINE upTo  == {j \in 0 .. idx : /\ W[j].FID # NoFID
                                        /\ CID(W[j].tts) = CID(l)}
             after == {j \in idx + 1 .. 2^k - 1 :
                         /\ W[j].FID # NoFID
                         /\ CIDMask(i, CID(W[j].tts) + 1) = CIDMask(i, CID(l))}
             cell(j) == [FID |-> W[j].FID, tts |-> W[j].tts, twid |-> i,
                         wrap |-> IF j \in after /\ CID(W[j].tts) > CID(l)
                                    THEN wraps - 1 ELSE wraps]
             S == Retained(W, i, l, idx, wraps)
  <1>1. S = {cell(j) : j \in upTo \cup after}
    BY DEF Retained
  <1>2. 2^k \in Nat \ {0} /\ Indices = 0 .. 2^k - 1
    BY Sizes DEF Indices
  <1>3. upTo \cup after \subseteq Indices
    BY <1>2
  <1>4. ASSUME NEW j \in Indices, W[j].tts # 0
        PROVE  j \in Stale(W, l, idx) <=> j \in upTo \cup after
    <2> DEFINE t == W[j].tts
               K == 2^k
    <2>1. W[j] # Empty /\ t \in Nat
      BY <1>4 DEF Empty, Cells
    <2>2. W[j].FID # NoFID /\ t <= l
      BY <2>1
    <2>3. CIDMask(i, CID(t) + 1) = CIDMask(i, CID(l)) <=> CID(t) + 1 = CID(l)
      <3> HIDE DEF t
      <3> QED
        BY <2>1, <2>2, MasksAgree
    <2>4. j \in upTo <=> j \in 0 .. idx /\ CID(t) = CID(l)
      BY <2>2
    <2>5. j \in after <=> j \in idx + 1 .. K - 1 /\ CID(t) + 1 = CID(l)
      BY <2>2, <2>3
    <2>6. j \in Stale(W, l, idx) <=> CID(t) + (IF j > idx THEN 1 ELSE 0) = CID(l)
      BY <1>4 DEF Stale
    <2> HIDE DEF t, K, upTo, after
    <2>7. CID(t) \in Int /\ CID(l) \in Int
      <3>1. K \in Nat \ {0}
        BY <1>2 DEF K
      <3>2. t \div K \in Int /\ l \div K \in Int
        BY <2>1, <3>1
      <3> QED
        BY <3>2 DEF CID, K
    <2>8. K \in Nat /\ j \in 0 .. K - 1 /\ idx \in 0 .. K - 1
      BY <1>2 DEF K
    <2>9. CASE j > idx
      BY <2>4, <2>5, <2>6, <2>7, <2>8, <2>9
    <2>10. CASE ~(j > idx)
      BY <2>4, <2>5, <2>6, <2>7, <2>8, <2>10
    <2> QED
      BY <2>9, <2>10
  <1>5. \A j : cell(j).FID = W[j].FID /\ cell(j).tts = W[j].tts /\ cell(j).twid = i
    OBVIOUS
  <1> HIDE DEF upTo, after, S, cell
  <1>6. \A c \in S : c.tts # 0 => \E j \in Stale(W, l, idx) :
          c.FID = W[j].FID /\ c.tts = W[j].tts /\ c.twid = i
    BY <1>1, <1>3, <1>4, <1>5
  <1>7. \A j \in Stale(W, l, idx) : \E c \in S :
          c.FID = W[j].FID /\ c.tts = W[j].tts /\ c.twid = i /\ c.tts # 0
    <2> TAKE j \in Stale(W, l, idx)
    <2>1. j \in Indices /\ W[j].tts # 0
      BY DEF Stale
    <2>2. cell(j) \in S
      BY <1>1, <1>4, <2>1
    <2> QED
      BY <1>5, <2>1, <2>2
  <1> QED
    BY <1>6, <1>7 DEF S

\* Where the earlier filter finds the latest stamp: at the only index it can be at.
LargestStale(TW0) ==
  IF \A j \in Indices : TW0[j].tts = 0 THEN 0
  ELSE CHOOSE j \in Indices : /\ \A n \in Indices : TW0[n].tts <= TW0[j].tts
                              /\ \A n \in 0 .. j - 1 : TW0[n].tts < TW0[j].tts

LEMMA LargestStaleIs ==
  ASSUME PowersOfTwo, NEW TW0, NEW x \in Indices,
         \A j \in Indices : TW0[j].tts \in Nat /\ TW0[j].tts <= TW0[x].tts,
         \A j \in Indices : TW0[j].tts # 0 => TW0[j].tts % 2^k = j,
         x = TW0[x].tts % 2^k
  PROVE  LargestStale(TW0) = x
  <1> DEFINE K == 2^k
             t == [j \in Indices |-> TW0[j].tts]
             IsLargest(j) == /\ \A n \in Indices : t[n] <= t[j]
                             /\ \A n \in 0 .. j - 1 : t[n] < t[j]
  <1>1. K \in Nat \ {0} /\ Indices = 0 .. K - 1
    BY Sizes DEF Indices
  <1>2. t \in [Indices -> Nat] /\ \A j \in Indices : t[j] <= t[x]
    OBVIOUS
  <1>3. \A j \in Indices : t[j] # 0 => t[j] % K = j
    OBVIOUS
  <1>4. x = t[x] % K
    OBVIOUS
  <1>5. \A j \in Indices : \A n \in 0 .. j - 1 : n \in Indices
    <2> HIDE DEF K
    <2> QED
      BY <1>1
  <1>6. LargestStale(TW0) = IF \A j \in Indices : t[j] = 0 THEN 0
                            ELSE CHOOSE j \in Indices : IsLargest(j)
    <2>1. \A j \in Indices : (/\ \A n \in Indices : TW0[n].tts <= TW0[j].tts
                              /\ \A n \in 0 .. j - 1 : TW0[n].tts < TW0[j].tts)
                             <=> IsLargest(j)
      BY <1>5
    <2> HIDE DEF IsLargest
    <2>2. (CHOOSE j \in Indices : /\ \A n \in Indices : TW0[n].tts <= TW0[j].tts
                                  /\ \A n \in 0 .. j - 1 : TW0[n].tts < TW0[j].tts)
            = (CHOOSE j \in Indices : IsLargest(j))
      BY <2>1
    <2>3. (\A j \in Indices : TW0[j].tts = 0) <=> (\A j \in Indices : t[j] = 0)
      OBVIOUS
    <2> DEFINE none == \A j \in Indices : t[j] = 0
               A == CHOOSE j \in Indices : /\ \A n \in Indices : TW0[n].tts <= TW0[j].tts
                                           /\ \A n \in 0 .. j - 1 : TW0[n].tts < TW0[j].tts
               B == CHOOSE j \in Indices : IsLargest(j)
    <2>4. LargestStale(TW0) = IF none THEN 0 ELSE A
      BY <2>3 DEF LargestStale
    <2>5. A = B
      BY <2>2
    <2> HIDE DEF A, B, none
    <2>6. LargestStale(TW0) = IF none THEN 0 ELSE B
      BY <2>4, <2>5
    <2> QED
      BY <2>6 DEF none, B
  <1> HIDE DEF K, t
  <1>7. CASE \A j \in Indices : t[j] = 0
    <2>1. x = 0 % K
      BY <1>4, <1>7
    <2>2. 0 % K = 0
      BY <1>1, ModSmall
    <2> QED
      BY <1>6, <1>7, <2>1, <2>2
  <1>8. CASE ~ \A j \in Indices : t[j] = 0
    <2>1. t[x] # 0
      BY <1>2, <1>8
    <2>2. \A j \in Indices : t[j] = t[x] => j = x
      BY <1>3, <1>4, <2>1
    <2>3. IsLargest(x)
      <3>1. \A n \in 0 .. x - 1 : n \in Indices /\ n # x
        BY <1>1, <1>5
      <3> QED
        BY <1>2, <2>2, <3>1
    <2>4. \A j \in Indices : IsLargest(j) => j = x
      <3>1. \A j \in Indices : IsLargest(j) => t[x] <= t[j]
        OBVIOUS
      <3> HIDE DEF IsLargest
      <3> QED
        BY <1>2, <2>2, <3>1
    <2> HIDE DEF IsLargest
    <2> QED
      BY <1>6, <1>8, <2>3, <2>4
  <1> QED
    BY <1>7, <1>8

\* What the filter retains of all the windows.
RetainedAll(R, x, l, wraps) ==
  UNION {Retained(R[i], i, l[i], IF i = 0 THEN x ELSE l[i] % 2^k, wraps) : i \in Windows}

\* The earlier filter retains those cells, but for the time stamp zero.
StaleFilter(registers, cells) ==
  RetainedStale(registers)
    = {[FID |-> c.FID, tts |-> c.tts, twid |-> c.twid] : c \in {d \in cells : d.tts # 0}}

\* The greatest stamp of a window is tts, and its index x.
LatestAt(TW0, x, tts) ==
  /\ x \in Indices /\ tts \in Nat /\ tts < 2^tts_bit
  /\ tts = TW0[x].tts /\ x = tts % 2^k
  /\ \A j \in Indices : TW0[j].tts <= tts

\* No stamp is greater than the latest of its window.
NoneAfter(R, l) ==
  \A i \in Windows, j \in Indices : R[i][j] # Empty =>
    R[i][j].FID # NoFID /\ R[i][j].tts % 2^k = j /\ R[i][j].tts <= l[i]

\* The earlier filter finds the same latest stamp where the scan finds the greatest, and
\* retains the same where none of a window is greater than its latest.
LEMMA FiltersAgree ==
  ASSUME PowersOfTwo, NEW R \in [Windows -> [Indices -> Cells]], NEW wraps \in Int,
         NEW x, NEW tts, LatestAt(R[0], x, tts), NoneAfter(R, LargestTts(tts))
  PROVE  StaleFilter(R, RetainedAll(R, x, LargestTts(tts), wraps))
  <1> DEFINE TW0 == R[0]
             l == LargestTts(tts)
             idx == [i \in Windows |-> IF i = 0 THEN x ELSE l[i] % 2^k]
             Of(i, j) == [FID |-> R[i][j].FID, tts |-> R[i][j].tts, twid |-> i]
             S(i) == Retained(R[i], i, l[i], idx[i], wraps)
             all == UNION {S(i) : i \in Windows}
             Bare(c) == [FID |-> c.FID, tts |-> c.tts, twid |-> c.twid]
             J(i) == Stale(R[i], l[i], idx[i])
  <1>1. 0 \in Windows /\ TW0 \in [Indices -> Cells] /\ x \in Indices /\ tts \in Nat
    BY Parameters DEF LatestAt
  <1>2. LargestStale(TW0) = x
    <2>1. \A j \in Indices : R[0][j] # Empty => R[0][j].tts % 2^k = j
      BY <1>1 DEF NoneAfter
    <2> HIDE DEF TW0
    <2>2. \A j \in Indices : TW0[j].tts \in Nat /\ (TW0[j].tts # 0 => TW0[j] # Empty)
      BY <1>1 DEF Cells, Empty
    <2>3. TW0[x].tts = tts /\ x = tts % 2^k /\ \A j \in Indices : TW0[j].tts <= tts
      BY DEF LatestAt, TW0
    <2>4. \A j \in Indices : TW0[j].tts # 0 => TW0[j].tts % 2^k = j
      BY <2>1, <2>2 DEF TW0
    <2>5. \A j \in Indices : TW0[j].tts \in Nat /\ TW0[j].tts <= TW0[x].tts
      BY <2>2, <2>3
    <2> QED
      BY <1>1, <2>3, <2>4, <2>5, LargestStaleIs
  <1>3. TW0[x].tts = tts
    BY DEF LatestAt
  <1>4. l \in [Windows -> Int] /\ \A i \in Windows : l[i] < Period(i)
    <2>1. tts < 2^tts_bit /\ tts \in Int
      BY <1>1 DEF LatestAt
    <2>2. l \in [Windows -> Int]
      BY <2>1, LargestTtsIs
    <2>3. \A i \in Windows : l[i] < Period(i)
      BY <1>1, <2>1, LargestTtsBelow DEF Period
    <2> QED
      BY <2>2, <2>3
  <1>5. \A i \in Windows, j \in Indices : R[i][j] # Empty =>
          R[i][j].FID # NoFID /\ R[i][j].tts <= l[i]
    BY DEF NoneAfter
  <1>6. RetainedStale(R) = UNION {{Of(i, j) : j \in J(i)} : i \in Windows}
    <2> DEFINE largest == LargestStale(TW0)
               ll == LargestTts(TW0[largest].tts)
               ii == [i \in Windows |-> IF i = 0 THEN largest ELSE ll[i] % 2^k]
    <2>1. RetainedStale(R) = UNION {{Of(i, j) : j \in Stale(R[i], ll[i], ii[i])} : i \in Windows}
      BY DEF RetainedStale, Stale, LargestStale
    <2>2. largest = x
      BY <1>2
    <2> HIDE DEF largest
    <2>3. ll = l
      BY <1>3, <2>2
    <2> HIDE DEF ll, l
    <2>4. ii = idx
      BY <2>2, <2>3
    <2> HIDE DEF ii, idx
    <2> QED
      BY <2>1, <2>3, <2>4
  <1> HIDE DEF l, TW0
  <1>7. \A i \in Windows : idx[i] \in Indices
    <2> TAKE i \in Windows
    <2>1. l[i] \in Int
      BY <1>4
    <2>2. l[i] % 2^k \in Indices
      BY <2>1, Sizes DEF Indices
    <2> QED
      BY <1>1, <2>2
  <1> HIDE DEF idx
  <1>8. ASSUME NEW i \in Windows
        PROVE  /\ \A c \in S(i) : c.tts # 0 => \E j \in J(i) :
                    c.FID = R[i][j].FID /\ c.tts = R[i][j].tts /\ c.twid = i
               /\ \A j \in J(i) : \E c \in S(i) :
                    c.FID = R[i][j].FID /\ c.tts = R[i][j].tts /\ c.twid = i /\ c.tts # 0
    <2> DEFINE W == R[i]
               m == l[i]
               n == idx[i]
    <2>1. W \in [Indices -> Cells] /\ m \in Int /\ m < Period(i) /\ n \in Indices
      BY <1>4, <1>7
    <2>2. \A j \in Indices : W[j] # Empty => W[j].FID # NoFID /\ W[j].tts <= m
      BY <1>5
    <2> HIDE DEF W, m, n
    <2>3. LET U == Retained(W, i, m, n, wraps) IN
          /\ \A c \in U : c.tts # 0 => \E j \in Stale(W, m, n) :
               c.FID = W[j].FID /\ c.tts = W[j].tts /\ c.twid = i
          /\ \A j \in Stale(W, m, n) : \E c \in U :
               c.FID = W[j].FID /\ c.tts = W[j].tts /\ c.twid = i /\ c.tts # 0
      BY <2>1, <2>2, FilterAgrees
    <2> QED
      BY <2>3 DEF W, m, n
  <1> HIDE DEF S, J
  <1>9. \A i \in Windows : \A j \in J(i) : \E c \in all : c.tts # 0 /\ Of(i, j) = Bare(c)
    <2> TAKE i \in Windows
    <2> TAKE j \in J(i)
    <2>1. PICK c \in S(i) :
            c.FID = R[i][j].FID /\ c.tts = R[i][j].tts /\ c.twid = i /\ c.tts # 0
      BY <1>8
    <2> QED
      BY <2>1
  <1>10. \A c \in all : c.tts # 0 => \E i \in Windows : \E j \in J(i) : Bare(c) = Of(i, j)
    <2> TAKE c \in all
    <2> HAVE c.tts # 0
    <2>1. PICK i \in Windows : c \in S(i)
      OBVIOUS
    <2>2. PICK j \in J(i) : c.FID = R[i][j].FID /\ c.tts = R[i][j].tts /\ c.twid = i
      BY <1>8, <2>1
    <2> QED
      BY <2>2
  <1> HIDE DEF all, Of, Bare
  <1>11. UNION {{Of(i, j) : j \in J(i)} : i \in Windows}
           = {Bare(c) : c \in {d \in all : d.tts # 0}}
    <2> DEFINE A == UNION {{Of(i, j) : j \in J(i)} : i \in Windows}
               B == {Bare(c) : c \in {d \in all : d.tts # 0}}
    <2>1. \A e \in A : e \in B
      <3> TAKE e \in A
      <3>1. PICK i \in Windows : e \in {Of(i, j) : j \in J(i)}
        OBVIOUS
      <3>2. PICK j \in J(i) : e = Of(i, j)
        BY <3>1
      <3> QED
        BY <1>9, <3>2
    <2>2. \A e \in B : e \in A
      <3> TAKE e \in B
      <3>1. PICK c \in all : c.tts # 0 /\ e = Bare(c)
        OBVIOUS
      <3>2. PICK i \in Windows : \E j \in J(i) : Bare(c) = Of(i, j)
        BY <1>10, <3>1
      <3>3. PICK j \in J(i) : e = Of(i, j)
        BY <3>1, <3>2
      <3> QED
        BY <3>3
    <2> QED
      BY <2>1, <2>2
  <1>12. all = UNION {Retained(R[i], i, l[i], IF i = 0 THEN x ELSE l[i] % 2^k, wraps) :
                        i \in Windows}
    BY DEF all, S, idx
  <1> QED
    BY <1>6, <1>11, <1>12 DEF Bare, l, StaleFilter, RetainedAll

\* What the earlier filter retains of a window is of the cycle that ends with its latest.
LEMMA StaleWithin ==
  ASSUME PowersOfTwo, NEW R \in [Windows -> [Indices -> Cells]],
         NEW x, NEW tts, LatestAt(R[0], x, tts), NoneAfter(R, LargestTts(tts)),
         NEW c \in RetainedStale(R)
  PROVE  /\ c.twid \in Windows /\ c.tts \in Nat /\ tts \in Nat
         /\ LargestTts(tts) \in [Windows -> Int]
         /\ LargestTts(tts)[c.twid] - 2^k < c.tts /\ c.tts <= LargestTts(tts)[c.twid]
  <1> DEFINE l == LargestTts(tts)
             all == RetainedAll(R, x, l, 0)
  <1>1. tts \in Nat /\ tts < 2^tts_bit /\ x = tts % 2^k
    BY DEF LatestAt
  <1>2. l \in [Windows -> Int] /\ l[0] = tts
    BY <1>1, LargestTtsIs
  <1>3. \A i \in Windows : l[i] < 2^(TsBits - TrimmedBits(i))
    BY <1>1, LargestTtsBelow
  <1>4. PICK d \in all : c.tts = d.tts /\ c.twid = d.twid
    BY FiltersAgree DEF StaleFilter
  <1> HIDE DEF l
  <1>5. PICK i \in Windows : d \in Retained(R[i], i, l[i], l[i] % 2^k, 0)
    BY <1>1, <1>2, <1>4 DEF RetainedAll
  <1>6. \A j \in Indices : R[i][j] # Empty => R[i][j].tts <= l[i] /\ R[i][j].tts % 2^k = j
    BY DEF NoneAfter, l
  <1>7. R[i] \in [Indices -> Cells] /\ l[i] \in Int
    BY <1>2
  <1>8. /\ d.twid = i /\ l[i] - 2^k < d.tts
        /\ \E j \in Indices : R[i][j] # Empty /\ d.FID = R[i][j].FID /\ d.tts = R[i][j].tts
    BY <1>3, <1>5, <1>6, <1>7, RetainedIs
  <1>9. d.tts \in Nat /\ d.tts <= l[i]
    BY <1>6, <1>7, <1>8 DEF Cells
  <1> QED
    BY <1>1, <1>2, <1>4, <1>8, <1>9 DEF l

\* The query between the first and the last moment of a window.
Alone(R, i) ==
  LET cells == RetainedStale(R)
      Of    == {c \in cells : c.twid = i}
      ends  == TW_start_end_timestamp(cells, i)
  IN Of # {} => RetrieveStale(cells, ends[1], ends[2]) = Of

LEMMA StaleAlone ==
  ASSUME PowersOfTwo, ALPHA = 1, NEW R \in [Windows -> [Indices -> Cells]],
         NEW x, NEW tts, LatestAt(R[0], x, tts), NoneAfter(R, LargestTts(tts)),
         NEW i \in Windows
  PROVE  Alone(R, i)
  <1> DEFINE cells == RetainedStale(R)
             Of == {c \in cells : c.twid = i}
             S == {c.tts : c \in Of}
             l == LargestTts(tts)
             K == 2^k
             X(c) == Middle(c.twid, c.tts)
  <1>1. \A c \in cells : /\ c.twid \in Windows /\ c.tts \in Nat /\ tts \in Nat
                         /\ l \in [Windows -> Int]
                         /\ l[c.twid] - K < c.tts /\ c.tts <= l[c.twid]
    BY StaleWithin
  <1> HIDE DEF cells
  <1> SUFFICES ASSUME Of # {}
               PROVE  RetrieveStale(cells, TW_start_end_timestamp(cells, i)[1],
                                           TW_start_end_timestamp(cells, i)[2]) = Of
    BY DEF Alone, cells
  <1>2. tts \in Int /\ K \in Nat /\ l \in [Windows -> Int]
    BY <1>1, Sizes
  <1> HIDE DEF l, K
  <1>3. S # {} /\ S \in SUBSET Nat /\ l[i] \in Int /\ \A n \in S : n <= l[i]
    BY <1>1, <1>2
  <1>4. PICK m \in S : \A n \in S : m <= n
    <2> HIDE DEF S
    <2> QED
      BY <1>3, Least
  <1>5. PICK M \in S : \A n \in S : n <= M
    <2> HIDE DEF S
    <2>1. PICK a \in S : TRUE
      BY <1>3
    <2>2. l[i] \in Nat
      BY <1>3, <2>1
    <2>3. S \in SUBSET (0 .. l[i])
      BY <1>3, <2>2
    <2> QED
      BY <1>3, <2>2, <2>3, Greatest
  <1>6. Min(S) = m /\ Max(S) = M
    <2> HIDE DEF S
    <2>1. \A n \in S : (\A o \in S : n <= o) => n = m
      BY <1>3, <1>4
    <2>2. \A n \in S : (\A o \in S : n >= o) => n = M
      BY <1>3, <1>5
    <2>3. \A n \in S : M >= n
      BY <1>3, <1>5
    <2> QED
      BY <1>4, <2>1, <2>2, <2>3 DEF Min, Max
  <1>7. /\ TW_start_end_timestamp(cells, i)[1] = Middle(i, m)
        /\ TW_start_end_timestamp(cells, i)[2] = Middle(i, M)
    BY <1>6 DEF TW_start_end_timestamp, cell_duration, Middle
  <1>8. RetrieveStale(cells, Middle(i, m), Middle(i, M))
          = {c \in cells : Middle(i, m) <= X(c) /\ X(c) <= Middle(i, M)}
    BY DEF RetrieveStale, cell_duration, Middle
  <1>9. m \in Int /\ M \in Int /\ l[i] - K < m /\ M <= l[i]
    <2>1. \A n \in S : n \in Int /\ l[i] - K < n /\ n <= l[i]
      BY <1>1, <1>2
    <2> HIDE DEF S
    <2> QED
      BY <1>4, <1>5, <2>1
  <1>10. ASSUME NEW c \in cells
         PROVE  (Middle(i, m) <= X(c) /\ X(c) <= Middle(i, M)) <=> c \in Of
    <2> DEFINE g == c.twid
    <2>1. /\ g \in Windows /\ c.tts \in Int /\ l[g] - K < c.tts /\ c.tts <= l[g]
          /\ g \in Int /\ i \in Int
      BY <1>1 DEF Windows
    <2>2. Middle(g, c.tts) \in Int /\ Middle(i, m) \in Int /\ Middle(i, M) \in Int
      BY <1>9, <2>1, MiddleMonotonic
    <2>3. CASE g = i
      <3>1. c \in Of /\ c.tts \in S
        BY <2>3
      <3>2. m <= c.tts /\ c.tts <= M
        BY <1>4, <1>5, <3>1
      <3> HIDE DEF Of, S
      <3>3. Middle(i, m) <= Middle(i, c.tts) /\ Middle(i, c.tts) <= Middle(i, M)
        BY <1>9, <2>1, <3>2, MiddleMonotonic
      <3> QED
        BY <2>3, <3>1, <3>3
    <2>4. CASE g > i
      <3>1. Middle(g, c.tts) < Middle(i, m)
        BY <1>2, <1>9, <2>1, <2>4, OlderBefore DEF l, K
      <3>2. X(c) = Middle(g, c.tts)
        OBVIOUS
      <3>3. c \notin Of
        BY <2>1, <2>4
      <3> HIDE DEF Of, X, g
      <3>4. ~(Middle(i, m) <= X(c))
        BY <2>2, <3>1, <3>2
      <3> QED
        BY <3>3, <3>4
    <2>5. CASE g < i
      <3>1. Middle(i, M) < Middle(g, c.tts)
        BY <1>2, <1>9, <2>1, <2>5, OlderBefore DEF l, K
      <3>2. X(c) = Middle(g, c.tts)
        OBVIOUS
      <3>3. c \notin Of
        BY <2>1, <2>5
      <3> HIDE DEF Of, X, g
      <3>4. ~(X(c) <= Middle(i, M))
        BY <2>2, <3>1, <3>2
      <3> QED
        BY <3>3, <3>4
    <2> QED
      BY <2>1, <2>3, <2>4, <2>5
  <1> HIDE DEF X
  <1>11. {c \in cells : Middle(i, m) <= X(c) /\ X(c) <= Middle(i, M)} = Of
    BY <1>10
  <1> QED
    BY <1>7, <1>8, <1>11

\* The registers of a set in which no stamp is later than the latest, and what is
\* retained of them.
WithoutOverflow(R, cells) ==
  \E x, tts : \E wraps \in Int :
    /\ LatestAt(R[0], x, tts) /\ NoneAfter(R, LargestTts(tts))
    /\ cells = RetainedAll(R, x, LargestTts(tts), wraps)

\* A cell is its stamp after the overflows of its packet.
LEMMA StampSplit ==
  ASSUME PowersOfTwo, NEW i \in Windows, NEW FID \in Nat
  PROVE  CellOf(i, FID) = Stamped(i, FID) + (FID \div 2^TsBits) * Period(i)
  <1> DEFINE b == 2^TrimmedBits(i)
             p == Period(i)
             x == CellOf(i, FID)
  <1>1. b \in Nat \ {0} /\ p \in Nat \ {0} /\ 2^TsBits = b * p
    BY WindowSizes DEF Period
  <1>2. x = FID \div b /\ x \in Nat /\ Stamped(i, FID) = x % p
    BY StampOfCell DEF CellOf, Period
  <1> HIDE DEF b, p, x
  <1>3. x \div p = FID \div (b * p)
    BY <1>1, <1>2, DivDiv
  <1>4. x = (x \div p) * p + (x % p) /\ (x \div p) * p \in Int /\ (x % p) \in Int
    <2>1. x \div p \in Nat /\ x % p \in Nat /\ x = (x \div p) * p + (x % p)
      BY <1>1, <1>2, Divided
    <2> QED
      BY <1>1, <2>1
  <1> QED
    BY <1>1, <1>2, <1>3, <1>4 DEF x, p

\* The stamps of a set in which no overflow falls.
SamePeriod(registers) ==
  LET FIDs == {registers[i][j].FID : i \in Windows, j \in Indices} \ {NoFID}
  IN \A f, g \in FIDs : f \div 2^TsBits = g \div 2^TsBits

\* A filled set, of which every stamp is of the same period as the latest.
LEMMA PollStale ==
  ASSUME PowersOfTwo, OverflowInv, Current, Filled, Poll, SamePeriod(tw_r[second_highest])
  PROVE  WithoutOverflow(tw_r[second_highest], TW_result')
  <1> DEFINE R == tw_r[second_highest]
             r == LargestCell(R[0])
             x == r.idx
             f == R[0][x].FID
             C == CellOf(0, f)
             n == wrapping' + origin'
             l == LargestTts(r.tts)
  <1>1. WindowInv /\ RecordsFollow /\ Uses
    BY DEF OverflowInv
  <1>2. /\ second_highest \in Quarters /\ 0 \in Windows
        /\ R \in [Windows -> [Indices -> Cells]] /\ now \in Nat
    BY <1>1, Parameters DEF WindowInv, WindowTypes
  <1>3. /\ x \in Indices /\ r.tts = R[0][x].tts
        /\ \A j \in Indices : CellOf(0, R[0][j].FID) <= C
        /\ wrapping' \in Nat /\ origin' \in Nat /\ n \in Nat
        /\ C \in Nat /\ r.tts = C % 2^tts_bit /\ C = r.tts + n * 2^tts_bit
        /\ TW_result' = UNION {Retained(R[i], i, l[i], IF i = 0 THEN x ELSE l[i] % 2^k,
                                        wrapping') : i \in Windows}
    BY PollCounts
  <1>4. \A j \in Indices : R[0][j] # Empty /\ R[0][j].FID \in Nat /\ R[0][j].tts % 2^k = j
    BY <1>1, SetCells
  <1>5. ASSUME NEW i \in Windows, NEW j \in Indices, R[i][j] # Empty
        PROVE  /\ R[i][j].FID \in Nat /\ R[i][j].tts % 2^k = j
               /\ R[i][j].tts = Stamped(i, R[i][j].FID)
    BY <1>1, <1>2, <1>5 DEF WindowInv, RecordsGenuine, Genuine
  <1> HIDE DEF r, x
  <1>6. r.tts \in Nat /\ r.tts < 2^tts_bit /\ 2^tts_bit \in Nat \ {0} /\ f \in Nat
    <2> DEFINE m == 2^tts_bit
    <2>1. m \in Nat \ {0} /\ f \in Nat
      BY <1>3, <1>4, Threshold
    <2> HIDE DEF m, f, C, n
    <2>2. (C % m) \in Nat /\ (C % m) < m
      BY <1>3, <2>1, Divided
    <2> QED
      BY <1>3, <2>1, <2>2 DEF m
  <1>7. f \div 2^TsBits = n
    <2>1. C = Stamped(0, f) + (f \div 2^TsBits) * Period(0)
      BY <1>2, <1>6, StampSplit
    <2>2. Stamped(0, f) = r.tts /\ Period(0) = 2^tts_bit
      BY <1>2, <1>3, <1>4, <1>5, Periods
    <2> DEFINE m == 2^tts_bit
               q == f \div 2^TsBits
    <2>3. q \in Nat /\ m \in Nat \ {0} /\ n \in Nat /\ r.tts \in Nat
      <3>1. f \in Int /\ f \in Nat /\ 2^TsBits \in Nat \ {0}
        BY <1>6, Sizes
      <3> HIDE DEF f
      <3>2. q \in Nat
        BY <3>1, DivMod
      <3> QED
        BY <1>3, <1>6, <3>2
    <2>4. C = r.tts + q * m /\ C = r.tts + n * m
      BY <1>3, <2>1, <2>2
    <2> HIDE DEF m, q, C, n
    <2>5. q * m \in Int /\ n * m \in Int
      BY <2>3
    <2>6. q * m = n * m
      BY <2>3, <2>4, <2>5
    <2>7. q = n
      BY <2>3, <2>6
    <2> QED
      BY <2>7 DEF q
  <1>8. \A i \in Windows, j \in Indices : R[i][j] # Empty =>
          CellOf(i, R[i][j].FID) <= LargestTts(C)[i]
    <2> HIDE DEF C
    <2> QED
      BY <1>1, <1>2, <1>3, LatestBounds
  <1>9. \A i \in Windows : LargestTts(C)[i] = l[i] + n * Period(i)
    BY <1>3, <1>6, LargestTtsShift
  <1>10. l \in [Windows -> Int] /\ l[0] = r.tts
    BY <1>6, LargestTtsIs
  <1> HIDE DEF l, C, n
  <1>11. ASSUME NEW i \in Windows, NEW j \in Indices, R[i][j] # Empty
         PROVE  R[i][j].FID # NoFID /\ R[i][j].tts % 2^k = j /\ R[i][j].tts <= l[i]
    <2> DEFINE g == R[i][j].FID
               t == R[i][j].tts
    <2>1. g \in Nat /\ t % 2^k = j /\ t = Stamped(i, g) /\ CellOf(i, g) <= LargestTts(C)[i]
      BY <1>5, <1>8, <1>11
    <2>2. g # NoFID /\ f # NoFID
      <3> HIDE DEF g, f
      <3> QED
        BY <1>6, <2>1 DEF NoFID
    <2>3. g \div 2^TsBits = f \div 2^TsBits
      BY <1>2, <1>3, <2>2 DEF SamePeriod
    <2>4. CellOf(i, g) = t + n * Period(i)
      BY <1>7, <2>1, <2>3, StampSplit
    <2>5. Period(i) \in Nat /\ l[i] \in Int /\ t \in Nat /\ n * Period(i) \in Int
      <3>1. Period(i) \in Nat /\ l[i] \in Int
        BY <1>10, Periods
      <3>2. t \in Nat
        BY <2>1, StampOfCell
      <3> HIDE DEF t
      <3> QED
        BY <1>3, <3>1, <3>2
    <2>6. t <= l[i]
      <3> HIDE DEF t, g
      <3> QED
        BY <1>9, <2>1, <2>4, <2>5
    <2> QED
      BY <2>1, <2>2, <2>6
  <1>12. NoneAfter(R, l)
    BY <1>11 DEF NoneAfter
  <1>13. LatestAt(R[0], x, r.tts)
    <2>1. x = r.tts % 2^k
      BY <1>3, <1>4
    <2>2. \A j \in Indices : R[0][j].tts <= r.tts
      BY <1>2, <1>4, <1>10, <1>11
    <2> QED
      BY <1>3, <1>6, <2>1, <2>2 DEF LatestAt
  <1>14. wrapping' \in Int
    BY <1>3
  <1> QED
    <2>1. NoneAfter(R, LargestTts(r.tts))
      BY <1>12 DEF l
    <2>2. TW_result' = RetainedAll(R, x, LargestTts(r.tts), wrapping')
      BY <1>3 DEF RetainedAll, l
    <2> QED
      BY <1>13, <1>14, <2>1, <2>2 DEF WithoutOverflow

\* A set polled before the stamps overflow for the first time.
LEMMA EarlyStale ==
  ASSUME PowersOfTwo, BeforeOverflow, EarlyInv, Poll, TW_result' # {}
  PROVE  WithoutOverflow(tw_r[second_highest], TW_result')
  <1> DEFINE R == tw_r[second_highest]
             r == LargestCell(R[0])
             x == r.idx
             l == LargestTts(r.tts)
             h == 2^threshold_bit
             m == 2^tts_bit
  <1>1. WindowInv /\ RecordsFollow
    BY DEF EarlyInv
  <1>2. /\ second_highest \in Quarters /\ 0 \in Windows
        /\ R \in [Windows -> [Indices -> Cells]] /\ now \in Nat
    BY <1>1, Parameters DEF WindowInv, WindowTypes
  <1>3. h \in Nat \ {0} /\ m \in Nat \ {0} /\ h < m
    BY Threshold
  <1>4. ASSUME NEW i \in Windows, NEW j \in Indices, R[i][j] # Empty
        PROVE  /\ R[i][j].FID \in Nat /\ R[i][j].tts % 2^k = j
               /\ R[i][j].tts = CellOf(i, R[i][j].FID)
               /\ CellOf(0, R[i][j].FID) + h < m
    <2>1. Genuine(i, R[i][j], now) /\ R[i][j].tts % 2^k = j
      BY <1>1, <1>2, <1>4 DEF WindowInv, RecordsGenuine
    <2>2. R[i][j].tts = CellOf(i, R[i][j].FID) /\ CellOf(0, R[i][j].FID) + h < m
      BY <2>1, EarlyRecord
    <2> QED
      BY <2>1, <2>2 DEF Genuine
  <1>5. /\ r.tts \in Nat /\ r.tts + h < m /\ x \in Indices /\ x = r.tts % 2^k
        /\ \A j \in Indices : R[0][j] # Empty => CellOf(0, R[0][j].FID) <= r.tts
    BY <1>1, <1>2, LatestEarly
  <1>6. r.tts = R[0][x].tts /\ \A j \in Indices : R[0][j].tts <= r.tts
    <2> DEFINE W == R[0]
    <2>1. W \in [Indices -> Cells]
      BY <1>2
    <2>2. \A j \in Indices : W[j].tts + h < m
      <3> TAKE j \in Indices
      <3>1. CASE W[j] = Empty
        <4>1. W[j].tts = 0
          BY <3>1 DEF Empty
        <4> HIDE DEF W, h, m
        <4> QED
          BY <1>3, <4>1
      <3>2. CASE W[j] # Empty
        BY <1>2, <1>4, <3>2
      <3> QED
        BY <3>1, <3>2
    <2> HIDE DEF W
    <2>3. LET b == LargestCell(W) IN b.tts = W[b.idx].tts /\ \A j \in Indices : W[j].tts <= b.tts
      BY <2>1, <2>2, LargestCellEarly
    <2> QED
      BY <2>3 DEF W
  <1>7. TW_result' = RetainedAll(R, x, l, wrapping') /\ wrapping' \in Int
    <2>1. ~ \A i \in Windows, j \in Indices : R[i][j].FID = NoFID
      BY DEF Poll
    <2>2. TW_result' = RetainedAll(R, x, l, wrapping')
      BY <2>1 DEF Poll, RetainedAll
    <2>3. SetsEarly'
      BY PollEarly
    <2> QED
      BY <2>2, <2>3 DEF SetsEarly
  <1> HIDE DEF r, x
  <1>8. \A i \in Windows, j \in Indices : R[i][j] # Empty => CellOf(i, R[i][j].FID) <= l[i]
    BY <1>1, <1>2, <1>5, LatestBounds
  <1>9. NoneAfter(R, l)
    <2> SUFFICES ASSUME NEW i \in Windows, NEW j \in Indices, R[i][j] # Empty
                 PROVE  R[i][j].FID # NoFID /\ R[i][j].tts % 2^k = j /\ R[i][j].tts <= l[i]
      BY DEF NoneAfter
    <2>1. R[i][j].FID # NoFID
      <3> DEFINE g == R[i][j].FID
      <3>1. g \in Nat
        BY <1>4
      <3> HIDE DEF g
      <3>2. g # NoFID
        BY <3>1 DEF NoFID
      <3> QED
        BY <3>2 DEF g
    <2> QED
      BY <1>4, <1>8, <2>1
  <1>10. LatestAt(R[0], x, r.tts)
    <2>1. r.tts < m
      <3> HIDE DEF h, m
      <3> QED
        BY <1>3, <1>5
    <2> QED
      BY <1>5, <1>6, <2>1 DEF LatestAt
  <1> QED
    BY <1>7, <1>9, <1>10 DEF WithoutOverflow

\* The invariant of a run before the stamps overflow.
LEMMA NowEarly ==
  ASSUME PowersOfTwo, BeforeOverflow
  PROVE  QueriesSpec => [](EarlyInv /\ Uses)
  <1>1. Spec => [](WindowInv /\ Uses /\ FirstUse)
    <2>1. ControllerInit => WindowInv /\ Uses /\ FirstUse
      BY InitWindowInv, InitUses
    <2>2. WindowInv /\ Uses /\ FirstUse /\ [Next]_vars => (WindowInv /\ Uses /\ FirstUse)'
      BY NextWindowInv, NextUses
    <2> QED
      BY <2>1, <2>2, PTL DEF Spec
  <1> QED
    BY <1>1, QueriesFollowPolls, EarlyIsInvariant, PTL

\* StaleAgrees, and WindowAlone, are about the quarter just retired.
LEMMA StaleIs ==
  ASSUME PowersOfTwo, WindowInv, Poll,
         SamePeriod(tw_r[second_highest])
           => WithoutOverflow(tw_r[second_highest], TW_result')
  PROVE  StaleAgrees' /\ (ALPHA = 1 => WindowAlone')
  <1> DEFINE R == tw_r[second_highest]
  <1>1. tw_r' = tw_r /\ 1 - second_highest' = second_highest
    <2>1. second_highest' = 1 - second_highest /\ second_highest \in {0, 1} /\ tw_r' = tw_r
      BY DEF Poll, Retire, WindowInv, WindowTypes, Quarters
    <2> QED
      BY <2>1
  <1>2. R \in [Windows -> [Indices -> Cells]]
    BY DEF WindowInv, WindowTypes
  <1> HIDE DEF R
  <1>3. WithoutOverflow(R, TW_result') => StaleFilter(R, TW_result')
    BY <1>2, FiltersAgree DEF WithoutOverflow
  <1>4. ALPHA = 1 /\ WithoutOverflow(R, TW_result') => \A i \in Windows : Alone(R, i)
    BY <1>2, StaleAlone DEF WithoutOverflow
  <1>5. (StaleAgrees <=> (JustPolled =>
           (SamePeriod(tw_r[1 - second_highest])
              => StaleFilter(tw_r[1 - second_highest], TW_result))))'
    BY DEF StaleAgrees, SamePeriod, StaleFilter
  <1>6. (WindowAlone <=> (JustPolled =>
           \A i \in Windows : SamePeriod(tw_r[1 - second_highest])
                                => Alone(tw_r[1 - second_highest], i)))'
    BY DEF WindowAlone, SamePeriod, Alone
  <1> QED
    BY <1>1, <1>3, <1>4, <1>5, <1>6 DEF R

\* Of a set in which no overflow falls, the earlier format's filter retains the same
\* cells as the later one, but for the time stamp zero, though it looks at no mask and
\* counts no overflow; however many overflows there were before it.
THEOREM FiltersOfBothFormats ==
  ASSUME PowersOfTwo
  PROVE  QueriesSpec /\ []Current /\ []Busy => []StaleAgrees
  <1>1. QueriesInit => StaleAgrees
    BY DEF QueriesInit, ControllerInit, StaleAgrees, JustPolled
  <1>2. ASSUME OverflowInv, Current, Busy, StaleAgrees, [QueriesNext]_queryVars
        PROVE  StaleAgrees'
    <2>1. CASE ~JustPolled'
      BY <2>1 DEF StaleAgrees
    <2>2. CASE LoadSet /\ Poll /\ Filled
      BY <1>2, <2>2, PollStale, StaleIs DEF OverflowInv
    <2>3. CASE UNCHANGED queryVars
      BY <1>2, <2>3 DEF StaleAgrees, queryVars, JustPolled, vars, windowVars
    <2> QED
      BY <1>2, <2>1, <2>2, <2>3, SetJustPolled
  <1> QED
    BY <1>1, <1>2, NowOverflows, PTL DEF QueriesSpec

\* And so it is of every set before the first overflow, whatever the port's traffic.
THEOREM EarlyFiltersOfBothFormats ==
  ASSUME PowersOfTwo, BeforeOverflow
  PROVE  QueriesSpec => []StaleAgrees
  <1>1. QueriesInit => StaleAgrees
    BY DEF QueriesInit, ControllerInit, StaleAgrees, JustPolled
  <1>2. ASSUME EarlyInv, Uses, StaleAgrees, [QueriesNext]_queryVars
        PROVE  StaleAgrees'
    <2>1. CASE ~JustPolled'
      BY <2>1 DEF StaleAgrees
    <2>2. CASE JustPolled' /\ Poll
      <3>1. TW_result' # {}
        BY <2>2 DEF JustPolled
      <3> QED
        BY <1>2, <2>2, <3>1, EarlyStale, StaleIs DEF EarlyInv
    <2>3. CASE UNCHANGED queryVars
      BY <1>2, <2>3 DEF StaleAgrees, queryVars, JustPolled, vars, windowVars
    <2> QED
      BY <1>2, <2>1, <2>2, <2>3, JustLoaded DEF EarlyInv
  <1> QED
    BY <1>1, <1>2, NowEarly, PTL DEF QueriesSpec

\* The query of TopK between the first and the last moment of a window of such a set
\* counts the cells of that window and those of no other, as long as each window is
\* twice as coarse as the one before (ALPHA = 1, as TopK, its only caller, has it:
\* GroundTruth.py:613).
THEOREM QueriesOfOneWindow ==
  ASSUME PowersOfTwo, ALPHA = 1
  PROVE  QueriesSpec /\ []Current /\ []Busy => []WindowAlone
  <1>1. QueriesInit => WindowAlone
    BY DEF QueriesInit, ControllerInit, WindowAlone, JustPolled
  <1>2. ASSUME OverflowInv, Current, Busy, WindowAlone, [QueriesNext]_queryVars
        PROVE  WindowAlone'
    <2>1. CASE ~JustPolled'
      BY <2>1 DEF WindowAlone
    <2>2. CASE LoadSet /\ Poll /\ Filled
      BY <1>2, <2>2, PollStale, StaleIs DEF OverflowInv
    <2>3. CASE UNCHANGED queryVars
      BY <1>2, <2>3 DEF WindowAlone, queryVars, JustPolled, vars, windowVars
    <2> QED
      BY <1>2, <2>1, <2>2, <2>3, SetJustPolled
  <1> QED
    BY <1>1, <1>2, NowOverflows, PTL DEF QueriesSpec

\* And so it is of every set before the first overflow.
THEOREM EarlyQueriesOfOneWindow ==
  ASSUME PowersOfTwo, ALPHA = 1, BeforeOverflow
  PROVE  QueriesSpec => []WindowAlone
  <1>1. QueriesInit => WindowAlone
    BY DEF QueriesInit, ControllerInit, WindowAlone, JustPolled
  <1>2. ASSUME EarlyInv, Uses, WindowAlone, [QueriesNext]_queryVars
        PROVE  WindowAlone'
    <2>1. CASE ~JustPolled'
      BY <2>1 DEF WindowAlone
    <2>2. CASE JustPolled' /\ Poll
      <3>1. TW_result' # {}
        BY <2>2 DEF JustPolled
      <3> QED
        BY <1>2, <2>2, <3>1, EarlyStale, StaleIs DEF EarlyInv
    <2>3. CASE UNCHANGED queryVars
      BY <1>2, <2>3 DEF WindowAlone, queryVars, JustPolled, vars, windowVars
    <2> QED
      BY <1>2, <2>1, <2>2, <2>3, JustLoaded DEF EarlyInv
  <1> QED
    BY <1>1, <1>2, NowEarly, PTL DEF QueriesSpec

----------------------------------------------------------------------------
(* Cuts.                                                                   *)

\* A moment that stands for a cell of an older window stands for none of the first.
LEMMA MiddlesDiffer ==
  ASSUME PowersOfTwo, NEW i \in Windows, i # 0, NEW X \in Int, NEW Y \in Int
  PROVE  Middle(i, X) # Middle(0, Y)
  <1> DEFINE b == 2^TW0_TB
             m == ALPHA * i - 1
             g == 2^m
             z == 2 * (X * g) + g
  <1>1. /\ TW0_TB \in Nat /\ m \in Nat /\ TrimmedBits(i) - 1 = TW0_TB + m /\ 0 \in Windows
        /\ TrimmedBits(0) = TW0_TB
    <2>1. ALPHA \in Nat \ {0} /\ i \in Nat \ {0}
      BY Parameters DEF Windows
    <2>2. ALPHA * i \in Nat \ {0}
      BY <2>1
    <2>3. ALPHA * 0 = 0
      BY <2>1
    <2> QED
      BY <2>1, <2>2, <2>3, Parameters DEF TrimmedBits
  <1>2. 2^(TrimmedBits(i) - 1) = b * g /\ b \in Nat \ {0} /\ g \in Nat \ {0}
    <2>1. TW0_TB \in Nat /\ m \in Nat
      BY <1>1
    <2>2. TrimmedBits(i) - 1 = TW0_TB + m
      BY <1>1
    <2> HIDE DEF m
    <2>3. 2^(TW0_TB + m) = 2^TW0_TB * 2^m /\ 2^TW0_TB \in Nat \ {0} /\ 2^m \in Nat \ {0}
      BY <2>1 DEF PowersOfTwo
    <2> QED
      BY <2>2, <2>3
  <1>3. 2^TrimmedBits(i) = 2 * (b * g)
    BY <1>2, Halves
  <1> HIDE DEF b, g
  <1>4. X * (2 * (b * g)) = (2 * (X * g)) * b /\ b * g = g * b
    BY <1>2
  <1>5. X * g \in Int
    BY <1>2
  <1>6. z \in Int /\ Middle(i, X) = z * b
    BY <1>2, <1>3, <1>4, <1>5 DEF Middle
  <1>7. Y * b < Middle(0, Y) /\ Middle(0, Y) < (Y + 1) * b
    BY <1>1, MiddleMonotonic DEF b
  <1> HIDE DEF z
  <1>8. z <= Y => z * b <= Y * b
    BY <1>2, <1>6
  <1>9. z >= Y + 1 => z * b >= (Y + 1) * b
    BY <1>2, <1>6
  <1>10. Y * b \in Int /\ (Y + 1) * b \in Int /\ z * b \in Int
    BY <1>2, <1>6
  <1>11. Middle(0, Y) \in Int
    BY <1>1, MiddleMonotonic
  <1>12. z <= Y \/ z >= Y + 1
    BY <1>6
  <1> QED
    BY <1>6, <1>7, <1>8, <1>9, <1>10, <1>11, <1>12

\* A set ends after the one before it, and what it retains stands for other moments
\* than the one that ends that.
Apart(s, t) == s.lts < t.lts /\ \A c \in t.TW_result : Moment(c) # s.lts

Loaded == [sts : Int, lts : Int, smallest : Kept, TW_result : SUBSET Kept]

SetsInv ==
  /\ TW_registers \in Seq(Loaded)
  /\ \A i \in DOMAIN TW_registers : Enclosed(TW_registers[i])
  /\ \A i, j \in DOMAIN TW_registers :
       j = i + 1 => Apart(TW_registers[i], TW_registers[j])

\* The last set ends at the latest cell, which no packet is recorded in any more.
LastInv ==
  TW_registers # <<>> =>
    /\ origin \in Nat /\ LatestCell \in Int /\ LatestCell < CellOf(0, start)
    /\ TW_registers[Len(TW_registers)].lts + origin * 2^TsBits = Middle(0, LatestCell)

LEMMA LoadApart ==
  ASSUME PowersOfTwo, ALPHA <= k, OverflowInv, Current, Filled, LoadSet, Paced, SetsInv, LastInv
  PROVE  SetsInv' /\ LastInv'
  <1> DEFINE R == tw_r[second_highest]
             C == LatestCell'
             P == 2^TsBits
             o == origin'
             n == Len(TW_registers)
  <1>1. PICK s : /\ TW_registers' = Append(TW_registers, s)
                 /\ Enclosed(s) /\ s.TW_result = TW_result'
                 /\ s.lts + o * P = Middle(0, C)
    BY LoadEncloses
  <1>2. PICK x \in Indices :
          /\ C \in Nat /\ CellOf(0, start) <= C /\ C = CellOf(0, R[0][x].FID)
          /\ o \in Nat /\ Describes(TW_result', o, C)
          /\ \A c \in TW_result' : \E j \in Indices :
               R[c.twid][j] # Empty /\ c.FID = R[c.twid][j].FID
    BY PollDescribes DEF LoadSet
  <1>3. WindowInv /\ Uses /\ 0 \in Windows
    BY Parameters DEF OverflowInv
  <1>4. R[0][x] # Empty /\ R[0][x].FID \in Nat
    BY <1>2, <1>3, SetCells DEF OverflowInv
  <1>5. start' = now /\ now \in Nat /\ start \in Nat
    BY <1>3 DEF LoadSet, Poll, Retire, WindowInv, WindowTypes, Uses
  <1>6. C < CellOf(0, start')
    BY <1>2, <1>3, <1>4, <1>5, NextCellAfter DEF Paced
  <1>7. /\ TW_registers \in Seq(Loaded) /\ s \in Loaded /\ n \in Nat
        /\ TW_registers' \in Seq(Loaded) /\ Len(TW_registers') = n + 1
        /\ TW_registers'[n + 1] = s
        /\ \A i \in 1 .. n : TW_registers'[i] = TW_registers[i]
        /\ DOMAIN TW_registers = 1 .. n /\ DOMAIN TW_registers' = 1 .. n + 1
        /\ TW_registers' # <<>>
    <2>1. s \in Loaded
      BY <1>1 DEF Enclosed, Loaded
    <2> HIDE DEF Loaded
    <2> QED
      BY <1>1, <2>1 DEF SetsInv
  <1>8. LastInv'
    <2>1. TW_registers'[Len(TW_registers')].lts + o * P = Middle(0, C)
      BY <1>1, <1>7
    <2> QED
      BY <1>2, <1>6, <2>1 DEF LastInv, Middle, TrimmedBits, CellOf
  <1>9. ASSUME TW_registers # <<>>
        PROVE  Apart(TW_registers[n], s)
    <2> DEFINE t == TW_registers[n]
               c0 == LatestCell
    <2>1. /\ origin \in Nat /\ c0 \in Int /\ c0 < CellOf(0, start)
          /\ t.lts + origin * P = Middle(0, c0)
      BY <1>9 DEF LastInv
    <2>2. o = origin
      <3>1. origin # NoOrigin
        <4> HIDE DEF c0, t
        <4> QED
          BY <2>1 DEF NoOrigin
      <3> QED
        BY <3>1 DEF LoadSet, Poll
    <2>3. n \in 1 .. n /\ t \in Loaded /\ t.lts \in Int /\ s.lts \in Int
      <3>1. n >= 1
        BY <1>7, <1>9
      <3>2. n \in 1 .. n /\ t \in Loaded
        BY <1>7, <3>1
      <3> QED
        BY <1>7, <3>2 DEF Loaded
    <2>4. o * P \in Int /\ CellOf(0, start) \in Nat
      BY <1>2, <1>3, <1>5, Sizes, StampOfCell
    <2> HIDE DEF c0, t, o, P, C, n
    <2>5. c0 < C
      BY <1>2, <2>1, <2>4
    <2>6. Middle(0, c0) < Middle(0, C) /\ Middle(0, c0) \in Int /\ Middle(0, C) \in Int
      BY <1>2, <1>3, <2>1, <2>5, MiddleMonotonic
    <2>7. t.lts < s.lts
      BY <1>1, <2>1, <2>2, <2>3, <2>4, <2>6
    <2>8. ASSUME NEW c \in TW_result'
          PROVE  Moment(c) # t.lts
      <3> DEFINE X == CellOf(c.twid, c.FID)
      <3>1. /\ c.twid \in Windows /\ c.FID \in Nat /\ Moment(c) \in Int /\ X \in Nat
            /\ Moment(c) + o * P = Middle(c.twid, X)
        BY <1>2, <2>8, DescribedMoment DEF P
      <3>2. Middle(c.twid, X) # Middle(0, c0)
        <4>1. CASE c.twid = 0
          <5>1. PICK j \in Indices : R[0][j] # Empty /\ c.FID = R[0][j].FID
            BY <1>2, <2>8, <4>1
          <5>2. start <= c.FID
            BY <5>1 DEF Filled
          <5>3. CellOf(0, start) <= X
            BY <1>3, <1>5, <3>1, <4>1, <5>2, CellMonotonic
          <5> HIDE DEF X
          <5>4. c0 < X
            BY <2>1, <2>4, <3>1, <5>3
          <5>5. Middle(0, c0) < Middle(0, X) /\ Middle(0, c0) \in Int /\ Middle(0, X) \in Int
            BY <1>3, <2>1, <3>1, <5>4, MiddleMonotonic
          <5> QED
            BY <4>1, <5>5
        <4>2. CASE c.twid # 0
          <5> HIDE DEF X
          <5> QED
            BY <2>1, <3>1, <4>2, MiddlesDiffer
        <4> QED
          BY <4>1, <4>2
      <3> HIDE DEF X
      <3> QED
        BY <2>1, <2>2, <3>1, <3>2
    <2> QED
      BY <1>1, <2>7, <2>8 DEF Apart, t
  <1>10. SetsInv'
    <2> HIDE DEF n, Loaded
    <2>1. ASSUME NEW i \in 1 .. n + 1
          PROVE  Enclosed(TW_registers'[i])
      <3>1. CASE i = n + 1
        BY <1>1, <1>7, <3>1
      <3>2. CASE i # n + 1
        <4>1. i \in 1 .. n
          BY <1>7, <3>2
        <4> QED
          BY <1>7, <4>1 DEF SetsInv
      <3> QED
        BY <3>1, <3>2
    <2>2. ASSUME NEW i \in 1 .. n + 1, NEW j \in 1 .. n + 1, j = i + 1
          PROVE  Apart(TW_registers'[i], TW_registers'[j])
      <3>1. CASE j = n + 1
        <4>1. i = n /\ n \in 1 .. n
          BY <1>7, <2>2, <3>1
        <4>2. TW_registers # <<>>
          BY <1>7, <4>1
        <4> QED
          BY <1>7, <1>9, <3>1, <4>1, <4>2
      <3>2. CASE j # n + 1
        <4>1. i \in 1 .. n /\ j \in 1 .. n
          BY <1>7, <2>2, <3>2
        <4> QED
          BY <1>7, <2>2, <4>1 DEF SetsInv
      <3> QED
        BY <3>1, <3>2
    <2>3. (SetsInv <=> /\ TW_registers \in Seq(Loaded)
                       /\ \A i \in DOMAIN TW_registers : Enclosed(TW_registers[i])
                       /\ \A i, j \in DOMAIN TW_registers :
                            j = i + 1 => Apart(TW_registers[i], TW_registers[j]))'
      BY DEF SetsInv
    <2> QED
      BY <1>7, <2>1, <2>2, <2>3
  <1> QED
    BY <1>8, <1>10

LEMMA NextSets ==
  ASSUME PowersOfTwo, ALPHA <= k, OverflowInv, Current, Busy, Paced, SetsInv, LastInv,
         [QueriesNext]_queryVars
  PROVE  SetsInv' /\ LastInv'
  <1>1. CASE Fill
    <2>1. /\ UNCHANGED <<wrapping, pre_largest_tts, TW_result, used_since, origin>>
          /\ UNCHANGED <<TW_registers, start>>
      BY <1>1 DEF Fill, Traffic, Packet, Silence
    <2>2. SetsInv'
      BY <2>1 DEF SetsInv
    <2>3. LatestCell' = LatestCell
      BY <2>1 DEF LatestCell
    <2> QED
      BY <2>1, <2>2, <2>3 DEF LastInv, CellOf, Middle, TrimmedBits
  <1>2. CASE LoadSet /\ Filled
    BY <1>2, LoadApart
  <1>3. CASE LoadSet /\ ~Filled
    <2>1. origin = NoOrigin /\ \A i \in Windows, j \in Indices : tw_r[second_highest][i][j] = Empty
      BY <1>3 DEF LoadSet, Poll, Retire, Busy
    <2>2. TW_registers' = TW_registers
      <3>1. \A i \in Windows, j \in Indices : tw_r[second_highest][i][j].FID = NoFID
        BY <2>1 DEF Empty
      <3> QED
        BY <1>3, <3>1 DEF LoadSet
    <2>3. TW_registers = <<>>
      BY <2>1 DEF LastInv, NoOrigin
    <2> QED
      BY <2>2, <2>3 DEF SetsInv, LastInv
  <1>4. CASE UNCHANGED queryVars
    <2>1. UNCHANGED <<TW_registers, start, origin, wrapping, pre_largest_tts>>
      BY <1>4 DEF queryVars, vars, windowVars
    <2>2. SetsInv'
      BY <2>1 DEF SetsInv
    <2>3. LatestCell' = LatestCell
      BY <2>1 DEF LatestCell
    <2> QED
      BY <2>1, <2>2, <2>3 DEF LastInv, CellOf, Middle, TrimmedBits
  <1> QED
    BY <1>1, <1>2, <1>3, <1>4 DEF QueriesNext

LEMMA NowSets ==
  ASSUME PowersOfTwo, ALPHA <= k
  PROVE  QueriesSpec /\ []Current /\ []Busy => []SetsInv
  <1>1. QueriesInit => Paced /\ SetsInv /\ LastInv
    <2> SUFFICES ASSUME QueriesInit
                 PROVE  Paced /\ SetsInv /\ LastInv
      OBVIOUS
    <2>1. Paced
      <3>1. second_highest = 0
        BY DEF QueriesInit, ControllerInit, WindowInit
      <3>2. \A q \in Quarters, i \in Windows, j \in Indices : tw_r[q][i][j] = Empty
        BY DEF QueriesInit, ControllerInit, WindowInit
      <3> QED
        BY <3>1, <3>2 DEF Paced, Quarters
    <2>2. TW_registers = <<>>
      BY DEF QueriesInit
    <2> QED
      BY <2>1, <2>2 DEF SetsInv, LastInv
  <1>2. [QueriesNext]_queryVars => [Next]_vars
    BY DEF QueriesNext, queryVars, Fill, LoadSet, Next, vars
  <1>3. OverflowInv => WindowInv /\ Uses
    BY DEF OverflowInv
  <1> QED
    BY <1>1, <1>2, <1>3, NextPaced, NextSets, NowOverflows, PTL DEF QueriesSpec

\* The pieces of a query: it begins in set m, if no set before holds its first moment,
\* and ends in set e, the first from there that does not end before it does.
From(ts, m, i) ==
  IF i = m THEN ts
  ELSE IF TW_registers[i - 1].lts >= TW_registers[i].sts
    THEN TW_registers[i - 1].lts ELSE TW_registers[i].sts

Piece(ts, te, m, e, i) ==
  [set |-> i, from |-> From(ts, m, i), to |-> IF i = e THEN te ELSE TW_registers[i].lts]

Pieces == [set : Nat, from : Int, to : Int]

Searches == [ts : Int, cuts : Seq(Pieces), found : BOOLEAN, failed : BOOLEAN]

\* One set of the search for the cuts.
Cut(te, q, i) ==
  LET n == Len(TW_registers)
      s == TW_registers[i]
  IN IF q.found \/ q.failed \/ ~(s.sts <= q.ts /\ q.ts <= s.lts) THEN q
     ELSE IF te <= s.lts
       THEN [q EXCEPT !.found = TRUE,
                      !.cuts = Append(@, [set |-> i, from |-> q.ts, to |-> te])]
     ELSE IF i = n THEN [q EXCEPT !.failed = TRUE]
     ELSE [q EXCEPT !.ts = Max({s.lts, TW_registers[i + 1].sts}),
                    !.cuts = Append(@, [set |-> i, from |-> q.ts, to |-> s.lts])]

NotBegun(ts) == [ts |-> ts, cuts |-> <<>>, found |-> FALSE, failed |-> FALSE]

LEMMA CutType ==
  ASSUME SetsInv, NEW te \in Int, NEW q \in Searches, NEW i \in 1 .. Len(TW_registers)
  PROVE  Cut(te, q, i) \in Searches
  <1> DEFINE n == Len(TW_registers)
             s == TW_registers[i]
  <1>1. n \in Nat /\ s \in Loaded /\ i \in Nat
    BY DEF SetsInv
  <1>2. s.sts \in Int /\ s.lts \in Int
    BY <1>1 DEF Loaded
  <1>3. i # n => Max({s.lts, TW_registers[i + 1].sts}) \in Int
    <2> SUFFICES ASSUME i # n
                 PROVE  Max({s.lts, TW_registers[i + 1].sts}) \in Int
      OBVIOUS
    <2>1. TW_registers[i + 1] \in Loaded
      BY <1>1 DEF SetsInv
    <2>2. TW_registers[i + 1].sts \in Int
      BY <2>1 DEF Loaded
    <2> HIDE DEF s
    <2> QED
      BY <1>2, <2>2, MaxIs
  <1>4. q.ts \in Int /\ q.cuts \in Seq(Pieces)
    BY DEF Searches
  <1> DEFINE found  == Append(q.cuts, [set |-> i, from |-> q.ts, to |-> te])
             passed == Append(q.cuts, [set |-> i, from |-> q.ts, to |-> s.lts])
  <1>5. found \in Seq(Pieces) /\ passed \in Seq(Pieces)
    <2>1. [set |-> i, from |-> q.ts, to |-> te] \in Pieces
      BY <1>1, <1>4 DEF Pieces
    <2>2. [set |-> i, from |-> q.ts, to |-> s.lts] \in Pieces
      BY <1>1, <1>2, <1>4 DEF Pieces
    <2> QED
      BY <1>4, <2>1, <2>2
  <1>6. [q EXCEPT !.found = TRUE, !.cuts = found] \in Searches
    <2> HIDE DEF found
    <2> QED
      BY <1>5 DEF Searches
  <1>7. [q EXCEPT !.failed = TRUE] \in Searches
    BY DEF Searches
  <1>8. i # n => [q EXCEPT !.ts = Max({s.lts, TW_registers[i + 1].sts}),
                           !.cuts = passed] \in Searches
    <2> HIDE DEF passed
    <2> QED
      BY <1>3, <1>5 DEF Searches
  <1> QED
    BY <1>6, <1>7, <1>8 DEF Cut

LEMMA CutsAre ==
  ASSUME SetsInv, NEW ts \in Int, NEW te \in Int
  PROVE  \E cut \in [0 .. Len(TW_registers) -> Searches] :
           /\ cut[0] = NotBegun(ts)
           /\ \A i \in 1 .. Len(TW_registers) : cut[i] = Cut(te, cut[i - 1], i)
           /\ Cuts(ts, te) = cut[Len(TW_registers)]
  <1> DEFINE n == Len(TW_registers)
             step == [p \in Nat \X Searches |->
                        IF p[1] \in 1 .. n THEN Cut(te, p[2], p[1]) ELSE p[2]]
             Is(f) == f = [i \in 0 .. n |->
                             IF i = 0 THEN NotBegun(ts) ELSE Cut(te, f[i - 1], i)]
  <1>1. n \in Nat
    BY DEF SetsInv
  <1>2. step \in [Nat \X Searches -> Searches]
    BY CutType
  <1>3. NotBegun(ts) \in Searches
    <2>1. <<>> \in Seq(Pieces)
      OBVIOUS
    <2> QED
      BY <2>1 DEF NotBegun, Searches
  <1>4. PICK f \in [0 .. n -> Searches] : RecursionUpTo(n, f, NotBegun(ts), step)
    <2> HIDE DEF step, n, Is
    <2> QED
      BY <1>1, <1>2, <1>3, Recursion, Zenon
  <1>5. ASSUME NEW i \in 1 .. n
        PROVE  f[i] = Cut(te, f[i - 1], i)
    <2>1. i \in Nat /\ i - 1 \in 0 .. n
      BY <1>1
    <2>2. f[i] = step[<<i, f[i - 1]>>]
      <3> HIDE DEF step
      <3> QED
        BY <1>4 DEF RecursionUpTo
    <2>3. <<i, f[i - 1]>> \in Nat \X Searches
      BY <1>4, <2>1
    <2> QED
      BY <2>2, <2>3
  <1>6. Is(f)
    <2>1. f[0] = NotBegun(ts)
      <3> HIDE DEF step
      <3> QED
        BY <1>4 DEF RecursionUpTo
    <2>2. \A i \in 0 .. n : i = 0 \/ i \in 1 .. n
      BY <1>1
    <2>3. \A i \in 0 .. n : f[i] = IF i = 0 THEN NotBegun(ts) ELSE Cut(te, f[i - 1], i)
      BY <1>5, <2>1, <2>2
    <2> QED
      BY <1>4, <2>3
  <1> DEFINE cut == CHOOSE g : Is(g)
  <1>7. Cuts(ts, te) = cut[n]
    BY DEF Cuts, Cut, NotBegun
  <1>8. Is(cut)
    <2> HIDE DEF Is
    <2> QED
      BY <1>6
  <1> HIDE DEF cut
  <1>9. cut[0] = NotBegun(ts) /\ \A i \in 1 .. n : cut[i] = Cut(te, cut[i - 1], i)
    BY <1>1, <1>8
  <1>10. cut \in [0 .. n -> Searches]
    <2> DEFINE S == {i \in 0 .. n : cut[i] \in Searches}
    <2>1. 0 \in S
      BY <1>1, <1>3, <1>9
    <2>2. ASSUME NEW i \in 1 .. n, i - 1 \in S
          PROVE  i \in S
      BY <1>1, <1>9, <2>2, CutType
    <2>3. \A i \in 0 .. n : i \in S
      <3> HIDE DEF S, n
      <3> QED
        BY <1>1, <2>1, <2>2, InductionUpTo
    <2> QED
      BY <1>8, <2>3
  <1> QED
    BY <1>7, <1>9, <1>10

LEMMA SetsFollow ==
  ASSUME SetsInv
  PROVE  LET n == Len(TW_registers) IN
         /\ n \in Nat /\ DOMAIN TW_registers = 1 .. n
         /\ \A i \in 1 .. n : /\ TW_registers[i].sts \in Int /\ TW_registers[i].lts \in Int
                              /\ TW_registers[i].sts <= TW_registers[i].lts
         /\ \A i, j \in 1 .. n : i < j => TW_registers[i].lts < TW_registers[j].lts
         /\ \A i, j \in 1 .. n : j = i + 1 =>
              \A c \in TW_registers[j].TW_result : Moment(c) # TW_registers[i].lts
         /\ \A i \in 1 .. n : \A c \in TW_registers[i].TW_result :
              Moment(c) \in Int /\ Moment(c) <= TW_registers[i].lts
  <1> DEFINE n == Len(TW_registers)
             l(i) == TW_registers[i].lts
             S == {j \in 0 .. n : \A i \in 1 .. n : i < j => l(i) < l(j)}
  <1>1. n \in Nat /\ DOMAIN TW_registers = 1 .. n
    BY DEF SetsInv
  <1>2. \A i \in 1 .. n : Enclosed(TW_registers[i])
    BY <1>1 DEF SetsInv
  <1>3. \A i \in 1 .. n : /\ TW_registers[i].sts \in Int /\ l(i) \in Int
                          /\ TW_registers[i].sts <= l(i)
    BY <1>2 DEF Enclosed
  <1>4. \A i, j \in 1 .. n : j = i + 1 => Apart(TW_registers[i], TW_registers[j])
    BY <1>1 DEF SetsInv
  <1>5. 0 \in S
    BY <1>1
  <1>6. ASSUME NEW j \in 1 .. n, j - 1 \in S
        PROVE  j \in S
    <2> SUFFICES ASSUME NEW i \in 1 .. n, i < j
                 PROVE  l(i) < l(j)
      BY <1>1
    <2>1. j - 1 \in 1 .. n /\ i <= j - 1 /\ j = (j - 1) + 1
      BY <1>1
    <2>2. l(j - 1) < l(j)
      BY <1>4, <2>1 DEF Apart
    <2>3. i = j - 1 \/ l(i) < l(j - 1)
      BY <1>6, <2>1
    <2>4. l(i) \in Int /\ l(j - 1) \in Int /\ l(j) \in Int
      BY <1>3, <2>1
    <2> HIDE DEF l
    <2> QED
      BY <2>2, <2>3, <2>4
  <1>7. \A j \in 0 .. n : j \in S
    <2> HIDE DEF S, n
    <2> QED
      BY <1>1, <1>5, <1>6, InductionUpTo
  <1>8. \A i, j \in 1 .. n : i < j => l(i) < l(j)
    <2> HIDE DEF l
    <2>1. \A j \in 1 .. n : j \in 0 .. n
      BY <1>1
    <2> QED
      BY <1>7, <2>1
  <1>9. \A i, j \in 1 .. n : j = i + 1 =>
          \A c \in TW_registers[j].TW_result : Moment(c) # l(i)
    BY <1>4 DEF Apart
  <1>10. \A i \in 1 .. n : \A c \in TW_registers[i].TW_result :
           Moment(c) \in Int /\ Moment(c) <= l(i)
    BY <1>2 DEF Enclosed
  <1> QED
    BY Zenon, <1>1, <1>3, <1>8, <1>9, <1>10

Queried(ts, te, m, e) ==
  LET n == Len(TW_registers)
      Holds(i) == TW_registers[i].sts <= ts /\ ts <= TW_registers[i].lts
  IN /\ m \in 1 .. n /\ e \in 1 .. n /\ m <= e
     /\ Holds(m) /\ \A i \in 1 .. m - 1 : ~Holds(i)
     /\ te <= TW_registers[e].lts /\ \A i \in m .. e - 1 : ~(te <= TW_registers[i].lts)

\* What the search has found when it has looked at i sets.
Searched(q, i, ts, te, m, e) ==
  LET N == (IF i < e THEN i ELSE e) - m + 1
  IN /\ q \in Searches /\ q.failed = FALSE /\ (q.found <=> i >= e)
     /\ i < m => q.ts = ts /\ q.cuts = <<>>
     /\ i >= m => /\ Len(q.cuts) = N
                  /\ \A x \in 1 .. N : q.cuts[x] = Piece(ts, te, m, e, m + x - 1)
     /\ m <= i /\ i < e => q.ts = From(ts, m, i + 1)

LEMMA CutSearches ==
  ASSUME SetsInv, NEW ts \in Int, NEW te \in Int, NEW m, NEW e, Queried(ts, te, m, e),
         NEW i \in 1 .. Len(TW_registers), NEW q, Searched(q, i - 1, ts, te, m, e)
  PROVE  Searched(Cut(te, q, i), i, ts, te, m, e)
  <1> DEFINE n == Len(TW_registers)
             s == TW_registers[i]
  <1>1. /\ n \in Nat /\ m \in 1 .. n /\ e \in 1 .. n /\ m <= e /\ i \in Nat
        /\ s.sts \in Int /\ s.lts \in Int /\ s.sts <= s.lts
    BY SetsFollow DEF Queried
  <1>2. q \in Searches /\ q.failed = FALSE /\ (q.found <=> i - 1 >= e)
    BY DEF Searched
  <1>3. CASE i > e
    <2>1. Cut(te, q, i) = q
      BY <1>1, <1>2, <1>3 DEF Cut
    <2>2. i - 1 >= e /\ ~(i < e) /\ ~(i - 1 < e) /\ i >= e /\ i - 1 >= m /\ ~(i < m)
      BY <1>1, <1>3
    <2> QED
      BY <2>1, <2>2 DEF Searched
  <1>4. CASE i < m
    <2>1. q.ts = ts /\ q.cuts = <<>> /\ ~(s.sts <= ts /\ ts <= s.lts) /\ ~q.found
      <3>1. i \in 1 .. m - 1 /\ i - 1 < m /\ ~(i - 1 >= e)
        BY <1>1, <1>4
      <3> QED
        BY <1>2, <3>1 DEF Searched, Queried
    <2>2. Cut(te, q, i) = q
      BY <2>1 DEF Cut
    <2>3. i < e /\ ~(i >= m) /\ ~(m <= i) /\ ~(i >= e)
      BY <1>1, <1>4
    <2> QED
      BY <1>2, <1>4, <2>1, <2>2, <2>3 DEF Searched
  <1>5. CASE m <= i /\ i <= e
    <2> DEFINE M == i - m
               P(x) == Piece(ts, te, m, e, m + x - 1)
               f == From(ts, m, i)
               r == Cut(te, q, i)
    <2>1. M \in Nat /\ M + 1 = i - m + 1 /\ m + (M + 1) - 1 = i
      BY <1>1, <1>5
    <2>2. ~q.found /\ q.cuts \in Seq(Pieces) /\ q.ts \in Int
      BY <1>1, <1>2, <1>5 DEF Searches
    <2>3. q.ts = f /\ Len(q.cuts) = M /\ \A x \in 1 .. M : q.cuts[x] = P(x)
      <3>1. CASE i = m
        <4>1. q.ts = ts /\ q.cuts = <<>>
          BY <1>1, <3>1 DEF Searched
        <4>2. f = ts /\ M = 0
          BY <1>1, <3>1 DEF From
        <4> QED
          BY <4>1, <4>2
      <3>2. CASE i # m
        <4>1. i - 1 >= m /\ m <= i - 1 /\ i - 1 < e /\ (i - 1) + 1 = i /\ (i - 1) - m + 1 = M
          BY <1>1, <1>5, <3>2
        <4> QED
          BY <4>1 DEF Searched
      <3> QED
        BY <3>1, <3>2
    <2>4. s.sts <= q.ts /\ q.ts <= s.lts
      <3>1. CASE i = m
        BY <2>3, <3>1 DEF Queried, From
      <3>2. CASE i # m
        <4>1. i - 1 \in 1 .. n /\ i - 1 < i
          BY <1>1, <1>5, <3>2
        <4>2. TW_registers[i - 1].lts \in Int /\ TW_registers[i - 1].lts < s.lts
          BY <4>1, SetsFollow
        <4>3. f = IF TW_registers[i - 1].lts >= s.sts THEN TW_registers[i - 1].lts ELSE s.sts
          BY <3>2 DEF From
        <4> HIDE DEF f, s
        <4> QED
          BY <1>1, <2>3, <4>2, <4>3
      <3> QED
        BY <3>1, <3>2
    <2>5. te <= s.lts <=> i = e
      BY <1>1, <1>5 DEF Queried
    <2>6. r \in Searches
      BY <1>2, CutType
    <2> DEFINE p == [set |-> i, from |-> q.ts, to |-> IF i = e THEN te ELSE s.lts]
    <2>7. p = P(M + 1) /\ p \in Pieces
      <3>1. P(M + 1) = Piece(ts, te, m, e, i)
        BY <2>1
      <3> QED
        BY <1>1, <2>2, <2>3, <3>1 DEF Piece, Pieces
    <2>8. r.cuts = Append(q.cuts, p) /\ r.failed = FALSE /\ (r.found <=> i >= e)
          /\ (i < e => r.ts = From(ts, m, i + 1))
      <3>1. CASE i = e
        <4>1. r = [q EXCEPT !.found = TRUE, !.cuts = Append(q.cuts, p)]
          BY <1>2, <2>2, <2>4, <2>5, <3>1 DEF Cut
        <4>2. i >= e /\ ~(i < e)
          BY <1>1, <3>1
        <4> HIDE DEF p, r
        <4> QED
          BY <1>2, <4>1, <4>2 DEF Searches
      <3>2. CASE i # e
        <4>1. i < e /\ ~(i >= e) /\ i # n /\ i + 1 \in 1 .. n /\ i + 1 # m /\ (i + 1) - 1 = i
          BY <1>1, <1>5, <3>2
        <4>2. r = [q EXCEPT !.ts = Max({s.lts, TW_registers[i + 1].sts}),
                            !.cuts = Append(q.cuts, p)]
          BY <1>2, <2>2, <2>4, <2>5, <3>2, <4>1 DEF Cut
        <4>3. TW_registers[i + 1].sts \in Int
          BY <4>1, SetsFollow
        <4>4. Max({s.lts, TW_registers[i + 1].sts}) = From(ts, m, i + 1)
          <5>1. From(ts, m, i + 1) = IF s.lts >= TW_registers[i + 1].sts
                                       THEN s.lts ELSE TW_registers[i + 1].sts
            BY <4>1 DEF From
          <5> HIDE DEF s
          <5> QED
            BY <1>1, <4>3, <5>1, MaxIs
        <4> HIDE DEF p, r, s
        <4> QED
          BY <1>2, <2>2, <4>1, <4>2, <4>4 DEF Searches
      <3> QED
        BY <3>1, <3>2
    <2>9. Len(r.cuts) = M + 1 /\ \A x \in 1 .. M + 1 : r.cuts[x] = P(x)
      <3> HIDE DEF p, r, M, P
      <3> QED
        BY <2>1, <2>2, <2>3, <2>7, <2>8
    <2>10. (IF i < e THEN i ELSE e) - m + 1 = M + 1 /\ ~(i < m) /\ i >= m
      BY <1>1, <1>5
    <2> HIDE DEF r, M
    <2> QED
      BY <2>6, <2>8, <2>9, <2>10 DEF Searched, r
  <1> QED
    BY <1>1, <1>3, <1>4, <1>5

LEMMA CutsFound ==
  ASSUME SetsInv, NEW ts \in Int, NEW te \in Int, NEW m, NEW e, Queried(ts, te, m, e)
  PROVE  LET q == Cuts(ts, te) IN
         /\ q.found /\ DOMAIN q.cuts = 1 .. e - m + 1
         /\ \A x \in 1 .. e - m + 1 : q.cuts[x] = Piece(ts, te, m, e, m + x - 1)
  <1> DEFINE n == Len(TW_registers)
             q == Cuts(ts, te)
  <1>1. PICK cut \in [0 .. n -> Searches] :
          /\ cut[0] = NotBegun(ts)
          /\ \A i \in 1 .. n : cut[i] = Cut(te, cut[i - 1], i)
          /\ q = cut[n]
    BY CutsAre
  <1>2. n \in Nat /\ m \in 1 .. n /\ e \in 1 .. n /\ m <= e
    BY SetsFollow DEF Queried
  <1> DEFINE S == {i \in 0 .. n : Searched(cut[i], i, ts, te, m, e)}
  <1>3. 0 \in S
    <2>1. cut[0] \in Searches /\ ~(0 >= e) /\ 0 < m /\ ~(0 >= m) /\ ~(m <= 0) /\ 0 \in 0 .. n
      BY <1>1, <1>2
    <2> QED
      BY <1>1, <2>1 DEF Searched, NotBegun
  <1>4. ASSUME NEW i \in 1 .. n, i - 1 \in S
        PROVE  i \in S
    <2>1. Searched(cut[i - 1], i - 1, ts, te, m, e)
      BY <1>4
    <2>2. Searched(Cut(te, cut[i - 1], i), i, ts, te, m, e)
      BY <2>1, CutSearches
    <2>3. i \in 0 .. n
      BY <1>2
    <2> QED
      BY <1>1, <2>2, <2>3
  <1>5. Searched(q, n, ts, te, m, e)
    <2>1. \A i \in 0 .. n : i \in S
      <3> HIDE DEF S, n
      <3> QED
        BY <1>2, <1>3, <1>4, InductionUpTo
    <2> QED
      BY <1>1, <1>2, <2>1
  <1> HIDE DEF q, n
  <1>6. n >= e /\ n >= m /\ (IF n < e THEN n ELSE e) - m + 1 = e - m + 1 /\ e - m + 1 \in Nat
    BY <1>2
  <1>7. /\ q.found /\ q.cuts \in Seq(Pieces) /\ Len(q.cuts) = e - m + 1
        /\ \A x \in 1 .. e - m + 1 : q.cuts[x] = Piece(ts, te, m, e, m + x - 1)
    BY <1>5, <1>6 DEF Searched, Searches
  <1>8. DOMAIN q.cuts = 1 .. e - m + 1
    BY <1>6, <1>7
  <1> QED
    BY <1>7, <1>8 DEF q

\* What the pieces count: pairs of a piece and a cell of its set.
LEMMA PiecesCount ==
  ASSUME SetsInv, NEW ts \in Int, NEW te \in Int, NEW m, NEW e, Queried(ts, te, m, e),
         NEW x, NEW c
  PROVE  <<x, c>> \in Counted(Cuts(ts, te).cuts) <=>
           /\ x \in 1 .. e - m + 1 /\ c \in TW_registers[m + x - 1].TW_result
           /\ From(ts, m, m + x - 1) <= Moment(c)
           /\ Moment(c) <= IF m + x - 1 = e THEN te ELSE TW_registers[m + x - 1].lts
  <1> DEFINE cuts == Cuts(ts, te).cuts
             N == e - m + 1
  <1>1. DOMAIN cuts = 1 .. N /\ \A y \in 1 .. N : cuts[y] = Piece(ts, te, m, e, m + y - 1)
    BY CutsFound
  <1> HIDE DEF cuts, N
  <1>2. <<x, c>> \in Counted(cuts) <=>
          /\ x \in 1 .. N /\ c \in TW_registers[cuts[x].set].TW_result
          /\ cuts[x].from <= Moment(c) /\ Moment(c) <= cuts[x].to
    <2> DEFINE C(i) == {d \in TW_registers[cuts[i].set].TW_result :
                          cuts[i].from <= Moment(d) /\ Moment(d) <= cuts[i].to}
    <2>1. Counted(cuts) = UNION {{<<i, d>> : d \in C(i)} : i \in 1 .. N}
      BY <1>1 DEF Counted
    <2>2. <<x, c>> \in UNION {{<<i, d>> : d \in C(i)} : i \in 1 .. N}
            <=> x \in 1 .. N /\ c \in C(x)
      <3> HIDE DEF C
      <3> QED
        OBVIOUS
    <2> QED
      BY <2>1, <2>2
  <1>3. x \in 1 .. N =>
          /\ cuts[x].set = m + x - 1 /\ cuts[x].from = From(ts, m, m + x - 1)
          /\ cuts[x].to = IF m + x - 1 = e THEN te ELSE TW_registers[m + x - 1].lts
    BY <1>1 DEF Piece
  <1> QED
    BY <1>2, <1>3 DEF cuts, N

\* No cell is in two pieces: the second piece begins at the end of a set, and retains
\* no cell that stands for that moment.
LEMMA CountedInOne ==
  ASSUME SetsInv, NEW ts \in Int, NEW te \in Int, NEW m, NEW e, Queried(ts, te, m, e),
         NEW c, NEW x, NEW y,
         <<x, c>> \in Counted(Cuts(ts, te).cuts), <<y, c>> \in Counted(Cuts(ts, te).cuts)
  PROVE  ~(x < y)
  <1> SUFFICES ASSUME x < y
               PROVE  FALSE
    OBVIOUS
  <1> DEFINE n == Len(TW_registers)
             a == m + x - 1
             b == m + y - 1
  <1>1. /\ x \in 1 .. e - m + 1 /\ y \in 1 .. e - m + 1
        /\ c \in TW_registers[a].TW_result /\ c \in TW_registers[b].TW_result
        /\ Moment(c) <= IF a = e THEN te ELSE TW_registers[a].lts
        /\ From(ts, m, b) <= Moment(c)
    BY PiecesCount
  <1>2. n \in Nat /\ m \in 1 .. n /\ e \in 1 .. n /\ m <= e
    BY SetsFollow DEF Queried
  <1>3. /\ a \in 1 .. n /\ b \in 1 .. n /\ a < b /\ b - 1 \in 1 .. n /\ b = (b - 1) + 1
        /\ a # e /\ b # m /\ a <= b - 1
    BY <1>1, <1>2
  <1>4. /\ TW_registers[a].lts \in Int /\ TW_registers[b - 1].lts \in Int
        /\ TW_registers[b].sts \in Int /\ Moment(c) \in Int
        /\ a = b - 1 \/ TW_registers[a].lts < TW_registers[b - 1].lts
        /\ Moment(c) # TW_registers[b - 1].lts
    BY <1>1, <1>3, SetsFollow
  <1>5. Moment(c) <= TW_registers[a].lts
    BY <1>1, <1>3
  <1>6. TW_registers[b - 1].lts <= From(ts, m, b)
    BY <1>3, <1>4 DEF From
  <1>7. From(ts, m, b) \in Int
    BY <1>3, <1>4 DEF From
  <1>8. From(ts, m, b) <= Moment(c)
    BY <1>1
  <1> HIDE DEF a, b
  <1> QED
    BY <1>3, <1>4, <1>5, <1>6, <1>7, <1>8

LEMMA CountedAreFew ==
  ASSUME SetsInv, NEW ts \in Int, NEW te \in Int, NEW m, NEW e, Queried(ts, te, m, e)
  PROVE  LET counted == Counted(Cuts(ts, te).cuts)
         IN Cardinality({p[2] : p \in counted}) = Cardinality(counted)
  <1> DEFINE n == Len(TW_registers)
             counted == Counted(Cuts(ts, te).cuts)
             cells == {p[2] : p \in counted}
             all == {TW_registers[i].TW_result : i \in 1 .. n}
             f == [p \in counted |-> p[2]]
  <1>1. /\ n \in Nat /\ m \in 1 .. n /\ e \in 1 .. n /\ m <= e
        /\ \A i \in 1 .. n : Enclosed(TW_registers[i])
    BY SetsFollow DEF Queried, SetsInv
  <1>2. IsFiniteSet(UNION all)
    <2> DEFINE g == [i \in 1 .. n |-> TW_registers[i].TW_result]
    <2>1. IsFiniteSet(1 .. n)
      BY <1>1, FS_Interval
    <2>2. IsFiniteSet({g[i] : i \in 1 .. n})
      <3> HIDE DEF g
      <3> QED
        BY <2>1, FiniteImage
    <2>3. {g[i] : i \in 1 .. n} = all
      OBVIOUS
    <2>4. \A s \in all : IsFiniteSet(s)
      BY <1>1 DEF Enclosed
    <2>5. IsFiniteSet(all)
      BY <2>2, <2>3
    <2> HIDE DEF all
    <2> QED
      BY <2>4, <2>5, FS_UNION
  <1>3. \A p \in counted : \E x, c : p = <<x, c>>
    BY DEF Counted
  <1>4. \A x, c : <<x, c>> \in counted =>
          /\ x \in 1 .. e - m + 1 /\ c \in TW_registers[m + x - 1].TW_result
    BY PiecesCount
  <1>5. \A x, y, c : <<x, c>> \in counted /\ <<y, c>> \in counted => ~(x < y)
    BY CountedInOne
  <1> HIDE DEF counted
  <1>6. cells \subseteq UNION all
    <2> SUFFICES ASSUME NEW p \in counted
                 PROVE  p[2] \in UNION all
      OBVIOUS
    <2>1. PICK x, c : p = <<x, c>>
      BY <1>3
    <2>2. x \in 1 .. e - m + 1 /\ c \in TW_registers[m + x - 1].TW_result
      BY <1>4, <2>1
    <2>3. m + x - 1 \in 1 .. n
      BY <1>1, <2>2
    <2> QED
      BY <2>1, <2>2, <2>3
  <1>7. IsFiniteSet(cells)
    <2> HIDE DEF cells, all
    <2> QED
      BY <1>2, <1>6, FS_Subset
  <1>8. ASSUME NEW p \in counted, NEW q \in counted, p[2] = q[2]
        PROVE  p = q
    <2>1. PICK x, c : p = <<x, c>>
      BY <1>3
    <2>2. PICK y, d : q = <<y, d>>
      BY <1>3
    <2>3. c = d
      BY <1>8, <2>1, <2>2
    <2>4. x \in Int /\ y \in Int /\ ~(x < y) /\ ~(y < x)
      BY <1>1, <1>4, <1>5, <2>1, <2>2, <2>3
    <2> QED
      BY <2>1, <2>2, <2>3, <2>4
  <1>9. f \in Bijection(counted, cells)
    <2>1. f \in [counted -> cells]
      OBVIOUS
    <2>2. \A p, q \in counted : f[p] = f[q] => p = q
      BY <1>8
    <2>3. \A c \in cells : \E p \in counted : f[p] = c
      OBVIOUS
    <2> HIDE DEF f, cells
    <2> QED
      BY <2>1, <2>2, <2>3 DEF Bijection, Injection, Surjection, IsInjective
  <1>10. ExistsBijection(cells, counted)
    <2>1. ExistsBijection(counted, cells)
      BY <1>9 DEF ExistsBijection
    <2> HIDE DEF cells
    <2> QED
      BY <2>1, Fun_ExistsBijSymmetric
  <1> HIDE DEF cells
  <1>11. Cardinality(counted) = Cardinality(cells)
    BY <1>7, <1>10, FS_Bijection
  <1> QED
    BY <1>11 DEF counted, cells

\* A query that begins in a set and ends by the end of the next is cut somewhere.
LEMMA QueryBegins ==
  ASSUME SetsInv, NEW ts \in Int, NEW te \in Int, NEW a, NEW b,
         a \in 1 .. Len(TW_registers), b \in 1 .. Len(TW_registers), a <= b,
         TW_registers[a].sts <= ts, ts <= TW_registers[a].lts, te <= TW_registers[b].lts
  PROVE  \E m, e : Queried(ts, te, m, e) /\ m <= a
  <1> DEFINE n == Len(TW_registers)
             Holds(i) == TW_registers[i].sts <= ts /\ ts <= TW_registers[i].lts
             M == {i \in 1 .. n : Holds(i)}
  <1>1. n \in Nat /\ a \in M /\ M \subseteq Nat
    BY SetsFollow
  <1>2. PICK m \in M : \A i \in M : m <= i
    <2> HIDE DEF M
    <2> QED
      BY <1>1, Least
  <1> DEFINE E == {i \in m .. n : te <= TW_registers[i].lts}
  <1>3. m \in 1 .. n /\ Holds(m) /\ m <= a
    BY <1>1, <1>2
  <1>4. b \in E /\ E \subseteq Nat
    BY <1>1, <1>3
  <1>5. PICK e \in E : \A i \in E : e <= i
    <2> HIDE DEF E
    <2> QED
      BY <1>4, Least
  <1>6. e \in 1 .. n /\ m <= e /\ te <= TW_registers[e].lts
    BY <1>1, <1>3, <1>5
  <1>7. \A i \in 1 .. m - 1 : ~Holds(i)
    <2> SUFFICES ASSUME NEW i \in 1 .. m - 1, Holds(i)
                 PROVE  FALSE
      OBVIOUS
    <2>1. i \in 1 .. n /\ ~(m <= i)
      BY <1>1, <1>3
    <2> QED
      BY <1>2, <2>1
  <1>8. \A i \in m .. e - 1 : ~(te <= TW_registers[i].lts)
    <2> SUFFICES ASSUME NEW i \in m .. e - 1, te <= TW_registers[i].lts
                 PROVE  FALSE
      OBVIOUS
    <2>1. i \in m .. n /\ ~(e <= i)
      BY <1>1, <1>3, <1>6
    <2> QED
      BY <1>5, <2>1
  <1>9. Queried(ts, te, m, e)
    BY <1>3, <1>6, <1>7, <1>8 DEF Queried
  <1> QED
    BY <1>3, <1>9

\* What the query asks of a set that it reaches, from its sts and from the end of the
\* set before, is counted.
LEMMA AskedIsCounted ==
  ASSUME SetsInv, NEW ts \in Int, NEW te \in Int, NEW m, NEW e, Queried(ts, te, m, e),
         NEW a \in 1 .. Len(TW_registers), m <= a,
         NEW c \in TW_registers[a].TW_result, ts <= Moment(c), Moment(c) <= te,
         TW_registers[a].sts <= Moment(c),
         a > 1 => Moment(c) >= TW_registers[a - 1].lts
  PROVE  c \in {p[2] : p \in Counted(Cuts(ts, te).cuts)}
  <1> DEFINE n == Len(TW_registers)
             x == a - m + 1
  <1>1. /\ n \in Nat /\ m \in 1 .. n /\ e \in 1 .. n /\ m <= e
        /\ Moment(c) \in Int /\ TW_registers[a].sts \in Int /\ TW_registers[a].lts \in Int
        /\ TW_registers[a].sts <= Moment(c) /\ Moment(c) <= TW_registers[a].lts
    BY SetsFollow DEF Queried
  <1>2. a > 1 => /\ a - 1 \in 1 .. n /\ TW_registers[a - 1].lts \in Int
                 /\ Moment(c) # TW_registers[a - 1].lts
    <2> SUFFICES ASSUME a > 1
                 PROVE  /\ a - 1 \in 1 .. n /\ TW_registers[a - 1].lts \in Int
                        /\ Moment(c) # TW_registers[a - 1].lts
      OBVIOUS
    <2>1. a - 1 \in 1 .. n /\ a = (a - 1) + 1
      BY <1>1
    <2> QED
      BY <2>1, SetsFollow
  <1>3. a <= e
    <2> SUFFICES ASSUME e < a
                 PROVE  FALSE
      BY <1>1
    <2>1. a > 1 /\ (e = a - 1 \/ e < a - 1)
      BY <1>1
    <2>2. te <= TW_registers[e].lts
      BY DEF Queried
    <2>3. TW_registers[e].lts \in Int /\ TW_registers[e].lts <= TW_registers[a - 1].lts
      BY <1>1, <1>2, <2>1, SetsFollow
    <2> QED
      BY <1>1, <1>2, <2>1, <2>2, <2>3
  <1>4. x \in 1 .. e - m + 1 /\ m + x - 1 = a
    BY <1>1, <1>3
  <1>5. From(ts, m, a) <= Moment(c)
    <2>1. a # m => a > 1
      BY <1>1
    <2> QED
      BY <1>1, <1>2, <2>1 DEF From
  <1>6. Moment(c) <= IF a = e THEN te ELSE TW_registers[a].lts
    BY <1>1
  <1> HIDE DEF x
  <1>7. <<x, c>> \in Counted(Cuts(ts, te).cuts)
    BY <1>4, <1>5, <1>6, PiecesCount
  <1>8. c = <<x, c>>[2]
    OBVIOUS
  <1> QED
    BY <1>7, <1>8

LEMMA SetsCountOnce == SetsInv => CountedOnce
  <1> DEFINE n == Len(TW_registers)
             Cells2(i) == TW_registers[i].TW_result
  <1> SUFFICES ASSUME SetsInv, n > 1, NEW from \in Cells2(n - 1), NEW to \in Cells2(n),
                      TW_registers[n - 1].sts <= Moment(from)
               PROVE  LET q       == Cuts(Moment(from), Moment(to))
                          counted == Counted(q.cuts)
                          Asked(i) == {c \in Cells2(i) :
                             /\ Moment(from) <= Moment(c) /\ Moment(c) <= Moment(to)
                             /\ TW_registers[i].sts <= Moment(c)
                             /\ i > 1 => Moment(c) >= TW_registers[i - 1].lts}
                      IN /\ q.found
                         /\ Cardinality({p[2] : p \in counted}) = Cardinality(counted)
                         /\ Asked(n - 1) \cup Asked(n) \subseteq {p[2] : p \in counted}
    BY Zenon DEF CountedOnce
  <1> DEFINE ts == Moment(from)
             te == Moment(to)
             counted == Counted(Cuts(ts, te).cuts)
  <1>1. n \in Nat /\ n - 1 \in 1 .. n /\ n \in 1 .. n /\ n - 1 <= n
    BY SetsFollow
  <1>2. /\ ts \in Int /\ te \in Int /\ TW_registers[n - 1].sts <= ts
        /\ ts <= TW_registers[n - 1].lts /\ te <= TW_registers[n].lts
    BY <1>1, SetsFollow
  <1> HIDE DEF ts, te
  <1>3. PICK m, e : Queried(ts, te, m, e) /\ m <= n - 1
    BY <1>1, <1>2, QueryBegins
  <1>4. Cuts(ts, te).found
    BY <1>2, <1>3, CutsFound
  <1>5. Cardinality({p[2] : p \in counted}) = Cardinality(counted)
    BY <1>2, <1>3, CountedAreFew
  <1>6. ASSUME NEW i \in {n - 1, n}, NEW c \in Cells2(i), ts <= Moment(c), Moment(c) <= te,
               TW_registers[i].sts <= Moment(c),
               i > 1 => Moment(c) >= TW_registers[i - 1].lts
        PROVE  c \in {p[2] : p \in counted}
    <2>1. i \in 1 .. n /\ m <= i
      <3>1. m \in 1 .. n
        BY <1>3 DEF Queried
      <3> QED
        BY <1>1, <1>3, <3>1
    <2> HIDE DEF n
    <2> QED
      BY <1>2, <1>3, <1>6, <2>1, AskedIsCounted DEF n
  <1> HIDE DEF counted, n
  <1> QED
    BY <1>4, <1>5, <1>6 DEF ts, te, counted, n

\* With any windows, each of cells twice as long as those before or longer (ALPHA): a
\* query over two sets, from a cell that is not before the sts of its set, counts every
\* cell it asks for, and none of them twice.  It is cut where the first set ends, which
\* comes before all the next one retains of its own use, and at a moment that no cell of
\* an older window stands for.
THEOREM QueriesCountOnce ==
  ASSUME PowersOfTwo, ALPHA <= k
  PROVE  QueriesSpec /\ []Current /\ []Busy => []CountedOnce
  BY NowSets, SetsCountOnce, PTL

----------------------------------------------------------------------------
(* Signals.                                                                *)

\* How far all windows reach back, and how long a use of a quarter and the one after
\* it last.
Reach   == 2^(TrimmedBits(T - 1) + k + 1)
Horizon == 2^(TW0_TB + threshold_bit) - 2^TW0_TB

\* A cell that is near a stamp, but of another period, is too old to be there.
SignalsTold ==
  Horizon + Reach + CLOSE_THRESHOLD * 2^TrimmedBits(T - 1) <= 2^TsBits

LEMMA DescribedReach ==
  ASSUME PowersOfTwo, NEW cells, NEW o \in Int, NEW C \in Nat, Describes(cells, o, C),
         NEW S \in Nat, CellOf(0, S) <= C, NEW c \in cells
  PROVE  c.FID >= S - Reach
  <1> DEFINE i == c.twid
             L == LargestTts(C)
             b == 2^TW0_TB
             a == 2^TrimmedBits(i)
             z == 2^TrimmedBits(T - 1)
             K == 2^k
             X == CellOf(i, c.FID)
             q == L[i]
  <1>1. i \in Windows /\ c.FID \in Nat /\ q - K < X /\ q \in Int
    <2>1. L \in [Windows -> Int]
      BY LargestTtsIs
    <2> QED
      BY <2>1 DEF Describes
  <1>2. /\ b \in Nat \ {0} /\ a \in Nat \ {0} /\ z \in Nat \ {0} /\ K \in Nat \ {0}
        /\ a <= z /\ Reach = 2 * (K * z)
    <2>1. T - 1 \in Windows
      BY Parameters DEF Windows
    <2> QED
      BY <1>1, <2>1, LastSize, WindowSizes, Sizes DEF Reach
  <1>3. CellOf(0, S) = S \div b /\ X = c.FID \div a
    BY Threshold DEF CellOf
  <1>4. (C + 1) * b - K * a <= (q + 1) * a
    BY <1>1, WindowsReach
  <1> HIDE DEF b, a, z, K, X, q, L, i
  <1>5. S < (C + 1) * b
    <2>1. S < ((S \div b) + 1) * b /\ S \div b \in Int
      BY <1>2, DivMod
    <2>2. ((S \div b) + 1) * b <= (C + 1) * b
      BY <1>2, <1>3, <2>1
    <2>3. ((S \div b) + 1) * b \in Int /\ (C + 1) * b \in Int
      BY <1>2, <2>1
    <2> QED
      BY <2>1, <2>2, <2>3
  <1>6. X * a <= c.FID /\ X \in Int
    <2>1. c.FID \in Int
      BY <1>1
    <2>2. (c.FID \div a) * a <= c.FID /\ (c.FID \div a) \in Int
      BY <1>2, <2>1, DivMod
    <2> QED
      BY <1>3, <2>2
  <1>7. ((q + 1) - K) * a <= X * a
    BY <1>1, <1>2, <1>6
  <1>8. ((q + 1) - K) * a = (q + 1) * a - K * a /\ (q + 1) * a \in Int /\ K * a \in Int
    BY <1>1, <1>2
  <1>9. K * a <= K * z /\ K * z \in Int
    BY <1>2
  <1>10. (C + 1) * b \in Int /\ X * a \in Int
    BY <1>2, <1>6
  <1> QED
    BY <1>1, <1>2, <1>4, <1>5, <1>6, <1>7, <1>8, <1>9, <1>10

\* A cell near the stamp of a packet, of which it is not too far, tells the period of
\* the packet.
LEMMA NearTells ==
  ASSUME PowersOfTwo, SignalsTold, NEW w \in Windows, NEW f \in Nat, NEW g \in Nat,
         f - g < Horizon + Reach, g - f < Horizon + Reach,
         NEW t \in Nat, NEW v \in Int, CellOf(w, g) = t + v * Period(w),
         NEW x \in Int, x = (f % 2^TsBits) \div 2^TrimmedBits(w) - t,
         x < CLOSE_THRESHOLD, x > -CLOSE_THRESHOLD
  PROVE  f \div 2^TsBits = v
  <1> DEFINE P == 2^TsBits
             b == 2^TrimmedBits(w)
             z == 2^TrimmedBits(T - 1)
             p == Period(w)
             q == f \div P
             D == Horizon + Reach
             F == CellOf(w, f)
             G == CellOf(w, g)
             c == CLOSE_THRESHOLD
  <1>1. /\ b \in Nat \ {0} /\ z \in Nat \ {0} /\ p \in Nat \ {0} /\ P = b * p /\ b <= z
        /\ c \in Nat /\ D \in Int
    <2>1. T - 1 \in Windows
      BY Parameters DEF Windows
    <2>2. z \in Nat \ {0} /\ b <= z
      BY <2>1, WindowSizes, LastSize
    <2>3. Horizon \in Int
      BY Threshold, Sizes DEF Horizon
    <2>4. Reach \in Int
      <3>1. Reach = 2 * (2^k * z) /\ 2^k \in Nat
        BY LastSize, Sizes DEF Reach
      <3> HIDE DEF z
      <3> QED
        BY <2>2, <3>1
    <2> QED
      BY <2>2, <2>3, <2>4, WindowSizes, QueriesAssumption DEF Period
  <1>2. F = Stamped(w, f) + q * p /\ Stamped(w, f) = x + t
    <2>1. F = Stamped(w, f) + q * p
      BY StampSplit
    <2>2. Stamped(w, f) = (f % P) \div b /\ Stamped(w, f) \in Nat
      BY StampOfCell DEF Stamped
    <2> QED
      BY <2>1, <2>2
  <1>3. q \in Nat
    <2>1. P \in Nat \ {0}
      BY Sizes
    <2> HIDE DEF P
    <2> QED
      BY <2>1, Divided
  <1>4. F * b <= f /\ f < (F + 1) * b /\ F \in Int
    <2>1. F = f \div b /\ f \in Int
      BY DEF CellOf
    <2> HIDE DEF b, F
    <2> QED
      BY <1>1, <2>1, DivMod
  <1>5. G * b <= g /\ g < (G + 1) * b /\ G \in Int
    <2>1. G = g \div b /\ g \in Int
      BY DEF CellOf
    <2> HIDE DEF b, G
    <2> QED
      BY <1>1, <2>1, DivMod
  <1>6. D + c * z <= P /\ f - g < D /\ g - f < D
    BY DEF SignalsTold
  <1> HIDE DEF P, b, z, p, q, D, F, G, c
  <1>7. c * b <= c * z /\ c * b \in Int /\ c * z \in Int
    BY <1>1
  <1>8. (F + 1) * b = F * b + b /\ (G + 1) * b = G * b + b /\ F * b \in Int /\ G * b \in Int
    BY <1>1, <1>4, <1>5
  <1>9. F * b - G * b < D + b /\ G * b - F * b < D + b
    BY <1>1, <1>4, <1>5, <1>6, <1>8
  <1>10. F - G = x + (q - v) * p /\ (q - v) * p \in Int
    <2>1. q * p \in Int /\ v * p \in Int /\ (q - v) * p = q * p - v * p
      BY <1>1, <1>3
    <2>2. G = t + v * p
      BY DEF G, p
    <2> QED
      BY <1>2, <2>1, <2>2
  <1>11. F * b - G * b = x * b + (q - v) * P /\ x * b \in Int /\ (q - v) * P \in Int
    <2> DEFINE y == (q - v) * p
    <2>1. (F - G) * b = F * b - G * b
      BY <1>1, <1>4, <1>5
    <2>2. y * b = (q - v) * P
      BY <1>1, <1>3
    <2>3. F - G = x + y /\ y \in Int
      BY <1>10
    <2> HIDE DEF y
    <2>4. (x + y) * b = x * b + y * b /\ x * b \in Int /\ y * b \in Int
      BY <1>1, <2>3
    <2> QED
      BY <2>1, <2>2, <2>3, <2>4
  <1>12. x * b <= (c - 1) * b /\ (-(c - 1)) * b <= x * b
    <2>1. x <= c - 1 /\ -(c - 1) <= x
      BY <1>1 DEF c
    <2> QED
      BY <1>1, <2>1
  <1>13. (c - 1) * b = c * b - b /\ (-(c - 1)) * b = b - c * b
    BY <1>1
  <1>14. (q - v) * P < P /\ -P < (q - v) * P
    <2>1. P \in Int
      BY <1>1
    <2> QED
      BY <1>1, <1>6, <1>7, <1>8, <1>9, <1>11, <1>12, <1>13, <2>1
  <1> DEFINE d == q - v
  <1>15. d \in Int /\ P \in Nat \ {0}
    <2>1. P \in Nat \ {0}
      BY Sizes DEF P
    <2> QED
      BY <1>3, <2>1
  <1>16. d >= 1 => d * P >= P
    BY <1>15
  <1>17. d <= -1 => d * P <= -P
    BY <1>15
  <1>18. d * P < P /\ -P < d * P /\ d * P \in Int
    BY <1>11, <1>14
  <1>19. d = 0
    <2> HIDE DEF d
    <2> QED
      BY <1>15, <1>16, <1>17, <1>18
  <1> QED
    BY <1>3, <1>19 DEF P, q

\* The moments of a signal from its stamps and the period it was dequeued in.
LEMMA SignalMoments ==
  ASSUME PowersOfTwo, NEW f \in Nat, NEW delay \in 1 .. 2^TsBits - 1, NEW o \in Int,
         NEW wrap \in Int, f \div 2^TsBits = wrap + o
  PROVE  LET P == 2^TsBits
             ets == (f - delay) % P
             dts == f % P
         IN /\ dts + wrap * P = f - o * P
            /\ ets + (IF ets < dts THEN wrap ELSE wrap - 1) * P = f - delay - o * P
  <1> DEFINE P == 2^TsBits
             q == f \div P
             r == f % P
             ets == (f - delay) % P
  <1>1. P \in Nat \ {0}
    BY Sizes
  <1>2. delay \in Nat /\ 1 <= delay /\ delay < P
    BY <1>1
  <1>3. q = wrap + o
    OBVIOUS
  <1> HIDE DEF P
  <1>4. q \in Nat /\ r \in Nat /\ r < P /\ f = q * P + r
    BY <1>1, Divided
  <1> HIDE DEF q, r
  <1>5. q * P = wrap * P + o * P /\ wrap * P \in Int /\ o * P \in Int /\ q * P \in Int
        /\ (wrap - 1) * P = wrap * P - P
    BY <1>1, <1>3
  <1>6. f - delay = (r - delay) + q * P /\ r - delay \in Int /\ q \in Int
    BY <1>2, <1>4, <1>5
  <1> DEFINE m == (r - delay) % P
  <1>7. ets = m
    <2>1. ((r - delay) + q * P) % P = (r - delay) % P
      BY <1>1, <1>6, DivShift
    <2> QED
      BY <1>6, <2>1
  <1>8. m = IF delay <= r THEN r - delay ELSE r - delay + P
    <2>1. CASE delay <= r
      <3>1. r - delay \in Nat /\ r - delay < P
        BY <1>1, <1>2, <1>4, <2>1
      <3>2. (r - delay) % P = r - delay
        BY <1>1, <3>1, ModSmall
      <3> QED
        BY <2>1, <3>2
    <2>2. CASE ~(delay <= r)
      <3>1. r - delay \in Int /\ -P <= r - delay /\ r - delay < 0
        BY <1>1, <1>2, <1>4, <2>2
      <3>2. (r - delay) % P = (r - delay) + P
        BY <1>1, <3>1, ModNegative
      <3> QED
        BY <2>2, <3>2
    <2> QED
      BY <2>1, <2>2
  <1> HIDE DEF m, ets
  <1>9. r + wrap * P = f - o * P
    BY <1>1, <1>4, <1>5
  <1>10. ets + (IF ets < r THEN wrap ELSE wrap - 1) * P = f - delay - o * P
    <2>1. CASE delay <= r
      <3>1. ets = r - delay /\ ets < r
        BY <1>2, <1>4, <1>7, <1>8, <2>1
      <3> QED
        BY <1>2, <1>4, <1>5, <3>1
    <2>2. CASE ~(delay <= r)
      <3>1. ets = r - delay + P /\ ~(ets < r)
        BY <1>1, <1>2, <1>4, <1>7, <1>8, <2>2
      <3> QED
        BY <1>1, <1>2, <1>4, <1>5, <3>1
    <2> QED
      BY <2>1, <2>2
  <1> QED
    BY <1>9, <1>10 DEF P, r, ets

\* The cells of a set, of packets from lo up to hi, tell their periods.
Located(cells, o, lo, hi) ==
  \A c \in cells :
    /\ c.twid \in Windows /\ c.FID \in Nat /\ c.tts \in Nat /\ c.wrap \in Int
    /\ CellOf(c.twid, c.FID) = c.tts + (c.wrap + o) * Period(c.twid)
    /\ lo <= c.FID /\ c.FID < hi

SignalsInv ==
  LET n == Len(TW_registers) IN
  /\ \E S : TW_registers \in Seq(S)
  /\ TW_registers # <<>> =>
       /\ origin \in Nat /\ start - used_since <= Horizon
       /\ Located(TW_registers[n].TW_result, origin, used_since - Reach, start)
       /\ n > 1 => Located(TW_registers[n - 1].TW_result, origin,
                           start - Horizon - Reach, start)

LEMMA HorizonsAre ==
  ASSUME PowersOfTwo
  PROVE  Horizon \in Int /\ Reach \in Int
  <1> DEFINE z == 2^TrimmedBits(T - 1)
  <1>1. Horizon \in Int
    BY Threshold, Sizes DEF Horizon
  <1>2. z \in Nat \ {0}
    <2>1. T - 1 \in Windows
      BY Parameters DEF Windows
    <2> QED
      BY <2>1, WindowSizes
  <1>3. Reach = 2 * (2^k * z) /\ 2^k \in Nat
    <2>1. 0 \in Windows
      BY Parameters
    <2> QED
      BY <2>1, LastSize, Sizes DEF Reach
  <1> HIDE DEF z
  <1> QED
    BY <1>1, <1>2, <1>3

LEMMA LoadLocates ==
  ASSUME PowersOfTwo, OverflowInv, Current, Filled, LoadSet, SignalsInv
  PROVE  SignalsInv'
  <1> DEFINE R == tw_r[second_highest]
             C == LatestCell'
             n == Len(TW_registers)
             smallest == IF TW_registers = <<>> THEN NoCell ELSE TW_registers[n].smallest
             s == Bounds(R, TW_result', wrapping', smallest)
  <1>1. /\ TW_registers' = Append(TW_registers, s) /\ s.TW_result = TW_result'
    <2>1. s.TW_result = TW_result'
      BY DEF Bounds
    <2> QED
      BY <2>1, LoadAppends
  <1>2. /\ C \in Nat /\ CellOf(0, start) <= C /\ origin' \in Nat
        /\ Describes(TW_result', origin', C)
        /\ \A c \in TW_result' : \E j \in Indices :
             R[c.twid][j] # Empty /\ c.FID = R[c.twid][j].FID
    BY PollDescribes DEF LoadSet
  <1>3. /\ start' = now /\ used_since' = start /\ now \in Nat /\ start \in Nat
        /\ used_since \in Nat /\ used_since <= start /\ start <= now
        /\ now - used_since <= Horizon /\ second_highest \in Quarters
    BY DEF OverflowInv, WindowInv, WindowTypes, Uses, LoadSet, Poll, Retire, Filled, Horizon
  <1>4. Horizon \in Int /\ Reach \in Int
    BY HorizonsAre
  <1>5. Located(TW_result', origin', used_since' - Reach, start')
    <2> SUFFICES ASSUME NEW c \in TW_result'
                 PROVE  /\ c.twid \in Windows /\ c.FID \in Nat /\ c.tts \in Nat /\ c.wrap \in Int
                        /\ CellOf(c.twid, c.FID) = c.tts + (c.wrap + origin') * Period(c.twid)
                        /\ used_since' - Reach <= c.FID /\ c.FID < start'
      BY DEF Located
    <2>1. /\ c.twid \in Windows /\ c.FID \in Nat /\ c.tts \in Nat /\ c.wrap \in Int
          /\ CellOf(c.twid, c.FID) = c.tts + (c.wrap + origin') * Period(c.twid)
      BY <1>2 DEF Describes
    <2>2. c.FID >= start - Reach
      <3>1. origin' \in Int
        BY <1>2
      <3> HIDE DEF C
      <3> QED
        BY <1>2, <1>3, <3>1, DescribedReach
    <2>3. c.FID < now
      <3>1. PICK j \in Indices : R[c.twid][j] # Empty /\ c.FID = R[c.twid][j].FID
        BY <1>2
      <3> QED
        BY <1>3, <2>1, <3>1 DEF OverflowInv, WindowInv, RecordsGenuine, Genuine
    <2> QED
      BY <1>3, <1>4, <2>1, <2>2, <2>3
  <1>6. PICK S : TW_registers \in Seq(S)
    BY DEF SignalsInv
  <1>7. /\ n \in Nat /\ TW_registers' \in Seq(S \cup {s}) /\ Len(TW_registers') = n + 1
        /\ TW_registers'[n + 1] = s /\ \A i \in 1 .. n : TW_registers'[i] = TW_registers[i]
    <2> HIDE DEF s
    <2>1. TW_registers \in Seq(S \cup {s})
      BY <1>6
    <2> QED
      BY <1>1, <2>1
  <1>8. n > 0 => /\ origin' = origin
                 /\ Located(TW_registers'[n].TW_result, origin',
                            start' - Horizon - Reach, start')
    <2> SUFFICES ASSUME n > 0
                 PROVE  /\ origin' = origin
                        /\ Located(TW_registers'[n].TW_result, origin',
                                   start' - Horizon - Reach, start')
      OBVIOUS
    <2>1. TW_registers # <<>> /\ TW_registers'[n] = TW_registers[n]
      BY <1>7
    <2>2. origin \in Nat /\ Located(TW_registers[n].TW_result, origin, used_since - Reach, start)
      BY <2>1 DEF SignalsInv
    <2>3. origin' = origin
      <3>1. origin # NoOrigin
        BY <2>2 DEF NoOrigin
      <3> QED
        BY <3>1 DEF LoadSet, Poll
    <2>4. ASSUME NEW c \in TW_registers[n].TW_result
          PROVE  start' - Horizon - Reach <= c.FID /\ c.FID < start'
      <3>1. c.FID \in Nat /\ used_since - Reach <= c.FID /\ c.FID < start
        BY <2>2 DEF Located
      <3> QED
        BY <1>3, <1>4, <3>1
    <2> HIDE DEF n
    <2> QED
      BY <2>1, <2>2, <2>3, <2>4 DEF Located
  <1>9. start' - used_since' <= Horizon
    BY <1>3, <1>4
  <1>10. (SignalsInv <=>
            /\ \E U : TW_registers \in Seq(U)
            /\ TW_registers # <<>> =>
                 /\ origin \in Nat /\ start - used_since <= Horizon
                 /\ Located(TW_registers[Len(TW_registers)].TW_result, origin,
                            used_since - Reach, start)
                 /\ Len(TW_registers) > 1 =>
                      Located(TW_registers[Len(TW_registers) - 1].TW_result, origin,
                              start - Horizon - Reach, start))'
    BY DEF SignalsInv
  <1>11. (n + 1) - 1 = n /\ (n + 1 > 1 <=> n > 0)
    BY <1>7
  <1> HIDE DEF n, s
  <1> QED
    BY <1>1, <1>2, <1>5, <1>7, <1>8, <1>9, <1>10, <1>11

LEMMA NextSignals ==
  ASSUME PowersOfTwo, OverflowInv, Current, Busy, SignalsInv, [QueriesNext]_queryVars
  PROVE  SignalsInv'
  <1>1. CASE Fill \/ UNCHANGED queryVars
    <2>1. UNCHANGED <<TW_registers, origin, used_since, start>>
      BY <1>1 DEF Fill, Traffic, Packet, Silence, queryVars, vars, windowVars
    <2> QED
      BY <2>1 DEF SignalsInv, Located, Horizon, Reach, CellOf, Period, TrimmedBits,
                  threshold_bit, tts_bit
  <1>2. CASE LoadSet /\ Filled
    BY <1>2, LoadLocates
  <1>3. CASE LoadSet /\ ~Filled
    <2>1. origin = NoOrigin /\ \A i \in Windows, j \in Indices : tw_r[second_highest][i][j] = Empty
      BY <1>3 DEF LoadSet, Poll, Retire, Busy
    <2>2. TW_registers' = TW_registers
      <3>1. \A i \in Windows, j \in Indices : tw_r[second_highest][i][j].FID = NoFID
        BY <2>1 DEF Empty
      <3> QED
        BY <1>3, <3>1 DEF LoadSet
    <2>3. TW_registers = <<>>
      BY <2>1 DEF SignalsInv, NoOrigin
    <2>4. TW_registers' = <<>> /\ <<>> \in Seq({})
      BY <2>2, <2>3
    <2> QED
      BY <2>4 DEF SignalsInv
  <1> QED
    BY <1>1, <1>2, <1>3 DEF QueriesNext

LEMMA SignalsAreLocated ==
  ASSUME PowersOfTwo, SignalsTold, Uses, SignalsInv
  PROVE  SignalsLocated
  <1> DEFINE n == Len(TW_registers)
             o == origin
             P == 2^TsBits
             lo == start - Horizon - Reach
             In(i) == TW_registers[i].TW_result
  <1> SUFFICES ASSUME NEW i \in Sets, NEW c \in In(i), NEW delay \in QueueDelays,
                      c.FID >= used_since,
                      NEW s \in poll_signals((c.FID - delay) % P, c.FID % P)
               PROVE  s = [dequeue |-> c.FID - o * P, enqueue |-> c.FID - delay - o * P]
    BY Zenon DEF SignalsLocated
  <1>1. i \in {n - 1, n} /\ i > 0 /\ n \in Nat
    <2>1. n \in Nat
      <3>1. PICK S : TW_registers \in Seq(S)
        BY DEF SignalsInv
      <3> QED
        BY <3>1
    <2> QED
      BY <2>1 DEF Sets
  <1>2. TW_registers # <<>> /\ (i = n - 1 => n > 1)
    BY <1>1
  <1>3. o \in Nat /\ start - used_since <= Horizon
    BY <1>2 DEF SignalsInv
  <1>4. /\ start \in Nat /\ used_since \in Nat /\ used_since <= start
        /\ Horizon \in Int /\ Reach \in Int /\ P \in Nat \ {0}
    BY HorizonsAre, Sizes DEF Uses
  <1>5. ASSUME NEW h \in {n - 1, n}, h > 0, NEW d \in In(h)
        PROVE  /\ d.twid \in Windows /\ d.FID \in Nat /\ d.tts \in Nat /\ d.wrap \in Int
               /\ CellOf(d.twid, d.FID) = d.tts + (d.wrap + o) * Period(d.twid)
               /\ lo <= d.FID /\ d.FID < start
    <2>1. CASE h = n
      <3>1. Located(In(n), o, used_since - Reach, start)
        BY <1>2 DEF SignalsInv
      <3>2. used_since - Reach >= lo /\ lo \in Int /\ used_since - Reach \in Int
        BY <1>3, <1>4
      <3>3. /\ d.twid \in Windows /\ d.FID \in Nat /\ d.tts \in Nat /\ d.wrap \in Int
            /\ CellOf(d.twid, d.FID) = d.tts + (d.wrap + o) * Period(d.twid)
            /\ used_since - Reach <= d.FID /\ d.FID < start
        BY <1>5, <2>1, <3>1 DEF Located
      <3> HIDE DEF lo, o
      <3> QED
        BY <1>4, <3>2, <3>3
    <2>2. CASE h # n
      <3>1. h = n - 1 /\ n > 1
        BY <1>1, <1>5, <2>2
      <3>2. Located(In(n - 1), o, lo, start)
        BY <1>2, <3>1 DEF SignalsInv
      <3> QED
        BY <1>5, <3>1, <3>2 DEF Located
    <2> QED
      BY <2>1, <2>2
  <1>6. c.FID \in Nat /\ used_since <= c.FID /\ c.FID < start
    BY <1>1, <1>5
  <1>7. PICK h \in {n - 1, n} : h > 0 /\ \E d \in In(h) :
          /\ Near(d, c.FID % P)
          /\ s = [dequeue |-> (c.FID % P) + d.wrap * P,
                  enqueue |-> ((c.FID - delay) % P)
                                + (IF (c.FID - delay) % P < c.FID % P
                                     THEN d.wrap ELSE d.wrap - 1) * P]
    <2> DEFINE NearOf(h) == {d \in In(h) : Near(d, c.FID % P)}
               h == IF NearOf(n) = {} /\ n > 1 THEN n - 1 ELSE n
    <2>1. h \in {n - 1, n} /\ h > 0
      BY <1>1, <1>2
    <2>2. \E d \in NearOf(h) :
            s = [dequeue |-> (c.FID % P) + d.wrap * P,
                 enqueue |-> ((c.FID - delay) % P)
                               + (IF (c.FID - delay) % P < c.FID % P
                                    THEN d.wrap ELSE d.wrap - 1) * P]
      BY DEF poll_signals
    <2> QED
      BY <2>1, <2>2
  <1>8. PICK d \in In(h) :
          /\ Near(d, c.FID % P)
          /\ s = [dequeue |-> (c.FID % P) + d.wrap * P,
                  enqueue |-> ((c.FID - delay) % P)
                                + (IF (c.FID - delay) % P < c.FID % P
                                     THEN d.wrap ELSE d.wrap - 1) * P]
    BY <1>7
  <1>9. /\ d.twid \in Windows /\ d.FID \in Nat /\ d.tts \in Nat /\ d.wrap \in Int
        /\ CellOf(d.twid, d.FID) = d.tts + (d.wrap + o) * Period(d.twid)
        /\ lo <= d.FID /\ d.FID < start
    BY <1>5, <1>7
  <1> DEFINE x == (c.FID % P) \div 2^TrimmedBits(d.twid) - d.tts
  <1>10. x \in Int /\ x < CLOSE_THRESHOLD /\ x > -CLOSE_THRESHOLD
    <2>1. (c.FID % P) \div 2^TrimmedBits(d.twid) \in Nat
      BY <1>6, <1>9, StampOfCell DEF Stamped
    <2> QED
      BY <1>8, <1>9, <2>1 DEF Near
  <1>11. c.FID - d.FID < Horizon + Reach /\ d.FID - c.FID < Horizon + Reach
    <2>1. lo \in Int /\ c.FID - d.FID < start - lo
      BY <1>4, <1>6, <1>9
    <2>2. d.FID - c.FID < start - used_since
      BY <1>4, <1>6, <1>9
    <2>3. Reach >= 0
      <3> DEFINE z == 2^TrimmedBits(T - 1)
      <3>1. z \in Nat /\ 0 \in Windows
        <4>1. T - 1 \in Windows /\ 0 \in Windows
          BY Parameters DEF Windows
        <4> QED
          BY <4>1, WindowSizes
      <3>2. Reach = 2 * (2^k * z) /\ 2^k \in Nat
        BY <3>1, LastSize, Sizes DEF Reach
      <3> HIDE DEF z
      <3> QED
        BY <3>1, <3>2
    <2> QED
      BY <1>3, <1>4, <1>6, <1>9, <2>1, <2>2, <2>3
  <1>12. c.FID \div P = d.wrap + o
    <2>1. d.wrap + o \in Int
      BY <1>3, <1>9
    <2> HIDE DEF o, x
    <2> QED
      BY <1>6, <1>9, <1>10, <1>11, <2>1, NearTells DEF x, P
  <1>13. delay \in 1 .. 2^TsBits - 1 /\ o \in Int
    BY <1>3, QueriesAssumption
  <1> HIDE DEF o
  <1>14. /\ (c.FID % P) + d.wrap * P = c.FID - o * P
         /\ ((c.FID - delay) % P) + (IF (c.FID - delay) % P < c.FID % P
                                     THEN d.wrap ELSE d.wrap - 1) * P
              = c.FID - delay - o * P
    BY <1>6, <1>9, <1>12, <1>13, SignalMoments DEF P
  <1> QED
    BY <1>8, <1>14

\* A signal is located right, by any cell near its stamp and over any overflow, however
\* old the cells of older windows are that are searched before the near ones.
THEOREM SignalsFound ==
  ASSUME PowersOfTwo, SignalsTold
  PROVE  QueriesSpec /\ []Current /\ []Busy => []SignalsLocated
  <1>1. QueriesInit => SignalsInv
    <2> SUFFICES ASSUME QueriesInit
                 PROVE  SignalsInv
      OBVIOUS
    <2>1. TW_registers = <<>> /\ <<>> \in Seq({})
      BY DEF QueriesInit
    <2> QED
      BY <2>1 DEF SignalsInv
  <1>2. OverflowInv => Uses
    BY DEF OverflowInv
  <1> QED
    BY <1>1, <1>2, NextSignals, SignalsAreLocated, NowOverflows, PTL DEF QueriesSpec

----------------------------------------------------------------------------
(* Estimates.                                                              *)

\* ... and of one and zero.
PowersOfOne == \A n \in Nat \ {0} : 1^n = 1 /\ 0^n = 0

\* The coefficient after c, as one step of calculate_coefficient.
Shared(c, map) ==
  LET n == c.z[1]
      d == c.z[2]
      next == <<(d * d)^map - (d * d - n * n)^map, (d * d)^map>>
  IN [z |-> next, co |-> <<c.co[1] * next[1] * d, c.co[2] * next[2] * n * map>>]

\* What is kept of a first window with a record in every cell: one of e packets.
OneOf(e) == [z |-> <<1, 1>>, co |-> <<1, e>>]

LEMMA SharedIs ==
  ASSUME PowersOfOne, NEW map \in Nat \ {0}, NEW e \in Nat
  PROVE  Shared(OneOf(e), map) = OneOf(e * map)
  <1> DEFINE c == OneOf(e)
  <1>1. c.z[1] = 1 /\ c.z[2] = 1 /\ c.co[1] = 1 /\ c.co[2] = e
    BY DEF OneOf
  <1>2. (1 * 1)^map = 1 /\ (1 * 1 - 1 * 1)^map = 0
    <2>1. 1 * 1 = 1 /\ 1 * 1 - 1 * 1 = 0
      OBVIOUS
    <2>2. 1^map = 1 /\ 0^map = 0
      BY DEF PowersOfOne
    <2> QED
      BY <2>1, <2>2, Zenon
  <1>3. <<(1 * 1)^map - (1 * 1 - 1 * 1)^map, (1 * 1)^map>> = <<1, 1>>
    BY <1>2
  <1> HIDE DEF c
  <1>4. Shared(c, map) = [z |-> <<1, 1>>, co |-> <<1 * 1 * 1, e * 1 * 1 * map>>]
    BY <1>1, <1>3 DEF Shared
  <1>5. 1 * 1 * 1 = 1 /\ e * 1 * 1 * map = e * map
    OBVIOUS
  <1> QED
    BY <1>4, <1>5 DEF OneOf, c

\* A cell of window i stands for as many packets as it lasts cells of the first.
LEMMA CoefficientsAre ==
  ASSUME PowersOfTwo, PowersOfOne
  PROVE  LET co == calculate_coefficient(<<1, 1>>, ALPHA, T) IN
         \A i \in Windows :
           /\ Estimate(1, co[i].co) \in Nat
           /\ Estimate(1, co[i].co) * 2^TW0_TB = 2^TrimmedBits(i)
  <1> DEFINE N == T - 1
             map == 2^ALPHA
             V == {OneOf(e) : e \in Nat}
             step == [p \in Nat \X V |-> OneOf(p[2].co[2] * map)]
             Is(f) == f = [i \in 0 .. N |-> IF i = 0 THEN OneOf(1) ELSE Shared(f[i - 1], map)]
  <1>1. N \in Nat /\ Windows = 0 .. N /\ map \in Nat \ {0}
    BY Parameters, Sizes DEF Windows
  <1>2. \A v \in V : /\ v.co[2] \in Nat /\ v = OneOf(v.co[2]) /\ v.co[1] = 1
                     /\ Shared(v, map) = OneOf(v.co[2] * map)
    <2> TAKE v \in V
    <2>1. PICK e \in Nat : v = OneOf(e)
      OBVIOUS
    <2>2. v.co[2] = e /\ v.co[1] = 1
      BY <2>1 DEF OneOf
    <2> HIDE DEF map, V
    <2> QED
      BY <1>1, <2>1, <2>2, SharedIs
  <1>3. \A e \in Nat : OneOf(e) \in V
    OBVIOUS
  <1> HIDE DEF V, map
  <1>4. step \in [Nat \X V -> V]
    <2>1. \A v \in V : OneOf(v.co[2] * map) \in V
      <3>1. \A v \in V : v.co[2] * map \in Nat
        BY <1>1, <1>2
      <3> QED
        BY <1>3, <3>1
    <2> QED
      BY <2>1
  <1>5. OneOf(1) \in V
    BY <1>3
  <1>6. PICK f \in [0 .. N -> V] : RecursionUpTo(N, f, OneOf(1), step)
    <2> HIDE DEF step, N
    <2> QED
      BY <1>1, <1>4, <1>5, Recursion, Zenon
  <1>7. ASSUME NEW i \in 1 .. N
        PROVE  f[i] = Shared(f[i - 1], map)
    <2>1. i \in Nat /\ i - 1 \in 0 .. N
      BY <1>1
    <2>2. f[i] = step[<<i, f[i - 1]>>]
      <3> HIDE DEF step
      <3> QED
        BY <1>6 DEF RecursionUpTo
    <2>3. f[i - 1] \in V
      BY <1>6, <2>1
    <2>4. step[<<i, f[i - 1]>>] = OneOf(f[i - 1].co[2] * map)
      BY <2>1, <2>3
    <2> QED
      BY <1>2, <2>2, <2>3, <2>4
  <1>8. Is(f)
    <2>1. f[0] = OneOf(1)
      <3> HIDE DEF step
      <3> QED
        BY <1>6 DEF RecursionUpTo
    <2>2. \A i \in 0 .. N : i = 0 \/ i \in 1 .. N
      BY <1>1
    <2>3. \A i \in 0 .. N : f[i] = IF i = 0 THEN OneOf(1) ELSE Shared(f[i - 1], map)
      BY <1>7, <2>1, <2>2
    <2> QED
      BY <1>6, <2>3
  <1> DEFINE co == calculate_coefficient(<<1, 1>>, ALPHA, T)
  <1>9. Is(co)
    <2>1. co = CHOOSE g : Is(g)
      BY DEF calculate_coefficient, Shared, OneOf, map
    <2> HIDE DEF Is, co
    <2> QED
      BY <1>8, <2>1
  <1> HIDE DEF co
  <1>10. co[0] = OneOf(1) /\ \A i \in 1 .. N : co[i] = Shared(co[i - 1], map)
    BY <1>1, <1>9
  <1> DEFINE S == {i \in 0 .. N : co[i] \in V /\ co[i].co[2] * 2^TW0_TB = 2^TrimmedBits(i)}
  <1>11. 0 \in S
    <2>1. TrimmedBits(0) = TW0_TB
      BY Parameters DEF TrimmedBits
    <2>2. OneOf(1).co[2] = 1 /\ 2^TW0_TB \in Nat
      BY Sizes DEF OneOf
    <2>3. 1 * 2^TW0_TB = 2^TW0_TB
      BY <2>2
    <2> QED
      BY <1>1, <1>5, <1>10, <2>1, <2>2, <2>3
  <1>12. ASSUME NEW i \in 1 .. N, i - 1 \in S
         PROVE  i \in S
    <2> DEFINE g == i - 1
               e == co[g].co[2]
    <2>1. co[g] \in V /\ e * 2^TW0_TB = 2^TrimmedBits(g)
      BY <1>12
    <2>2. co[i] = OneOf(e * map) /\ e \in Nat
      BY <1>2, <1>10, <2>1
    <2>3. co[i] \in V /\ co[i].co[2] = e * map
      <3>1. e * map \in Nat
        BY <1>1, <2>2
      <3> HIDE DEF e
      <3> QED
        BY <1>3, <2>2, <3>1 DEF OneOf
    <2>4. 2^TrimmedBits(i) = 2^TrimmedBits(g) * map
      <3>1. g \in Windows /\ g + 1 \in Windows /\ g + 1 = i
        BY <1>1
      <3> HIDE DEF g
      <3> QED
        BY <3>1, NextSize DEF map
    <2>5. 2^TW0_TB \in Nat /\ 2^TrimmedBits(g) \in Nat
      <3>1. g \in Windows
        BY <1>1
      <3> QED
        BY <3>1, Sizes, WindowSizes
    <2> HIDE DEF e, g
    <2>6. (e * map) * 2^TW0_TB = (e * 2^TW0_TB) * map
      BY <1>1, <2>2, <2>5
    <2> QED
      BY <2>1, <2>3, <2>4, <2>6
  <1>13. \A i \in 0 .. N : i \in S
    <2> HIDE DEF S, N
    <2> QED
      BY <1>1, <1>11, <1>12, InductionUpTo
  <1>14. ASSUME NEW i \in Windows
         PROVE  /\ Estimate(1, co[i].co) \in Nat
                /\ Estimate(1, co[i].co) * 2^TW0_TB = 2^TrimmedBits(i)
    <2>1. co[i] \in V /\ co[i].co[2] * 2^TW0_TB = 2^TrimmedBits(i)
      BY <1>1, <1>13
    <2> DEFINE e == co[i].co[2]
    <2>2. e \in Nat /\ co[i].co[1] = 1
      BY <1>2, <2>1
    <2>3. Estimate(1, co[i].co) = (1 * e) \div 1
      BY <2>2 DEF Estimate
    <2> HIDE DEF e
    <2>4. (1 * e) \div 1 = e
      BY <2>2
    <2> QED
      BY <2>1, <2>2, <2>3, <2>4 DEF e
  <1> QED
    BY <1>14 DEF co

\* The cells of window i that a query of a set counts.
Asked(cells, ts, te, i) ==
  {c \in cells : /\ c.twid = i
                 /\ ts <= Moment(c) /\ Moment(c) <= te}

\* The moments that the cells counted up to each window last together.
Adds(cells, ts, te, G) ==
  /\ G \in [Windows -> Nat]
  /\ G[0] = Cardinality(Asked(cells, ts, te, 0)) * 2^TrimmedBits(0)
  /\ \A i \in Windows : i # 0 =>
       G[i] = G[i - 1] + Cardinality(Asked(cells, ts, te, i)) * 2^TrimmedBits(i)

LEMMA RetrieveAdds ==
  ASSUME PowersOfTwo, PowersOfOne, TW0_z = <<1, 1>>,
         NEW cells, IsFiniteSet(cells), NEW ts, NEW te
  PROVE  \E G : /\ Adds(cells, ts, te, G)
                /\ retrieve2(ts, te, cells) * 2^TW0_TB = G[T - 1]
  <1> DEFINE n == T - 1
             co == calculate_coefficient(TW0_z, ALPHA, T)
             N(i) == Cardinality(Asked(cells, ts, te, i))
             E(i) == Estimate(1, co[i].co)
             a(i) == N(i) * E(i)
             step == [p \in Nat \X Nat |-> IF p[1] \in Windows THEN p[2] + a(p[1]) ELSE 0]
             Is(f) == f = [i \in Windows |-> (IF i = 0 THEN 0 ELSE f[i - 1]) + a(i)]
             u == 2^TW0_TB
  <1>1. n \in Nat /\ Windows = 0 .. n /\ 0 \in Windows /\ u \in Nat
    BY Parameters, Sizes DEF Windows
  <1>2. \A i \in Windows : N(i) \in Nat
    <2> TAKE i \in Windows
    <2>1. Asked(cells, ts, te, i) \in SUBSET cells
      BY DEF Asked
    <2> QED
      BY <2>1, FS_Subset, FS_CardinalityType
  <1>3. \A i \in Windows : E(i) \in Nat /\ E(i) * u = 2^TrimmedBits(i)
    BY CoefficientsAre
  <1> HIDE DEF N, E, u
  <1>4. \A i \in Windows : a(i) \in Nat /\ a(i) * u = N(i) * 2^TrimmedBits(i)
    <2> TAKE i \in Windows
    <2>1. N(i) \in Nat /\ E(i) \in Nat /\ E(i) * u = 2^TrimmedBits(i)
      BY <1>2, <1>3
    <2>2. (N(i) * E(i)) * u = N(i) * (E(i) * u)
      BY <1>1, <2>1
    <2> QED
      BY <2>1, <2>2
  <1> HIDE DEF a
  <1>5. step \in [Nat \X Nat -> Nat]
    BY <1>4
  <1>6. PICK f \in [0 .. n -> Nat] : RecursionUpTo(n, f, a(0), step)
    <2>1. a(0) \in Nat
      BY <1>1, <1>4
    <2> HIDE DEF step, n
    <2> QED
      BY <1>1, <1>5, <2>1, Recursion, Zenon
  <1>7. ASSUME NEW i \in 1 .. n
        PROVE  f[i] = f[i - 1] + a(i)
    <2>1. i \in Nat /\ i - 1 \in 0 .. n /\ i \in Windows
      BY <1>1
    <2>2. f[i] = step[<<i, f[i - 1]>>]
      <3> HIDE DEF step
      <3> QED
        BY <1>6 DEF RecursionUpTo
    <2>3. f[i - 1] \in Nat
      BY <1>6, <2>1
    <2> QED
      BY <2>1, <2>2, <2>3
  <1>8. f[0] = a(0)
    <2> HIDE DEF step
    <2> QED
      BY <1>6 DEF RecursionUpTo
  <1>9. Is(f)
    <2>1. \A i \in Windows : i = 0 \/ i \in 1 .. n
      BY <1>1
    <2>2. \A i \in Windows : f[i] = (IF i = 0 THEN 0 ELSE f[i - 1]) + a(i)
      BY <1>1, <1>4, <1>7, <1>8, <2>1
    <2> QED
      BY <1>1, <1>6, <2>2
  <1> DEFINE result == CHOOSE g : Is(g)
  <1>10. retrieve2(ts, te, cells) = result[n]
    BY DEF retrieve2, Asked, a, N, E
  <1>11. Is(result)
    <2> HIDE DEF Is
    <2> QED
      BY <1>9
  <1> HIDE DEF result
  <1>12. /\ result[0] = 0 + a(0)
         /\ \A i \in 1 .. n : result[i] = result[i - 1] + a(i)
    BY <1>1, <1>11
  <1> DEFINE S == {i \in 0 .. n : result[i] \in Nat}
  <1>13. 0 \in S
    BY <1>1, <1>4, <1>12
  <1>14. ASSUME NEW i \in 1 .. n, i - 1 \in S
         PROVE  i \in S
    <2>1. a(i) \in Nat
      BY <1>1, <1>4
    <2> QED
      BY <1>12, <1>14, <2>1
  <1>15. \A i \in 0 .. n : i \in S
    <2> HIDE DEF S, n
    <2> QED
      BY <1>1, <1>13, <1>14, InductionUpTo
  <1> DEFINE G == [i \in Windows |-> result[i] * u]
  <1>16. G \in [Windows -> Nat]
    <2>1. \A i \in Windows : result[i] \in Nat /\ result[i] * u \in Nat
      BY <1>1, <1>15
    <2> QED
      BY <2>1
  <1>17. G[0] = N(0) * 2^TrimmedBits(0)
    <2>1. a(0) \in Nat /\ a(0) * u = N(0) * 2^TrimmedBits(0)
      BY <1>1, <1>4
    <2>2. result[0] = a(0)
      BY <1>12, <2>1
    <2> QED
      BY <1>1, <2>1, <2>2
  <1>18. ASSUME NEW i \in Windows, i # 0
         PROVE  G[i] = G[i - 1] + N(i) * 2^TrimmedBits(i)
    <2>1. i \in 1 .. n /\ i - 1 \in Windows
      BY <1>1, <1>18
    <2>2. result[i] = result[i - 1] + a(i) /\ result[i - 1] \in Nat
      BY <1>1, <1>12, <1>15, <2>1
    <2>3. a(i) \in Nat /\ a(i) * u = N(i) * 2^TrimmedBits(i)
      BY <1>4
    <2>4. (result[i - 1] + a(i)) * u = result[i - 1] * u + a(i) * u
      BY <1>1, <2>2, <2>3
    <2> QED
      BY <2>1, <2>2, <2>3, <2>4
  <1>19. G[T - 1] = retrieve2(ts, te, cells) * u
    <2>1. n \in Windows /\ n = T - 1
      BY <1>1
    <2> HIDE DEF n
    <2> QED
      BY <1>10, <2>1
  <1>20. Adds(cells, ts, te, G)
    <2> HIDE DEF G
    <2> QED
      BY <1>16, <1>17, <1>18 DEF Adds, N
  <1> HIDE DEF G
  <1> QED
    BY <1>19, <1>20 DEF u

\* At most as many as the numbers they map to, if no two map to one.
LEMMA CountAtMost ==
  ASSUME NEW lo \in Int, NEW hi \in Int, NEW S, NEW f \in [S -> Int],
         \A c \in S : lo <= f[c] /\ f[c] <= hi,
         \A c, d \in S : f[c] = f[d] => c = d
  PROVE  Cardinality(S) = 0 \/ Cardinality(S) <= hi - lo + 1
  <1>1. f \in Injection(S, lo .. hi)
    BY DEF Injection, IsInjective
  <1>2. IsFiniteSet(lo .. hi) /\ Cardinality(lo .. hi) = IF lo > hi THEN 0 ELSE hi - lo + 1
    BY FS_Interval
  <1>3. IsFiniteSet(S) /\ Cardinality(S) <= Cardinality(lo .. hi)
    BY <1>1, <1>2, FS_Injection
  <1>4. Cardinality(S) \in Nat
    BY <1>3, FS_CardinalityType
  <1> QED
    BY <1>2, <1>3, <1>4

\* ... and at least as many, if all of them are mapped to.
LEMMA CountAtLeast ==
  ASSUME NEW lo \in Int, NEW hi \in Int, NEW S, IsFiniteSet(S), NEW f \in [S -> Int],
         \A X \in lo .. hi : \E c \in S : f[c] = X
  PROVE  Cardinality(S) >= hi - lo + 1
  <1> DEFINE R == {c \in S : f[c] \in lo .. hi}
             g == [c \in R |-> f[c]]
  <1>1. IsFiniteSet(R) /\ Cardinality(R) <= Cardinality(S)
    <2>1. R \in SUBSET S
      OBVIOUS
    <2> HIDE DEF R
    <2> QED
      BY <2>1, FS_Subset
  <1>2. g \in Surjection(R, lo .. hi)
    <2>1. g \in [R -> lo .. hi]
      OBVIOUS
    <2>2. \A X \in lo .. hi : \E c \in R : g[c] = X
      OBVIOUS
    <2> HIDE DEF g, R
    <2> QED
      BY <2>1, <2>2 DEF Surjection
  <1>3. IsFiniteSet(lo .. hi) /\ Cardinality(lo .. hi) = IF lo > hi THEN 0 ELSE hi - lo + 1
    BY FS_Interval
  <1> HIDE DEF g, R
  <1>4. Cardinality(lo .. hi) <= Cardinality(R)
    BY <1>1, <1>2, FS_Surjection
  <1>5. Cardinality(R) \in Nat /\ Cardinality(S) \in Nat
    BY <1>1, FS_CardinalityType
  <1> QED
    BY <1>1, <1>3, <1>4, <1>5

\* Of a set in which nothing is missing since s, nothing is of before, and nothing of
\* one cell is retained twice.
Gapless(cells, C, s) ==
  \A i \in Windows : \A X \in LargestTts(C)[i] - 2^k + 1 .. LargestTts(C)[i] :
    X * 2^TrimmedBits(i) >= s => \E c \in cells : c.twid = i /\ CellOf(i, c.FID) = X

Since(cells, C, s) ==
  \A c \in cells :
    /\ c.FID >= s
    /\ \A h \in Windows : h < c.twid => CellOf(h, c.FID) <= LargestTts(C)[h] - 2^k

Single(cells) ==
  \A c, d \in cells :
    c.twid = d.twid /\ CellOf(c.twid, c.FID) = CellOf(d.twid, d.FID) => c = d

\* The first and the last cell of window i whose middle lies in an interval of moments,
\* of those that the window may retain.
FirstAsked(C, m, i) ==
  LET x == -((2^(TrimmedBits(i) - 1) - m) \div 2^TrimmedBits(i))
      y == LargestTts(C)[i] - 2^k + 1
  IN IF x >= y THEN x ELSE y

LastAsked(C, l, i) ==
  LET x == (l - 2^(TrimmedBits(i) - 1)) \div 2^TrimmedBits(i)
      y == LargestTts(C)[i]
  IN IF x <= y THEN x ELSE y

LEMMA FirstAskedIs ==
  ASSUME PowersOfTwo, NEW C \in Int, NEW m \in Int, NEW i \in Windows
  PROVE  LET lo == FirstAsked(C, m, i)
             h  == 2^(TrimmedBits(i) - 1)
             y  == LargestTts(C)[i] - 2^k + 1
         IN /\ lo \in Int /\ y <= lo /\ m <= Middle(i, lo)
            /\ lo = y \/ lo * 2^TrimmedBits(i) < m + h
            /\ \A X \in Int : y <= X /\ m <= Middle(i, X) => lo <= X
  <1> DEFINE lo == FirstAsked(C, m, i)
             b == 2^TrimmedBits(i)
             h == 2^(TrimmedBits(i) - 1)
             y == LargestTts(C)[i] - 2^k + 1
             z == (h - m) \div b
             x == -z
  <1>1. h \in Nat \ {0} /\ b = 2 * h /\ b \in Nat \ {0} /\ y \in Int
    BY Halves, WindowSizes, Sizes, LargestTtsIs
  <1>2. \A X \in Int : Middle(i, X) = X * b + h
    BY DEF Middle
  <1>3. lo = IF x >= y THEN x ELSE y
    BY DEF FirstAsked
  <1> HIDE DEF lo, b, h, y
  <1>4. /\ z \in Int /\ z * b <= h - m /\ h - m < (z + 1) * b
        /\ z * b \in Int /\ (z + 1) * b = z * b + b
    <2>1. h - m \in Int
      BY <1>1
    <2>2. z \in Int /\ z * b <= h - m /\ h - m < (z + 1) * b
      BY <1>1, <2>1, DivMod
    <2> HIDE DEF z
    <2> QED
      BY <1>1, <2>2
  <1> HIDE DEF z
  <1>5. x \in Int /\ x * b = -(z * b)
    BY <1>1, <1>4
  <1> HIDE DEF x
  <1>6. m <= x * b + h /\ x * b < m + h
    BY <1>1, <1>4, <1>5
  <1>7. lo \in Int /\ y <= lo /\ x <= lo
    BY <1>1, <1>3, <1>5
  <1>8. m <= lo * b + h
    <2>1. x * b <= lo * b /\ x * b \in Int /\ lo * b \in Int
      BY <1>1, <1>5, <1>7
    <2> QED
      BY <1>1, <1>6, <2>1
  <1>9. lo = y \/ lo * b < m + h
    BY <1>3, <1>6
  <1>10. ASSUME NEW X \in Int, y <= X, m <= X * b + h
         PROVE  lo <= X
    <2>1. X < x => X * b + b <= x * b
      <3>1. X < x => (X + 1) * b <= x * b
        BY <1>1, <1>5
      <3>2. (X + 1) * b = X * b + b
        BY <1>1
      <3> QED
        BY <3>1, <3>2
    <2>2. X * b \in Int /\ x * b \in Int
      BY <1>1, <1>5
    <2>3. ~(X < x)
      BY <1>1, <1>6, <1>10, <2>1, <2>2
    <2> QED
      BY <1>1, <1>3, <1>5, <1>10, <2>3
  <1> QED
    BY <1>2, <1>7, <1>8, <1>9, <1>10 DEF lo, b, h, y

LEMMA LastAskedIs ==
  ASSUME PowersOfTwo, NEW C \in Int, NEW l \in Int, NEW i \in Windows
  PROVE  LET hi == LastAsked(C, l, i)
             h  == 2^(TrimmedBits(i) - 1)
             y  == LargestTts(C)[i]
         IN /\ hi \in Int /\ hi <= y /\ Middle(i, hi) <= l
            /\ hi = y \/ l < (hi + 1) * 2^TrimmedBits(i) + h
            /\ \A X \in Int : X <= y /\ Middle(i, X) <= l => X <= hi
  <1> DEFINE hi == LastAsked(C, l, i)
             b == 2^TrimmedBits(i)
             h == 2^(TrimmedBits(i) - 1)
             y == LargestTts(C)[i]
             x == (l - h) \div b
  <1>1. h \in Nat \ {0} /\ b = 2 * h /\ b \in Nat \ {0} /\ y \in Int
    BY Halves, WindowSizes, LargestTtsIs
  <1>2. \A X \in Int : Middle(i, X) = X * b + h
    BY DEF Middle
  <1>3. hi = IF x <= y THEN x ELSE y
    BY DEF LastAsked
  <1> HIDE DEF hi, b, h, y
  <1>4. x \in Int /\ x * b <= l - h /\ l - h < (x + 1) * b /\ (x + 1) * b = x * b + b
    <2>1. l - h \in Int
      BY <1>1
    <2>2. x \in Int /\ x * b <= l - h /\ l - h < (x + 1) * b
      BY <1>1, <2>1, DivMod
    <2> HIDE DEF x
    <2> QED
      BY <1>1, <2>2
  <1> HIDE DEF x
  <1>5. hi \in Int /\ hi <= y /\ hi <= x
    BY <1>1, <1>3, <1>4
  <1>6. hi * b + h <= l
    <2>1. hi * b <= x * b /\ hi * b \in Int /\ x * b \in Int
      BY <1>1, <1>4, <1>5
    <2> QED
      BY <1>1, <1>4, <2>1
  <1>7. hi = y \/ l < (hi + 1) * b + h
    <2>1. l < (x + 1) * b + h
      <3>1. (x + 1) * b \in Int
        BY <1>1, <1>4
      <3> QED
        BY <1>1, <1>4, <3>1
    <2> QED
      BY <1>3, <2>1
  <1>8. ASSUME NEW X \in Int, X <= y, X * b + h <= l
        PROVE  X <= hi
    <2>1. x < X => x * b + b <= X * b
      <3>1. x < X => (x + 1) * b <= X * b
        BY <1>1, <1>4
      <3> QED
        BY <1>4, <3>1
    <2>2. X * b \in Int /\ x * b \in Int
      BY <1>1, <1>4
    <2>3. ~(x < X)
      BY <1>1, <1>4, <1>8, <2>1, <2>2
    <2> QED
      BY <1>1, <1>3, <1>4, <1>8, <2>3
  <1> QED
    BY <1>2, <1>5, <1>6, <1>7, <1>8 DEF hi, b, h, y

\* A window ends, within a cell of it, where the cycle of the one before begins.
LEMMA WindowsMeet ==
  ASSUME PowersOfTwo, NEW C \in Int, NEW i \in Windows, i # 0
  PROVE  LET L == LargestTts(C)
             f == (L[i - 1] - 2^k + 1) * 2^TrimmedBits(i - 1)
             e == (L[i] + 1) * 2^TrimmedBits(i)
         IN /\ i - 1 \in Windows /\ f \in Int /\ e \in Int
            /\ f <= e /\ e <= f + 2^TrimmedBits(i) - 2^TrimmedBits(i - 1)
  <1> DEFINE g == i - 1
             L == LargestTts(C)
             A == 2^ALPHA
             b == 2^TrimmedBits(g)
             y == L[g] - 2^k
             x == y \div A
  <1>1. g \in Windows /\ g + 1 = i
    BY Parameters DEF Windows
  <1>2. b \in Nat \ {0} /\ A \in Nat \ {0} /\ 2^TrimmedBits(i) = b * A /\ y \in Int /\ L[i] = x
    <2>1. 2^TrimmedBits(g + 1) = b * A
      <3> HIDE DEF g
      <3> QED
        BY <1>1, NextSize
    <2>2. L[i] = x /\ y \in Int
      BY <1>1, LargestTtsIs, Sizes
    <2> HIDE DEF x, y
    <2> QED
      BY <1>1, <2>1, <2>2, WindowSizes, Sizes
  <1> HIDE DEF A, b, y
  <1>3. /\ x \in Int /\ x * A <= y /\ y + 1 <= (x + 1) * A
        /\ x * A \in Int /\ (x + 1) * A = x * A + A
    <2>1. x \in Int /\ x * A <= y /\ y < (x + 1) * A
      BY <1>2, DivMod
    <2> HIDE DEF x
    <2>2. x * A \in Int /\ (x + 1) * A = x * A + A /\ (x + 1) * A \in Int
      BY <1>2, <2>1
    <2> QED
      BY <1>2, <2>1, <2>2
  <1> HIDE DEF x
  <1>4. (y + 1) * b <= ((x + 1) * A) * b /\ (x * A) * b <= y * b
    <2> DEFINE v == x * A
               w == (x + 1) * A
    <2>1. v \in Int /\ w \in Int /\ v <= y /\ y + 1 <= w
      BY <1>2, <1>3
    <2> HIDE DEF v, w
    <2>2. (y + 1) * b <= w * b /\ v * b <= y * b
      BY <1>2, <2>1
    <2> QED
      BY <2>2 DEF v, w
  <1>5. /\ ((x + 1) * A) * b = (x + 1) * (b * A)
        /\ (x + 1) * (b * A) = (x * A) * b + b * A
        /\ (y + 1) * b = y * b + b
        /\ (x * A) * b \in Int /\ b * A \in Int /\ y * b \in Int
    BY <1>2, <1>3
  <1> DEFINE f == (y + 1) * b
             e == (x + 1) * (b * A)
  <1>6. f \in Int /\ e \in Int /\ f <= e /\ e <= f + b * A - b
    <2> DEFINE u == (x * A) * b
               v == y * b
               w == b * A
    <2>1. /\ u \in Int /\ v \in Int /\ w \in Int /\ e = u + w /\ f = v + b
          /\ f <= e /\ u <= v
      BY <1>4, <1>5
    <2> HIDE DEF u, v, w, e, f
    <2>2. e <= f + w - b
      BY <1>2, <2>1
    <2> QED
      BY <1>2, <2>1, <2>2 DEF w
  <1>7. (L[g] - 2^k + 1) * 2^TrimmedBits(g) = f /\ (L[i] + 1) * 2^TrimmedBits(i) = e
    BY <1>2 DEF y, b
  <1> HIDE DEF f, e
  <1> QED
    BY <1>1, <1>2, <1>6, <1>7 DEF b

\* Where a cell of a set lies, and that the latest of any newer window is after it.
LEMMA CellsPlaced ==
  ASSUME PowersOfTwo, ALPHA <= k, NEW cells, NEW o \in Int, NEW C \in Int,
         Describes(cells, o, C), NEW c \in cells
  PROVE  LET X == CellOf(c.twid, c.FID)
             L == LargestTts(C)
         IN /\ c.twid \in Windows /\ X \in Int /\ Moment(c) \in Int
            /\ Moment(c) + o * 2^TsBits = Middle(c.twid, X)
            /\ L[c.twid] - 2^k + 1 <= X /\ X <= L[c.twid]
            /\ \A i \in Windows : i <= c.twid => Middle(c.twid, X) <= Middle(i, L[i])
  <1> DEFINE h == c.twid
             X == CellOf(h, c.FID)
             L == LargestTts(C)
  <1>1. h \in Windows /\ X \in Int /\ Moment(c) \in Int /\ Moment(c) + o * 2^TsBits = Middle(h, X)
    BY DescribedMoment
  <1>2. L[h] - 2^k < X /\ X <= L[h]
    BY DEF Describes
  <1>3. L \in [Windows -> Int] /\ 2^k \in Nat
    BY LargestTtsIs, Sizes
  <1> HIDE DEF X
  <1>4. Middle(h, X) \in Int /\ Middle(h, X) <= Middle(h, L[h])
        /\ Middle(h, L[h]) \in Int /\ Middle(h, L[h]) < (L[h] + 1) * 2^TrimmedBits(h)
    <2>1. L[h] \in Int
      BY <1>1, <1>3
    <2> HIDE DEF L, h
    <2> QED
      BY <1>1, <1>2, <2>1, MiddleMonotonic
  <1>5. ASSUME NEW i \in Windows, i <= h
        PROVE  Middle(h, X) <= Middle(i, L[i])
    <2>1. CASE i = h
      BY <1>4, <2>1
    <2>2. CASE i < h
      <3>1. (L[h] + 1) * 2^TrimmedBits(h) <= L[i] * 2^TrimmedBits(i)
        BY <1>1, <2>2, EndsInOrder
      <3>2. Middle(i, L[i]) \in Int /\ L[i] * 2^TrimmedBits(i) < Middle(i, L[i])
        <4>1. L[i] \in Int
          BY <1>3
        <4> HIDE DEF L
        <4> QED
          BY <4>1, MiddleMonotonic
      <3>3. (L[h] + 1) * 2^TrimmedBits(h) \in Int /\ L[i] * 2^TrimmedBits(i) \in Int
        BY <1>1, <1>3, WindowSizes
      <3> HIDE DEF L
      <3> QED
        BY <1>4, <3>1, <3>2, <3>3
    <2> QED
      BY <1>1, <1>5, <2>1, <2>2 DEF Windows
  <1>6. L[h] - 2^k + 1 <= X
    BY <1>1, <1>2, <1>3
  <1> QED
    BY <1>1, <1>2, <1>5, <1>6 DEF X

\* What a query asks for, by its middles.
LEMMA AskedAre ==
  ASSUME PowersOfTwo, ALPHA <= k, NEW cells, NEW o \in Int, NEW C \in Int,
         Describes(cells, o, C), NEW ts \in Int, NEW te \in Int, NEW i \in Windows,
         NEW c \in cells
  PROVE  c \in Asked(cells, ts, te, i) <=>
           /\ c.twid = i
           /\ ts + o * 2^TsBits <= Middle(i, CellOf(i, c.FID))
           /\ Middle(i, CellOf(i, c.FID)) <= te + o * 2^TsBits
  <1> DEFINE x == Middle(c.twid, CellOf(c.twid, c.FID))
             f == o * 2^TsBits
             m == Moment(c)
  <1>1. m \in Int /\ m + f = x
    BY CellsPlaced
  <1>2. f \in Int
    BY Sizes
  <1> HIDE DEF x, f, m
  <1>3. /\ ts <= m <=> ts + f <= x
        /\ m <= te <=> x <= te + f
    BY <1>1, <1>2
  <1>4. c \in Asked(cells, ts, te, i) <=> c.twid = i /\ ts <= m /\ m <= te
    BY DEF Asked, m
  <1> QED
    BY <1>3, <1>4 DEF x, f

\* How many they are at most: from any cell that is before them all to the last.
LEMMA AskedAtMost ==
  ASSUME PowersOfTwo, ALPHA <= k, NEW cells, NEW o \in Int, NEW C \in Int,
         Describes(cells, o, C), Single(cells), NEW ts \in Int, NEW te \in Int,
         NEW i \in Windows, NEW z \in Int,
         \A c \in Asked(cells, ts, te, i) : z <= CellOf(i, c.FID)
  PROVE  LET N == Cardinality(Asked(cells, ts, te, i))
         IN N = 0 \/ N <= LastAsked(C, te + o * 2^TsBits, i) - z + 1
  <1> DEFINE S == Asked(cells, ts, te, i)
             l == te + o * 2^TsBits
             hi == LastAsked(C, l, i)
             f == [c \in S |-> CellOf(i, c.FID)]
  <1>1. S \subseteq cells /\ \A c \in S : c.twid = i
    BY DEF Asked
  <1>2. l \in Int
    BY Sizes
  <1>3. hi \in Int /\ \A X \in Int : X <= LargestTts(C)[i] /\ Middle(i, X) <= l => X <= hi
    <2> HIDE DEF l
    <2> QED
      BY <1>2, LastAskedIs
  <1>4. \A c \in S : CellOf(i, c.FID) \in Int /\ z <= CellOf(i, c.FID) /\ CellOf(i, c.FID) <= hi
    <2> TAKE c \in S
    <2>1. CellOf(i, c.FID) \in Int /\ CellOf(i, c.FID) <= LargestTts(C)[i]
      BY <1>1, CellsPlaced
    <2>2. Middle(i, CellOf(i, c.FID)) <= l
      BY <1>1, AskedAre
    <2> HIDE DEF hi, l, S
    <2> QED
      BY <1>3, <2>1, <2>2 DEF S
  <1>5. \A c, d \in S : f[c] = f[d] => c = d
    <2> SUFFICES ASSUME NEW c \in S, NEW d \in S, f[c] = f[d]
                 PROVE  c = d
      OBVIOUS
    <2>1. CellOf(i, c.FID) = CellOf(i, d.FID)
      <3> HIDE DEF S
      <3> QED
        OBVIOUS
    <2> QED
      BY <1>1, <2>1 DEF Single
  <1>6. f \in [S -> Int] /\ \A c \in S : z <= f[c] /\ f[c] <= hi
    <2> HIDE DEF S, hi
    <2> QED
      BY <1>4
  <1> HIDE DEF f, S, hi
  <1>7. Cardinality(S) = 0 \/ Cardinality(S) <= hi - z + 1
    BY <1>3, <1>5, <1>6, CountAtMost
  <1> QED
    BY <1>7 DEF S, hi, l

\* How many they are at least: of every window up to that of the first record, all from
\* the first to the last.
LEMMA AskedAtLeast ==
  ASSUME PowersOfTwo, ALPHA <= k, NEW cells, NEW o \in Int, NEW C \in Int, NEW s \in Nat,
         IsFiniteSet(cells), Describes(cells, o, C), Gapless(cells, C, s), Since(cells, C, s),
         NEW from \in cells, NEW te \in Int, NEW i \in Windows, i <= from.twid
  PROVE  LET f == o * 2^TsBits
         IN Cardinality(Asked(cells, Moment(from), te, i))
              >= LastAsked(C, te + f, i) - FirstAsked(C, Moment(from) + f, i) + 1
  <1> DEFINE ts == Moment(from)
             p == from.twid
             u == CellOf(p, from.FID)
             L == LargestTts(C)
             K == 2^k
             b == 2^TrimmedBits(i)
             S == Asked(cells, ts, te, i)
             m == ts + o * 2^TsBits
             l == te + o * 2^TsBits
             lo == FirstAsked(C, m, i)
             hi == LastAsked(C, l, i)
             g == [c \in S |-> CellOf(i, c.FID)]
  <1>1. /\ p \in Windows /\ u \in Int /\ ts \in Int /\ m = Middle(p, u)
        /\ L[p] - K + 1 <= u
    BY CellsPlaced
  <1>2. m \in Int /\ l \in Int
    BY <1>1, Sizes
  <1>3. /\ lo \in Int /\ L[i] - K + 1 <= lo /\ m <= Middle(i, lo)
        /\ hi \in Int /\ hi <= L[i] /\ Middle(i, hi) <= l
    <2> HIDE DEF m, l
    <2> QED
      BY <1>2, FirstAskedIs, LastAskedIs
  <1>4. S \subseteq cells /\ IsFiniteSet(S) /\ \A c \in S : c.twid = i
    <2>1. S \in SUBSET cells /\ \A c \in S : c.twid = i
      BY DEF Asked
    <2> HIDE DEF S
    <2> QED
      BY <2>1, FS_Subset
  <1>5. /\ K \in Nat \ {0} /\ L[i] \in Int /\ b \in Nat \ {0}
        /\ from.FID \in Nat /\ from.FID >= s
        /\ \A h \in Windows : h < p => CellOf(h, from.FID) <= L[h] - K
    BY Sizes, WindowSizes, LargestTtsIs DEF Describes, Since
  <1>6. ASSUME NEW X \in lo .. hi
        PROVE  \E c \in S : g[c] = X
    <2>1. X \in Int /\ X \in L[i] - K + 1 .. L[i] /\ lo <= X /\ X <= hi
      <3> HIDE DEF lo, hi, L, K
      <3> QED
        BY <1>3, <1>5
    <2>2. m <= Middle(i, X) /\ Middle(i, X) <= l
      <3>1. /\ Middle(i, lo) <= Middle(i, X) /\ Middle(i, X) <= Middle(i, hi)
            /\ Middle(i, lo) \in Int /\ Middle(i, hi) \in Int /\ Middle(i, X) \in Int
        <4> HIDE DEF lo, hi, m, l
        <4> QED
          BY <1>3, <2>1, MiddleMonotonic
      <3> HIDE DEF m, l, lo, hi
      <3> QED
        BY <1>2, <1>3, <3>1
    <2>3. \E c \in cells : c.twid = i /\ CellOf(i, c.FID) = X
      <3>1. CASE i = p /\ X = u
        BY <3>1
      <3>2. CASE ~(i = p /\ X = u)
        <4>1. CellOf(i, from.FID) \in Int /\ CellOf(i, from.FID) < X
          <5>1. CASE i = p
            <6>1. ~(X < u)
              <7>1. X < u => Middle(p, X) < Middle(p, u) /\ Middle(p, X) \in Int /\ Middle(p, u) \in Int
                BY <1>1, <2>1, MiddleMonotonic
              <7>2. Middle(p, u) <= Middle(p, X)
                BY <1>1, <2>2, <5>1
              <7> QED
                BY <7>1, <7>2
            <6>2. X # u
              BY <3>2, <5>1
            <6> HIDE DEF u, p
            <6>3. u < X
              BY <1>1, <2>1, <6>1, <6>2
            <6> QED
              BY <1>1, <5>1, <6>3 DEF u
          <5>2. CASE i # p
            <6>1. i < p
              BY <1>1, <5>2 DEF Windows
            <6>2. CellOf(i, from.FID) <= L[i] - K
              BY <1>5, <6>1
            <6>3. CellOf(i, from.FID) \in Int
              BY <1>5, StampOfCell
            <6> HIDE DEF L, K
            <6> QED
              BY <1>5, <2>1, <6>2, <6>3
          <5> QED
            BY <5>1, <5>2
        <4>2. X * b >= s
          <5> DEFINE t == from.FID
                     y == t \div b
          <5>1. y < X
            BY <4>1 DEF CellOf
          <5>2. t \in Int /\ y \in Int /\ t < (y + 1) * b
            <6>1. t \in Int
              BY <1>5
            <6> HIDE DEF t, b
            <6> QED
              BY <1>5, <6>1, DivMod
          <5>3. t >= s
            BY <1>5
          <5> HIDE DEF t, y, b
          <5>4. y + 1 <= X
            BY <2>1, <5>1, <5>2
          <5>5. (y + 1) * b <= X * b /\ X * b \in Int /\ (y + 1) * b \in Int
            BY <1>5, <2>1, <5>2, <5>4
          <5> QED
            BY <5>2, <5>3, <5>5
        <4> QED
          BY <2>1, <4>2 DEF Gapless
      <3> QED
        BY <3>1, <3>2
    <2>4. PICK c \in cells : c.twid = i /\ CellOf(i, c.FID) = X
      BY <2>3
    <2>5. c \in S
      <3>1. c.twid = i /\ m <= Middle(i, CellOf(i, c.FID)) /\ Middle(i, CellOf(i, c.FID)) <= l
        BY <2>2, <2>4
      <3> HIDE DEF ts
      <3> QED
        BY <1>1, <3>1, AskedAre
    <2> HIDE DEF S
    <2> QED
      BY <2>4, <2>5
  <1>7. g \in [S -> Int]
    <2>1. \A c \in S : CellOf(i, c.FID) \in Int
      BY <1>4, CellsPlaced
    <2> HIDE DEF S
    <2> QED
      BY <2>1
  <1> HIDE DEF g, S, lo, hi
  <1>8. Cardinality(S) >= hi - lo + 1
    BY <1>3, <1>4, <1>6, <1>7, CountAtLeast
  <1> QED
    BY <1>8 DEF S, lo, hi, m, l, ts

\* Window by window, a query counts what lasts as long as its interval does: a window
\* begins, within a cell of the next, where that one ends, and what lies before the first
\* middle it asks for, or after the last, is at most half a cell.
LEMMA EstimateNoLess ==
  ASSUME PowersOfTwo, ALPHA <= k, NEW cells, NEW o \in Int, NEW C \in Int, NEW s \in Nat,
         IsFiniteSet(cells), Describes(cells, o, C), Gapless(cells, C, s), Since(cells, C, s),
         NEW from \in cells, NEW to \in cells,
         NEW G, Adds(cells, Moment(from), Moment(to), G)
  PROVE  G[T - 1] >= Moment(to) - Moment(from)
  <1> DEFINE n == T - 1
             p == from.twid
             u == CellOf(p, from.FID)
             ts == Moment(from)
             te == Moment(to)
             f == o * 2^TsBits
             m == ts + f
             l == te + f
             L == LargestTts(C)
             K == 2^k
             b(i) == 2^TrimmedBits(i)
             h(i) == 2^(TrimmedBits(i) - 1)
             lo(i) == FirstAsked(C, m, i)
             hi(i) == LastAsked(C, l, i)
             V(i) == lo(i) * b(i)
             U(i) == (hi(i) + 1) * b(i)
             e(i) == (L[i] + 1) * b(i)
             N(i) == Cardinality(Asked(cells, ts, te, i))
             W(i) == N(i) * b(i)
             S == {i \in 0 .. n : /\ i <= p => G[i] >= l - V(i) - h(i)
                                  /\ p < i => G[i] >= G[p]}
  <1>1. n \in Nat /\ Windows = 0 .. n /\ 0 \in Windows
    BY Parameters DEF Windows
  <1>2. /\ p \in Windows /\ u \in Int /\ ts \in Int /\ m = Middle(p, u)
        /\ L[p] - K + 1 <= u
        /\ \A i \in Windows : i <= p => m <= Middle(i, L[i])
    BY CellsPlaced
  <1>3. te \in Int /\ l <= Middle(0, L[0])
    <2>1. /\ to.twid \in Windows /\ te \in Int
          /\ l = Middle(to.twid, CellOf(to.twid, to.FID))
          /\ \A i \in Windows : i <= to.twid => l <= Middle(i, L[i])
      BY CellsPlaced
    <2>2. 0 <= to.twid
      BY <2>1 DEF Windows
    <2> HIDE DEF l, L
    <2> QED
      BY <1>1, <2>1, <2>2
  <1>4. f \in Int /\ m \in Int /\ l \in Int
    <2>1. f \in Int
      BY Sizes
    <2> HIDE DEF f
    <2> QED
      BY <1>2, <1>3, <2>1
  <1> HIDE DEF m, l, ts, te, u
  <1>5. \A i \in Windows : /\ b(i) \in Nat \ {0} /\ h(i) \in Nat \ {0} /\ b(i) = 2 * h(i)
                           /\ L[i] \in Int /\ K \in Nat
                           /\ \A X \in Int : Middle(i, X) = X * b(i) + h(i)
    BY Halves, WindowSizes, LargestTtsIs, Sizes DEF Middle
  <1>6. \A i \in Windows :
          /\ lo(i) \in Int /\ (lo(i) = L[i] - K + 1 \/ V(i) < m + h(i))
          /\ \A X \in Int : L[i] - K + 1 <= X /\ m <= Middle(i, X) => lo(i) <= X
    BY <1>4, FirstAskedIs
  <1>7. \A i \in Windows : hi(i) \in Int /\ (hi(i) = L[i] \/ l < U(i) + h(i))
    BY <1>4, LastAskedIs
  <1>8. \A i \in Windows : i <= p => N(i) >= hi(i) - lo(i) + 1
    BY <1>2, <1>3, AskedAtLeast DEF m, l, ts, te
  <1>9. \A i \in Windows : N(i) \in Nat
    <2> TAKE i \in Windows
    <2>1. Asked(cells, ts, te, i) \in SUBSET cells
      BY DEF Asked
    <2> QED
      BY <2>1, FS_Subset, FS_CardinalityType
  <1> HIDE DEF lo, hi, N, b, h, L, K
  <1>10. \A i \in Windows : /\ V(i) \in Int /\ U(i) \in Int /\ e(i) \in Int /\ W(i) \in Nat
                            /\ i <= p => W(i) >= U(i) - V(i)
    <2> TAKE i \in Windows
    <2> DEFINE x == lo(i)
               y == hi(i)
               z == N(i)
               c == b(i)
    <2>1. x \in Int /\ y \in Int /\ z \in Nat /\ c \in Nat /\ L[i] \in Int
          /\ (i <= p => z >= y - x + 1)
      <3>1. x \in Int /\ y \in Int
        BY <1>6, <1>7
      <3>2. z \in Nat /\ c \in Nat /\ L[i] \in Int
        BY <1>5, <1>9
      <3> QED
        BY <1>8, <3>1, <3>2
    <2> HIDE DEF x, y, z, c
    <2>2. x * c \in Int /\ (y + 1) * c \in Int /\ z * c \in Nat /\ (L[i] + 1) * c \in Int
      BY <2>1
    <2>3. i <= p => z * c >= (y - x + 1) * c
      BY <2>1
    <2>4. (y - x + 1) * c = (y + 1) * c - x * c
      BY <2>1
    <2> QED
      BY <2>2, <2>3, <2>4 DEF x, y, z, c
  <1>11. \A i \in Windows : i # 0 =>
           /\ i - 1 \in Windows /\ h(i - 1) <= h(i)
           /\ (L[i - 1] - K + 1) * b(i - 1) <= e(i)
    <2> SUFFICES ASSUME NEW i \in Windows, i # 0
                 PROVE  /\ i - 1 \in Windows /\ h(i - 1) <= h(i)
                        /\ (L[i - 1] - K + 1) * b(i - 1) <= e(i)
      OBVIOUS
    <2>1. /\ i - 1 \in Windows /\ (L[i - 1] - K + 1) * b(i - 1) <= e(i)
          /\ e(i) <= (L[i - 1] - K + 1) * b(i - 1) + b(i) - b(i - 1)
          /\ (L[i - 1] - K + 1) * b(i - 1) \in Int /\ e(i) \in Int
      BY WindowsMeet DEF L, K, b
    <2>2. b(i - 1) <= b(i)
      BY <1>5, <2>1
    <2>3. b(i) = 2 * h(i) /\ b(i - 1) = 2 * h(i - 1)
          /\ h(i) \in Int /\ h(i - 1) \in Int
      BY <1>5, <2>1
    <2>4. h(i - 1) <= h(i)
      BY <2>2, <2>3
    <2> QED
      BY <2>1, <2>4
  <1>12. \A i \in Windows : i # 0 /\ i <= p => V(i - 1) <= e(i)
    <2> SUFFICES ASSUME NEW i \in Windows, i # 0, i <= p
                 PROVE  V(i - 1) <= e(i)
      OBVIOUS
    <2>1. i - 1 \in Windows /\ h(i - 1) <= h(i) /\ (L[i - 1] - K + 1) * b(i - 1) <= e(i)
      BY <1>11
    <2>2. CASE lo(i - 1) = L[i - 1] - K + 1
      BY <2>1, <2>2
    <2>3. CASE V(i - 1) < m + h(i - 1)
      <3>1. m <= L[i] * b(i) + h(i)
        BY <1>2, <1>5
      <3>2. e(i) = L[i] * b(i) + b(i) /\ L[i] * b(i) \in Int
        BY <1>5
      <3>3. /\ V(i - 1) \in Int /\ e(i) \in Int /\ h(i) \in Int /\ h(i - 1) \in Int
            /\ b(i) = 2 * h(i)
        BY <1>5, <1>10, <2>1
      <3> HIDE DEF V, e
      <3> QED
        BY <1>4, <2>1, <2>3, <3>1, <3>2, <3>3
    <2> QED
      BY <1>6, <2>1, <2>2, <2>3
  <1>13. l <= e(0) - h(0)
    <2>1. l <= L[0] * b(0) + h(0)
      BY <1>1, <1>3, <1>5
    <2>2. e(0) = L[0] * b(0) + b(0) /\ L[0] * b(0) \in Int
      <3> DEFINE x == L[0]
                 y == b(0)
      <3>1. x \in Int /\ y \in Int
        BY <1>1, <1>5
      <3> HIDE DEF x, y
      <3>2. (x + 1) * y = x * y + y /\ x * y \in Int
        BY <3>1
      <3> QED
        BY <3>2 DEF x, y
    <2>3. b(0) = 2 * h(0) /\ h(0) \in Int /\ e(0) \in Int
      BY <1>1, <1>5, <1>10
    <2> HIDE DEF e
    <2> QED
      BY <1>4, <2>1, <2>2, <2>3
  <1>14. \A i \in Windows : U(i) = e(i) \/ l < U(i) + h(i)
    BY <1>7
  <1>15. /\ G \in [0 .. n -> Nat] /\ G[0] = W(0)
         /\ \A i \in 1 .. n : G[i] = G[i - 1] + W(i)
    <2>1. \A i \in 1 .. n : i \in Windows /\ i # 0
      BY <1>1
    <2> QED
      BY <1>1, <2>1 DEF Adds, N, b, ts, te
  <1>16. p \in 0 .. n /\ p \in Int /\ p >= 0
    BY <1>1, <1>2
  <1> HIDE DEF V, U, e, W, p, n
  <1>17. 0 \in S
    <2>1. /\ W(0) >= U(0) - V(0) /\ W(0) \in Int /\ U(0) \in Int /\ V(0) \in Int
          /\ e(0) \in Int /\ h(0) \in Int
      BY <1>1, <1>5, <1>10, <1>16
    <2>2. l <= U(0) + h(0)
      <3>1. U(0) = e(0) \/ l < U(0) + h(0)
        BY <1>1, <1>14
      <3>2. h(0) >= 0
        BY <1>1, <1>5
      <3> QED
        BY <1>4, <1>13, <2>1, <3>1, <3>2
    <2>3. G[0] >= l - V(0) - h(0)
      BY <1>4, <1>15, <2>1, <2>2
    <2> QED
      BY <1>1, <1>16, <2>3
  <1>18. ASSUME NEW i \in 1 .. n, i - 1 \in S
         PROVE  i \in S
    <2> DEFINE g == i - 1
    <2>1. /\ i \in Windows /\ g \in Windows /\ i # 0 /\ i \in 0 .. n
          /\ i \in Int /\ g \in Int /\ g + 1 = i
      BY <1>1
    <2>2. /\ G[i] \in Nat /\ G[g] \in Nat /\ G[p] \in Nat /\ G[i] = G[g] + W(i)
          /\ W(i) \in Nat /\ V(i) \in Int /\ V(g) \in Int /\ U(i) \in Int
          /\ h(i) \in Int /\ h(g) \in Int /\ h(g) <= h(i)
      <3>1. G[i] \in Nat /\ G[g] \in Nat /\ G[p] \in Nat
        <4> HIDE DEF g
        <4> QED
          BY <1>1, <1>15, <1>16, <2>1
      <3>2. W(i) \in Nat /\ V(i) \in Int /\ V(g) \in Int /\ U(i) \in Int
        BY <1>10, <2>1
      <3>3. h(i) \in Int /\ h(g) \in Int
        <4> HIDE DEF g
        <4> QED
          BY <1>5, <2>1
      <3>4. h(g) <= h(i) /\ G[i] = G[g] + W(i)
        BY <1>11, <1>15, <2>1
      <3> QED
        BY <3>1, <3>2, <3>3, <3>4
    <2>3. /\ g <= p => G[g] >= l - V(g) - h(g)
          /\ p < g => G[g] >= G[p]
      BY <1>18
    <2>4. CASE i <= p
      <3>1. W(i) >= U(i) - V(i) /\ V(g) <= e(i) /\ e(i) \in Int
        BY <1>10, <1>12, <2>1, <2>4
      <3>2. G[g] >= l - V(g) - h(g)
        BY <1>16, <2>1, <2>3, <2>4
      <3>3. CASE U(i) = e(i)
        <4> HIDE DEF g
        <4> QED
          BY <1>4, <1>16, <2>1, <2>2, <2>4, <3>1, <3>2, <3>3
      <3>4. CASE l < U(i) + h(i)
        <4> HIDE DEF g
        <4> QED
          BY <1>4, <1>16, <2>1, <2>2, <2>4, <3>1, <3>4
      <3> QED
        BY <1>14, <2>1, <3>3, <3>4
    <2>5. CASE p < i
      <3>1. G[g] >= G[p]
        <4>1. g = p \/ p < g
          BY <1>16, <2>1, <2>5
        <4> HIDE DEF g
        <4> QED
          BY <2>2, <2>3, <4>1
      <3> HIDE DEF g
      <3> QED
        BY <1>16, <2>1, <2>2, <2>5, <3>1
    <2> QED
      BY <1>16, <2>1, <2>4, <2>5
  <1>19. \A i \in 0 .. n : i \in S
    <2> HIDE DEF S
    <2> QED
      BY <1>1, <1>17, <1>18, InductionUpTo
  <1>20. G[n] >= G[p] /\ G[p] >= l - V(p) - h(p) /\ G[p] \in Int /\ G[n] \in Int
    <2>1. n \in S /\ p \in S /\ n \in 0 .. n
      BY <1>1, <1>16, <1>19
    <2>2. G[p] \in Nat /\ G[n] \in Nat
      BY <1>15, <1>16, <2>1
    <2>3. G[n] >= G[p]
      <3>1. p < n \/ p = n
        BY <1>1, <1>16
      <3> QED
        BY <2>1, <2>2, <3>1
    <2>4. G[p] >= l - V(p) - h(p)
      BY <1>16, <2>1
    <2> QED
      BY <2>2, <2>3, <2>4
  <1>21. V(p) <= m - h(p) /\ V(p) \in Int /\ h(p) \in Int
    <2>1. lo(p) <= u /\ lo(p) \in Int
      <3>1. m <= Middle(p, u) /\ L[p] - K + 1 <= u
        BY <1>2, <1>4
      <3>2. lo(p) \in Int /\ \A X \in Int : L[p] - K + 1 <= X /\ m <= Middle(p, X) => lo(p) <= X
        BY <1>2, <1>6
      <3> QED
        BY <1>2, <3>1, <3>2
    <2>2. b(p) \in Nat /\ h(p) \in Int /\ m = u * b(p) + h(p)
      BY <1>2, <1>5
    <2>3. lo(p) * b(p) <= u * b(p) /\ u * b(p) \in Int /\ lo(p) * b(p) \in Int
      BY <1>2, <2>1, <2>2
    <2> QED
      BY <2>2, <2>3 DEF V
  <1>22. l - m = te - ts
    BY <1>2, <1>3, <1>4 DEF l, m
  <1>23. G[n] >= te - ts
    BY <1>4, <1>20, <1>21, <1>22
  <1> QED
    BY <1>23 DEF n, te, ts

\* ... and hardly more: windows overlap by less than a cell of the older, and no window
\* older than the first record's holds more than one cell after it.
LEMMA EstimateLittleMore ==
  ASSUME PowersOfTwo, ALPHA <= k, NEW cells, NEW o \in Int, NEW C \in Int,
         IsFiniteSet(cells), Describes(cells, o, C), Single(cells),
         NEW from \in cells, NEW to \in cells, Moment(from) <= Moment(to),
         NEW G, Adds(cells, Moment(from), Moment(to), G)
  PROVE  G[T - 1] < (Moment(to) - Moment(from)) + 2^TrimmedBits(T)
  <1> DEFINE n == T - 1
             p == from.twid
             u == CellOf(p, from.FID)
             ts == Moment(from)
             te == Moment(to)
             f == o * 2^TsBits
             m == ts + f
             l == te + f
             L == LargestTts(C)
             K == 2^k
             b(i) == 2^TrimmedBits(i)
             h(i) == 2^(TrimmedBits(i) - 1)
             hi(i) == LastAsked(C, l, i)
             U(i) == (hi(i) + 1) * b(i)
             e(i) == (L[i] + 1) * b(i)
             F(i) == (L[i] - K + 1) * b(i)
             v == u * b(p)
             N(i) == Cardinality(Asked(cells, ts, te, i))
             W(i) == N(i) * b(i)
             B == 2^TrimmedBits(T)
             S == {i \in 0 .. n : G[i] = 0 \/ G[i] <= l - F(i) + b(i)}
             R == {i \in 0 .. n : \/ i <= p
                                  \/ p + 1 \in Windows /\ G[i] <= G[p] + b(p + 1)}
  <1>1. n \in Nat /\ Windows = 0 .. n /\ 0 \in Windows
    BY Parameters DEF Windows
  <1>2. /\ p \in Windows /\ u \in Int /\ ts \in Int /\ m = Middle(p, u)
        /\ L[p] - K + 1 <= u /\ u <= L[p]
    BY CellsPlaced
  <1>3. te \in Int
    BY CellsPlaced
  <1>4. f \in Int /\ m \in Int /\ l \in Int /\ l - m = te - ts /\ m <= l
    <2>1. f \in Int /\ ts <= te
      BY Sizes
    <2> HIDE DEF f, ts, te
    <2> QED
      BY <1>2, <1>3, <2>1
  <1>5. \A i \in Windows : /\ b(i) \in Nat \ {0} /\ h(i) \in Nat \ {0} /\ b(i) = 2 * h(i)
                           /\ L[i] \in Int /\ K \in Nat \ {0}
                           /\ \A X \in Int : Middle(i, X) = X * b(i) + h(i)
    BY Halves, WindowSizes, LargestTtsIs, Sizes DEF Middle
  <1>6. \A i \in Windows : hi(i) \in Int /\ hi(i) <= L[i] /\ Middle(i, hi(i)) <= l
    <2> HIDE DEF l
    <2> QED
      BY <1>4, LastAskedIs
  <1>7. ASSUME NEW i \in Windows, NEW z \in Int,
               \A c \in Asked(cells, ts, te, i) : z <= CellOf(i, c.FID)
        PROVE  N(i) = 0 \/ N(i) <= hi(i) - z + 1
    BY <1>2, <1>3, <1>7, AskedAtMost
  <1>8. \A i \in Windows : N(i) \in Nat
    <2> TAKE i \in Windows
    <2>1. Asked(cells, ts, te, i) \in SUBSET cells
      BY DEF Asked
    <2> QED
      BY <2>1, FS_Subset, FS_CardinalityType
  <1>9. \A i \in Windows : \A c \in Asked(cells, ts, te, i) :
          /\ CellOf(i, c.FID) \in Int /\ L[i] - K + 1 <= CellOf(i, c.FID)
          /\ CellOf(i, c.FID) <= L[i] /\ m <= Middle(i, CellOf(i, c.FID))
    <2> SUFFICES ASSUME NEW i \in Windows, NEW c \in Asked(cells, ts, te, i)
                 PROVE  /\ CellOf(i, c.FID) \in Int /\ L[i] - K + 1 <= CellOf(i, c.FID)
                        /\ CellOf(i, c.FID) <= L[i] /\ m <= Middle(i, CellOf(i, c.FID))
      OBVIOUS
    <2>1. c \in cells /\ c.twid = i
      BY DEF Asked
    <2>2. m <= Middle(i, CellOf(i, c.FID))
      BY <1>2, <1>3, <2>1, AskedAre
    <2> QED
      BY <2>1, <2>2, CellsPlaced
  <1>10. \A i \in Windows : N(i) = 0 \/ N(i) <= hi(i) - (L[i] - K + 1) + 1
    <2> TAKE i \in Windows
    <2> DEFINE z == L[i] - K + 1
    <2>1. z \in Int
      BY <1>5
    <2>2. \A c \in Asked(cells, ts, te, i) : z <= CellOf(i, c.FID)
      BY <1>9
    <2> HIDE DEF z, N, hi
    <2>3. N(i) = 0 \/ N(i) <= hi(i) - z + 1
      BY <1>7, <2>1, <2>2
    <2> QED
      BY <2>3 DEF z
  <1>11. N(p) = 0 \/ N(p) <= hi(p) - u + 1
    <2>1. \A c \in Asked(cells, ts, te, p) : u <= CellOf(p, c.FID)
      <3> TAKE c \in Asked(cells, ts, te, p)
      <3> DEFINE X == CellOf(p, c.FID)
      <3>1. X \in Int /\ Middle(p, u) <= Middle(p, X)
        BY <1>2, <1>9
      <3> HIDE DEF X, u, p
      <3>2. X < u => Middle(p, X) < Middle(p, u) /\ Middle(p, X) \in Int /\ Middle(p, u) \in Int
        BY <1>2, <3>1, MiddleMonotonic
      <3> QED
        BY <1>2, <3>1, <3>2 DEF X
    <2> HIDE DEF p, u, N, hi
    <2> QED
      BY <1>2, <1>7, <2>1
  <1>12. \A i \in Windows : p < i => /\ i = p + 1 => N(i) <= 1
                                     /\ i # p + 1 => N(i) = 0
    <2> SUFFICES ASSUME NEW i \in Windows, p < i
                 PROVE  /\ i = p + 1 => N(i) <= 1
                        /\ i # p + 1 => N(i) = 0
      OBVIOUS
    <2> DEFINE d == h(i) - 3 * h(i - 1)
    <2>1. i - 1 \in Windows /\ h(i) \in Nat \ {0} /\ h(i - 1) \in Nat \ {0} /\ b(i) = 2 * h(i)
      <3>1. i - 1 \in Windows
        BY <1>1, <1>2
      <3> QED
        BY <1>5, <3>1
    <2>2. \A c \in Asked(cells, ts, te, i) : L[i] <= CellOf(i, c.FID)
      <3> TAKE c \in Asked(cells, ts, te, i)
      <3> DEFINE X == CellOf(i, c.FID)
      <3>1. X \in Int /\ X <= L[i] /\ m <= Middle(i, X)
        BY <1>9
      <3>2. Middle(i, L[i]) <= m + d
        <4>1. L[i] \in Int /\ L[i] <= LargestTts(C)[i] /\ LargestTts(C)[p] - 2^k < u
          BY <1>2, <1>5
        <4> HIDE DEF L, u, p, h
        <4>2. Middle(i, L[i]) <= Middle(p, u) + d
          BY <1>2, <2>2, <4>1, OlderBehind DEF h
        <4> QED
          BY <1>2, <4>2
      <3>3. Middle(i, X) = X * b(i) + h(i) /\ Middle(i, L[i]) = L[i] * b(i) + h(i)
        BY <1>5, <3>1
      <3>4. X < L[i] => X * b(i) + b(i) <= L[i] * b(i)
        <4> DEFINE x == L[i]
                   y == b(i)
        <4>1. x \in Int /\ y \in Nat
          BY <1>5
        <4> HIDE DEF x, y, X
        <4>2. X < x => (X + 1) * y <= x * y /\ (X + 1) * y = X * y + y
          BY <3>1, <4>1
        <4>3. X < x => X * y + y <= x * y
          BY <4>2
        <4> QED
          BY <4>3 DEF x, y
      <3>5. X * b(i) \in Int /\ L[i] * b(i) \in Int /\ L[i] \in Int
        BY <1>5, <3>1
      <3>6. ~(X < L[i])
        <4> DEFINE x == X * b(i)
                   y == L[i] * b(i)
                   a == h(i)
                   hp == h(i - 1)
        <4>1. /\ m <= x + a /\ y + a <= m + (a - 3 * hp)
              /\ X < L[i] => x + 2 * a <= y
          BY <2>1, <3>1, <3>2, <3>3, <3>4
        <4>2. x \in Int /\ y \in Int /\ a \in Nat \ {0} /\ hp \in Nat \ {0}
          BY <2>1, <3>5
        <4> HIDE DEF x, y, a, hp, X, L
        <4> QED
          BY <1>4, <4>1, <4>2
      <3> QED
        BY <3>1, <3>5, <3>6 DEF X
    <2>3. N(i) \in Nat /\ hi(i) <= L[i] /\ L[i] \in Int /\ hi(i) \in Int
      BY <1>5, <1>6, <1>8
    <2>4. N(i) = 0 \/ N(i) <= hi(i) - L[i] + 1
      <3> HIDE DEF N, hi, L
      <3> QED
        BY <1>7, <2>2, <2>3
    <2>5. i # p + 1 => N(i) = 0
      <3> SUFFICES ASSUME i # p + 1
                   PROVE  Asked(cells, ts, te, i) = {}
        BY FS_EmptySet
      <3> SUFFICES ASSUME NEW c \in Asked(cells, ts, te, i)
                   PROVE  FALSE
        OBVIOUS
      <3> DEFINE g == i - 1
                 X == CellOf(i, c.FID)
      <3>1. g \in Windows /\ g < i /\ p < g
        BY <1>1, <1>2, <2>1
      <3>2. (L[i] + 1) * b(i) <= L[g] * b(g) /\ L[g] * b(g) <= (L[p] - K) * b(p)
        <4> HIDE DEF g, p
        <4> QED
          BY <1>2, <3>1, EndsInOrder, StartsInOrder
      <3>3. X \in Int /\ X <= L[i] /\ m <= Middle(i, X)
        BY <1>9
      <3>4. /\ Middle(i, X) <= Middle(i, L[i]) /\ Middle(i, X) \in Int
            /\ Middle(i, L[i]) < (L[i] + 1) * b(i) /\ Middle(i, L[i]) \in Int
        <4>1. L[i] \in Int
          BY <1>5
        <4> HIDE DEF X, L
        <4> QED
          BY <3>3, <4>1, MiddleMonotonic
      <3>5. (L[p] - K) * b(p) <= u * b(p) /\ u * b(p) < m
        <4> DEFINE x == L[p] - K
                   y == b(p)
        <4>1. x \in Int /\ y \in Nat /\ x <= u /\ h(p) > 0 /\ h(p) \in Int /\ m = u * y + h(p)
          BY <1>2, <1>5
        <4> HIDE DEF x, y, u, h, p, m
        <4>2. x * y <= u * y /\ u * y \in Int
          BY <1>2, <4>1
        <4>3. u * y < m
          BY <4>1, <4>2
        <4> QED
          BY <4>2, <4>3 DEF x, y
      <3>6. /\ (L[i] + 1) * b(i) \in Int /\ L[g] * b(g) \in Int
            /\ (L[p] - K) * b(p) \in Int /\ u * b(p) \in Int
        <4>1. /\ L[i] \in Int /\ L[g] \in Int /\ L[p] \in Int /\ K \in Nat
              /\ b(i) \in Nat /\ b(g) \in Nat /\ b(p) \in Nat
          BY <1>2, <1>5, <3>1
        <4> HIDE DEF g, p, u, b, L, K
        <4>2. (L[i] + 1) * b(i) \in Int /\ L[g] * b(g) \in Int
          BY <4>1
        <4>3. (L[p] - K) * b(p) \in Int /\ u * b(p) \in Int
          BY <1>2, <4>1
        <4> QED
          BY <4>2, <4>3
      <3> HIDE DEF X, g, p, u, b, L, K, m
      <3> QED
        BY <1>4, <3>2, <3>3, <3>4, <3>5, <3>6
    <2> HIDE DEF N, hi, L, p
    <2>6. N(i) <= 1
      BY <2>3, <2>4
    <2> QED
      BY <2>5, <2>6
  <1> HIDE DEF hi, N, b, h, L, K, u, m, l, ts, te, p, f
  <1>13. \A i \in Windows : /\ U(i) \in Int /\ e(i) \in Int /\ F(i) \in Int /\ W(i) \in Nat
                            /\ W(i) = 0 \/ W(i) <= U(i) - F(i)
                            /\ U(i) <= e(i) /\ U(i) <= l + h(i)
    <2> TAKE i \in Windows
    <2> DEFINE x == L[i] - K + 1
               y == hi(i)
               z == N(i)
               c == b(i)
               q == L[i]
    <2>1. x \in Int /\ q \in Int /\ c \in Nat /\ c = 2 * h(i) /\ h(i) \in Int
      BY <1>5
    <2>2. y \in Int /\ y <= q
      BY <1>6
    <2>3. z \in Nat /\ (z = 0 \/ z <= y - x + 1)
      BY <1>8, <1>10
    <2>4. y * c + h(i) <= l
      BY <1>5, <1>6
    <2> HIDE DEF x, y, z, c, q
    <2>5. /\ x * c \in Int /\ (y + 1) * c \in Int /\ z * c \in Nat /\ (q + 1) * c \in Int
          /\ (y + 1) * c = y * c + c /\ y * c \in Int
      BY <2>1, <2>2, <2>3
    <2>6. z = 0 => z * c = 0
      BY <2>1
    <2>7. z <= y - x + 1 => z * c <= (y - x + 1) * c
      BY <2>1, <2>2, <2>3
    <2>8. (y - x + 1) * c = (y + 1) * c - x * c
      BY <2>1, <2>2
    <2>9. (y + 1) * c <= (q + 1) * c
      BY <2>1, <2>2
    <2>10. (y + 1) * c <= l + h(i)
      BY <1>4, <2>1, <2>4, <2>5
    <2>11. z * c = 0 \/ z * c <= (y + 1) * c - x * c
      BY <2>3, <2>6, <2>7, <2>8
    <2> QED
      BY <2>5, <2>9, <2>10, <2>11 DEF x, y, z, c, q
  <1>14. /\ v \in Int /\ m = v + h(p) /\ v <= L[p] * b(p)
         /\ W(p) = 0 \/ W(p) <= U(p) - v
    <2> DEFINE y == hi(p)
               z == N(p)
               c == b(p)
               q == L[p]
    <2>1. y \in Int /\ z \in Nat /\ c \in Nat /\ q \in Int /\ u <= q /\ u \in Int
      BY <1>2, <1>5, <1>6, <1>8
    <2>2. z = 0 \/ z <= y - u + 1
      BY <1>11
    <2>3. m = u * c + h(p)
      BY <1>2, <1>5
    <2> HIDE DEF y, z, c, q
    <2>4. u * c \in Int /\ u * c <= q * c
      BY <2>1
    <2>5. z = 0 => z * c = 0
      BY <2>1
    <2>6. z <= y - u + 1 => z * c <= (y - u + 1) * c
      BY <2>1
    <2>7. (y - u + 1) * c = (y + 1) * c - u * c
      BY <2>1
    <2>8. z * c = 0 \/ z * c <= (y + 1) * c - u * c
      BY <2>2, <2>5, <2>6, <2>7
    <2> QED
      BY <2>3, <2>4, <2>8 DEF y, z, c, q
  <1>15. \A i \in Windows : i # 0 =>
           /\ i - 1 \in Windows
           /\ e(i) <= F(i - 1) + b(i) - b(i - 1)
           /\ F(i) <= L[i] * b(i) /\ L[i] * b(i) <= F(i - 1) - b(i - 1)
           /\ L[i] * b(i) \in Int /\ b(i - 1) <= b(i)
    <2> SUFFICES ASSUME NEW i \in Windows, i # 0
                 PROVE  /\ i - 1 \in Windows
                        /\ e(i) <= F(i - 1) + b(i) - b(i - 1)
                        /\ F(i) <= L[i] * b(i) /\ L[i] * b(i) <= F(i - 1) - b(i - 1)
                        /\ L[i] * b(i) \in Int /\ b(i - 1) <= b(i)
      OBVIOUS
    <2>1. /\ i - 1 \in Windows /\ F(i - 1) <= e(i)
          /\ e(i) <= F(i - 1) + b(i) - b(i - 1)
      BY WindowsMeet DEF L, K, b
    <2>2. /\ F(i - 1) \in Int /\ e(i) \in Int /\ b(i) \in Nat /\ b(i - 1) \in Nat
          /\ L[i] \in Int /\ K \in Nat \ {0}
      BY <1>5, <1>13, <2>1
    <2> DEFINE x == L[i]
               c == b(i)
    <2>3. x \in Int /\ c \in Nat
      BY <2>2
    <2> HIDE DEF x, c
    <2>4. /\ (x + 1) * c = x * c + c /\ x * c \in Int
          /\ (x - K + 1) * c <= x * c
      <3>1. x - K + 1 <= x /\ x - K + 1 \in Int
        BY <2>2, <2>3
      <3> QED
        BY <2>3, <3>1
    <2>5. e(i) = x * c + c /\ F(i) <= x * c
      BY <2>4 DEF x, c
    <2> HIDE DEF e, F
    <2>6. x * c <= F(i - 1) - b(i - 1) /\ b(i - 1) <= b(i)
      <3>1. c = b(i)
        BY DEF c
      <3> QED
        BY <2>1, <2>2, <2>4, <2>5, <3>1
    <2> QED
      BY <2>1, <2>4, <2>5, <2>6 DEF x, c
  <1>16. /\ G \in [0 .. n -> Nat] /\ G[0] = W(0)
         /\ \A i \in 1 .. n : G[i] = G[i - 1] + W(i)
    <2>1. \A i \in 1 .. n : i \in Windows /\ i # 0
      BY <1>1
    <2> QED
      BY <1>1, <2>1 DEF Adds, N, b, ts, te
  <1>17. p \in 0 .. n /\ p \in Int /\ p >= 0
    BY <1>1, <1>2
  <1> HIDE DEF U, e, F, W, v, n
  <1>18. 0 \in S
    <2>1. /\ W(0) \in Nat /\ U(0) \in Int /\ F(0) \in Int /\ (W(0) = 0 \/ W(0) <= U(0) - F(0))
          /\ U(0) <= l + h(0) /\ h(0) \in Int /\ b(0) = 2 * h(0) /\ h(0) > 0
      BY <1>1, <1>5, <1>13
    <2>2. W(0) = 0 \/ W(0) <= l - F(0) + b(0)
      BY <1>4, <2>1
    <2> QED
      BY <1>1, <1>16, <2>2
  <1>19. ASSUME NEW i \in 1 .. n, i - 1 \in S, NEW z \in Int, z <= L[i] * b(i),
                W(i) = 0 \/ W(i) <= U(i) - z
         PROVE  G[i] = 0 \/ G[i] <= l - z + b(i)
    <2> DEFINE g == i - 1
               x == L[i] * b(i)
    <2>1. /\ i \in Windows /\ i # 0 /\ g \in Windows /\ g \in 0 .. n /\ i \in 0 .. n
      BY <1>1
    <2>2. G[i] \in Nat /\ G[g] \in Nat /\ G[i] = G[g] + W(i) /\ W(i) \in Nat
      <3>1. G[i] \in Nat /\ G[g] \in Nat
        BY <1>16, <2>1
      <3> QED
        BY <1>13, <1>16, <2>1, <3>1
    <2>3. G[g] = 0 \/ G[g] <= l - F(g) + b(g)
      BY <1>19
    <2>4. e(i) <= F(g) + b(i) - b(g) /\ x <= F(g) - b(g) /\ x \in Int
      BY <1>15, <2>1
    <2>5. /\ U(i) \in Int /\ e(i) \in Int /\ F(g) \in Int
          /\ U(i) <= e(i) /\ U(i) <= l + h(i)
      BY <1>13, <2>1
    <2>6. h(i) \in Nat /\ b(i) = 2 * h(i) /\ b(g) \in Nat
      BY <1>5, <2>1
    <2>7. z <= x
      BY <1>19
    <2> HIDE DEF g, x
    <2> QED
      BY <1>4, <1>19, <2>2, <2>3, <2>4, <2>5, <2>6, <2>7
  <1>20. ASSUME NEW i \in 1 .. n, i - 1 \in S
         PROVE  i \in S
    <2>1. i \in Windows /\ i # 0 /\ i \in 0 .. n
      BY <1>1
    <2>2. F(i) \in Int /\ F(i) <= L[i] * b(i) /\ (W(i) = 0 \/ W(i) <= U(i) - F(i))
      BY <1>13, <1>15, <2>1
    <2>3. G[i] = 0 \/ G[i] <= l - F(i) + b(i)
      <3> HIDE DEF S
      <3> QED
        BY <1>19, <1>20, <2>2
    <2> QED
      BY <2>1, <2>3
  <1>21. \A i \in 0 .. n : i \in S
    <2> HIDE DEF S
    <2> QED
      BY <1>1, <1>18, <1>20, InductionUpTo
  <1>22. G[p] \in Nat /\ G[p] <= (l - m) + h(p) + b(p)
    <2>1. G[p] \in Nat /\ h(p) \in Nat /\ b(p) = 2 * h(p) /\ U(p) \in Int /\ U(p) <= l + h(p)
      BY <1>2, <1>5, <1>13, <1>16, <1>17
    <2>2. G[p] = 0 \/ G[p] <= l - v + b(p)
      <3>1. CASE p = 0
        <4>1. G[p] = W(p)
          BY <1>16, <3>1
        <4> QED
          BY <1>4, <1>14, <2>1, <4>1
      <3>2. CASE p # 0
        <4>1. p \in 1 .. n /\ p - 1 \in S
          <5>1. p \in 1 .. n /\ p - 1 \in 0 .. n
            BY <1>1, <1>17, <3>2
          <5> HIDE DEF S
          <5> QED
            BY <1>21, <5>1
        <4> HIDE DEF S
        <4> QED
          BY <1>14, <1>19, <4>1
      <3> QED
        BY <3>1, <3>2
    <2> QED
      BY <1>4, <1>14, <2>1, <2>2
  <1>23. \A i \in 1 .. n : i - 1 \in R => i \in R
    <2> SUFFICES ASSUME NEW i \in 1 .. n, i - 1 \in R, p < i
                 PROVE  p + 1 \in Windows /\ G[i] <= G[p] + b(p + 1)
      BY <1>1, <1>17
    <2> DEFINE g == i - 1
    <2>1. /\ i \in Windows /\ p + 1 \in Windows /\ g \in 0 .. n /\ i \in 0 .. n
          /\ i \in Int /\ i = g + 1 /\ g \in Int
      BY <1>1, <1>17
    <2>2. /\ G[i] \in Nat /\ G[g] \in Nat /\ G[p] \in Nat /\ b(p + 1) \in Nat
          /\ b(i) \in Nat /\ N(i) \in Nat /\ G[i] = G[g] + N(i) * b(i)
      <3>1. G[i] \in Nat /\ G[g] \in Nat /\ G[p] \in Nat
        BY <1>16, <1>17, <2>1
      <3>2. b(p + 1) \in Nat /\ b(i) \in Nat /\ N(i) \in Nat
        BY <1>5, <1>8, <2>1
      <3> QED
        BY <1>16, <3>1, <3>2 DEF W
    <2>3. CASE i = p + 1
      <3>1. N(i) <= 1 /\ g = p
        BY <1>12, <1>17, <2>1, <2>3
      <3>2. N(i) * b(i) <= b(i) /\ N(i) * b(i) \in Nat
        BY <2>2, <3>1
      <3> QED
        BY <2>1, <2>2, <2>3, <3>1, <3>2
    <2>4. CASE i # p + 1
      <3>1. N(i) = 0
        BY <1>12, <2>1, <2>4
      <3>2. N(i) * b(i) = 0
        BY <2>2, <3>1
      <3>3. ~(g <= p)
        BY <1>17, <2>1, <2>4
      <3>4. G[g] <= G[p] + b(p + 1)
        BY <3>3
      <3> HIDE DEF g
      <3> QED
        BY <2>1, <2>2, <3>2, <3>4
    <2> QED
      BY <2>3, <2>4
  <1>24. \A i \in 0 .. n : i \in R
    <2>1. 0 \in R
      BY <1>1, <1>17
    <2> HIDE DEF R
    <2> QED
      BY <1>1, <1>23, <2>1, InductionUpTo
  <1>25. B \in Int /\ \A i \in Windows : 2 * b(i) <= B
    <2>1. B = 2^ALPHA * b(n) /\ n \in Windows
      <3>1. TW0_TB \in Nat /\ n \in Nat /\ T = n + 1 /\ ALPHA \in Nat
        BY <1>1, Parameters DEF n
      <3>2. TrimmedBits(n) \in Nat /\ TrimmedBits(T) = ALPHA + TrimmedBits(n)
        <4>1. ALPHA * (n + 1) = ALPHA + ALPHA * n /\ ALPHA * n \in Nat
          BY <3>1
        <4> QED
          BY <3>1, <4>1 DEF TrimmedBits
      <3>3. 2^(ALPHA + TrimmedBits(n)) = 2^ALPHA * 2^TrimmedBits(n)
        BY <3>1, <3>2 DEF PowersOfTwo
      <3> QED
        BY <1>1, <3>2, <3>3 DEF b
    <2>2. 2^ALPHA \in Nat /\ 2^ALPHA >= 2
      BY Sizes
    <2>3. \A i \in Windows : b(i) <= b(n) /\ b(i) \in Nat
      BY <1>5, LastSize DEF b, n
    <2> DEFINE A == 2^ALPHA
               x == b(n)
    <2>4. A * x >= 2 * x /\ A * x \in Int /\ x \in Nat
      <3>1. A \in Nat /\ A >= 2 /\ x \in Nat
        BY <2>1, <2>2, <2>3
      <3> HIDE DEF A, x
      <3> QED
        BY <3>1
    <2>5. B = A * x
      BY <2>1
    <2> HIDE DEF A, B
    <2> QED
      BY <2>3, <2>4, <2>5
  <1>26. G[n] < (l - m) + B
    <2>1. /\ n \in 0 .. n /\ n \in R /\ G[n] \in Nat /\ b(p) = 2 * h(p) /\ h(p) \in Nat \ {0}
          /\ 2 * b(p) <= B
      BY <1>1, <1>2, <1>5, <1>16, <1>24, <1>25
    <2>2. CASE n <= p
      <3>1. n = p
        BY <1>1, <1>17, <2>2
      <3> QED
        BY <1>4, <1>22, <1>25, <2>1, <3>1
    <2>3. CASE ~(n <= p)
      <3>1. p + 1 \in Windows /\ G[n] <= G[p] + b(p + 1)
        BY <2>1, <2>3
      <3>2. /\ 2 * b(p + 1) <= B /\ b(p + 1) \in Int /\ 2 * b(p) <= b(p + 1)
        <4>1. b(p + 1) = b(p) * 2^ALPHA
          BY <1>2, <3>1, NextSize DEF b
        <4>2. 2^ALPHA \in Nat /\ 2^ALPHA >= 2 /\ b(p) \in Nat
          BY <1>2, <1>5, Sizes
        <4> DEFINE A == 2^ALPHA
                   x == b(p)
        <4>3. A \in Nat /\ A >= 2 /\ x \in Nat
          BY <4>2
        <4> HIDE DEF A, x
        <4>4. 2 * x <= x * A
          BY <4>3
        <4> QED
          BY <1>5, <1>25, <3>1, <4>1, <4>4 DEF A, x
      <3> QED
        BY <1>4, <1>22, <1>25, <2>1, <3>1, <3>2
    <2> QED
      BY <2>2, <2>3
  <1> QED
    BY <1>4, <1>26 DEF n, te, ts, B

\* So a query that begins at any cell and ends at any later one estimates the packets of
\* its interval.
LEMMA EstimateBounds ==
  ASSUME PowersOfTwo, ALPHA <= k, NEW cells, NEW o \in Int, NEW C \in Int, NEW s \in Nat,
         IsFiniteSet(cells),
         Describes(cells, o, C), Gapless(cells, C, s), Since(cells, C, s), Single(cells),
         NEW from \in cells, NEW to \in cells, Moment(from) <= Moment(to),
         NEW G, Adds(cells, Moment(from), Moment(to), G)
  PROVE  LET span == Moment(to) - Moment(from)
         IN G[T - 1] >= span /\ G[T - 1] < span + 2^TrimmedBits(T)
  BY EstimateNoLess, EstimateLittleMore

\* Two numbers less than a cycle apart, and a whole number of periods, are one.
LEMMA SameCell ==
  ASSUME NEW m \in Nat \ {0}, NEW K \in Nat, K <= m, NEW L \in Int, NEW v \in Int,
         NEW a \in Int, NEW e \in Int,
         L - K < v + a * m, v + a * m <= L, L - K < v + e * m, v + e * m <= L
  PROVE  a = e
  <1>1. a * m \in Int /\ e * m \in Int
    OBVIOUS
  <1>2. a < e => a * m + m <= e * m
    <2>1. (a + 1) * m = a * m + m
      OBVIOUS
    <2>2. a < e => (a + 1) * m <= e * m
      OBVIOUS
    <2> QED
      BY <2>1, <2>2
  <1>3. e < a => e * m + m <= a * m
    <2>1. (e + 1) * m = e * m + m
      OBVIOUS
    <2>2. e < a => (e + 1) * m <= a * m
      OBVIOUS
    <2> QED
      BY <2>1, <2>2
  <1> DEFINE x == a * m
             y == e * m
  <1> HIDE DEF x, y
  <1>4. ~(a < e)
    <2>1. ~(x + m <= y)
      BY <1>1 DEF x, y
    <2> QED
      BY <1>2, <2>1 DEF x, y
  <1>5. ~(e < a)
    <2>1. ~(y + m <= x)
      BY <1>1 DEF x, y
    <2> QED
      BY <1>3, <2>1 DEF x, y
  <1> QED
    BY <1>4, <1>5

\* If no overflow falls in a use, it is that of its latest packet.
LEMMA PeriodOfUse ==
  ASSUME PowersOfTwo, NEW s \in Nat, NEW t \in Nat, s \div 2^TsBits = t \div 2^TsBits,
         NEW x \in Nat, x < Period(0), NEW n \in Nat,
         CellOf(0, s) <= x + n * Period(0), x + n * Period(0) <= CellOf(0, t)
  PROVE  s \div 2^TsBits = n
  <1> DEFINE P == 2^TsBits
             b == 2^TrimmedBits(0)
             p == Period(0)
             C == x + n * p
             y == CellOf(0, s)
             z == CellOf(0, t)
  <1>1. b \in Nat \ {0} /\ p \in Nat \ {0} /\ P = b * p /\ 0 \in Windows
    BY Parameters, WindowSizes DEF Period
  <1>2. s \div (b * p) = y \div p /\ t \div (b * p) = z \div p /\ y \in Int /\ z \in Int
    <2>1. \A a \in Int : (a \div b) \div p = a \div (b * p) /\ a \div b \in Int
      <3> HIDE DEF b, p
      <3> TAKE a \in Int
      <3>1. (a \div b) \div p = a \div (b * p)
        BY <1>1, DivDiv
      <3>2. a \div b \in Int
        BY <1>1, DivMod
      <3> QED
        BY <3>1, <3>2
    <2> QED
      BY <2>1 DEF CellOf
  <1>3. C \in Int /\ C \div p = n
    <2> HIDE DEF p
    <2>1. n * p \in Int /\ (n + 1) * p = n * p + p
      BY <1>1
    <2>2. n * p <= C /\ C < (n + 1) * p /\ C \in Int
      BY <1>1, <2>1 DEF p
    <2> HIDE DEF C
    <2>3. n \in Int
      OBVIOUS
    <2>4. C \div p = n
      BY <1>1, <2>2, <2>3, DivIs
    <2> QED
      BY <2>2, <2>4
  <1>4. y \div p <= C \div p /\ C \div p <= z \div p
    <2>1. y <= C /\ C <= z
      OBVIOUS
    <2> HIDE DEF y, z, C, p
    <2> QED
      BY <1>1, <1>2, <1>3, <2>1, DivMonotonic
  <1>5. s \div P = y \div p /\ t \div P = z \div p
    <2> HIDE DEF b, p, y, z, P
    <2> QED
      BY <1>1, <1>2
  <1>6. s \div P = t \div P /\ s \div P \in Int
    <2>1. P \in Nat \ {0}
      BY Sizes
    <2> HIDE DEF P
    <2>2. s \div P \in Int
      BY <2>1
    <2> QED
      BY <2>2 DEF P
  <1> HIDE DEF P, b, p, C, y, z
  <1>7. s \div P = n
    BY <1>3, <1>4, <1>5, <1>6
  <1> QED
    BY <1>7 DEF P

LEMMA PollGapless ==
  ASSUME PowersOfTwo, OverflowInv, Current, Filled, Poll, Complete',
         used_since' \div 2^TsBits = start' \div 2^TsBits,
         \A s \in silences' : s \notin used_since' .. start'
  PROVE  Gapless(TW_result', LatestCell', used_since')
  <1> DEFINE C == LatestCell'
             L == LargestTts(C)
             x == pre_largest_tts'
             n == wrapping' + origin'
             l == LargestTts(x)
             P == 2^TsBits
             K == 2^k
  <1>1. used_since' = start /\ start' = now /\ start \in Nat /\ now \in Nat
    BY DEF Poll, Retire, OverflowInv, Uses, WindowInv, WindowTypes
  <1>2. /\ C \in Nat /\ CellOf(0, start) <= C /\ C <= CellOf(0, now)
        /\ wrapping' \in Nat /\ origin' \in Nat /\ n \in Nat
        /\ TW_result' # {} /\ Describes(TW_result', origin', C)
    <2>1. /\ C \in Nat /\ CellOf(0, start) <= C /\ C <= CellOf(0, now)
          /\ wrapping' \in Nat /\ origin' \in Nat
          /\ TW_result' # {} /\ Describes(TW_result', origin', C)
      <3> HIDE DEF C
      <3> QED
        BY PollDescribes DEF C
    <2>2. n \in Nat
      BY PollCounts
    <2> HIDE DEF C, n
    <2> QED
      BY <2>1, <2>2
  <1>3. x \in Nat /\ x < Period(0) /\ C = x + n * Period(0)
    <2>1. OverflowsKnown'
      BY PollCounts
    <2>2. x \in 0 .. 2^tts_bit - 1 /\ 2^tts_bit = Period(0) /\ Period(0) \in Nat
      <3>1. 0 \in Windows
        BY Parameters
      <3>2. x \in 0 .. 2^tts_bit - 1
        BY <2>1 DEF OverflowsKnown, tts_bit
      <3> QED
        BY <3>1, <3>2, Periods
    <2>3. C = x + n * 2^tts_bit
      BY DEF LatestCell, tts_bit
    <2> QED
      BY <2>2, <2>3
  <1>4. start \div P = n
    <2>1. start \div 2^TsBits = now \div 2^TsBits
      BY <1>1
    <2> HIDE DEF x, n, C
    <2> QED
      BY <1>1, <1>2, <1>3, <2>1, PeriodOfUse
  <1>5. \A i \in Windows : \A v \in l[i] - K + 1 .. l[i] :
          v * 2^TrimmedBits(i) >= start % P => \E c \in TW_result' : c.twid = i /\ c.tts = v
    <2> DEFINE Having(i) == {c.tts : c \in {d \in TW_result' : d.twid = i}}
               Wanted(i) == {v \in l[i] - K + 1 .. l[i] :
                               v * 2^TrimmedBits(i) >= start % P}
    <2>1. \A i \in Windows : Wanted(i) \subseteq Having(i)
      BY <1>1, <1>2 DEF Complete, LargestTts, TrimmedBits
    <2> SUFFICES ASSUME NEW i \in Windows, NEW v \in l[i] - K + 1 .. l[i],
                        v * 2^TrimmedBits(i) >= start % P
                 PROVE  \E c \in TW_result' : c.twid = i /\ c.tts = v
      OBVIOUS
    <2>2. v \in Wanted(i)
      OBVIOUS
    <2>3. v \in Having(i)
      <3> HIDE DEF Wanted, Having
      <3> QED
        BY <2>1, <2>2
    <2> QED
      BY <2>3
  <1> HIDE DEF x, n, C
  <1>6. \A i \in Windows : L[i] = l[i] + n * Period(i) /\ l[i] \in Int /\ L[i] \in Int
    <2>1. x \in Int /\ C \in Int /\ Period(0) = 2^tts_bit
      BY <1>2, <1>3, Periods
    <2>2. l \in [Windows -> Int] /\ L \in [Windows -> Int]
      BY <2>1, LargestTtsIs
    <2>3. \A i \in Windows :
            LargestTts(x + n * 2^tts_bit)[i] = l[i] + n * Period(i)
      BY <1>2, <2>1, LargestTtsShift
    <2>4. C = x + n * 2^tts_bit
      BY <1>3, <2>1
    <2> QED
      BY <2>2, <2>3, <2>4
  <1> HIDE DEF l, L
  <1>7. ASSUME NEW i \in Windows, NEW X \in L[i] - K + 1 .. L[i],
               X * 2^TrimmedBits(i) >= start
        PROVE  \E c \in TW_result' : c.twid = i /\ CellOf(i, c.FID) = X
    <2> DEFINE b == 2^TrimmedBits(i)
               p == Period(i)
               v == X - n * p
    <2>1. /\ b \in Nat \ {0} /\ p \in Nat \ {0} /\ P = b * p /\ K < p /\ K \in Nat
      BY WindowSizes, Sizes DEF Period
    <2> HIDE DEF b, p, K, P
    <2>2. /\ n * p \in Int /\ X \in Int /\ v \in Int /\ v \in l[i] - K + 1 .. l[i]
          /\ L[i] = l[i] + n * p /\ L[i] \in Int /\ l[i] \in Int
      <3>1. n * p \in Int /\ L[i] = l[i] + n * p /\ L[i] \in Int /\ l[i] \in Int
        BY <1>2, <1>6, <2>1 DEF p
      <3>2. X \in Int
        BY <2>1, <3>1
      <3> DEFINE y == n * p
      <3> HIDE DEF y
      <3>3. v = X - y /\ y \in Int /\ L[i] = l[i] + y
        BY <3>1 DEF y
      <3> HIDE DEF v
      <3>4. v \in Int /\ v \in l[i] - K + 1 .. l[i]
        BY <2>1, <3>1, <3>2, <3>3
      <3> QED
        BY <3>1, <3>2, <3>4
    <2>3. v * b >= start % P
      <3>1. v * b = X * b - n * P
        <4>1. (X - n * p) * b = X * b - n * (b * p)
          BY <1>2, <2>1, <2>2
        <4> QED
          BY <2>1, <4>1
      <3>2. start % P = start - n * P
        <4>1. P \in Nat \ {0} /\ start \in Int
          BY <1>1, Sizes DEF P
        <4>2. start % P = start - (start \div P) * P
          BY <4>1, DivMod
        <4> QED
          BY <1>4, <4>2 DEF P
      <3>3. X * b >= start
        BY <1>7 DEF b
      <3>4. X * b \in Int /\ n * P \in Int
        <4>1. P \in Int
          BY Sizes DEF P
        <4> QED
          BY <1>2, <2>1, <2>2, <4>1
      <3> HIDE DEF v
      <3> QED
        BY <1>1, <3>1, <3>2, <3>3, <3>4
    <2>4. PICK c \in TW_result' : c.twid = i /\ c.tts = v
      <3> HIDE DEF v
      <3> QED
        BY <1>5, <2>2, <2>3 DEF b, P, K
    <2> DEFINE e == c.wrap + origin'
               Y == CellOf(i, c.FID)
    <2>5. /\ e \in Int /\ Y = v + e * p /\ L[i] - K < Y /\ Y <= L[i]
      <3>1. /\ c.wrap \in Int /\ Y = c.tts + e * p
            /\ L[i] - K < Y /\ Y <= L[i]
        BY <1>2, <2>4 DEF Describes, L, K, p
      <3> QED
        BY <1>2, <2>4, <3>1
    <2>6. X = v + n * p
      BY <2>2
    <2> HIDE DEF e, Y, v
    <2>7. e = n
      <3>1. L[i] - K < v + n * p /\ v + n * p <= L[i]
        BY <2>1, <2>2, <2>6
      <3>2. n \in Int /\ K <= p
        BY <1>2, <2>1
      <3> QED
        BY <2>1, <2>2, <2>5, <3>1, <3>2, SameCell
    <2> QED
      BY <2>4, <2>5, <2>6, <2>7 DEF Y
  <1> QED
    BY <1>1, <1>7 DEF Gapless, L, K, C

\* What is retained is a record, as its cell holds it.
LEMMA PollHolds ==
  ASSUME PowersOfTwo, OverflowInv, Current, Filled, Poll
  PROVE  \A c \in TW_result' : \E j \in Indices :
           LET d == tw_r[second_highest][c.twid][j]
           IN d # Empty /\ c.FID = d.FID /\ c.tts = d.tts
  <1> DEFINE R == tw_r[second_highest]
             r == LargestCell(R[0])
             l == LargestTts(r.tts)
             C == LatestCell'
             idx(i) == IF i = 0 THEN r.idx ELSE l[i] % 2^k
             S(i) == Retained(R[i], i, l[i], idx(i), wrapping')
  <1>1. /\ C \in Nat /\ r.tts \in Nat /\ wrapping' \in Nat
        /\ \A i \in Windows : idx(i) = LargestTts(C)[i] % 2^k
    BY PollDescribes
  <1>2. TW_result' = UNION {S(i) : i \in Windows}
    BY PollCounts
  <1>3. R \in [Windows -> [Indices -> Cells]]
    BY DEF OverflowInv, WindowInv, WindowTypes
  <1> HIDE DEF R, r, C
  <1>4. \A i \in Windows : l[i] \in Int /\ idx(i) \in Indices
    <2>1. l \in [Windows -> Int] /\ LargestTts(C) \in [Windows -> Int]
      BY <1>1, LargestTtsIs
    <2>2. \A x \in Int : x % 2^k \in Indices
      BY Sizes DEF Indices
    <2> HIDE DEF l, idx
    <2> QED
      BY <1>1, <2>1, <2>2
  <1> HIDE DEF l, idx
  <1>5. ASSUME NEW i \in Windows, NEW c \in S(i)
        PROVE  /\ c.twid = i
               /\ \E j \in Indices :
                    R[i][j] # Empty /\ c.FID = R[i][j].FID /\ c.tts = R[i][j].tts
    <2>1. R[i] \in [Indices -> Cells] /\ wrapping' \in Int
      BY <1>1, <1>3
    <2> QED
      BY <1>4, <1>5, <2>1, RetainedForm
  <1> HIDE DEF S
  <1>6. ASSUME NEW c \in TW_result'
        PROVE  \E j \in Indices :
                 /\ R[c.twid][j] # Empty
                 /\ c.FID = R[c.twid][j].FID /\ c.tts = R[c.twid][j].tts
    <2>1. PICK i \in Windows : c \in S(i)
      BY <1>2
    <2> QED
      BY <1>5, <2>1
  <1> QED
    BY <1>6 DEF R

LEMMA PollSingle ==
  ASSUME PowersOfTwo, OverflowInv, Current, Filled, Poll
  PROVE  Single(TW_result')
  <1> DEFINE R == tw_r[second_highest]
             C == LatestCell'
             o == origin'
  <1>1. o \in Nat /\ TW_result' \subseteq Kept /\ Describes(TW_result', o, C)
    BY PollDescribes
  <1>2. \A c \in TW_result' : \E j \in Indices :
          R[c.twid][j] # Empty /\ c.FID = R[c.twid][j].FID /\ c.tts = R[c.twid][j].tts
    BY PollHolds
  <1>3. \A i \in Windows, j \in Indices : R[i][j] # Empty =>
          /\ R[i][j].tts = CellOf(i, R[i][j].FID) % Period(i) /\ R[i][j].tts % 2^k = j
    <2> SUFFICES ASSUME NEW i \in Windows, NEW j \in Indices, R[i][j] # Empty
                 PROVE  /\ R[i][j].tts = CellOf(i, R[i][j].FID) % Period(i)
                        /\ R[i][j].tts % 2^k = j
      OBVIOUS
    <2>1. second_highest \in Quarters
      BY DEF OverflowInv, WindowInv, WindowTypes
    <2>2. /\ R[i][j].FID \in Nat /\ R[i][j].tts = Stamped(i, R[i][j].FID)
          /\ R[i][j].tts % 2^k = j
      BY <2>1 DEF OverflowInv, WindowInv, RecordsGenuine, Genuine
    <2>3. Stamped(i, R[i][j].FID) = CellOf(i, R[i][j].FID) % Period(i)
      BY <2>2, StampOfCell DEF Period
    <2> QED
      BY <2>2, <2>3
  <1> HIDE DEF R, C, o
  <1>4. ASSUME NEW c \in TW_result', NEW d \in TW_result', c.twid = d.twid,
               CellOf(c.twid, c.FID) = CellOf(d.twid, d.FID)
        PROVE  c = d
    <2> DEFINE i == c.twid
               p == Period(i)
               X == CellOf(i, c.FID)
    <2>1. /\ i \in Windows /\ c \in Kept /\ d \in Kept
          /\ c.tts \in Nat /\ c.wrap \in Int /\ d.wrap \in Int
          /\ X = c.tts + (c.wrap + o) * p /\ X = d.tts + (d.wrap + o) * p
      BY <1>1, <1>4 DEF Describes
    <2>2. PICK j \in Indices :
            R[i][j] # Empty /\ c.FID = R[i][j].FID /\ c.tts = R[i][j].tts
      BY <1>2
    <2>3. PICK l \in Indices :
            R[i][l] # Empty /\ d.FID = R[i][l].FID /\ d.tts = R[i][l].tts
      BY <1>2, <1>4
    <2>4. c.tts = X % p /\ c.tts % 2^k = j /\ d.tts = X % p /\ d.tts % 2^k = l
      <3>1. CellOf(i, R[i][j].FID) = X /\ CellOf(i, R[i][l].FID) = X
        BY <1>4, <2>2, <2>3
      <3>2. /\ R[i][j].tts = CellOf(i, R[i][j].FID) % p /\ R[i][j].tts % 2^k = j
            /\ R[i][l].tts = CellOf(i, R[i][l].FID) % p /\ R[i][l].tts % 2^k = l
        <4> HIDE DEF i
        <4> QED
          BY <1>3, <2>1, <2>2, <2>3
      <3> HIDE DEF i, X, p
      <3> QED
        BY <2>2, <2>3, <3>1, <3>2
    <2>5. c.FID = d.FID /\ c.tts = d.tts
      BY <2>2, <2>3, <2>4
    <2>6. c.wrap = d.wrap
      <3> DEFINE e == c.wrap + o
                 f == d.wrap + o
      <3>1. e \in Int /\ f \in Int /\ p \in Nat \ {0}
        BY <1>1, <2>1, Periods
      <3>2. e * p = f * p
        <4>1. e * p \in Int /\ f * p \in Int
          <5> HIDE DEF e, f, p
          <5> QED
            BY <3>1
        <4>2. c.tts \in Int /\ c.tts + e * p = c.tts + f * p
          BY <2>1, <2>5
        <4> DEFINE x == e * p
                   y == f * p
                   t == c.tts
        <4> HIDE DEF x, y, t
        <4>3. x \in Int /\ y \in Int /\ t \in Int /\ t + x = t + y
          BY <4>1, <4>2 DEF x, y, t
        <4>4. x = y
          BY <4>3
        <4> QED
          BY <4>4 DEF x, y
      <3>3. e = f
        <4> HIDE DEF e, f, p
        <4> QED
          BY <3>1, <3>2
      <3> HIDE DEF p
      <3> QED
        BY <1>1, <2>1, <3>3
    <2> QED
      BY <1>4, <2>1, <2>5, <2>6 DEF Kept
  <1> QED
    BY <1>4 DEF Single

LEMMA PollSince ==
  ASSUME PowersOfTwo, OverflowInv, Current, Filled, Poll, Fresh'
  PROVE  Since(TW_result', LatestCell', used_since')
  <1> DEFINE R == tw_r[second_highest]
             f == R[0][LargestCell(R[0]).idx].FID
             C == LatestCell'
  <1>1. C = CellOf(0, f)
    BY PollDescribes
  <1>2. \A c \in TW_result' : \A h \in Windows : h < c.twid =>
          CellOf(h, c.FID) <= LargestTts(CellOf(0, f))[h] - 2^k
    BY PollRetains
  <1>3. \A c \in TW_result' : c.FID >= used_since'
    BY DEF Fresh
  <1> HIDE DEF f, C
  <1> QED
    BY <1>1, <1>2, <1>3 DEF Since, C

\* What a query of the set just polled estimates.
LEMMA PollEstimates ==
  ASSUME PowersOfTwo, PowersOfOne, ALPHA <= k, TW0_z = <<1, 1>>,
         OverflowInv, Current, Filled, Poll, Fresh', Complete'
  PROVE  EstimateTrue'
  <1> SUFFICES ASSUME NEW from \in TW_result', NEW to \in TW_result',
                      \A s \in silences' : s \notin used_since' .. start',
                      used_since' \div 2^TsBits = start' \div 2^TsBits,
                      Moment(from) <= Moment(to)
               PROVE  LET packets == retrieve2(Moment(from), Moment(to), TW_result')
                                       * 2^TW0_TB
                          span    == Moment(to) - Moment(from)
                      IN /\ packets >= span
                         /\ packets < span + 2^TrimmedBits(T)
    BY Zenon DEF EstimateTrue
  <1> DEFINE cells == TW_result'
             C == LatestCell'
             s == used_since'
             o == origin'
  <1>1. C \in Int /\ o \in Int /\ IsFiniteSet(cells) /\ Describes(cells, o, C)
    <2>1. C \in Nat /\ o \in Nat /\ IsFiniteSet(cells) /\ Describes(cells, o, C)
      BY PollDescribes
    <2> HIDE DEF C, o, cells
    <2> QED
      BY <2>1
  <1>2. s \in Nat
    BY DEF Poll, OverflowInv, Uses
  <1>3. Gapless(cells, C, s) /\ Since(cells, C, s) /\ Single(cells)
    BY PollGapless, PollSince, PollSingle
  <1>4. from \in cells /\ to \in cells
    OBVIOUS
  <1> HIDE DEF C, o, s, cells
  <1>5. PICK G : /\ Adds(cells, Moment(from), Moment(to), G)
                 /\ retrieve2(Moment(from), Moment(to), cells) * 2^TW0_TB = G[T - 1]
    BY <1>1, RetrieveAdds
  <1>6. LET span == Moment(to) - Moment(from)
        IN G[T - 1] >= span /\ G[T - 1] < span + 2^TrimmedBits(T)
    BY <1>1, <1>2, <1>3, <1>4, <1>5, EstimateBounds
  <1> QED
    BY <1>5, <1>6 DEF cells

\* Of a first window with a record in every cell (z = 1), a query of a fresh set in which
\* no overflow falls estimates all the packets of its interval, and too many by less than
\* a cell of the next window there is none of, whichever windows the interval begins and
\* ends in and however much longer (ALPHA) the cells of each are: what retrieve2 divides
\* by makes up for what the windows pass over.
THEOREM EstimatesEnough ==
  ASSUME PowersOfTwo, PowersOfOne, ALPHA <= k, TW0_z = <<1, 1>>
  PROVE  QueriesSpec /\ []Current /\ []Busy /\ []NotAtZero => []EstimateTrue
  <1>1. QueriesInit => EstimateTrue
    BY DEF QueriesInit, ControllerInit, EstimateTrue, JustPolled
  <1>2. ASSUME OverflowInv, Current, Busy, Complete', EstimateTrue, [QueriesNext]_queryVars
        PROVE  EstimateTrue'
    <2>1. CASE ~(JustPolled' /\ Fresh')
      BY <2>1, Zenon DEF EstimateTrue
    <2>2. CASE JustPolled' /\ Fresh' /\ Poll /\ Filled
      BY <1>2, <2>2, PollEstimates
    <2>3. CASE UNCHANGED queryVars
      BY <1>2, <2>3 DEF EstimateTrue, queryVars, JustPolled, Fresh, vars, windowVars
    <2> QED
      BY <1>2, <2>1, <2>2, <2>3, SetJustPolled
  <1> QED
    BY <1>1, <1>2, QueriesFollowPolls, NowOverflows, NothingMissing, PTL DEF QueriesSpec

=============================================================================
