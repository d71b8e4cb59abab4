------------------------- MODULE TimeWindowsProofs -------------------------
(***************************************************************************)
(* What is proved of the time windows, for every number and size of the    *)
(* windows, every width of a time stamp and any polls and silences.        *)
(***************************************************************************)
EXTENDS TimeWindowController, Recursion

\* Arithmetic that the provers do not have: they know exponentiation by name
\* only.
PowersOfTwo ==
  \A m, n \in Nat : 2^m \in Nat \ {0} /\ 2^(m + n) = 2^m * 2^n

----------------------------------------------------------------------------
(* Sizes.                                                                  *)

LEMMA Powers ==
  ASSUME PowersOfTwo
  PROVE  /\ \A n \in Nat : 2^n \in Nat \ {0}
         /\ \A n \in Nat \ {0} : 2^n >= 2
  <1>1. \A n \in Nat : 2^n \in Nat \ {0}
    BY DEF PowersOfTwo
  <1>2. ASSUME NEW n \in Nat \ {0}
        PROVE  2^n >= 2
    <2>1. n - 1 \in Nat /\ n = 1 + (n - 1) /\ 2^1 = 2
      OBVIOUS
    <2>2. 2^n = 2^1 * 2^(n - 1)
      BY <2>1 DEF PowersOfTwo
    <2>3. 2^(n - 1) \in Nat \ {0}
      BY <1>1, <2>1
    <2> QED
      BY <2>1, <2>2, <2>3
  <1> QED
    BY <1>1, <1>2

LEMMA Parameters ==
  /\ k \in Nat \ {0} /\ T \in Nat \ {0} /\ ALPHA \in Nat \ {0}
  /\ TW0_TB \in Nat \ {0} /\ TsBits \in Nat \ {0}
  /\ TsBits > TW0_TB + k + ALPHA * (T - 1)
  /\ ALPHA * (T - 1) \in Nat
  /\ 0 \in Windows
  BY WindowsAssumption DEF Windows

LEMMA Sizes ==
  ASSUME PowersOfTwo
  PROVE  /\ 2^k \in Nat \ {0} /\ 2^k >= 2
         /\ 2^ALPHA \in Nat \ {0} /\ 2^ALPHA >= 2
         /\ 2^TsBits \in Nat \ {0}
         /\ 2^TW0_TB \in Nat \ {0}
         /\ 0 \in Indices
  <1>1. 2^k \in Nat \ {0} /\ 2^k >= 2
    BY Powers, Parameters
  <1> QED
    BY <1>1, Powers, Parameters DEF Indices

\* The moments of a cell of window i, and how many of its cells a stamp tells
\* apart: more than a cycle of them.
LEMMA WindowSizes ==
  ASSUME PowersOfTwo, NEW i \in Windows
  PROVE  /\ TrimmedBits(i) \in Nat
         /\ 2^TrimmedBits(i) \in Nat \ {0} /\ 2^TrimmedBits(i) >= 2
         /\ 2^(TsBits - TrimmedBits(i)) \in Nat \ {0}
         /\ 2^TsBits = 2^TrimmedBits(i) * 2^(TsBits - TrimmedBits(i))
         /\ 2^k < 2^(TsBits - TrimmedBits(i))
  <1> DEFINE rest == TsBits - TrimmedBits(i)
  <1>1. i \in Nat /\ i <= T - 1
    BY Parameters DEF Windows
  <1>2. ALPHA * i \in Nat /\ ALPHA * i <= ALPHA * (T - 1)
    BY <1>1, Parameters
  <1>3. TrimmedBits(i) \in Nat \ {0} /\ rest \in Nat /\ rest - k \in Nat \ {0}
    BY <1>2, Parameters DEF TrimmedBits
  <1>4. TsBits = TrimmedBits(i) + rest /\ rest = k + (rest - k)
    BY <1>3, Parameters
  <1> HIDE DEF rest
  <1>5. /\ 2^TrimmedBits(i) \in Nat \ {0} /\ 2^TrimmedBits(i) >= 2
        /\ 2^rest \in Nat \ {0}
        /\ 2^(rest - k) \in Nat \ {0} /\ 2^(rest - k) >= 2
    BY <1>3, Powers
  <1>6. 2^TsBits = 2^TrimmedBits(i) * 2^rest
    BY <1>3, <1>4 DEF PowersOfTwo
  <1>7. 2^rest = 2^k * 2^(rest - k)
    BY <1>3, <1>4, Parameters DEF PowersOfTwo
  <1>8. 2^k < 2^rest
    BY <1>5, <1>7, Sizes
  <1> QED
    BY <1>3, <1>5, <1>6, <1>8 DEF rest

\* A cell of a window lasts 2^ALPHA cells of the one before.
LEMMA NextSize ==
  ASSUME PowersOfTwo, NEW i \in Windows, i + 1 \in Windows
  PROVE  2^TrimmedBits(i + 1) = 2^TrimmedBits(i) * 2^ALPHA
  <1>1. TrimmedBits(i + 1) = TrimmedBits(i) + ALPHA
    BY Parameters DEF TrimmedBits, Windows
  <1> QED
    BY <1>1, WindowSizes, Parameters DEF PowersOfTwo

\* ... and cells that the larger trimmed once more.
LEMMA NextCell ==
  ASSUME PowersOfTwo, NEW i \in Windows, i + 1 \in Windows, NEW FID \in Int
  PROVE  CellOf(i + 1, FID) = CellOf(i, FID) \div 2^ALPHA
  <1>1. 2^TrimmedBits(i) \in Nat \ {0} /\ 2^ALPHA \in Nat \ {0}
    BY WindowSizes, Sizes
  <1> QED
    BY <1>1, NextSize, DivDiv DEF CellOf

LEMMA CellMonotonic ==
  ASSUME PowersOfTwo, NEW i \in Windows, NEW a \in Nat, NEW b \in Nat, a <= b
  PROVE  CellOf(i, a) <= CellOf(i, b)
  <1>1. 2^TrimmedBits(i) \in Nat \ {0}
    BY WindowSizes
  <1> QED
    BY <1>1, DivMonotonic DEF CellOf

\* The time stamp in a record of a packet in window i.
Stamped(i, FID) == (FID % 2^TsBits) \div 2^TrimmedBits(i)

LEMMA StampOfCell ==
  ASSUME PowersOfTwo, NEW i \in Windows, NEW FID \in Nat
  PROVE  /\ Stamped(i, FID) = CellOf(i, FID) % 2^(TsBits - TrimmedBits(i))
         /\ Stamped(i, FID) \in Nat /\ CellOf(i, FID) \in Nat
  <1> DEFINE b == 2^TrimmedBits(i)
             c == 2^(TsBits - TrimmedBits(i))
  <1>1. b \in Nat \ {0} /\ c \in Nat \ {0} /\ 2^TsBits = b * c
    BY WindowSizes
  <1> HIDE DEF b, c
  <1>2. (FID % (b * c)) \div b = (FID \div b) % c
    BY <1>1, DivOfMod
  <1>3. FID \div b \in Nat
    BY <1>1
  <1>4. (FID \div b) % c \in Nat
    BY <1>1, <1>3
  <1> QED
    BY <1>1, <1>2, <1>3, <1>4 DEF Stamped, CellOf, b, c

----------------------------------------------------------------------------
(* The records that enter the windows.                                     *)

Cells == [tts : Nat, FID : Int]

\* What e makes the next window record, when it comes to this one.
Moved(window, e) ==
  LET old == window[e.tts % 2^k]
  IN IF e # Empty /\ Passes(e, old) THEN NextRecord(old) ELSE Empty

LEMMA MovedType ==
  ASSUME PowersOfTwo, NEW window \in [Indices -> Cells], NEW e \in Cells
  PROVE  /\ e.tts % 2^k \in Indices
         /\ Moved(window, e) \in Cells
  <1>1. e.tts \in Nat /\ 2^k \in Nat \ {0} /\ 2^ALPHA \in Nat \ {0}
    BY Sizes DEF Cells
  <1>2. e.tts % 2^k \in Indices
    BY <1>1 DEF Indices
  <1>3. Empty \in Cells
    BY DEF Empty, Cells, NoFID
  <1>4. \A old \in Cells : NextRecord(old) \in Cells
    <2> TAKE old \in Cells
    <2>1. old.tts \in Nat /\ old.FID \in Int
      BY DEF Cells
    <2>2. old.tts \div 2^ALPHA \in Nat
      BY <1>1, <2>1
    <2> QED
      BY <2>1, <2>2 DEF NextRecord, Cells
  <1>5. window[e.tts % 2^k] \in Cells
    BY <1>2
  <1> QED
    BY <1>2, <1>3, <1>4, <1>5 DEF Moved

\* The recursion of Entering, unrolled once.
LEMMA EnteringIs ==
  ASSUME PowersOfTwo,
         NEW windows \in [Windows -> [Indices -> Cells]], NEW new \in Cells
  PROVE  /\ Entering(windows, new) \in [Windows -> Cells]
         /\ Entering(windows, new)[0] = new
         /\ \A i \in Windows : i # 0 =>
              /\ i - 1 \in Windows
              /\ Entering(windows, new)[i]
                   = Moved(windows[i - 1], Entering(windows, new)[i - 1])
  <1> DEFINE N == T - 1
             step == [p \in Nat \X Cells |->
                        IF p[1] \in 1 .. N THEN Moved(windows[p[1] - 1], p[2])
                        ELSE p[2]]
             Is(f) == f = [i \in Windows |->
                             IF i = 0 THEN new
                             ELSE LET e   == f[i - 1]
                                      old == windows[i - 1][e.tts % 2^k]
                                  IN IF e # Empty /\ Passes(e, old)
                                       THEN NextRecord(old) ELSE Empty]
  <1>1. N \in Nat /\ Windows = 0 .. N /\ 0 \in Windows
    BY Parameters DEF Windows
  <1>2. step \in [Nat \X Cells -> Cells]
    <2>1. ASSUME NEW n \in Nat, NEW e \in Cells, n \in 1 .. N
          PROVE  Moved(windows[n - 1], e) \in Cells
      <3>1. n - 1 \in Windows
        BY <1>1, <2>1
      <3>2. windows[n - 1] \in [Indices -> Cells]
        BY <3>1
      <3> QED
        BY <3>2, MovedType
    <2> HIDE DEF N
    <2> QED
      BY <2>1
  <1>3. PICK f \in [0 .. N -> Cells] : RecursionUpTo(N, f, new, step)
    <2>1. N \in Nat
      BY <1>1
    <2> HIDE DEF step, N, Is
    <2> QED
      BY <1>2, <2>1, Recursion, Zenon
  <1>4. f \in [Windows -> Cells]
    BY <1>1
  <1>5. \A g : Is(g) <=> g = [i \in Windows |->
                               IF i = 0 THEN new ELSE Moved(windows[i - 1], g[i - 1])]
    BY DEF Moved
  <1>6. \A n \in 1 .. N : step[<<n, f[n - 1]>>] = Moved(windows[n - 1], f[n - 1])
    <2> SUFFICES ASSUME NEW n \in 1 .. N
                 PROVE  step[<<n, f[n - 1]>>] = Moved(windows[n - 1], f[n - 1])
      OBVIOUS
    <2>1. n \in Nat /\ n - 1 \in 0 .. N
      BY <1>1
    <2>2. <<n, f[n - 1]>> \in Nat \X Cells
      BY <2>1
    <2> HIDE DEF N
    <2> QED
      BY <2>1, <2>2
  <1>7. Is(f)
    <2>1. f = [i \in Windows |->
                 IF i = 0 THEN new ELSE Moved(windows[i - 1], f[i - 1])]
      <3>1. ASSUME NEW i \in Windows
            PROVE  f[i] = IF i = 0 THEN new ELSE Moved(windows[i - 1], f[i - 1])
        <4> HIDE DEF step, Is
        <4>1. CASE i = 0
          BY <1>3, <4>1 DEF RecursionUpTo
        <4>2. CASE i # 0
          <5>1. i \in 1 .. N
            BY <1>1, <4>2
          <5>2. f[i] = step[<<i, f[i - 1]>>]
            BY <1>3, <5>1 DEF RecursionUpTo
          <5> QED
            BY <1>6, <4>2, <5>1, <5>2
        <4> QED
          BY <4>1, <4>2
      <3> HIDE DEF step, Is
      <3> QED
        BY <1>4, <3>1
    <2> HIDE DEF Is
    <2> QED
      BY <1>5, <2>1
  <1>8. Is(Entering(windows, new))
    <2>1. Entering(windows, new) = CHOOSE g : Is(g)
      BY DEF Entering
    <2> HIDE DEF Is
    <2> QED
      BY <1>7, <2>1
  <1> DEFINE E == Entering(windows, new)
  <1>9. E = [i \in Windows |-> IF i = 0 THEN new ELSE Moved(windows[i - 1], E[i - 1])]
    <2> HIDE DEF Is, E
    <2> QED
      BY <1>5, <1>8 DEF E
  <1>10. E[0] = new /\ \A i \in Windows : i # 0 => E[i] = Moved(windows[i - 1], E[i - 1])
    <2> HIDE DEF E
    <2> QED
      BY <1>1, <1>9
  <1>11. \A i \in Windows : i # 0 => i - 1 \in Windows
    BY <1>1
  <1>12. E \in [Windows -> Cells]
    <2> DEFINE S == {i \in 0 .. N : E[i] \in Cells}
    <2> HIDE DEF E
    <2>1. 0 \in S
      BY <1>1, <1>10
    <2>2. ASSUME NEW n \in 1 .. N, n - 1 \in S
          PROVE  n \in S
      <3>1. n \in Windows /\ n # 0 /\ n - 1 \in Windows
        BY <1>1
      <3>2. windows[n - 1] \in [Indices -> Cells] /\ E[n - 1] \in Cells
        BY <2>2, <3>1
      <3>3. Moved(windows[n - 1], E[n - 1]) \in Cells
        BY <3>2, MovedType
      <3> QED
        BY <1>1, <1>10, <3>1, <3>3
    <2>3. \A n \in 0 .. N : n \in S
      <3> HIDE DEF S, N
      <3> QED
        BY <1>1, <2>1, <2>2, InductionUpTo
    <2> QED
      BY <1>1, <1>9, <2>3
  <1> QED
    BY <1>10, <1>11, <1>12

----------------------------------------------------------------------------
(* The records in the windows.                                             *)

\* A record of a packet that came before t, as window i trims it.
Genuine(i, c, t) ==
  /\ c.FID \in Nat /\ c.FID < t /\ c.FID < Duration
  /\ c.tts = Stamped(i, c.FID)

WindowTypes ==
  /\ now \in Nat
  /\ second_highest \in Quarters
  /\ tw_r \in [Quarters -> [Windows -> [Indices -> Cells]]]

RecordsGenuine ==
  \A q \in Quarters, i \in Windows, j \in Indices :
    tw_r[q][i][j] # Empty => /\ Genuine(i, tw_r[q][i][j], now)
                             /\ tw_r[q][i][j].tts % 2^k = j

WindowInv == WindowTypes /\ RecordsGenuine

\* A record that is moved is trimmed once more, as the next window does.
LEMMA MovedGenuine ==
  ASSUME PowersOfTwo, NEW i \in Windows, i + 1 \in Windows, NEW t \in Nat,
         NEW window \in [Indices -> Cells], NEW e \in Cells,
         \A j \in Indices : window[j] # Empty => Genuine(i, window[j], t),
         Moved(window, e) # Empty
  PROVE  LET old == window[e.tts % 2^k] IN
         /\ e.tts % 2^k \in Indices
         /\ e # Empty /\ old # Empty /\ old \in Cells
         /\ Passes(e, old)
         /\ Moved(window, e).FID = old.FID
         /\ Genuine(i + 1, Moved(window, e), t)
  <1> DEFINE old == window[e.tts % 2^k]
  <1>1. e.tts % 2^k \in Indices /\ old \in Cells
    BY MovedType
  <1>2. e # Empty /\ Passes(e, old) /\ Moved(window, e) = NextRecord(old)
    BY DEF Moved
  <1>3. old # Empty
    BY <1>2 DEF Passes, Empty
  <1>4. Genuine(i, old, t)
    BY <1>1, <1>3
  <1> HIDE DEF old
  <1>5. Moved(window, e).FID = old.FID /\ Moved(window, e).tts = old.tts \div 2^ALPHA
    BY <1>2 DEF NextRecord
  <1>6. old.tts \div 2^ALPHA = Stamped(i + 1, old.FID)
    <2> DEFINE m == old.FID % 2^TsBits
    <2>1. m \in Int /\ 2^TrimmedBits(i) \in Nat \ {0} /\ 2^ALPHA \in Nat \ {0}
      BY <1>4, Sizes, WindowSizes DEF Genuine
    <2>2. old.tts = m \div 2^TrimmedBits(i)
      BY <1>4 DEF Genuine, Stamped
    <2>3. Stamped(i + 1, old.FID) = m \div (2^TrimmedBits(i) * 2^ALPHA)
      BY NextSize DEF Stamped
    <2> HIDE DEF m
    <2> QED
      BY <2>1, <2>2, <2>3, DivDiv
  <1>7. Genuine(i + 1, Moved(window, e), t)
    BY <1>4, <1>5, <1>6 DEF Genuine
  <1> QED
    BY <1>1, <1>2, <1>3, <1>5, <1>7 DEF old

\* The records that a packet moves, and itself.
LEMMA EnteringGenuine ==
  ASSUME PowersOfTwo, WindowInv, now < Duration, NEW i \in Windows,
         Entering(tw_r[second_highest], Record(now))[i] # Empty
  PROVE  Genuine(i, Entering(tw_r[second_highest], Record(now))[i], now + 1)
  <1> DEFINE W == tw_r[second_highest]
             E == Entering(W, Record(now))
  <1>1. now \in Nat /\ W \in [Windows -> [Indices -> Cells]] /\ Record(now) \in Cells
    <2>1. now \in Nat /\ (now % 2^TsBits) \div 2^TW0_TB \in Nat
      <3> DEFINE m == now % 2^TsBits
      <3>1. now \in Nat /\ 2^TsBits \in Nat \ {0} /\ 2^TW0_TB \in Nat \ {0}
        BY Sizes DEF WindowInv, WindowTypes
      <3>2. m \in Nat
        BY <3>1
      <3> HIDE DEF m
      <3>3. m \div 2^TW0_TB \in Nat
        BY <3>1, <3>2
      <3> QED
        BY <3>1, <3>3 DEF m
    <2> QED
      BY <2>1 DEF WindowInv, WindowTypes, Record, Cells
  <1>2. /\ E \in [Windows -> Cells] /\ E[0] = Record(now)
        /\ \A n \in Windows : n # 0 => n - 1 \in Windows /\ E[n] = Moved(W[n - 1], E[n - 1])
    <2> HIDE DEF W
    <2> QED
      BY <1>1, EnteringIs
  <1>3. CASE i = 0
    <2>1. Record(now).FID = now /\ Record(now).tts = (now % 2^TsBits) \div 2^TW0_TB
      BY DEF Record
    <2>2. TrimmedBits(0) = TW0_TB
      BY Parameters DEF TrimmedBits
    <2> QED
      BY <1>1, <1>2, <1>3, <2>1, <2>2 DEF Genuine, Stamped
  <1>4. CASE i # 0
    <2> DEFINE n == i - 1
    <2>1. n \in Windows /\ n + 1 \in Windows /\ n + 1 = i
      BY <1>2, <1>4 DEF Windows
    <2>2. W[n] \in [Indices -> Cells] /\ E[n] \in Cells /\ Moved(W[n], E[n]) = E[i]
      BY <1>1, <1>2, <1>4, <2>1
    <2>3. \A j \in Indices : W[n][j] # Empty => Genuine(n, W[n][j], now)
      BY <2>1 DEF WindowInv, WindowTypes, RecordsGenuine
    <2>4. Moved(W[n], E[n]) # Empty
      BY <2>2
    <2> HIDE DEF n, W, E
    <2>5. Genuine(n + 1, Moved(W[n], E[n]), now)
      BY <1>1, <2>1, <2>2, <2>3, <2>4, MovedGenuine
    <2> QED
      BY <1>1, <2>1, <2>2, <2>5 DEF Genuine, E, W
  <1> QED
    BY <1>3, <1>4

\* What a packet leaves in the windows it came to.
Written(windows, entering) ==
  [i \in Windows |->
     [j \in Indices |->
        IF entering[i] # Empty /\ entering[i].tts % 2^k = j
          THEN entering[i] ELSE windows[i][j]]]

LEMMA PacketWrites ==
  ASSUME PowersOfTwo, WindowInv, Packet
  PROVE  LET W == tw_r[second_highest]
             E == Entering(W, Record(now)) IN
         /\ now \in Nat /\ now' \in Nat /\ now < now' /\ now < Duration
         /\ second_highest' = second_highest
         /\ W \in [Windows -> [Indices -> Cells]]
         /\ E \in [Windows -> Cells]
         /\ E[0] = Record(now) /\ E[0] # Empty
         /\ \A i \in Windows : i # 0 =>
              i - 1 \in Windows /\ E[i] = Moved(W[i - 1], E[i - 1])
         /\ tw_r' \in [Quarters -> [Windows -> [Indices -> Cells]]]
         /\ \A q \in Quarters, i \in Windows, j \in Indices :
              tw_r'[q][i][j] = IF /\ q = second_highest
                                  /\ E[i] # Empty /\ E[i].tts % 2^k = j
                                 THEN E[i] ELSE tw_r[q][i][j]
  <1> DEFINE W == tw_r[second_highest]
             E == Entering(W, Record(now))
  <1>1. now \in Nat /\ second_highest \in Quarters /\ W \in [Windows -> [Indices -> Cells]]
    BY DEF WindowInv, WindowTypes
  <1>2. Record(now) \in Cells /\ Record(now) # Empty
    <2> DEFINE m == now % 2^TsBits
    <2>1. 2^TsBits \in Nat \ {0} /\ 2^TW0_TB \in Nat \ {0}
      BY Sizes
    <2>2. m \in Nat
      BY <1>1, <2>1
    <2>3. Record(now) = [tts |-> m \div 2^TW0_TB, FID |-> now]
      BY DEF Record
    <2> HIDE DEF m
    <2>4. m \div 2^TW0_TB \in Nat
      BY <2>1, <2>2
    <2> QED
      BY <1>1, <2>3, <2>4 DEF Cells, Empty, NoFID
  <1>3. /\ E \in [Windows -> Cells] /\ E[0] = Record(now)
        /\ \A n \in Windows : n # 0 => n - 1 \in Windows /\ E[n] = Moved(W[n - 1], E[n - 1])
    <2> HIDE DEF W
    <2> QED
      BY <1>1, <1>2, EnteringIs
  <1>4. /\ tw_r' = [tw_r EXCEPT ![second_highest] = Written(W, E)]
        /\ now' = now + 2^TW0_TB /\ second_highest' = second_highest /\ now < Duration
    <2>1. /\ tw_r' = [tw_r EXCEPT ![second_highest] =
                        [i \in Windows |->
                           [j \in Indices |->
                              IF E[i] # Empty /\ E[i].tts % 2^k = j
                                THEN E[i] ELSE tw_r[second_highest][i][j]]]]
          /\ now' = now + 2^TW0_TB /\ second_highest' = second_highest /\ now < Duration
      BY DEF Packet
    <2> HIDE DEF E
    <2> QED
      BY <2>1 DEF Written
  <1>5. now' \in Nat /\ now < now'
    BY <1>1, <1>4, Sizes
  <1> HIDE DEF W, E
  <1>6. Written(W, E) \in [Windows -> [Indices -> Cells]]
    BY <1>1, <1>3 DEF Written
  <1>7. tw_r' \in [Quarters -> [Windows -> [Indices -> Cells]]]
    BY <1>4, <1>6 DEF WindowInv, WindowTypes
  <1>8. ASSUME NEW q \in Quarters, NEW i \in Windows, NEW j \in Indices
        PROVE  tw_r'[q][i][j] = IF /\ q = second_highest
                                   /\ E[i] # Empty /\ E[i].tts % 2^k = j
                                  THEN E[i] ELSE tw_r[q][i][j]
    <2>1. CASE q = second_highest
      <3>1. tw_r'[q] = Written(W, E)
        BY <1>4, <2>1 DEF WindowInv, WindowTypes
      <3>2. tw_r[q] = W
        BY <2>1 DEF W
      <3> QED
        BY <2>1, <3>1, <3>2 DEF Written
    <2>2. CASE q # second_highest
      <3>1. tw_r'[q] = tw_r[q]
        BY <1>4, <2>2 DEF WindowInv, WindowTypes
      <3> QED
        BY <2>2, <3>1
    <2> QED
      BY <2>1, <2>2
  <1> QED
    BY <1>1, <1>2, <1>3, <1>4, <1>5, <1>7, <1>8 DEF E, W

LEMMA InitWindowInv == ControllerInit => WindowInv
  <1> SUFFICES ASSUME ControllerInit
               PROVE  WindowInv
    OBVIOUS
  <1>1. now \in Nat /\ second_highest \in Quarters
    BY WindowsAssumption DEF ControllerInit, WindowInit, Quarters
  <1>2. tw_r = [q \in Quarters |-> [i \in Windows |-> [j \in Indices |-> Empty]]]
    BY DEF ControllerInit, WindowInit
  <1>3. Empty \in Cells
    BY DEF Empty, Cells, NoFID
  <1>4. WindowTypes
    BY <1>1, <1>2, <1>3 DEF WindowTypes
  <1>5. RecordsGenuine
    BY <1>2 DEF RecordsGenuine
  <1> QED
    BY <1>4, <1>5 DEF WindowInv

\* Packet is the only action that writes the windows.
LEMMA OtherSteps ==
  ASSUME WindowInv, [Next]_vars
  PROVE  \/ Packet
         \/ /\ tw_r' = tw_r
            /\ now' \in Nat /\ now <= now' /\ second_highest' \in Quarters
  <1>1. now \in Nat /\ second_highest \in Quarters
    BY DEF WindowInv, WindowTypes
  <1>2. CASE Silence
    <2>1. PICK d \in Spells : now' = now + d
      BY <1>2 DEF Silence
    <2>2. tw_r' = tw_r /\ second_highest' = second_highest
      BY <1>2 DEF Silence
    <2> QED
      BY <1>1, <2>1, <2>2, WindowsAssumption
  <1>3. CASE Poll
    <2>1. tw_r' = tw_r /\ now' = now /\ second_highest' = 1 - second_highest
      BY <1>3 DEF Poll, Retire
    <2> QED
      BY <1>1, <2>1 DEF Quarters
  <1>4. CASE UNCHANGED vars
    BY <1>1, <1>4 DEF vars, windowVars
  <1> QED
    BY <1>2, <1>3, <1>4 DEF Next, Traffic

LEMMA NextWindowInv ==
  ASSUME PowersOfTwo, WindowInv, [Next]_vars
  PROVE  WindowInv'
  <1>1. CASE Packet
    <2> DEFINE W == tw_r[second_highest]
               E == Entering(W, Record(now))
    <2>1. /\ now \in Nat /\ now' \in Nat /\ now < now' /\ second_highest' = second_highest
          /\ E \in [Windows -> Cells]
          /\ tw_r' \in [Quarters -> [Windows -> [Indices -> Cells]]]
          /\ \A q \in Quarters, i \in Windows, j \in Indices :
               tw_r'[q][i][j] = IF /\ q = second_highest
                                   /\ E[i] # Empty /\ E[i].tts % 2^k = j
                                  THEN E[i] ELSE tw_r[q][i][j]
      BY <1>1, PacketWrites
    <2>2. \A i \in Windows : E[i] # Empty => Genuine(i, E[i], now + 1)
      BY <1>1, PacketWrites, EnteringGenuine
    <2> HIDE DEF E
    <2>3. WindowTypes'
      BY <2>1 DEF WindowInv, WindowTypes
    <2>4. ASSUME NEW q \in Quarters, NEW i \in Windows, NEW j \in Indices,
                 tw_r'[q][i][j] # Empty
          PROVE  Genuine(i, tw_r'[q][i][j], now') /\ tw_r'[q][i][j].tts % 2^k = j
      <3>1. CASE q = second_highest /\ E[i] # Empty /\ E[i].tts % 2^k = j
        <4>1. tw_r'[q][i][j] = E[i]
          BY <2>1, <3>1
        <4>2. Genuine(i, E[i], now')
          BY <2>1, <2>2, <3>1 DEF Genuine
        <4> QED
          BY <3>1, <4>1, <4>2
      <3>2. CASE ~(q = second_highest /\ E[i] # Empty /\ E[i].tts % 2^k = j)
        <4>1. tw_r'[q][i][j] = tw_r[q][i][j]
          BY <2>1, <3>2
        <4>2. Genuine(i, tw_r[q][i][j], now) /\ tw_r[q][i][j].tts % 2^k = j
          BY <2>4, <4>1 DEF WindowInv, RecordsGenuine
        <4> QED
          BY <2>1, <4>1, <4>2 DEF Genuine
      <3> QED
        BY <3>1, <3>2
    <2>5. RecordsGenuine'
      BY <2>4 DEF RecordsGenuine
    <2> QED
      BY <2>3, <2>5 DEF WindowInv
  <1>2. CASE ~Packet
    <2>1. /\ tw_r' = tw_r
          /\ now \in Nat /\ now' \in Nat /\ now <= now' /\ second_highest' \in Quarters
      BY <1>2, OtherSteps DEF WindowInv, WindowTypes
    <2>2. WindowTypes'
      BY <2>1 DEF WindowInv, WindowTypes
    <2>3. \A i, c : Genuine(i, c, now) => Genuine(i, c, now')
      BY <2>1 DEF Genuine
    <2>4. RecordsGenuine'
      BY <2>1, <2>3 DEF WindowInv, RecordsGenuine
    <2> QED
      BY <2>2, <2>4 DEF WindowInv
  <1> QED
    BY <1>1, <1>2

LEMMA GenuineIsTrue == WindowInv => RecordsTrue
  BY DEF WindowInv, RecordsGenuine, Genuine, Stamped, RecordsTrue

\* Wherever the pipeline moves a record, its cell holds the time stamp of its
\* packet, trimmed as the window is, and is the one that stamp names.
THEOREM RecordsKeepTime ==
  ASSUME PowersOfTwo
  PROVE  Spec => []RecordsTrue
  <1>1. Spec => []WindowInv
    <2>1. WindowInv /\ [Next]_vars => WindowInv'
      BY NextWindowInv
    <2> QED
      BY <2>1, InitWindowInv, PTL DEF Spec
  <1> QED
    BY <1>1, GenuineIsTrue, PTL

----------------------------------------------------------------------------
(* The order of the windows.                                               *)

\* No register holds a record for longer than a time stamp takes to overflow.
Recent ==
  \A q \in Quarters, i \in Windows, j \in Indices :
    tw_r[q][i][j] # Empty => now - tw_r[q][i][j].FID <= 2^TsBits

\* Trimmed to so few bits that the subtraction of the pipeline cannot wrap, two
\* stamps a cycle apart are of cells a cycle apart, and of no others in a period.
LEMMA OneCycle ==
  ASSUME PowersOfTwo, NEW i \in Windows, NEW e \in Cells, NEW old \in Cells,
         Genuine(i, e, now + 1), Genuine(i, old, now), Passes(e, old),
         CellOf(i, old.FID) <= CellOf(i, e.FID),
         now \in Nat, now - old.FID <= 2^TsBits
  PROVE  CellOf(i, e.FID) = CellOf(i, old.FID) + 2^k
  <1> DEFINE b == 2^TrimmedBits(i)
             C == 2^(TsBits - TrimmedBits(i))
             M == 2^TsBits
             K == 2^k
             A == CellOf(i, e.FID)
             B == CellOf(i, old.FID)
             m == A \div C
             n == B \div C
  <1>1. /\ b \in Nat \ {0} /\ b >= 2 /\ C \in Nat \ {0} /\ M \in Nat \ {0}
        /\ K \in Nat \ {0} /\ M = b * C /\ K < C
    BY WindowSizes, Sizes
  <1>2. M >= 2 * C
    <2> HIDE DEF b, C, M
    <2> QED
      BY <1>1
  <1>3. /\ e.FID \in Nat /\ e.FID <= now /\ e.tts = A % C
        /\ old.FID \in Nat /\ old.tts = B % C
        /\ A \in Nat /\ B \in Nat /\ e.tts \in Nat /\ old.tts \in Nat
    BY StampOfCell DEF Genuine
  <1>4. B <= A
    OBVIOUS
  <1>5. A <= B + C
    <2>1. e.FID <= old.FID + C * b
      BY <1>1, <1>3
    <2>2. A = e.FID \div b /\ B = old.FID \div b
      BY DEF CellOf
    <2> HIDE DEF A, B, b, C
    <2>3. e.FID \in Int /\ old.FID + C * b \in Int /\ old.FID \in Int /\ C \in Int
      BY <1>1, <1>3
    <2>4. e.FID \div b <= (old.FID + C * b) \div b
      BY <1>1, <2>1, <2>3, DivMonotonic
    <2>5. (old.FID + C * b) \div b = old.FID \div b + C
      BY <1>1, <2>3, DivShift, Zenon
    <2> QED
      BY <2>2, <2>4, <2>5
  <1>6. (e.tts - K) % M = old.tts
    BY DEF Passes
  <1> HIDE DEF A, B, b, C, K, M
  <1>7. /\ m \in Nat /\ n \in Nat /\ A = m * C + e.tts /\ B = n * C + old.tts
        /\ e.tts < C /\ old.tts < C
    <2>1. /\ m \in Nat /\ A % C < C /\ A = m * C + (A % C)
      BY <1>1, <1>3, Divided
    <2>2. /\ n \in Nat /\ B % C < C /\ B = n * C + (B % C)
      BY <1>1, <1>3, Divided
    <2> QED
      BY <1>3, <2>1, <2>2
  <1> HIDE DEF m, n
  <1>8. e.tts >= K
    <2> SUFFICES ASSUME e.tts < K
                 PROVE  FALSE
      BY <1>1, <1>3
    <2>1. e.tts - K \in Int /\ -M <= e.tts - K /\ e.tts - K < 0
      BY <1>1, <1>2, <1>3
    <2>2. (e.tts - K) % M = e.tts - K + M
      BY <1>1, <2>1, ModNegative
    <2> QED
      BY <1>1, <1>2, <1>3, <1>6, <1>7, <2>2
  <1>9. old.tts = e.tts - K
    <2>1. e.tts - K \in Nat /\ e.tts - K < M
      BY <1>1, <1>2, <1>3, <1>7, <1>8
    <2> QED
      BY <1>1, <1>6, <2>1, ModSmall
  <1> DEFINE p == m * C
             r == n * C
  <1>10. p \in Int /\ r \in Int /\ A - B = (p - r) + K
    BY <1>1, <1>3, <1>7, <1>9
  <1>11. m = n
    <2>1. CASE m > n
      <3>1. m * C >= (n + 1) * C
        BY <1>1, <1>7, <2>1
      <3>2. (n + 1) * C = n * C + C
        BY <1>1, <1>7
      <3> QED
        BY <1>1, <1>3, <1>5, <1>10, <3>1, <3>2
    <2>2. CASE m < n
      <3>1. n * C >= (m + 1) * C
        BY <1>1, <1>7, <2>2
      <3>2. (m + 1) * C = m * C + C
        BY <1>1, <1>7
      <3> QED
        BY <1>1, <1>3, <1>4, <1>10, <3>1, <3>2
    <2> QED
      BY <1>7, <2>1, <2>2
  <1> QED
    BY <1>1, <1>3, <1>10, <1>11 DEF A, B, K

\* A packet meets no younger record in its window, and neither does a record that
\* it moves on; each follows the one that evicted it by exactly one cycle.
LEMMA EnteringFollows ==
  ASSUME PowersOfTwo, WindowInv, RecordsFollow, Recent, Packet
  PROVE  LET W == tw_r[second_highest]
             E == Entering(W, Record(now)) IN
         \A i \in Windows : E[i] # Empty =>
           /\ \A j \in Indices :
                W[i][j] # Empty => CellOf(i, W[i][j].FID) <= CellOf(i, E[i].FID)
           /\ i # 0 => /\ E[i - 1] # Empty
                       /\ CellOf(i - 1, E[i - 1].FID) = CellOf(i - 1, E[i].FID) + 2^k
  <1> DEFINE W == tw_r[second_highest]
             E == Entering(W, Record(now))
             P(i) == \A j \in Indices :
                       W[i][j] # Empty => CellOf(i, W[i][j].FID) <= CellOf(i, E[i].FID)
             Q(i) == i # 0 => /\ E[i - 1] # Empty
                              /\ CellOf(i - 1, E[i - 1].FID)
                                   = CellOf(i - 1, E[i].FID) + 2^k
             N == T - 1
             S == {i \in 0 .. N : E[i] # Empty => P(i) /\ Q(i)}
  <1>1. /\ now \in Nat
        /\ W \in [Windows -> [Indices -> Cells]] /\ E \in [Windows -> Cells]
        /\ E[0] = Record(now)
        /\ \A i \in Windows : i # 0 =>
             i - 1 \in Windows /\ E[i] = Moved(W[i - 1], E[i - 1])
    BY PacketWrites
  <1>2. \A i \in Windows : E[i] # Empty => Genuine(i, E[i], now + 1)
    BY PacketWrites, EnteringGenuine
  <1>3. \A i \in Windows, j \in Indices : W[i][j] # Empty =>
          Genuine(i, W[i][j], now) /\ now - W[i][j].FID <= 2^TsBits
    BY DEF WindowInv, WindowTypes, RecordsGenuine, Recent
  <1>4. \A i \in Windows, j \in Indices : i # 0 /\ W[i][j] # Empty =>
          \E l \in Indices : /\ W[i - 1][l] # Empty
                             /\ CellOf(i - 1, W[i - 1][l].FID)
                                  >= CellOf(i - 1, W[i][j].FID) + 2^k
    <2>1. \A i \in Windows : i # 0 => i > 0
      BY Parameters DEF Windows
    <2>2. second_highest \in Quarters
      BY DEF WindowInv, WindowTypes
    <2> QED
      BY <2>1, <2>2 DEF RecordsFollow
  <1>5. N \in Nat /\ Windows = 0 .. N
    BY Parameters DEF Windows
  <1> HIDE DEF W, E, N
  <1>6. 0 \in S
    <2>1. ASSUME NEW j \in Indices, W[0][j] # Empty
          PROVE  CellOf(0, W[0][j].FID) <= CellOf(0, E[0].FID)
      <3>1. 0 \in Windows /\ 2^TrimmedBits(0) \in Nat \ {0}
        BY Parameters, WindowSizes
      <3>2. W[0][j].FID \in Nat /\ W[0][j].FID < now
        BY <1>3, <2>1, <3>1 DEF Genuine
      <3>3. E[0].FID = now
        BY <1>1 DEF Record
      <3> QED
        BY <1>1, <3>1, <3>2, <3>3, DivMonotonic DEF CellOf
    <2> QED
      BY <1>5, <2>1
  <1>7. ASSUME NEW i \in 1 .. N, i - 1 \in S
        PROVE  i \in S
    <2> SUFFICES ASSUME E[i] # Empty
                 PROVE  P(i) /\ Q(i)
      BY <1>5
    <2> DEFINE h == i - 1
    <2>1. h \in Windows /\ h + 1 \in Windows /\ h + 1 = i /\ i # 0
      BY <1>5
    <2>2. W[h] \in [Indices -> Cells] /\ E[h] \in Cells /\ E[i] = Moved(W[h], E[h])
      BY <1>1, <2>1
    <2>3. (E[h] # Empty => P(h)) /\ (W[i] \in [Indices -> Cells])
      BY <1>1, <1>7, <2>1
    <2> DEFINE old == W[h][E[h].tts % 2^k]
    <2>4. /\ E[h].tts % 2^k \in Indices /\ E[h] # Empty /\ old # Empty /\ old \in Cells
          /\ Passes(E[h], old) /\ E[i].FID = old.FID
      <3>1. \A j \in Indices : W[h][j] # Empty => Genuine(h, W[h][j], now)
        BY <1>3, <2>1
      <3> HIDE DEF h
      <3> QED
        BY <1>1, <2>1, <2>2, <3>1, MovedGenuine
    <2>5. /\ Genuine(h, E[h], now + 1) /\ Genuine(h, old, now)
          /\ now - old.FID <= 2^TsBits
          /\ CellOf(h, old.FID) <= CellOf(h, E[h].FID)
      BY <1>2, <1>3, <2>1, <2>3, <2>4
    <2>6. CellOf(h, E[h].FID) = CellOf(h, old.FID) + 2^k
      <3> HIDE DEF h, old
      <3> QED
        BY <1>1, <2>1, <2>2, <2>4, <2>5, OneCycle
    <2>7. Q(i)
      BY <2>4, <2>6
    <2>8. ASSUME NEW j \in Indices, W[i][j] # Empty
          PROVE  CellOf(i, W[i][j].FID) <= CellOf(i, E[i].FID)
      <3>1. PICK l \in Indices : /\ W[h][l] # Empty
                                 /\ CellOf(h, W[h][l].FID) >= CellOf(h, W[i][j].FID) + 2^k
        BY <1>4, <2>1, <2>8
      <3>2. CellOf(h, W[h][l].FID) <= CellOf(h, E[h].FID)
        BY <2>3, <2>4, <3>1
      <3> DEFINE d == W[i][j].FID
                 f == W[h][l].FID
                 g == E[i].FID
      <3>3. d \in Nat /\ f \in Nat /\ g \in Nat
        BY <1>3, <2>1, <2>4, <2>5, <2>8, <3>1 DEF Genuine
      <3>4. CellOf(h, f) >= CellOf(h, d) + 2^k /\ CellOf(h, f) <= CellOf(h, g) + 2^k
        BY <2>4, <2>6, <3>1, <3>2
      <3>5. CellOf(i, d) = CellOf(h, d) \div 2^ALPHA /\ CellOf(i, g) = CellOf(h, g) \div 2^ALPHA
        <4> HIDE DEF d, g, h
        <4> QED
          BY <2>1, <3>3, NextCell
      <3>6. /\ CellOf(h, d) \in Nat /\ CellOf(h, f) \in Nat /\ CellOf(h, g) \in Nat
            /\ 2^k \in Nat /\ 2^ALPHA \in Nat \ {0}
        <4> HIDE DEF d, f, g, h
        <4> QED
          BY <2>1, <3>3, StampOfCell, Sizes
      <3> HIDE DEF d, f, g, h
      <3>7. CellOf(h, d) <= CellOf(h, g)
        BY <3>4, <3>6
      <3>8. CellOf(h, d) \div 2^ALPHA <= CellOf(h, g) \div 2^ALPHA
        BY <3>6, <3>7, DivMonotonic
      <3> QED
        BY <3>5, <3>8 DEF d, g
    <2> QED
      BY <2>7, <2>8
  <1>8. \A i \in 0 .. N : i \in S
    <2> HIDE DEF S
    <2> QED
      BY <1>5, <1>6, <1>7, InductionUpTo
  <1> QED
    BY <1>5, <1>8 DEF W, E

LEMMA NextFollows ==
  ASSUME PowersOfTwo, WindowInv, RecordsFollow, Packet => Recent, [Next]_vars
  PROVE  RecordsFollow'
  <1>1. CASE Packet
    <2> DEFINE W == tw_r[second_highest]
               E == Entering(W, Record(now))
    <2>1. /\ E \in [Windows -> Cells] /\ second_highest \in Quarters
          /\ \A q \in Quarters, i \in Windows, j \in Indices :
               tw_r'[q][i][j] = IF /\ q = second_highest
                                   /\ E[i] # Empty /\ E[i].tts % 2^k = j
                                  THEN E[i] ELSE tw_r[q][i][j]
      BY <1>1, PacketWrites DEF WindowInv, WindowTypes
    <2>2. \A i \in Windows : E[i] # Empty =>
            /\ \A j \in Indices : tw_r[second_highest][i][j] # Empty =>
                 CellOf(i, tw_r[second_highest][i][j].FID) <= CellOf(i, E[i].FID)
            /\ i # 0 => /\ E[i - 1] # Empty
                        /\ CellOf(i - 1, E[i - 1].FID) = CellOf(i - 1, E[i].FID) + 2^k
      BY <1>1, EnteringFollows
    <2>3. \A i \in Windows : E[i] # Empty => /\ E[i].FID \in Nat
                                            /\ E[i].tts % 2^k \in Indices
      <3> TAKE i \in Windows
      <3> HAVE E[i] # Empty
      <3>1. Genuine(i, E[i], now + 1)
        BY <1>1, PacketWrites, EnteringGenuine
      <3> HIDE DEF E
      <3>2. E[i].tts \in Nat /\ 2^k \in Nat \ {0}
        BY <2>1, Sizes DEF Cells
      <3> QED
        BY <3>1, <3>2 DEF Genuine, Indices
    <2>4. \A q \in Quarters, i \in Windows, j \in Indices :
            tw_r[q][i][j] # Empty => tw_r[q][i][j].FID \in Nat
      BY DEF WindowInv, RecordsGenuine, Genuine
    <2> HIDE DEF E, W
    <2> SUFFICES ASSUME NEW q \in Quarters, NEW i \in Windows, NEW j \in Indices,
                        i > 0, tw_r'[q][i][j] # Empty
                 PROVE  \E l \in Indices :
                          /\ tw_r'[q][i - 1][l] # Empty
                          /\ CellOf(i - 1, tw_r'[q][i - 1][l].FID)
                               >= CellOf(i - 1, tw_r'[q][i][j].FID) + 2^k
      BY DEF RecordsFollow, CellOf
    <2>5. i - 1 \in Windows /\ i # 0
      BY Parameters DEF Windows
    <2>6. \A f \in Nat : CellOf(i - 1, f) \in Nat /\ 2^k \in Nat
      BY <2>5, StampOfCell, Sizes
    <2> DEFINE New(h) == q = second_highest /\ E[h] # Empty
    <2>7. CASE New(i) /\ E[i].tts % 2^k = j
      <3> DEFINE l == E[i - 1].tts % 2^k
      <3>1. tw_r'[q][i][j] = E[i]
        BY <2>1, <2>7
      <3>2. /\ E[i - 1] # Empty /\ l \in Indices
            /\ CellOf(i - 1, E[i - 1].FID) = CellOf(i - 1, E[i].FID) + 2^k
        BY <2>2, <2>3, <2>5, <2>7
      <3>3. tw_r'[q][i - 1][l] = E[i - 1]
        BY <2>1, <2>5, <2>7, <3>2
      <3>4. E[i - 1].FID \in Nat /\ E[i].FID \in Nat
        BY <2>3, <2>5, <2>7, <3>2
      <3>5. CellOf(i - 1, E[i - 1].FID) >= CellOf(i - 1, E[i].FID) + 2^k
        BY <2>6, <3>2, <3>4
      <3> HIDE DEF l
      <3> QED
        BY <3>1, <3>2, <3>3, <3>5
    <2>8. CASE ~(New(i) /\ E[i].tts % 2^k = j)
      <3>1. tw_r'[q][i][j] = tw_r[q][i][j]
        BY <2>1, <2>8
      <3>2. PICK l \in Indices :
              /\ tw_r[q][i - 1][l] # Empty
              /\ CellOf(i - 1, tw_r[q][i - 1][l].FID)
                   >= CellOf(i - 1, tw_r[q][i][j].FID) + 2^k
        BY <3>1 DEF RecordsFollow
      <3>3. CASE New(i - 1) /\ E[i - 1].tts % 2^k = l
        <4>1. tw_r'[q][i - 1][l] = E[i - 1]
          BY <2>1, <2>5, <3>3
        <4>2. CellOf(i - 1, tw_r[q][i - 1][l].FID) <= CellOf(i - 1, E[i - 1].FID)
          BY <2>2, <2>5, <3>2, <3>3
        <4>3. /\ tw_r[q][i][j].FID \in Nat /\ tw_r[q][i - 1][l].FID \in Nat
              /\ E[i - 1].FID \in Nat
          BY <2>3, <2>4, <2>5, <3>1, <3>2, <3>3
        <4>4. CellOf(i - 1, E[i - 1].FID) >= CellOf(i - 1, tw_r[q][i][j].FID) + 2^k
          BY <2>6, <3>2, <4>2, <4>3
        <4> QED
          BY <3>1, <3>3, <4>1, <4>4
      <3>4. CASE ~(New(i - 1) /\ E[i - 1].tts % 2^k = l)
        <4>1. tw_r'[q][i - 1][l] = tw_r[q][i - 1][l]
          BY <2>1, <2>5, <3>4
        <4> QED
          BY <3>1, <3>2, <4>1
      <3> QED
        BY <3>3, <3>4
    <2> QED
      BY <2>7, <2>8
  <1>2. CASE ~Packet
    <2>1. tw_r' = tw_r
      BY <1>2, OtherSteps
    <2> QED
      BY <2>1 DEF RecordsFollow, CellOf
  <1> QED
    BY <1>1, <1>2

LEMMA InitFollows == ControllerInit => RecordsFollow
  <1> SUFFICES ASSUME ControllerInit
               PROVE  RecordsFollow
    OBVIOUS
  <1>1. tw_r = [q \in Quarters |-> [i \in Windows |-> [j \in Indices |-> Empty]]]
    BY DEF ControllerInit, WindowInit
  <1> QED
    BY <1>1 DEF RecordsFollow

\* As long as no register holds a record for longer than a period of the time
\* stamps, what the pipeline passes on from a window is at least one cycle older
\* than what the window holds, whatever earlier uses of the quarter left there.
THEOREM WindowsFollow ==
  ASSUME PowersOfTwo
  PROVE  Spec /\ []Recent => []RecordsFollow
  <1>1. Spec => []WindowInv
    <2>1. WindowInv /\ [Next]_vars => WindowInv'
      BY NextWindowInv
    <2> QED
      BY <2>1, InitWindowInv, PTL DEF Spec
  <1>2. WindowInv /\ RecordsFollow /\ (Packet => Recent) /\ [Next]_vars
          => RecordsFollow'
    BY NextFollows
  <1>3. ControllerInit => RecordsFollow
    BY InitFollows
  <1>4. Recent => (Packet => Recent)
    OBVIOUS
  <1> QED
    BY <1>1, <1>2, <1>3, <1>4, PTL DEF Spec

----------------------------------------------------------------------------
(* The latest record of a set, and of its windows.                         *)

Bests == [tts : Nat, idx : Nat, wraps : Nat]

\* One step of the scan.
Scanned(best, tts, j) ==
  IF tts > best.tts
    THEN IF 2^tts_bit + best.tts - tts > 2^threshold_bit
           THEN [best EXCEPT !.tts = tts, !.idx = j] ELSE best
    ELSE IF Overflowed(best.tts, tts)
           THEN [tts |-> tts, idx |-> j, wraps |-> best.wraps + 1]
           ELSE best

LEMMA ScannedType ==
  ASSUME NEW best \in Bests, NEW tts \in Nat, NEW j \in Nat
  PROVE  Scanned(best, tts, j) \in Bests
  <1>1. [best EXCEPT !.tts = tts, !.idx = j] \in Bests
    BY DEF Bests
  <1>2. [tts |-> tts, idx |-> j, wraps |-> best.wraps + 1] \in Bests
    BY DEF Bests
  <1> QED
    BY <1>1, <1>2 DEF Scanned

\* The recursion of LargestCell, unrolled once.
LEMMA LargestCellIs ==
  ASSUME PowersOfTwo, NEW TW0 \in [Indices -> Cells]
  PROVE  \E scan \in [Indices -> Bests] :
           /\ scan[0] = [tts |-> TW0[0].tts, idx |-> 0, wraps |-> 0]
           /\ \A j \in Indices : j # 0 =>
                j - 1 \in Indices /\ scan[j] = Scanned(scan[j - 1], TW0[j].tts, j)
           /\ LargestCell(TW0) = scan[2^k - 1]
  <1> DEFINE N == 2^k - 1
             first == [tts |-> TW0[0].tts, idx |-> 0, wraps |-> 0]
             step == [p \in Nat \X Bests |->
                        IF p[1] \in 1 .. N THEN Scanned(p[2], TW0[p[1]].tts, p[1])
                        ELSE p[2]]
             Is(f) == f = [j \in Indices |->
                             IF j = 0 THEN [tts |-> TW0[0].tts, idx |-> 0, wraps |-> 0]
                             ELSE LET best == f[j - 1]
                                      tts  == TW0[j].tts
                                  IN IF tts > best.tts
                                       THEN IF 2^tts_bit + best.tts - tts > 2^threshold_bit
                                              THEN [best EXCEPT !.tts = tts, !.idx = j]
                                              ELSE best
                                       ELSE IF Overflowed(best.tts, tts)
                                              THEN [tts |-> tts, idx |-> j,
                                                    wraps |-> best.wraps + 1]
                                              ELSE best]
  <1>1. N \in Nat /\ Indices = 0 .. N /\ 0 \in Indices
    BY Sizes DEF Indices
  <1>2. \A j \in Indices : TW0[j].tts \in Nat /\ j \in Nat
    BY <1>1 DEF Cells
  <1>3. first \in Bests
    BY <1>1, <1>2 DEF Bests
  <1>4. step \in [Nat \X Bests -> Bests]
    <2>1. ASSUME NEW j \in Nat, NEW best \in Bests, j \in 1 .. N
          PROVE  Scanned(best, TW0[j].tts, j) \in Bests
      <3>1. TW0[j].tts \in Nat
        BY <1>1, <1>2, <2>1
      <3> QED
        BY <3>1, ScannedType
    <2> HIDE DEF N
    <2> QED
      BY <2>1
  <1>5. PICK f \in [0 .. N -> Bests] : RecursionUpTo(N, f, first, step)
    <2>1. N \in Nat
      BY <1>1
    <2> HIDE DEF step, N, first, Is
    <2> QED
      BY <1>3, <1>4, <2>1, Recursion, Zenon
  <1>6. f \in [Indices -> Bests]
    BY <1>1
  <1>7. \A g : Is(g) <=> g = [j \in Indices |->
                               IF j = 0 THEN first ELSE Scanned(g[j - 1], TW0[j].tts, j)]
    BY DEF Scanned
  <1>8. \A j \in 1 .. N : step[<<j, f[j - 1]>>] = Scanned(f[j - 1], TW0[j].tts, j)
    <2> SUFFICES ASSUME NEW j \in 1 .. N
                 PROVE  step[<<j, f[j - 1]>>] = Scanned(f[j - 1], TW0[j].tts, j)
      OBVIOUS
    <2>1. j \in Nat /\ j - 1 \in 0 .. N
      BY <1>1
    <2>2. <<j, f[j - 1]>> \in Nat \X Bests
      BY <2>1
    <2> HIDE DEF N
    <2> QED
      BY <2>1, <2>2
  <1>9. Is(f)
    <2>1. f = [j \in Indices |-> IF j = 0 THEN first ELSE Scanned(f[j - 1], TW0[j].tts, j)]
      <3>1. ASSUME NEW j \in Indices
            PROVE  f[j] = IF j = 0 THEN first ELSE Scanned(f[j - 1], TW0[j].tts, j)
        <4> HIDE DEF step, Is, first
        <4>1. CASE j = 0
          BY <1>5, <4>1 DEF RecursionUpTo
        <4>2. CASE j # 0
          <5>1. j \in 1 .. N
            BY <1>1, <4>2
          <5>2. f[j] = step[<<j, f[j - 1]>>]
            BY <1>5, <5>1 DEF RecursionUpTo
          <5> QED
            BY <1>8, <4>2, <5>1, <5>2
        <4> QED
          BY <4>1, <4>2
      <3> HIDE DEF step, Is, first
      <3> QED
        BY <1>6, <3>1
    <2> HIDE DEF Is, first
    <2> QED
      BY <1>7, <2>1
  <1> DEFINE F == CHOOSE g : Is(g)
  <1>10. LargestCell(TW0) = F[2^k - 1]
    BY DEF LargestCell
  <1>11. Is(F)
    <2> HIDE DEF Is
    <2> QED
      BY <1>9
  <1>12. F = [j \in Indices |-> IF j = 0 THEN first ELSE Scanned(F[j - 1], TW0[j].tts, j)]
    <2> HIDE DEF Is, F, first
    <2> QED
      BY <1>7, <1>11
  <1> HIDE DEF Is, F, first
  <1>13. /\ F[0] = first
         /\ \A j \in Indices : j # 0 =>
              j - 1 \in Indices /\ F[j] = Scanned(F[j - 1], TW0[j].tts, j)
    BY <1>1, <1>12
  <1>14. F \in [Indices -> Bests]
    <2> DEFINE S == {j \in 0 .. N : F[j] \in Bests}
    <2>1. 0 \in S
      BY <1>1, <1>3, <1>13
    <2>2. ASSUME NEW n \in 1 .. N, n - 1 \in S
          PROVE  n \in S
      <3>1. n \in Indices /\ n # 0 /\ n - 1 \in Indices /\ F[n - 1] \in Bests
        BY <1>1, <2>2
      <3>2. Scanned(F[n - 1], TW0[n].tts, n) \in Bests
        BY <1>2, <3>1, ScannedType
      <3> QED
        BY <1>13, <3>1, <3>2
    <2>3. \A n \in 0 .. N : n \in S
      <3> HIDE DEF S, N
      <3> QED
        BY <1>1, <2>1, <2>2, InductionUpTo
    <2> QED
      BY <1>1, <1>12, <2>3
  <1> QED
    BY <1>10, <1>13, <1>14 DEF first

\* The recursion of LargestTts, unrolled once.
LEMMA LargestTtsIs ==
  ASSUME PowersOfTwo, NEW largest \in Int
  PROVE  /\ LargestTts(largest) \in [Windows -> Int]
         /\ LargestTts(largest)[0] = largest
         /\ \A i \in Windows : i # 0 =>
              /\ i - 1 \in Windows
              /\ LargestTts(largest)[i]
                   = (LargestTts(largest)[i - 1] - 2^k) \div 2^ALPHA
  <1> DEFINE N == T - 1
             step == [p \in Nat \X Int |-> (p[2] - 2^k) \div 2^ALPHA]
             Is(f) == f = [i \in Windows |->
                             IF i = 0 THEN largest ELSE (f[i - 1] - 2^k) \div 2^ALPHA]
  <1>1. N \in Nat /\ Windows = 0 .. N /\ 0 \in Windows
    BY Parameters DEF Windows
  <1>2. \A l \in Int : (l - 2^k) \div 2^ALPHA \in Int
    BY Sizes
  <1>3. step \in [Nat \X Int -> Int]
    BY <1>2
  <1>4. PICK f \in [0 .. N -> Int] : RecursionUpTo(N, f, largest, step)
    <2>1. N \in Nat
      BY <1>1
    <2> HIDE DEF step, N, Is
    <2> QED
      BY <1>3, <2>1, Recursion, Zenon
  <1>5. f \in [Windows -> Int]
    BY <1>1
  <1>6. Is(f)
    <2>1. ASSUME NEW i \in Windows
          PROVE  f[i] = IF i = 0 THEN largest ELSE (f[i - 1] - 2^k) \div 2^ALPHA
      <3>1. CASE i = 0
        BY <1>4, <3>1 DEF RecursionUpTo
      <3>2. CASE i # 0
        <4>1. i \in 1 .. N /\ i \in Nat /\ i - 1 \in 0 .. N
          BY <1>1, <3>2
        <4>2. f[i] = step[<<i, f[i - 1]>>]
          <5> HIDE DEF step
          <5> QED
            BY <1>4, <4>1 DEF RecursionUpTo
        <4>3. step[<<i, f[i - 1]>>] = (f[i - 1] - 2^k) \div 2^ALPHA
          <5>1. <<i, f[i - 1]>> \in Nat \X Int
            BY <4>1
          <5> QED
            BY <5>1
        <4> QED
          BY <3>2, <4>2, <4>3
      <3> QED
        BY <3>1, <3>2
    <2> QED
      BY <1>5, <2>1
  <1> DEFINE L == LargestTts(largest)
  <1>7. Is(L)
    <2>1. L = CHOOSE g : Is(g)
      BY DEF LargestTts
    <2> HIDE DEF Is
    <2> QED
      BY <1>6, <2>1
  <1> HIDE DEF L
  <1>8. /\ L[0] = largest
        /\ \A i \in Windows : i # 0 => i - 1 \in Windows /\ L[i] = (L[i - 1] - 2^k) \div 2^ALPHA
    BY <1>1, <1>7
  <1>9. L \in [Windows -> Int]
    <2> DEFINE S == {i \in 0 .. N : L[i] \in Int}
    <2>1. 0 \in S
      BY <1>1, <1>8
    <2>2. ASSUME NEW n \in 1 .. N, n - 1 \in S
          PROVE  n \in S
      <3>1. n \in Windows /\ n # 0 /\ L[n - 1] \in Int
        BY <1>1, <2>2
      <3> QED
        BY <1>1, <1>2, <1>8, <3>1
    <2>3. \A n \in 0 .. N : n \in S
      <3> HIDE DEF S, N
      <3> QED
        BY <1>1, <2>1, <2>2, InductionUpTo
    <2> QED
      BY <1>1, <1>7, <2>3
  <1> QED
    BY <1>8, <1>9 DEF L

----------------------------------------------------------------------------
(* Before the first overflow.                                              *)

\* No packet comes so late that its time stamp is near the overflow, as near as
\* the analysis takes for one.
BeforeOverflow == Duration + 2^(TW0_TB + threshold_bit) <= 2^TsBits

LEMMA Threshold ==
  ASSUME PowersOfTwo
  PROVE  /\ tts_bit \in Nat /\ threshold_bit \in Nat
         /\ 2^tts_bit \in Nat \ {0} /\ 2^threshold_bit \in Nat \ {0}
         /\ 2^threshold_bit < 2^tts_bit
         /\ 2^TsBits = 2^TW0_TB * 2^tts_bit
         /\ 2^(TW0_TB + threshold_bit) = 2^TW0_TB * 2^threshold_bit
         /\ TrimmedBits(0) = TW0_TB /\ TsBits - TrimmedBits(0) = tts_bit
  <1> DEFINE d == tts_bit - threshold_bit
  <1>1. tts_bit \in Nat /\ tts_bit > k /\ TsBits = TW0_TB + tts_bit
    BY Parameters DEF tts_bit
  <1>2. threshold_bit \in Nat /\ d \in Nat \ {0} /\ tts_bit = threshold_bit + d
    BY <1>1, Parameters DEF threshold_bit
  <1>3. TrimmedBits(0) = TW0_TB /\ TsBits - TrimmedBits(0) = tts_bit
    BY Parameters DEF TrimmedBits, tts_bit
  <1> HIDE DEF d
  <1>4. 2^tts_bit \in Nat \ {0} /\ 2^threshold_bit \in Nat \ {0} /\ 2^d \in Nat /\ 2^d >= 2
    BY <1>1, <1>2, Powers
  <1>5. 2^tts_bit = 2^threshold_bit * 2^d
    BY <1>2 DEF PowersOfTwo
  <1>6. 2^threshold_bit < 2^tts_bit
    BY <1>4, <1>5
  <1>7. /\ 2^TsBits = 2^TW0_TB * 2^tts_bit
        /\ 2^(TW0_TB + threshold_bit) = 2^TW0_TB * 2^threshold_bit
    BY <1>1, <1>2, Parameters DEF PowersOfTwo
  <1> QED
    BY <1>1, <1>2, <1>3, <1>4, <1>6, <1>7

\* A record holds the cell of its packet, and its stamp in the first window is
\* farther from the overflow than the threshold.
LEMMA EarlyRecord ==
  ASSUME PowersOfTwo, BeforeOverflow, NEW i \in Windows, NEW c,
         NEW t, Genuine(i, c, t)
  PROVE  /\ c.tts = CellOf(i, c.FID) /\ c.FID \div 2^TsBits = 0
         /\ CellOf(0, c.FID) + 2^threshold_bit < 2^tts_bit
  <1> DEFINE b == 2^TW0_TB
             h == 2^threshold_bit
             m == 2^tts_bit
             f == c.FID
  <1>1. b \in Nat \ {0} /\ h \in Nat \ {0} /\ m \in Nat \ {0} /\ h < m
    BY Threshold, Sizes
  <1>2. 2^TsBits = b * m /\ 2^(TW0_TB + threshold_bit) = b * h
    BY Threshold
  <1>3. f \in Nat /\ f < Duration /\ c.tts = Stamped(i, f) /\ Duration \in Nat
    BY WindowsAssumption DEF Genuine
  <1> HIDE DEF b, h, m, f
  <1>4. b * h \in Nat /\ b * m \in Nat \ {0} /\ b * (m - h) = b * m - b * h
    BY <1>1
  <1>5. f < b * m /\ f < b * (m - h)
    BY <1>2, <1>3, <1>4 DEF BeforeOverflow
  <1>6. f % 2^TsBits = f /\ f \div 2^TsBits = 0
    BY <1>2, <1>3, <1>4, <1>5, ModSmall
  <1>7. f \div b < m - h
    <2>1. m - h \in Nat \ {0}
      BY <1>1
    <2> DEFINE e == m - h
    <2> HIDE DEF e
    <2> QED
      BY <1>1, <1>3, <1>5, <2>1, DivBelow DEF e
  <1>8. f \div b \in Nat
    BY <1>1, <1>3
  <1>9. CellOf(0, f) = f \div b
    BY Threshold DEF CellOf, b
  <1> QED
    BY <1>1, <1>3, <1>6, <1>7, <1>8, <1>9 DEF Stamped, CellOf, f, h, m

\* Far from the overflow, the scan finds the largest time stamp and no overflow.
LEMMA LargestCellEarly ==
  ASSUME PowersOfTwo, NEW TW0 \in [Indices -> Cells],
         \A j \in Indices : TW0[j].tts + 2^threshold_bit < 2^tts_bit
  PROVE  LET r == LargestCell(TW0) IN
         /\ r.tts \in Nat /\ r.idx \in Indices /\ r.wraps = 0
         /\ r.tts = TW0[r.idx].tts
         /\ \A j \in Indices : TW0[j].tts <= r.tts
         /\ r.tts = 0 => r.idx = 0
  <1> DEFINE N == 2^k - 1
             h == 2^threshold_bit
             m == 2^tts_bit
  <1>1. N \in Nat /\ Indices = 0 .. N /\ h \in Nat \ {0} /\ m \in Nat \ {0}
    BY Sizes, Threshold DEF Indices
  <1>2. \A j \in Indices : TW0[j].tts \in Nat /\ TW0[j].tts + h < m
    BY DEF Cells
  <1>3. PICK scan \in [Indices -> Bests] :
          /\ scan[0] = [tts |-> TW0[0].tts, idx |-> 0, wraps |-> 0]
          /\ \A j \in Indices : j # 0 =>
               j - 1 \in Indices /\ scan[j] = Scanned(scan[j - 1], TW0[j].tts, j)
          /\ LargestCell(TW0) = scan[2^k - 1]
    BY LargestCellIs
  <1> DEFINE J(j) == /\ scan[j].wraps = 0 /\ scan[j].idx \in 0 .. j
                     /\ scan[j].tts = TW0[scan[j].idx].tts
                     /\ \A n \in 0 .. j : TW0[n].tts <= scan[j].tts
                     /\ scan[j].tts = 0 => scan[j].idx = 0
             S == {j \in 0 .. N : J(j)}
  <1>4. 0 \in S
    BY <1>1, <1>2, <1>3
  <1>5. ASSUME NEW j \in 1 .. N, j - 1 \in S
        PROVE  j \in S
    <2> DEFINE best == scan[j - 1]
               tts  == TW0[j].tts
    <2>1. /\ j \in Indices /\ j # 0 /\ j - 1 \in Indices /\ j \in Nat
          /\ scan[j] = Scanned(best, tts, j) /\ best \in Bests
      BY <1>1, <1>3
    <2>2. /\ best.wraps = 0 /\ best.idx \in 0 .. j - 1
          /\ best.tts = TW0[best.idx].tts
          /\ \A n \in 0 .. j - 1 : TW0[n].tts <= best.tts
          /\ best.tts = 0 => best.idx = 0
      BY <1>5
    <2>3. /\ tts \in Nat /\ tts + h < m
          /\ best.tts \in Nat /\ best.tts + h < m
      <3>1. best.idx \in Indices
        BY <1>1, <2>1, <2>2
      <3> QED
        BY <1>2, <2>1, <2>2, <3>1
    <2>4. scan[j] = IF tts > best.tts THEN [best EXCEPT !.tts = tts, !.idx = j] ELSE best
      <3>1. tts > best.tts => m + best.tts - tts > h
        BY <1>1, <2>3
      <3>2. ~Overflowed(best.tts, tts)
        <4>1. ~(m + tts - best.tts < h)
          BY <1>1, <2>3
        <4> QED
          BY <4>1 DEF Overflowed
      <3> QED
        BY <2>1, <3>1, <3>2 DEF Scanned
    <2> HIDE DEF m, h, best
    <2>5. CASE tts > best.tts
      <3>1. scan[j].tts = tts /\ scan[j].idx = j /\ scan[j].wraps = best.wraps
        BY <2>1, <2>4, <2>5 DEF Bests
      <3>2. \A n \in 0 .. j : TW0[n].tts <= tts
        <4> TAKE n \in 0 .. j
        <4>1. CASE n = j
          BY <2>3, <4>1
        <4>2. CASE n # j
          <5>1. n \in 0 .. j - 1 /\ n \in Indices
            BY <1>1, <2>1, <4>2
          <5>2. TW0[n].tts <= best.tts /\ TW0[n].tts \in Nat
            BY <1>2, <2>2, <5>1
          <5> HIDE DEF tts
          <5> QED
            BY <2>3, <2>5, <5>2
        <4> QED
          BY <4>1, <4>2
      <3>3. tts # 0
        BY <2>3, <2>5
      <3> QED
        BY <1>1, <2>1, <2>2, <3>1, <3>2, <3>3
    <2>6. CASE ~(tts > best.tts)
      <3>1. scan[j] = best
        BY <2>4, <2>6
      <3>2. \A n \in 0 .. j : TW0[n].tts <= best.tts
        <4> TAKE n \in 0 .. j
        <4>1. CASE n = j
          BY <2>3, <2>6, <4>1
        <4>2. CASE n # j
          BY <2>1, <2>2, <4>2
        <4> QED
          BY <4>1, <4>2
      <3>3. best.idx \in 0 .. j
        BY <2>1, <2>2
      <3> QED
        BY <1>1, <2>1, <2>2, <3>1, <3>2, <3>3
    <2> QED
      BY <2>5, <2>6
  <1>6. N \in S
    <2>1. \A n \in 0 .. N : n \in S
      <3> HIDE DEF S, N
      <3> QED
        BY <1>1, <1>4, <1>5, InductionUpTo
    <2> QED
      BY <1>1, <2>1
  <1>7. LargestCell(TW0) = scan[N] /\ scan[N] \in Bests
    BY <1>1, <1>3
  <1>8. J(N)
    BY <1>6
  <1> QED
    BY <1>1, <1>7, <1>8 DEF Bests

\* The latest record of the first window is found, and is one.
LEMMA LatestEarly ==
  ASSUME PowersOfTwo, BeforeOverflow, WindowInv, RecordsFollow, NEW q \in Quarters
  PROVE  LET R == tw_r[q]
             r == LargestCell(R[0]) IN
         /\ r.tts \in Nat /\ r.tts + 2^threshold_bit < 2^tts_bit /\ r.wraps = 0
         /\ r.idx \in Indices /\ r.idx = r.tts % 2^k
         /\ \A j \in Indices : R[0][j] # Empty => CellOf(0, R[0][j].FID) <= r.tts
         /\ (\E i \in Windows, j \in Indices : R[i][j] # Empty) => R[0][r.idx] # Empty
  <1> DEFINE R == tw_r[q]
             r == LargestCell(R[0])
             N == T - 1
             Some(i) == \E j \in Indices : R[i][j] # Empty
             S == {i \in 0 .. N : Some(i) => Some(0)}
  <1>1. 0 \in Windows /\ N \in Nat /\ Windows = 0 .. N
    BY Parameters DEF Windows
  <1>2. R[0] \in [Indices -> Cells]
    BY <1>1 DEF WindowInv, WindowTypes
  <1>3. \A j \in Indices : R[0][j] # Empty => /\ Genuine(0, R[0][j], now)
                                             /\ R[0][j].tts % 2^k = j
    BY <1>1 DEF WindowInv, RecordsGenuine
  <1> HIDE DEF R
  <1>4. \A j \in Indices : R[0][j] # Empty =>
          /\ R[0][j].tts = CellOf(0, R[0][j].FID)
          /\ R[0][j].tts + 2^threshold_bit < 2^tts_bit
    BY <1>1, <1>3, EarlyRecord
  <1>5. \A j \in Indices : R[0][j].tts + 2^threshold_bit < 2^tts_bit
    BY <1>4, Threshold DEF Empty
  <1>6. /\ r.tts \in Nat /\ r.idx \in Indices /\ r.wraps = 0
        /\ r.tts = R[0][r.idx].tts
        /\ \A j \in Indices : R[0][j].tts <= r.tts
        /\ r.tts = 0 => r.idx = 0
    BY <1>2, <1>5, LargestCellEarly
  <1> HIDE DEF r
  <1>7. 0 % 2^k = 0 /\ 0 \in Indices
    BY Sizes, ModSmall
  <1>8. r.idx = r.tts % 2^k
    <2>1. CASE R[0][r.idx] = Empty
      <3>1. r.tts = 0
        BY <1>6, <2>1 DEF Empty
      <3> QED
        BY <1>6, <1>7, <3>1
    <2>2. CASE R[0][r.idx] # Empty
      BY <1>3, <1>6, <2>2
    <2> QED
      BY <2>1, <2>2
  <1>9. Some(0) => R[0][r.idx] # Empty
    <2> SUFFICES ASSUME NEW j \in Indices, R[0][j] # Empty, R[0][r.idx] = Empty
                 PROVE  FALSE
      OBVIOUS
    <2>1. r.tts = 0 /\ r.idx = 0
      BY <1>6 DEF Empty
    <2>2. R[0][j].tts \in Nat /\ R[0][j].tts <= 0
      BY <1>2, <1>6, <2>1 DEF Cells
    <2>3. R[0][j].tts = 0
      BY <2>2
    <2>4. j = 0
      BY <1>3, <1>7, <2>3
    <2> QED
      BY <2>1, <2>4
  <1>10. 0 \in S
    BY <1>1
  <1>11. ASSUME NEW n \in 1 .. N, n - 1 \in S
         PROVE  n \in S
    <2>1. n \in Windows /\ n > 0
      BY <1>1
    <2>2. Some(n) => Some(n - 1)
      BY <2>1 DEF RecordsFollow, R
    <2> QED
      BY <1>1, <1>11, <2>2
  <1>12. \A n \in 0 .. N : n \in S
    <2> HIDE DEF S, N
    <2> QED
      BY <1>1, <1>10, <1>11, InductionUpTo
  <1>13. (\E i \in Windows, j \in Indices : R[i][j] # Empty) => Some(0)
    BY <1>1, <1>12
  <1>14. \A j \in Indices : R[0][j] # Empty => CellOf(0, R[0][j].FID) <= r.tts
    BY <1>4, <1>6
  <1>15. r.tts + 2^threshold_bit < 2^tts_bit
    BY <1>5, <1>6
  <1> QED
    BY <1>6, <1>8, <1>9, <1>13, <1>14, <1>15 DEF R, r

\* The latest of every window is a time stamp as the window trims it, if that of
\* the first is.
LEMMA LargestTtsBelow ==
  ASSUME PowersOfTwo, NEW largest \in Nat, largest < 2^tts_bit
  PROVE  \A i \in Windows : LargestTts(largest)[i] < 2^(TsBits - TrimmedBits(i))
  <1> DEFINE N == T - 1
             l == LargestTts(largest)
             C(i) == 2^(TsBits - TrimmedBits(i))
             S == {i \in 0 .. N : l[i] < C(i)}
  <1>1. 0 \in Windows /\ N \in Nat /\ Windows = 0 .. N
    BY Parameters DEF Windows
  <1>2. /\ l \in [Windows -> Int] /\ l[0] = largest
        /\ \A i \in Windows : i # 0 => l[i] = (l[i - 1] - 2^k) \div 2^ALPHA
    BY LargestTtsIs
  <1>3. 2^k \in Nat \ {0} /\ 2^ALPHA \in Nat \ {0}
    BY Sizes
  <1> HIDE DEF l
  <1>4. 0 \in S
    BY <1>1, <1>2, Threshold
  <1>5. ASSUME NEW i \in 1 .. N, i - 1 \in S
        PROVE  i \in S
    <2> DEFINE g == i - 1
               A == 2^ALPHA
               x == l[g] - 2^k
               y == C(i)
    <2>1. i \in Windows /\ i # 0 /\ g \in Windows /\ g + 1 = i
      BY <1>1
    <2>2. C(g) \in Nat \ {0} /\ C(i) \in Nat \ {0} /\ A \in Nat \ {0}
      BY <1>3, <2>1, WindowSizes
    <2>3. C(g) = A * C(i)
      <3>1. TrimmedBits(i) = TrimmedBits(g) + ALPHA /\ TsBits - TrimmedBits(i) \in Nat
        <4>1. ALPHA * (g + 1) = ALPHA * g + ALPHA
          BY Parameters, <2>1 DEF Windows
        <4>2. ALPHA * i <= ALPHA * (T - 1) /\ ALPHA * i \in Nat /\ ALPHA * g \in Nat
          BY Parameters, <2>1 DEF Windows
        <4> HIDE DEF g
        <4> QED
          BY Parameters, <2>1, <4>1, <4>2 DEF TrimmedBits
      <3>2. TrimmedBits(g) \in Nat
        BY <2>1, WindowSizes
      <3>3. TsBits - TrimmedBits(g) = ALPHA + (TsBits - TrimmedBits(i))
        BY <3>1, <3>2, Parameters
      <3> QED
        BY <3>1, <3>3, Parameters DEF PowersOfTwo
    <2>4. x \in Int /\ x < A * y
      <3>1. l[g] < C(g) /\ l[g] \in Int
        BY <1>2, <1>5, <2>1
      <3>2. x < C(g) /\ x \in Int
        BY <1>3, <2>2, <3>1
      <3> QED
        BY <2>3, <3>2
    <2>5. l[i] = x \div A
      BY <1>2, <2>1
    <2> HIDE DEF x, y, A
    <2>6. x \div A < y
      BY <2>2, <2>4 DEF y
    <2> QED
      BY <2>5, <2>6 DEF y
  <1>6. \A i \in 0 .. N : i \in S
    <2> HIDE DEF S, N
    <2> QED
      BY <1>1, <1>4, <1>5, InductionUpTo
  <1> QED
    BY <1>1, <1>6 DEF l

\* No window holds a record later than the analysis takes for its latest, and the
\* later windows only records a cycle older.
LEMMA LatestBounds ==
  ASSUME PowersOfTwo, WindowInv, RecordsFollow, NEW q \in Quarters,
         NEW largest \in Nat,
         \A j \in Indices : tw_r[q][0][j] # Empty =>
           CellOf(0, tw_r[q][0][j].FID) <= largest
  PROVE  LET R == tw_r[q]
             l == LargestTts(largest) IN
         /\ l \in [Windows -> Int] /\ l[0] = largest
         /\ \A i \in Windows, j \in Indices : R[i][j] # Empty =>
              /\ CellOf(i, R[i][j].FID) <= l[i]
              /\ \A h \in Windows : h < i => CellOf(h, R[i][j].FID) <= l[h] - 2^k
  <1> DEFINE R == tw_r[q]
             l == LargestTts(largest)
             N == T - 1
             U(i) == \A j \in Indices : R[i][j] # Empty => CellOf(i, R[i][j].FID) <= l[i]
             V(i) == \A j \in Indices : R[i][j] # Empty =>
                       \A h \in Windows : h < i => CellOf(h, R[i][j].FID) <= l[h] - 2^k
             S == {i \in 0 .. N : U(i) /\ V(i)}
  <1>1. 0 \in Windows /\ N \in Nat /\ Windows = 0 .. N
    BY Parameters DEF Windows
  <1>2. /\ l \in [Windows -> Int] /\ l[0] = largest
        /\ \A i \in Windows : i # 0 =>
             i - 1 \in Windows /\ l[i] = (l[i - 1] - 2^k) \div 2^ALPHA
    BY LargestTtsIs
  <1>3. \A i \in Windows, j \in Indices : R[i][j] # Empty => R[i][j].FID \in Nat
    BY DEF WindowInv, RecordsGenuine, Genuine
  <1>4. \A i \in Windows, f \in Nat : CellOf(i, f) \in Nat
    BY StampOfCell
  <1>5. 2^k \in Nat \ {0} /\ 2^ALPHA \in Nat \ {0}
    BY Sizes
  <1>6. \A i \in Windows, j \in Indices : i > 0 /\ R[i][j] # Empty =>
          \E n \in Indices : /\ R[i - 1][n] # Empty
                             /\ CellOf(i - 1, R[i - 1][n].FID)
                                  >= CellOf(i - 1, R[i][j].FID) + 2^k
    BY DEF RecordsFollow
  <1>7. 0 \in S
    <2>1. U(0)
      BY <1>2, Threshold
    <2>2. \A h \in Windows : ~(h < 0)
      BY <1>1
    <2> QED
      BY <1>1, <2>1, <2>2
  <1> HIDE DEF R, l
  <1>8. ASSUME NEW i \in 1 .. N, i - 1 \in S
        PROVE  i \in S
    <2> DEFINE g == i - 1
               b == 2^TrimmedBits(g)
    <2>1. /\ i \in Windows /\ i > 0 /\ i # 0 /\ g \in Windows /\ g + 1 = i /\ g + 1 \in Windows
          /\ \A h \in Windows : h < i => h = g \/ h < g
      BY <1>1
    <2>2. U(g) /\ V(g)
      BY <1>8
    <2>3. l[g] \in Int /\ l[i] \in Int /\ l[i] = (l[g] - 2^k) \div 2^ALPHA
      BY <1>2, <2>1
    <2>4. ASSUME NEW j \in Indices, R[i][j] # Empty
          PROVE  /\ CellOf(i, R[i][j].FID) <= l[i]
                 /\ \A h \in Windows : h < i => CellOf(h, R[i][j].FID) <= l[h] - 2^k
      <3>1. PICK n \in Indices : /\ R[g][n] # Empty
                                 /\ CellOf(g, R[g][n].FID) >= CellOf(g, R[i][j].FID) + 2^k
        BY <1>6, <2>1, <2>4
      <3> DEFINE d == R[i][j].FID
                 c == R[g][n].FID
      <3>2. d \in Nat /\ c \in Nat
        BY <1>3, <2>1, <2>4, <3>1
      <3>3. CellOf(g, c) <= l[g] /\ CellOf(g, c) >= CellOf(g, d) + 2^k
        BY <2>2, <3>1
      <3>4. \A h \in Windows : h < g => CellOf(h, c) <= l[h] - 2^k
        BY <2>2, <3>1
      <3>5. CellOf(i, d) = CellOf(g, d) \div 2^ALPHA
        <4> HIDE DEF d, g
        <4> QED
          BY <2>1, <3>2, NextCell
      <3>6. CellOf(g, c) \in Nat /\ CellOf(g, d) \in Nat
        BY <1>4, <2>1, <3>2
      <3> HIDE DEF d, c, g
      <3>7. CellOf(g, d) <= l[g] - 2^k
        BY <1>5, <2>3, <3>3, <3>6
      <3>8. CellOf(i, d) <= l[i]
        <4>1. l[g] - 2^k \in Int
          BY <1>5, <2>3
        <4>2. CellOf(g, d) \div 2^ALPHA <= (l[g] - 2^k) \div 2^ALPHA
          BY <1>5, <3>6, <3>7, <4>1, DivMonotonic
        <4> QED
          BY <2>3, <3>5, <4>2
      <3>9. d < c
        <4> SUFFICES ASSUME c <= d
                     PROVE  FALSE
          BY <3>2
        <4>1. CellOf(g, c) <= CellOf(g, d)
          BY <2>1, <3>2, CellMonotonic
        <4> QED
          BY <1>5, <3>3, <3>6, <4>1
      <3>10. ASSUME NEW h \in Windows, h < i
             PROVE  CellOf(h, d) <= l[h] - 2^k
        <4>1. CASE h = g
          BY <3>7, <4>1
        <4>2. CASE h < g
          <5>1. CellOf(h, d) <= CellOf(h, c)
            BY <3>2, <3>9, CellMonotonic
          <5>2. CellOf(h, c) <= l[h] - 2^k
            BY <3>4, <4>2
          <5>3. /\ CellOf(h, d) \in Nat /\ CellOf(h, c) \in Nat
                /\ l[h] - 2^k \in Int
            BY <1>2, <1>4, <1>5, <3>2
          <5> QED
            BY <5>1, <5>2, <5>3
        <4> QED
          BY <2>1, <3>10, <4>1, <4>2
      <3> QED
        BY <3>8, <3>10 DEF d
    <2> QED
      BY <1>1, <2>4
  <1>9. \A i \in 0 .. N : i \in S
    <2> HIDE DEF S, N
    <2> QED
      BY <1>1, <1>7, <1>8, InductionUpTo
  <1>10. \A i \in Windows : U(i) /\ V(i)
    BY <1>1, <1>9
  <1> QED
    BY <1>2, <1>10 DEF R, l

----------------------------------------------------------------------------
(* The filter, before the first overflow.                                  *)

\* A window has at least two cycles of time stamps.
LEMMA Cycles ==
  ASSUME PowersOfTwo, NEW i \in Windows
  PROVE  /\ 2^(tts_bit - k - i * ALPHA) \in Nat /\ 2^(tts_bit - k - i * ALPHA) >= 2
         /\ 2^(TsBits - TrimmedBits(i)) = 2^k * 2^(tts_bit - k - i * ALPHA)
  <1> DEFINE e == tts_bit - k - i * ALPHA
  <1>1. i \in Nat /\ i <= T - 1
    BY Parameters DEF Windows
  <1>2. i * ALPHA \in Nat /\ i * ALPHA = ALPHA * i /\ ALPHA * i <= ALPHA * (T - 1)
    BY <1>1, Parameters
  <1>3. e \in Nat \ {0} /\ TsBits - TrimmedBits(i) = k + e
    BY <1>2, Parameters DEF tts_bit, TrimmedBits
  <1> HIDE DEF e
  <1>4. 2^e \in Nat /\ 2^e >= 2
    BY <1>3, Powers
  <1>5. 2^(TsBits - TrimmedBits(i)) = 2^k * 2^e
    BY <1>3, Parameters DEF PowersOfTwo
  <1> QED
    BY <1>4, <1>5 DEF e

\* What the filter retains is less than a cycle older than the latest: up to its
\* index it is of its cycle, and after it of the one before.
LEMMA LastCycle ==
  ASSUME PowersOfTwo, NEW i \in Windows, NEW tts \in Nat, NEW latest \in Int,
         tts <= latest, latest < 2^(TsBits - TrimmedBits(i)),
         \/ CID(tts) = CID(latest)
         \/ /\ CIDMask(i, CID(tts) + 1) = CIDMask(i, CID(latest))
            /\ tts % 2^k > latest % 2^k
  PROVE  latest - 2^k < tts /\ CID(tts) <= CID(latest)
  <1> DEFINE K == 2^k
             m == 2^(tts_bit - k - i * ALPHA)
             p == CID(tts)
             q == CID(latest)
             r == tts % K
             l == latest % K
  <1>1. /\ K \in Nat \ {0} /\ m \in Nat \ {0} /\ m >= 2 /\ latest < K * m
        /\ latest \in Nat
    BY Cycles, Sizes
  <1>2. /\ p \in Nat /\ r \in Nat /\ r < K /\ tts = p * K + r
        /\ q \in Nat /\ l \in Nat /\ l < K /\ latest = q * K + l
    <2> HIDE DEF K
    <2>1. /\ tts \div K \in Nat /\ r \in Nat /\ r < K
          /\ tts = (tts \div K) * K + r
      BY <1>1, Divided
    <2>2. /\ latest \div K \in Nat /\ l \in Nat /\ l < K
          /\ latest = (latest \div K) * K + l
      BY <1>1, Divided
    <2> QED
      BY <2>1, <2>2 DEF CID, K
  <1>3. q < m /\ p <= q
    <2> HIDE DEF K, m
    <2>1. latest \div K < m
      BY <1>1, DivBelow
    <2>2. tts \div K <= latest \div K
      BY <1>1, DivMonotonic
    <2> QED
      BY <2>1, <2>2 DEF CID, K
  <1>4. \/ p = q
        \/ (p + 1) % m = q % m /\ r > l
    BY DEF CIDMask
  <1> HIDE DEF K, m, p, q, r, l
  <1>5. p * K \in Int /\ (p + 1) * K = p * K + K
    BY <1>1, <1>2
  <1>6. CASE p = q
    BY <1>1, <1>2, <1>3, <1>5, <1>6 DEF K, p, q
  <1>7. CASE p # q
    <2>1. q % m = q
      BY <1>1, <1>2, <1>3, ModSmall
    <2>2. p + 1 \in Nat /\ p + 1 < m
      BY <1>1, <1>2, <1>3, <1>7
    <2>3. (p + 1) % m = p + 1
      BY <1>1, <2>2, ModSmall
    <2>4. q = p + 1 /\ r > l
      BY <1>4, <1>7, <2>1, <2>3
    <2>5. latest = p * K + K + l
      BY <1>2, <1>5, <2>4
    <2> QED
      BY <1>1, <1>2, <1>3, <1>5, <2>4, <2>5 DEF K, p, q
  <1> QED
    BY <1>6, <1>7

LEMMA RetainedIs ==
  ASSUME PowersOfTwo, NEW i \in Windows, NEW window \in [Indices -> Cells],
         NEW latest \in Int, latest < 2^(TsBits - TrimmedBits(i)), NEW wraps,
         \A j \in Indices : window[j] # Empty =>
           window[j].tts <= latest /\ window[j].tts % 2^k = j,
         NEW c \in Retained(window, i, latest, latest % 2^k, wraps)
  PROVE  /\ c.twid = i /\ c.wrap = wraps
         /\ \E j \in Indices : /\ window[j] # Empty
                              /\ c.FID = window[j].FID /\ c.tts = window[j].tts
                              /\ latest - 2^k < window[j].tts
  <1> DEFINE idx   == latest % 2^k
             upTo  == {j \in 0 .. idx : /\ window[j].FID # NoFID
                                        /\ CID(window[j].tts) = CID(latest)}
             after == {j \in idx + 1 .. 2^k - 1 :
                         /\ window[j].FID # NoFID
                         /\ CIDMask(i, CID(window[j].tts) + 1) = CIDMask(i, CID(latest))}
  <1>1. PICK j \in upTo \cup after :
          c = [FID |-> window[j].FID, tts |-> window[j].tts, twid |-> i,
               wrap |-> IF j \in after /\ CID(window[j].tts) > CID(latest)
                          THEN wraps - 1 ELSE wraps]
    BY DEF Retained
  <1>2. idx \in Indices
    BY Sizes DEF Indices
  <1>3. j \in Indices /\ window[j] # Empty
    <2>1. window[j].FID # NoFID
      OBVIOUS
    <2>2. Empty.FID = NoFID
      BY DEF Empty
    <2>3. j \in Indices
      BY <1>2, Sizes DEF Indices
    <2> QED
      BY <2>1, <2>2, <2>3
  <1>4. /\ window[j].tts \in Nat /\ window[j].tts <= latest
        /\ window[j].tts % 2^k = j
    BY <1>3 DEF Cells
  <1>5. \/ CID(window[j].tts) = CID(latest)
        \/ /\ CIDMask(i, CID(window[j].tts) + 1) = CIDMask(i, CID(latest))
           /\ window[j].tts % 2^k > latest % 2^k
    <2>1. CASE j \in upTo
      BY <2>1
    <2>2. CASE j \in after
      <3>1. j > idx
        BY <1>2, <2>2, Sizes DEF Indices
      <3> QED
        BY <1>4, <2>2, <3>1
    <2> QED
      BY <2>1, <2>2
  <1> HIDE DEF after, upTo, idx
  <1>6. /\ latest - 2^k < window[j].tts
        /\ CID(window[j].tts) <= CID(latest)
    BY <1>4, <1>5, LastCycle
  <1>7. ~(CID(window[j].tts) > CID(latest))
    <2>1. CID(window[j].tts) \in Int /\ CID(latest) \in Int
      BY <1>4, Sizes DEF CID
    <2> QED
      BY <1>6, <2>1
  <1> QED
    BY <1>1, <1>3, <1>6, <1>7

\* Before the first overflow no overflow is counted, and every record retained
\* holds the cell of its packet.
SetsEarly ==
  /\ wrapping = 0
  /\ pre_largest_tts \in Nat /\ pre_largest_tts + 2^threshold_bit < 2^tts_bit
  /\ origin \in {NoOrigin, 0}
  /\ TW_result # {} => origin = 0
  /\ \A c \in TW_result : /\ c.twid \in Windows /\ c.wrap = 0 /\ c.FID \in Nat
                         /\ c.tts = CellOf(c.twid, c.FID)

EarlyInv == WindowInv /\ RecordsFollow /\ SetsEarly /\ WindowsOrdered

LEMMA PollEarly ==
  ASSUME PowersOfTwo, BeforeOverflow, EarlyInv, Poll
  PROVE  SetsEarly' /\ WindowsOrdered'
  <1> DEFINE R == tw_r[second_highest]
             r == LargestCell(R[0])
             l == LargestTts(r.tts)
             none == \A i \in Windows, j \in Indices : R[i][j].FID = NoFID
             across == r.wraps = 0 /\ Overflowed(pre_largest_tts, r.tts)
  <1>1. CASE none
    <2>1. /\ TW_result' = {} /\ wrapping' = wrapping
          /\ pre_largest_tts' = pre_largest_tts /\ origin' = origin
      BY <1>1 DEF Poll
    <2> QED
      BY <2>1 DEF EarlyInv, SetsEarly, WindowsOrdered, CellOf
  <1>2. CASE ~none
    <2>1. /\ wrapping' = wrapping + r.wraps + (IF across THEN 1 ELSE 0)
          /\ pre_largest_tts' = r.tts
          /\ TW_result' = UNION {Retained(R[i], i, l[i], IF i = 0 THEN r.idx ELSE l[i] % 2^k,
                                          wrapping') : i \in Windows}
          /\ origin' = IF origin # NoOrigin THEN origin
                       ELSE (R[0][r.idx].FID \div 2^TsBits) - wrapping'
      BY <1>2 DEF Poll
    <2>2. /\ second_highest \in Quarters /\ 0 \in Windows
          /\ R \in [Windows -> [Indices -> Cells]]
      BY Parameters DEF EarlyInv, WindowInv, WindowTypes
    <2>3. /\ r.tts \in Nat /\ r.tts + 2^threshold_bit < 2^tts_bit /\ r.wraps = 0
          /\ r.idx \in Indices /\ r.idx = r.tts % 2^k
          /\ \A j \in Indices : R[0][j] # Empty => CellOf(0, R[0][j].FID) <= r.tts
          /\ (\E i \in Windows, j \in Indices : R[i][j] # Empty) => R[0][r.idx] # Empty
      BY <2>2, LatestEarly DEF EarlyInv
    <2>4. \A i \in Windows, j \in Indices : R[i][j] # Empty =>
            /\ R[i][j].FID \in Nat /\ R[i][j].tts = CellOf(i, R[i][j].FID)
            /\ R[i][j].tts % 2^k = j /\ R[i][j].FID \div 2^TsBits = 0
      <3> TAKE i \in Windows, j \in Indices
      <3> HAVE R[i][j] # Empty
      <3>1. Genuine(i, R[i][j], now) /\ R[i][j].tts % 2^k = j
        BY <2>2 DEF EarlyInv, WindowInv, RecordsGenuine
      <3>2. R[i][j].FID \in Nat
        BY <3>1 DEF Genuine
      <3> HIDE DEF R
      <3> QED
        BY <3>1, <3>2, EarlyRecord
    <2>5. r.tts < 2^tts_bit
      BY <2>3, Threshold
    <2>6. /\ l \in [Windows -> Int] /\ l[0] = r.tts
          /\ \A i \in Windows : l[i] < 2^(TsBits - TrimmedBits(i))
          /\ \A i \in Windows, j \in Indices : R[i][j] # Empty =>
               /\ CellOf(i, R[i][j].FID) <= l[i]
               /\ \A h \in Windows : h < i => CellOf(h, R[i][j].FID) <= l[h] - 2^k
      <3> HIDE DEF r
      <3> QED
        BY <2>2, <2>3, <2>5, LatestBounds, LargestTtsBelow DEF EarlyInv
    <2>7. wrapping' = 0
      <3> DEFINE h == 2^threshold_bit
                 m == 2^tts_bit
                 p == pre_largest_tts
      <3>1. h \in Nat /\ m \in Nat /\ p \in Nat /\ p + h < m /\ wrapping = 0
        BY Threshold DEF EarlyInv, SetsEarly
      <3>2. ~(m + r.tts - p < h)
        <4> HIDE DEF h, m, p, r
        <4> QED
          BY <2>3, <3>1
      <3>3. ~across
        BY <3>2 DEF Overflowed
      <3> HIDE DEF across, r
      <3> QED
        BY <2>1, <2>3, <3>1, <3>3
    <2>8. origin' = 0
      <3>1. CASE origin # NoOrigin
        BY <2>1, <3>1 DEF EarlyInv, SetsEarly
      <3>2. CASE origin = NoOrigin
        <4>1. \E i \in Windows, j \in Indices : R[i][j] # Empty
          BY <1>2 DEF Empty
        <4>2. R[0][r.idx].FID \div 2^TsBits = 0
          BY <2>2, <2>3, <2>4, <4>1
        <4> HIDE DEF R, r
        <4> QED
          BY <2>1, <2>7, <3>2, <4>2
      <3> QED
        BY <3>1, <3>2
    <2> HIDE DEF R, r, l, none, across
    <2>9. ASSUME NEW c \in TW_result'
          PROVE  /\ c.twid \in Windows /\ c.wrap = 0
                 /\ \E j \in Indices :
                      /\ R[c.twid][j] # Empty
                      /\ c.FID = R[c.twid][j].FID /\ c.tts = R[c.twid][j].tts
                      /\ l[c.twid] - 2^k < c.tts
      <3>1. PICK i \in Windows :
              c \in Retained(R[i], i, l[i], IF i = 0 THEN r.idx ELSE l[i] % 2^k, 0)
        BY <2>1, <2>7
      <3>2. c \in Retained(R[i], i, l[i], l[i] % 2^k, 0)
        BY <2>3, <2>6, <3>1
      <3>3. /\ R[i] \in [Indices -> Cells] /\ l[i] \in Int
            /\ l[i] < 2^(TsBits - TrimmedBits(i))
            /\ \A j \in Indices : R[i][j] # Empty =>
                 R[i][j].tts <= l[i] /\ R[i][j].tts % 2^k = j
        BY <2>2, <2>4, <2>6
      <3>4. /\ c.twid = i /\ c.wrap = 0
            /\ \E j \in Indices : /\ R[i][j] # Empty
                                 /\ c.FID = R[i][j].FID /\ c.tts = R[i][j].tts
                                 /\ l[i] - 2^k < R[i][j].tts
        BY <3>2, <3>3, RetainedIs
      <3> QED
        BY <3>4
    <2>10. \A c \in TW_result' : /\ c.twid \in Windows /\ c.wrap = 0 /\ c.FID \in Nat
                               /\ c.tts = CellOf(c.twid, c.FID)
      BY <2>4, <2>9
    <2>11. SetsEarly'
      BY <2>1, <2>3, <2>7, <2>8, <2>10 DEF SetsEarly, CellOf
    <2>12. WindowsOrdered'
      <3> SUFFICES ASSUME NEW c \in TW_result', NEW d \in TW_result',
                          c.twid < d.twid, c.FID <= d.FID
                   PROVE  FALSE
        BY <2>10 DEF WindowsOrdered
      <3> DEFINE h == c.twid
      <3>1. CellOf(h, d.FID) <= l[h] - 2^k
        BY <2>6, <2>9
      <3>2. CellOf(h, c.FID) > l[h] - 2^k
        BY <2>9, <2>10
      <3>3. h \in Windows /\ c.FID \in Nat /\ d.FID \in Nat
        BY <2>10
      <3>4. CellOf(h, c.FID) <= CellOf(h, d.FID)
        BY <3>3, CellMonotonic
      <3>5. /\ CellOf(h, c.FID) \in Nat /\ CellOf(h, d.FID) \in Nat
            /\ l[h] - 2^k \in Int
        BY <2>6, <3>3, StampOfCell, Sizes
      <3> QED
        BY <3>1, <3>2, <3>4, <3>5
    <2> QED
      BY <2>11, <2>12
  <1> QED
    BY <1>1, <1>2

LEMMA InitEarly ==
  ASSUME PowersOfTwo, ControllerInit
  PROVE  EarlyInv
  <1>1. WindowInv /\ RecordsFollow
    BY InitWindowInv, InitFollows
  <1>2. /\ wrapping = 0 /\ pre_largest_tts = 0 /\ TW_result = {} /\ origin = NoOrigin
    BY DEF ControllerInit
  <1>3. 0 + 2^threshold_bit < 2^tts_bit
    BY Threshold
  <1> QED
    BY <1>1, <1>2, <1>3 DEF EarlyInv, SetsEarly, WindowsOrdered

LEMMA NextEarly ==
  ASSUME PowersOfTwo, BeforeOverflow, EarlyInv, [Next]_vars
  PROVE  EarlyInv'
  <1>1. WindowInv'
    BY NextWindowInv DEF EarlyInv
  <1>2. Packet => Recent
    <2> SUFFICES ASSUME Packet, NEW q \in Quarters, NEW i \in Windows, NEW j \in Indices,
                        tw_r[q][i][j] # Empty
                 PROVE  now - tw_r[q][i][j].FID <= 2^TsBits
      BY DEF Recent
    <2>1. now \in Nat /\ now < Duration
      BY DEF Packet, EarlyInv, WindowInv, WindowTypes
    <2>2. tw_r[q][i][j].FID \in Nat
      BY DEF EarlyInv, WindowInv, RecordsGenuine, Genuine
    <2>3. 2^(TW0_TB + threshold_bit) \in Nat /\ 2^TsBits \in Nat /\ Duration \in Nat
      BY Threshold, Parameters, Powers, WindowsAssumption
    <2> QED
      BY <2>1, <2>2, <2>3 DEF BeforeOverflow
  <1>3. RecordsFollow'
    BY <1>2, NextFollows DEF EarlyInv
  <1>4. CASE Poll
    BY <1>1, <1>3, <1>4, PollEarly DEF EarlyInv
  <1>5. CASE ~Poll
    <2>1. UNCHANGED <<wrapping, pre_largest_tts, TW_result, used_since, origin>>
      BY <1>5 DEF Next, Traffic, vars
    <2>2. SetsEarly' /\ WindowsOrdered'
      BY <2>1 DEF EarlyInv, SetsEarly, WindowsOrdered, CellOf
    <2> QED
      BY <1>1, <1>3, <2>2 DEF EarlyInv
  <1> QED
    BY <1>4, <1>5

LEMMA EarlyIsTrue ==
  ASSUME PowersOfTwo, EarlyInv
  PROVE  RetainedTrue
  <1> SUFFICES ASSUME NEW c \in TW_result
               PROVE  c.FID \div 2^TrimmedBits(c.twid)
                        = c.tts + (c.wrap + origin) * 2^(TsBits - TrimmedBits(c.twid))
    BY DEF RetainedTrue
  <1>1. /\ c.twid \in Windows /\ c.wrap = 0 /\ c.FID \in Nat /\ origin = 0
        /\ c.tts = CellOf(c.twid, c.FID)
    BY DEF EarlyInv, SetsEarly
  <1>2. 2^(TsBits - TrimmedBits(c.twid)) \in Nat /\ c.tts \in Nat
    BY <1>1, WindowSizes, StampOfCell
  <1> QED
    BY <1>1, <1>2 DEF CellOf

LEMMA EarlyIsInvariant ==
  ASSUME PowersOfTwo, BeforeOverflow
  PROVE  Spec => []EarlyInv
  <1>1. ControllerInit => EarlyInv
    BY InitEarly
  <1>2. EarlyInv /\ [Next]_vars => EarlyInv'
    BY NextEarly
  <1> QED
    BY <1>1, <1>2, PTL DEF Spec

\* Until the time stamps come near their first overflow, what the filter retains of
\* an older window is older than all it retains of a newer one: the windows of a set
\* do not overlap, whatever earlier uses of the quarter left in them and however
\* long the port was silent.
THEOREM WindowsDoNotOverlap ==
  ASSUME PowersOfTwo, BeforeOverflow
  PROVE  Spec => []WindowsOrdered
  <1>1. EarlyInv => WindowsOrdered
    BY DEF EarlyInv
  <1> QED
    BY <1>1, EarlyIsInvariant, PTL

\* Until then, too, every record retained is given the time of its packet: neither
\* the scan nor the step from one set to the next takes a silence for an overflow.
THEOREM NoOverflowInvented ==
  ASSUME PowersOfTwo, BeforeOverflow
  PROVE  Spec => []RetainedTrue
  <1>1. EarlyInv => RetainedTrue
    BY EarlyIsTrue
  <1> QED
    BY <1>1, EarlyIsInvariant, PTL

=============================================================================
