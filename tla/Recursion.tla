----------------------------- MODULE Recursion -----------------------------
(***************************************************************************)
(* Facts that the other proofs need of the natural numbers: induction over *)
(* a set, functions defined by recursion from 0 up, as the loops of the    *)
(* source are modelled, and integer division.                              *)
(***************************************************************************)
EXTENDS Integers, WellFoundedInduction, TLAPS

----------------------------------------------------------------------------
(* Induction.                                                              *)

LEMMA Least ==
  ASSUME NEW S \in SUBSET Nat, S # {}
  PROVE  \E m \in S : \A n \in S : m <= n
  <1> DEFINE R == OpToRel(<, Nat)
  <1>1. PICK m \in S : \A n \in S : ~(<<n, m>> \in R)
    <2>1. IsWellFoundedOn(R, Nat)
      BY NatLessThanWellFounded
    <2> HIDE DEF R
    <2> QED
      BY <2>1, WFMin
  <1>2. \A n \in S : ~(n < m)
    BY <1>1 DEF OpToRel
  <1> QED
    BY <1>2

LEMMA Greatest ==
  ASSUME NEW N \in Nat, NEW S \in SUBSET (0 .. N), S # {}
  PROVE  \E m \in S : \A n \in S : n <= m
  <1> DEFINE B == {b \in Nat : \A n \in S : n <= b}
  <1>1. B \in SUBSET Nat /\ N \in B
    OBVIOUS
  <1>2. PICK m \in B : \A b \in B : m <= b
    BY <1>1, Least
  <1>3. CASE m \in S
    BY <1>2, <1>3
  <1>4. CASE m \notin S
    <2>1. \A n \in S : n <= m - 1 /\ n \in Nat
      BY <1>2, <1>4
    <2>2. PICK l \in S : l \in Nat /\ l <= m - 1
      BY <2>1
    <2>3. m - 1 \in B
      BY <1>2, <2>1, <2>2
    <2> QED
      BY <1>2, <2>3
  <1> QED
    BY <1>3, <1>4

LEMMA Induction ==
  ASSUME NEW S, 0 \in S, \A n \in Nat : n \in S => n + 1 \in S
  PROVE  \A n \in Nat : n \in S
  <1> SUFFICES ASSUME Nat \ S # {}
               PROVE  FALSE
    OBVIOUS
  <1>1. PICK m \in Nat \ S : \A n \in Nat \ S : m <= n
    BY Least
  <1>2. m - 1 \in Nat /\ m - 1 \in S
    BY <1>1
  <1>3. (m - 1) + 1 \in S
    BY <1>2
  <1> QED
    BY <1>1, <1>3

LEMMA InductionUpTo ==
  ASSUME NEW N \in Nat, NEW S, 0 \in S,
         \A n \in 1 .. N : n - 1 \in S => n \in S
  PROVE  \A n \in 0 .. N : n \in S
  <1> DEFINE U == S \cup {n \in Nat : n > N}
  <1>1. 0 \in U
    OBVIOUS
  <1>2. \A n \in Nat : n \in U => n + 1 \in U
    <2> SUFFICES ASSUME NEW n \in Nat, n \in U, n + 1 \notin U
                 PROVE  FALSE
      OBVIOUS
    <2>1. n + 1 \in 1 .. N /\ n \in S /\ (n + 1) - 1 = n
      OBVIOUS
    <2> QED
      BY <2>1
  <1>3. \A n \in Nat : n \in U
    <2> HIDE DEF U
    <2> QED
      BY <1>1, <1>2, Induction
  <1> QED
    BY <1>3

----------------------------------------------------------------------------
(* Recursion.                                                              *)

\* A function is given by its value at 0 and, from there, by the value before.
RecursionUpTo(N, f, v, step) ==
  f[0] = v /\ \A n \in 1 .. N : f[n] = step[<<n, f[n - 1]>>]

\* There is one: that a definition by recursion is a CHOOSE of it is no loss.
LEMMA Recursion ==
  ASSUME NEW V, NEW v \in V, NEW step \in [Nat \X V -> V], NEW N \in Nat
  PROVE  \E f \in [0 .. N -> V] : RecursionUpTo(N, f, v, step)
  <1> USE DEF RecursionUpTo
  <1> DEFINE Is(M, f) == RecursionUpTo(M, f, v, step)
             S == {M \in Nat : \E f \in [0 .. M -> V] : Is(M, f)}
  <1>1. 0 \in S
    <2>1. Is(0, [n \in 0 .. 0 |-> v])
      OBVIOUS
    <2> QED
      BY <2>1
  <1>2. ASSUME NEW M \in Nat, M \in S
        PROVE  M + 1 \in S
    <2>1. PICK f \in [0 .. M -> V] : Is(M, f)
      BY <1>2
    <2> DEFINE g == [n \in 0 .. M + 1 |->
                       IF n = M + 1 THEN step[<<M + 1, f[M]>>] ELSE f[n]]
    <2>2. g \in [0 .. M + 1 -> V]
      OBVIOUS
    <2>3. ASSUME NEW n \in 1 .. M + 1
          PROVE  g[n] = step[<<n, g[n - 1]>>]
      <3>1. CASE n = M + 1
        <4>1. n - 1 = M /\ g[M] = f[M]
          BY <3>1
        <4>2. g[n] = step[<<n, f[M]>>]
          BY <3>1
        <4> QED
          BY <4>1, <4>2
      <3>2. CASE n # M + 1
        <4>1. n \in 1 .. M /\ g[n] = f[n] /\ g[n - 1] = f[n - 1]
          BY <3>2
        <4>2. f[n] = step[<<n, f[n - 1]>>]
          BY <2>1, <4>1
        <4> QED
          BY <4>1, <4>2
      <3> QED
        BY <3>1, <3>2
    <2>4. Is(M + 1, g)
      <3>1. g[0] = v
        BY <2>1
      <3> QED
        BY <2>3, <3>1
    <2> HIDE DEF g, Is
    <2> QED
      BY <2>2, <2>4
  <1>3. N \in S
    <2> HIDE DEF S
    <2> QED
      BY <1>1, <1>2, Induction
  <1> QED
    BY <1>3

----------------------------------------------------------------------------
(* Division.                                                               *)

LEMMA DivMod ==
  ASSUME NEW a \in Int, NEW b \in Nat \ {0}
  PROVE  /\ a \div b \in Int /\ a % b \in 0 .. b - 1
         /\ (a \div b) * b <= a /\ a < (a \div b + 1) * b
         /\ a % b = a - (a \div b) * b
         /\ a \in Nat => a \div b \in Nat
  OBVIOUS

LEMMA Divided ==
  ASSUME NEW a \in Nat, NEW b \in Nat \ {0}
  PROVE  /\ a \div b \in Nat /\ a % b \in Nat /\ a % b < b
         /\ a = (a \div b) * b + (a % b)
  <1> DEFINE q == a \div b
             r == a % b
  <1>1. a \in Int
    OBVIOUS
  <1>2. q \in Nat /\ r \in 0 .. b - 1 /\ r = a - q * b
    BY <1>1, DivMod
  <1> HIDE DEF q, r
  <1>3. q * b \in Int
    BY <1>2
  <1>4. r \in Nat /\ r < b /\ a = q * b + r
    BY <1>2, <1>3
  <1> QED
    BY <1>2, <1>4 DEF q, r

LEMMA DivIs ==
  ASSUME NEW a \in Int, NEW b \in Nat \ {0}, NEW q \in Int,
         q * b <= a, a < (q + 1) * b
  PROVE  a \div b = q /\ a % b = a - q * b
  <1>1. a \div b = q
    OBVIOUS
  <1> QED
    BY <1>1, DivMod

LEMMA ModNegative ==
  ASSUME NEW a \in Int, NEW b \in Nat \ {0}, -b <= a, a < 0
  PROVE  a % b = a + b
  <1>1. (-1) * b <= a /\ a < (-1 + 1) * b /\ -1 \in Int
    OBVIOUS
  <1>2. a \div b = -1
    BY <1>1
  <1> QED
    BY <1>2, DivMod

LEMMA DivMonotonic ==
  ASSUME NEW a \in Int, NEW c \in Int, NEW b \in Nat \ {0}, a <= c
  PROVE  a \div b <= c \div b
  OBVIOUS

LEMMA DivDiv ==
  ASSUME NEW a \in Int, NEW b \in Nat \ {0}, NEW c \in Nat \ {0}
  PROVE  (a \div b) \div c = a \div (b * c)
  OBVIOUS

LEMMA DivShift ==
  ASSUME NEW a \in Int, NEW b \in Nat \ {0}, NEW c \in Int
  PROVE  (a + c * b) \div b = a \div b + c /\ (a + c * b) % b = a % b
  <1>1. (a + c * b) \div b = a \div b + c
    OBVIOUS
  <1> DEFINE q == a \div b
             d == c * b
  <1>2. q \in Int /\ d \in Int /\ a % b = a - q * b
    BY DivMod
  <1>3. (a + d) % b = (a + d) - (q + c) * b
    <2>1. (a + d) \div b = q + c
      BY <1>1
    <2>2. a + d \in Int
      BY <1>2
    <2> HIDE DEF q, d
    <2> QED
      BY <2>1, <2>2, DivMod
  <1>4. (q + c) * b = q * b + d
    BY <1>2
  <1>5. q * b \in Int
    BY <1>2
  <1> HIDE DEF q, d
  <1>6. (a + d) % b = a % b
    BY <1>2, <1>3, <1>4, <1>5
  <1> QED
    BY <1>1, <1>6 DEF q, d

LEMMA DivBelow ==
  ASSUME NEW a \in Nat, NEW b \in Nat \ {0}, NEW c \in Nat \ {0}, a < b * c
  PROVE  a \div b < c
  OBVIOUS

LEMMA ModSmall ==
  ASSUME NEW a \in Nat, NEW b \in Nat \ {0}, a < b
  PROVE  a % b = a /\ a \div b = 0
  OBVIOUS

LEMMA DivOfMod ==
  ASSUME NEW a \in Nat, NEW b \in Nat \ {0}, NEW c \in Nat \ {0}
  PROVE  (a % (b * c)) \div b = (a \div b) % c
  <1> DEFINE p == b * c
             x == a % p
             m == a \div p
             y == x \div b
             n == m * c
  <1>1. p \in Nat \ {0}
    OBVIOUS
  <1>2. \A u \in Nat : u * p = (u * c) * b /\ u * c \in Nat
    OBVIOUS
  <1>3. x \in 0 .. p - 1 /\ m \in Nat /\ x = a - m * p
    <2> HIDE DEF p
    <2>1. x \in 0 .. p - 1 /\ m \in Nat
      BY <1>1
    <2>2. x = a - m * p
      BY <1>1
    <2> QED
      BY <2>1, <2>2
  <1>4. n \in Nat /\ m * p = n * b
    BY <1>2, <1>3
  <1>5. x \in Nat /\ x < b * c
    BY <1>1, <1>3
  <1>6. y \in Nat /\ y < c
    <2> HIDE DEF x
    <2>1. y \in Nat
      BY <1>5
    <2> QED
      BY <1>5, <2>1, DivBelow
  <1>7. a = x + n * b
    <2> HIDE DEF x, m, n, p
    <2>1. m * p \in Int
      BY <1>1, <1>3
    <2> QED
      BY <1>3, <1>4, <1>5, <2>1
  <1>8. (x + n * b) \div b = y + n
    <2> HIDE DEF x, n
    <2> QED
      BY <1>4, <1>5
  <1>9. (y + n) % c = y
    <2>1. (y + m * c) % c = y % c
      <3> HIDE DEF y, m
      <3>1. y \in Int /\ m \in Int
        BY <1>3, <1>6
      <3> QED
        BY <3>1, DivShift, Zenon
    <2>2. y % c = y
      <3> HIDE DEF y
      <3> QED
        BY <1>6, ModSmall
    <2> QED
      BY <2>1, <2>2
  <1> QED
    BY <1>7, <1>8, <1>9

=============================================================================
