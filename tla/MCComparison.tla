---------------------------- MODULE MCComparison ----------------------------
(***************************************************************************)
(* Small comparisons: two levels, a few packets, three flows, and every    *)
(* way three hash functions can spread them over three cells, but for two  *)
(* cells of the first flow and which of the others comes first.            *)
(***************************************************************************)
EXTENDS Comparison

TwoLevels == <<2, 5>>

AnyHashes ==
  {f \in [1 .. 3 -> [Flows -> Cells]] :
     f[1][1] = 0 /\ f[2][1] = 1 /\ f[1][2] <= f[1][3]}
=============================================================================
