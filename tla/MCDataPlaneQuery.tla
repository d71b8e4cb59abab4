-------------------------- MODULE MCDataPlaneQuery --------------------------
(* Small instances of DataPlaneQuery.                                      *)
EXTENDS DataPlaneQuery

CONSTANTS c1, c2

OneContent  == {c1}
TwoContents == {c1, c2}

NoEvents   == {}
Stop       == {"stop"}
LostSignal == {"stop", "lost signal"}
ReadError  == {"read error"}
=============================================================================
