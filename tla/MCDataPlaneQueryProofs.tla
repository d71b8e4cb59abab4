----------------------- MODULE MCDataPlaneQueryProofs -----------------------
(* Small instances on which the inductive invariant is checked.            *)
EXTENDS DataPlaneQueryProofs

CONSTANTS c1, c2

TwoContents == {c1, c2}
OneContent  == {c1}
LostSignal  == {"stop", "lost signal"}
=============================================================================
