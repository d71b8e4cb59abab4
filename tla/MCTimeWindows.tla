--------------------------- MODULE MCTimeWindows ---------------------------
(***************************************************************************)
(* Small time windows.  Three of them cover 28 cells, 56 moments; a set is *)
(* polled after as long, or sooner.  The two starts differ in the bit that *)
(* is trimmed and put the overflow, at 2048, in a set or between two.      *)
(***************************************************************************)
EXTENDS TimeWindowQueries, TimeWindowsOverflow

NearOverflow == {1940, 1967}
AboutOneSet  == {40, 58}
Full         == <<1, 1>>
=============================================================================
