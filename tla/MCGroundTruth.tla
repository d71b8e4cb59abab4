--------------------------- MODULE MCGroundTruth ---------------------------
(* A small clock and small files.                                          *)
EXTENDS GroundTruth

Frames  == {"other frame"}
=============================================================================
