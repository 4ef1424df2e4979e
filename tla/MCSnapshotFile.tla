--------------------------- MODULE MCSnapshotFile ---------------------------
(* Instances of SnapshotFile: two processes with one provider each, and one *)
(* process with two providers.                                              *)
EXTENDS SnapshotFile, TLC

CONSTANTS w1, w2, p1, p2

OneEach     == (w1 :> p1 @@ w2 :> p2)
BothInFirst == (w1 :> p1 @@ w2 :> p1)
=============================================================================
