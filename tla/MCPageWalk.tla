----------------------------- MODULE MCPageWalk -----------------------------
(* Small instances of PageWalk for TLC.                                    *)
EXTENDS PageWalk

Less(i, j) == i < j
FourIds == 1 .. 4
Sizes == {-1, 0, 1, 2, 3, 4}
=============================================================================
