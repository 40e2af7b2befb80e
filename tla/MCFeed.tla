------------------------------- MODULE MCFeed -------------------------------
(* A small instance of Feed: three posts by two users, shown in two cells.   *)
EXTENDS Feed, TLC

ASSUME FeedConstants == FeedAssumption
Symmetry == Permutations(Cells)
=============================================================================
