--------------------------------- MODULE MCDU ---------------------------------
(* Three UEs, two sector cells of one site, two connections of its radio unit *)
(* (the second may be accepted before the first one's cleanup has run); the   *)
(* totals of a cell are followed up to MaxCount admissions.                   *)
EXTENDS DUCounters, TLC

MCCarried == [k \in Links |-> Cells]
Symmetry == Permutations(UEs) \cup Permutations(Cells) \cup Permutations(Links)
=============================================================================
