-------------------------------- MODULE MCReplay --------------------------------
(* Two UEs, each with any three events of a trace, in any order.               *)
EXTENDS Replay, TLC

AnyThree == [1..3 -> {"attach", "measurement", "release"}]
Symmetry == Permutations(UEs)
=============================================================================
