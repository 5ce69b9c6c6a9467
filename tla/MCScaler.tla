-------------------------------- MODULE MCScaler --------------------------------
(* Up to four UEs, spawned one at a time, so that a scaling takes several      *)
(* batches; the target changes three times while that goes on.                 *)
EXTENDS Scaler
=============================================================================
