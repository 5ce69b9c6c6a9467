-------------------------------- MODULE MCF1Link --------------------------------
(* Three serve_ue coroutines and three connections: one the reader task may    *)
(* still be on, one being given up, one new.                                   *)
EXTENDS F1Link
=============================================================================
