------------------------------ MODULE MCRlcThreads ------------------------------
(* RlcThreads for TLC: three SDUs in two slots. *)
EXTENDS RlcThreads
Sizes == <<3, 1, 1>>
=============================================================================
