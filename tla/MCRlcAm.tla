-------------------------------- MODULE MCRlcAm --------------------------------
(* Small instances of module RlcAm.                                          *)
EXTENDS RlcAm, TLC

Lengths == <<1, 1, 2>>
TwoSdus == <<1, 1>>
=============================================================================
