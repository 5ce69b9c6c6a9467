-------------------------------- MODULE MCIqHub --------------------------------
(* IqHub for TLC. *)
EXTENDS IqHub
TwoSlots == 0..1
=============================================================================
