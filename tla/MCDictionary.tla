----------------------------- MODULE MCDictionary -----------------------------
(* The instances of MCStack, with the dictionaries of the radio units.       *)
EXTENDS Dictionary, MCStack
=============================================================================
