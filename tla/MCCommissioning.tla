-------------------------- MODULE MCCommissioning ---------------------------
(* Two tasks compete for the slot; a retry meets the device as it was left.*)
EXTENDS Commissioning

=============================================================================
