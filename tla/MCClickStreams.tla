---------------------------- MODULE MCClickStreams ----------------------------
(* Instances of ClickStreams for TLC. *)
EXTENDS ClickStreams, TLC

AddressSymmetry == Permutations(Addresses)
=============================================================================
