--------------------------- MODULE MCServerLifecycle ---------------------------
(* Instances of ServerLifecycle for TLC. *)
EXTENDS ServerLifecycle, TLC

\* Server objects are interchangeable as long as none or all of them expire.
ServerSymmetry == Permutations(Servers)
=============================================================================
