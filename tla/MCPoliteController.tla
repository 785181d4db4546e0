------------------------- MODULE MCPoliteController -------------------------
(***************************************************************************)
(* Instances of PoliteController for TLC.                                  *)
(***************************************************************************)
EXTENDS PoliteController, TLC

Symmetry ==
  Permutations(Networks) \cup Permutations(Hubs) \cup Permutations(Requests)

=============================================================================
