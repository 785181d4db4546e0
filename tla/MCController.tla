---------------------------- MODULE MCController ----------------------------
(***************************************************************************)
(* Instances of Controller for TLC.  Networks, hubs and requests are       *)
(* interchangeable, so the safety runs use their permutations.             *)
(***************************************************************************)
EXTENDS Controller, TLC

Symmetry ==
  Permutations(Networks) \cup Permutations(Hubs) \cup Permutations(Requests)

=============================================================================
