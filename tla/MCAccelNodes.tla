---------------------------- MODULE MCAccelNodes ----------------------------
(***************************************************************************)
(* Instances of AccelNodes for TLC.                                        *)
(***************************************************************************)
EXTENDS AccelNodes, TLC

Symmetry == Permutations(APs) \cup Permutations(RTs)

=============================================================================
