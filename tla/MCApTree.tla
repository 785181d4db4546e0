------------------------------ MODULE MCApTree ------------------------------
(***************************************************************************)
(* Instances of ApTree for TLC.                                            *)
(***************************************************************************)
EXTENDS ApTree

=============================================================================
