----------------------------- MODULE MCLifespan -----------------------------
(***************************************************************************)
(* Instances of Lifespan for TLC.                                          *)
(***************************************************************************)
EXTENDS Lifespan

=============================================================================
