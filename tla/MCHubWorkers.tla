---------------------------- MODULE MCHubWorkers ----------------------------
(***************************************************************************)
(* Instances of HubWorkers for TLC.                                        *)
(***************************************************************************)
EXTENDS HubWorkers

=============================================================================
