------------------------------- MODULE MCFleet -------------------------------
(***************************************************************************)
(* Fleet on small bounds; the values are in the configurations.            *)
(***************************************************************************)
EXTENDS Fleet
=============================================================================
