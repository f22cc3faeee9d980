------------------------------ MODULE MCServer ------------------------------
(* Instance of Server for TLC: interchangeable endpoints. *)
EXTENDS ServerProperties, TLC

Symmetry == Permutations(Endpoint)
=============================================================================
