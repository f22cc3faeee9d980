----------------------------- MODULE MCSession -----------------------------
(* Instance of Session for TLC; the bounds are in the .cfg files. *)
EXTENDS SessionProperties
=============================================================================
