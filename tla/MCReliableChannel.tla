------------------------- MODULE MCReliableChannel -------------------------
(* Instance of ReliableChannel for TLC; the bounds are in the .cfg files. *)
EXTENDS ReliableChannel
=============================================================================
