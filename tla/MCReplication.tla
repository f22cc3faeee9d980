--------------------------- MODULE MCReplication ---------------------------
(* Instance of Replication for TLC: with both players in range the place 2  *)
(* is crowded, the others are not.                                          *)
EXTENDS ReplicationProperties

CONSTANTS p, q

MCBystander == <<2>>
=============================================================================
