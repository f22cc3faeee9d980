--------------------------- MODULE MCGameSession ---------------------------
(* Instance of GameSession for TLC: the first match in .text refers to an   *)
(* address outside the image.                                               *)
EXTENDS GameSessionProperties

CONSTANTS outside, registry, startPos

MCMatches == <<outside, registry>>
=============================================================================
