-------------------------- MODULE MCInterpolation --------------------------
(* Instance of Interpolation for TLC: one player at rest or moving by the   *)
(* tick, a buffer that overflows.                                           *)
EXTENDS InterpolationProperties

CONSTANT p1
=============================================================================
