----------------------------- MODULE MCLimiter -----------------------------
(* Instances of Limiter for TLC.                                           *)
EXTENDS Limiter, TLC

CONSTANTS k1, k2

TwoKeys == {k1, k2}
=============================================================================
