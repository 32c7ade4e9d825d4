----------------------------- MODULE MCGateway -----------------------------
(* An instance of Gateway for TLC.  Two requests for one slot and two      *)
(* streams for one place: every limit is met and passed on.                *)
EXTENDS Gateway

CONSTANTS r1, r2, d1, d2

TwoRequests == {r1, r2}
TwoStreams  == {d1, d2}
=============================================================================
