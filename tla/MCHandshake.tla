---------------------------- MODULE MCHandshake ----------------------------
(* An instance of Handshake for TLC.                                       *)
EXTENDS Handshake

TwoVersions == {1, 2}
=============================================================================
