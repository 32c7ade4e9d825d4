--------------------------- MODULE MCSocketQueue ---------------------------
(* Instances of SocketQueue for TLC.                                       *)
EXTENDS SocketQueue

(* An empty chunk, one that alone stays below High, one that reaches it.   *)
SmallSizes == {0, 1, 2}
=============================================================================
