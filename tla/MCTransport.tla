---------------------------- MODULE MCTransport ----------------------------
(* Instances of Transport for TLC.                                         *)
EXTENDS Transport, TLC

CONSTANTS s1, s2, s3

ThreeSockets == {s1, s2, s3}

(* Sockets are interchangeable: used where no liveness is checked.         *)
Symmetry3 == Permutations(ThreeSockets)

(* For liveness TLC must hold the state graph as a whole: s3 is the socket *)
(* the application never destroys; it ends by itself, with the session, or *)
(* by close().                                                             *)
TwoDestroyersNext ==
    \/ Close
    \/ Destroy(s1) \/ Destroy(s2)
    \/ \E s \in Sockets : Open(s) \/ SocketStep(s) \/ SessionStep(s)

TwoDestroyersSpec == Init /\ [][TwoDestroyersNext]_vars /\ Scheduling /\ Answers
=============================================================================
