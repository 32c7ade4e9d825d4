--------------------------- MODULE SharedSession ---------------------------
(***************************************************************************)
(* What PgWebTransport promises its member sockets, free of every await.   *)
(*                                                                         *)
(* There is at most one session at a time.  A socket becomes a member of   *)
(* the session that is current when it joins, and stays a member until it  *)
(* leaves or the session is lost.  Losing the session takes every member   *)
(* with it, and a lost session never comes back: "a replacement session    *)
(* serves only new connections" (docs/protocol.md).                        *)
(***************************************************************************)
CONSTANTS
    Ids,        \* the names of sessions and of sockets
    None        \* no session

VARIABLES
    current,    \* the session new members join, or None
    used,       \* every session that was ever current
    members,    \* the sockets connected through the current session
    gone        \* the sockets that were members and will never be again

vars == <<current, used, members, gone>>

Init ==
    /\ current = None
    /\ used = {}
    /\ members = {}
    /\ gone = {}

Establish(o) ==
    /\ current = None
    /\ o \notin used
    /\ current' = o
    /\ used' = used \cup {o}
    /\ UNCHANGED <<members, gone>>

Join(s) ==
    /\ current # None
    /\ s \notin members \cup gone
    /\ members' = members \cup {s}
    /\ UNCHANGED <<current, used, gone>>

Leave(s) ==
    /\ s \in members
    /\ members' = members \ {s}
    /\ gone' = gone \cup {s}
    /\ UNCHANGED <<current, used>>

Lose ==
    /\ current # None
    /\ current' = None
    /\ members' = {}
    /\ gone' = gone \cup members
    /\ UNCHANGED used

Next ==
    \/ Lose
    \/ \E o \in Ids : Establish(o) \/ Join(o) \/ Leave(o)

Spec == Init /\ [][Next]_vars
=============================================================================
