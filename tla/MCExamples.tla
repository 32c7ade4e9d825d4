----------------------------- MODULE MCExamples -----------------------------
(* Instances of the example pages for TLC.                                   *)
EXTENDS Examples

(* The live query watches both channels.                                     *)
AllChannels == [q \in Queries |-> Channels]

(* The leave board: one manager, and a week that all requests fall in.  Ava's *)
(* first request is submitted, the manager's own is approved, as in the       *)
(* database's seed; the second is yet to be made.                            *)
Maya == [e \in Employees |-> "maya"]
OneWeek == [r \in Requests |-> 1]
SeedRows ==
    [r1 |-> [owner |-> "ava", status |-> "submitted"],
     r2 |-> NoRequest,
     r3 |-> [owner |-> "maya", status |-> "approved"]]
=============================================================================
