------------------------------ MODULE Channel ------------------------------
(***************************************************************************)
(* What one direction of a byte stream promises: "Each upgraded client     *)
(* bidirectional stream is raw bytes" (docs/protocol.md).  The chunks      *)
(* come out one by one in the order they went in, none twice and none      *)
(* skipped; nothing goes in after the writer's end; and as long as nothing *)
(* has broken, the reader sees that end only behind the last chunk.        *)
(*                                                                         *)
(* A channel that breaks may stop where it is and may show an end, but     *)
(* what it has delivered, and still delivers, is in order and without gaps.*)
(***************************************************************************)
EXTENDS Naturals, Sequences

CONSTANT
    Chunk       \* what is sent

VARIABLES
    sent,       \* the chunks the writer has put in, in order
    got,        \* the chunks the reader has taken out, in order
    ended,      \* the writer will put in no more
    seen,       \* the reader has seen the end
    broken      \* something other than an orderly end has happened

vars == <<sent, got, ended, seen, broken>>

Init ==
    /\ sent = <<>>
    /\ got = <<>>
    /\ ended = FALSE
    /\ seen = FALSE
    /\ broken = FALSE

Send(chunk) ==
    /\ ~ended
    /\ sent' = Append(sent, chunk)
    /\ UNCHANGED <<got, ended, seen, broken>>

Deliver ==
    /\ ~seen
    /\ Len(got) < Len(sent)
    /\ got' = Append(got, sent[Len(got) + 1])
    /\ UNCHANGED <<sent, ended, seen, broken>>

End ==
    /\ ~ended
    /\ ended' = TRUE
    /\ UNCHANGED <<sent, got, seen, broken>>

SeeEnd ==
    /\ ~seen
    /\ broken \/ (ended /\ got = sent)
    /\ seen' = TRUE
    /\ UNCHANGED <<sent, got, ended, broken>>

(* What breaks the channel may end it for its writer and its reader.        *)
Break ==
    /\ ~broken
    /\ broken' = TRUE
    /\ ended' \in {ended, TRUE}
    /\ seen' \in {seen, TRUE}
    /\ UNCHANGED <<sent, got>>

Next ==
    \/ \E chunk \in Chunk : Send(chunk)
    \/ Deliver
    \/ End
    \/ SeeEnd
    \/ Break

Spec == Init /\ [][Next]_vars
-----------------------------------------------------------------------------
(* What the promise comes to: nothing but a beginning of what was sent is   *)
(* ever taken out, and the end of an unbroken channel is seen behind all of *)
(* it.  The socket and the tunnel have both of it because they are channels *)
(* (socket.ts:57-140, proxy.go:40-80).                                      *)
InOrder ==
    /\ Len(got) <= Len(sent)
    /\ \A i \in 1..Len(got) : got[i] = sent[i]

EndBehindAll == seen /\ ~broken => ended /\ got = sent
=============================================================================
