---------------------------- MODULE PacketStream ----------------------------
(***************************************************************************)
(* What a socket promises those who send through it: packets reach the     *)
(* network whole, each once, in the order in which the socket took them,   *)
(* and none after the connection ended for sending.                        *)
(***************************************************************************)
EXTENDS Integers, Sequences

CONSTANT Packet

VARIABLES
    taken,          \* the packets the socket took, in order
    sent,           \* those that reached the network, in order
    ended           \* whether the connection ended for sending

Init == taken = << >> /\ sent = << >> /\ ended = FALSE

Take(p) ==
    /\ \A k \in 1..Len(taken) : taken[k] # p
    /\ taken' = Append(taken, p)
    /\ UNCHANGED <<sent, ended>>

Send(n) ==
    /\ ~ended
    /\ n > Len(sent)
    /\ sent' = SubSeq(taken, 1, n)
    /\ UNCHANGED <<taken, ended>>

End ==
    /\ ended' = TRUE
    /\ UNCHANGED <<taken, sent>>

Next ==
    \/ \E p \in Packet : Take(p)
    \/ \E n \in 1..Len(taken) : Send(n)
    \/ End

Spec == Init /\ [][Next]_<<taken, sent, ended>>
=============================================================================
