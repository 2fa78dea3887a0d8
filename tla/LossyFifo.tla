----------------------------- MODULE LossyFifo -----------------------------
(***************************************************************************)
(* What the link layer promises to the network layer: what it hands over   *)
(* are datagrams that were transmitted, in the order of transmission and   *)
(* none twice; some may be missing.  Datagrams are numbered from 0 in the  *)
(* order of transmission.                                                  *)
(***************************************************************************)
EXTENDS Integers

VARIABLES
    transmitted,            \* number of datagrams given to the link
    received                \* the datagram handed over last, -1 at first

channel == <<transmitted, received>>

Init == transmitted = 0 /\ received = -1

Transmit == transmitted' = transmitted + 1 /\ UNCHANGED received

Receive ==
    /\ received' \in (received + 1) .. (transmitted - 1)
    /\ UNCHANGED transmitted

Next == Transmit \/ Receive

Spec == Init /\ [][Next]_channel

=============================================================================
