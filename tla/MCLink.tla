------------------------------- MODULE MCLink -------------------------------
(***************************************************************************)
(* Link for TLC, with the service it implements.                           *)
(***************************************************************************)
EXTENDS Link

\* A delivered buffer stands for the datagram whose frames it holds; a buffer
\* that is not a whole datagram is none that was transmitted.
Received ==
    IF delivered = <<>> THEN -1
    ELSE IF IsWhole(delivered) THEN LastDelivered
    ELSE transmitted

Service == INSTANCE LossyFifo WITH received <- Received

\* The link delivers whole datagrams, each at most once and in order.
LossyFifoSpec == Service!Spec

=============================================================================
