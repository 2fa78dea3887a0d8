--------------------------- MODULE ReliableStream ---------------------------
(***************************************************************************)
(* What the transport layer promises (design paper, "Reliable Data         *)
(* Transfer"): every message is delivered to the application of its        *)
(* receiver, unchanged, once, and in the order of sending.                 *)
(***************************************************************************)
EXTENDS Sequences, Integers, Functions

CONSTANTS
    Node,           \* the nodes
    Peer(_),        \* the node a node exchanges messages with
    Message         \* the messages

VARIABLES
    sent,           \* sent[n]: the messages the application of n has sent
    delivered       \* delivered[n]: the messages handed to the application of n

streams == <<sent, delivered>>

Init ==
    /\ sent = [n \in Node |-> <<>>]
    /\ delivered = [n \in Node |-> <<>>]

\* Any message; it is looked for among those sent so far, because Message may
\* be infinite.
Send(n) ==
    /\ \E m \in Range(sent'[n]) \cap Message : sent' = [sent EXCEPT ![n] = Append(@, m)]
    /\ UNCHANGED delivered

\* One segment may complete several messages at once.
Deliver(n) ==
    /\ \E k \in 1 .. (Len(sent[Peer(n)]) - Len(delivered[n])) :
        delivered' = [delivered EXCEPT
                        ![n] = SubSeq(sent[Peer(n)], 1, Len(@) + k)]
    /\ UNCHANGED sent

Next == \E n \in Node : Send(n) \/ Deliver(n)

Spec == Init /\ [][Next]_streams

Delivery == \A n \in Node : WF_streams(Deliver(n))

ReliableSpec == Spec /\ Delivery

=============================================================================
