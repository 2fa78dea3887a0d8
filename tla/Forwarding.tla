----------------------------- MODULE Forwarding -----------------------------
(***************************************************************************)
(* Datagrams on their way through the network (network.c) while routes are *)
(* being found.  The losses of links are left to the link and transport    *)
(* layers; here the links keep the order and lose nothing.  Datagrams and  *)
(* announcements may overtake each other, which allows for more than the   *)
(* shared queue of a link does.                                            *)
(***************************************************************************)
EXTENDS DistanceVector, SequencesExt

CONSTANTS
    Flows,              \* the pairs of nodes that exchange datagrams
    HOP_LIMIT,          \* hops a datagram may travel (32)
    MaxDatagrams,       \* bound: datagrams of a flow
    MayMiss             \* bound: the nodes and links at which the first
                        \* announcement may be missed

ASSUME ForwardingAssumption ==
    /\ Flows \subseteq {f \in Node \X Node : f[1] # f[2]}
    /\ HOP_LIMIT \in Nat \ {0}
    /\ MaxDatagrams \in Nat
    /\ \A m \in MayMiss : m[1] \in Node /\ m[2] \in LinksOf(m[1])

VARIABLES
    wire,               \* wire[n][l]: datagrams that n has sent on link l
    sent,               \* sent[f]: number of datagrams of flow f
    unrouted,           \* unrouted[f]: how many of them their source has
                        \* dropped for want of a route
    received,           \* received[f]: numbers of those handed to the transport
                        \* layer of the destination, in order
    expired             \* a datagram has exceeded the hop limit

vars == <<dvVars, wire, sent, unrouted, received, expired>>

Init ==
    /\ DVInit
    /\ wire = [n \in Node |-> [l \in LinksOf(n) |-> <<>>]]
    /\ sent = [f \in Flows |-> 0]
    /\ unrouted = [f \in Flows |-> 0]
    /\ received = [f \in Flows |-> <<>>]
    /\ expired = FALSE

-----------------------------------------------------------------------------

\* routing_receive: the next announcement of a neighbour, or an acknowledgment
\* that is taken for the first.
Announcement(n, l) ==
    /\ \/ Apply(n, l)
       \/ <<n, l>> \in MayMiss /\ MissFirst(n, l)
    /\ UNCHANGED <<wire, sent, unrouted, received, expired>>

network_lookup(n, d) == forwarding_table[n][d]

\* network_transmit: the transport layer sends a datagram to a destination, be it
\* an acknowledgment for a peer that no route leads to yet, which is dropped.
network_transmit(f) ==
    LET n == f[1]
        l == network_lookup(n, f[2])
    IN  /\ sent[f] < MaxDatagrams
        /\ sent' = [sent EXCEPT ![f] = @ + 1]
        /\ IF l # NO_LINK
           THEN /\ wire' = [wire EXCEPT
                        ![n][l] = Append(@, [flow |-> f, number |-> sent[f],
                                             hoplimit |-> HOP_LIMIT])]
                /\ UNCHANGED unrouted
           ELSE /\ unrouted' = [unrouted EXCEPT ![f] = @ + 1]
                /\ UNCHANGED wire
        /\ UNCHANGED <<dvVars, received, expired>>

\* Mutant of Forwarded: one hop less.
Forwarded_OneHopLess(n, datagram, arrived) ==
    IF datagram.hoplimit <= 1
    THEN /\ wire' = arrived
         /\ expired' = TRUE
         /\ UNCHANGED received
    ELSE IF datagram.flow[2] = n
    THEN /\ wire' = arrived
         /\ received' = [received EXCEPT
                           ![datagram.flow] = Append(@, datagram.number)]
         /\ UNCHANGED expired
    ELSE /\ wire' = [arrived EXCEPT
                        ![n][network_lookup(n, datagram.flow[2])] =
                            Append(@, [datagram EXCEPT !.hoplimit = @ - 1])]
         /\ UNCHANGED <<received, expired>>

\* What node n does with a datagram: it is dropped, handed up or forwarded.
\* Without a route link_transmit would use link -1; NextHopHasRoute excludes it.
Forwarded(n, datagram, arrived) ==
    IF datagram.hoplimit <= 0
    THEN /\ wire' = arrived
         /\ expired' = TRUE
         /\ UNCHANGED received
    ELSE IF datagram.flow[2] = n
    THEN /\ wire' = arrived
         /\ received' = [received EXCEPT
                           ![datagram.flow] = Append(@, datagram.number)]
         /\ UNCHANGED expired
    ELSE /\ wire' = [arrived EXCEPT
                        ![n][network_lookup(n, datagram.flow[2])] =
                            Append(@, [datagram EXCEPT !.hoplimit = @ - 1])]
         /\ UNCHANGED <<received, expired>>

\* network_receive for a datagram of the transport layer.
network_receive(n, l) ==
    LET p == Peer(n, l)
        k == PeerLink(n, l)
    IN  /\ wire[p][k] # <<>>
        /\ Forwarded(n, Head(wire[p][k]), [wire EXCEPT ![p][k] = Tail(@)])
        /\ UNCHANGED <<dvVars, sent, unrouted>>

Next ==
    \/ \E f \in Flows : network_transmit(f)
    \/ \E n \in Node : \E l \in LinksOf(n) : Announcement(n, l) \/ network_receive(n, l)

Spec == Init /\ [][Next]_vars

-----------------------------------------------------------------------------

\* Where datagrams of flow f are under way: node, link and place on the link.
UnderWay(f) ==
    UNION {UNION {{<<n, l, i>> : i \in {j \in 1 .. Len(wire[n][l]) : wire[n][l][j].flow = f}}
                    : l \in LinksOf(n)} : n \in Node}

\* What a node sends before it has a route is dropped at once; from the first
\* datagram that finds a route on, the datagrams of a flow arrive in the order
\* in which they were sent, although the other nodes are still finding routes;
\* none is lost on the way, for want of a route or for a hop limit of as many
\* hops as there are other nodes, and none arrives twice.
FlowIntact ==
    \A f \in Flows :
        /\ received[f] = [i \in 1 .. Len(received[f]) |-> unrouted[f] + i - 1]
        /\ sent[f] = unrouted[f] + Len(received[f]) + Cardinality(UnderWay(f))

\* In a network with no more other nodes than a datagram may make hops the hop
\* limit ends no datagram: routes have no loops, nor do datagrams run into one
\* when routes are found behind them.
NeverExpires == Cardinality(Node) <= HOP_LIMIT + 1 => ~ expired

=============================================================================
