--------------------------- MODULE DistanceVector ---------------------------
(***************************************************************************)
(* The distance vector algorithm over what the protocol between neighbours *)
(* does: every node applies what each of its neighbours announces, once    *)
(* and in the order in which it was announced.  How long an announcement   *)
(* travels is left open.  Only the first one of a neighbour, with which it *)
(* announces itself, may be missed: the code takes an acknowledgment for   *)
(* it.                                                                     *)
(***************************************************************************)
EXTENDS RoutingTable, FiniteSets

ASSUME DistanceVectorAssumption == IsFiniteSet(Node)

VARIABLES
    applied             \* applied[n][l]: how many announcements of the
                        \* neighbour at link l node n has applied

dvVars == <<tables, applied>>

DVInit ==
    /\ TablesInit
    /\ applied = [n \in Node |-> [l \in LinksOf(n) |-> 0]]

Apply(n, l) ==
    /\ applied[n][l] < Len(announced[Peer(n, l)])
    /\ applied' = [applied EXCEPT ![n][l] = @ + 1]
    /\ ApplyInfo(n, l, announced[Peer(n, l)][applied[n][l] + 1])

\* routing_receive: an acknowledgment, of sequence number 0 and without
\* information, is in order where the first announcement is awaited, which then
\* counts as received.
MissFirst(n, l) ==
    /\ applied[n][l] = 0
    /\ applied' = [applied EXCEPT ![n][l] = 1]
    /\ UNCHANGED tables

DVNext == \E n \in Node : \E l \in LinksOf(n) : Apply(n, l) \/ MissFirst(n, l)

DVSpec == DVInit /\ [][DVNext]_dvVars

\* What the design promises: no announcement is missed.
ReliableDVSpec ==
    DVInit /\ [][\E n \in Node : \E l \in LinksOf(n) : Apply(n, l)]_dvVars

-----------------------------------------------------------------------------

Infos == [destAddr : Node, weight : Nat, minBWD : Nat \ {0}]

Entries == [weight : Nat, minBWD : Nat \ {0}]

\* Every table has its type, and an entry has a place for each link.
TypeOK ==
    /\ announced \in [Node -> Seq(Infos)]
    /\ routing_table \in [Node -> [Node -> Seq(Entries)]]
    /\ forwarding_table \in [Node -> [Node -> Int]]
    /\ app \in [Node -> SUBSET Node]
    /\ applied \in [Node -> Seq(Nat)]
    /\ \A n, d \in Node :
        /\ routing_table[n][d] = NO_ENTRY
             \/ DOMAIN routing_table[n][d] = LinksOf(n)
        /\ forwarding_table[n][d] \in LinksOf(n) \union {NO_LINK}
    /\ \A n \in Node :
        /\ DOMAIN applied[n] = LinksOf(n)
        /\ \A l \in LinksOf(n) : applied[n][l] <= Len(announced[Peer(n, l)])

HasRoute(n, d) == forwarding_table[n][d] # NO_LINK

\* A node announces a destination at most once: a decision is announced when it
\* is made, and no later update passes for a change of it.
AnnouncedOnce ==
    \A n \in Node : \A i, j \in 1 .. Len(announced[n]) :
        announced[n][i].destAddr = announced[n][j].destAddr => i = j

\* A route, once found, never moves.  The transport layer depends on it: its
\* assertion on acknowledgments fails if a datagram overtakes another.
RouteNeverMoves ==
    [][\A n, d \in Node :
        HasRoute(n, d) => forwarding_table'[n][d] = forwarding_table[n][d]]_dvVars

\* A node that is sent a datagram to forward has a route to its destination
\* (network_receive does not check for link -1).
NextHopHasRoute ==
    \A n, d \in Node :
        HasRoute(n, d) =>
            LET p == Peer(n, forwarding_table[n][d])
            IN  p = d \/ HasRoute(p, d)

\* network_get_bandwidth: it does not check either, and indexes the entry with
\* the link.
network_get_bandwidth(n, d) == routing_table[n][d][forwarding_table[n][d]].minBWD

\* An application that may send has a route, and its entry a bandwidth.
RouteBeforeTraffic ==
    \A n \in Node : \A d \in app[n] :
        /\ HasRoute(n, d)
        /\ network_get_bandwidth(n, d) \in 1 .. (INT_MAX - 1)

-----------------------------------------------------------------------------

\* Where node m sends a datagram for d; it stays at d.
Onward(m, d) ==
    IF m = d \/ ~ HasRoute(m, d) THEN m ELSE Peer(m, forwarding_table[m][d])

\* The nodes a datagram from n to d passes.
Way(n, d) ==
    LET way[k \in 0 .. Cardinality(Node)] ==
            IF k = 0 THEN n ELSE Onward(way[k - 1], d)
    IN  way

\* The forwarding tables of different nodes never form a loop, not even while
\* routes are being found: a datagram arrives after at most as many hops as
\* there are other nodes.
LoopFree ==
    \A n, d \in Node :
        HasRoute(n, d) => Way(n, d)[Cardinality(Node) - 1] = d

\* The bandwidth of a route is that of the narrowest link on the way that a
\* datagram takes.
BandwidthOfRoute ==
    \A n, d \in Node :
        n # d /\ HasRoute(n, d) =>
            LET way == Way(n, d)
                width == {Bandwidth[way[k]][forwarding_table[way[k]][d]] :
                            k \in {j \in 0 .. Cardinality(Node) : way[j] # d}}
            IN  /\ network_get_bandwidth(n, d) \in width
                /\ \A w \in width : network_get_bandwidth(n, d) <= w

\* "This contains the link numbers with the smallest route weight for each
\* address" (network.c, on the forwarding table).
ForwardsBest ==
    \A n, d \in Node :
        HasRoute(n, d) =>
            \A l \in LinksOf(n) :
                routing_table[n][d][forwarding_table[n][d]].weight
                    <= routing_table[n][d][l].weight

=============================================================================
