---------------------------- MODULE RoutingTable ----------------------------
(***************************************************************************)
(* The tables of the network layer (network.c) and how a node updates them *)
(* with the distance information of a neighbour.  DistanceVector runs the  *)
(* algorithm over a reliable transfer of that information, Routing over    *)
(* the protocol the code has.                                              *)
(*                                                                         *)
(* A node announces itself with one DISTANCE_INFO and passes on at most as *)
(* many as it received: every routing segment carries one, or none if it   *)
(* is an acknowledgment.  minMTU is left out, nothing reads it.            *)
(***************************************************************************)
EXTENDS Integers, Sequences

CONSTANTS
    Node,               \* the addresses of the nodes
    Links,              \* Links[n][l]: the neighbour of n at its link l
    Bandwidth,          \* Bandwidth[n][l]: the bandwidth of link l of n
    WEIGHT_OF_UNIT      \* the weight of a link of bandwidth 1 (10000000)

\* link_num_links.
LinksOf(n) == 1 .. Len(Links[n])

Peer(n, l) == Links[n][l]

\* The number that the neighbour at link l gives to the link.
PeerLink(n, l) == CHOOSE k \in LinksOf(Peer(n, l)) : Peer(Peer(n, l), k) = n

INT_MAX == 2147483647

\* Links go both ways, and two nodes share at most one.
ASSUME RoutingTableAssumption ==
    /\ Links \in [Node -> Seq(Node)]
    /\ \A n \in Node : \A l \in LinksOf(n) :
        /\ \E k \in LinksOf(Peer(n, l)) : Peer(Peer(n, l), k) = n
        /\ \A k \in LinksOf(n) : Peer(n, k) = Peer(n, l) => k = l
        /\ Peer(n, l) # n
        /\ Bandwidth[n][l] \in 1 .. (INT_MAX - 1)
    /\ WEIGHT_OF_UNIT \in Nat \ {0}

VARIABLES
    announced,          \* announced[n]: what n has broadcast, in order
    routing_table,      \* routing_table[n][d]: weight and bandwidth of the way
                        \* to d over each link, or NO_ENTRY
    forwarding_table,   \* forwarding_table[n][d]: the link to d, or NO_LINK
    app                 \* app[n]: destinations n's application is enabled for

tables == <<announced, routing_table, forwarding_table, app>>

NO_ENTRY == <<>>

NO_LINK == -1

\* Mutant of SelfInfo: the bandwidth is left at zero.
SelfInfo_NoBandwidth(n) == [destAddr |-> n, weight |-> 0, minBWD |-> 0]

\* The announcement of a node itself.
SelfInfo(n) == [destAddr |-> n, weight |-> 0, minBWD |-> INT_MAX]

\* Mutant of TablesInit: a node announces its neighbours before it hears of them.
TablesInit_Neighbours ==
    /\ announced = [n \in Node |->
            <<SelfInfo(n)>> \o [l \in LinksOf(n) |-> SelfInfo(Peer(n, l))]]
    /\ routing_table = [n \in Node |-> [d \in Node |-> NO_ENTRY]]
    /\ forwarding_table = [n \in Node |-> [d \in Node |-> NO_LINK]]
    /\ app = [n \in Node |-> {}]

\* routing_init and network_init on every node.
TablesInit ==
    /\ announced = [n \in Node |-> <<SelfInfo(n)>>]
    /\ routing_table = [n \in Node |-> [d \in Node |-> NO_ENTRY]]
    /\ forwarding_table = [n \in Node |-> [d \in Node |-> NO_LINK]]
    /\ app = [n \in Node |-> {}]

-----------------------------------------------------------------------------

get_weight(n, l) == WEIGHT_OF_UNIT \div Bandwidth[n][l]

\* The entry of n for d; a new one is infinite over every link.
EntryOf(n, d) ==
    IF routing_table[n][d] # NO_ENTRY THEN routing_table[n][d]
    ELSE [l \in LinksOf(n) |-> [weight |-> INT_MAX, minBWD |-> INT_MAX]]

\* Mutant of Extended: the bandwidth of the link, whatever comes behind it.
Extended_LinkOnly(n, l, info) ==
    [weight |-> 2 * info.weight + get_weight(n, l), minBWD |-> Bandwidth[n][l]]

\* The entry over link l after information from there.
Extended(n, l, info) ==
    [weight |-> 2 * info.weight + get_weight(n, l),
     minBWD |-> IF info.minBWD < Bandwidth[n][l] THEN info.minBWD
                ELSE Bandwidth[n][l]]

\* Link l is the first one of least weight in entry.
IsBest(entry, l) ==
    /\ entry[l].weight < INT_MAX
    /\ \A k \in DOMAIN entry :
        /\ entry[l].weight <= entry[k].weight
        /\ k < l => entry[l].weight < entry[k].weight

\* Mutants of BestChoiceChanged: an improvement counts; so does everything; a new
\* entry does not.
BestChoiceChanged_Improved(n, l, info) ==
    LET entry == routing_table[n][info.destAddr]
    IN  entry = NO_ENTRY
          \/ \A k \in DOMAIN entry : Extended(n, l, info).weight < entry[k].weight

BestChoiceChanged_Always(n, l, info) == TRUE

BestChoiceChanged_IfBest(n, l, info) ==
    LET entry == routing_table[n][info.destAddr]
    IN  entry # NO_ENTRY /\ IsBest(entry, l)

\* Whether information that arrives on link l changes the forwarding decision:
\* the best choice is made before the entry is updated.
BestChoiceChanged(n, l, info) ==
    LET entry == routing_table[n][info.destAddr]
    IN  entry = NO_ENTRY \/ IsBest(entry, l)

\* update_routing_table, and the broadcast of what it passes on.
update_routing_table(n, l, info) ==
    LET d == info.destAddr
        e == Extended(n, l, info)
        changed == BestChoiceChanged(n, l, info)
    IN  /\ routing_table' = [routing_table EXCEPT
                               ![n][d] = [EntryOf(n, d) EXCEPT ![l] = e]]
        /\ forwarding_table' = IF changed
                               THEN [forwarding_table EXCEPT ![n][d] = l]
                               ELSE forwarding_table
        /\ announced' = IF changed
                        THEN [announced EXCEPT
                                ![n] = Append(@, [destAddr |-> d,
                                                  weight |-> e.weight,
                                                  minBWD |-> e.minBWD])]
                        ELSE announced
        /\ app' = [app EXCEPT ![n] = @ \union {d}]

\* What routing_receive does with the distance information of a segment that is
\* in order; what a node hears about itself it ignores.
ApplyInfo(n, l, info) ==
    IF info.destAddr = n THEN UNCHANGED tables
    ELSE update_routing_table(n, l, info)

=============================================================================
