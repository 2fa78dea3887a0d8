------------------------------- MODULE Routing -------------------------------
(***************************************************************************)
(* The protocol by which neighbours exchange distance information          *)
(* (network.c): sequence numbers and cumulative acknowledgments per        *)
(* neighbour, a ROUTING_TIMER per unacknowledged routing segment, and      *)
(* acknowledgments that travel with routing segments or on their own.      *)
(*                                                                         *)
(* A broadcast goes to every neighbour, so that the i-th segment for any   *)
(* neighbour carries the i-th announcement and nextSeqNum is the number of *)
(* announcements.  Links keep the order and lose segments.                 *)
(***************************************************************************)
EXTENDS RoutingTable, SequencesExt

CONSTANTS
    MaxUnderWay,        \* bound: segments under way on a link, both
                        \* directions, to which a retransmission is added;
                        \* the code has none, a timer expires whatever is
                        \* under way
    MaxLosses           \* bound: segments that are lost

ASSUME RoutingAssumption ==
    /\ MaxUnderWay \in Nat \ {0}
    /\ MaxLosses \in Nat

VARIABLES
    nextAckNum,             \* nextAckNum[n][l]: the awaited sequence number
    outRoutingSegments,     \* outRoutingSegments[n][l]: sequence numbers of
                            \* the unacknowledged segments, in order in the code
    timers,                 \* timers[n]: the pending ROUTING_TIMERs, by link and
                            \* sequence number, in the order they expire
    channel,                \* channel[n][l]: segments that n has sent on link l
    losses                  \* segments lost so far

vars == <<tables, nextAckNum, outRoutingSegments, timers, channel, losses>>

NO_INFO == <<>>

perLink(value) == [n \in Node |-> [l \in LinksOf(n) |-> value]]

\* network_init on every node: each broadcasts its first announcement.
Init ==
    /\ TablesInit
    /\ nextAckNum = perLink(0)
    /\ outRoutingSegments = perLink({0})
    /\ timers = [n \in Node |-> [l \in LinksOf(n) |-> <<l, 0>>]]
    /\ channel = [n \in Node |-> [l \in LinksOf(n) |->
                    <<[seq_num |-> 0, ack_num |-> 0, info |-> SelfInfo(n)]>>]]
    /\ losses = 0

-----------------------------------------------------------------------------

\* The segment with sequence number s, as transmit_routing_segment sends it on
\* link l: with the acknowledgment that is due then.
RoutingSegment(n, l, s) ==
    [seq_num |-> s, ack_num |-> nextAckNum'[n][l], info |-> announced'[n][s + 1]]

\* transmit_distance_ack: no information, and sequence number 0.
DistanceAck(n, l) ==
    [seq_num |-> 0, ack_num |-> nextAckNum'[n][l], info |-> NO_INFO]

\* Mutant of Unacknowledged: the awaited segment is removed as well.
Unacknowledged_OneMore(n, l, ack) ==
    {s \in outRoutingSegments[n][l] : s > ack}

\* What an acknowledgment leaves of the segments sent on link l.
Unacknowledged(n, l, ack) ==
    {s \in outRoutingSegments[n][l] : s >= ack}

\* The elements of a sequence that are in S, in their order.
Sift(seq, S) ==
    LET sifted[i \in 0 .. Len(seq)] ==
            IF i = 0 THEN <<>>
            ELSE IF seq[i] \in S THEN Append(sifted[i - 1], seq[i])
                 ELSE sifted[i - 1]
    IN  sifted[Len(seq)]

\* Mutant of StillTimed: the timers of acknowledged segments keep running.
StillTimed_NotStopped(n, l, ack) == timers[n]

\* ... and of the timers: those of acknowledged segments are stopped.
StillTimed(n, l, ack) ==
    Sift(timers[n], {t \in ToSet(timers[n]) : t[1] = l => t[2] >= ack})

\* broadcast_distance_info: segment s goes out on every link and is timed.
\* arrived is what the arrival of a segment has left of the channels.
Broadcast(n, s, arrived, unacknowledged, timed) ==
    /\ outRoutingSegments' = [outRoutingSegments EXCEPT
            ![n] = [k \in LinksOf(n) |-> unacknowledged[k] \union {s}]]
    /\ timers' = [timers EXCEPT
            ![n] = timed \o [k \in LinksOf(n) |-> <<k, s>>]]
    /\ channel' = [arrived EXCEPT
            ![n] = [k \in LinksOf(n) |-> Append(@[k], RoutingSegment(n, k, s))]]

\* Mutant of InOrder: a segment from beyond a gap is accepted.
InOrder_Gap(n, l, seg) == seg.seq_num >= nextAckNum[n][l]

InOrder(n, l, seg) == seg.seq_num = nextAckNum[n][l]

\* Mutant of AnswersWithAck: a retransmission is not acknowledged again.
AnswersWithAck_OnlyInOrder(inOrder, seg) == inOrder

\* Whether an arriving segment is answered by an acknowledgment on its own.
AnswersWithAck(inOrder, seg) == inOrder \/ seg.info # NO_INFO

\* routing_receive: node n reads a segment that arrives on link l.
routing_receive(n, l) ==
    LET p == Peer(n, l)
        k == PeerLink(n, l)
        seg == Head(channel[p][k])
        inOrder == InOrder(n, l, seg)
        arrived == [channel EXCEPT ![p][k] = Tail(@)]
        unacknowledged == [outRoutingSegments[n] EXCEPT
                             ![l] = Unacknowledged(n, l, seg.ack_num)]
        timed == StillTimed(n, l, seg.ack_num)
    IN  /\ channel[p][k] # <<>>
        /\ nextAckNum' = IF inOrder THEN [nextAckNum EXCEPT ![n][l] = @ + 1]
                         ELSE nextAckNum
        /\ IF inOrder /\ seg.info # NO_INFO THEN ApplyInfo(n, l, seg.info)
           ELSE UNCHANGED tables
        /\ IF announced' # announced
           THEN Broadcast(n, Len(announced[n]), arrived, unacknowledged, timed)
           ELSE /\ outRoutingSegments' = [outRoutingSegments EXCEPT
                                            ![n] = unacknowledged]
                /\ timers' = [timers EXCEPT ![n] = timed]
                /\ channel' = IF AnswersWithAck(inOrder, seg)
                              THEN [arrived EXCEPT
                                      ![n][l] = Append(@, DistanceAck(n, l))]
                              ELSE arrived
        /\ UNCHANGED losses

UnderWay(n, l) == Len(channel[n][l]) + Len(channel[Peer(n, l)][PeerLink(n, l)])

\* routing_timeout: the oldest timer of node n expires and its segment is sent
\* again, while others may be under way.  All timers run equally long.
RoutingTimeout(n) ==
    /\ timers[n] # <<>>
    /\ LET l == Head(timers[n])[1]
           s == Head(timers[n])[2]
       IN  /\ UnderWay(n, l) < MaxUnderWay
           /\ timers' = [timers EXCEPT ![n] = Append(Tail(@), <<l, s>>)]
           /\ UNCHANGED <<tables, nextAckNum, outRoutingSegments, losses>>
           /\ channel' = [channel EXCEPT ![n][l] = Append(@, RoutingSegment(n, l, s))]

\* The link loses or corrupts the next segment.
Lose(n, l) ==
    /\ losses < MaxLosses
    /\ channel[n][l] # <<>>
    /\ channel' = [channel EXCEPT ![n][l] = Tail(@)]
    /\ losses' = losses + 1
    /\ UNCHANGED <<tables, nextAckNum, outRoutingSegments, timers>>

Next ==
    \E n \in Node :
        \/ RoutingTimeout(n)
        \/ \E l \in LinksOf(n) : routing_receive(n, l) \/ Lose(n, l)

Spec == Init /\ [][Next]_vars

\* Segments arrive unless they are lost, and timers expire; not so fast that the
\* retransmissions fill a link without end (MaxUnderWay).
Fairness ==
    \A n \in Node :
        /\ WF_vars(RoutingTimeout(n))
        /\ \A l \in LinksOf(n) : WF_vars(routing_receive(n, l))

FairSpec == Spec /\ Fairness

-----------------------------------------------------------------------------

\* A ROUTING_TIMER carries a pointer to its segment: exactly the segments that
\* are not acknowledged have a timer, and each has one.
TimersMatch ==
    \A n \in Node :
        /\ ToSet(timers[n]) =
             UNION {{<<l, s>> : s \in outRoutingSegments[n][l]} : l \in LinksOf(n)}
        /\ IsInjective(timers[n])

\* What a neighbour has not got yet is still kept for a retransmission.
NothingForgotten ==
    \A n \in Node : \A l \in LinksOf(n) :
        LET got == nextAckNum[Peer(n, l)][PeerLink(n, l)]
        IN  \A s \in got .. (Len(announced[n]) - 1) :
                s \in outRoutingSegments[n][l]

\* "routing information are send in a reliable fashion" (design paper): whoever
\* has acknowledged the first segment of a neighbour knows the neighbour.
NeighbourKnown ==
    \A n \in Node : \A l \in LinksOf(n) :
        nextAckNum[n][l] > 0 => Peer(n, l) \in app[n]

DV == INSTANCE DistanceVector WITH applied <- nextAckNum

\* Over links that lose segments, and with timers that expire while segments are
\* still under way, every node applies what its neighbours announce once and in
\* order; at most the first announcement of a neighbour is passed over.
AnnouncementsApplied == DV!DVSpec

\* Not even that one is: the design, and what the code does as long as no first
\* announcement is lost (RoutingProofs).
ReliableRouting == DV!ReliableDVSpec

\* Node n has taken an acknowledgment for the first announcement of the
\* neighbour at link l.
Missed(n, l) ==
    /\ nextAckNum[n][l] > 0
    /\ EntryOf(n, Peer(n, l))[l].weight = INT_MAX

\* The exchange of routing segments ends, with the application of every node
\* enabled for its neighbours, but for those whose first announcement it has
\* missed, and for whatever its neighbours have found.
RoutingTerminates ==
    <>[](\A n \in Node :
            /\ timers[n] = <<>>
            /\ \A l \in LinksOf(n) :
                LET p == Peer(n, l)
                IN  /\ Missed(n, l) \/ p \in app[n]
                    /\ app[p] \ {n} \subseteq app[n])

=============================================================================
