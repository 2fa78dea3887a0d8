----------------------------- MODULE Transport -----------------------------
(***************************************************************************)
(* The transport layers of two nodes (transport.c) with the network        *)
(* between them.  con[n] is the connection node n keeps for its peer.  The *)
(* network is seen the way transport.c sees it: a datagram that            *)
(* network_transmit accepts travels in order behind the ones before it, or *)
(* is lost (a corrupt frame, a full link queue).  Links keep the order and *)
(* a route never moves (DistanceVector).  The program is single threaded   *)
(* per node: a handler runs to its end before the next event.              *)
(***************************************************************************)
EXTENDS Connection

CONSTANTS
    A, B,               \* the two nodes
    MessageSizes,       \* MessageSizes[n]: the sizes of the messages of n
    WindowShares,       \* what bandwidth and connections leave of the window
    MaxMessages,        \* bound: MaxMessages[n] messages are sent by n
    MaxLosses,          \* bound: datagrams the network loses
    MaxUpdates,         \* bound: routing updates while the application is stopped
    QueueLimit          \* datagrams in the link queue beyond which it drops

Node == {A, B}

ASSUME TransportAssumption ==
    /\ A # B
    /\ MessageSizes \in [Node -> SUBSET (Nat \ {0})]
    /\ WindowShares \subseteq Int
    /\ MaxMessages \in [Node -> Nat]
    /\ MaxLosses \in Nat
    /\ MaxUpdates \in Nat
    /\ QueueLimit \in Nat

Peer(n) == IF n = A THEN B ELSE A

VARIABLES
    con,            \* con[n]: the connection of n with its peer
    channel,        \* channel[n]: the datagrams on their way to n
    app,            \* app[n]: the application of n may send to the peer
    sent,           \* history: the messages sent by n ...
    delivered,      \* ... and those delivered at n
    losses,         \* datagrams lost so far
    updates         \* routing updates that enabled an application so far

vars == <<con, channel, app, sent, delivered, losses, updates>>

Init ==
    /\ con = [n \in Node |-> create_connection]
    /\ channel = [n \in Node |-> <<>>]
    /\ app = [n \in Node |-> TRUE]
    /\ sent = [n \in Node |-> <<>>]
    /\ delivered = [n \in Node |-> <<>>]
    /\ losses = 0
    /\ updates = 0

-----------------------------------------------------------------------------

\* A message is the sequence of its bytes.
Message == Seq(Nat) \ {<<>>}

\* The first byte of the stream of n that no message has used yet.  A byte of
\* the stream is represented by its position.
StreamEnd(n) ==
    IF sent[n] = <<>> THEN 0
    ELSE LET last == sent[n][Len(sent[n])] IN last[Len(last)] + 1

NextMessage(n, size) == [i \in 1 .. size |-> StreamEnd(n) + i - 1]

\* Mutant of Enqueued: a datagram overtakes those before it.
Enqueued_Overtaking(n, segs) ==
    LET queue == segs \o channel[n]
    IN  SubSeq(queue, 1, AtMost(Len(queue), QueueLimit))

\* The channel of node n after its peer has handed segs to the network; the
\* queue drops what exceeds its limit.
Enqueued(n, segs) ==
    LET queue == channel[n] \o segs
    IN  SubSeq(queue, 1, AtMost(Len(queue), QueueLimit))

\* No assertion of the program has failed.
Running(n) == con[n].failed = {}

\* application_ready: a message of the application is segmented and as many
\* segments as the window has room for are geared.
transport_transmit(n) ==
    /\ Running(n)
    /\ app[n]
    /\ Len(sent[n]) < MaxMessages[n]
    /\ \E size \in MessageSizes[n], share \in WindowShares :
        LET msg == NextMessage(n, size)
            c   == Enqueue(update_window_limit(con[n], share), msg)
        IN  /\ con' = [con EXCEPT ![n] = transmit_segments(c)]
            /\ app' = [app EXCEPT ![n] = ~ Saturated(c)]
            /\ sent' = [sent EXCEPT ![n] = Append(@, msg)]
    /\ UNCHANGED <<channel, delivered, losses, updates>>

\* transport_timeout, gearing_timeout: a timer of offset o expires, its handler
\* transmits the segment it was started for.
Timeout(n, o) ==
    /\ Running(n)
    /\ con[n].timers[o] > 0
    /\ \E i \in DOMAIN con[n].outSegments, c \in {stop_timer(con[n], o)} :
        /\ con[n].outSegments[i].timerId = o
        /\ con' = [con EXCEPT ![n] = transmit_segment(c, i)]
        /\ channel' = [channel EXCEPT
                         ![Peer(n)] = Enqueued(Peer(n), Transmitted(c, i))]
    /\ UNCHANGED <<app, sent, delivered, losses, updates>>

\* physical_ready, up to network_receive: the next datagram reaches node n.
\* ackDue: more than ACK_TIME has passed since lastSendAck, which a fast
\* retransmit of this very handler sets.  c1 .. c5 are the connection after the
\* steps of the handler, each bound to the one value it has.
transport_receive(n, ackDue) ==
    /\ Running(n)
    /\ channel[n] # <<>>
    /\ \E seg \in {Head(channel[n])} :
       \E c1 \in {CountDuplicateAck(con[n], seg)} :
       \E c2 \in {FastRecovery(c1, seg)} :
       \E c3 \in {IF IsNew(c2, seg) THEN Store(c2, seg) ELSE c2} :
       \E c4 \in {IF IsNew(c2, seg) THEN Deliver(c3) ELSE c3} :
       \E path \in GrowthPaths(c4, GrowthSteps(c4, seg.ackOffset)) :
       \E c5 \in {ProcessAck(c4, seg.ackOffset, path)} :
         LET fast == FastRetransmitted(c1, seg)
             ack  == IF ackDue /\ fast = <<>>
                           /\ NotPiggybacked(RemoveAcknowledged(c4, seg.ackOffset),
                                             c5, seg)
                     THEN <<AckSegment(c5)>> ELSE <<>>
             msgs == IF IsNew(c2, seg) THEN Messages(c3) ELSE <<>>
         IN  /\ con' = [con EXCEPT ![n] = c5]
             /\ app' = [app EXCEPT
                          ![n] = @ \/ Unsaturated(c4, seg.ackOffset, path)]
             /\ delivered' = [delivered EXCEPT ![n] = @ \o msgs]
             /\ channel' = [channel EXCEPT
                              ![n] = Tail(@),
                              ![Peer(n)] = Enqueued(Peer(n), fast \o ack)]
    /\ UNCHANGED <<sent, losses, updates>>

-----------------------------------------------------------------------------

\* A datagram is lost on its way to n.
Lose(n) ==
    /\ losses < MaxLosses
    /\ channel[n] # <<>>
    /\ channel' = [channel EXCEPT ![n] = Tail(@)]
    /\ losses' = losses + 1
    /\ UNCHANGED <<con, app, sent, delivered, updates>>

\* A routing update for the peer: network.c enables the application, whatever
\* the state of the window.
RoutingUpdate(n) ==
    /\ updates < MaxUpdates
    /\ ~ app[n]
    /\ app' = [app EXCEPT ![n] = TRUE]
    /\ updates' = updates + 1
    /\ UNCHANGED <<con, channel, sent, delivered, losses>>

Next ==
    \E n \in Node :
        \/ transport_transmit(n)
        \/ \E o \in Offsets : Timeout(n, o)
        \/ \E ackDue \in BOOLEAN : transport_receive(n, ackDue)
        \/ Lose(n)
        \/ RoutingUpdate(n)

Spec == Init /\ [][Next]_vars

-----------------------------------------------------------------------------
(***************************************************************************)
(* Fairness.  Timers expire, time passes, and a datagram in the network    *)
(* arrives unless it is lost; MaxLosses bounds the losses.                 *)
(***************************************************************************)

Fairness ==
    \A n \in Node :
        /\ \A o \in Offsets : WF_vars(Timeout(n, o))
        /\ WF_vars(\E ackDue \in BOOLEAN : transport_receive(n, ackDue))
        /\ SF_vars(transport_receive(n, TRUE))

FairSpec == Spec /\ Fairness

-----------------------------------------------------------------------------
(***************************************************************************)
(* Invariants                                                              *)
(***************************************************************************)

\* Every variable has its type: the connections of transport.c, the segments
\* on their way, and the histories.
TypeOK ==
    /\ con \in [Node -> ConnectionRecord]
    /\ channel \in [Node -> Seq(Segment)]
    /\ app \in [Node -> BOOLEAN]
    /\ sent \in [Node -> Seq(Message)]
    /\ delivered \in [Node -> Seq(Seq(Nat \union {INVALID}))]
    /\ losses \in Nat
    /\ updates \in Nat

\* The window is never closed and never larger than MAX_WINDOW_SIZE, slow start
\* can always be left, and the limit is set before the window grows to it.
WindowBounds ==
    \A n \in Node :
        /\ con[n].windowSize \in 1 .. MAX_WINDOW_SIZE
        /\ con[n].threshold >= 1
        /\ con[n].outSegments # <<>> => con[n].windowLimit >= 1

\* buffer_store never overwrites valid data (buffer.c, buffer_validate) ...
NoOverwrite == \A n \in Node : "overwrite" \notin con[n].failed

\* ... and buffer_load never reads a byte that is not there
\* (buffer.c, buffer_invalidate).
NoInvalidRead == \A n \in Node : "invalidate" \notin con[n].failed

\* transport_receive asserts that no acknowledgment lies before the first
\* unacknowledged segment; one that was overtaken by a newer one would.
NoStaleAck == \A n \in Node : "staleAck" \notin con[n].failed

\* Whether segment i of n waits for its timer.
IsTimed(n, i) == con[n].outSegments[i].timerId # NO_TIMER

\* A pending timer refers to a segment that still exists, that knows the timer,
\* and no segment has two: a handler never gets a freed OUT_SEGMENT, and
\* vector_remove leaves no timer behind.
TimersMatch ==
    \A n \in Node, o \in Offsets :
        con[n].timers[o] =
            Cardinality({i \in DOMAIN con[n].outSegments :
                            con[n].outSegments[i].offset = o /\ IsTimed(n, i)})

\* numSentSegments is the number of segments in transmission.
SentCount ==
    \A n \in Node :
        con[n].numSentSegments =
            Cardinality({i \in DOMAIN con[n].outSegments : IsTimed(n, i)})

\* The first unacknowledged segment always has a timer: the connection cannot
\* stall with data to send.
FirstSegmentIsTimed ==
    \A n \in Node : con[n].outSegments # <<>> => IsTimed(n, 1)

\* The bytes of a set of sequences of bytes.
BytesOf(seqs) == UNION {Range(q) : q \in seqs}

UnackedBytes(n) ==
    BytesOf({con[n].outSegments[i].payload : i \in DOMAIN con[n].outSegments})

\* No premature removal: a byte that was sent and has not reached the receive
\* buffer of the peer is still in a segment of the sender.
NothingForgotten ==
    \A n \in Node :
        BytesOf(Range(sent[n])) \subseteq
            BytesOf(Range(delivered[Peer(n)]))
              \union Range(con[Peer(n)].inBuf.cell)
              \union UnackedBytes(n)

\* The handler that completes a message hands it over: no complete message stays
\* in the buffer.
NothingHeldBack == \A n \in Node : Complete(con[n]) = {}

-----------------------------------------------------------------------------
(***************************************************************************)
(* The abstract specification                                              *)
(***************************************************************************)

Service == INSTANCE ReliableStream

\* The messages delivered are the messages sent: unchanged, once and in order.
StreamSpec == Service!Spec

\* Every message sent is delivered in the end.
StreamDelivery == Service!Delivery

-----------------------------------------------------------------------------
(***************************************************************************)
(* Action and liveness properties                                          *)
(***************************************************************************)

\* "The first sent segment still waiting for acknowledgment is retransmitted
\* after receiving three times the same acknowledgment" (comment of USE_RENO in
\* transport.c): the step that counts the third one hands the segment to the
\* network.
FastRetransmitOnThird ==
    [][\A n \in Node :
         (/\ con[n].ackCounter < 3
          /\ con'[n].ackCounter >= 3
          /\ con'[n].outSegments # <<>>)
         => /\ channel'[Peer(n)] # channel[Peer(n)]
            /\ channel'[Peer(n)][Len(channel'[Peer(n)])].offset
                 = con'[n].outSegments[1].offset]_vars

\* An application that was stopped because the window was saturated is enabled
\* again: the acknowledgments that empty the window arrive in the end.
AppResumes == \A n \in Node : ~ app[n] ~> app[n]

=============================================================================
