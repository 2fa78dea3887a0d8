----------------------------- MODULE Connection -----------------------------
(***************************************************************************)
(* One CONNECTION of the transport layer and what each function of         *)
(* transport.c makes of it.  Every operator takes the connection record    *)
(* and returns the record the function leaves; a handler is the            *)
(* composition of these operators in the order of its calls.               *)
(*                                                                         *)
(* Time is left out: a timer expires at any moment, and whether more than  *)
(* ACK_TIME has passed since lastSendAck is a choice of the handler that   *)
(* asks.  The RTT estimate only sets the length of a timeout.  The         *)
(* handlers of TRANSPORT_TIMER and GEARING_TIMER both are                  *)
(* transmit_segment, so a timer is just a pending call of it: timers       *)
(* counts the pending timers per segment, and a segment remembers in       *)
(* timerId the one it believes in.                                         *)
(***************************************************************************)
EXTENDS SequenceNumbers, CyclicBuffer, DRing

CONSTANTS INITIAL_THRESHOLD     \* slow start threshold of a new connection (8)

ASSUME ConnectionAssumption == INITIAL_THRESHOLD \in Nat \ {0}

\* timerId of a segment that waits for the window.
NO_TIMER == -1

\* timesSend is only compared with 1 and ackCounter only with 3: larger values
\* are not told apart.
TIMES_SEND_CAP == 2
ACK_COUNTER_CAP == 4

AtMost(n, cap) == IF n < cap THEN n ELSE cap

create_connection ==
    [ inBuf           |-> buffer_new(MAX_SEGMENT_OFFSET),
      lasts           |-> dring_new(MAX_WINDOW_OFFSET),
      bufferStart     |-> 0,
      outSegments     |-> <<>>,
      numSentSegments |-> 0,
      windowSize      |-> 1,
      threshold       |-> INITIAL_THRESHOLD,
      windowLimit     |-> 0,              \* 0: not initialised by the code
      nextOffset      |-> 0,
      ackCounter      |-> 0,
      lastAckOffset   |-> 0,
      timers          |-> [o \in Offsets |-> 0],
      failed          |-> {} ]            \* assertions that have failed

\* The share of the window the number of connections and the bandwidth leave,
\* limited to 1 .. MAX_WINDOW_SIZE.  windowLimit is unsigned: the negative share
\* of a node with more than MAX_WINDOW_SIZE connections is a very large number.
update_window_limit(c, share) ==
    [c EXCEPT !.windowLimit =
        LET limited == IF share < 0 THEN MAX_WINDOW_SIZE
                       ELSE AtMost(share, MAX_WINDOW_SIZE)
        IN  IF limited > 1 THEN limited ELSE 1]

\* The offset the connection waits for.
AckOffset(c) == buffer_next_invalid(c.inBuf, c.bufferStart)

EndOffset(seg) == (seg.offset + Len(seg.payload)) % MAX_SEGMENT_OFFSET

-----------------------------------------------------------------------------
(***************************************************************************)
(* Sending                                                                 *)
(***************************************************************************)

start_timer(c, o) == [c EXCEPT !.timers[o] = @ + 1]

stop_timer(c, o) == [c EXCEPT !.timers[o] = @ - 1]

\* A repeated retransmission halves the threshold and closes the window.
Backoff(c, i) ==
    IF c.outSegments[i].timesSend > 1 /\ c.windowSize > 1
    THEN [c EXCEPT !.threshold = c.windowSize \div 2, !.windowSize = 1]
    ELSE c

\* vector_peek(outSegments, windowSize) is the first segment behind the window;
\* the vector counts from 0.
InWindow(c, i) ==
    \/ Len(c.outSegments) <= c.windowSize
    \/ acknowledged(c.outSegments[i].offset,
                    c.outSegments[c.windowSize + 1].offset)

\* Mutant of transmit_segment: a deferred segment stays counted as sent.
transmit_segment_KeepsCount(c0, i) ==
    LET c == Backoff(c0, i)
        s == c.outSegments[i]
    IN  IF InWindow(c, i)
        THEN [start_timer(c, s.offset) EXCEPT
                !.outSegments[i] =
                    [s EXCEPT !.timesSend = AtMost(@ + 1, TIMES_SEND_CAP),
                              !.timerId = s.offset]]
        ELSE [c EXCEPT !.outSegments[i] = [s EXCEPT !.timerId = NO_TIMER]]

\* Mutant of transmit_segment: no timer for the retransmission.
transmit_segment_Once(c0, i) ==
    LET c == Backoff(c0, i)
        s == c.outSegments[i]
    IN  IF InWindow(c, i)
        THEN [c EXCEPT !.outSegments[i] =
                 [s EXCEPT !.timesSend = AtMost(@ + 1, TIMES_SEND_CAP)]]
        ELSE [c EXCEPT !.outSegments[i] = [s EXCEPT !.timerId = NO_TIMER],
                       !.numSentSegments = @ - 1]

transmit_segment(c0, i) ==
    LET c == Backoff(c0, i)
        s == c.outSegments[i]
    IN  IF InWindow(c, i)
        THEN [start_timer(c, s.offset) EXCEPT
                !.outSegments[i] =
                    [s EXCEPT !.timesSend = AtMost(@ + 1, TIMES_SEND_CAP),
                              !.timerId = s.offset]]
        ELSE [c EXCEPT !.outSegments[i] = [s EXCEPT !.timerId = NO_TIMER],
                       !.numSentSegments = @ - 1]

\* What the call hands to the network layer: at most one segment.
Transmitted(c0, i) ==
    LET c == Backoff(c0, i)
        s == c.outSegments[i]
    IN  IF InWindow(c, i)
        THEN << [offset |-> s.offset, ackOffset |-> AckOffset(c),
                 isLast |-> s.isLast, payload |-> s.payload] >>
        ELSE <<>>

\* The segments transmit_segments gears: those in the window without a timer.
ToSend(c) ==
    {i \in DOMAIN c.outSegments :
        i <= c.windowSize /\ c.outSegments[i].timerId = NO_TIMER}

transmit_segments(c) ==
    LET fresh == ToSend(c)
    IN  [c EXCEPT
            !.outSegments =
                [i \in DOMAIN c.outSegments |->
                    LET s == c.outSegments[i]
                    IN  IF i \in fresh THEN [s EXCEPT !.timerId = s.offset] ELSE s],
            !.numSentSegments = @ + Cardinality(fresh),
            !.timers =
                [o \in Offsets |->
                    c.timers[o] + Cardinality({i \in fresh :
                                          c.outSegments[i].offset = o})]]

\* The segments a message is split into; msg is the sequence of its bytes.
Segmented(c, msg) ==
    [i \in 1 .. ((Len(msg) + SEGMENT_SIZE - 1) \div SEGMENT_SIZE) |->
        LET processed   == (i - 1) * SEGMENT_SIZE
            payloadSize == AtMost(Len(msg) - processed, SEGMENT_SIZE)
        IN  [ offset    |-> (c.nextOffset + processed) % MAX_SEGMENT_OFFSET,
              isLast    |-> Len(msg) - processed = payloadSize,
              payload   |-> SubSeq(msg, processed + 1, processed + payloadSize),
              timerId   |-> NO_TIMER,
              timesSend |-> 0 ]]

\* Mutant of Enqueue: the next offset does not wrap.
Enqueue_NoWrap(c, msg) ==
    [c EXCEPT !.outSegments = @ \o Segmented(c, msg),
              !.nextOffset = @ + Len(msg)]

Enqueue(c, msg) ==
    [c EXCEPT !.outSegments = @ \o Segmented(c, msg),
              !.nextOffset = (@ + Len(msg)) % MAX_SEGMENT_OFFSET]

\* The window is saturated: the application has to stop.
Saturated(c) == Len(c.outSegments) >= c.windowSize

-----------------------------------------------------------------------------
(***************************************************************************)
(* Receiving: the steps of transport_receive, in the order of the code.    *)
(***************************************************************************)

\* Congestion control: only acknowledgments without data are counted.
CountDuplicateAck(c, seg) ==
    IF seg.ackOffset # c.lastAckOffset
    THEN [c EXCEPT !.ackCounter = 0, !.lastAckOffset = seg.ackOffset]
    ELSE IF seg.payload = <<>>
         THEN [c EXCEPT !.ackCounter = AtMost(@ + 1, ACK_COUNTER_CAP)]
         ELSE c

StartsFastRecovery(c, seg) == c.ackCounter > 3 /\ seg.payload # <<>>

\* Mutant of HalveWindow: a window of one segment is halved, too.
HalveWindow_Always(c) ==
    [c EXCEPT !.ackCounter = 0,
              !.threshold = c.windowSize \div 2,
              !.windowSize = c.windowSize \div 2]

HalveWindow(c) ==
    IF c.windowSize > 1
    THEN [c EXCEPT !.ackCounter = 0,
                   !.threshold = c.windowSize \div 2,
                   !.windowSize = c.windowSize \div 2]
    ELSE [c EXCEPT !.ackCounter = 0]

\* Mutant of StopFirstTimer: the timer of the segment is left running.
StopFirstTimer_Not(c) == c

\* The connection transmit_segment is called with for the fast retransmit.
StopFirstTimer(c) ==
    IF c.outSegments[1].timerId # NO_TIMER
    THEN stop_timer(c, c.outSegments[1].timerId)
    ELSE c

FastRetransmits(c, seg) == StartsFastRecovery(c, seg) /\ c.outSegments # <<>>

FastRecovery(c, seg) ==
    IF ~ StartsFastRecovery(c, seg) THEN c
    ELSE IF c.outSegments = <<>> THEN HalveWindow(c)
    ELSE transmit_segment(StopFirstTimer(HalveWindow(c)), 1)

FastRetransmitted(c, seg) ==
    IF FastRetransmits(c, seg)
    THEN Transmitted(StopFirstTimer(HalveWindow(c)), 1)
    ELSE <<>>

\* Mutants of IsNew: data that was delivered, or that is buffered, is new.
IsNew_AfterDelivery(c, seg) ==
    ~ buffer_check(c.inBuf, seg.offset) /\ seg.payload # <<>>

IsNew_Buffered(c, seg) ==
    /\ ~ acknowledged(seg.offset + Len(seg.payload), AckOffset(c))
    /\ seg.payload # <<>>

\* Whether seg carries data that was neither delivered nor buffered yet.
IsNew(c, seg) ==
    /\ ~ acknowledged(seg.offset + Len(seg.payload), AckOffset(c))
    /\ ~ buffer_check(c.inBuf, seg.offset)
    /\ seg.payload # <<>>

\* Mutant of Store: the end of a message is taken to be its last segment's start.
Store_SegmentStart(c, seg) ==
    [c EXCEPT
        !.inBuf  = buffer_store(@, seg.offset, seg.payload, Len(seg.payload)),
        !.lasts  = IF seg.isLast THEN dring_insert(@, seg.offset) ELSE @,
        !.failed = IF Overwrites(c.inBuf, seg.offset, Len(seg.payload))
                   THEN @ \union {"overwrite"} ELSE @]

Store(c, seg) ==
    [c EXCEPT
        !.inBuf  = buffer_store(@, seg.offset, seg.payload, Len(seg.payload)),
        !.lasts  = IF seg.isLast THEN dring_insert(@, EndOffset(seg)) ELSE @,
        !.failed = IF Overwrites(c.inBuf, seg.offset, Len(seg.payload))
                   THEN @ \union {"overwrite"} ELSE @]

\* The indices in PopOrder(c.lasts) of the complete messages.
Complete(c) ==
    {j \in 1 .. dring_nitems(c.lasts) :
        \A i \in 1 .. j : acknowledged(PopOrder(c.lasts)[i], AckOffset(c))}

\* The pieces of the buffer the loop hands to the application.
Extents(c) ==
    LET ends     == PopOrder(c.lasts)
        start(j) == IF j = 1 THEN c.bufferStart ELSE ends[j - 1]
    IN  [j \in 1 .. Cardinality(Complete(c)) |->
            [start |-> start(j), size |-> distance(start(j), ends[j])]]

Messages(c) ==
    [j \in DOMAIN Extents(c) |->
        Loaded(c.inBuf, Extents(c)[j].start, Extents(c)[j].size)]

\* Whether cell p of the buffer lies in extent e.
Covers(e, p) == (p - e.start) % MAX_SEGMENT_OFFSET < e.size

\* An extent is invalidated when it is loaded: the assertion of
\* buffer_invalidate fails for a byte that is invalid, or that an earlier
\* extent has invalidated.
ReadsInvalid(c) ==
    \E j \in DOMAIN Extents(c) :
        \/ Extents(c)[j].size > MAX_SEGMENT_OFFSET
        \/ \E p \in Offsets :
              /\ Covers(Extents(c)[j], p)
              /\ \/ ~ buffer_check(c.inBuf, p)
                 \/ \E i \in 1 .. (j - 1) : Covers(Extents(c)[i], p)

\* Mutant of Deliver: an if in the place of the loop.
Deliver_First(c) ==
    IF Complete(c) = {} THEN c
    ELSE [c EXCEPT
            !.inBuf.cell =
                [p \in Offsets |->
                    IF Covers(Extents(c)[1], p) THEN INVALID ELSE c.inBuf.cell[p]],
            !.lasts = dring_pop(@),
            !.bufferStart = PopOrder(c.lasts)[1]]

Deliver(c) ==
    LET n == Cardinality(Complete(c))
    IN  IF n = 0 THEN c
        ELSE [c EXCEPT
                !.inBuf.cell =
                    [p \in Offsets |->
                        IF \E j \in 1 .. n : Covers(Extents(c)[j], p)
                        THEN INVALID ELSE c.inBuf.cell[p]],
                !.lasts = PopMany(@, n),
                !.bufferStart = PopOrder(c.lasts)[n],
                !.failed = IF ReadsInvalid(c)
                           THEN @ \union {"invalidate"} ELSE @]

-----------------------------------------------------------------------------

\* Mutant of Acknowledged: the start of a segment is compared, not its end.
Acknowledged_ByStart(c, ackOffset) ==
    Cardinality({j \in DOMAIN c.outSegments :
        \A i \in 1 .. j : acknowledged(c.outSegments[i].offset, ackOffset)})

\* The number of segments the acknowledgment removes: a prefix of outSegments.
Acknowledged(c, ackOffset) ==
    Cardinality({j \in DOMAIN c.outSegments :
        \A i \in 1 .. j : acknowledged(EndOffset(c.outSegments[i]), ackOffset)})

\* Assertion: the acknowledgment does not lie before the first segment.
AckIsStale(c, ackOffset) ==
    c.outSegments # <<>> /\ ~ acknowledged(c.outSegments[1].offset, ackOffset)

RemoveAcknowledged(c, ackOffset) ==
    LET n       == Acknowledged(c, ackOffset)
        running == {i \in 1 .. n : c.outSegments[i].timerId # NO_TIMER}
    IN  [c EXCEPT
            !.outSegments = SubSeq(@, n + 1, Len(@)),
            !.numSentSegments = @ - Cardinality(running),
            !.timers = [o \in Offsets |->
                c.timers[o] - Cardinality({i \in running :
                                      c.outSegments[i].timerId = o})],
            !.failed = IF AckIsStale(c, ackOffset)
                       THEN @ \union {"staleAck"} ELSE @]

\* The window after one more acknowledged segment: slow start below the
\* threshold, congestion avoidance above it.
Grown(c, windowSize) ==
    IF windowSize < c.threshold THEN AtMost(2 * windowSize, c.windowLimit)
    ELSE IF windowSize < c.windowLimit THEN windowSize + 1
    ELSE windowSize

\* The window grows once for every removed segment but the one that empties
\* the list.
GrowthSteps(c, ackOffset) ==
    LET n == Acknowledged(c, ackOffset)
    IN  IF n = Len(c.outSegments) /\ n > 0 THEN n - 1 ELSE n

\* The values windowSize takes in the loop; there is exactly one such path.
GrowthPaths(c, steps) ==
    {path \in [0 .. steps -> 0 .. (2 * MAX_WINDOW_SIZE)] :
        /\ path[0] = c.windowSize
        /\ \A i \in 1 .. steps : path[i] = Grown(c, path[i - 1])}

\* Mutant of ProcessAck: the segments that have come into the window wait.
ProcessAck_NoTransmit(c, ackOffset, path) ==
    IF c.outSegments = <<>> THEN c
    ELSE [RemoveAcknowledged(c, ackOffset) EXCEPT
            !.windowSize = path[GrowthSteps(c, ackOffset)]]

\* path is the one of GrowthPaths(c, GrowthSteps(c, ackOffset)).
ProcessAck(c, ackOffset, path) ==
    IF c.outSegments = <<>> THEN c
    ELSE transmit_segments(
           [RemoveAcknowledged(c, ackOffset) EXCEPT
               !.windowSize = path[GrowthSteps(c, ackOffset)]])

\* Mutant of Unsaturated: room for two segments is asked for.
Unsaturated_ByTwo(c, ackOffset, path) ==
    /\ c.outSegments # <<>>
    /\ Len(RemoveAcknowledged(c, ackOffset).outSegments) + 1
         < path[GrowthSteps(c, ackOffset)]

\* The list the application waits for has room again.
Unsaturated(c, ackOffset, path) ==
    /\ c.outSegments # <<>>
    /\ Len(RemoveAcknowledged(c, ackOffset).outSegments)
         < path[GrowthSteps(c, ackOffset)]

-----------------------------------------------------------------------------

\* An acknowledgment without data; its offset is never looked at.
AckSegment(c) ==
    [offset |-> (c.nextOffset - 1) % MAX_SEGMENT_OFFSET,
     ackOffset |-> AckOffset(c), isLast |-> TRUE, payload |-> <<>>]

\* No segment that could piggyback the acknowledgment of seg was geared by
\* transmit_segments; c1 and c2 are the connection before and after it.
NotPiggybacked(c1, c2, seg) ==
    seg.payload # <<>> /\ c1.numSentSegments = c2.numSentSegments

-----------------------------------------------------------------------------
(***************************************************************************)
(* The types of the records.                                               *)
(***************************************************************************)

\* -1 is what buffer_next_invalid returns for a full buffer.
AckOffsets == Offsets \union {-1}

Segment ==
    [offset : Offsets, ackOffset : AckOffsets, isLast : BOOLEAN,
     payload : Seq(Nat)]

OutSegment ==
    [offset : Offsets, isLast : BOOLEAN, payload : Seq(Nat),
     timerId : Offsets \union {NO_TIMER}, timesSend : 0 .. TIMES_SEND_CAP]

DoubleRing ==
    [s : Seq(Offsets), l : Seq(Offsets), windowSize : Nat,
     maxFirstRing : Offsets \union {-1}]

ReceiveBuffer ==
    [len : {MAX_SEGMENT_OFFSET}, cell : [Offsets -> Nat \union {INVALID}]]

ConnectionRecord ==
    [ inBuf : ReceiveBuffer, lasts : DoubleRing, bufferStart : Offsets,
      outSegments : Seq(OutSegment), numSentSegments : Int,
      windowSize : Nat, threshold : Nat, windowLimit : 0 .. MAX_WINDOW_SIZE,
      nextOffset : Offsets,
      ackCounter : 0 .. ACK_COUNTER_CAP, lastAckOffset : AckOffsets,
      timers : [Offsets -> Int],
      failed : SUBSET {"overwrite", "invalidate", "staleAck"} ]

=============================================================================
