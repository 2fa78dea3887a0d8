-------------------------- MODULE ConnectionProofs --------------------------
(***************************************************************************)
(* Lemmas about the operators of Connection and of the modules below it:   *)
(* what each of them makes of a connection is a connection again, the      *)
(* congestion control keeps the window between 1 and MAX_WINDOW_SIZE, the  *)
(* pending timers are those of the segments, and the segments lie one      *)
(* behind the other in the stream.  Then what the parts of a connection do *)
(* with positions that wrap: offsets and the distances between them, the   *)
(* receive buffer, the double ring.                                        *)
(***************************************************************************)
EXTENDS Connection, FiniteSetTheorems, SequenceTheorems, WellFoundedInduction,
        TLAPS

-----------------------------------------------------------------------------
(***************************************************************************)
(* Natural numbers.  The theorems on induction take a predicate, which the *)
(* provers cannot instantiate: induction is done with a least              *)
(* counterexample.                                                         *)
(***************************************************************************)

NatLess == OpToRel(<, Nat)

LEMMA NatLessDef == \A x, y \in Nat : <<x, y>> \in NatLess <=> x < y
BY DEF NatLess, OpToRel

\* Every set of natural numbers has a least element.
LEMMA LeastElement ==
    ASSUME NEW S, S \subseteq Nat, S # {}
    PROVE  \E x \in S : \A y \in S : x <= y
<1>1. IsWellFoundedOn(NatLess, Nat)
  BY NatLessThanWellFounded DEF NatLess
<1>2. PICK x \in S : \A y \in S : ~ (<<y, x>> \in NatLess)
  BY <1>1, WFMin
<1>3. ASSUME NEW y \in S PROVE x <= y
  <2>1. x \in Nat /\ y \in Nat
    OBVIOUS
  <2>2. ~ (y < x)
    BY <1>2, <2>1, NatLessDef
  <2> QED BY <2>1, <2>2
<1> QED BY <1>3

LEMMA MinElement ==
    ASSUME NEW S, S \subseteq Nat, S # {}
    PROVE  Min(S) \in S
BY LeastElement DEF Min

-----------------------------------------------------------------------------
(***************************************************************************)
(* Sequence numbers and the receive buffer.                                *)
(***************************************************************************)

LEMMA Constants ==
    /\ SEGMENT_SIZE \in Nat /\ SEGMENT_SIZE >= 1
    /\ MAX_WINDOW_SIZE \in Nat /\ MAX_WINDOW_SIZE >= 1
    /\ MAX_WINDOW_OFFSET \in Nat
    /\ MAX_SEGMENT_OFFSET \in Nat /\ MAX_SEGMENT_OFFSET >= 1
    /\ INITIAL_THRESHOLD \in Nat /\ INITIAL_THRESHOLD >= 1
BY SequenceNumbersAssumption, ConnectionAssumption

LEMMA OffsetMod ==
    ASSUME NEW a \in Int
    PROVE  a % MAX_SEGMENT_OFFSET \in Offsets
BY Constants DEF Offsets

LEMMA OffsetsAreNumbers == 0 \in Offsets /\ \A o \in Offsets : o \in Nat
BY Constants DEF Offsets

LEMMA EndOffsetType ==
    ASSUME NEW seg, seg.offset \in Offsets, seg.payload \in Seq(Nat)
    PROVE  EndOffset(seg) \in Offsets
<1>1. seg.offset \in Nat /\ Len(seg.payload) \in Nat
  BY OffsetsAreNumbers, LenProperties
<1> QED BY <1>1, OffsetMod DEF EndOffset

\* The offset a connection waits for is an offset, or -1 for a full buffer.
LEMMA AckOffsetType ==
    ASSUME NEW c \in ConnectionRecord
    PROVE  AckOffset(c) \in AckOffsets
<1> DEFINE free == {i \in 0 .. (c.inBuf.len - 1) :
                       ~ buffer_check(c.inBuf, c.bufferStart + i)}
<1>1. c.inBuf.len = MAX_SEGMENT_OFFSET /\ c.bufferStart \in Offsets
  BY DEF ConnectionRecord, ReceiveBuffer
<1>2. CASE free = {}
  BY <1>2 DEF AckOffset, buffer_next_invalid, AckOffsets
<1>3. CASE free # {}
  <2>1. Min(free) \in Nat
    <3>1. free \subseteq Nat
      BY <1>1, Constants
    <3> QED BY <1>3, <3>1, MinElement
  <2>2. c.bufferStart + Min(free) \in Int
    <3>1. c.bufferStart \in Nat
      BY <1>1, OffsetsAreNumbers
    <3> QED BY <2>1, <3>1
  <2> QED
    BY <1>1, <1>3, <2>2, OffsetMod DEF AckOffset, buffer_next_invalid, AckOffsets
<1> QED BY <1>2, <1>3

\* Bytes that are stored are bytes.
LEMMA buffer_storeType ==
    ASSUME NEW b \in ReceiveBuffer, NEW pos \in Offsets, NEW data \in Seq(Nat)
    PROVE  buffer_store(b, pos, data, Len(data)) \in ReceiveBuffer
<1>1. b.len = MAX_SEGMENT_OFFSET /\ b.cell \in [Offsets -> Nat \union {INVALID}]
  BY DEF ReceiveBuffer
<1>2. ASSUME NEW p \in Offsets
      PROVE  (IF (p - pos) % b.len < Len(data)
              THEN data[((p - pos) % b.len) + 1] ELSE b.cell[p])
               \in Nat \union {INVALID}
  <2>1. (p - pos) % b.len \in Nat
    <3>1. p \in Nat /\ pos \in Nat
      BY OffsetsAreNumbers
    <3>2. p - pos \in Int
      BY <3>1
    <3>3. (p - pos) % MAX_SEGMENT_OFFSET \in Offsets
      BY <3>2, OffsetMod
    <3> QED BY <1>1, <3>3, OffsetsAreNumbers
  <2>2. CASE (p - pos) % b.len < Len(data)
    <3>1. ((p - pos) % b.len) + 1 \in 1 .. Len(data)
      BY <2>1, <2>2, LenProperties
    <3> QED BY <2>2, <3>1, ElementOfSeq
  <2>3. CASE ~ (p - pos) % b.len < Len(data)
    BY <1>1, <2>3
  <2> QED BY <2>2, <2>3
<1>3. [p \in DOMAIN b.cell |->
          LET i == (p - pos) % b.len
          IN  IF i < Len(data) THEN data[i + 1] ELSE b.cell[p]]
        \in [Offsets -> Nat \union {INVALID}]
  BY <1>1, <1>2
<1> QED BY <1>1, <1>3 DEF buffer_store, ReceiveBuffer

-----------------------------------------------------------------------------
(***************************************************************************)
(* The double ring.                                                        *)
(***************************************************************************)

LEMMA FunctionIsSeq ==
    ASSUME NEW S, NEW n \in Nat, NEW f \in [1 .. n -> S]
    PROVE  f \in Seq(S) /\ Len(f) = n
OBVIOUS

LEMMA SubSeqType ==
    ASSUME NEW S, NEW q \in Seq(S), NEW m \in Int, NEW n \in Int,
           m >= 1, n <= Len(q)
    PROVE  SubSeq(q, m, n) \in Seq(S)
<1>1. ASSUME NEW i \in m .. n PROVE q[i] \in S
  <2>1. i \in 1 .. Len(q)
    BY LenProperties
  <2> QED BY <2>1, ElementOfSeq
<1> QED BY <1>1, SubSeqProperties

LEMMA IndicesFinite ==
    ASSUME NEW n \in Nat
    PROVE  IsFiniteSet(1 .. n) /\ Cardinality(1 .. n) = n
<1> DEFINE size == IF 1 > n THEN 0 ELSE n - 1 + 1
<1>1. n \in Int /\ 1 \in Int
  OBVIOUS
<1>2. size = n
  OBVIOUS
<1>3. IsFiniteSet(1 .. n) /\ Cardinality(1 .. n) = size
  BY <1>1, FS_Interval, Zenon
<1> HIDE DEF size
<1> QED BY <1>2, <1>3

LEMMA squeue_insertType ==
    ASSUME NEW q \in Seq(Offsets), NEW o \in Offsets
    PROVE  squeue_insert(q, o) \in Seq(Offsets)
<1> DEFINE n == Cardinality({i \in DOMAIN q : q[i] <= o})
<1>1. n \in Nat /\ n <= Len(q) /\ Len(q) \in Nat
  <2>1. DOMAIN q = 1 .. Len(q) /\ Len(q) \in Nat
    BY LenProperties
  <2>2. IsFiniteSet(1 .. Len(q)) /\ Cardinality(1 .. Len(q)) = Len(q)
    BY <2>1, IndicesFinite, Zenon
  <2>3. {i \in DOMAIN q : q[i] <= o} \in SUBSET (1 .. Len(q))
    BY <2>1
  <2> QED BY <2>1, <2>2, <2>3, FS_Subset, FS_CardinalityType
<1>2. squeue_insert(q, o) = InsertAt(q, n + 1, o)
  BY DEF squeue_insert
<1> HIDE DEF n
<1>3. InsertAt(q, n + 1, o)
        = SubSeq(q, 1, n) \o <<o>> \o SubSeq(q, n + 1, Len(q))
  <2>1. (n + 1) - 1 = n
    BY <1>1
  <2> QED BY <2>1 DEF InsertAt
<1>4. SubSeq(q, 1, n) \in Seq(Offsets) /\ SubSeq(q, n + 1, Len(q)) \in Seq(Offsets)
  BY <1>1, SubSeqType
<1>5. <<o>> \in Seq(Offsets)
  OBVIOUS
<1>6. SubSeq(q, 1, n) \o <<o>> \in Seq(Offsets)
  BY <1>4, <1>5, ConcatProperties
<1>7. SubSeq(q, 1, n) \o <<o>> \o SubSeq(q, n + 1, Len(q)) \in Seq(Offsets)
  BY <1>4, <1>6, ConcatProperties
<1> QED BY <1>2, <1>3, <1>7, Zenon

LEMMA squeue_peek_tailType ==
    ASSUME NEW q \in Seq(Offsets)
    PROVE  squeue_peek_tail(q) \in Offsets \union {-1}
<1>1. CASE q = <<>>
  BY <1>1 DEF squeue_peek_tail
<1>2. CASE q # <<>>
  <2>1. Len(q) \in 1 .. Len(q)
    BY <1>2, EmptySeq, LenProperties
  <2> QED BY <1>2, <2>1, ElementOfSeq DEF squeue_peek_tail
<1> QED BY <1>1, <1>2

LEMMA dring_insertType ==
    ASSUME NEW d \in DoubleRing, NEW o \in Offsets
    PROVE  dring_insert(d, o) \in DoubleRing
<1>1. d.s \in Seq(Offsets) /\ d.l \in Seq(Offsets)
  BY DEF DoubleRing
<1>2. /\ squeue_insert(d.s, o) \in Seq(Offsets)
      /\ squeue_insert(d.l, o) \in Seq(Offsets)
  BY <1>1, squeue_insertType
<1>3. squeue_peek_tail(squeue_insert(d.s, o)) \in Offsets \union {-1}
  BY <1>2, squeue_peek_tailType
<1> QED BY <1>2, <1>3 DEF dring_insert, DoubleRing

LEMMA PopOrderType ==
    ASSUME NEW d \in DoubleRing
    PROVE  /\ PopOrder(d) \in Seq(Offsets)
           /\ Len(PopOrder(d)) = dring_nitems(d)
           /\ dring_nitems(d) \in Nat
<1>1. d.s \in Seq(Offsets) /\ d.l \in Seq(Offsets)
  BY DEF DoubleRing
<1>2. Len(d.s) \in Nat /\ Len(d.l) \in Nat
  BY <1>1, LenProperties
<1>3. /\ d.s \o d.l \in Seq(Offsets)
      /\ Len(d.s \o d.l) = Len(d.s) + Len(d.l)
  BY <1>1, ConcatProperties
<1>4. PopOrder(d) = d.s \o d.l
  BY DEF PopOrder
<1>5. dring_nitems(d) = Len(d.s) + Len(d.l)
  BY DEF dring_nitems
<1>6. Len(d.s) + Len(d.l) \in Nat
  <2>1. \A m, n \in Nat : m + n \in Nat
    OBVIOUS
  <2> QED BY <1>2, <2>1, Zenon
<1> QED BY <1>3, <1>4, <1>5, <1>6, Zenon

LEMMA PopManyType ==
    ASSUME NEW d \in DoubleRing, NEW n \in Nat
    PROVE  PopMany(d, n) \in DoubleRing
<1>1. d.s \in Seq(Offsets) /\ d.l \in Seq(Offsets)
  BY DEF DoubleRing
<1>2. Len(d.s) \in Nat /\ Len(d.l) \in Nat
  BY <1>1, LenProperties
<1>3. CASE n <= Len(d.s)
  <2>1. SubSeq(d.s, n + 1, Len(d.s)) \in Seq(Offsets)
    BY <1>1, <1>2, SubSeqType
  <2> QED BY <1>3, <2>1 DEF PopMany, DoubleRing
<1>4. CASE ~ n <= Len(d.s)
  <2>1. SubSeq(d.l, n - Len(d.s) + 1, Len(d.l)) \in Seq(Offsets)
    <3>1. n - Len(d.s) + 1 \in Nat /\ n - Len(d.s) + 1 >= 1
      BY <1>2, <1>4
    <3> QED BY <1>1, <1>2, <3>1, SubSeqType
  <2>2. squeue_peek_tail(d.l) \in Offsets \union {-1}
    BY <1>1, squeue_peek_tailType
  <2>3. <<>> \in Seq(Offsets)
    BY EmptySeq
  <2> QED BY <1>1, <1>4, <2>1, <2>2, <2>3 DEF PopMany, DoubleRing
<1> QED BY <1>3, <1>4

-----------------------------------------------------------------------------
(***************************************************************************)
(* Connections.                                                            *)
(***************************************************************************)

\* The window is never closed and never larger than MAX_WINDOW_SIZE, slow start
\* can always be left, and the limit is set before the window grows to it.
WindowOK(c) ==
    /\ c.windowSize \in 1 .. MAX_WINDOW_SIZE
    /\ c.threshold >= 1
    /\ c.outSegments # <<>> => c.windowLimit >= 1

Healthy(c) == c \in ConnectionRecord /\ WindowOK(c)

LEMMA Fields ==
    ASSUME NEW c \in ConnectionRecord
    PROVE  /\ c.inBuf \in ReceiveBuffer
           /\ c.lasts \in DoubleRing
           /\ c.bufferStart \in Offsets
           /\ c.outSegments \in Seq(OutSegment)
           /\ c.numSentSegments \in Int
           /\ c.windowSize \in Nat
           /\ c.threshold \in Nat
           /\ c.windowLimit \in 0 .. MAX_WINDOW_SIZE
           /\ c.nextOffset \in Offsets
           /\ c.ackCounter \in 0 .. ACK_COUNTER_CAP
           /\ c.lastAckOffset \in AckOffsets
           /\ c.timers \in [Offsets -> Int]
           /\ c.failed \in SUBSET {"overwrite", "invalidate", "staleAck"}
BY DEF ConnectionRecord

LEMMA SegmentFields ==
    ASSUME NEW c \in ConnectionRecord, NEW i \in DOMAIN c.outSegments
    PROVE  /\ c.outSegments[i] \in OutSegment
           /\ c.outSegments[i].offset \in Offsets
           /\ c.outSegments[i].isLast \in BOOLEAN
           /\ c.outSegments[i].payload \in Seq(Nat)
           /\ c.outSegments[i].timerId \in Offsets \union {NO_TIMER}
           /\ c.outSegments[i].timesSend \in 0 .. TIMES_SEND_CAP
<1>1. c.outSegments \in Seq(OutSegment)
  BY Fields
<1>2. c.outSegments[i] \in OutSegment
  BY <1>1, LenProperties, ElementOfSeq
<1> QED BY <1>2 DEF OutSegment

LEMMA AtMostType ==
    ASSUME NEW m \in Int, NEW n \in Int
    PROVE  AtMost(m, n) \in Int /\ AtMost(m, n) <= m /\ AtMost(m, n) <= n
BY DEF AtMost

LEMMA create_connectionHealthy == Healthy(create_connection)
<1> DEFINE c == create_connection
<1>1. c.inBuf \in ReceiveBuffer
  <2>1. 0 .. (MAX_SEGMENT_OFFSET - 1) = Offsets
    BY DEF Offsets
  <2> QED BY <2>1 DEF create_connection, buffer_new, ReceiveBuffer
<1>2. c.lasts \in DoubleRing
  BY Constants, EmptySeq DEF create_connection, dring_new, DoubleRing
<1>3. c.outSegments \in Seq(OutSegment)
  BY EmptySeq DEF create_connection
<1>4. c \in ConnectionRecord
  BY <1>1, <1>2, <1>3, Constants, OffsetsAreNumbers
  DEF create_connection, ConnectionRecord, AckOffsets, ACK_COUNTER_CAP
<1>5. WindowOK(c)
  BY Constants DEF create_connection, WindowOK
<1> QED BY <1>4, <1>5 DEF Healthy

\* The limit of the window is set, and is at least 1.
LEMMA update_window_limitHealthy ==
    ASSUME NEW c, Healthy(c), NEW share \in Int
    PROVE  /\ Healthy(update_window_limit(c, share))
           /\ update_window_limit(c, share).windowLimit >= 1
<1> DEFINE limited == IF share < 0 THEN MAX_WINDOW_SIZE
                      ELSE AtMost(share, MAX_WINDOW_SIZE)
           limit   == IF limited > 1 THEN limited ELSE 1
<1>1. limit \in 0 .. MAX_WINDOW_SIZE /\ limit >= 1
  <2>1. limited \in Int /\ limited <= MAX_WINDOW_SIZE
    BY Constants, AtMostType
  <2> HIDE DEF limited
  <2> QED BY <2>1, Constants
<1> HIDE DEF limit
<1>2. update_window_limit(c, share) = [c EXCEPT !.windowLimit = limit]
  BY DEF update_window_limit, limit
<1>3. [c EXCEPT !.windowLimit = limit] \in ConnectionRecord
  BY <1>1 DEF Healthy, ConnectionRecord
<1> QED
  BY <1>1, <1>2, <1>3 DEF Healthy, WindowOK, ConnectionRecord

-----------------------------------------------------------------------------

LEMMA start_timerHealthy ==
    ASSUME NEW c, Healthy(c), NEW o \in Offsets
    PROVE  /\ Healthy(start_timer(c, o))
           /\ start_timer(c, o).outSegments = c.outSegments
<1>1. [c.timers EXCEPT ![o] = @ + 1] \in [Offsets -> Int]
  BY Fields DEF Healthy
<1>2. start_timer(c, o) = [c EXCEPT !.timers = [c.timers EXCEPT ![o] = @ + 1]]
  BY DEF start_timer
<1> QED BY <1>1, <1>2 DEF Healthy, WindowOK, ConnectionRecord

LEMMA stop_timerHealthy ==
    ASSUME NEW c, Healthy(c), NEW o \in Offsets
    PROVE  /\ Healthy(stop_timer(c, o))
           /\ stop_timer(c, o).outSegments = c.outSegments
<1>1. [c.timers EXCEPT ![o] = @ - 1] \in [Offsets -> Int]
  BY Fields DEF Healthy
<1>2. stop_timer(c, o) = [c EXCEPT !.timers = [c.timers EXCEPT ![o] = @ - 1]]
  BY DEF stop_timer
<1> QED BY <1>1, <1>2 DEF Healthy, WindowOK, ConnectionRecord

\* A window that is halved has room for a segment.
LEMMA Halved ==
    ASSUME NEW w \in 2 .. MAX_WINDOW_SIZE
    PROVE  w \div 2 \in 1 .. MAX_WINDOW_SIZE
BY Constants

LEMMA BackoffHealthy ==
    ASSUME NEW c, Healthy(c), NEW i \in DOMAIN c.outSegments
    PROVE  /\ Healthy(Backoff(c, i))
           /\ Backoff(c, i).outSegments = c.outSegments
<1>1. CASE c.outSegments[i].timesSend > 1 /\ c.windowSize > 1
  <2>1. c.windowSize \div 2 \in 1 .. MAX_WINDOW_SIZE
    BY <1>1, Halved DEF Healthy, WindowOK
  <2>2. Backoff(c, i) = [c EXCEPT !.threshold = c.windowSize \div 2,
                                  !.windowSize = 1]
    BY <1>1 DEF Backoff
  <2>3. c.windowSize \div 2 \in Nat /\ c.windowSize \div 2 >= 1
    BY <2>1, Constants
  <2>4. 1 \in 1 .. MAX_WINDOW_SIZE /\ 1 \in Nat
    BY Constants
  <2>5. Backoff(c, i) \in ConnectionRecord
    BY <2>2, <2>3, <2>4 DEF Healthy, ConnectionRecord
  <2>6. WindowOK(Backoff(c, i)) /\ Backoff(c, i).outSegments = c.outSegments
    BY <2>2, <2>3, <2>4 DEF Healthy, WindowOK, ConnectionRecord
  <2> QED BY <2>5, <2>6 DEF Healthy
<1>2. CASE ~ (c.outSegments[i].timesSend > 1 /\ c.windowSize > 1)
  BY <1>2 DEF Backoff
<1> QED BY <1>1, <1>2

\* A segment of the list is replaced by another one.
LEMMA ReplacedSegment ==
    ASSUME NEW c \in ConnectionRecord, NEW i \in DOMAIN c.outSegments,
           NEW s \in OutSegment
    PROVE  /\ [c.outSegments EXCEPT ![i] = s] \in Seq(OutSegment)
           /\ c.outSegments # <<>>
<1>1. c.outSegments \in Seq(OutSegment) /\ i \in 1 .. Len(c.outSegments)
  BY Fields, LenProperties
<1> QED BY <1>1, ExceptSeq, EmptySeq

LEMMA transmit_segmentHealthy ==
    ASSUME NEW c0, Healthy(c0), NEW i \in DOMAIN c0.outSegments
    PROVE  Healthy(transmit_segment(c0, i))
<1> DEFINE c  == Backoff(c0, i)
           s  == c.outSegments[i]
           in == [s EXCEPT !.timesSend = AtMost(@ + 1, TIMES_SEND_CAP),
                           !.timerId = s.offset]
           out == [s EXCEPT !.timerId = NO_TIMER]
           t  == start_timer(c, s.offset)
<1>1. Healthy(c) /\ c \in ConnectionRecord /\ i \in DOMAIN c.outSegments
  BY BackoffHealthy DEF Healthy
<1>2. s \in OutSegment /\ s.offset \in Offsets /\ s.timesSend \in 0 .. TIMES_SEND_CAP
  BY <1>1, SegmentFields
<1> HIDE DEF c
<1>3. Healthy(t) /\ t \in ConnectionRecord /\ t.outSegments = c.outSegments
  BY <1>1, <1>2, start_timerHealthy DEF Healthy
<1>4. in \in OutSegment /\ out \in OutSegment
  <2>1. AtMost(s.timesSend + 1, TIMES_SEND_CAP) \in 0 .. TIMES_SEND_CAP
    BY <1>2 DEF AtMost, TIMES_SEND_CAP
  <2> QED BY <1>2, <2>1 DEF OutSegment
<1> HIDE DEF s, in, out, t
<1>5. CASE InWindow(c, i)
  <2>1. transmit_segment(c0, i) =
          [t EXCEPT !.outSegments = [t.outSegments EXCEPT ![i] = in]]
    BY <1>5 DEF transmit_segment, c, s, in, t
  <2>2. [t.outSegments EXCEPT ![i] = in] \in Seq(OutSegment) /\ t.outSegments # <<>>
    BY <1>1, <1>3, <1>4, ReplacedSegment
  <2> QED BY ZenonT(60), <1>3, <2>1, <2>2 DEF Healthy, WindowOK, ConnectionRecord
<1>6. CASE ~ InWindow(c, i)
  <2>1. transmit_segment(c0, i) =
          [c EXCEPT !.outSegments = [c.outSegments EXCEPT ![i] = out],
                    !.numSentSegments = c.numSentSegments - 1]
    BY <1>6 DEF transmit_segment, c, s, out
  <2>2. [c.outSegments EXCEPT ![i] = out] \in Seq(OutSegment) /\ c.outSegments # <<>>
    BY <1>1, <1>4, ReplacedSegment
  <2>3. c.numSentSegments - 1 \in Int
    BY <1>1, Fields
  <2> QED BY ZenonT(60), <1>1, <2>1, <2>2, <2>3 DEF Healthy, WindowOK, ConnectionRecord
<1> QED BY <1>5, <1>6

LEMMA TransmittedType ==
    ASSUME NEW c0, Healthy(c0), NEW i \in DOMAIN c0.outSegments
    PROVE  Transmitted(c0, i) \in Seq(Segment)
<1> DEFINE c == Backoff(c0, i)
           s == c.outSegments[i]
           seg == [offset |-> s.offset, ackOffset |-> AckOffset(c),
                   isLast |-> s.isLast, payload |-> s.payload]
<1>1. c \in ConnectionRecord /\ i \in DOMAIN c.outSegments
  BY BackoffHealthy DEF Healthy
<1>2. seg \in Segment
  BY <1>1, SegmentFields, AckOffsetType DEF Segment
<1>3. <<seg>> \in Seq(Segment) /\ <<>> \in Seq(Segment)
  BY <1>2, EmptySeq
<1> QED BY <1>3 DEF Transmitted

\* The number of segments of a list that have some property.
LEMMA CountSegments ==
    ASSUME NEW c \in ConnectionRecord, NEW S \in SUBSET (DOMAIN c.outSegments)
    PROVE  /\ Cardinality(S) \in Nat
           /\ Cardinality(S) <= Len(c.outSegments)
<1>1. DOMAIN c.outSegments = 1 .. Len(c.outSegments) /\ Len(c.outSegments) \in Nat
  BY Fields, LenProperties
<1>2. /\ IsFiniteSet(DOMAIN c.outSegments)
      /\ Cardinality(DOMAIN c.outSegments) = Len(c.outSegments)
  BY <1>1, IndicesFinite, Zenon
<1> QED BY <1>2, FS_Subset, FS_CardinalityType

LEMMA transmit_segmentsHealthy ==
    ASSUME NEW c, Healthy(c)
    PROVE  Healthy(transmit_segments(c))
<1> DEFINE fresh == ToSend(c)
           list  == [i \in DOMAIN c.outSegments |->
                        IF i \in fresh
                        THEN [c.outSegments[i] EXCEPT
                                !.timerId = c.outSegments[i].offset]
                        ELSE c.outSegments[i]]
           pending == [o \in Offsets |->
                         c.timers[o] + Cardinality({i \in fresh :
                                             c.outSegments[i].offset = o})]
<1>1. c \in ConnectionRecord /\ fresh \in SUBSET (DOMAIN c.outSegments)
  BY DEF Healthy, ToSend
<1>2. DOMAIN c.outSegments = 1 .. Len(c.outSegments) /\ Len(c.outSegments) \in Nat
  BY <1>1, Fields, LenProperties
<1> HIDE DEF fresh
<1>3. ASSUME NEW i \in DOMAIN c.outSegments
      PROVE  [c.outSegments[i] EXCEPT !.timerId = c.outSegments[i].offset]
               \in OutSegment
  BY <1>1, SegmentFields DEF OutSegment
<1>4. list \in Seq(OutSegment) /\ (list = <<>> <=> c.outSegments = <<>>)
  <2>1. \A i \in 1 .. Len(c.outSegments) : list[i] \in OutSegment
    BY <1>1, <1>2, <1>3, SegmentFields
  <2>2. list \in [1 .. Len(c.outSegments) -> OutSegment]
    BY <1>2, <2>1
  <2>4. list \in Seq(OutSegment) /\ Len(list) = Len(c.outSegments)
    BY <1>2, <2>2, FunctionIsSeq
  <2>3. c.outSegments \in Seq(OutSegment)
    BY <1>1, Fields
  <2> HIDE DEF list
  <2> QED BY <2>3, <2>4, EmptySeq
<1>5. pending \in [Offsets -> Int]
  <2>1. ASSUME NEW o \in Offsets
        PROVE  c.timers[o] + Cardinality({i \in fresh :
                                c.outSegments[i].offset = o}) \in Int
    <3>1. c.timers[o] \in Int
      BY <1>1, Fields
    <3>2. Cardinality({i \in fresh : c.outSegments[i].offset = o}) \in Nat
      BY <1>1, CountSegments
    <3> QED BY <3>1, <3>2
  <2> QED BY <2>1
<1>6. c.numSentSegments + Cardinality(fresh) \in Int
  <2>1. c.numSentSegments \in Int /\ Cardinality(fresh) \in Nat
    BY <1>1, Fields, CountSegments
  <2> QED BY <2>1
<1>7. transmit_segments(c) =
        [c EXCEPT !.outSegments = list,
                  !.numSentSegments = c.numSentSegments + Cardinality(fresh),
                  !.timers = pending]
  BY DEF transmit_segments, fresh
<1> HIDE DEF list, pending
<1> QED
  BY ZenonT(60), <1>1, <1>4, <1>5, <1>6, <1>7 DEF Healthy, WindowOK, ConnectionRecord

-----------------------------------------------------------------------------

LEMMA SegmentedType ==
    ASSUME NEW c \in ConnectionRecord, NEW msg \in Seq(Nat)
    PROVE  Segmented(c, msg) \in Seq(OutSegment)
<1> DEFINE n == (Len(msg) + SEGMENT_SIZE - 1) \div SEGMENT_SIZE
           processed(i) == (i - 1) * SEGMENT_SIZE
           size(i) == AtMost(Len(msg) - processed(i), SEGMENT_SIZE)
           seg(i) == [ offset    |-> (c.nextOffset + processed(i)) % MAX_SEGMENT_OFFSET,
                       isLast    |-> Len(msg) - processed(i) = size(i),
                       payload   |-> SubSeq(msg, processed(i) + 1,
                                            processed(i) + size(i)),
                       timerId   |-> NO_TIMER,
                       timesSend |-> 0 ]
<1>1. Len(msg) \in Nat /\ c.nextOffset \in Nat
  BY Fields, OffsetsAreNumbers, LenProperties
<1>2. n \in Nat
  <2>1. \A a \in Nat, b \in Nat \ {0} : a \div b \in Nat
    OBVIOUS
  <2>2. Len(msg) + SEGMENT_SIZE - 1 \in Nat /\ SEGMENT_SIZE \in Nat \ {0}
    BY <1>1, Constants
  <2> QED BY <2>1, <2>2
<1>3. ASSUME NEW i \in 1 .. n
      PROVE  seg(i) \in OutSegment
  <2>1. processed(i) \in Nat
    <3>1. \A a, b \in Nat : a * b \in Nat
      OBVIOUS
    <3>2. i - 1 \in Nat
      BY <1>2
    <3> QED BY <3>1, <3>2, Constants
  <2> HIDE DEF processed, n
  <2>2. size(i) \in Int /\ size(i) <= Len(msg) - processed(i)
    <3>1. Len(msg) - processed(i) \in Int /\ SEGMENT_SIZE \in Int
      BY <1>1, <2>1, Constants
    <3> QED BY <3>1, AtMostType, Zenon
  <2> HIDE DEF size
  <2>3. SubSeq(msg, processed(i) + 1, processed(i) + size(i)) \in Seq(Nat)
    <3>1. /\ processed(i) + 1 \in Int /\ processed(i) + 1 >= 1
          /\ processed(i) + size(i) \in Int
          /\ processed(i) + size(i) <= Len(msg)
      BY <1>1, <2>1, <2>2
    <3> QED BY <3>1, SubSeqType, Zenon
  <2>4. (c.nextOffset + processed(i)) % MAX_SEGMENT_OFFSET \in Offsets
    BY <1>1, <2>1, OffsetMod
  <2>5. (Len(msg) - processed(i) = size(i)) \in BOOLEAN
    OBVIOUS
  <2>6. NO_TIMER \in Offsets \union {NO_TIMER} /\ 0 \in 0 .. TIMES_SEND_CAP
    BY DEF TIMES_SEND_CAP
  <2> QED BY <2>3, <2>4, <2>5, <2>6 DEF OutSegment
<1>4. Segmented(c, msg) = [i \in 1 .. n |-> seg(i)]
  BY DEF Segmented
<1> HIDE DEF n, seg
<1>5. [i \in 1 .. n |-> seg(i)] \in [1 .. n -> OutSegment]
  BY <1>3
<1> QED BY <1>2, <1>4, <1>5, FunctionIsSeq

LEMMA EnqueueHealthy ==
    ASSUME NEW c, Healthy(c), c.windowLimit >= 1, NEW msg \in Seq(Nat)
    PROVE  Healthy(Enqueue(c, msg))
<1>1. c \in ConnectionRecord
  BY DEF Healthy
<1>2. c.outSegments \o Segmented(c, msg) \in Seq(OutSegment)
  BY <1>1, Fields, SegmentedType, ConcatProperties
<1>3. (c.nextOffset + Len(msg)) % MAX_SEGMENT_OFFSET \in Offsets
  <2>1. c.nextOffset \in Nat /\ Len(msg) \in Nat
    BY <1>1, Fields, OffsetsAreNumbers, LenProperties
  <2> QED BY <2>1, OffsetMod
<1> DEFINE list == c.outSegments \o Segmented(c, msg)
           next == (c.nextOffset + Len(msg)) % MAX_SEGMENT_OFFSET
<1>4. Enqueue(c, msg) = [c EXCEPT !.outSegments = list, !.nextOffset = next]
  BY DEF Enqueue
<1>5. list \in Seq(OutSegment) /\ next \in Offsets
  BY <1>2, <1>3
<1> HIDE DEF list, next
<1> QED BY <1>1, <1>4, <1>5 DEF Healthy, WindowOK, ConnectionRecord

-----------------------------------------------------------------------------

LEMMA CountDuplicateAckHealthy ==
    ASSUME NEW c, Healthy(c), NEW seg \in Segment
    PROVE  /\ Healthy(CountDuplicateAck(c, seg))
           /\ CountDuplicateAck(c, seg).outSegments = c.outSegments
<1>1. seg.ackOffset \in AckOffsets
  BY DEF Segment
<1>2. AtMost(c.ackCounter + 1, ACK_COUNTER_CAP) \in 0 .. ACK_COUNTER_CAP
  BY SMTT(60), Fields DEF Healthy, AtMost, ACK_COUNTER_CAP
<1>3. 0 \in 0 .. ACK_COUNTER_CAP
  BY DEF ACK_COUNTER_CAP
<1> QED
  BY <1>1, <1>2, <1>3
  DEF CountDuplicateAck, Healthy, WindowOK, ConnectionRecord

LEMMA HalveWindowHealthy ==
    ASSUME NEW c, Healthy(c)
    PROVE  /\ Healthy(HalveWindow(c))
           /\ HalveWindow(c).outSegments = c.outSegments
<1>1. 0 \in 0 .. ACK_COUNTER_CAP
  BY DEF ACK_COUNTER_CAP
<1>2. CASE c.windowSize > 1
  <2> DEFINE half == c.windowSize \div 2
  <2>1. half \in 1 .. MAX_WINDOW_SIZE
    BY <1>2, Halved DEF Healthy, WindowOK
  <2> HIDE DEF half
  <2>2. half \in Nat /\ half >= 1
    BY <2>1, Constants
  <2>3. HalveWindow(c) = [c EXCEPT !.ackCounter = 0, !.threshold = half,
                                   !.windowSize = half]
    BY <1>2 DEF HalveWindow, half
  <2> QED
    BY ZenonT(60), <1>1, <2>1, <2>2, <2>3 DEF Healthy, WindowOK, ConnectionRecord
<1>3. CASE ~ c.windowSize > 1
  BY <1>1, <1>3 DEF HalveWindow, Healthy, WindowOK, ConnectionRecord
<1> QED BY <1>2, <1>3

LEMMA FirstSegment ==
    ASSUME NEW c, Healthy(c), c.outSegments # <<>>
    PROVE  1 \in DOMAIN c.outSegments
<1>1. c.outSegments \in Seq(OutSegment)
  BY Fields DEF Healthy
<1>2. Len(c.outSegments) \in Nat \ {0}
  BY <1>1, EmptySeq
<1> QED BY <1>1, <1>2, LenProperties

LEMMA StopFirstTimerHealthy ==
    ASSUME NEW c, Healthy(c), c.outSegments # <<>>
    PROVE  /\ Healthy(StopFirstTimer(c))
           /\ StopFirstTimer(c).outSegments = c.outSegments
<1>1. c.outSegments[1].timerId \in Offsets \union {NO_TIMER}
  BY FirstSegment, SegmentFields DEF Healthy
<1> QED BY <1>1, stop_timerHealthy DEF StopFirstTimer

\* The connection the fast retransmit starts from.
LEMMA FastStart ==
    ASSUME NEW c, Healthy(c), c.outSegments # <<>>
    PROVE  /\ Healthy(StopFirstTimer(HalveWindow(c)))
           /\ 1 \in DOMAIN StopFirstTimer(HalveWindow(c)).outSegments
BY HalveWindowHealthy, StopFirstTimerHealthy, FirstSegment

LEMMA FastRecoveryHealthy ==
    ASSUME NEW c, Healthy(c), NEW seg \in Segment
    PROVE  Healthy(FastRecovery(c, seg))
BY HalveWindowHealthy, FastStart, transmit_segmentHealthy DEF FastRecovery

LEMMA FastRetransmittedType ==
    ASSUME NEW c, Healthy(c), NEW seg \in Segment
    PROVE  FastRetransmitted(c, seg) \in Seq(Segment)
<1>1. <<>> \in Seq(Segment)
  BY EmptySeq
<1> QED
  BY <1>1, FastStart, TransmittedType DEF FastRetransmitted, FastRetransmits

-----------------------------------------------------------------------------

LEMMA StoreHealthy ==
    ASSUME NEW c, Healthy(c), NEW seg \in Segment
    PROVE  /\ Healthy(Store(c, seg))
           /\ Store(c, seg).outSegments = c.outSegments
<1>1. seg.offset \in Offsets /\ seg.payload \in Seq(Nat) /\ c \in ConnectionRecord
  BY DEF Segment, Healthy
<1>2. buffer_store(c.inBuf, seg.offset, seg.payload, Len(seg.payload))
        \in ReceiveBuffer
  BY <1>1, Fields, buffer_storeType
<1>3. dring_insert(c.lasts, EndOffset(seg)) \in DoubleRing
  BY <1>1, Fields, EndOffsetType, dring_insertType
<1> QED
  BY <1>1, <1>2, <1>3 DEF Store, Healthy, WindowOK, ConnectionRecord

LEMMA CompleteType ==
    ASSUME NEW c \in ConnectionRecord
    PROVE  /\ Cardinality(Complete(c)) \in Nat
           /\ Cardinality(Complete(c)) <= Len(PopOrder(c.lasts))
<1>1. /\ dring_nitems(c.lasts) \in Nat
      /\ dring_nitems(c.lasts) = Len(PopOrder(c.lasts))
  BY Fields, PopOrderType
<1>2. /\ IsFiniteSet(1 .. dring_nitems(c.lasts))
      /\ Cardinality(1 .. dring_nitems(c.lasts)) = dring_nitems(c.lasts)
  BY <1>1, IndicesFinite, Zenon
<1>3. Complete(c) \in SUBSET (1 .. dring_nitems(c.lasts))
  BY DEF Complete
<1> QED BY <1>1, <1>2, <1>3, FS_Subset, FS_CardinalityType

\* The pieces handed to the application lie between offsets.
LEMMA ExtentsType ==
    ASSUME NEW c \in ConnectionRecord, NEW j \in DOMAIN Extents(c)
    PROVE  Extents(c)[j].start \in Offsets /\ Extents(c)[j].size \in Nat
<1> DEFINE ends == PopOrder(c.lasts)
           start(k) == IF k = 1 THEN c.bufferStart ELSE ends[k - 1]
<1>1. ends \in Seq(Offsets) /\ Len(ends) \in Nat /\ c.bufferStart \in Offsets
  BY Fields, PopOrderType
<1>2. j \in 1 .. Cardinality(Complete(c))
  BY DEF Extents
<1>3. j \in Nat /\ 1 <= j /\ j <= Len(ends)
  BY <1>1, <1>2, CompleteType
<1>4. Extents(c)[j] = [start |-> start(j), size |-> distance(start(j), ends[j])]
  BY <1>2 DEF Extents
<1> HIDE DEF ends
<1>5. ends[j] \in Offsets
  BY <1>1, <1>3, ElementOfSeq
<1>6. start(j) \in Offsets
  <2>1. CASE j = 1
    BY <1>1, <2>1
  <2>2. CASE j # 1
    <3>1. j - 1 \in 1 .. Len(ends)
      BY <1>1, <1>3, <2>2
    <3> QED BY <1>1, <2>2, <3>1, ElementOfSeq
  <2> QED BY <2>1, <2>2
<1> HIDE DEF start
<1>7. distance(start(j), ends[j]) \in Nat
  <2>1. \A o, e \in Offsets : distance(o, e) \in Nat
    BY Constants DEF distance, Offsets
  <2> QED BY <1>5, <1>6, <2>1
<1> QED BY <1>4, <1>6, <1>7

LEMMA MessagesType ==
    ASSUME NEW c \in ConnectionRecord
    PROVE  Messages(c) \in Seq(Seq(Nat \union {INVALID}))
<1> DEFINE n == Cardinality(Complete(c))
           Bytes == Nat \union {INVALID}
<1>1. n \in Nat /\ DOMAIN Extents(c) = 1 .. n
  BY CompleteType DEF Extents
<1>2. c.inBuf.len = MAX_SEGMENT_OFFSET /\ c.inBuf.cell \in [Offsets -> Bytes]
  BY Fields DEF ReceiveBuffer
<1>3. ASSUME NEW j \in DOMAIN Extents(c)
      PROVE  Loaded(c.inBuf, Extents(c)[j].start, Extents(c)[j].size) \in Seq(Bytes)
  <2> DEFINE start == Extents(c)[j].start
             size  == Extents(c)[j].size
  <2>1. start \in Nat /\ size \in Nat
    BY ExtentsType, OffsetsAreNumbers
  <2> HIDE DEF start, size
  <2>2. ASSUME NEW i \in 1 .. size
        PROVE  c.inBuf.cell[(start + i - 1) % c.inBuf.len] \in Bytes
    <3>1. start + i - 1 \in Int
      BY <2>1
    <3>2. (start + i - 1) % MAX_SEGMENT_OFFSET \in Offsets
      BY <3>1, OffsetMod
    <3> QED BY <1>2, <3>2
  <2>3. Loaded(c.inBuf, start, size) \in [1 .. size -> Bytes]
    BY <2>2 DEF Loaded
  <2>4. Loaded(c.inBuf, start, size) \in Seq(Bytes)
    BY <2>1, <2>3, FunctionIsSeq
  <2> QED BY <2>4 DEF start, size
<1>4. Messages(c) \in [1 .. n -> Seq(Bytes)]
  BY <1>1, <1>3 DEF Messages
<1> HIDE DEF n
<1> QED BY <1>1, <1>4, FunctionIsSeq

LEMMA DeliverHealthy ==
    ASSUME NEW c, Healthy(c)
    PROVE  /\ Healthy(Deliver(c))
           /\ Deliver(c).outSegments = c.outSegments
<1> DEFINE n == Cardinality(Complete(c))
           cell == [p \in Offsets |->
                       IF \E j \in 1 .. n : Covers(Extents(c)[j], p)
                       THEN INVALID ELSE c.inBuf.cell[p]]
           buf == [c.inBuf EXCEPT !.cell = cell]
           last == PopOrder(c.lasts)[n]
           failed == IF ReadsInvalid(c) THEN c.failed \union {"invalidate"}
                     ELSE c.failed
<1>1. c \in ConnectionRecord
  BY DEF Healthy
<1>2. n \in Nat /\ n <= Len(PopOrder(c.lasts))
  BY <1>1, CompleteType
<1>3. CASE n = 0
  BY <1>3 DEF Deliver
<1>4. CASE n # 0
  <2>1. Deliver(c) = [c EXCEPT !.inBuf = buf, !.lasts = PopMany(c.lasts, n),
                               !.bufferStart = last, !.failed = failed]
    BY <1>4 DEF Deliver
  <2>2. buf \in ReceiveBuffer
    <3>1. c.inBuf \in ReceiveBuffer /\ c.inBuf.cell \in [Offsets -> Nat \union {INVALID}]
      BY <1>1, Fields DEF ReceiveBuffer
    <3>2. cell \in [Offsets -> Nat \union {INVALID}]
      BY <3>1
    <3> HIDE DEF cell
    <3> QED BY <3>1, <3>2 DEF ReceiveBuffer
  <2>3. last \in Offsets
    <3>1. PopOrder(c.lasts) \in Seq(Offsets)
      BY <1>1, Fields, PopOrderType
    <3>2. n \in 1 .. Len(PopOrder(c.lasts))
      BY <1>2, <1>4
    <3> QED BY <3>1, <3>2, ElementOfSeq
  <2>4. PopMany(c.lasts, n) \in DoubleRing
    BY <1>1, <1>2, Fields, PopManyType
  <2>5. failed \in SUBSET {"overwrite", "invalidate", "staleAck"}
    BY <1>1, Fields
  <2> HIDE DEF buf, last, failed, n
  <2> QED
    BY ZenonT(60), <1>1, <2>1, <2>2, <2>3, <2>4, <2>5 DEF Healthy, WindowOK, ConnectionRecord
<1> QED BY <1>3, <1>4

-----------------------------------------------------------------------------
(***************************************************************************)
(* The window.                                                             *)
(***************************************************************************)

\* One step of growth stays within the limit, or where the window is.
LEMMA GrownBound ==
    ASSUME NEW c \in ConnectionRecord, c.windowLimit >= 1,
           NEW w \in 1 .. MAX_WINDOW_SIZE
    PROVE  Grown(c, w) \in 1 .. MAX_WINDOW_SIZE
<1>1. /\ c.windowLimit \in Nat /\ c.windowLimit <= MAX_WINDOW_SIZE
      /\ c.threshold \in Nat
      /\ w \in Nat /\ w >= 1 /\ w <= MAX_WINDOW_SIZE
  BY Fields, Constants
<1>2. CASE w < c.threshold
  <2>1. /\ AtMost(2 * w, c.windowLimit) \in Nat
        /\ AtMost(2 * w, c.windowLimit) >= 1
        /\ AtMost(2 * w, c.windowLimit) <= c.windowLimit
    BY <1>1 DEF AtMost
  <2>2. Grown(c, w) = AtMost(2 * w, c.windowLimit)
    BY <1>2 DEF Grown
  <2> QED BY <1>1, <2>1, <2>2, Constants
<1>3. CASE ~ w < c.threshold
  BY <1>1, <1>3, Constants DEF Grown
<1> QED BY <1>2, <1>3

\* All along the loop that grows the window it stays in its bounds.
LEMMA PathBound ==
    ASSUME NEW c, Healthy(c), c.windowLimit >= 1, NEW steps \in Nat,
           NEW path \in GrowthPaths(c, steps)
    PROVE  path[steps] \in 1 .. MAX_WINDOW_SIZE
<1> DEFINE beyond == {i \in 0 .. steps : path[i] \notin 1 .. MAX_WINDOW_SIZE}
<1>1. /\ path[0] = c.windowSize
      /\ \A i \in 1 .. steps : path[i] = Grown(c, path[i - 1])
  BY DEF GrowthPaths
<1>2. SUFFICES ASSUME beyond # {} PROVE FALSE
  BY <1>2
<1>3. PICK i \in beyond : \A k \in beyond : i <= k
  <2>1. beyond \subseteq Nat
    OBVIOUS
  <2> QED BY <1>2, <2>1, LeastElement
<1>4. i \in 0 .. steps /\ i # 0
  BY <1>1 DEF Healthy, WindowOK
<1>5. i \in 1 .. steps /\ i - 1 \in 0 .. steps /\ ~ (i <= i - 1)
  BY <1>4
<1>6. path[i - 1] \in 1 .. MAX_WINDOW_SIZE
  BY <1>3, <1>5
<1>7. path[i] \in 1 .. MAX_WINDOW_SIZE
  BY <1>1, <1>5, <1>6, GrownBound DEF Healthy
<1> QED BY <1>3, <1>7

LEMMA AcknowledgedType ==
    ASSUME NEW c \in ConnectionRecord, NEW ackOffset
    PROVE  /\ Acknowledged(c, ackOffset) \in Nat
           /\ Acknowledged(c, ackOffset) <= Len(c.outSegments)
           /\ GrowthSteps(c, ackOffset) \in Nat
<1>1. /\ Acknowledged(c, ackOffset) \in Nat
      /\ Acknowledged(c, ackOffset) <= Len(c.outSegments)
  BY CountSegments DEF Acknowledged
<1> DEFINE n == Acknowledged(c, ackOffset)
<1> HIDE DEF n
<1>2. GrowthSteps(c, ackOffset) =
        IF n = Len(c.outSegments) /\ n > 0 THEN n - 1 ELSE n
  BY DEF GrowthSteps, n
<1>3. n \in Nat
  BY <1>1 DEF n
<1>4. GrowthSteps(c, ackOffset) \in Nat
  BY <1>2, <1>3
<1> QED BY <1>1, <1>4

LEMMA RemoveAcknowledgedHealthy ==
    ASSUME NEW c, Healthy(c), c.outSegments # <<>>, NEW ackOffset
    PROVE  /\ Healthy(RemoveAcknowledged(c, ackOffset))
           /\ c.windowLimit >= 1
           /\ RemoveAcknowledged(c, ackOffset).windowLimit = c.windowLimit
<1> DEFINE n       == Acknowledged(c, ackOffset)
           running == {i \in 1 .. n : c.outSegments[i].timerId # NO_TIMER}
           list    == SubSeq(c.outSegments, n + 1, Len(c.outSegments))
           count   == c.numSentSegments - Cardinality(running)
           pending == [o \in Offsets |->
                         c.timers[o] - Cardinality({i \in running :
                                             c.outSegments[i].timerId = o})]
           failed  == IF AckIsStale(c, ackOffset)
                      THEN c.failed \union {"staleAck"} ELSE c.failed
<1>1. c \in ConnectionRecord /\ c.outSegments \in Seq(OutSegment)
  BY Fields DEF Healthy
<1>2. n \in Nat /\ n <= Len(c.outSegments) /\ Len(c.outSegments) \in Nat
  BY <1>1, AcknowledgedType, LenProperties
<1>3. list \in Seq(OutSegment)
  BY <1>1, <1>2, SubSeqType
<1>4. running \in SUBSET (DOMAIN c.outSegments)
  <2>1. DOMAIN c.outSegments = 1 .. Len(c.outSegments)
    BY <1>1, LenProperties
  <2> HIDE DEF n
  <2> QED BY <1>2, <2>1
<1>5. count \in Int
  <2>1. c.numSentSegments \in Int /\ Cardinality(running) \in Nat
    BY <1>1, <1>4, Fields, CountSegments
  <2> QED BY <2>1
<1>6. pending \in [Offsets -> Int]
  <2> HIDE DEF running
  <2>1. ASSUME NEW o \in Offsets
        PROVE  c.timers[o] - Cardinality({i \in running :
                                c.outSegments[i].timerId = o}) \in Int
    <3>1. c.timers[o] \in Int
      BY <1>1, Fields
    <3>2. Cardinality({i \in running : c.outSegments[i].timerId = o}) \in Nat
      BY <1>1, <1>4, CountSegments
    <3> QED BY <3>1, <3>2
  <2> QED BY <2>1
<1>7. failed \in SUBSET {"overwrite", "invalidate", "staleAck"}
  BY <1>1, Fields
<1>8. RemoveAcknowledged(c, ackOffset) =
        [c EXCEPT !.outSegments = list, !.numSentSegments = count,
                  !.timers = pending, !.failed = failed]
  BY DEF RemoveAcknowledged
<1> HIDE DEF n, list, count, pending, failed
<1> QED
  BY ZenonT(60), <1>1, <1>3, <1>5, <1>6, <1>7, <1>8 DEF Healthy, WindowOK, ConnectionRecord

LEMMA ProcessAckHealthy ==
    ASSUME NEW c, Healthy(c), NEW ackOffset,
           NEW path \in GrowthPaths(c, GrowthSteps(c, ackOffset))
    PROVE  Healthy(ProcessAck(c, ackOffset, path))
<1> DEFINE r == RemoveAcknowledged(c, ackOffset)
           w == path[GrowthSteps(c, ackOffset)]
<1>1. CASE c.outSegments = <<>>
  BY <1>1 DEF ProcessAck
<1>2. CASE c.outSegments # <<>>
  <2>1. Healthy(r) /\ c.windowLimit >= 1
    BY <1>2, RemoveAcknowledgedHealthy
  <2>2. w \in 1 .. MAX_WINDOW_SIZE
    BY <2>1, AcknowledgedType, PathBound DEF Healthy
  <2> HIDE DEF r, w
  <2>3. w \in Nat
    BY <2>2, Constants
  <2>4. Healthy([r EXCEPT !.windowSize = w])
    BY <2>1, <2>2, <2>3 DEF Healthy, WindowOK, ConnectionRecord
  <2>5. ProcessAck(c, ackOffset, path)
          = transmit_segments([r EXCEPT !.windowSize = w])
    BY <1>2 DEF ProcessAck, r, w
  <2> QED BY <2>4, <2>5, transmit_segmentsHealthy
<1> QED BY <1>1, <1>2

LEMMA AckSegmentType ==
    ASSUME NEW c \in ConnectionRecord
    PROVE  AckSegment(c) \in Segment
<1>1. (c.nextOffset - 1) % MAX_SEGMENT_OFFSET \in Offsets
  <2>1. c.nextOffset - 1 \in Int
    BY Fields, OffsetsAreNumbers
  <2> QED BY <2>1, OffsetMod
<1>2. <<>> \in Seq(Nat)
  BY EmptySeq
<1> QED BY <1>1, <1>2, AckOffsetType DEF AckSegment, Segment

-----------------------------------------------------------------------------
(***************************************************************************)
(* The timers of a connection.                                             *)
(***************************************************************************)

\* The segments that wait for a timer, and those that wait for one of offset o.
Timed(c) == {i \in DOMAIN c.outSegments : c.outSegments[i].timerId # NO_TIMER}

TimedAt(c, o) ==
    {i \in DOMAIN c.outSegments :
        c.outSegments[i].offset = o /\ c.outSegments[i].timerId # NO_TIMER}

\* A segment believes in a timer of its own offset, every pending timer is
\* believed in by one segment, and numSentSegments counts them.
Counted(c) ==
    /\ \A i \in DOMAIN c.outSegments :
          c.outSegments[i].timerId \in {c.outSegments[i].offset, NO_TIMER}
    /\ \A o \in Offsets : c.timers[o] = Cardinality(TimedAt(c, o))
    /\ c.numSentSegments = Cardinality(Timed(c))

FirstTimed(c) == c.outSegments # <<>> => c.outSegments[1].timerId # NO_TIMER

\* What a step that neither sends nor removes segments leaves alone.
SameSegments(c, d) ==
    /\ d.outSegments = c.outSegments
    /\ d.nextOffset = c.nextOffset
    /\ d.timers = c.timers
    /\ d.numSentSegments = c.numSentSegments

LEMMA SameCounted ==
    ASSUME NEW c, NEW d, SameSegments(c, d)
    PROVE  /\ Counted(c) => Counted(d)
           /\ FirstTimed(c) => FirstTimed(d)
BY DEF SameSegments, Counted, Timed, TimedAt, FirstTimed

LEMMA NoTimerIsNoOffset == \A o \in Offsets : o # NO_TIMER
BY OffsetsAreNumbers DEF NO_TIMER

LEMMA TimedFinite ==
    ASSUME NEW c \in ConnectionRecord, NEW S \in SUBSET (DOMAIN c.outSegments)
    PROVE  IsFiniteSet(S) /\ Cardinality(S) \in Nat
<1>1. DOMAIN c.outSegments = 1 .. Len(c.outSegments) /\ Len(c.outSegments) \in Nat
  BY Fields, LenProperties
<1>2. /\ IsFiniteSet(DOMAIN c.outSegments)
      /\ Cardinality(DOMAIN c.outSegments) = Len(c.outSegments)
  BY <1>1, IndicesFinite, Zenon
<1> QED BY <1>2, FS_Subset, FS_CardinalityType

LEMMA create_connectionCounted ==
    Counted(create_connection) /\ FirstTimed(create_connection)
<1> DEFINE c == create_connection
<1>1. c.outSegments = <<>> /\ DOMAIN c.outSegments = {} /\ c.numSentSegments = 0
  BY DEF create_connection
<1>2. \A o \in Offsets : c.timers[o] = 0
  BY DEF create_connection
<1> HIDE DEF c
<1>3. Timed(c) = {} /\ \A o \in Offsets : TimedAt(c, o) = {}
  BY <1>1 DEF Timed, TimedAt
<1>4. Counted(c)
  BY <1>1, <1>2, <1>3, FS_EmptySet DEF Counted
<1>5. FirstTimed(c)
  BY <1>1 DEF FirstTimed
<1> QED BY <1>4, <1>5 DEF c

\* The timer of segment i expires, or is stopped, and the segment is transmitted
\* again: it starts another one, or is no longer sent.
LEMMA RetransmitCounted ==
    ASSUME NEW c0, Healthy(c0), Counted(c0),
           NEW i \in DOMAIN c0.outSegments,
           NEW o \in Offsets, c0.outSegments[i].timerId = o
    PROVE  Counted(transmit_segment(stop_timer(c0, o), i))
<1> DEFINE s0 == stop_timer(c0, o)
           c == Backoff(s0, i)
           s == c.outSegments[i]
           in == [s EXCEPT !.timesSend = AtMost(@ + 1, TIMES_SEND_CAP),
                           !.timerId = s.offset]
           out == [s EXCEPT !.timerId = NO_TIMER]
           t == start_timer(c, s.offset)
           d == transmit_segment(s0, i)
<1>1. /\ c0 \in ConnectionRecord /\ c0.outSegments \in Seq(OutSegment)
      /\ c0.timers \in [Offsets -> Int] /\ c0.numSentSegments \in Int
      /\ DOMAIN c0.outSegments = 1 .. Len(c0.outSegments)
  BY Fields, LenProperties DEF Healthy
<1>2. Healthy(s0) /\ s0.outSegments = c0.outSegments
  BY stop_timerHealthy
<1>3. /\ s0.timers = [c0.timers EXCEPT ![o] = @ - 1]
      /\ s0.numSentSegments = c0.numSentSegments
  BY <1>1 DEF stop_timer, ConnectionRecord
<1> HIDE DEF s0
<1>4. /\ Healthy(c) /\ c.outSegments = c0.outSegments /\ c.timers = s0.timers
      /\ c.numSentSegments = c0.numSentSegments
  BY <1>2, <1>3, BackoffHealthy DEF Backoff, Healthy, ConnectionRecord
<1>5. s = c0.outSegments[i] /\ s \in OutSegment /\ s.offset = o
  BY <1>1, <1>4, SegmentFields, NoTimerIsNoOffset DEF Counted
<1> HIDE DEF c
<1>6. /\ t.outSegments = c0.outSegments /\ t.numSentSegments = c0.numSentSegments
      /\ t.timers = [s0.timers EXCEPT ![o] = @ + 1]
      /\ Healthy(t)
  BY ZenonT(60), <1>4, <1>5, start_timerHealthy DEF start_timer, Healthy, ConnectionRecord
<1>7. /\ in.offset = o /\ in.timerId = o
      /\ out.offset = o /\ out.timerId = NO_TIMER
  BY <1>5 DEF OutSegment
<1> HIDE DEF s, in, out, t
<1>8. o # NO_TIMER
  BY NoTimerIsNoOffset
<1>9. ASSUME InWindow(c, i) PROVE Counted(d)
  <2>1. d = [t EXCEPT !.outSegments = [t.outSegments EXCEPT ![i] = in]]
    BY <1>9 DEF transmit_segment, c, s, in, t
  <2>2. /\ d.outSegments = [c0.outSegments EXCEPT ![i] = in]
        /\ d.timers = t.timers /\ d.numSentSegments = c0.numSentSegments
    BY ZenonT(60), <2>1, <1>6 DEF Healthy, ConnectionRecord
  <2> HIDE DEF d
  <2>3. /\ DOMAIN d.outSegments = DOMAIN c0.outSegments
        /\ \A j \in DOMAIN c0.outSegments :
              /\ d.outSegments[j].offset = c0.outSegments[j].offset
              /\ d.outSegments[j].timerId = c0.outSegments[j].timerId
    BY <2>2, <1>1, <1>5, <1>7
  <2>4. \A p \in Offsets : d.timers[p] = c0.timers[p]
    BY <2>2, <1>1, <1>3, <1>6
  <2>5. Timed(d) = Timed(c0) /\ \A p \in Offsets : TimedAt(d, p) = TimedAt(c0, p)
    BY <2>3 DEF Timed, TimedAt
  <2> QED BY <2>2, <2>3, <2>4, <2>5 DEF Counted
<1>10. ASSUME ~ InWindow(c, i) PROVE Counted(d)
  <2>1. d = [c EXCEPT !.outSegments = [c.outSegments EXCEPT ![i] = out],
                      !.numSentSegments = c.numSentSegments - 1]
    BY <1>10 DEF transmit_segment, c, s, out
  <2>2. /\ d.outSegments = [c0.outSegments EXCEPT ![i] = out]
        /\ d.timers = s0.timers /\ d.numSentSegments = c0.numSentSegments - 1
    BY <2>1, <1>4 DEF Healthy, ConnectionRecord
  <2> HIDE DEF d
  <2>3. /\ DOMAIN d.outSegments = DOMAIN c0.outSegments
        /\ \A j \in DOMAIN c0.outSegments :
              /\ d.outSegments[j].offset = c0.outSegments[j].offset
              /\ d.outSegments[j].timerId =
                    IF j = i THEN NO_TIMER ELSE c0.outSegments[j].timerId
    BY <2>2, <1>1, <1>5, <1>7
  <2>4. \A p \in Offsets :
           d.timers[p] = IF p = o THEN c0.timers[p] - 1 ELSE c0.timers[p]
    BY <2>2, <1>1, <1>3
  <2>5. i \in Timed(c0) /\ i \in TimedAt(c0, o)
    BY <1>5, <1>8 DEF Timed, TimedAt, s
  <2>6. Timed(d) = Timed(c0) \ {i}
    BY <2>3 DEF Timed
  <2>7. \A p \in Offsets :
           TimedAt(d, p) = IF p = o THEN TimedAt(c0, p) \ {i} ELSE TimedAt(c0, p)
    BY <2>3, <1>5 DEF TimedAt, s
  <2>8. Cardinality(Timed(d)) = Cardinality(Timed(c0)) - 1
    <3>1. IsFiniteSet(Timed(c0))
      BY <1>1, TimedFinite DEF Timed
    <3> QED BY <2>5, <2>6, <3>1, FS_RemoveElement
  <2>9. Cardinality(TimedAt(d, o)) = Cardinality(TimedAt(c0, o)) - 1
    <3>1. IsFiniteSet(TimedAt(c0, o))
      BY <1>1, TimedFinite DEF TimedAt
    <3> QED BY <2>5, <2>7, <3>1, FS_RemoveElement
  <2>10. \A p \in Offsets : d.timers[p] = Cardinality(TimedAt(d, p))
    BY <2>4, <2>7, <2>9 DEF Counted
  <2>11. d.numSentSegments = Cardinality(Timed(d))
    BY <2>2, <2>8 DEF Counted
  <2> QED BY <2>3, <2>10, <2>11 DEF Counted
<1> QED BY <1>9, <1>10 DEF s0, d

\* The segments that are geared get a timer each.
LEMMA transmit_segmentsCounted ==
    ASSUME NEW c, Healthy(c), Counted(c)
    PROVE  Counted(transmit_segments(c)) /\ FirstTimed(transmit_segments(c))
<1> DEFINE fresh == ToSend(c)
           at(o) == {i \in fresh : c.outSegments[i].offset = o}
           d == transmit_segments(c)
<1>1. /\ c \in ConnectionRecord /\ c.outSegments \in Seq(OutSegment)
      /\ DOMAIN c.outSegments = 1 .. Len(c.outSegments)
  BY Fields, LenProperties DEF Healthy
<1>2. fresh \in SUBSET (DOMAIN c.outSegments)
  BY DEF ToSend
<1>3. \A i \in fresh : c.outSegments[i].timerId = NO_TIMER
  BY DEF ToSend
<1>4. /\ d.numSentSegments = c.numSentSegments + Cardinality(fresh)
      /\ \A o \in Offsets : d.timers[o] = c.timers[o] + Cardinality(at(o))
      /\ DOMAIN d.outSegments = DOMAIN c.outSegments
      /\ \A i \in DOMAIN c.outSegments :
            d.outSegments[i] =
              IF i \in fresh
              THEN [c.outSegments[i] EXCEPT !.timerId = c.outSegments[i].offset]
              ELSE c.outSegments[i]
  BY <1>1 DEF transmit_segments, ConnectionRecord
<1>5. \A i \in DOMAIN c.outSegments :
         /\ d.outSegments[i].offset = c.outSegments[i].offset
         /\ d.outSegments[i].timerId =
              IF i \in fresh THEN c.outSegments[i].offset
              ELSE c.outSegments[i].timerId
  <2> TAKE i \in DOMAIN c.outSegments
  <2>1. c.outSegments[i] \in OutSegment
    BY <1>1, SegmentFields
  <2> QED BY <1>4, <2>1 DEF OutSegment
<1>6. \A i \in DOMAIN c.outSegments : c.outSegments[i].offset # NO_TIMER
  BY <1>1, SegmentFields, NoTimerIsNoOffset
<1>7. FirstTimed(d)
  <2> SUFFICES ASSUME d.outSegments # <<>> PROVE d.outSegments[1].timerId # NO_TIMER
    BY DEF FirstTimed
  <2>1. c.outSegments # <<>>
    <3> SUFFICES ASSUME c.outSegments = <<>> PROVE FALSE
      OBVIOUS
    <3>1. d \in ConnectionRecord /\ d.outSegments \in Seq(OutSegment)
      BY transmit_segmentsHealthy, Fields DEF Healthy
    <3>2. Len(d.outSegments) # 0 /\ DOMAIN d.outSegments = 1 .. Len(d.outSegments)
          /\ Len(d.outSegments) \in Nat
      BY <3>1, EmptySeq, LenProperties
    <3>3. 1 \in DOMAIN d.outSegments
      BY <3>2
    <3> QED BY <1>4, <3>3
  <2>2. 1 \in DOMAIN c.outSegments
    BY <2>1, FirstSegment
  <2>3. 1 <= c.windowSize
    BY Constants DEF Healthy, WindowOK
  <2>4. CASE 1 \in fresh
    BY <1>5, <1>6, <2>2, <2>4
  <2>5. CASE 1 \notin fresh
    <3>1. c.outSegments[1].timerId # NO_TIMER
      BY <2>2, <2>3, <2>5 DEF ToSend
    <3> QED BY <1>5, <2>2, <2>5, <3>1
  <2> QED BY <2>4, <2>5
<1> HIDE DEF d, fresh
<1>8. /\ Timed(d) = Timed(c) \union fresh /\ Timed(c) \intersect fresh = {}
  BY <1>2, <1>3, <1>4, <1>5, <1>6 DEF Timed
<1>9. \A o \in Offsets :
         /\ TimedAt(d, o) = TimedAt(c, o) \union at(o)
         /\ TimedAt(c, o) \intersect at(o) = {}
  BY <1>2, <1>3, <1>4, <1>5, <1>6 DEF TimedAt
<1>10. Cardinality(Timed(d)) = c.numSentSegments + Cardinality(fresh)
  <2>1. /\ IsFiniteSet(Timed(c)) /\ Cardinality(Timed(c)) \in Nat
        /\ IsFiniteSet(fresh) /\ Cardinality(fresh) \in Nat
    BY <1>1, <1>2, TimedFinite DEF Timed
  <2>2. Cardinality(Timed(d)) =
          Cardinality(Timed(c)) + Cardinality(fresh) - Cardinality({})
    BY <1>8, <2>1, FS_Union
  <2> QED BY <2>1, <2>2, FS_EmptySet DEF Counted
<1>11. ASSUME NEW o \in Offsets
       PROVE  Cardinality(TimedAt(d, o)) = c.timers[o] + Cardinality(at(o))
  <2>0. at(o) \in SUBSET (DOMAIN c.outSegments)
    BY <1>2
  <2>1. /\ IsFiniteSet(TimedAt(c, o)) /\ Cardinality(TimedAt(c, o)) \in Nat
        /\ IsFiniteSet(at(o)) /\ Cardinality(at(o)) \in Nat
    BY <1>1, <2>0, TimedFinite DEF TimedAt
  <2>2. Cardinality(TimedAt(d, o)) =
          Cardinality(TimedAt(c, o)) + Cardinality(at(o)) - Cardinality({})
    <3>1. TimedAt(c, o) \intersect at(o) = {} /\ TimedAt(d, o) = TimedAt(c, o) \union at(o)
      BY <1>9
    <3> HIDE DEF at
    <3> QED BY <3>1, <2>1, FS_Union
  <2> QED BY <2>1, <2>2, FS_EmptySet DEF Counted
<1>12. \A i \in DOMAIN d.outSegments :
          d.outSegments[i].timerId \in {d.outSegments[i].offset, NO_TIMER}
  BY <1>4, <1>5 DEF Counted
<1>13. Counted(d)
  BY <1>4, <1>10, <1>11, <1>12 DEF Counted
<1> QED BY <1>7, <1>13 DEF d

\* The segments of a message wait for the window.
LEMMA EnqueueCounted ==
    ASSUME NEW c, Healthy(c), Counted(c), NEW msg \in Seq(Nat)
    PROVE  Counted(Enqueue(c, msg))
<1> DEFINE new == Segmented(c, msg)
           d == Enqueue(c, msg)
<1>1. /\ c \in ConnectionRecord /\ c.outSegments \in Seq(OutSegment)
      /\ new \in Seq(OutSegment)
      /\ DOMAIN c.outSegments = 1 .. Len(c.outSegments)
      /\ DOMAIN new = 1 .. Len(new) /\ Len(new) \in Nat /\ Len(c.outSegments) \in Nat
  BY Fields, SegmentedType, LenProperties DEF Healthy
<1>2. \A i \in DOMAIN new : new[i].timerId = NO_TIMER
  BY DEF Segmented
<1>3. /\ d.outSegments = c.outSegments \o new
      /\ d.timers = c.timers /\ d.numSentSegments = c.numSentSegments
  BY <1>1 DEF Enqueue, ConnectionRecord
<1> HIDE DEF new, d
<1>4. /\ DOMAIN d.outSegments = 1 .. (Len(c.outSegments) + Len(new))
      /\ \A i \in DOMAIN c.outSegments : d.outSegments[i] = c.outSegments[i]
      /\ \A i \in DOMAIN d.outSegments :
            i \in DOMAIN c.outSegments \/ d.outSegments[i].timerId = NO_TIMER
  <2>1. /\ Len(d.outSegments) = Len(c.outSegments) + Len(new)
        /\ d.outSegments \in Seq(OutSegment)
        /\ \A i \in 1 .. Len(c.outSegments) + Len(new) :
              d.outSegments[i] = IF i <= Len(c.outSegments) THEN c.outSegments[i]
                                 ELSE new[i - Len(c.outSegments)]
    BY <1>1, <1>3, ConcatProperties
  <2>2. DOMAIN d.outSegments = 1 .. (Len(c.outSegments) + Len(new))
    BY <2>1, LenProperties
  <2>3. \A i \in DOMAIN c.outSegments : d.outSegments[i] = c.outSegments[i]
    <3>1. \A i \in DOMAIN c.outSegments :
             i \in 1 .. Len(c.outSegments) + Len(new) /\ i <= Len(c.outSegments)
      BY <1>1
    <3> QED BY <2>1, <3>1
  <2>4. ASSUME NEW i \in DOMAIN d.outSegments, i \notin DOMAIN c.outSegments
        PROVE  d.outSegments[i].timerId = NO_TIMER
    <3>1. /\ i \in 1 .. Len(c.outSegments) + Len(new) /\ ~ (i <= Len(c.outSegments))
          /\ i - Len(c.outSegments) \in DOMAIN new
      BY <1>1, <2>2, <2>4
    <3> QED BY <1>2, <2>1, <3>1
  <2> QED BY <2>2, <2>3, <2>4
<1>5. DOMAIN c.outSegments \subseteq DOMAIN d.outSegments
  BY <1>1, <1>4
<1>6. Timed(d) = Timed(c) /\ \A o \in Offsets : TimedAt(d, o) = TimedAt(c, o)
  BY <1>4, <1>5 DEF Timed, TimedAt
<1>7. Counted(d)
  BY <1>3, <1>4, <1>6 DEF Counted
<1> QED BY <1>7 DEF d

\* A set of numbers has as many elements after it is shifted.
LEMMA Shifted ==
    ASSUME NEW S, IsFiniteSet(S), S \subseteq Int, NEW n \in Int,
           NEW T, T \subseteq Int, \A x \in Int : x \in T <=> x + n \in S
    PROVE  IsFiniteSet(T) /\ Cardinality(T) = Cardinality(S)
<1> DEFINE f == [x \in S |-> x - n]
<1>1. f \in [S -> T]
  BY SMT
<1>2. \A x, y \in S : f[x] = f[y] => x = y
  BY SMT
<1>3. \A y \in T : \E x \in S : f[x] = y
  <2> TAKE y \in T
  <2>1. y + n \in S /\ f[y + n] = y
    BY SMT
  <2> QED BY <2>1
<1>4. f \in Bijection(S, T)
  BY <1>1, <1>2, <1>3 DEF Bijection, Injection, Surjection, IsInjective
<1> QED BY <1>4, FS_Bijection DEF ExistsBijection

\* The acknowledged segments take their timers with them.
LEMMA RemoveAcknowledgedCounted ==
    ASSUME NEW c, Healthy(c), Counted(c), NEW ackOffset
    PROVE  Counted(RemoveAcknowledged(c, ackOffset))
<1> DEFINE n == Acknowledged(c, ackOffset)
           running == {i \in 1 .. n : c.outSegments[i].timerId # NO_TIMER}
           at(o) == {i \in running : c.outSegments[i].timerId = o}
           d == RemoveAcknowledged(c, ackOffset)
           L == Len(c.outSegments)
<1>1. /\ c \in ConnectionRecord /\ c.outSegments \in Seq(OutSegment)
      /\ DOMAIN c.outSegments = 1 .. L /\ L \in Nat
  BY Fields, LenProperties DEF Healthy
<1>2. n \in Nat /\ n <= L
  BY <1>1, AcknowledgedType
<1>3. /\ d.outSegments = SubSeq(c.outSegments, n + 1, L)
      /\ d.numSentSegments = c.numSentSegments - Cardinality(running)
      /\ \A o \in Offsets : d.timers[o] = c.timers[o] - Cardinality(at(o))
  BY <1>1 DEF RemoveAcknowledged, ConnectionRecord
<1> HIDE DEF d, n
<1>4. /\ DOMAIN d.outSegments = 1 .. (L - n)
      /\ \A i \in DOMAIN d.outSegments :
            i + n \in 1 .. L /\ d.outSegments[i] = c.outSegments[i + n]
  <2>1. \A i \in (n + 1) .. L : c.outSegments[i] \in OutSegment
    BY <1>1, <1>2, ElementOfSeq
  <2>2. /\ d.outSegments \in Seq(OutSegment)
        /\ Len(d.outSegments) = IF n + 1 <= L THEN L - (n + 1) + 1 ELSE 0
        /\ \A i \in 1 .. L - (n + 1) + 1 :
              d.outSegments[i] = c.outSegments[(n + 1) + i - 1]
    BY <1>1, <1>2, <1>3, <2>1, SubSeqProperties
  <2>3. Len(d.outSegments) = L - n
    BY <1>1, <1>2, <2>2
  <2>4. DOMAIN d.outSegments = 1 .. (L - n)
    BY <2>2, <2>3, LenProperties
  <2>5. \A i \in 1 .. (L - n) : (n + 1) + i - 1 = i + n /\ i + n \in 1 .. L
    BY <1>1, <1>2
  <2> QED BY SMTT(60), <1>1, <1>2, <2>2, <2>4, <2>5
<1> HIDE DEF L
<1>5. running \in SUBSET (DOMAIN c.outSegments)
  BY <1>1, <1>2
<1>6. /\ running \subseteq Timed(c)
      /\ \A x \in Int : x \in Timed(d) <=> x + n \in Timed(c) \ running
  BY SMTT(60), <1>1, <1>2, <1>4 DEF Timed
<1>7. ASSUME NEW o \in Offsets
      PROVE  /\ at(o) \subseteq TimedAt(c, o)
             /\ \A x \in Int : x \in TimedAt(d, o) <=> x + n \in TimedAt(c, o) \ at(o)
  <2>1. at(o) = {i \in 1 .. n : c.outSegments[i].offset = o
                                 /\ c.outSegments[i].timerId # NO_TIMER}
    <3>1. \A i \in 1 .. n : c.outSegments[i].timerId \in {c.outSegments[i].offset, NO_TIMER}
      BY <1>1, <1>2 DEF Counted
    <3> QED BY <3>1, NoTimerIsNoOffset
  <2> HIDE DEF at
  <2> QED BY SMTT(60), <1>1, <1>2, <1>4, <2>1 DEF TimedAt
<1>8. Cardinality(Timed(d)) = Cardinality(Timed(c)) - Cardinality(running)
  <2>1. IsFiniteSet(Timed(c)) /\ Timed(c) \subseteq Int
    BY <1>1, TimedFinite DEF Timed
  <2>2. /\ IsFiniteSet(Timed(c) \ running)
        /\ Cardinality(Timed(c) \ running) =
              Cardinality(Timed(c)) - Cardinality(Timed(c) \intersect running)
    BY <2>1, FS_Difference
  <2>3. Timed(c) \intersect running = running
    BY <1>6
  <2>4. Timed(d) \subseteq Int
    BY <1>4 DEF Timed
  <2>5. Timed(c) \ running \subseteq Int /\ n \in Int
    BY <1>2, <2>1
  <2>6. Cardinality(Timed(d)) = Cardinality(Timed(c) \ running)
    <3> HIDE DEF running
    <3> QED BY <1>6, <2>2, <2>4, <2>5, Shifted
  <2> QED BY <2>2, <2>3, <2>6
<1>9. ASSUME NEW o \in Offsets
      PROVE  Cardinality(TimedAt(d, o)) = Cardinality(TimedAt(c, o)) - Cardinality(at(o))
  <2>1. IsFiniteSet(TimedAt(c, o)) /\ TimedAt(c, o) \subseteq Int
    BY <1>1, TimedFinite DEF TimedAt
  <2>2. /\ IsFiniteSet(TimedAt(c, o) \ at(o))
        /\ Cardinality(TimedAt(c, o) \ at(o)) =
              Cardinality(TimedAt(c, o)) - Cardinality(TimedAt(c, o) \intersect at(o))
    BY <2>1, FS_Difference
  <2>3. TimedAt(c, o) \intersect at(o) = at(o)
    BY <1>7
  <2>4. TimedAt(d, o) \subseteq Int
    BY <1>4 DEF TimedAt
  <2>5. TimedAt(c, o) \ at(o) \subseteq Int /\ n \in Int
    BY <1>2, <2>1
  <2>6. Cardinality(TimedAt(d, o)) = Cardinality(TimedAt(c, o) \ at(o))
    <3>1. \A x \in Int : x \in TimedAt(d, o) <=> x + n \in TimedAt(c, o) \ at(o)
      BY <1>7
    <3> HIDE DEF at
    <3> QED BY <3>1, <2>2, <2>4, <2>5, Shifted
  <2> QED BY <2>2, <2>3, <2>6
<1>10. \A i \in DOMAIN d.outSegments :
          d.outSegments[i].timerId \in {d.outSegments[i].offset, NO_TIMER}
  BY <1>1, <1>4 DEF Counted
<1>11. Counted(d)
  <2>1. d.numSentSegments = Cardinality(Timed(d))
    BY <1>3, <1>8 DEF Counted
  <2>2. \A o \in Offsets : d.timers[o] = Cardinality(TimedAt(d, o))
    BY <1>3, <1>9 DEF Counted
  <2> QED BY <2>1, <2>2, <1>10 DEF Counted
<1> QED BY <1>11 DEF d

\* The steps of transport_receive.
LEMMA ProcessAckCounted ==
    ASSUME NEW c, Healthy(c), Counted(c), NEW ackOffset,
           NEW path \in GrowthPaths(c, GrowthSteps(c, ackOffset))
    PROVE  /\ Counted(ProcessAck(c, ackOffset, path))
           /\ FirstTimed(ProcessAck(c, ackOffset, path))
<1> DEFINE r == RemoveAcknowledged(c, ackOffset)
           w == path[GrowthSteps(c, ackOffset)]
           e == [r EXCEPT !.windowSize = w]
<1>1. CASE c.outSegments = <<>>
  BY <1>1 DEF ProcessAck, FirstTimed
<1>2. CASE c.outSegments # <<>>
  <2>1. Healthy(r) /\ c.windowLimit >= 1 /\ Counted(r)
    BY <1>2, RemoveAcknowledgedHealthy, RemoveAcknowledgedCounted
  <2>2. w \in 1 .. MAX_WINDOW_SIZE
    BY <2>1, AcknowledgedType, PathBound DEF Healthy
  <2> HIDE DEF r, w
  <2>3. w \in Nat
    BY <2>2, Constants
  <2>4. Healthy(e)
    BY <2>1, <2>2, <2>3 DEF Healthy, WindowOK, ConnectionRecord
  <2>5. SameSegments(r, e)
    BY <2>1 DEF SameSegments, Healthy, ConnectionRecord
  <2>6. ProcessAck(c, ackOffset, path) = transmit_segments(e)
    BY <1>2 DEF ProcessAck, r, w
  <2> HIDE DEF e
  <2>7. Counted(e)
    BY <2>1, <2>5, SameCounted
  <2> QED BY <2>4, <2>6, <2>7, transmit_segmentsCounted
<1> QED BY <1>1, <1>2

LEMMA update_window_limitSame ==
    ASSUME NEW c \in ConnectionRecord, NEW share
    PROVE  SameSegments(c, update_window_limit(c, share))
BY DEF SameSegments, update_window_limit, ConnectionRecord

LEMMA CountDuplicateAckSame ==
    ASSUME NEW c \in ConnectionRecord, NEW seg
    PROVE  SameSegments(c, CountDuplicateAck(c, seg))
BY DEF SameSegments, CountDuplicateAck, ConnectionRecord

LEMMA HalveWindowSame ==
    ASSUME NEW c \in ConnectionRecord
    PROVE  SameSegments(c, HalveWindow(c))
BY DEF SameSegments, HalveWindow, ConnectionRecord

LEMMA StoreSame ==
    ASSUME NEW c \in ConnectionRecord, NEW seg
    PROVE  SameSegments(c, Store(c, seg))
BY DEF SameSegments, Store, ConnectionRecord

LEMMA DeliverSame ==
    ASSUME NEW c \in ConnectionRecord
    PROVE  SameSegments(c, Deliver(c))
<1> DEFINE n == Cardinality(Complete(c))
<1>1. CASE n = 0
  BY <1>1 DEF SameSegments, Deliver
<1>2. CASE n # 0
  BY <1>2 DEF SameSegments, Deliver, ConnectionRecord
<1> QED BY <1>1, <1>2

\* The first segment has a timer when its fast retransmit stops it: otherwise the
\* segment would not be counted as sent.
LEMMA FastRecoveryCounted ==
    ASSUME NEW c, Healthy(c), Counted(c), FirstTimed(c), NEW seg \in Segment
    PROVE  Counted(FastRecovery(c, seg))
<1> DEFINE h == HalveWindow(c)
           o == h.outSegments[1].timerId
<1>1. Healthy(h) /\ Counted(h) /\ FirstTimed(h) /\ h.outSegments = c.outSegments
  BY HalveWindowHealthy, HalveWindowSame, SameCounted DEF Healthy
<1>2. CASE StartsFastRecovery(c, seg) /\ c.outSegments # <<>>
  <2>1. 1 \in DOMAIN h.outSegments /\ o # NO_TIMER
    BY <1>1, <1>2, FirstSegment DEF FirstTimed
  <2>2. o \in Offsets
    BY <1>1, <2>1, SegmentFields DEF Healthy
  <2>3. FastRecovery(c, seg) = transmit_segment(stop_timer(h, o), 1)
    BY <1>2, <2>1 DEF FastRecovery, StopFirstTimer
  <2> HIDE DEF h
  <2> QED BY <1>1, <2>1, <2>2, <2>3, RetransmitCounted
<1>3. CASE ~ (StartsFastRecovery(c, seg) /\ c.outSegments # <<>>)
  BY <1>1, <1>3 DEF FastRecovery
<1> QED BY <1>2, <1>3

-----------------------------------------------------------------------------
(***************************************************************************)
(* Arithmetic modulo MAX_SEGMENT_OFFSET.                                   *)
(***************************************************************************)

LEMMA DivMod ==
    ASSUME NEW x \in Int
    PROVE  /\ x \div MAX_SEGMENT_OFFSET \in Int
           /\ x % MAX_SEGMENT_OFFSET \in Offsets
           /\ x = MAX_SEGMENT_OFFSET * (x \div MAX_SEGMENT_OFFSET)
                    + (x % MAX_SEGMENT_OFFSET)
BY Constants DEF Offsets

LEMMA ModUnique ==
    ASSUME NEW q \in Int, NEW r \in Offsets, NEW x \in Int,
           x = MAX_SEGMENT_OFFSET * q + r
    PROVE  x % MAX_SEGMENT_OFFSET = r
BY Constants DEF Offsets

LEMMA OffsetIsMod ==
    ASSUME NEW o \in Offsets
    PROVE  o % MAX_SEGMENT_OFFSET = o
BY Constants DEF Offsets

LEMMA ModAdd ==
    ASSUME NEW x \in Int, NEW k \in Int
    PROVE  ((x % MAX_SEGMENT_OFFSET) + k) % MAX_SEGMENT_OFFSET
             = (x + k) % MAX_SEGMENT_OFFSET
<1> DEFINE M == MAX_SEGMENT_OFFSET
           q == x \div M
           y == (x % M) + k
           p == y \div M
           r == y % M
<1>1. q \in Int /\ x % M \in Offsets /\ x = M * q + (x % M)
  BY DivMod
<1>2. y \in Int
  BY <1>1, OffsetsAreNumbers
<1> HIDE DEF y
<1>3. p \in Int /\ r \in Offsets /\ y = M * p + r
  BY <1>2, DivMod
<1>4. y = (x % M) + k
  BY DEF y
<1> HIDE DEF p, q, r
<1>5. x + k = M * (q + p) + r
  <2>1. \A a, b, c \in Int : a * (b + c) = a * b + a * c
    BY SMT
  <2>2. M * q \in Int /\ M * p \in Int /\ M * (q + p) = M * q + M * p
    BY <2>1, <1>1, <1>3, Constants
  <2> DEFINE a == M * q
             b == M * p
  <2>3. a \in Int /\ b \in Int /\ M * (q + p) = a + b /\ x = a + (x % M) /\ y = b + r
    BY <2>2, <1>1, <1>3
  <2> HIDE DEF a, b
  <2>4. x % M \in Int /\ r \in Int
    BY <1>1, <1>3, OffsetsAreNumbers
  <2> QED BY <2>3, <2>4, <1>4
<1>6. (x + k) % M = r
  <2>1. q + p \in Int /\ x + k \in Int
    BY <1>1, <1>3
  <2> QED BY <1>3, <1>5, <2>1, ModUnique
<1> QED BY <1>6 DEF r, y

-----------------------------------------------------------------------------
(***************************************************************************)
(* The offsets of the segments.                                            *)
(***************************************************************************)

\* The offset of segment j, or of the segment that will follow the last one.
Start(c, j) ==
    IF j = Len(c.outSegments) + 1 THEN c.nextOffset ELSE c.outSegments[j].offset

\* The segments follow each other in the stream, each at most SEGMENT_SIZE bytes
\* behind the one before.
Spaced(c) ==
    \A i, j \in 1 .. (Len(c.outSegments) + 1) :
        i <= j => \E k \in 0 .. ((j - i) * SEGMENT_SIZE) :
                     Start(c, j) = (Start(c, i) + k) % MAX_SEGMENT_OFFSET

SameOffsets(c, d) ==
    /\ d.nextOffset = c.nextOffset
    /\ Len(d.outSegments) = Len(c.outSegments)
    /\ \A i \in 1 .. Len(c.outSegments) :
          d.outSegments[i].offset = c.outSegments[i].offset

LEMMA StartType ==
    ASSUME NEW c \in ConnectionRecord, NEW i \in 1 .. (Len(c.outSegments) + 1)
    PROVE  Start(c, i) \in Offsets
<1>1. c.nextOffset \in Offsets /\ c.outSegments \in Seq(OutSegment)
  BY Fields
<1>2. DOMAIN c.outSegments = 1 .. Len(c.outSegments) /\ Len(c.outSegments) \in Nat
  BY <1>1, LenProperties
<1>3. CASE i = Len(c.outSegments) + 1
  BY <1>1, <1>3 DEF Start
<1>4. CASE i # Len(c.outSegments) + 1
  <2>1. i \in DOMAIN c.outSegments
    BY <1>2, <1>4
  <2> QED BY <1>4, <2>1, SegmentFields DEF Start
<1> QED BY <1>3, <1>4

LEMMA SameSpaced ==
    ASSUME NEW c \in ConnectionRecord, NEW d, SameOffsets(c, d), Spaced(c)
    PROVE  Spaced(d)
<1>1. Len(c.outSegments) \in Nat
  BY Fields, LenProperties
<1>2. \A i \in 1 .. (Len(c.outSegments) + 1) : Start(d, i) = Start(c, i)
  BY <1>1 DEF SameOffsets, Start
<1>3. Len(d.outSegments) = Len(c.outSegments)
  BY DEF SameOffsets
<1> QED BY <1>2, <1>3 DEF Spaced

LEMMA SameSegmentsOffsets ==
    ASSUME NEW c, NEW d, SameSegments(c, d)
    PROVE  SameOffsets(c, d)
BY DEF SameSegments, SameOffsets

LEMMA create_connectionSpaced == Spaced(create_connection)
<1> DEFINE c == create_connection
<1>1. c.outSegments = <<>> /\ c.nextOffset = 0
  BY DEF create_connection
<1> HIDE DEF c
<1>2. Len(c.outSegments) = 0
  BY <1>1, EmptySeq
<1>3. Start(c, 1) = 0
  BY <1>1, <1>2 DEF Start
<1>4. 0 \in 0 .. ((1 - 1) * SEGMENT_SIZE) /\ 0 = (0 + 0) % MAX_SEGMENT_OFFSET
  BY Constants
<1>5. Spaced(c)
  <2> SUFFICES ASSUME NEW i \in 1 .. 1, NEW j \in 1 .. 1, i <= j
               PROVE  \E k \in 0 .. ((j - i) * SEGMENT_SIZE) :
                         Start(c, j) = (Start(c, i) + k) % MAX_SEGMENT_OFFSET
    BY <1>2 DEF Spaced
  <2>1. i = 1 /\ j = 1
    OBVIOUS
  <2> QED BY <1>3, <1>4, <2>1
<1> QED BY <1>5 DEF c

\* The first segment always lies in the window, whatever wraps around: the window
\* is no longer than MAX_WINDOW_OFFSET, less than half of the offsets.
LEMMA FirstInWindow ==
    ASSUME NEW c, Healthy(c), Spaced(c), c.outSegments # <<>>
    PROVE  InWindow(c, 1)
<1> DEFINE w == c.windowSize
           a == c.outSegments[1].offset
           b == c.outSegments[w + 1].offset
<1>1. /\ c \in ConnectionRecord /\ c.outSegments \in Seq(OutSegment)
      /\ Len(c.outSegments) \in Nat /\ 1 <= Len(c.outSegments)
      /\ DOMAIN c.outSegments = 1 .. Len(c.outSegments)
  BY Fields, EmptySeq, LenProperties DEF Healthy
<1>2. w \in Nat /\ w >= 1 /\ w <= MAX_WINDOW_SIZE
  BY Constants DEF Healthy, WindowOK
<1>3. CASE Len(c.outSegments) <= w
  BY <1>3 DEF InWindow
<1>4. CASE ~ Len(c.outSegments) <= w
  <2>1. /\ 1 \in 1 .. (Len(c.outSegments) + 1) /\ w + 1 \in 1 .. (Len(c.outSegments) + 1)
        /\ 1 \in DOMAIN c.outSegments /\ w + 1 \in DOMAIN c.outSegments
        /\ 1 <= w + 1 /\ w + 1 # Len(c.outSegments) + 1 /\ 1 # Len(c.outSegments) + 1
        /\ (w + 1) - 1 = w
    BY <1>1, <1>2, <1>4
  <2>2. PICK k \in 0 .. (w * SEGMENT_SIZE) : b = (a + k) % MAX_SEGMENT_OFFSET
    <3>1. Start(c, 1) = a /\ Start(c, w + 1) = b
      BY <2>1 DEF Start
    <3> HIDE DEF a, b, w
    <3>2. \E k \in 0 .. (((w + 1) - 1) * SEGMENT_SIZE) :
             Start(c, w + 1) = (Start(c, 1) + k) % MAX_SEGMENT_OFFSET
      BY <2>1 DEF Spaced
    <3> QED BY <2>1, <3>1, <3>2
  <2>3. a \in Offsets /\ b \in Offsets
    BY <1>1, <2>1, SegmentFields
  <2> HIDE DEF a, b, w
  <2>4. w * SEGMENT_SIZE \in Nat /\ w * SEGMENT_SIZE <= MAX_WINDOW_OFFSET
    <3>1. \A x, y, s \in Nat : x <= y => x * s \in Nat /\ x * s <= y * s
      BY SMT
    <3> QED BY <1>2, <3>1, Constants DEF MAX_WINDOW_OFFSET
  <2>5. k \in Nat /\ k <= MAX_WINDOW_OFFSET
    BY <2>4, Constants
  <2>6. /\ a % MAX_SEGMENT_OFFSET = a /\ b % MAX_SEGMENT_OFFSET = b
        /\ a \in Nat /\ b \in Nat
    BY <2>3, Constants DEF Offsets
  <2>7. acknowledged(a, b)
    <3>1. CASE a + k < MAX_SEGMENT_OFFSET
      <4>1. b = a + k
        BY <2>2, <2>3, <2>5, <3>1, Constants DEF Offsets
      <4> QED BY <2>5, <2>6, <4>1, Constants DEF acknowledged
    <3>2. CASE ~ a + k < MAX_SEGMENT_OFFSET
      <4>1. b = (a + k) - MAX_SEGMENT_OFFSET
        <5>1. (a + k) - MAX_SEGMENT_OFFSET \in Offsets
          BY <2>3, <2>5, <3>2, SequenceNumbersAssumption, Constants DEF Offsets
        <5>2. a + k = MAX_SEGMENT_OFFSET * 1 + ((a + k) - MAX_SEGMENT_OFFSET)
          BY <2>5, <2>6, Constants
        <5> QED BY <2>2, <2>5, <2>6, <5>1, <5>2, ModUnique
      <4> QED BY <2>5, <2>6, <4>1, Constants DEF acknowledged
    <3> QED BY <3>1, <3>2
  <2> QED BY <2>7 DEF InWindow, a, b, w
<1> QED BY <1>3, <1>4

LEMMA transmit_segmentOffsets ==
    ASSUME NEW c0, Healthy(c0), NEW i \in DOMAIN c0.outSegments
    PROVE  SameOffsets(c0, transmit_segment(c0, i))
<1> DEFINE c == Backoff(c0, i)
           s == c.outSegments[i]
           in == [s EXCEPT !.timesSend = AtMost(@ + 1, TIMES_SEND_CAP),
                           !.timerId = s.offset]
           out == [s EXCEPT !.timerId = NO_TIMER]
           t == start_timer(c, s.offset)
           d == transmit_segment(c0, i)
<1>1. /\ c0 \in ConnectionRecord /\ c0.outSegments \in Seq(OutSegment)
      /\ DOMAIN c0.outSegments = 1 .. Len(c0.outSegments)
  BY Fields, LenProperties DEF Healthy
<1>2. Healthy(c) /\ c.outSegments = c0.outSegments /\ c.nextOffset = c0.nextOffset
  BY <1>1, BackoffHealthy DEF Backoff, Healthy, ConnectionRecord
<1>3. s \in OutSegment /\ s = c0.outSegments[i] /\ s.offset \in Offsets
  BY <1>1, <1>2, SegmentFields
<1> HIDE DEF c
<1>4. Healthy(t) /\ t.outSegments = c0.outSegments /\ t.nextOffset = c0.nextOffset
  BY <1>2, <1>3, start_timerHealthy DEF start_timer, Healthy, ConnectionRecord
<1>5. in \in OutSegment /\ in.offset = s.offset /\ out \in OutSegment /\ out.offset = s.offset
  <2>1. AtMost(s.timesSend + 1, TIMES_SEND_CAP) \in 0 .. TIMES_SEND_CAP
    BY <1>3 DEF AtMost, TIMES_SEND_CAP, OutSegment
  <2> QED BY <1>3, <2>1 DEF OutSegment
<1> HIDE DEF s, in, out, t
<1>6. \E e \in {in, out} : d.outSegments = [c0.outSegments EXCEPT ![i] = e]
                           /\ d.nextOffset = c0.nextOffset
  <2>1. CASE InWindow(c, i)
    <3>1. d = [t EXCEPT !.outSegments = [t.outSegments EXCEPT ![i] = in]]
      BY <2>1 DEF transmit_segment, c, s, in, t
    <3> HIDE DEF d
    <3> QED BY <1>4, <3>1 DEF Healthy, ConnectionRecord
  <2>2. CASE ~ InWindow(c, i)
    <3>1. d = [c EXCEPT !.outSegments = [c.outSegments EXCEPT ![i] = out],
                        !.numSentSegments = c.numSentSegments - 1]
      BY <2>2 DEF transmit_segment, c, s, out
    <3> HIDE DEF d
    <3> QED BY <1>2, <3>1 DEF Healthy, ConnectionRecord
  <2> QED BY <2>1, <2>2
<1> HIDE DEF d
<1>7. PICK e \in {in, out} : d.outSegments = [c0.outSegments EXCEPT ![i] = e]
                             /\ d.nextOffset = c0.nextOffset
  BY <1>6
<1>8. e \in OutSegment /\ e.offset = c0.outSegments[i].offset
  BY <1>3, <1>5
<1>9. SameOffsets(c0, d)
  BY <1>1, <1>7, <1>8, ExceptSeq DEF SameOffsets
<1> QED BY <1>9 DEF d

LEMMA transmit_segmentsOffsets ==
    ASSUME NEW c, Healthy(c)
    PROVE  SameOffsets(c, transmit_segments(c))
<1> DEFINE d == transmit_segments(c)
<1>1. /\ c \in ConnectionRecord /\ c.outSegments \in Seq(OutSegment)
      /\ DOMAIN c.outSegments = 1 .. Len(c.outSegments) /\ Len(c.outSegments) \in Nat
  BY Fields, LenProperties DEF Healthy
<1>2. d.outSegments \in Seq(OutSegment)
  BY transmit_segmentsHealthy, Fields DEF Healthy
<1>3. /\ d.nextOffset = c.nextOffset
      /\ DOMAIN d.outSegments = DOMAIN c.outSegments
      /\ \A i \in DOMAIN c.outSegments :
            \/ d.outSegments[i] = c.outSegments[i]
            \/ d.outSegments[i] =
                  [c.outSegments[i] EXCEPT !.timerId = c.outSegments[i].offset]
  BY <1>1 DEF transmit_segments, ConnectionRecord
<1> HIDE DEF d
<1>4. Len(d.outSegments) = Len(c.outSegments)
  <2>1. DOMAIN d.outSegments = 1 .. Len(d.outSegments) /\ Len(d.outSegments) \in Nat
    BY <1>2, LenProperties
  <2> QED BY <1>1, <1>3, <2>1
<1>5. \A i \in DOMAIN c.outSegments :
         d.outSegments[i].offset = c.outSegments[i].offset
  <2> TAKE i \in DOMAIN c.outSegments
  <2>1. c.outSegments[i] \in OutSegment
    BY <1>1, SegmentFields
  <2> QED BY <1>3, <2>1 DEF OutSegment
<1>6. SameOffsets(c, d)
  BY <1>1, <1>3, <1>4, <1>5 DEF SameOffsets
<1> QED BY <1>6 DEF d

LEMMA RemoveAcknowledgedSpaced ==
    ASSUME NEW c, Healthy(c), Spaced(c), NEW ackOffset
    PROVE  Spaced(RemoveAcknowledged(c, ackOffset))
<1> DEFINE n == Acknowledged(c, ackOffset)
           d == RemoveAcknowledged(c, ackOffset)
           L == Len(c.outSegments)
<1>1. /\ c \in ConnectionRecord /\ c.outSegments \in Seq(OutSegment)
      /\ DOMAIN c.outSegments = 1 .. L /\ L \in Nat
  BY Fields, LenProperties DEF Healthy
<1>2. n \in Nat /\ n <= L
  BY <1>1, AcknowledgedType
<1>3. /\ d.outSegments = SubSeq(c.outSegments, n + 1, L)
      /\ d.nextOffset = c.nextOffset
  BY <1>1 DEF RemoveAcknowledged, ConnectionRecord
<1> HIDE DEF d, n
<1>4. /\ Len(d.outSegments) = L - n
      /\ \A i \in 1 .. (L - n) : d.outSegments[i] = c.outSegments[i + n]
  <2>1. \A i \in (n + 1) .. L : c.outSegments[i] \in OutSegment
    BY <1>1, <1>2, ElementOfSeq
  <2>2. /\ Len(d.outSegments) = IF n + 1 <= L THEN L - (n + 1) + 1 ELSE 0
        /\ \A i \in 1 .. L - (n + 1) + 1 :
              d.outSegments[i] = c.outSegments[(n + 1) + i - 1]
    BY <1>1, <1>2, <1>3, <2>1, SubSeqProperties
  <2>3. \A i \in 1 .. (L - n) : (n + 1) + i - 1 = i + n
    BY <1>1, <1>2
  <2> QED BY <1>1, <1>2, <2>2, <2>3
<1>5. \A i \in 1 .. ((L - n) + 1) :
         i + n \in 1 .. (L + 1) /\ Start(d, i) = Start(c, i + n)
  <2> TAKE i \in 1 .. ((L - n) + 1)
  <2>1. i + n \in 1 .. (L + 1)
    BY <1>1, <1>2
  <2>2. CASE i = (L - n) + 1
    <3>1. i + n = L + 1
      BY <1>1, <1>2, <2>2
    <3> QED BY <1>3, <1>4, <2>1, <2>2, <3>1 DEF Start
  <2>3. CASE i # (L - n) + 1
    <3>1. i \in 1 .. (L - n) /\ i + n # L + 1
      BY <1>1, <1>2, <2>3
    <3> QED BY <1>4, <2>1, <2>3, <3>1 DEF Start
  <2> QED BY <2>2, <2>3
<1>6. Spaced(d)
  <2> SUFFICES ASSUME NEW i \in 1 .. ((L - n) + 1), NEW j \in 1 .. ((L - n) + 1), i <= j
               PROVE  \E k \in 0 .. ((j - i) * SEGMENT_SIZE) :
                         Start(d, j) = (Start(d, i) + k) % MAX_SEGMENT_OFFSET
    BY <1>4 DEF Spaced
  <2>1. i + n <= j + n /\ (j + n) - (i + n) = j - i
    BY <1>1, <1>2
  <2>2. \E k \in 0 .. (((j + n) - (i + n)) * SEGMENT_SIZE) :
           Start(c, j + n) = (Start(c, i + n) + k) % MAX_SEGMENT_OFFSET
    BY <1>5, <2>1 DEF Spaced
  <2> QED BY <1>5, <2>1, <2>2
<1> QED BY <1>6 DEF d

\* A message needs as many segments as its bytes fill, the last one perhaps not
\* quite.
LEMMA SegmentedLen ==
    ASSUME NEW c \in ConnectionRecord, NEW msg \in Seq(Nat)
    PROVE  /\ Len(Segmented(c, msg)) \in Nat
           /\ Len(msg) <= Len(Segmented(c, msg)) * SEGMENT_SIZE
           /\ Len(msg) + SEGMENT_SIZE - 1 >= Len(Segmented(c, msg)) * SEGMENT_SIZE
<1> DEFINE a == Len(msg) + SEGMENT_SIZE - 1
           n == a \div SEGMENT_SIZE
<1>1. Len(msg) \in Nat /\ a \in Nat /\ SEGMENT_SIZE \in Nat /\ SEGMENT_SIZE >= 1
  BY LenProperties, Constants
<1> HIDE DEF a
<1>2. n \in Nat /\ a % SEGMENT_SIZE \in 0 .. (SEGMENT_SIZE - 1)
  BY <1>1
<1>3. a = SEGMENT_SIZE * n + (a % SEGMENT_SIZE)
  BY <1>1
<1>4. DOMAIN Segmented(c, msg) = 1 .. n
  BY DEF Segmented, n, a
<1> HIDE DEF n
<1>5. Len(Segmented(c, msg)) = n
  <2>1. /\ DOMAIN Segmented(c, msg) = 1 .. Len(Segmented(c, msg))
        /\ Len(Segmented(c, msg)) \in Nat
    BY SegmentedType, LenProperties
  <2> QED BY <1>2, <1>4, <2>1
<1>6. n * SEGMENT_SIZE \in Nat /\ n * SEGMENT_SIZE = SEGMENT_SIZE * n
  BY <1>1, <1>2
<1> QED BY <1>1, <1>2, <1>3, <1>5, <1>6 DEF a

LEMMA EnqueueSpaced ==
    ASSUME NEW c, Healthy(c), Spaced(c), NEW msg \in Seq(Nat), msg # <<>>
    PROVE  Spaced(Enqueue(c, msg))
<1> DEFINE new == Segmented(c, msg)
           d == Enqueue(c, msg)
           L == Len(c.outSegments)
           N == Len(new)
           S == SEGMENT_SIZE
           \* the position of the start of segment L + 1 + m behind nextOffset
           behind(m) == IF m = N THEN Len(msg) ELSE m * S
<1>1. /\ c \in ConnectionRecord /\ c.outSegments \in Seq(OutSegment)
      /\ new \in Seq(OutSegment) /\ c.nextOffset \in Offsets /\ c.nextOffset \in Nat
      /\ DOMAIN new = 1 .. N /\ L \in Nat
      /\ Len(msg) \in Nat /\ Len(msg) >= 1
      /\ S \in Nat /\ S >= 1
  BY Fields, OffsetsAreNumbers, SegmentedType, LenProperties, EmptySeq, Constants
  DEF Healthy
<1>2. /\ N \in Nat /\ Len(msg) <= N * S /\ Len(msg) + S - 1 >= N * S /\ N >= 1
  <2>1. /\ N \in Nat /\ Len(msg) <= N * S /\ Len(msg) + S - 1 >= N * S
    BY <1>1, SegmentedLen
  <2>2. N # 0
    BY <1>1, <2>1
  <2> QED BY <2>1, <2>2
<1>3. /\ d.outSegments = c.outSegments \o new
      /\ d.nextOffset = (c.nextOffset + Len(msg)) % MAX_SEGMENT_OFFSET
  BY <1>1 DEF Enqueue, ConnectionRecord
<1>4. \A i \in 1 .. N :
         new[i].offset = (c.nextOffset + (i - 1) * S) % MAX_SEGMENT_OFFSET
  BY <1>1 DEF Segmented
<1> HIDE DEF d, new, S, L, N
<1>5. /\ Len(d.outSegments) = L + N
      /\ \A i \in 1 .. (L + N) :
            d.outSegments[i] = IF i <= L THEN c.outSegments[i] ELSE new[i - L]
  BY <1>1, <1>3, ConcatProperties DEF L, N
<1>6. \A i \in 1 .. L : Start(d, i) = Start(c, i)
  <2> TAKE i \in 1 .. L
  <2>1. i # L + 1 /\ i # (L + N) + 1 /\ i \in 1 .. (L + N) /\ i <= L
    BY <1>1, <1>2
  <2> QED BY <1>5, <2>1 DEF Start, L
<1>7. \A m \in 0 .. N :
         Start(d, L + 1 + m) = (c.nextOffset + behind(m)) % MAX_SEGMENT_OFFSET
  <2> TAKE m \in 0 .. N
  <2>1. CASE m = N
    <3>1. L + 1 + m = (L + N) + 1
      BY <1>1, <1>2, <2>1
    <3> QED BY <1>3, <1>5, <2>1, <3>1 DEF Start
  <2>2. CASE m # N
    <3>1. /\ L + 1 + m # (L + N) + 1 /\ L + 1 + m \in 1 .. (L + N)
          /\ ~ (L + 1 + m <= L) /\ (L + 1 + m) - L = m + 1 /\ m + 1 \in 1 .. N
          /\ (m + 1) - 1 = m
      BY <1>1, <1>2, <2>2
    <3>2. Start(d, L + 1 + m) = new[m + 1].offset
      BY <1>5, <3>1 DEF Start
    <3> QED BY <1>4, <2>2, <3>1, <3>2
  <2> QED BY <2>1, <2>2
<1>8. \A m, l \in 0 .. N : m <= l => /\ behind(m) \in Nat /\ behind(l) \in Nat
                                     /\ behind(l) - behind(m) \in 0 .. ((l - m) * S)
  <2> TAKE m, l \in 0 .. N
  <2> HAVE m <= l
  <2>1. m \in Nat /\ l \in Nat /\ m <= N /\ l <= N
    BY <1>2
  <2>2. /\ m * S \in Nat /\ l * S \in Nat /\ N * S \in Nat
        /\ (l - m) * S = l * S - m * S /\ m * S <= l * S
    <3>1. \A x, y, z \in Nat : /\ x * z \in Nat
                               /\ (y - x) * z = y * z - x * z
                               /\ x <= y => x * z <= y * z
      BY SMT
    <3> QED BY <1>1, <1>2, <2>1, <3>1
  <2>3. CASE m = N
    BY <1>1, <2>1, <2>2, <2>3
  <2>4. CASE m # N /\ l = N
    <3>1. m * S + S <= N * S
      <4>1. \A x, y, z \in Nat : x + 1 <= y => x * z + z <= y * z
        BY SMT
      <4> QED BY <1>1, <1>2, <2>1, <2>4, <4>1
    <3> DEFINE p == m * S
               q == N * S
    <3>2. behind(m) = p /\ behind(l) = Len(msg) /\ (l - m) * S = q - p
      BY <2>2, <2>4
    <3>3. p \in Nat /\ q \in Nat /\ p + S <= q /\ Len(msg) <= q /\ Len(msg) + S - 1 >= q
      BY <1>2, <2>2, <3>1
    <3> HIDE DEF p, q, behind
    <3> QED BY SMTT(60), <1>1, <3>2, <3>3
  <2>5. CASE m # N /\ l # N
    <3> DEFINE p == m * S
               q == l * S
    <3>1. /\ p \in Nat /\ q \in Nat /\ p <= q /\ (l - m) * S = q - p
          /\ behind(m) = p /\ behind(l) = q
      BY <2>2, <2>5
    <3> HIDE DEF p, q, behind
    <3> QED BY <3>1
  <2> QED BY <2>3, <2>4, <2>5
<1> HIDE DEF behind
<1>9. behind(0) = 0
  BY <1>1, <1>2 DEF behind
<1>10. Start(d, L + 1) = Start(c, L + 1)
  <2>1. 0 \in 0 .. N /\ L + 1 + 0 = L + 1
    BY <1>1, <1>2
  <2>2. Start(d, L + 1) = (c.nextOffset + 0) % MAX_SEGMENT_OFFSET
    BY <1>7, <1>9, <2>1
  <2>3. (c.nextOffset + 0) % MAX_SEGMENT_OFFSET = c.nextOffset
    <3>1. c.nextOffset + 0 = c.nextOffset
      BY <1>1
    <3> QED BY <1>1, <3>1, OffsetIsMod
  <2> QED BY <2>2, <2>3 DEF Start, L
<1>11. Spaced(d)
  <2> SUFFICES ASSUME NEW i \in 1 .. ((L + N) + 1), NEW j \in 1 .. ((L + N) + 1), i <= j
               PROVE  \E k \in 0 .. ((j - i) * SEGMENT_SIZE) :
                         Start(d, j) = (Start(d, i) + k) % MAX_SEGMENT_OFFSET
    BY <1>5 DEF Spaced
  <2>1. \A p, q \in 1 .. (L + 1) : p <= q =>
           \E k \in 0 .. ((q - p) * SEGMENT_SIZE) :
              Start(c, q) = (Start(c, p) + k) % MAX_SEGMENT_OFFSET
    BY DEF Spaced, L
  <2>2. \A p \in 1 .. (L + 1) : Start(d, p) = Start(c, p) /\ Start(c, p) \in Nat
    <3> TAKE p \in 1 .. (L + 1)
    <3>1. p \in 1 .. L \/ p = L + 1
      BY <1>1
    <3>2. Start(c, p) \in Nat
      BY <1>1, StartType, OffsetsAreNumbers DEF L
    <3> QED BY <1>6, <1>10, <3>1, <3>2
  <2>3. CASE j <= L + 1
    <3>1. i \in 1 .. (L + 1) /\ j \in 1 .. (L + 1)
      BY <1>1, <1>2, <2>3
    <3> QED BY <2>1, <2>2, <3>1
  <2>4. CASE ~ j <= L + 1
    <3> DEFINE l == j - (L + 1)
               lo == IF i <= L + 1 THEN i ELSE L + 1
               m == IF i <= L + 1 THEN 0 ELSE i - (L + 1)
    <3>1. /\ l \in 0 .. N /\ m \in 0 .. N /\ m <= l /\ j = L + 1 + l
          /\ lo \in 1 .. (L + 1) /\ L + 1 \in 1 .. (L + 1) /\ lo <= L + 1
          /\ j - i = ((L + 1) - lo) + (l - m)
      BY <1>1, <1>2, <2>4
    <3>2. PICK k1 \in 0 .. (((L + 1) - lo) * S) :
             Start(c, L + 1) = (Start(c, lo) + k1) % MAX_SEGMENT_OFFSET
      BY <2>1, <3>1 DEF S
    <3> DEFINE k2 == behind(l) - behind(m)
    <3>3. /\ k2 \in 0 .. ((l - m) * S) /\ behind(l) \in Nat /\ behind(m) \in Nat
      BY <1>8, <3>1
    <3>4. /\ ((L + 1) - lo) * S \in Nat /\ (l - m) * S \in Nat
          /\ ((L + 1) - lo) * S + (l - m) * S = (j - i) * S
      <4>1. \A x, y, z \in Nat : x * z \in Nat /\ x * z + y * z = (x + y) * z
        BY SMT
      <4>2. (L + 1) - lo \in Nat /\ l - m \in Nat
        BY <1>1, <1>2, <3>1
      <4> HIDE DEF lo, l, m
      <4> QED BY <1>1, <3>1, <4>1, <4>2
    <3>5. CASE i <= L + 1
      <4>1. i = lo /\ m = 0
        BY <3>5
      <4>2. k1 \in Nat /\ k2 \in Nat /\ k2 = behind(l) /\ k1 + k2 \in 0 .. ((j - i) * S)
        <5> HIDE DEF lo, l, m
        <5> QED BY SMTT(60), <1>9, <3>2, <3>3, <3>4, <4>1
      <4> HIDE DEF lo, l, m, k2
      <4>3. Start(d, j) = (Start(c, L + 1) + k2) % MAX_SEGMENT_OFFSET
        <5>1. Start(c, L + 1) = c.nextOffset
          BY DEF Start, L
        <5> QED BY <1>7, <3>1, <4>2, <5>1
      <4>4. Start(d, i) = Start(c, i) /\ Start(c, i) \in Nat
        BY <2>2, <3>1, <4>1
      <4>5. Start(d, j) = ((Start(c, i) + k1) + k2) % MAX_SEGMENT_OFFSET
        <5>1. Start(c, i) + k1 \in Int /\ k2 \in Int
          BY <4>2, <4>4
        <5>2. (((Start(c, i) + k1) % MAX_SEGMENT_OFFSET) + k2) % MAX_SEGMENT_OFFSET
                = ((Start(c, i) + k1) + k2) % MAX_SEGMENT_OFFSET
          BY <5>1, ModAdd
        <5> QED BY <3>2, <4>1, <4>3, <5>2
      <4>6. (Start(c, i) + k1) + k2 = Start(d, i) + (k1 + k2)
        BY <4>2, <4>4
      <4> QED BY <4>2, <4>5, <4>6 DEF S
    <3>6. CASE ~ i <= L + 1
      <4>1. i = L + 1 + m /\ lo = L + 1 /\ ((L + 1) - lo) * S = 0
        BY <1>1, <1>2, <3>6
      <4>2. k2 \in 0 .. ((j - i) * S)
        <5> HIDE DEF lo, l, m
        <5> QED BY <3>3, <3>4, <4>1
      <4> HIDE DEF lo, l, m
      <4>3. /\ Start(d, j) = (c.nextOffset + behind(l)) % MAX_SEGMENT_OFFSET
            /\ Start(d, i) = (c.nextOffset + behind(m)) % MAX_SEGMENT_OFFSET
        BY <1>7, <3>1, <4>1
      <4>4. (c.nextOffset + behind(m)) + k2 = c.nextOffset + behind(l)
        BY SMTT(60), <1>1, <3>3
      <4>5. (Start(d, i) + k2) % MAX_SEGMENT_OFFSET = Start(d, j)
        <5>1. c.nextOffset + behind(m) \in Int /\ k2 \in Int
          BY SMTT(60), <1>1, <3>3
        <5>2. (((c.nextOffset + behind(m)) % MAX_SEGMENT_OFFSET) + k2)
                  % MAX_SEGMENT_OFFSET
                = ((c.nextOffset + behind(m)) + k2) % MAX_SEGMENT_OFFSET
          BY <5>1, ModAdd
        <5> QED BY <4>3, <4>4, <5>2
      <4> QED BY <4>2, <4>5 DEF S
    <3> QED BY <3>5, <3>6
  <2> QED BY <2>3, <2>4
<1> QED BY <1>11 DEF d

\* A timeout leaves the first segment with a timer.
LEMMA RetransmitFirstTimed ==
    ASSUME NEW c0, Healthy(c0), Counted(c0), Spaced(c0), FirstTimed(c0),
           NEW i \in DOMAIN c0.outSegments,
           NEW o \in Offsets, c0.outSegments[i].timerId = o
    PROVE  /\ Spaced(transmit_segment(stop_timer(c0, o), i))
           /\ FirstTimed(transmit_segment(stop_timer(c0, o), i))
<1> DEFINE s0 == stop_timer(c0, o)
           c == Backoff(s0, i)
           s == c.outSegments[i]
           in == [s EXCEPT !.timesSend = AtMost(@ + 1, TIMES_SEND_CAP),
                           !.timerId = s.offset]
           out == [s EXCEPT !.timerId = NO_TIMER]
           t == start_timer(c, s.offset)
           d == transmit_segment(s0, i)
<1>1. /\ c0 \in ConnectionRecord /\ c0.outSegments \in Seq(OutSegment)
      /\ DOMAIN c0.outSegments = 1 .. Len(c0.outSegments)
      /\ c0.outSegments # <<>> /\ 1 \in DOMAIN c0.outSegments
  <2>1. c0.outSegments \in Seq(OutSegment) /\ c0 \in ConnectionRecord
    BY Fields DEF Healthy
  <2>2. DOMAIN c0.outSegments = 1 .. Len(c0.outSegments) /\ c0.outSegments # <<>>
    BY <2>1, LenProperties, EmptySeq
  <2> QED BY <2>1, <2>2, FirstSegment
<1>2. Healthy(s0) /\ s0.outSegments = c0.outSegments /\ s0.nextOffset = c0.nextOffset
  BY stop_timerHealthy DEF stop_timer, Healthy, ConnectionRecord
<1> HIDE DEF s0
<1>3. Spaced(s0)
  BY <1>1, <1>2, SameSpaced DEF SameOffsets
<1>4. Spaced(d)
  BY <1>2, <1>3, transmit_segmentOffsets, SameSpaced DEF Healthy
<1>5. /\ Healthy(c) /\ c.outSegments = c0.outSegments
      /\ c.nextOffset = c0.nextOffset
  BY <1>2, BackoffHealthy DEF Backoff, Healthy, ConnectionRecord
<1>6. Spaced(c)
  BY <1>1, <1>5, SameSpaced DEF SameOffsets
<1>7. s \in OutSegment /\ s.offset \in Offsets /\ s.offset # NO_TIMER
  BY <1>5, SegmentFields, NoTimerIsNoOffset DEF Healthy
<1>8. t.outSegments = c0.outSegments /\ Healthy(t)
  BY <1>5, <1>7, start_timerHealthy
<1> HIDE DEF c
<1>9. in.timerId # NO_TIMER
  BY <1>7 DEF OutSegment
<1>10. c0.outSegments[1].timerId # NO_TIMER
  BY <1>1 DEF FirstTimed
<1> HIDE DEF s, in, out, t
<1>11. d.outSegments[1].timerId # NO_TIMER
  <2>1. CASE InWindow(c, i)
    <3>1. d = [t EXCEPT !.outSegments = [t.outSegments EXCEPT ![i] = in]]
      BY <2>1 DEF transmit_segment, c, s, in, t
    <3>2. d.outSegments = [c0.outSegments EXCEPT ![i] = in]
      BY <3>1, <1>8 DEF Healthy, ConnectionRecord
    <3> QED BY <1>1, <1>9, <1>10, <3>2
  <2>2. CASE ~ InWindow(c, i)
    <3>1. i # 1
      BY <1>1, <1>5, <1>6, <2>2, FirstInWindow
    <3>2. d = [c EXCEPT !.outSegments = [c.outSegments EXCEPT ![i] = out],
                        !.numSentSegments = c.numSentSegments - 1]
      BY <2>2 DEF transmit_segment, c, s, out
    <3>3. d.outSegments = [c0.outSegments EXCEPT ![i] = out]
      BY <3>2, <1>5 DEF Healthy, ConnectionRecord
    <3> QED BY <1>1, <1>10, <3>1, <3>3
  <2> QED BY <2>1, <2>2
<1>12. FirstTimed(d)
  BY <1>11 DEF FirstTimed
<1> QED BY <1>4, <1>12 DEF d, s0

LEMMA ProcessAckSpaced ==
    ASSUME NEW c, Healthy(c), Spaced(c), NEW ackOffset,
           NEW path \in GrowthPaths(c, GrowthSteps(c, ackOffset))
    PROVE  Spaced(ProcessAck(c, ackOffset, path))
<1> DEFINE r == RemoveAcknowledged(c, ackOffset)
           w == path[GrowthSteps(c, ackOffset)]
           e == [r EXCEPT !.windowSize = w]
<1>1. CASE c.outSegments = <<>>
  BY <1>1 DEF ProcessAck
<1>2. CASE c.outSegments # <<>>
  <2>1. Healthy(r) /\ c.windowLimit >= 1 /\ Spaced(r)
    BY <1>2, RemoveAcknowledgedHealthy, RemoveAcknowledgedSpaced
  <2>2. w \in 1 .. MAX_WINDOW_SIZE
    BY <2>1, AcknowledgedType, PathBound DEF Healthy
  <2> HIDE DEF r, w
  <2>3. w \in Nat
    BY <2>2, Constants
  <2>4. Healthy(e)
    BY <2>1, <2>2, <2>3 DEF Healthy, WindowOK, ConnectionRecord
  <2>5. SameSegments(r, e)
    BY <2>1 DEF SameSegments, Healthy, ConnectionRecord
  <2>6. ProcessAck(c, ackOffset, path) = transmit_segments(e)
    BY <1>2 DEF ProcessAck, r, w
  <2> HIDE DEF e
  <2>7. Spaced(e)
    BY <2>1, <2>5, SameSegmentsOffsets, SameSpaced DEF Healthy
  <2> QED
    BY <2>4, <2>6, <2>7, transmit_segmentsOffsets, SameSpaced DEF Healthy
<1> QED BY <1>1, <1>2

LEMMA FastRecoverySpaced ==
    ASSUME NEW c, Healthy(c), Spaced(c), NEW seg \in Segment
    PROVE  Spaced(FastRecovery(c, seg))
<1> DEFINE h == HalveWindow(c)
           s == StopFirstTimer(h)
<1>1. Healthy(h) /\ h.outSegments = c.outSegments /\ Spaced(h)
  BY HalveWindowHealthy, HalveWindowSame, SameSegmentsOffsets, SameSpaced DEF Healthy
<1>2. CASE StartsFastRecovery(c, seg) /\ c.outSegments # <<>>
  <2>1. Healthy(s) /\ s.outSegments = h.outSegments /\ 1 \in DOMAIN s.outSegments
    BY <1>1, <1>2, StopFirstTimerHealthy, FirstSegment
  <2>2. s.nextOffset = h.nextOffset
    BY <1>1 DEF StopFirstTimer, stop_timer, Healthy, ConnectionRecord
  <2>3. Spaced(s)
    BY <1>1, <2>1, <2>2, SameSpaced DEF SameOffsets, Healthy
  <2>4. FastRecovery(c, seg) = transmit_segment(s, 1)
    BY <1>2 DEF FastRecovery
  <2> HIDE DEF s
  <2> QED BY <2>1, <2>3, <2>4, transmit_segmentOffsets, SameSpaced DEF Healthy
<1>3. CASE ~ (StartsFastRecovery(c, seg) /\ c.outSegments # <<>>)
  BY <1>1, <1>3 DEF FastRecovery
<1> QED BY <1>2, <1>3

-----------------------------------------------------------------------------
(***************************************************************************)
(* Sequence numbers and the positions they stand for.  A position is the   *)
(* number of a byte in its stream; only its offset, the position modulo    *)
(* MAX_SEGMENT_OFFSET, is transmitted.  Within half of the offsets the     *)
(* order of two positions can be told from their offsets.                  *)
(***************************************************************************)

LEMMA SmallMultiple ==
    ASSUME NEW k \in Int,
           - MAX_SEGMENT_OFFSET < MAX_SEGMENT_OFFSET * k,
           MAX_SEGMENT_OFFSET * k < MAX_SEGMENT_OFFSET
    PROVE  k = 0
<1> DEFINE M == MAX_SEGMENT_OFFSET
<1>1. M \in Int /\ M >= 1
  BY Constants
<1> HIDE DEF M
<1>2. ASSUME k >= 1 PROVE M * k >= M
  BY <1>1, <1>2
<1>3. ASSUME k <= -1 PROVE M * k <= - M
  BY <1>1, <1>3
<1> QED BY <1>1, <1>2, <1>3 DEF M

\* Two positions closer than MAX_SEGMENT_OFFSET with the same offset are equal.
LEMMA SamePosition ==
    ASSUME NEW x \in Int, NEW y \in Int,
           x - y < MAX_SEGMENT_OFFSET, y - x < MAX_SEGMENT_OFFSET,
           x % MAX_SEGMENT_OFFSET = y % MAX_SEGMENT_OFFSET
    PROVE  x = y
<1> DEFINE M == MAX_SEGMENT_OFFSET
           i == x \div MAX_SEGMENT_OFFSET
           j == y \div MAX_SEGMENT_OFFSET
           o == x % MAX_SEGMENT_OFFSET
<1>1. M \in Int /\ i \in Int /\ j \in Int /\ o \in Int
  BY Constants, DivMod, OffsetsAreNumbers
<1>2. x = M * i + o /\ y = M * j + o
  BY DivMod
<1> HIDE DEF i, j, o, M
<1>3. x - y = M * (i - j)
  BY <1>1, <1>2
<1>4. i - j = 0
  <2>1. - M < M * (i - j) /\ M * (i - j) < M
    BY <1>1, <1>3 DEF M
  <2> QED BY <1>1, <2>1, SmallMultiple DEF M
<1> QED BY <1>1, <1>3, <1>4

\* The offset of a position in a round that starts at base.
LEMMA OffsetInRound ==
    ASSUME NEW q \in Int, NEW x \in Int,
           MAX_SEGMENT_OFFSET * q <= x,
           x < MAX_SEGMENT_OFFSET * q + MAX_SEGMENT_OFFSET
    PROVE  x % MAX_SEGMENT_OFFSET = x - MAX_SEGMENT_OFFSET * q
<1> DEFINE r == x - MAX_SEGMENT_OFFSET * q
<1>1. MAX_SEGMENT_OFFSET \in Int /\ MAX_SEGMENT_OFFSET * q \in Int
  BY Constants
<1>2. r \in Offsets
  BY <1>1 DEF Offsets
<1>3. x = MAX_SEGMENT_OFFSET * q + r
  BY <1>1
<1> HIDE DEF r
<1> QED BY <1>2, <1>3, ModUnique DEF r

\* The differences of two offsets and of their positions.
LEMMA OffsetDifference ==
    ASSUME NEW x \in Int, NEW y \in Int
    PROVE  \E k \in Int :
              y - x = MAX_SEGMENT_OFFSET * k
                        + ((y % MAX_SEGMENT_OFFSET) - (x % MAX_SEGMENT_OFFSET))
<1> DEFINE M == MAX_SEGMENT_OFFSET
           i == x \div MAX_SEGMENT_OFFSET
           j == y \div MAX_SEGMENT_OFFSET
           o == x % MAX_SEGMENT_OFFSET
           p == y % MAX_SEGMENT_OFFSET
<1>1. M \in Int /\ i \in Int /\ j \in Int /\ o \in Int /\ p \in Int
  BY Constants, DivMod, OffsetsAreNumbers
<1>2. x = M * i + o /\ y = M * j + p
  BY DivMod
<1> HIDE DEF i, j, o, p, M
<1>3. y - x = M * (j - i) + (p - o)
  BY <1>1, <1>2
<1>4. j - i \in Int
  BY <1>1
<1> QED BY <1>3, <1>4 DEF o, p, M

LEMMA MultipleOfOffsets ==
    ASSUME NEW k \in Int
    PROVE  /\ MAX_SEGMENT_OFFSET * k \in Int
           /\ k >= 2 => MAX_SEGMENT_OFFSET * k >= 2 * MAX_SEGMENT_OFFSET
           /\ k = 1 => MAX_SEGMENT_OFFSET * k = MAX_SEGMENT_OFFSET
           /\ k = 0 => MAX_SEGMENT_OFFSET * k = 0
           /\ k = -1 => MAX_SEGMENT_OFFSET * k = - MAX_SEGMENT_OFFSET
           /\ k <= -2 => MAX_SEGMENT_OFFSET * k <= - (2 * MAX_SEGMENT_OFFSET)
BY Constants

\* Up to a window apart, acknowledged compares the positions of two offsets.
LEMMA AcknowledgedIsOrder ==
    ASSUME NEW x \in Int, NEW y \in Int,
           x - y <= MAX_WINDOW_OFFSET, y - x <= MAX_WINDOW_OFFSET,
           NEW o \in Int, o % MAX_SEGMENT_OFFSET = x % MAX_SEGMENT_OFFSET,
           NEW a \in Int, a % MAX_SEGMENT_OFFSET = y % MAX_SEGMENT_OFFSET
    PROVE  acknowledged(o, a) <=> x <= y
<1> DEFINE M == MAX_SEGMENT_OFFSET
           W == MAX_WINDOW_OFFSET
           X == x % MAX_SEGMENT_OFFSET
           Y == y % MAX_SEGMENT_OFFSET
<1>1. M \in Int /\ W \in Int /\ W >= 0 /\ M > 2 * W
  BY Constants, SequenceNumbersAssumption
<1>2. X \in 0 .. (M - 1) /\ Y \in 0 .. (M - 1)
  BY OffsetMod DEF Offsets
<1>3. acknowledged(o, a) <=> (X <= Y /\ Y - X <= W) \/ (M - X) + Y <= W
  BY DEF acknowledged
<1>4. PICK k \in Int : y - x = M * k + (Y - X)
  BY OffsetDifference
<1> DEFINE P == M * k
<1>5. /\ P \in Int
      /\ k >= 2 => P >= 2 * M
      /\ k = 1 => P = M
      /\ k = 0 => P = 0
      /\ k = -1 => P = - M
      /\ k <= -2 => P <= - (2 * M)
  BY MultipleOfOffsets
<1>6. y - x = P + (Y - X) /\ x - y <= W /\ y - x <= W
  BY <1>4
<1> HIDE DEF M, W, X, Y, P
<1> QED BY <1>1, <1>2, <1>3, <1>5, <1>6

\* distance is the distance of the positions.
LEMMA DistanceIsDifference ==
    ASSUME NEW x \in Int, NEW y \in Int, x < y, y - x <= MAX_SEGMENT_OFFSET
    PROVE  distance(x % MAX_SEGMENT_OFFSET, y % MAX_SEGMENT_OFFSET) = y - x
<1> DEFINE M == MAX_SEGMENT_OFFSET
           X == x % MAX_SEGMENT_OFFSET
           Y == y % MAX_SEGMENT_OFFSET
<1>1. M \in Int /\ M >= 1
  BY Constants
<1>2. X \in 0 .. (M - 1) /\ Y \in 0 .. (M - 1)
  BY OffsetMod DEF Offsets
<1>3. distance(X, Y) = IF Y > X THEN Y - X ELSE (M - X) + Y
  BY DEF distance
<1>4. PICK k \in Int : y - x = M * k + (Y - X)
  BY OffsetDifference
<1> DEFINE P == M * k
<1>5. /\ P \in Int
      /\ k >= 2 => P >= 2 * M
      /\ k = 1 => P = M
      /\ k = 0 => P = 0
      /\ k = -1 => P = - M
      /\ k <= -2 => P <= - (2 * M)
  BY MultipleOfOffsets
<1>6. y - x = P + (Y - X) /\ x < y /\ y - x <= M
  BY <1>4
<1> HIDE DEF M, X, Y, P
<1>7. distance(X, Y) = y - x
  BY <1>1, <1>2, <1>3, <1>5, <1>6
<1> QED BY <1>7 DEF X, Y

-----------------------------------------------------------------------------
(***************************************************************************)
(* The receive buffer in terms of positions.                               *)
(***************************************************************************)

\* The bytes of the stream from position a up to position b.
Interval(a, b) == [i \in 1 .. (b - a) |-> a + i - 1]

\* The byte at position x is in the buffer.
Holds(b, x) == b.cell[x % MAX_SEGMENT_OFFSET] = x

\* Every valid cell holds the byte of a position from lo up to hi that belongs
\* there.
HoldsOnly(b, lo, hi) ==
    \A o \in Offsets :
        b.cell[o] # INVALID =>
            /\ b.cell[o] % MAX_SEGMENT_OFFSET = o
            /\ lo <= b.cell[o]
            /\ b.cell[o] < hi

LEMMA IntervalProperties ==
    ASSUME NEW a \in Nat, NEW b \in Nat, a <= b
    PROVE  /\ Interval(a, b) \in Seq(Nat)
           /\ Len(Interval(a, b)) = b - a
           /\ \A i \in 1 .. (b - a) : Interval(a, b)[i] = a + i - 1
           /\ Interval(a, b) = <<>> <=> a = b
<1>1. b - a \in Nat
  OBVIOUS
<1>2. Interval(a, b) \in [1 .. (b - a) -> Nat]
  BY DEF Interval
<1>3. Interval(a, b) \in Seq(Nat) /\ Len(Interval(a, b)) = b - a
  BY <1>1, <1>2, FunctionIsSeq
<1>4. \A i \in 1 .. (b - a) : Interval(a, b)[i] = a + i - 1
  BY DEF Interval
<1>5. Interval(a, b) = <<>> <=> a = b
  <2>1. Interval(a, b) = <<>> <=> Len(Interval(a, b)) = 0
    BY <1>3, EmptySeq
  <2> QED BY <1>3, <2>1
<1> QED BY <1>3, <1>4, <1>5

LEMMA BufferType ==
    ASSUME NEW b \in ReceiveBuffer
    PROVE  /\ b.len = MAX_SEGMENT_OFFSET
           /\ DOMAIN b.cell = Offsets
           /\ \A o \in Offsets : b.cell[o] \in Nat \union {INVALID}
           /\ b.cell \in [Offsets -> Nat \union {INVALID}]
BY DEF ReceiveBuffer

LEMMA HoldsRange ==
    ASSUME NEW b \in ReceiveBuffer, NEW lo \in Int, NEW hi \in Int,
           HoldsOnly(b, lo, hi), NEW x \in Nat, Holds(b, x)
    PROVE  lo <= x /\ x < hi
<1>1. x % MAX_SEGMENT_OFFSET \in Offsets
  BY OffsetMod
<1>2. x # INVALID
  BY DEF INVALID
<1> QED BY <1>1, <1>2 DEF Holds, HoldsOnly

\* The bit of an offset tells whether the byte is there.
LEMMA CheckIsHolds ==
    ASSUME NEW b \in ReceiveBuffer, NEW lo \in Int, NEW hi \in Int,
           HoldsOnly(b, lo, hi), NEW x \in Nat,
           x - lo < MAX_SEGMENT_OFFSET, hi - x <= MAX_SEGMENT_OFFSET,
           NEW p \in Int, p % MAX_SEGMENT_OFFSET = x % MAX_SEGMENT_OFFSET
    PROVE  buffer_check(b, p) <=> Holds(b, x)
<1> DEFINE o == x % MAX_SEGMENT_OFFSET
<1>1. o \in Offsets
  BY OffsetMod
<1>2. buffer_check(b, p) <=> b.cell[o] # INVALID
  BY BufferType DEF buffer_check
<1>3. b.cell[o] \in Nat \union {INVALID}
  BY <1>1, BufferType
<1>4. ASSUME b.cell[o] # INVALID PROVE b.cell[o] = x
  <2>1. /\ b.cell[o] % MAX_SEGMENT_OFFSET = o
        /\ lo <= b.cell[o]
        /\ b.cell[o] < hi
    BY <1>1, <1>4 DEF HoldsOnly
  <2>2. b.cell[o] \in Nat
    BY <1>3, <1>4
  <2> DEFINE y == b.cell[o]
  <2>3. y \in Int /\ x \in Int /\ lo \in Int /\ hi \in Int /\ MAX_SEGMENT_OFFSET \in Int
    BY <2>2, Constants
  <2>4. lo <= y /\ y < hi /\ y % MAX_SEGMENT_OFFSET = x % MAX_SEGMENT_OFFSET
    BY <2>1
  <2> HIDE DEF y, o
  <2>5. y - x < MAX_SEGMENT_OFFSET /\ x - y < MAX_SEGMENT_OFFSET
    BY <2>3, <2>4
  <2> QED BY <2>3, <2>4, <2>5, SamePosition DEF y
<1>5. x # INVALID
  BY DEF INVALID
<1> HIDE DEF o
<1>6. Holds(b, x) <=> b.cell[o] = x
  BY DEF Holds, o
<1> QED BY <1>2, <1>4, <1>5, <1>6

\* The first byte that is missing.
FirstMissing(b, lo, r) ==
    /\ lo <= r
    /\ \A x \in Nat : lo <= x /\ x < r => Holds(b, x)
    /\ ~ Holds(b, r)

\* A connection acknowledges the first byte that is missing.
LEMMA AckOffsetIsMissing ==
    ASSUME NEW c \in ConnectionRecord, NEW lo \in Nat, NEW hi \in Int, NEW r \in Nat,
           HoldsOnly(c.inBuf, lo, hi), FirstMissing(c.inBuf, lo, r),
           c.bufferStart = lo % MAX_SEGMENT_OFFSET,
           r - lo < MAX_SEGMENT_OFFSET, hi - r <= MAX_SEGMENT_OFFSET
    PROVE  AckOffset(c) = r % MAX_SEGMENT_OFFSET
<1> DEFINE b    == c.inBuf
           M    == MAX_SEGMENT_OFFSET
           free == {i \in 0 .. (b.len - 1) :
                       ~ buffer_check(b, c.bufferStart + i)}
<1>1. b \in ReceiveBuffer /\ b.len = M /\ M \in Nat /\ c.bufferStart \in Nat
  BY Fields, BufferType, Constants, OffsetsAreNumbers
<1>2. ASSUME NEW i \in Nat
      PROVE  (c.bufferStart + i) % M = (lo + i) % M
  BY ModAdd
<1>3. r - lo \in free
  <2>1. r - lo \in 0 .. (M - 1)
    BY <1>1 DEF FirstMissing
  <2>2. (c.bufferStart + (r - lo)) % M = r % M
    <3>1. r - lo \in Nat /\ lo + (r - lo) = r
      BY <2>1
    <3> QED BY <1>2, <3>1
  <2>3. c.bufferStart + (r - lo) \in Int
    BY <1>1
  <2>4. ~ buffer_check(b, c.bufferStart + (r - lo))
    <3>1. ~ Holds(b, r)
      BY DEF FirstMissing
    <3> QED BY <1>1, <2>2, <2>3, <3>1, CheckIsHolds
  <2> QED BY <1>1, <2>1, <2>4
<1>4. ASSUME NEW i \in free, i < r - lo PROVE FALSE
  <2>1. i \in Nat /\ i \in 0 .. (M - 1)
    BY <1>1
  <2>2. Holds(b, lo + i)
    <3>1. lo + i \in Nat /\ lo <= lo + i /\ lo + i < r
      BY <1>4, <2>1
    <3> QED BY <3>1 DEF FirstMissing
  <2>3. b.cell[(lo + i) % M] # INVALID
    <3>1. lo + i # INVALID
      BY <2>1 DEF INVALID
    <3> QED BY <2>2, <3>1 DEF Holds
  <2>4. buffer_check(b, c.bufferStart + i)
    BY <1>1, <1>2, <2>1, <2>3 DEF buffer_check
  <2> QED BY <2>4
<1>5. free \subseteq Nat
  BY <1>1
<1>6. Min(free) \in free /\ Min(free) \in Nat
  BY <1>3, <1>5, MinElement
<1>7. \A y \in free : Min(free) <= y
  <2>1. \E x \in free : \A y \in free : x <= y
    BY <1>3, <1>5, LeastElement
  <2> QED BY <2>1 DEF Min
<1>8. Min(free) = r - lo
  <2>1. Min(free) <= r - lo
    BY <1>3, <1>7
  <2>2. ~ (Min(free) < r - lo)
    BY <1>4, <1>6
  <2> QED BY <1>6, <2>1, <2>2
<1>9. AckOffset(c) = (c.bufferStart + Min(free)) % b.len
  <2>1. free # {}
    BY <1>3
  <2> QED BY <2>1 DEF AckOffset, buffer_next_invalid
<1>10. (c.bufferStart + (r - lo)) % M = r % M
  <2>1. r - lo \in Nat /\ lo + (r - lo) = r
    BY DEF FirstMissing
  <2> QED BY <1>2, <2>1
<1> HIDE DEF free
<1> QED BY <1>1, <1>8, <1>9, <1>10

\* The position a cell takes in the segment that starts at position a.
LEMMA CellOfSegment ==
    ASSUME NEW a \in Nat, NEW p \in Offsets
    PROVE  /\ (p - (a % MAX_SEGMENT_OFFSET)) % MAX_SEGMENT_OFFSET \in Offsets
           /\ (a + ((p - (a % MAX_SEGMENT_OFFSET)) % MAX_SEGMENT_OFFSET))
                 % MAX_SEGMENT_OFFSET = p
           /\ \A x \in Int :
                 /\ x % MAX_SEGMENT_OFFSET = p
                 /\ a <= x
                 /\ x < a + MAX_SEGMENT_OFFSET
                 => x = a + ((p - (a % MAX_SEGMENT_OFFSET)) % MAX_SEGMENT_OFFSET)
<1> DEFINE M == MAX_SEGMENT_OFFSET
           o == a % M
           i == (p - o) % M
<1>1. p \in Int /\ o \in Int /\ M \in Int
  BY Constants, OffsetMod, OffsetsAreNumbers
<1>2. i \in Offsets
  BY <1>1, OffsetMod
<1>3. i \in Nat /\ i < M
  BY <1>1, <1>2 DEF Offsets
<1>4. (a + i) % M = p
  <2>1. (i + a) % M = ((p - o) + a) % M
    BY <1>1, ModAdd
  <2>2. (o + (p - o)) % M = (a + (p - o)) % M
    <3> DEFINE k == p - o
    <3>1. k \in Int
      BY <1>1
    <3> HIDE DEF k
    <3>2. (o + k) % M = (a + k) % M
      BY <3>1, ModAdd
    <3> QED BY <3>2 DEF k
  <2>3. i + a = a + i /\ (p - o) + a = a + (p - o) /\ o + (p - o) = p
    BY <1>1, <1>3
  <2>4. p % M = p
    BY OffsetIsMod
  <2> QED BY <2>1, <2>2, <2>3, <2>4
<1>5. ASSUME NEW x \in Int, x % M = p, a <= x, x < a + M PROVE x = a + i
  <2>1. a + i \in Int /\ x - (a + i) < M /\ (a + i) - x < M
    BY <1>1, <1>3, <1>5
  <2> QED BY <1>4, <1>5, <2>1, SamePosition
<1> QED BY <1>2, <1>4, <1>5

\* What the buffer holds after a segment is stored.
LEMMA StoredHolds ==
    ASSUME NEW b \in ReceiveBuffer, NEW lo \in Nat, NEW hi \in Int,
           HoldsOnly(b, lo, hi), NEW a \in Nat, NEW e \in Nat,
           lo <= a, a < e, hi - a <= MAX_SEGMENT_OFFSET, e - lo <= MAX_SEGMENT_OFFSET
    PROVE  LET d == buffer_store(b, a % MAX_SEGMENT_OFFSET, Interval(a, e), e - a)
           IN  /\ \A x \in Nat : Holds(d, x) <=> Holds(b, x) \/ (a <= x /\ x < e)
               /\ \A h \in Int : hi <= h /\ e <= h => HoldsOnly(d, lo, h)
<1> DEFINE M == MAX_SEGMENT_OFFSET
           o == a % MAX_SEGMENT_OFFSET
           d == buffer_store(b, o, Interval(a, e), e - a)
           I(p) == (p - o) % M
<1>1. M \in Nat /\ b.len = M /\ DOMAIN b.cell = Offsets
  BY Constants, BufferType
<1>2. ASSUME NEW p \in Offsets
      PROVE  I(p) \in Nat /\ I(p) < M /\ (a + I(p)) % M = p
  BY SMTT(60), <1>1, CellOfSegment DEF Offsets
<1>3. ASSUME NEW p \in Offsets
      PROVE  d.cell[p] = IF I(p) < e - a THEN a + I(p) ELSE b.cell[p]
  <2>1. d.cell[p] = IF I(p) < e - a THEN Interval(a, e)[I(p) + 1] ELSE b.cell[p]
    BY <1>1 DEF buffer_store
  <2>2. ASSUME I(p) < e - a PROVE Interval(a, e)[I(p) + 1] = a + I(p)
    <3>1. I(p) \in Nat /\ I(p) + 1 \in 1 .. (e - a)
      BY <1>2, <2>2
    <3>2. \A j \in 1 .. (e - a) : Interval(a, e)[j] = a + j - 1
      BY DEF Interval
    <3> HIDE DEF I
    <3>3. Interval(a, e)[I(p) + 1] = a + (I(p) + 1) - 1
      BY <3>1, <3>2
    <3> QED BY <3>1, <3>3
  <2> HIDE DEF I, d
  <2> QED BY <2>1, <2>2
<1>4. ASSUME NEW x \in Nat, a <= x, x < e PROVE Holds(d, x)
  <2>1. x % M \in Offsets
    BY OffsetMod
  <2>2. x = a + I(x % M)
    <3>1. x < a + M
      BY <1>1, <1>4
    <3> QED BY <1>4, <2>1, <3>1, CellOfSegment
  <2>3. I(x % M) < e - a
    BY <1>2, <1>4, <2>1, <2>2
  <2> HIDE DEF I, d
  <2> QED BY <1>3, <2>1, <2>2, <2>3 DEF Holds
<1>5. ASSUME NEW x \in Nat, ~ (a <= x /\ x < e)
      PROVE  Holds(d, x) <=> Holds(b, x)
  <2> DEFINE p == x % M
  <2>1. p \in Offsets
    BY OffsetMod
  <2>2. I(p) \in Nat /\ I(p) < M /\ (a + I(p)) % M = p
    BY <1>2, <2>1
  <2>3. CASE I(p) < e - a
    <3> DEFINE y == a + I(p)
    <3>1. y \in Nat /\ a <= y /\ y < e /\ y % M = x % M
      BY <2>2, <2>3
    <3>2. d.cell[p] = y
      BY <1>3, <2>1, <2>3
    <3> HIDE DEF y, I, d
    <3>3. y # x
      BY <1>5, <3>1
    <3>4. ~ Holds(d, x)
      BY <3>2, <3>3 DEF Holds
    <3>5. ASSUME Holds(b, x) PROVE FALSE
      <4>1. lo <= x /\ x < hi
        BY <3>5, HoldsRange
      <4>2. x - y < M /\ y - x < M
        BY <1>1, <3>1, <4>1
      <4> QED BY <3>1, <3>3, <4>2, SamePosition
    <3> QED BY <3>4, <3>5
  <2>4. CASE ~ (I(p) < e - a)
    <3>1. d.cell[p] = b.cell[p]
      BY <1>3, <2>1, <2>4
    <3> QED BY <3>1 DEF Holds
  <2> QED BY <2>3, <2>4
<1>6. ASSUME NEW h \in Int, hi <= h, e <= h PROVE HoldsOnly(d, lo, h)
  <2>1. ASSUME NEW p \in Offsets, d.cell[p] # INVALID
        PROVE  d.cell[p] % M = p /\ lo <= d.cell[p] /\ d.cell[p] < h
    <3>1. I(p) \in Nat /\ (a + I(p)) % M = p
      BY <1>2
    <3>2. CASE I(p) < e - a
      <4>1. d.cell[p] = a + I(p)
        BY <1>3, <3>2
      <4> HIDE DEF I, d
      <4> QED BY <1>6, <3>1, <3>2, <4>1
    <3>3. CASE ~ (I(p) < e - a)
      <4>1. d.cell[p] = b.cell[p]
        BY <1>3, <3>3
      <4>2. b.cell[p] \in Nat
        BY <2>1, <4>1, BufferType
      <4> HIDE DEF I, d
      <4>3. b.cell[p] % M = p /\ lo <= b.cell[p] /\ b.cell[p] < hi
        BY <2>1, <4>1 DEF HoldsOnly
      <4> QED BY <1>6, <4>1, <4>2, <4>3
    <3> QED BY <3>2, <3>3
  <2> QED BY <2>1 DEF HoldsOnly
<1> QED BY <1>4, <1>5, <1>6

\* g holds the bytes of b from position e on.
HoldsFrom(g, b, e) == \A x \in Nat : Holds(g, x) <=> Holds(b, x) /\ e <= x

\* What the buffer holds after the bytes before position e are taken out.
LEMMA TakenOutHolds ==
    ASSUME NEW b \in ReceiveBuffer, NEW lo \in Nat, NEW hi \in Int,
           HoldsOnly(b, lo, hi), NEW e \in Nat, lo <= e,
           hi - lo <= MAX_SEGMENT_OFFSET, e - lo <= MAX_SEGMENT_OFFSET,
           NEW T \in SUBSET Offsets,
           \A p \in Offsets :
              p \in T <=> \E x \in Nat : lo <= x /\ x < e /\ x % MAX_SEGMENT_OFFSET = p,
           NEW d,
           \A p \in Offsets : d.cell[p] = IF p \in T THEN INVALID ELSE b.cell[p]
    PROVE  /\ HoldsFrom(d, b, e)
           /\ HoldsOnly(d, e, hi)
<1> DEFINE M == MAX_SEGMENT_OFFSET
<1>1. M \in Nat
  BY Constants
<1>2. ASSUME NEW x \in Nat PROVE Holds(d, x) <=> Holds(b, x) /\ e <= x
  <2> DEFINE p == x % M
  <2>1. p \in Offsets
    BY OffsetMod
  <2>2. x # INVALID
    BY DEF INVALID
  <2>3. d.cell[p] = IF p \in T THEN INVALID ELSE b.cell[p]
    BY <2>1
  <2>4. ASSUME Holds(b, x) PROVE p \in T <=> x < e
    <3>1. lo <= x /\ x < hi
      BY <2>4, HoldsRange
    <3>2. ASSUME x < e PROVE p \in T
      BY <2>1, <3>1, <3>2
    <3>3. ASSUME p \in T PROVE x < e
      <4>1. PICK y \in Nat : lo <= y /\ y < e /\ y % M = p
        BY <2>1, <3>3
      <4>2. x - y < M /\ y - x < M
        BY <1>1, <3>1, <4>1
      <4>3. x = y
        BY <4>1, <4>2, SamePosition
      <4> QED BY <4>1, <4>3
    <3> QED BY <3>2, <3>3
  <2> HIDE DEF p
  <2>5. Holds(d, x) <=> d.cell[p] = x
    BY DEF Holds, p
  <2>6. Holds(b, x) <=> b.cell[p] = x
    BY DEF Holds, p
  <2> QED BY <2>2, <2>3, <2>4, <2>5, <2>6
<1>3. ASSUME NEW p \in Offsets, d.cell[p] # INVALID
      PROVE  d.cell[p] % M = p /\ e <= d.cell[p] /\ d.cell[p] < hi
  <2>1. p \notin T /\ d.cell[p] = b.cell[p]
    BY <1>3
  <2>2. b.cell[p] \in Nat
    BY <1>3, <2>1, BufferType
  <2>3. b.cell[p] % M = p /\ lo <= b.cell[p] /\ b.cell[p] < hi
    BY <1>3, <2>1 DEF HoldsOnly
  <2>4. ~ (b.cell[p] < e)
    BY <2>1, <2>2, <2>3
  <2> QED BY <2>1, <2>2, <2>3, <2>4
<1> QED BY <1>2, <1>3 DEF HoldsOnly, HoldsFrom

-----------------------------------------------------------------------------
(***************************************************************************)
(* The double ring in terms of positions.                                  *)
(***************************************************************************)

OffsetsOf(q) == [i \in DOMAIN q |-> q[i] % MAX_SEGMENT_OFFSET]

Increasing(q) == \A i, j \in DOMAIN q : i < j => q[i] < q[j]

LEMMA OffsetsOfType ==
    ASSUME NEW q \in Seq(Nat)
    PROVE  /\ OffsetsOf(q) \in Seq(Offsets)
           /\ Len(OffsetsOf(q)) = Len(q)
           /\ DOMAIN OffsetsOf(q) = 1 .. Len(q)
           /\ DOMAIN q = 1 .. Len(q)
           /\ Len(q) \in Nat
           /\ \A i \in 1 .. Len(q) :
                 q[i] \in Nat /\ OffsetsOf(q)[i] = q[i] % MAX_SEGMENT_OFFSET
           /\ OffsetsOf(q) = <<>> <=> q = <<>>
<1>1. DOMAIN q = 1 .. Len(q) /\ Len(q) \in Nat
  BY LenProperties
<1>2. \A i \in 1 .. Len(q) : q[i] \in Nat
  BY ElementOfSeq
<1>3. \A i \in 1 .. Len(q) : q[i] % MAX_SEGMENT_OFFSET \in Offsets
  BY <1>2, OffsetMod
<1>4. OffsetsOf(q) \in [1 .. Len(q) -> Offsets]
  BY <1>1, <1>3 DEF OffsetsOf
<1>5. OffsetsOf(q) \in Seq(Offsets) /\ Len(OffsetsOf(q)) = Len(q)
  BY <1>1, <1>4, FunctionIsSeq
<1>6. \A i \in 1 .. Len(q) : OffsetsOf(q)[i] = q[i] % MAX_SEGMENT_OFFSET
  BY <1>1 DEF OffsetsOf
<1>7. OffsetsOf(q) = <<>> <=> q = <<>>
  BY <1>5, EmptySeq
<1> QED BY <1>1, <1>2, <1>4, <1>5, <1>6, <1>7

\* Two sequences of offsets are equal when their elements are.
LEMMA SameOffsetsOf ==
    ASSUME NEW q \in Seq(Nat), NEW s \in Seq(Offsets), Len(s) = Len(q),
           \A i \in 1 .. Len(q) : s[i] = q[i] % MAX_SEGMENT_OFFSET
    PROVE  s = OffsetsOf(q)
<1>1. OffsetsOf(q) \in Seq(Offsets) /\ Len(OffsetsOf(q)) = Len(q)
  BY OffsetsOfType
<1>2. \A i \in 1 .. Len(s) : s[i] = OffsetsOf(q)[i]
  BY OffsetsOfType
<1> QED BY <1>1, <1>2, SeqEqual

\* A set of indices that is closed downwards is an interval.
LEMMA PrefixIsInterval ==
    ASSUME NEW n \in Nat, NEW T, T \subseteq 1 .. n,
           \A i, j \in 1 .. n : j \in T /\ i < j => i \in T
    PROVE  /\ Cardinality(T) \in 0 .. n
           /\ T = 1 .. Cardinality(T)
<1> DEFINE C == {x \in 1 .. (n + 1) : x \notin T}
<1>1. n + 1 \in C /\ C \subseteq Nat
  OBVIOUS
<1>2. PICK x \in C : \A y \in C : x <= y
  BY <1>1, LeastElement
<1>3. x \in 1 .. (n + 1) /\ x \notin T
  BY <1>2
<1>4. T = 1 .. (x - 1)
  <2>1. ASSUME NEW i \in 1 .. (x - 1) PROVE i \in T
    <3>1. i \in 1 .. (n + 1) /\ ~ (x <= i)
      BY <1>3
    <3> QED BY <1>2, <3>1
  <2>2. ASSUME NEW i \in T PROVE i \in 1 .. (x - 1)
    <3>1. i \in 1 .. n /\ i # x
      BY <1>3
    <3>2. ~ (x < i)
      <4> SUFFICES ASSUME x < i PROVE FALSE
        OBVIOUS
      <4>1. x \in 1 .. n
        BY <1>3, <3>1
      <4> QED BY <1>3, <3>1, <4>1
    <3> QED BY <1>3, <3>1, <3>2
  <2> QED BY <2>1, <2>2
<1>5. Cardinality(1 .. (x - 1)) = x - 1
  <2>1. x - 1 \in Nat
    BY <1>3
  <2> QED BY <2>1, IndicesFinite, Zenon
<1> QED BY <1>3, <1>4, <1>5

LEMMA InsertAtProperties ==
    ASSUME NEW S, NEW q \in Seq(S), NEW e \in S, NEW n \in 0 .. Len(q)
    PROVE  /\ InsertAt(q, n + 1, e) \in Seq(S)
           /\ Len(InsertAt(q, n + 1, e)) = Len(q) + 1
           /\ \A i \in 1 .. (Len(q) + 1) :
                 InsertAt(q, n + 1, e)[i] =
                    IF i <= n THEN q[i] ELSE IF i = n + 1 THEN e ELSE q[i - 1]
<1> DEFINE L == Len(q)
           p == SubSeq(q, 1, n)
           s == SubSeq(q, n + 1, Len(q))
           t == InsertAt(q, n + 1, e)
<1>1. L \in Nat /\ n \in Nat /\ n <= L
  BY LenProperties
<1>2. t = (p \o <<e>>) \o s
  <2>1. (n + 1) - 1 = n
    BY <1>1
  <2> QED BY <2>1 DEF InsertAt
<1>3. \A i \in 1 .. L : q[i] \in S
  BY ElementOfSeq
<1>4. p \in Seq(S) /\ Len(p) = n /\ \A i \in 1 .. n : p[i] = q[i]
  <2>1. /\ p \in Seq(S)
        /\ Len(p) = IF 1 <= n THEN n - 1 + 1 ELSE 0
        /\ \A i \in 1 .. n - 1 + 1 : p[i] = q[1 + i - 1]
    <3>1. \A i \in 1 .. n : q[i] \in S
      BY <1>1, <1>3
    <3> QED BY <1>1, <3>1, SubSeqProperties
  <2>2. n - 1 + 1 = n /\ \A i \in 1 .. n : 1 + i - 1 = i
    BY <1>1
  <2> HIDE DEF p
  <2>3. \A i \in 1 .. n : p[i] = q[i]
    BY <2>1, <2>2
  <2> QED BY <1>1, <2>1, <2>2, <2>3
<1>5. s \in Seq(S) /\ Len(s) = L - n /\ \A i \in 1 .. (L - n) : s[i] = q[n + i]
  <2>1. /\ s \in Seq(S)
        /\ Len(s) = IF n + 1 <= L THEN L - (n + 1) + 1 ELSE 0
        /\ \A i \in 1 .. L - (n + 1) + 1 : s[i] = q[(n + 1) + i - 1]
    <3>1. \A i \in (n + 1) .. L : q[i] \in S
      BY <1>1, <1>3
    <3> QED BY <1>1, <3>1, SubSeqProperties
  <2>2. L - (n + 1) + 1 = L - n /\ \A i \in 1 .. (L - n) : (n + 1) + i - 1 = n + i
    BY SMTT(60), <1>1
  <2> HIDE DEF s
  <2>3. \A i \in 1 .. (L - n) : s[i] = q[n + i]
    BY <2>1, <2>2
  <2>4. Len(s) = L - n
    <3> HIDE DEF L
    <3> QED BY <1>1, <2>1
  <2> QED BY <2>1, <2>3, <2>4
<1> HIDE DEF p, s, t, L
<1>6. <<e>> \in Seq(S) /\ Len(<<e>>) = 1 /\ <<e>>[1] = e
  OBVIOUS
<1>7. /\ p \o <<e>> \in Seq(S)
      /\ Len(p \o <<e>>) = n + 1
      /\ \A i \in 1 .. (n + 1) : (p \o <<e>>)[i] = IF i <= n THEN q[i] ELSE e
  <2>1. /\ p \o <<e>> \in Seq(S)
        /\ Len(p \o <<e>>) = Len(p) + Len(<<e>>)
        /\ \A i \in 1 .. Len(p) + Len(<<e>>) :
              (p \o <<e>>)[i] = IF i <= Len(p) THEN p[i] ELSE <<e>>[i - Len(p)]
    BY <1>4, <1>6, ConcatProperties
  <2>2. ASSUME NEW i \in 1 .. (n + 1)
        PROVE  (p \o <<e>>)[i] = IF i <= n THEN q[i] ELSE e
    <3>1. (p \o <<e>>)[i] = IF i <= n THEN p[i] ELSE <<e>>[i - n]
      BY <1>4, <1>6, <2>1
    <3>2. ~ (i <= n) => i - n = 1
      BY <1>1
    <3>3. i <= n => p[i] = q[i]
      BY <1>1, <1>4
    <3> QED BY <1>6, <3>1, <3>2, <3>3
  <2> QED BY <1>4, <1>6, <2>1, <2>2
<1>8. /\ t \in Seq(S)
      /\ Len(t) = (n + 1) + (L - n)
      /\ \A i \in 1 .. (n + 1) + (L - n) :
            t[i] = IF i <= n + 1 THEN (p \o <<e>>)[i] ELSE s[i - (n + 1)]
  <2> DEFINE r == p \o <<e>>
  <2>1. r \in Seq(S) /\ Len(r) = n + 1
    BY <1>7
  <2>2. t = r \o s
    BY <1>2
  <2> HIDE DEF r
  <2>3. /\ t \in Seq(S)
        /\ Len(t) = Len(r) + Len(s)
        /\ \A i \in 1 .. Len(r) + Len(s) :
              t[i] = IF i <= Len(r) THEN r[i] ELSE s[i - Len(r)]
    BY <1>5, <2>1, <2>2, ConcatProperties
  <2>4. /\ t \in Seq(S)
        /\ Len(t) = (n + 1) + (L - n)
        /\ \A i \in 1 .. (n + 1) + (L - n) :
              t[i] = IF i <= n + 1 THEN r[i] ELSE s[i - (n + 1)]
    BY <1>5, <2>1, <2>3
  <2> QED BY <2>4 DEF r
<1>9. (n + 1) + (L - n) = L + 1
  BY <1>1
<1>10. ASSUME NEW i \in 1 .. (L + 1)
       PROVE  t[i] = IF i <= n THEN q[i] ELSE IF i = n + 1 THEN e ELSE q[i - 1]
  <2>1. CASE i <= n + 1
    BY <1>1, <1>7, <1>8, <1>9, <2>1
  <2>2. CASE ~ (i <= n + 1)
    <3>1. i - (n + 1) \in 1 .. (L - n) /\ n + (i - (n + 1)) = i - 1
      BY <1>1, <2>2
    <3>2. t[i] = s[i - (n + 1)]
      BY <1>8, <1>9, <2>2
    <3> QED BY <1>1, <1>5, <2>2, <3>1, <3>2
  <2> QED BY <2>1, <2>2
<1> QED BY <1>8, <1>9, <1>10 DEF t, L

\* An insertion into a queue that holds the positions of one round keeps the
\* order of the positions.
LEMMA InsertKeepsOrder ==
    ASSUME NEW q \in Seq(Nat), Increasing(q), NEW e \in Nat, NEW k \in Int,
           \A i \in 1 .. Len(q) :
              /\ MAX_SEGMENT_OFFSET * k <= q[i]
              /\ q[i] < MAX_SEGMENT_OFFSET * k + MAX_SEGMENT_OFFSET
              /\ q[i] # e,
           MAX_SEGMENT_OFFSET * k <= e,
           e < MAX_SEGMENT_OFFSET * k + MAX_SEGMENT_OFFSET
    PROVE  \E t \in Seq(Nat) :
              /\ squeue_insert(OffsetsOf(q), e % MAX_SEGMENT_OFFSET) = OffsetsOf(t)
              /\ Increasing(t)
              /\ Range(t) = Range(q) \union {e}
              /\ t # <<>>
              /\ t[Len(t)] = IF q # <<>> /\ e < q[Len(q)] THEN q[Len(q)] ELSE e
<1> DEFINE M == MAX_SEGMENT_OFFSET
           B == MAX_SEGMENT_OFFSET * k
           L == Len(q)
           o == e % MAX_SEGMENT_OFFSET
           T == {i \in DOMAIN OffsetsOf(q) : OffsetsOf(q)[i] <= o}
           n == Cardinality(T)
           t == InsertAt(q, n + 1, e)
<1>1. /\ L \in Nat /\ DOMAIN q = 1 .. L /\ DOMAIN OffsetsOf(q) = 1 .. L
      /\ \A i \in 1 .. L : q[i] \in Nat /\ OffsetsOf(q)[i] = q[i] % M
  BY OffsetsOfType
<1>2. B \in Int /\ M \in Int
  BY Constants
<1>3. o = e - B
  BY OffsetInRound
<1>4. ASSUME NEW i \in 1 .. L PROVE i \in T <=> q[i] < e
  <2>1. q[i] % M = q[i] - B
    BY <1>1, OffsetInRound
  <2>2. i \in T <=> q[i] - B <= e - B
    BY <1>1, <1>3, <2>1
  <2>3. q[i] \in Int /\ e \in Int /\ q[i] # e
    BY <1>1
  <2> HIDE DEF B, T
  <2> QED BY <1>2, <2>2, <2>3
<1>5. n \in 0 .. L /\ T = 1 .. n
  <2>1. T \subseteq 1 .. L
    BY <1>1
  <2>2. ASSUME NEW i \in 1 .. L, NEW j \in 1 .. L, j \in T, i < j PROVE i \in T
    <3>1. q[i] < q[j] /\ q[j] < e
      BY <1>1, <1>4, <2>2 DEF Increasing
    <3>2. q[i] \in Int /\ q[j] \in Int
      BY <1>1
    <3> QED BY <1>4, <3>1, <3>2
  <2> HIDE DEF T, L
  <2> QED BY <1>1, <2>1, <2>2, PrefixIsInterval
<1>6. squeue_insert(OffsetsOf(q), o) = InsertAt(OffsetsOf(q), n + 1, o)
  BY DEF squeue_insert
<1> HIDE DEF T, n, t
<1>7. /\ t \in Seq(Nat)
      /\ Len(t) = L + 1
      /\ \A i \in 1 .. (L + 1) :
            t[i] = IF i <= n THEN q[i] ELSE IF i = n + 1 THEN e ELSE q[i - 1]
  <2>1. n \in 0 .. Len(q) /\ e \in Nat /\ q \in Seq(Nat)
    BY <1>5
  <2>2. /\ InsertAt(q, n + 1, e) \in Seq(Nat)
        /\ Len(InsertAt(q, n + 1, e)) = Len(q) + 1
        /\ \A i \in 1 .. (Len(q) + 1) :
              InsertAt(q, n + 1, e)[i] =
                 IF i <= n THEN q[i] ELSE IF i = n + 1 THEN e ELSE q[i - 1]
    <3> DEFINE N == Nat
    <3>1. n \in 0 .. Len(q) /\ e \in N /\ q \in Seq(N)
      BY <2>1
    <3> HIDE DEF N
    <3>2. /\ InsertAt(q, n + 1, e) \in Seq(N)
          /\ Len(InsertAt(q, n + 1, e)) = Len(q) + 1
          /\ \A i \in 1 .. (Len(q) + 1) :
                InsertAt(q, n + 1, e)[i] =
                   IF i <= n THEN q[i] ELSE IF i = n + 1 THEN e ELSE q[i - 1]
      BY <3>1, InsertAtProperties
    <3> QED BY <3>2 DEF N
  <2> QED BY <2>2 DEF t
<1>8. DOMAIN t = 1 .. (L + 1)
  BY <1>7, LenProperties
<1>9. InsertAt(OffsetsOf(q), n + 1, o) = OffsetsOf(t)
  <2> DEFINE s == InsertAt(OffsetsOf(q), n + 1, o)
  <2>1. OffsetsOf(q) \in Seq(Offsets) /\ Len(OffsetsOf(q)) = L /\ o \in Offsets
    BY OffsetsOfType, OffsetMod
  <2>2. /\ s \in Seq(Offsets)
        /\ Len(s) = L + 1
        /\ \A i \in 1 .. (L + 1) :
              s[i] = IF i <= n THEN OffsetsOf(q)[i]
                     ELSE IF i = n + 1 THEN o ELSE OffsetsOf(q)[i - 1]
    BY <1>5, <2>1, InsertAtProperties
  <2> HIDE DEF s
  <2>3. ASSUME NEW i \in 1 .. (L + 1) PROVE s[i] = t[i] % M
    <3>1. CASE i <= n
      <4>1. i \in 1 .. L
        BY <1>1, <1>5, <3>1
      <4> QED BY <1>1, <1>7, <2>2, <3>1, <4>1
    <3>2. CASE i = n + 1
      <4>1. ~ (i <= n)
        BY <1>5, <3>2
      <4> QED BY <1>7, <2>2, <3>2, <4>1
    <3>3. CASE ~ (i <= n) /\ i # n + 1
      <4>1. i - 1 \in 1 .. L
        BY <1>1, <1>5, <3>3
      <4> QED BY <1>1, <1>7, <2>2, <3>3, <4>1
    <3> QED BY <3>1, <3>2, <3>3
  <2>4. s = OffsetsOf(t)
    BY <1>7, <2>2, <2>3, SameOffsetsOf
  <2> QED BY <2>4 DEF s
<1>10. \A i \in 1 .. L : (i <= n => q[i] < e) /\ (~ (i <= n) => e < q[i])
  <2>1. \A i \in 1 .. L : q[i] \in Int /\ q[i] # e /\ (i \in 1 .. n <=> i <= n)
    BY <1>1, <1>5
  <2> QED BY <1>4, <1>5, <2>1
<1>11. Increasing(t)
  <2>1. ASSUME NEW i \in 1 .. (L + 1), NEW j \in 1 .. (L + 1), i < j
        PROVE  t[i] < t[j]
    <3>1. \A x, y \in 1 .. L : x < y => q[x] < q[y]
      BY <1>1 DEF Increasing
    <3>2. CASE j <= n
      <4>1. i \in 1 .. L /\ j \in 1 .. L /\ i <= n
        BY <1>1, <1>5, <2>1, <3>2
      <4> QED BY <1>7, <2>1, <3>1, <3>2, <4>1
    <3>3. CASE j = n + 1
      <4>1. i <= n /\ i \in 1 .. L /\ ~ (j <= n)
        BY <1>1, <1>5, <2>1, <3>3
      <4> QED BY <1>7, <1>10, <3>3, <4>1
    <3>4. CASE n + 1 < j
      <4>1. ~ (j <= n) /\ j # n + 1 /\ j - 1 \in 1 .. L /\ ~ (j - 1 <= n)
        BY <1>1, <1>5, <3>4
      <4>2. t[j] = q[j - 1] /\ e < q[j - 1]
        BY <1>7, <1>10, <4>1
      <4>3. CASE i <= n
        <5>1. i \in 1 .. L /\ i < j - 1
          BY <1>1, <1>5, <2>1, <3>4, <4>3
        <5> QED BY <1>7, <3>1, <4>1, <4>2, <4>3, <5>1
      <4>4. CASE i = n + 1
        <5>1. ~ (i <= n)
          BY <1>5, <4>4
        <5> QED BY <1>7, <4>2, <4>4, <5>1
      <4>5. CASE n + 1 < i
        <5>1. ~ (i <= n) /\ i # n + 1 /\ i - 1 \in 1 .. L /\ i - 1 < j - 1
          BY <1>1, <1>5, <2>1, <4>5
        <5> QED BY <1>7, <3>1, <4>1, <4>2, <5>1
      <4> QED BY <1>5, <4>3, <4>4, <4>5
    <3> QED BY <1>5, <3>2, <3>3, <3>4
  <2> QED BY <1>8, <2>1 DEF Increasing
<1>12. Range(t) = Range(q) \union {e}
  <2>1. ASSUME NEW i \in 1 .. (L + 1) PROVE t[i] \in Range(q) \union {e}
    <3>1. i <= n => i \in 1 .. L
      BY <1>1, <1>5
    <3>2. ~ (i <= n) /\ i # n + 1 => i - 1 \in 1 .. L
      BY <1>1, <1>5
    <3> QED BY <1>1, <1>7, <3>1, <3>2 DEF Range
  <2>2. ASSUME NEW i \in 1 .. L PROVE \E j \in 1 .. (L + 1) : t[j] = q[i]
    <3>1. CASE i <= n
      <4>1. i \in 1 .. (L + 1)
        BY <1>1
      <4> QED BY <1>7, <3>1, <4>1
    <3>2. CASE ~ (i <= n)
      <4>1. i + 1 \in 1 .. (L + 1) /\ ~ (i + 1 <= n) /\ i + 1 # n + 1
            /\ (i + 1) - 1 = i
        BY <1>1, <1>5, <3>2
      <4>2. t[i + 1] = q[i]
        BY <1>7, <4>1
      <4> QED BY <4>1, <4>2
    <3> QED BY <3>1, <3>2
  <2>3. \E j \in 1 .. (L + 1) : t[j] = e
    <3>1. n + 1 \in 1 .. (L + 1) /\ ~ (n + 1 <= n)
      BY <1>1, <1>5
    <3> QED BY <1>7, <3>1
  <2>4. Range(t) = {t[i] : i \in 1 .. (L + 1)} /\ Range(q) = {q[i] : i \in 1 .. L}
    BY <1>1, <1>8 DEF Range
  <2>5. Range(t) \subseteq Range(q) \union {e}
    BY <2>1, <2>4
  <2>6. \A x \in Range(q) \union {e} : x \in Range(t)
    BY <2>2, <2>3, <2>4
  <2> QED BY <2>5, <2>6
<1>13. t # <<>>
  <2>1. Len(t) # 0
    BY <1>1, <1>7
  <2> QED BY <1>7, <2>1, EmptySeq
<1>14. t[Len(t)] = IF q # <<>> /\ e < q[Len(q)] THEN q[Len(q)] ELSE e
  <2>1. t[L + 1] = IF L + 1 <= n THEN q[L + 1]
                   ELSE IF L + 1 = n + 1 THEN e ELSE q[(L + 1) - 1]
    <3>1. L + 1 \in 1 .. (L + 1)
      BY <1>1
    <3> QED BY <1>7, <3>1
  <2>2. ~ (L + 1 <= n) /\ (L + 1 = n + 1 <=> L = n) /\ (L + 1) - 1 = L
    <3> HIDE DEF L
    <3> QED BY <1>1, <1>5
  <2>3. t[L + 1] = IF L = n THEN e ELSE q[L]
    BY <2>1, <2>2
  <2>4. q # <<>> <=> L # 0
    BY EmptySeq
  <2>5. CASE L = 0
    <3>1. L = n
      BY <1>5, <2>5
    <3> QED BY <1>7, <2>3, <2>4, <2>5, <3>1
  <2>6. CASE L # 0
    <3>1. L \in 1 .. L /\ q[L] \in Int /\ q[L] # e
      BY <1>1, <2>6
    <3>2. L = n <=> L <= n
      <4> HIDE DEF L
      <4> QED BY <1>1, <1>5
    <3>3. e < q[L] <=> ~ (L = n)
      BY <1>10, <3>1, <3>2
    <3> QED BY <1>7, <2>3, <2>4, <2>6, <3>3
  <2> QED BY <2>5, <2>6
<1> QED BY <1>6, <1>7, <1>9, <1>11, <1>12, <1>13, <1>14

-----------------------------------------------------------------------------

LEMMA SuffixProperties ==
    ASSUME NEW S, NEW q \in Seq(S), NEW n \in 0 .. Len(q)
    PROVE  /\ SubSeq(q, n + 1, Len(q)) \in Seq(S)
           /\ Len(SubSeq(q, n + 1, Len(q))) = Len(q) - n
           /\ \A i \in 1 .. (Len(q) - n) : SubSeq(q, n + 1, Len(q))[i] = q[n + i]
<1> DEFINE L == Len(q)
           s == SubSeq(q, n + 1, Len(q))
<1>1. L \in Nat /\ n \in Nat /\ n <= L
  BY LenProperties
<1>2. /\ s \in Seq(S)
      /\ Len(s) = IF n + 1 <= L THEN L - (n + 1) + 1 ELSE 0
      /\ \A i \in 1 .. L - (n + 1) + 1 : s[i] = q[(n + 1) + i - 1]
  <2>1. \A i \in (n + 1) .. L : q[i] \in S
    BY <1>1, ElementOfSeq
  <2> QED BY <1>1, <2>1, SubSeqProperties
<1>3. L - (n + 1) + 1 = L - n /\ \A i \in 1 .. (L - n) : (n + 1) + i - 1 = n + i
  BY <1>1
<1> HIDE DEF s, L
<1>4. \A i \in 1 .. (L - n) : s[i] = q[n + i]
  BY <1>2, <1>3
<1>5. Len(s) = L - n
  BY <1>1, <1>2
<1> QED BY <1>2, <1>4, <1>5 DEF s, L

\* The ring of a receiver that has delivered the bytes before position D.  The
\* positions in it lie in the window behind lo; those of the n-th round over the
\* offsets are in the first queue (qs), those of the next one in the second (ql).
\* m is the largest position the first queue has held in its round.
Ring(d, D, lo, hi, qs, ql, n, m) ==
    /\ d \in DoubleRing
    /\ d.windowSize = MAX_WINDOW_OFFSET
    /\ d.s = OffsetsOf(qs)
    /\ d.l = OffsetsOf(ql)
    /\ Increasing(qs)
    /\ Increasing(ql)
    /\ \A i \in 1 .. Len(qs) :
          lo < qs[i] /\ qs[i] <= hi /\ qs[i] < MAX_SEGMENT_OFFSET * n
    /\ \A i \in 1 .. Len(ql) :
          lo < ql[i] /\ ql[i] <= hi /\ MAX_SEGMENT_OFFSET * n <= ql[i]
    /\ MAX_SEGMENT_OFFSET * n - MAX_SEGMENT_OFFSET <= D
    /\ \/ d.maxFirstRing = -1 /\ qs = <<>> /\ ql = <<>> /\ n = 1 /\ D = 0
       \/ /\ d.maxFirstRing = m % MAX_SEGMENT_OFFSET
          /\ MAX_SEGMENT_OFFSET * n - MAX_SEGMENT_OFFSET <= m
          /\ m < MAX_SEGMENT_OFFSET * n
          /\ D <= m
          /\ m <= hi
          /\ qs # <<>> => m = qs[Len(qs)]

\* The room the cyclic offsets have to leave: the incomplete message, the window
\* behind its received bytes, and one window more.
Roomy(D, lo, hi) ==
    /\ D <= lo
    /\ lo <= hi
    /\ hi <= lo + MAX_WINDOW_OFFSET
    /\ lo + 2 * MAX_WINDOW_OFFSET < D + MAX_SEGMENT_OFFSET

LEMMA Rounds ==
    ASSUME NEW n \in Nat
    PROVE  /\ MAX_SEGMENT_OFFSET * n \in Nat
           /\ MAX_SEGMENT_OFFSET * (n - 1) = MAX_SEGMENT_OFFSET * n - MAX_SEGMENT_OFFSET
           /\ MAX_SEGMENT_OFFSET * (n + 1) = MAX_SEGMENT_OFFSET * n + MAX_SEGMENT_OFFSET
BY Constants

LEMMA RoundOffsets ==
    ASSUME NEW n \in Nat, NEW x \in Int
    PROVE  /\ /\ MAX_SEGMENT_OFFSET * n - MAX_SEGMENT_OFFSET <= x
              /\ x < MAX_SEGMENT_OFFSET * n
              => x % MAX_SEGMENT_OFFSET
                   = x - (MAX_SEGMENT_OFFSET * n - MAX_SEGMENT_OFFSET)
           /\ /\ MAX_SEGMENT_OFFSET * n <= x
              /\ x < MAX_SEGMENT_OFFSET * n + MAX_SEGMENT_OFFSET
              => x % MAX_SEGMENT_OFFSET = x - MAX_SEGMENT_OFFSET * n
<1> DEFINE M == MAX_SEGMENT_OFFSET
           B == MAX_SEGMENT_OFFSET * n
           k == n - 1
           P == MAX_SEGMENT_OFFSET * k
<1>1. k \in Int /\ P = B - M /\ B \in Int /\ M \in Int
  BY Rounds, Constants
<1>2. ASSUME P <= x, x < P + M PROVE x % M = x - P
  <2> HIDE DEF k
  <2> QED BY <1>1, <1>2, OffsetInRound
<1>3. ASSUME B <= x, x < B + M PROVE x % M = x - B
  BY <1>3, OffsetInRound
<1> HIDE DEF M, B, k, P
<1>4. ASSUME B - M <= x, x < B PROVE x % M = x - (B - M)
  BY <1>1, <1>2, <1>4
<1> QED BY <1>3, <1>4 DEF M, B

\* A new position of the window goes to the queue of its round.
LEMMA InFirstRingIsRound ==
    ASSUME NEW D \in Nat, NEW lo \in Nat, NEW hi \in Nat, Roomy(D, lo, hi),
           NEW d, NEW qs \in Seq(Nat), NEW ql \in Seq(Nat), NEW n \in Nat, NEW m \in Nat,
           Ring(d, D, lo, hi, qs, ql, n, m),
           NEW e \in Nat, lo < e, e <= hi
    PROVE  /\ InFirstRing(d, e % MAX_SEGMENT_OFFSET) <=> e < MAX_SEGMENT_OFFSET * n
           /\ MAX_SEGMENT_OFFSET * n - MAX_SEGMENT_OFFSET <= e
           /\ e < MAX_SEGMENT_OFFSET * n + MAX_SEGMENT_OFFSET
           /\ hi < MAX_SEGMENT_OFFSET * n + MAX_SEGMENT_OFFSET
<1> DEFINE M == MAX_SEGMENT_OFFSET
           W == MAX_WINDOW_OFFSET
           B == MAX_SEGMENT_OFFSET * n
           o == e % MAX_SEGMENT_OFFSET
           f == d.maxFirstRing
<1>1. /\ M \in Int /\ W \in Int /\ W >= 0 /\ M > 2 * W /\ B \in Int
      /\ M * (n - 1) = B - M
  BY Constants, SequenceNumbersAssumption, Rounds
<1>2. InFirstRing(d, o) <=> f = -1 \/ o > f \/ f - o < W
  BY DEF InFirstRing, Ring
<1>3. D <= lo /\ lo <= hi /\ hi <= lo + W /\ lo + 2 * W < D + M /\ B - M <= D
  BY DEF Roomy, Ring
<1>4. CASE f = -1 /\ n = 1 /\ D = 0
  <2>1. B = M
    BY <1>1, <1>4
  <2> HIDE DEF B, M, W, o, f
  <2>2. e < B /\ B - M <= e /\ e < B + M /\ hi < B + M
    BY <1>1, <1>3, <2>1, <1>4
  <2> QED BY <1>2, <1>4, <2>2 DEF B, M, o
<1>5. CASE f = m % M /\ B - M <= m /\ m < B /\ D <= m /\ m <= hi
  <2>1. f = m - (B - M) /\ f # -1
    <3>1. m % M = m - (B - M)
      BY <1>5, RoundOffsets
    <3> QED BY <1>1, <1>5, <3>1
  <2>2. e < B => o = e - (B - M)
    <3> SUFFICES ASSUME e < B PROVE o = e - (B - M)
      OBVIOUS
    <3>1. B - M <= e
      BY <1>1, <1>3
    <3> QED BY <3>1, RoundOffsets
  <2>3. B <= e => o = e - B
    <3> SUFFICES ASSUME B <= e PROVE o = e - B
      OBVIOUS
    <3>1. e < B + M
      <4> HIDE DEF B, M, W
      <4> QED BY <1>1, <1>3, <1>5
    <3> QED BY <3>1, RoundOffsets
  <2> HIDE DEF B, M, W, o, f
  <2>4. e < B => o > f \/ f - o < W
    BY <1>1, <1>3, <1>5, <2>1, <2>2
  <2>5. B <= e => ~ (o > f) /\ ~ (f - o < W)
    BY <1>1, <1>3, <1>5, <2>1, <2>3
  <2>6. B - M <= e /\ e < B + M /\ hi < B + M
    BY <1>1, <1>3, <1>5
  <2> QED BY <1>1, <1>2, <2>1, <2>4, <2>5, <2>6 DEF B, M, o
<1> QED BY <1>4, <1>5 DEF Ring

LEMMA TailOf ==
    ASSUME NEW q \in Seq(Nat), q # <<>>
    PROVE  /\ squeue_peek_tail(OffsetsOf(q)) = q[Len(q)] % MAX_SEGMENT_OFFSET
           /\ Len(q) \in 1 .. Len(q)
           /\ q[Len(q)] \in Nat
<1>1. Len(q) \in 1 .. Len(q) /\ OffsetsOf(q) # <<>> /\ Len(OffsetsOf(q)) = Len(q)
  <2>1. Len(q) \in Nat /\ Len(q) # 0
    BY OffsetsOfType, EmptySeq
  <2> QED BY <2>1, OffsetsOfType
<1> QED BY <1>1, OffsetsOfType DEF squeue_peek_tail

LEMMA RangeOfSeqIs ==
    ASSUME NEW q \in Seq(Nat)
    PROVE  Range(q) = {q[i] : i \in 1 .. Len(q)}
BY OffsetsOfType DEF Range

\* The ring holds the positions of S.
RingOf(d, D, lo, hi, S) ==
    \E qs, ql \in Seq(Nat), n, m \in Nat :
        /\ Ring(d, D, lo, hi, qs, ql, n, m)
        /\ \A x : x \in S <=> x \in Range(qs) \union Range(ql)

\* The double ring takes in a new position of the window.
LEMMA RingInserted ==
    ASSUME NEW D \in Nat, NEW lo \in Nat, NEW hi \in Nat, Roomy(D, lo, hi),
           NEW d, NEW S, RingOf(d, D, lo, hi, S),
           NEW e \in Nat, lo < e, e <= hi, e \notin S,
           NEW o, o = e % MAX_SEGMENT_OFFSET
    PROVE  RingOf(dring_insert(d, o), D, lo, hi, S \union {e})
<1>0. PICK qs \in Seq(Nat), ql \in Seq(Nat), n \in Nat, m \in Nat :
        /\ Ring(d, D, lo, hi, qs, ql, n, m)
        /\ \A x : x \in S <=> x \in Range(qs) \union Range(ql)
  BY DEF RingOf
<1> DEFINE M == MAX_SEGMENT_OFFSET
           B == MAX_SEGMENT_OFFSET * n
           d2 == dring_insert(d, o)
<1>1. /\ InFirstRing(d, o) <=> e < B
      /\ B - M <= e /\ e < B + M /\ hi < B + M
  BY ZenonT(60), <1>0, InFirstRingIsRound
<1>2. B \in Int /\ M \in Int /\ M * (n - 1) = B - M /\ n - 1 \in Int /\ (B - M) + M = B
  BY Constants, Rounds
<1>3. d \in DoubleRing /\ o \in Offsets /\ d2 \in DoubleRing
  BY <1>0, OffsetMod, dring_insertType DEF Ring
<1>4. /\ D <= lo /\ B - M <= D
      /\ d.s = OffsetsOf(qs) /\ d.l = OffsetsOf(ql)
      /\ Increasing(qs) /\ Increasing(ql)
      /\ d.windowSize = MAX_WINDOW_OFFSET
  BY <1>0 DEF Roomy, Ring
<1>5. /\ \A i \in 1 .. Len(qs) :
            qs[i] \in Nat /\ lo < qs[i] /\ qs[i] <= hi /\ qs[i] < B /\ qs[i] # e
      /\ \A i \in 1 .. Len(ql) :
            ql[i] \in Nat /\ lo < ql[i] /\ ql[i] <= hi /\ B <= ql[i] /\ ql[i] # e
  <2>1. /\ \A i \in 1 .. Len(qs) : qs[i] \in Nat /\ qs[i] \in Range(qs)
        /\ \A i \in 1 .. Len(ql) : ql[i] \in Nat /\ ql[i] \in Range(ql)
    BY OffsetsOfType DEF Range
  <2> QED BY <1>0, <2>1 DEF Ring
<1>6. CASE e < B
  <2>1. \A i \in 1 .. Len(qs) :
           M * (n - 1) <= qs[i] /\ qs[i] < M * (n - 1) + M /\ qs[i] # e
    <3> HIDE DEF M, B
    <3> QED BY SMTT(60), <1>2, <1>4, <1>5
  <2>2. M * (n - 1) <= e /\ e < M * (n - 1) + M
    BY <1>1, <1>2, <1>6
  <2>3. PICK t \in Seq(Nat) :
           /\ squeue_insert(OffsetsOf(qs), o) = OffsetsOf(t)
           /\ Increasing(t)
           /\ Range(t) = Range(qs) \union {e}
           /\ t # <<>>
           /\ t[Len(t)] = IF qs # <<>> /\ e < qs[Len(qs)] THEN qs[Len(qs)] ELSE e
    <3> DEFINE k == n - 1
    <3>1. k \in Int /\ M * k <= e /\ e < M * k + M
      BY <1>2, <2>2
    <3>2. \A i \in 1 .. Len(qs) : M * k <= qs[i] /\ qs[i] < M * k + M /\ qs[i] # e
      BY <2>1
    <3> HIDE DEF B, k
    <3>3. qs \in Seq(Nat) /\ Increasing(qs) /\ e \in Nat
      BY <1>4
    <3>4. \A i \in 1 .. Len(qs) :
             /\ MAX_SEGMENT_OFFSET * k <= qs[i]
             /\ qs[i] < MAX_SEGMENT_OFFSET * k + MAX_SEGMENT_OFFSET
             /\ qs[i] # e
      BY <3>2
    <3> QED BY <3>1, <3>3, <3>4, InsertKeepsOrder, Zenon
  <2>4. /\ d2.s = OffsetsOf(t)
        /\ d2.l = d.l
        /\ d2.windowSize = d.windowSize
        /\ d2.maxFirstRing = t[Len(t)] % M
    <3>1. InFirstRing(d, o)
      BY <1>1, <1>6
    <3>2. squeue_insert(d.s, o) = OffsetsOf(t)
      BY <1>4, <2>3
    <3>3. d2 = [d EXCEPT !.s = OffsetsOf(t), !.maxFirstRing = squeue_peek_tail(OffsetsOf(t))]
      BY <3>1, <3>2 DEF dring_insert
    <3>4. squeue_peek_tail(OffsetsOf(t)) = t[Len(t)] % M
      BY <2>3, TailOf
    <3> QED BY <1>3, <3>3, <3>4 DEF DoubleRing
  <2>5. \A i \in 1 .. Len(t) : t[i] \in Nat /\ lo < t[i] /\ t[i] <= hi /\ t[i] < B
    <3>1. \A i \in 1 .. Len(t) : t[i] \in {qs[j] : j \in 1 .. Len(qs)} \union {e}
      BY <2>3, RangeOfSeqIs
    <3> QED BY <1>5, <1>6, <3>1
  <2>6. Len(t) \in 1 .. Len(t)
    BY <2>3, TailOf
  <2>7. /\ t[Len(t)] \in Nat
        /\ B - M <= t[Len(t)] /\ t[Len(t)] < B
        /\ D <= t[Len(t)] /\ t[Len(t)] <= hi
    <3>1. lo < t[Len(t)] /\ t[Len(t)] \in Nat /\ t[Len(t)] <= hi /\ t[Len(t)] < B
      BY <2>5, <2>6
    <3> HIDE DEF B, M
    <3> QED BY SMTT(60), <1>2, <1>4, <3>1
  <2>8. Ring(d2, D, lo, hi, t, ql, n, t[Len(t)])
    <3> HIDE DEF d2
    <3> QED BY <1>3, <1>4, <1>5, <2>3, <2>4, <2>5, <2>7 DEF Ring
  <2>9. \A x : x \in S \union {e} <=> x \in Range(t) \union Range(ql)
    BY <1>0, <2>3
  <2> HIDE DEF d2
  <2>10. RingOf(d2, D, lo, hi, S \union {e})
    BY <2>3, <2>7, <2>8, <2>9 DEF RingOf
  <2> QED BY <2>10 DEF d2
<1>7. CASE B <= e
  <2>1. \A i \in 1 .. Len(ql) : M * n <= ql[i] /\ ql[i] < M * n + M /\ ql[i] # e
    <3>1. ASSUME NEW i \in 1 .. Len(ql) PROVE ql[i] < B + M
      <4>1. ql[i] \in Nat /\ ql[i] <= hi
        BY <1>5
      <4> HIDE DEF B, M
      <4> QED BY <1>1, <1>2, <4>1
    <3> QED BY <1>5, <3>1
  <2>2. M * n <= e /\ e < M * n + M
    BY <1>1, <1>7
  <2>3. PICK t \in Seq(Nat) :
           /\ squeue_insert(OffsetsOf(ql), o) = OffsetsOf(t)
           /\ Increasing(t)
           /\ Range(t) = Range(ql) \union {e}
    <3>1. n \in Int
      OBVIOUS
    <3> HIDE DEF B
    <3> QED BY <1>4, <2>1, <2>2, <3>1, InsertKeepsOrder
  <2>4. /\ d2.s = d.s
        /\ d2.l = OffsetsOf(t)
        /\ d2.windowSize = d.windowSize
        /\ d2.maxFirstRing = d.maxFirstRing
    <3>1. ~ InFirstRing(d, o)
      <4> HIDE DEF B, M
      <4> QED BY <1>1, <1>2, <1>7
    <3>2. squeue_insert(d.l, o) = OffsetsOf(t)
      BY <1>4, <2>3
    <3>3. d2 = [d EXCEPT !.l = OffsetsOf(t)]
      BY <3>1, <3>2 DEF dring_insert
    <3> QED BY <1>3, <3>3 DEF DoubleRing
  <2>5. \A i \in 1 .. Len(t) : lo < t[i] /\ t[i] <= hi /\ B <= t[i]
    <3>1. \A i \in 1 .. Len(t) : t[i] \in {ql[j] : j \in 1 .. Len(ql)} \union {e}
      BY <2>3, RangeOfSeqIs
    <3> QED BY <1>5, <1>7, <3>1
  <2>6. d.maxFirstRing # -1
    <3>1. ~ InFirstRing(d, o)
      <4> HIDE DEF B, M
      <4> QED BY <1>1, <1>2, <1>7
    <3> QED BY <3>1 DEF InFirstRing
  <2>7. Ring(d2, D, lo, hi, qs, t, n, m)
    <3> HIDE DEF d2
    <3> QED BY <1>0, <1>3, <1>4, <1>5, <2>3, <2>4, <2>5, <2>6 DEF Ring
  <2>8. \A x : x \in S \union {e} <=> x \in Range(qs) \union Range(t)
    BY <1>0, <2>3
  <2> HIDE DEF d2
  <2>9. RingOf(d2, D, lo, hi, S \union {e})
    BY <2>3, <2>7, <2>8 DEF RingOf
  <2> QED BY <2>9 DEF d2
<1>8. e < B \/ B <= e
  <2> HIDE DEF B
  <2> QED BY <1>2
<1> QED BY <1>6, <1>7, <1>8

-----------------------------------------------------------------------------

\* dring_pop returns the positions of q one after the other.
Pops(d, q) == PopOrder(d) = OffsetsOf(q) /\ dring_nitems(d) = Len(q)

\* A is the set of the elements of q.
Lists(q, A) == \A x : x \in A <=> \E i \in 1 .. Len(q) : x = q[i]

\* q is the one queue behind the other: the positions in the order of the stream.
OneBehindOther(d, lo, hi, qs, ql, q) ==
    /\ q \in Seq(Nat)
    /\ Len(q) = Len(qs) + Len(ql)
    /\ \A i \in 1 .. Len(qs) : q[i] = qs[i]
    /\ \A i \in 1 .. Len(ql) : q[Len(qs) + i] = ql[i]
    /\ Increasing(q)
    /\ Lists(q, Range(qs) \union Range(ql))
    /\ Pops(d, q)
    /\ \A i \in 1 .. Len(q) : lo < q[i] /\ q[i] <= hi

LEMMA RingOrder ==
    ASSUME NEW D \in Nat, NEW lo \in Nat, NEW hi \in Nat,
           NEW d, NEW qs \in Seq(Nat), NEW ql \in Seq(Nat), NEW n \in Nat, NEW m \in Nat,
           Ring(d, D, lo, hi, qs, ql, n, m)
    PROVE  OneBehindOther(d, lo, hi, qs, ql, qs \o ql)
<1> DEFINE q == qs \o ql
           B == MAX_SEGMENT_OFFSET * n
           p == Len(qs)
           l == Len(ql)
<1>1. /\ p \in Nat /\ l \in Nat /\ DOMAIN qs = 1 .. p /\ DOMAIN ql = 1 .. l
      /\ \A i \in 1 .. p : qs[i] \in Nat
      /\ \A i \in 1 .. l : ql[i] \in Nat
  BY OffsetsOfType
<1>2. /\ q \in Seq(Nat) /\ Len(q) = p + l
      /\ \A i \in 1 .. p + l : q[i] = IF i <= p THEN qs[i] ELSE ql[i - p]
  BY ConcatProperties
<1>3. /\ d.s = OffsetsOf(qs) /\ d.l = OffsetsOf(ql)
      /\ Increasing(qs) /\ Increasing(ql)
      /\ \A i \in 1 .. p : lo < qs[i] /\ qs[i] <= hi /\ qs[i] < B
      /\ \A i \in 1 .. l : lo < ql[i] /\ ql[i] <= hi /\ B <= ql[i]
  BY DEF Ring
<1>4. B \in Nat
  BY Rounds
<1> HIDE DEF q, B, p, l
<1>5. \A i \in 1 .. p : q[i] = qs[i] /\ i \in 1 .. p + l
  BY <1>1, <1>2
<1>6. \A i \in 1 .. l : q[p + i] = ql[i] /\ p + i \in 1 .. p + l
  <2>1. \A i \in 1 .. l : p + i \in 1 .. p + l /\ ~ (p + i <= p) /\ (p + i) - p = i
    BY <1>1
  <2> QED BY <1>2, <2>1
<1>7. \A j \in 1 .. p + l : j \in 1 .. p \/ (j - p \in 1 .. l /\ p + (j - p) = j)
  BY <1>1
<1>8. DOMAIN q = 1 .. p + l
  BY <1>2, LenProperties
<1>9. Increasing(q)
  <2>1. ASSUME NEW i \in 1 .. p + l, NEW j \in 1 .. p + l, i < j
        PROVE  q[i] < q[j]
    <3>1. CASE i \in 1 .. p /\ j \in 1 .. p
      <4>1. qs[i] < qs[j]
        BY <1>1, <1>3, <2>1, <3>1 DEF Increasing
      <4> QED BY <1>5, <3>1, <4>1
    <3>2. CASE i \in 1 .. p /\ j \notin 1 .. p
      <4>1. j - p \in 1 .. l /\ q[j] = ql[j - p] /\ q[i] = qs[i]
        BY <1>5, <1>6, <1>7, <3>2
      <4>2. qs[i] < B /\ B <= ql[j - p] /\ qs[i] \in Nat /\ ql[j - p] \in Nat
        BY <1>1, <1>3, <3>2, <4>1
      <4> QED BY SMTT(60), <1>4, <4>1, <4>2
    <3>3. CASE i \notin 1 .. p
      <4>1. i - p \in 1 .. l /\ j - p \in 1 .. l /\ i - p < j - p
            /\ q[i] = ql[i - p] /\ q[j] = ql[j - p]
        <5>1. i - p \in 1 .. l /\ q[i] = ql[i - p]
          BY <1>6, <1>7, <3>3
        <5>2. j \notin 1 .. p
          BY <1>1, <2>1, <3>3
        <5>3. j - p \in 1 .. l /\ q[j] = ql[j - p]
          BY <1>6, <1>7, <5>2
        <5> QED BY <1>1, <2>1, <5>1, <5>3
      <4> QED BY <1>1, <1>3, <4>1 DEF Increasing
    <3> QED BY <3>1, <3>2, <3>3
  <2> QED BY <1>8, <2>1 DEF Increasing
<1>10. Range(q) = Range(qs) \union Range(ql)
  <2>1. \A x : x \in Range(q) <=> \E i \in 1 .. p + l : x = q[i]
    BY <1>8 DEF Range
  <2>2. \A x : x \in Range(qs) <=> \E i \in 1 .. p : x = qs[i]
    BY <1>1 DEF Range
  <2>3. \A x : x \in Range(ql) <=> \E i \in 1 .. l : x = ql[i]
    BY <1>1 DEF Range
  <2>4. ASSUME NEW x \in Range(q) PROVE x \in Range(qs) \union Range(ql)
    <3>1. PICK i \in 1 .. p + l : x = q[i]
      BY <2>1
    <3> QED BY ZenonT(60), <1>5, <1>6, <1>7, <2>2, <2>3, <3>1
  <2>5. ASSUME NEW x \in Range(qs) \union Range(ql) PROVE x \in Range(q)
    BY SMTT(60), <1>5, <1>6, <2>1, <2>2, <2>3
  <2> QED BY <2>4, <2>5
<1>11. PopOrder(d) = OffsetsOf(q)
  <2> DEFINE s == OffsetsOf(qs) \o OffsetsOf(ql)
  <2>1. /\ OffsetsOf(qs) \in Seq(Offsets) /\ Len(OffsetsOf(qs)) = p
        /\ OffsetsOf(ql) \in Seq(Offsets) /\ Len(OffsetsOf(ql)) = l
        /\ \A i \in 1 .. p : OffsetsOf(qs)[i] = qs[i] % MAX_SEGMENT_OFFSET
        /\ \A i \in 1 .. l : OffsetsOf(ql)[i] = ql[i] % MAX_SEGMENT_OFFSET
    BY OffsetsOfType DEF p, l
  <2>2. /\ s \in Seq(Offsets) /\ Len(s) = p + l
        /\ \A i \in 1 .. p + l :
              s[i] = IF i <= p THEN OffsetsOf(qs)[i] ELSE OffsetsOf(ql)[i - p]
    BY ZenonT(60), <2>1, ConcatProperties
  <2> HIDE DEF s
  <2>3. ASSUME NEW i \in 1 .. p + l PROVE s[i] = q[i] % MAX_SEGMENT_OFFSET
    <3>1. CASE i <= p
      <4>1. i \in 1 .. p
        BY <1>1, <3>1
      <4> QED BY <1>5, <2>1, <2>2, <3>1, <4>1
    <3>2. CASE ~ (i <= p)
      <4> DEFINE j == i - p
      <4>1. j \in 1 .. l /\ p + j = i
        BY <1>1, <3>2
      <4>2. s[i] = OffsetsOf(ql)[j]
        BY <2>2, <3>2
      <4> HIDE DEF j
      <4>3. q[p + j] = ql[j]
        BY <1>6, <4>1
      <4>4. OffsetsOf(ql)[j] = ql[j] % MAX_SEGMENT_OFFSET
        BY <2>1, <4>1
      <4> QED BY <4>1, <4>2, <4>3, <4>4
    <3> QED BY <3>1, <3>2
  <2>4. s = OffsetsOf(q)
    BY <1>2, <2>2, <2>3, SameOffsetsOf
  <2>5. PopOrder(d) = s
    BY <1>3 DEF PopOrder, s
  <2> QED BY <2>4, <2>5
<1>12. dring_nitems(d) = Len(q)
  <2>1. Len(d.s) = p /\ Len(d.l) = l
    BY <1>3, OffsetsOfType DEF p, l
  <2> QED BY <1>2, <2>1 DEF dring_nitems
<1>13. ASSUME NEW i \in 1 .. Len(q) PROVE lo < q[i] /\ q[i] <= hi
  BY ZenonT(60), <1>2, <1>3, <1>5, <1>6, <1>7, <1>13
<1>14. /\ \A i \in 1 .. p : q[i] = qs[i]
       /\ \A i \in 1 .. l : q[p + i] = ql[i]
  BY <1>5, <1>6
<1>15. \A i \in 1 .. Len(q) : lo < q[i] /\ q[i] <= hi
  BY <1>13
<1> QED
  <2>1. Lists(q, Range(qs) \union Range(ql))
    BY <1>2, <1>8, <1>10 DEF Range, Lists
  <2>2. OneBehindOther(d, lo, hi, qs, ql, q)
    BY <1>2, <1>9, <2>1, <1>11, <1>12, <1>14, <1>15, Zenon DEF p, l, Pops, OneBehindOther
  <2> QED BY <2>2 DEF q

\* What is left of a queue after its first entries.
LEMMA OffsetsOfSuffix ==
    ASSUME NEW q \in Seq(Nat), NEW n \in 0 .. Len(q)
    PROVE  /\ SubSeq(q, n + 1, Len(q)) \in Seq(Nat)
           /\ SubSeq(OffsetsOf(q), n + 1, Len(q)) = OffsetsOf(SubSeq(q, n + 1, Len(q)))
           /\ Len(SubSeq(q, n + 1, Len(q))) = Len(q) - n
           /\ \A i \in 1 .. (Len(q) - n) : SubSeq(q, n + 1, Len(q))[i] = q[n + i]
           /\ Increasing(q) => Increasing(SubSeq(q, n + 1, Len(q)))
           /\ \A x : x \in Range(SubSeq(q, n + 1, Len(q)))
                       <=> \E i \in (n + 1) .. Len(q) : x = q[i]
<1> DEFINE L == Len(q)
           t == SubSeq(q, n + 1, Len(q))
           s == SubSeq(OffsetsOf(q), n + 1, Len(q))
<1>1. /\ L \in Nat /\ n \in Nat /\ n <= L /\ DOMAIN q = 1 .. L
      /\ OffsetsOf(q) \in Seq(Offsets) /\ Len(OffsetsOf(q)) = L
      /\ \A i \in 1 .. L : OffsetsOf(q)[i] = q[i] % MAX_SEGMENT_OFFSET
  BY OffsetsOfType
<1>2. /\ t \in Seq(Nat) /\ Len(t) = L - n
      /\ \A i \in 1 .. (L - n) : t[i] = q[n + i]
  <2> DEFINE N == Nat
  <2>1. q \in Seq(N)
    OBVIOUS
  <2> HIDE DEF N
  <2>2. /\ t \in Seq(N) /\ Len(t) = L - n
        /\ \A i \in 1 .. (L - n) : t[i] = q[n + i]
    BY <2>1, SuffixProperties
  <2> QED BY <2>2 DEF N
<1>3. /\ s \in Seq(Offsets) /\ Len(s) = L - n
      /\ \A i \in 1 .. (L - n) : s[i] = OffsetsOf(q)[n + i]
  <2> DEFINE r == OffsetsOf(q)
  <2>1. r \in Seq(Offsets) /\ Len(r) = L /\ n \in 0 .. Len(r)
    BY <1>1
  <2>2. s = SubSeq(r, n + 1, Len(r))
    BY <2>1
  <2> HIDE DEF r, s
  <2>3. /\ s \in Seq(Offsets) /\ Len(s) = Len(r) - n
        /\ \A i \in 1 .. (Len(r) - n) : s[i] = r[n + i]
    BY <2>1, <2>2, SuffixProperties
  <2> QED BY <2>1, <2>3 DEF r
<1>4. \A i \in 1 .. (L - n) : n + i \in 1 .. L /\ n + i \in (n + 1) .. L
  <2> HIDE DEF L
  <2> QED BY <1>1
<1>5. DOMAIN t = 1 .. (L - n)
  BY <1>2, LenProperties
<1> HIDE DEF s, t, L
<1>6. s = OffsetsOf(t)
  <2>1. \A i \in 1 .. Len(t) : s[i] = t[i] % MAX_SEGMENT_OFFSET
    BY <1>1, <1>2, <1>3, <1>4
  <2> QED BY <1>2, <1>3, <2>1, SameOffsetsOf
<1>7. Increasing(q) => Increasing(t)
  <2> SUFFICES ASSUME Increasing(q), NEW i \in 1 .. (L - n), NEW j \in 1 .. (L - n), i < j
               PROVE  t[i] < t[j]
    BY <1>5 DEF Increasing
  <2>1. n + i \in 1 .. L /\ n + j \in 1 .. L /\ n + i < n + j
    BY <1>1, <1>4
  <2> QED BY <1>1, <1>2, <2>1 DEF Increasing
<1>8. ASSUME NEW x
      PROVE  x \in Range(t) <=> \E i \in (n + 1) .. L : x = q[i]
  <2>1. x \in Range(t) <=> \E i \in 1 .. (L - n) : x = q[n + i]
    BY <1>2, <1>5 DEF Range
  <2>2. \A i \in (n + 1) .. L : i - n \in 1 .. (L - n) /\ n + (i - n) = i
    BY <1>1
  <2> QED BY <1>4, <2>1, <2>2
<1> QED BY <1>2, <1>6, <1>7, <1>8 DEF s, t, L

LEMMA EmptyIsOffsetsOf ==
    /\ <<>> \in Seq(Nat) /\ Len(<<>>) = 0 /\ OffsetsOf(<<>>) = <<>>
    /\ Increasing(<<>>) /\ Range(<<>>) = {}
<1>1. <<>> \in Seq(Nat) /\ Len(<<>>) = 0
  BY EmptySeq
<1>2. DOMAIN <<>> = {}
  <2>1. DOMAIN <<>> = 1 .. 0
    BY <1>1, LenProperties
  <2> QED BY <2>1
<1>3. OffsetsOf(<<>>) = <<>>
  BY <1>1, OffsetsOfType
<1> QED BY <1>1, <1>2, <1>3 DEF Increasing, Range

\* The double ring after its first entries are taken out.
LEMMA RingPopped ==
    ASSUME NEW D \in Nat, NEW lo \in Nat, NEW hi \in Nat, Roomy(D, lo, hi),
           NEW d, NEW qs \in Seq(Nat), NEW ql \in Seq(Nat), NEW n \in Nat, NEW m \in Nat,
           Ring(d, D, lo, hi, qs, ql, n, m),
           NEW k \in 1 .. Len(qs \o ql),
           NEW lo2 \in Nat, NEW hi2 \in Nat, hi <= hi2,
           \A i \in (k + 1) .. Len(qs \o ql) : lo2 < (qs \o ql)[i],
           NEW T, \A x : x \in T <=> \E i \in (k + 1) .. Len(qs \o ql) : x = (qs \o ql)[i]
    PROVE  RingOf(PopMany(d, k), (qs \o ql)[k], lo2, hi2, T)
<1> DEFINE q == qs \o ql
           M == MAX_SEGMENT_OFFSET
           B == MAX_SEGMENT_OFFSET * n
           p == Len(qs)
           l == Len(ql)
           d2 == PopMany(d, k)
<1>1. /\ p \in Nat /\ l \in Nat
      /\ \A i \in 1 .. p : qs[i] \in Nat
      /\ \A i \in 1 .. l : ql[i] \in Nat
  BY OffsetsOfType
<1>2. /\ q \in Seq(Nat) /\ Len(q) = p + l
      /\ \A i \in 1 .. p : q[i] = qs[i]
      /\ \A i \in 1 .. l : q[p + i] = ql[i]
      /\ \A i \in 1 .. Len(q) : lo < q[i] /\ q[i] <= hi
  <2>1. OneBehindOther(d, lo, hi, qs, ql, q)
    BY RingOrder
  <2> HIDE DEF q
  <2> QED BY <2>1, Zenon DEF OneBehindOther, p, l
<1>3. /\ d \in DoubleRing
      /\ d.s = OffsetsOf(qs) /\ d.l = OffsetsOf(ql)
      /\ Increasing(qs) /\ Increasing(ql)
      /\ \A i \in 1 .. p : lo < qs[i] /\ qs[i] <= hi /\ qs[i] < B
      /\ \A i \in 1 .. l : lo < ql[i] /\ ql[i] <= hi /\ B <= ql[i]
      /\ B - M <= D
      /\ d.windowSize = MAX_WINDOW_OFFSET
  BY DEF Ring
<1>4. B \in Nat /\ M \in Nat /\ M * (n + 1) = B + M /\ n + 1 \in Nat
  BY Rounds, Constants
<1>5. Len(OffsetsOf(qs)) = p /\ Len(OffsetsOf(ql)) = l
  BY OffsetsOfType
<1>6. /\ d.maxFirstRing = m % M /\ B - M <= m /\ m < B /\ D <= m /\ m <= hi
      /\ qs # <<>> => m = qs[Len(qs)]
  <2>1. Len(q) # 0
    BY <1>1, <1>2
  <2>2. ~ (qs = <<>> /\ ql = <<>>)
    <3>1. qs = <<>> => p = 0
      BY EmptySeq
    <3>2. ql = <<>> => l = 0
      BY EmptySeq
    <3> HIDE DEF q, p, l
    <3> QED BY <1>2, <2>1, <3>1, <3>2
  <2> QED BY <2>2 DEF Ring
<1>7. D <= lo /\ hi <= lo + MAX_WINDOW_OFFSET /\ lo + 2 * MAX_WINDOW_OFFSET < D + M
  BY DEF Roomy
<1>8. MAX_WINDOW_OFFSET \in Nat /\ k \in Nat
  BY Constants
<1>9. lo < q[k] /\ q[k] <= hi /\ q[k] \in Nat
  <2>1. q[k] \in Nat
    BY <1>2, ElementOfSeq
  <2> QED BY <1>2, <2>1
<1>10. d2 \in DoubleRing
  BY <1>3, <1>8, PopManyType
<1>11. k \in 1 .. p + l
  BY <1>2
<1>12. CASE k <= p
  <2> DEFINE t == SubSeq(qs, k + 1, p)
  <2>1. /\ t \in Seq(Nat)
        /\ SubSeq(OffsetsOf(qs), k + 1, p) = OffsetsOf(t)
        /\ Len(t) = p - k
        /\ \A i \in 1 .. (p - k) : t[i] = qs[k + i]
        /\ Increasing(t)
        /\ \A x : x \in Range(t) <=> \E i \in (k + 1) .. p : x = qs[i]
    <3>1. k \in 0 .. Len(qs)
      <4> HIDE DEF p
      <4> QED BY <1>1, <1>8, <1>12 DEF p
    <3> QED BY <1>3, <3>1, OffsetsOfSuffix
  <2>2. /\ d2.s = OffsetsOf(t) /\ d2.l = OffsetsOf(ql)
        /\ d2.windowSize = d.windowSize /\ d2.maxFirstRing = d.maxFirstRing
    <3>1. d2 = [d EXCEPT !.s = SubSeq(d.s, k + 1, Len(d.s))]
      BY <1>3, <1>5, <1>12 DEF PopMany
    <3>2. SubSeq(d.s, k + 1, Len(d.s)) = OffsetsOf(t)
      BY <1>3, <1>5, <2>1
    <3> HIDE DEF d2
    <3> QED BY <1>3, <3>1, <3>2 DEF DoubleRing
  <2>3. q[k] = qs[k] /\ k \in 1 .. p /\ p \in 1 .. p /\ qs # <<>>
    <3>1. k \in 1 .. p /\ p \in 1 .. p
      <4> HIDE DEF p, l
      <4> QED BY <1>1, <1>11, <1>12
    <3>2. qs # <<>>
      <4>1. qs = <<>> => p = 0
        BY EmptySeq
      <4> HIDE DEF p
      <4> QED BY <3>1, <4>1
    <3> QED BY <1>2, <3>1, <3>2
  <2>4. q[k] <= m
    <3>1. m = qs[p]
      BY <1>6, <2>3
    <3>2. k < p => qs[k] < qs[p]
      <4>1. DOMAIN qs = 1 .. p
        BY OffsetsOfType
      <4> QED BY <1>3, <2>3, <4>1 DEF Increasing
    <3>3. k = p \/ k < p
      <4> HIDE DEF p
      <4> QED BY <1>1, <1>8, <1>12
    <3>4. qs[k] \in Nat /\ qs[p] \in Nat
      BY <1>1, <2>3
    <3> HIDE DEF q, p
    <3> QED BY SMTT(60), <2>3, <3>1, <3>2, <3>3, <3>4
  <2> HIDE DEF t
  <2>5. \A i \in 1 .. (p - k) : k + i \in 1 .. p /\ k + i \in (k + 1) .. Len(q)
    <3> HIDE DEF p, l, q
    <3> QED BY <1>1, <1>2, <1>8, <1>12
  <2>6. \A i \in 1 .. Len(t) : lo2 < t[i] /\ t[i] <= hi2 /\ t[i] < B
    <3> SUFFICES ASSUME NEW i \in 1 .. (p - k)
                 PROVE  lo2 < qs[k + i] /\ qs[k + i] <= hi2 /\ qs[k + i] < B
      BY <2>1
    <3>1. /\ k + i \in 1 .. p /\ q[k + i] = qs[k + i] /\ lo2 < q[k + i]
          /\ qs[k + i] <= hi /\ qs[k + i] < B /\ qs[k + i] \in Nat
      BY <1>1, <1>2, <1>3, <2>5
    <3> HIDE DEF q, p, B
    <3> QED BY SMTT(60), <3>1
  <2>7. \A i \in 1 .. l : p + i \in (k + 1) .. Len(q)
    <3> HIDE DEF p, l, q
    <3> QED BY <1>1, <1>2, <1>8, <1>12
  <2>8. \A i \in 1 .. l : lo2 < ql[i] /\ ql[i] <= hi2 /\ B <= ql[i]
    <3> SUFFICES ASSUME NEW i \in 1 .. l
                 PROVE  lo2 < ql[i] /\ ql[i] <= hi2 /\ B <= ql[i]
      OBVIOUS
    <3>1. q[p + i] = ql[i] /\ lo2 < q[p + i] /\ ql[i] <= hi /\ B <= ql[i] /\ ql[i] \in Nat
      BY <1>1, <1>2, <1>3, <2>7
    <3> HIDE DEF q, p, B
    <3> QED BY SMTT(60), <3>1
  <2>9. t # <<>> => m = t[Len(t)]
    <3> SUFFICES ASSUME t # <<>> PROVE m = t[Len(t)]
      OBVIOUS
    <3>1. Len(t) \in 1 .. Len(t)
      BY <2>1, TailOf
    <3>2. p - k \in 1 .. (p - k) /\ k + (p - k) = p
      <4> HIDE DEF p
      <4> QED BY <1>1, <1>8, <2>1, <3>1
    <3>3. t[p - k] = qs[p]
      <4> HIDE DEF p
      <4> QED BY <2>1, <3>2
    <3> QED BY <1>6, <2>1, <2>3, <3>3
  <2>10. B - M <= q[k]
    <3> HIDE DEF B, M, q
    <3> QED BY <1>3, <1>4, <1>7, <1>9
  <2>11. m <= hi2
    BY <1>6
  <2>12. Ring(d2, q[k], lo2, hi2, t, ql, n, m)
    <3> HIDE DEF d2, q, p
    <3> QED
      BY <1>3, <1>6, <1>10, <2>1, <2>2, <2>4, <2>6, <2>8, <2>9, <2>10, <2>11
      DEF Ring
  <2>13. ASSUME NEW x
         PROVE  x \in Range(t) \union Range(ql) <=> \E i \in (k + 1) .. Len(q) : x = q[i]
    <3>1. x \in Range(ql) <=> \E i \in 1 .. l : x = ql[i]
      <4>1. DOMAIN ql = 1 .. l
        BY OffsetsOfType
      <4> QED BY <4>1 DEF Range
    <3>2. x \in Range(t) <=> \E i \in (k + 1) .. p : x = qs[i]
      BY <2>1
    <3>3. /\ \A i \in (k + 1) .. p : i \in 1 .. p /\ i \in (k + 1) .. Len(q)
          /\ \A i \in (k + 1) .. Len(q) :
                i \in (k + 1) .. p \/ (i - p \in 1 .. l /\ p + (i - p) = i)
      <4> HIDE DEF p, l, q
      <4> QED BY SMTT(60), <1>1, <1>2, <1>8, <1>12
    <3>4. \A i \in (k + 1) .. p : q[i] = qs[i]
      BY <1>2, <3>3
    <3>5. \A i \in 1 .. l : q[p + i] = ql[i]
      BY <1>2
    <3> HIDE DEF q, p, l, t
    <3>6. ASSUME x \in Range(t) \union Range(ql)
          PROVE  \E i \in (k + 1) .. Len(q) : x = q[i]
      BY <2>7, <3>1, <3>2, <3>3, <3>4, <3>5, <3>6
    <3>7. ASSUME NEW i \in (k + 1) .. Len(q), x = q[i]
          PROVE  x \in Range(t) \union Range(ql)
      BY ZenonT(60), <3>1, <3>2, <3>3, <3>4, <3>5, <3>7
    <3> QED BY <3>6, <3>7
  <2>14. \A x : x \in T <=> x \in Range(t) \union Range(ql)
    BY <2>13
  <2> HIDE DEF d2, q
  <2>15. RingOf(d2, q[k], lo2, hi2, T)
    BY <2>1, <2>12, <2>14 DEF RingOf
  <2> QED BY <2>15 DEF d2, q
<1>13. CASE ~ (k <= p)
  <2> DEFINE j == k - p
             t == SubSeq(ql, j + 1, l)
  <2>1. j \in Nat /\ j \in 1 .. l /\ l \in 1 .. l /\ p + j = k
    <3> HIDE DEF p, l
    <3> QED BY <1>1, <1>11, <1>13
  <2>2. /\ t \in Seq(Nat)
        /\ SubSeq(OffsetsOf(ql), j + 1, l) = OffsetsOf(t)
        /\ Len(t) = l - j
        /\ \A i \in 1 .. (l - j) : t[i] = ql[j + i]
        /\ Increasing(t)
        /\ \A x : x \in Range(t) <=> \E i \in (j + 1) .. l : x = ql[i]
    <3>1. j \in 0 .. Len(ql)
      BY <2>1
    <3> HIDE DEF j
    <3> QED BY <1>3, <3>1, OffsetsOfSuffix
  <2>3. ql # <<>>
    <3>1. ql = <<>> => l = 0
      BY EmptySeq
    <3> HIDE DEF l
    <3> QED BY <2>1, <3>1
  <2>4. /\ d2.s = OffsetsOf(t) /\ d2.l = <<>>
        /\ d2.windowSize = d.windowSize /\ d2.maxFirstRing = ql[l] % M
    <3>1. d2 = [d EXCEPT !.s = SubSeq(d.l, k - Len(d.s) + 1, Len(d.l)),
                         !.l = <<>>,
                         !.maxFirstRing = squeue_peek_tail(d.l)]
      BY <1>3, <1>5, <1>13 DEF PopMany
    <3>2. SubSeq(d.l, k - Len(d.s) + 1, Len(d.l)) = OffsetsOf(t)
      BY <1>3, <1>5, <2>2
    <3>3. squeue_peek_tail(d.l) = ql[l] % M
      BY <1>3, <2>3, TailOf
    <3> HIDE DEF d2
    <3> QED BY <1>3, <3>1, <3>2, <3>3 DEF DoubleRing
  <2> HIDE DEF t
  <2>5. q[k] = ql[j]
    <3>1. q[p + j] = ql[j]
      <4> HIDE DEF j
      <4> QED BY <1>2, <2>1
    <3> QED BY <2>1, <3>1
  <2>6. q[k] <= ql[l] /\ ql[l] \in Nat /\ ql[l] <= hi /\ B <= ql[l] /\ B <= q[k]
    <3>1. j < l => ql[j] < ql[l]
      <4>1. DOMAIN ql = 1 .. l
        BY OffsetsOfType
      <4> QED BY <1>3, <2>1, <4>1 DEF Increasing
    <3>2. j = l \/ j < l
      <4> HIDE DEF j, l
      <4> QED BY <1>1, <2>1
    <3>3. ql[j] \in Nat /\ ql[l] \in Nat /\ B <= ql[j] /\ ql[l] <= hi /\ B <= ql[l]
      BY <1>1, <1>3, <2>1
    <3> HIDE DEF q, l, j, B
    <3> QED BY SMTT(60), <2>5, <3>1, <3>2, <3>3
  <2>7. \A i \in 1 .. (l - j) : j + i \in 1 .. l /\ p + (j + i) \in (k + 1) .. Len(q)
    <3>1. p + j = k /\ j \in Nat
      BY <2>1
    <3> HIDE DEF j, p, l, q
    <3> QED BY <1>1, <1>2, <1>8, <3>1
  <2>8. hi < B + M
    <3> HIDE DEF B, M
    <3> QED BY <1>4, <1>6, <1>7, <1>8
  <2>9. \A i \in 1 .. Len(t) : lo2 < t[i] /\ t[i] <= hi2 /\ t[i] < B + M
    <3> SUFFICES ASSUME NEW i \in 1 .. (l - j)
                 PROVE  lo2 < ql[j + i] /\ ql[j + i] <= hi2 /\ ql[j + i] < B + M
      BY <2>2
    <3>1. /\ q[p + (j + i)] = ql[j + i] /\ lo2 < q[p + (j + i)]
          /\ ql[j + i] <= hi /\ ql[j + i] \in Nat
      <4> HIDE DEF j
      <4> QED BY <1>1, <1>2, <1>3, <2>7
    <3> HIDE DEF q, p, B, M, j
    <3> QED BY SMTT(60), <1>4, <2>8, <3>1
  <2>10. t # <<>> => ql[l] = t[Len(t)]
    <3> SUFFICES ASSUME t # <<>> PROVE ql[l] = t[Len(t)]
      OBVIOUS
    <3>1. Len(t) \in 1 .. Len(t)
      BY <2>2, TailOf
    <3>2. l - j \in 1 .. (l - j) /\ j + (l - j) = l
      <4> HIDE DEF l, j
      <4> QED BY <1>1, <2>1, <2>2, <3>1
    <3>3. t[l - j] = ql[l]
      <4> HIDE DEF l, j
      <4> QED BY <2>2, <3>2
    <3> QED BY <2>2, <3>3
  <2>11. /\ M * (n + 1) - M = B
         /\ ql[l] < M * (n + 1)
         /\ ql[l] <= hi2
    <3> DEFINE P == M * (n + 1)
               z == ql[l]
    <3>1. P = B + M
      BY <1>4
    <3>3. z \in Nat /\ z <= hi /\ hi < B + M
      BY <2>6, <2>8
    <3>2. P - M = B /\ ql[l] < P /\ ql[l] <= hi2
      <4>1. B \in Nat /\ M \in Nat
        BY <1>4
      <4>2. hi <= hi2 /\ hi \in Nat /\ hi2 \in Nat
        OBVIOUS
      <4> HIDE DEF B, M, P, z
      <4>3. P - M = B /\ z < P /\ z <= hi2
        BY <3>1, <3>3, <4>1, <4>2
      <4> QED BY <4>3 DEF z
    <3> QED BY <3>2
  <2>12. Ring(d2, q[k], lo2, hi2, t, <<>>, n + 1, ql[l])
    <3>1. /\ \A i \in 1 .. Len(t) : lo2 < t[i] /\ t[i] <= hi2 /\ t[i] < M * (n + 1)
          /\ M * (n + 1) - M <= q[k]
          /\ M * (n + 1) - M <= ql[l]
      BY <1>4, <2>6, <2>9, <2>11
    <3>2. \A i \in 1 .. Len(<<>>) :
             lo2 < <<>>[i] /\ <<>>[i] <= hi2 /\ M * (n + 1) <= <<>>[i]
      BY EmptyIsOffsetsOf
    <3> HIDE DEF d2, q, l
    <3> QED
      BY <1>3, <1>10, <2>2, <2>4, <2>6, <2>10, <2>11, <3>1, <3>2, EmptyIsOffsetsOf
      DEF Ring
  <2>13. ASSUME NEW x
         PROVE  x \in Range(t) \union Range(<<>>) <=> \E i \in (k + 1) .. Len(q) : x = q[i]
    <3>1. x \in Range(t) <=> \E i \in (j + 1) .. l : x = ql[i]
      BY <2>2
    <3>2. Range(<<>>) = {}
      BY EmptyIsOffsetsOf
    <3>3. /\ \A i \in (j + 1) .. l : i \in 1 .. l /\ p + i \in (k + 1) .. Len(q)
          /\ \A i \in (k + 1) .. Len(q) : i - p \in (j + 1) .. l /\ i - p \in 1 .. l
                                          /\ p + (i - p) = i
      <4>1. p + j = k /\ j \in Nat
        BY <2>1
      <4> HIDE DEF p, l, q, j
      <4> QED BY <1>1, <1>2, <1>8, <4>1
    <3>4. \A i \in 1 .. l : q[p + i] = ql[i]
      BY <1>2
    <3> HIDE DEF q, p, l, t, j
    <3>5. ASSUME x \in Range(t)
          PROVE  \E i \in (k + 1) .. Len(q) : x = q[i]
      BY <3>1, <3>3, <3>4, <3>5
    <3>6. ASSUME NEW i \in (k + 1) .. Len(q), x = q[i]
          PROVE  x \in Range(t)
      BY SMTT(60), <3>1, <3>3, <3>4, <3>6
    <3> QED BY <3>2, <3>5, <3>6
  <2>14. \A x : x \in T <=> x \in Range(t) \union Range(<<>>)
    BY <2>13
  <2> HIDE DEF d2, q
  <2>15. RingOf(d2, q[k], lo2, hi2, T)
    BY <1>4, <2>2, <2>6, <2>12, <2>14, EmptyIsOffsetsOf DEF RingOf
  <2> QED BY <2>15 DEF d2, q
<1> QED BY <1>12, <1>13

-----------------------------------------------------------------------------

\* q is the positions of the ring in the order in which dring_pop returns them;
\* the ring holds the rest after the first of them are taken out.
RingOrdered(d, lo, hi, S, q) ==
    /\ q \in Seq(Nat)
    /\ Increasing(q)
    /\ \A x : x \in S <=> \E i \in 1 .. Len(q) : x = q[i]
    /\ Pops(d, q)
    /\ \A i \in 1 .. Len(q) : lo < q[i] /\ q[i] <= hi
    /\ \A k \in 1 .. Len(q), lo2, hi2 \in Nat :
          /\ hi <= hi2
          /\ \A i \in (k + 1) .. Len(q) : lo2 < q[i]
          => RingOf(PopMany(d, k), q[k], lo2, hi2,
                    {x \in Nat : \E i \in (k + 1) .. Len(q) : x = q[i]})

LEMMA RingOfOrder ==
    ASSUME NEW D \in Nat, NEW lo \in Nat, NEW hi \in Nat, Roomy(D, lo, hi),
           NEW d, NEW S, RingOf(d, D, lo, hi, S)
    PROVE  \E q : RingOrdered(d, lo, hi, S, q)
<1>1. PICK qs \in Seq(Nat), ql \in Seq(Nat), n \in Nat, m \in Nat :
        /\ Ring(d, D, lo, hi, qs, ql, n, m)
        /\ \A x : x \in S <=> x \in Range(qs) \union Range(ql)
  BY DEF RingOf
<1> DEFINE q == qs \o ql
<1>2. OneBehindOther(d, lo, hi, qs, ql, q)
  BY <1>1, RingOrder
<1>3. q \in Seq(Nat) /\ Increasing(q) /\ Pops(d, q)
  <2> HIDE DEF q
  <2> QED BY <1>2 DEF OneBehindOther
<1>4. \A i \in 1 .. Len(q) : lo < q[i] /\ q[i] <= hi
  <2> HIDE DEF q
  <2> QED BY <1>2 DEF OneBehindOther
<1>5. \A x : x \in S <=> \E i \in 1 .. Len(q) : x = q[i]
  <2> HIDE DEF q
  <2>1. Lists(q, Range(qs) \union Range(ql))
    BY <1>2 DEF OneBehindOther
  <2> QED BY <1>1, <2>1 DEF Lists
<1>6. ASSUME NEW k \in 1 .. Len(q), NEW lo2 \in Nat, NEW hi2 \in Nat, hi <= hi2,
             \A i \in (k + 1) .. Len(q) : lo2 < q[i]
      PROVE  RingOf(PopMany(d, k), q[k], lo2, hi2,
                    {x \in Nat : \E i \in (k + 1) .. Len(q) : x = q[i]})
  <2> DEFINE T == {x \in Nat : \E i \in (k + 1) .. Len(q) : x = q[i]}
             d2 == PopMany(d, k)
  <2>1. \A i \in (k + 1) .. Len(q) : q[i] \in Nat
    <3>1. \A i \in 1 .. Len(q) : q[i] \in Nat
      BY <1>3, OffsetsOfType
    <3>2. Len(q) \in Nat
      BY <1>3, OffsetsOfType
    <3> HIDE DEF q
    <3> QED BY <3>1, <3>2
  <2>2. \A x : x \in T <=> \E i \in (k + 1) .. Len(q) : x = q[i]
    <3> HIDE DEF q
    <3> QED BY <2>1
  <2> HIDE DEF T, d2
  <2>3. RingOf(d2, q[k], lo2, hi2, T)
    BY <1>1, <1>6, <2>2, RingPopped DEF d2
  <2> QED BY <2>3 DEF T, d2
<1> HIDE DEF q
<1>7. \A k \in 1 .. Len(q), lo2, hi2 \in Nat :
          /\ hi <= hi2
          /\ \A i \in (k + 1) .. Len(q) : lo2 < q[i]
          => RingOf(PopMany(d, k), q[k], lo2, hi2,
                    {x \in Nat : \E i \in (k + 1) .. Len(q) : x = q[i]})
  BY <1>6
<1> QED BY <1>3, <1>4, <1>5, <1>7 DEF RingOrdered

\* The bounds of the positions may be moved.
LEMMA RingOfBounds ==
    ASSUME NEW D \in Nat, NEW lo \in Nat, NEW hi \in Nat,
           NEW d, NEW S, RingOf(d, D, lo, hi, S),
           NEW lo2 \in Nat, NEW hi2 \in Nat, hi <= hi2, \A x \in S : lo2 < x
    PROVE  RingOf(d, D, lo2, hi2, S)
<1>1. PICK qs \in Seq(Nat), ql \in Seq(Nat), n \in Nat, m \in Nat :
        /\ Ring(d, D, lo, hi, qs, ql, n, m)
        /\ \A x : x \in S <=> x \in Range(qs) \union Range(ql)
  BY DEF RingOf
<1>2. /\ \A i \in 1 .. Len(qs) : qs[i] \in Nat /\ lo2 < qs[i]
      /\ \A i \in 1 .. Len(ql) : ql[i] \in Nat /\ lo2 < ql[i]
  <2>1. /\ \A i \in 1 .. Len(qs) : qs[i] \in Nat /\ qs[i] \in Range(qs)
        /\ \A i \in 1 .. Len(ql) : ql[i] \in Nat /\ ql[i] \in Range(ql)
    BY OffsetsOfType DEF Range
  <2> QED BY <1>1, <2>1
<1>3. Ring(d, D, lo2, hi2, qs, ql, n, m)
  <2> DEFINE B == MAX_SEGMENT_OFFSET * n
  <2>1. B \in Nat
    BY Rounds
  <2>2. /\ \A i \in 1 .. Len(qs) : lo < qs[i] /\ qs[i] <= hi /\ qs[i] < B
        /\ \A i \in 1 .. Len(ql) : lo < ql[i] /\ ql[i] <= hi /\ B <= ql[i]
    <3>1. Ring(d, D, lo, hi, qs, ql, n, m)
      BY <1>1
    <3>2. \A i \in 1 .. Len(qs) : lo < qs[i] /\ qs[i] <= hi /\ qs[i] < B
      BY <3>1 DEF Ring
    <3>3. \A i \in 1 .. Len(ql) : lo < ql[i] /\ ql[i] <= hi /\ B <= ql[i]
      BY <3>1 DEF Ring
    <3> QED BY <3>2, <3>3
  <2> HIDE DEF B
  <2>3. \A x \in Nat : x <= hi => x <= hi2
    OBVIOUS
  <2>4. /\ \A i \in 1 .. Len(qs) : lo2 < qs[i] /\ qs[i] <= hi2 /\ qs[i] < B
        /\ \A i \in 1 .. Len(ql) : lo2 < ql[i] /\ ql[i] <= hi2 /\ B <= ql[i]
    BY <1>2, <2>2, <2>3, Zenon
  <2>5. m <= hi => m <= hi2
    OBVIOUS
  <2> QED BY <1>1, <2>4, <2>5 DEF Ring, B
<1> QED BY <1>1, <1>3 DEF RingOf

\* A new double ring holds nothing.
LEMMA EmptyRing == RingOf(dring_new(MAX_WINDOW_OFFSET), 0, 0, 0, {})
<1> DEFINE d == dring_new(MAX_WINDOW_OFFSET)
<1>1. PICK e \in Seq(Nat) : e = <<>>
  BY EmptyIsOffsetsOf
<1>2. /\ e = <<>> /\ Len(e) = 0 /\ OffsetsOf(e) = <<>> /\ Increasing(e) /\ Range(e) = {}
  BY <1>1, EmptyIsOffsetsOf
<1>3. /\ d.windowSize = MAX_WINDOW_OFFSET /\ d.s = <<>> /\ d.l = <<>> /\ d.maxFirstRing = -1
  BY DEF dring_new
<1>4. d \in DoubleRing
  BY Constants DEF dring_new, DoubleRing
<1>5. MAX_SEGMENT_OFFSET * 1 - MAX_SEGMENT_OFFSET <= 0
  BY Constants
<1> HIDE DEF d
<1>6. Ring(d, 0, 0, 0, e, e, 1, 0)
  <2>1. \A i \in 1 .. Len(e) : FALSE
    BY <1>2
  <2> QED BY <1>2, <1>3, <1>4, <1>5, <2>1 DEF Ring
<1>7. \A x : x \in {} <=> x \in Range(e) \union Range(e)
  BY <1>2
<1>8. 0 \in Nat /\ 1 \in Nat
  OBVIOUS
<1> QED BY <1>6, <1>7, <1>8 DEF RingOf, d

=============================================================================
