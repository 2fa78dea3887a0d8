----------------------------- MODULE LinkProofs -----------------------------
(***************************************************************************)
(* Theorems about Link, for every queue length, number of ids, size of     *)
(* datagrams and number of faults.                                         *)
(*                                                                         *)
(* The type of the receiver rests on the frames: whatever is in the queue  *)
(* or on the wire is a Frame, and a frame that goes on with a datagram has *)
(* the ordering the receiver expects, which an ordering of a Frame bounds. *)
(* The buffer grows by one frame with every step of ordering, so that it   *)
(* has a length of at most MaxFrames.                                      *)
(*                                                                         *)
(* That whole datagrams are handed over, and in order, is shown by what is *)
(* on its way: one line of frames, from the head of the wire to the next   *)
(* datagram, in which neighbouring datagrams have different ids.           *)
(***************************************************************************)
EXTENDS MCLink, FiniteSetTheorems, SequenceTheorems, TLAPS

\* A frame, or what is left of one.
Signal == Frame \union {CORRUPT}

LEMMA FrameIdLimit == FRAME_ID_LIMIT \in Nat /\ FRAME_ID_LIMIT >= 1
BY LinkAssumption DEF FRAME_ID_LIMIT

\* The id fits the bits of the header that are left for it.
LEMMA FrameIdType ==
    ASSUME NEW counter \in Nat
    PROVE  FrameId(counter) \in 0 .. (FRAME_ID_LIMIT - 1)
BY FrameIdLimit DEF FrameId

\* link_transmit makes frames.
LEMMA FramesType ==
    ASSUME TypeOK, NEW size \in 1 .. MaxFrames
    PROVE  Frames(size) \in Seq(Frame)
<1>1. size \in Nat /\ MaxFrames \in Nat
  BY LinkAssumption
<1>2. FrameId(sendId) \in 0 .. (FRAME_ID_LIMIT - 1)
  <2>1. sendId \in Nat
    BY LinkAssumption DEF TypeOK
  <2> QED BY <2>1, FrameIdType
<1>3. ASSUME NEW i \in 1 .. size
      PROVE  [id |-> FrameId(sendId), ordering |-> i - 1, isLast |-> i = size,
              payload |-> [datagram |-> transmitted, part |-> i - 1,
                           parts |-> size]] \in Frame
  <2>1. i - 1 \in 0 .. (MaxFrames - 1)
    BY <1>1
  <2>2. [datagram |-> transmitted, part |-> i - 1, parts |-> size] \in Payload
    BY <2>1 DEF Payload, TypeOK
  <2>3. (i = size) \in BOOLEAN
    OBVIOUS
  <2> QED BY <1>2, <2>1, <2>2, <2>3 DEF Frame
<1> QED
  BY <1>1, <1>3, IsASeq DEF Frames

\* transmit_frame keeps the types of the sender and of the wire.
LEMMA transmit_frameType ==
    ASSUME TypeOK, NEW q \in Seq(Frame), NEW accepted \in BOOLEAN,
           transmit_frame(q, accepted), q = <<>> => queue = <<>>
    PROVE  /\ queue' \in Seq(Frame)
           /\ busy' \in BOOLEAN
           /\ wire' \in Seq(Signal)
           /\ busy' <=> q # <<>>
           /\ ~ busy' => queue' = <<>>
<1>1. wire \in Seq(Signal) /\ queue \in Seq(Frame)
  BY DEF TypeOK, Signal
<1>2. CASE q = <<>>
  BY <1>1, <1>2 DEF transmit_frame
<1>3. CASE q # <<>>
  <2>1. Head(q) \in Signal /\ Tail(q) \in Seq(Frame)
    BY <1>3, HeadTailProperties DEF Signal
  <2>2. Append(wire, Head(q)) \in Seq(Signal)
    BY <1>1, <2>1, AppendProperties
  <2> QED BY <1>1, <1>3, <2>1, <2>2 DEF transmit_frame
<1> QED BY <1>2, <1>3

-----------------------------------------------------------------------------

\* The sender's part of the invariant, and the buffer that goes with ordering.
IInv == TypeOK /\ BusyMeansTimer /\ IdleMeansEmpty /\ BufferFits

LEMMA InitIInv == Init => IInv
<1> SUFFICES ASSUME Init PROVE IInv
  OBVIOUS
<1>1. TypeOK
  <2>1. queue \in Seq(Frame) /\ wire \in Seq(Frame \union {CORRUPT})
    BY EmptySeq DEF Init
  <2>2. buffer \in Seq(Payload) /\ delivered \in Seq(Payload)
    BY EmptySeq DEF Init
  <2>3. arrived \subseteq Payload
    BY DEF Init
  <2>4. /\ recId \in 0 .. (FRAME_ID_LIMIT - 1)
        /\ sendId \in 0 .. (SendIds - 1)
        /\ ordering \in 0 .. MaxFrames
    BY FrameIdLimit, LinkAssumption DEF Init
  <2>5. timers \in Nat /\ transmitted \in Nat /\ faults \in Nat
    BY DEF Init
  <2>6. busy \in BOOLEAN /\ corrupt \in BOOLEAN
    BY DEF Init
  <2> QED
    BY <2>1, <2>2, <2>3, <2>4, <2>5, <2>6 DEF TypeOK
<1>2. BusyMeansTimer /\ IdleMeansEmpty
  BY DEF Init, BusyMeansTimer, IdleMeansEmpty
<1>3. BufferFits
  BY LinkAssumption, EmptySeq DEF Init, BufferFits
<1> QED BY <1>1, <1>2, <1>3 DEF IInv

\* The receiver's part of the invariant.
ReceiverInv ==
    /\ recId \in 0 .. (FRAME_ID_LIMIT - 1)
    /\ ordering \in 0 .. MaxFrames
    /\ corrupt \in BOOLEAN
    /\ buffer \in Seq(Payload)
    /\ arrived \subseteq Payload
    /\ delivered \in Seq(Payload)
    /\ BufferFits

\* The sender's part.
SenderInv ==
    /\ queue \in Seq(Frame)
    /\ busy \in BOOLEAN
    /\ timers \in Nat
    /\ sendId \in 0 .. (SendIds - 1)
    /\ transmitted \in Nat
    /\ BusyMeansTimer
    /\ IdleMeansEmpty

\* What is on the wire, and the count of faults.
WireInv == wire \in Seq(Signal) /\ faults \in Nat

LEMMA Parts == IInv <=> SenderInv /\ WireInv /\ ReceiverInv
BY DEF IInv, TypeOK, SenderInv, WireInv, ReceiverInv, Signal

LEMMA SenderUnchanged == SenderInv /\ UNCHANGED sender => SenderInv'
BY DEF SenderInv, sender, BusyMeansTimer, IdleMeansEmpty

LEMMA ReceiverUnchanged == ReceiverInv /\ UNCHANGED receiver => ReceiverInv'
BY DEF ReceiverInv, receiver, BufferFits

\* A step of transmit_frame with a timer that goes with busy.
LEMMA link_transmitStep ==
    ASSUME IInv, NEW size \in 1 .. MaxFrames, link_transmit(size)
    PROVE  SenderInv' /\ WireInv'
<1> DEFINE q == queue \o Frames(size)
<1>1. TypeOK /\ BusyMeansTimer /\ IdleMeansEmpty
  BY DEF IInv
<1>2. q \in Seq(Frame)
  BY <1>1, FramesType, ConcatProperties DEF TypeOK
<1>3. /\ sendId' \in 0 .. (SendIds - 1)
      /\ transmitted' \in Nat
      /\ faults' \in Nat
  <2>1. sendId \in Nat /\ transmitted \in Nat /\ faults \in Nat
    BY <1>1, LinkAssumption DEF TypeOK
  <2> QED BY <2>1, LinkAssumption DEF link_transmit
<1>4. CASE busy
  <2>1. queue' = q /\ UNCHANGED <<busy, timers, wire>>
    BY <1>4 DEF link_transmit
  <2> QED
    BY <1>1, <1>2, <1>3, <1>4, <2>1
    DEF SenderInv, WireInv, Signal, TypeOK, BusyMeansTimer, IdleMeansEmpty
<1>5. CASE ~ busy
  <2>1. PICK accepted \in BOOLEAN : transmit_frame(q, accepted)
    BY <1>5 DEF link_transmit
  <2>2. timers' = timers + 1 /\ timers = 0
    BY <1>1, <1>5 DEF link_transmit, BusyMeansTimer
  <2>3. size \in Nat /\ size >= 1
    BY LinkAssumption
  <2>4. Len(Frames(size)) = size
    BY <2>3 DEF Frames
  <2>5. q # <<>>
    <3>1. Len(q) = Len(queue) + size /\ Len(queue) \in Nat
      BY <1>1, <2>4, FramesType, ConcatProperties, LenProperties DEF TypeOK
    <3> QED BY <3>1, <2>3
  <2>6. /\ queue' \in Seq(Frame)
        /\ busy' = TRUE
        /\ wire' \in Seq(Signal)
    BY <1>1, <1>2, <2>1, <2>5, transmit_frameType DEF transmit_frame
  <2> QED
    BY <1>3, <2>2, <2>6
    DEF SenderInv, WireInv, BusyMeansTimer, IdleMeansEmpty
<1> QED BY <1>4, <1>5, <1>1 DEF TypeOK

LEMMA LinkTimerStep ==
    ASSUME IInv, NEW accepted \in BOOLEAN, LinkTimer(accepted)
    PROVE  SenderInv' /\ WireInv'
<1>1. TypeOK /\ BusyMeansTimer /\ IdleMeansEmpty
  BY DEF IInv
<1>2. timers = 1 /\ busy
  BY <1>1 DEF LinkTimer, BusyMeansTimer
<1>3. transmit_frame(queue, accepted) /\ queue \in Seq(Frame)
  BY <1>1 DEF LinkTimer, TypeOK
<1>4. /\ queue' \in Seq(Frame)
      /\ busy' \in BOOLEAN
      /\ wire' \in Seq(Signal)
      /\ busy' <=> queue # <<>>
      /\ ~ busy' => queue' = <<>>
  BY <1>1, <1>3, transmit_frameType
<1>5. timers' = IF queue # <<>> THEN 1 ELSE 0
  BY <1>2 DEF LinkTimer
<1>6. UNCHANGED <<sendId, transmitted, faults>>
  BY DEF LinkTimer
<1>7. BusyMeansTimer' /\ IdleMeansEmpty'
  BY <1>4, <1>5 DEF BusyMeansTimer, IdleMeansEmpty
<1>8. timers' \in Nat
  BY <1>5
<1> QED
  BY <1>1, <1>4, <1>6, <1>7, <1>8 DEF SenderInv, WireInv, TypeOK

LEMMA link_receiveStep ==
    ASSUME IInv, link_receive
    PROVE  ReceiverInv' /\ WireInv'
<1> DEFINE f == Head(wire)
           b == IF f.id = recId THEN Append(buffer, f.payload) ELSE <<f.payload>>
<1>1. /\ TypeOK
      /\ BufferFits
  BY DEF IInv
<1>2. wire \in Seq(Signal) /\ wire # <<>> /\ f # CORRUPT
  BY <1>1 DEF link_receive, TypeOK, Signal
<1>3. f \in Frame /\ Tail(wire) \in Seq(Signal)
  BY <1>2, HeadTailProperties DEF Signal
<1>4. /\ f.id \in 0 .. (FRAME_ID_LIMIT - 1)
      /\ f.ordering \in 0 .. (MaxFrames - 1)
      /\ f.payload \in Payload
  BY <1>3 DEF Frame
<1>5. WireInv'
  BY <1>1, <1>3 DEF WireInv, link_receive, TypeOK
<1>6. b \in Seq(Payload)
  BY <1>1, <1>4, AppendProperties DEF TypeOK
<1>7. arrived' \subseteq Payload
  BY <1>1, <1>4 DEF link_receive, TypeOK
<1>8. recId' = f.id
  BY DEF link_receive
<1>9. CASE Continues(f) \/ Starts(f)
  <2>1. /\ corrupt' = FALSE
        /\ buffer' = b
        /\ ordering' = f.ordering + 1
        /\ delivered' = IF f.isLast THEN b ELSE delivered
    BY <1>9 DEF link_receive
  <2>2. Len(b) = f.ordering + 1
    <3>1. CASE Continues(f)
      <4>1. f.id = recId /\ Len(buffer) = f.ordering /\ buffer \in Seq(Payload)
        BY <1>1, <3>1 DEF Continues, BufferFits, TypeOK
      <4> QED BY <4>1, <1>4, AppendProperties
    <3>2. CASE Starts(f)
      <4>1. f.id # recId /\ f.ordering = 0
        BY <3>2 DEF Starts
      <4> QED BY <4>1
    <3> QED BY <1>9, <3>1, <3>2
  <2>3. BufferFits'
    BY <1>4, <2>1, <2>2, LinkAssumption DEF BufferFits
  <2>4. ordering' \in 0 .. MaxFrames
    BY <1>4, <2>1, LinkAssumption
  <2>5. delivered' \in Seq(Payload)
    BY <1>1, <1>6, <2>1 DEF TypeOK
  <2> QED
    BY <1>4, <1>5, <1>6, <1>7, <1>8, <2>1, <2>3, <2>4, <2>5 DEF ReceiverInv
<1>10. CASE ~ (Continues(f) \/ Starts(f))
  <2>1. corrupt' = TRUE /\ UNCHANGED <<buffer, ordering, delivered>>
    BY <1>10 DEF link_receive
  <2>2. BufferFits'
    BY <1>1, <2>1 DEF BufferFits
  <2> QED
    BY <1>1, <1>4, <1>5, <1>7, <1>8, <2>1, <2>2 DEF ReceiverInv, TypeOK
<1> QED BY <1>9, <1>10

LEMMA ReceiveCorruptStep ==
    ASSUME IInv, ReceiveCorrupt
    PROVE  ReceiverInv' /\ WireInv'
<1>1. wire \in Seq(Signal) /\ wire # <<>>
  BY Parts DEF ReceiveCorrupt, WireInv
<1>2. wire' \in Seq(Signal)
  BY <1>1, HeadTailProperties DEF ReceiveCorrupt
<1> QED
  BY <1>2, Parts DEF ReceiveCorrupt, ReceiverInv, WireInv, BufferFits

LEMMA FaultStep ==
    ASSUME IInv, Lose \/ Corrupt
    PROVE  WireInv'
<1>1. wire \in Seq(Signal) /\ wire # <<>> /\ faults \in Nat
  BY Parts DEF Lose, Corrupt, WireInv
<1>2. Tail(wire) \in Seq(Signal) /\ <<CORRUPT>> \in Seq(Signal)
  BY <1>1, HeadTailProperties DEF Signal
<1>3. <<CORRUPT>> \o Tail(wire) \in Seq(Signal)
  BY <1>2, ConcatProperties
<1>4. wire' \in Seq(Signal)
  <2>1. CASE Lose
    BY <1>2, <2>1 DEF Lose
  <2>2. CASE Corrupt
    BY <1>3, <2>2 DEF Corrupt
  <2> QED BY <2>1, <2>2
<1>5. faults' = faults + 1
  BY DEF Lose, Corrupt
<1> QED BY <1>1, <1>4, <1>5 DEF WireInv

-----------------------------------------------------------------------------

LEMMA NextIInv == IInv /\ [Next]_vars => IInv'
<1> SUFFICES ASSUME IInv, [Next]_vars PROVE SenderInv' /\ WireInv' /\ ReceiverInv'
  BY Parts DEF IInv, TypeOK, SenderInv, WireInv, ReceiverInv, Signal
<1>1. SenderInv /\ WireInv /\ ReceiverInv
  BY Parts
<1>2. ASSUME NEW size \in 1 .. MaxFrames, link_transmit(size)
      PROVE  SenderInv' /\ WireInv' /\ ReceiverInv'
  BY <1>1, <1>2, link_transmitStep, ReceiverUnchanged DEF link_transmit
<1>3. CASE Drop
  <2>1. SenderInv'
    BY <1>1, <1>3 DEF Drop, SenderInv, BusyMeansTimer, IdleMeansEmpty
  <2> QED BY <1>1, <1>3, <2>1, ReceiverUnchanged DEF Drop, WireInv
<1>4. ASSUME NEW accepted \in BOOLEAN, LinkTimer(accepted)
      PROVE  SenderInv' /\ WireInv' /\ ReceiverInv'
  BY <1>1, <1>4, LinkTimerStep, ReceiverUnchanged DEF LinkTimer
<1>5. CASE ReceiveCorrupt
  BY <1>1, <1>5, ReceiveCorruptStep, SenderUnchanged DEF ReceiveCorrupt
<1>6. CASE link_receive
  BY <1>1, <1>6, link_receiveStep, SenderUnchanged DEF link_receive
<1>7. CASE Lose
  BY <1>1, <1>7, FaultStep, SenderUnchanged, ReceiverUnchanged DEF Lose
<1>8. CASE Corrupt
  BY <1>1, <1>8, FaultStep, SenderUnchanged, ReceiverUnchanged DEF Corrupt
<1>9. CASE UNCHANGED vars
  BY <1>1, <1>9, SenderUnchanged, ReceiverUnchanged DEF vars, WireInv
<1> QED
  BY <1>2, <1>3, <1>4, <1>5, <1>6, <1>7, <1>8, <1>9 DEF Next

LEMMA Invariance == Spec => []IInv
BY InitIInv, NextIInv, PTL DEF Spec

\* Every variable of the link layer keeps its type: the ids fit the header, the
\* orderings fit a datagram, and only frames are queued.
THEOREM TypeCorrect == Spec => []TypeOK
<1>1. IInv => TypeOK
  BY DEF IInv
<1> QED BY <1>1, Invariance, PTL

\* The assertion of transmit_frame: there is one LINK_TIMER while the link is
\* busy and none while it is idle.
THEOREM OneTimer == Spec => []BusyMeansTimer
<1>1. IInv => BusyMeansTimer
  BY DEF IInv
<1> QED BY <1>1, Invariance, PTL

\* No frame waits in the queue of a link that has no timer to send it.
THEOREM NothingStranded == Spec => []IdleMeansEmpty
<1>1. IInv => IdleMeansEmpty
  BY DEF IInv
<1> QED BY <1>1, Invariance, PTL

\* The assertion of link_receive: however frames are lost and corrupted, and
\* whenever the ids repeat, the input buffer does not overflow.
THEOREM NoOverflow == Spec => []BufferFits
<1>1. IInv => BufferFits
  BY DEF IInv
<1> QED BY <1>1, Invariance, PTL

-----------------------------------------------------------------------------
(***************************************************************************)
(* What is on its way, in the order in which it was sent. What is sent     *)
(* goes to the end of the line; what arrives, is lost or is corrupted is   *)
(* at its head.                                                            *)
(***************************************************************************)

\* Datagrams that are sent one after the other have different ids, also where
\* the counter wraps.
LEMMA IdsDiffer ==
    ASSUME NEW c \in 0 .. (SendIds - 1)
    PROVE  /\ (c + 1) % SendIds \in 0 .. (SendIds - 1)
           /\ FrameId(c) # FrameId((c + 1) % SendIds)
<1> DEFINE L == FRAME_ID_LIMIT
<1>1. L \in Nat /\ L >= 2 /\ SendIds = 2 * L + 2 /\ SendIds \in Nat
  BY LinkAssumption DEF FRAME_ID_LIMIT
<1>2. FrameId(c) = c % L /\ FrameId((c + 1) % SendIds) = ((c + 1) % SendIds) % L
  BY DEF FrameId
<1> HIDE DEF L
<1>3. ASSUME NEW x \in 0 .. (SendIds - 1)
      PROVE  /\ x < L => x % L = x
             /\ (L <= x /\ x < 2 * L) => x % L = x - L
             /\ 2 * L <= x => x % L = x - 2 * L
  <2>1. ASSUME NEW q \in Int, NEW r \in 0 .. (L - 1), x = L * q + r PROVE x % L = r
    BY <1>1, <2>1
  <2>2. x \in Int
    BY <1>1
  <2>3. CASE x < L
    BY <2>1, <2>2, <2>3, <1>1, L * 0 = 0, x \in 0 .. (L - 1), x = L * 0 + x
  <2>4. CASE L <= x /\ x < 2 * L
    <3>1. x - L \in 0 .. (L - 1) /\ x = L * 1 + (x - L)
      BY <2>4, <1>1
    <3>2. x % L = x - L
      BY <3>1, <2>1, 1 \in Int
    <3> QED BY <2>4, <3>2, <1>1
  <2>5. CASE 2 * L <= x
    <3>1. x - 2 * L \in 0 .. (L - 1) /\ x = L * 2 + (x - 2 * L)
      BY <2>5, <1>1
    <3>2. x % L = x - 2 * L
      BY <3>1, <2>1, 2 \in Int
    <3> QED BY <2>5, <3>2, <1>1
  <2> QED BY <2>3, <2>4, <2>5, <1>1
<1>4. CASE c + 1 < SendIds
  <2>1. (c + 1) % SendIds = c + 1 /\ c + 1 \in 0 .. (SendIds - 1)
    BY <1>1, <1>4
  <2> QED BY <1>1, <1>2, <1>3, <1>4, <2>1
<1>5. CASE c + 1 = SendIds
  <2>1. (c + 1) % SendIds = 0
    BY <1>1, <1>5
  <2>2. c % L = 1 /\ 0 % L = 0
    BY <1>1, <1>3, <1>5
  <2> QED BY <1>1, <1>2, <2>1, <2>2
<1> QED BY <1>1, <1>4, <1>5

SameDatagram(f, g) ==
    /\ g.id = f.id
    /\ g.payload.datagram = f.payload.datagram
    /\ g.payload.parts = f.payload.parts

\* Frame f was sent before g.
Before(f, g) ==
    /\ \/ f.payload.datagram < g.payload.datagram
       \/ SameDatagram(f, g) /\ f.ordering < g.ordering
    /\ g.payload.datagram = f.payload.datagram + 1 => g.id # f.id

\* Frame g is the one sent after f.
Follows(g, f) ==
    IF f.isLast
    THEN g.ordering = 0 /\ g.id # f.id
    ELSE SameDatagram(f, g) /\ g.ordering = f.ordering + 1

\* The header of a frame goes with its payload.
Proper(f) ==
    /\ f \in Frame
    /\ f.payload.part = f.ordering
    /\ f.ordering < f.payload.parts
    /\ f.isLast <=> f.ordering + 1 = f.payload.parts

InLine(t) ==
    /\ t \in Seq(Signal)
    /\ Len(t) >= 1
    /\ t[Len(t)] # CORRUPT
    /\ \A i \in 1 .. Len(t) : t[i] # CORRUPT => Proper(t[i])
    /\ \A i \in 1 .. Len(t) : i > 1 => t[i] # CORRUPT
    /\ \A i, j \in 1 .. Len(t) : (i < j /\ t[i] # CORRUPT) => Before(t[i], t[j])
    /\ \A i \in 1 .. Len(t) : (i < Len(t) /\ t[i] # CORRUPT) => Follows(t[i + 1], t[i])

LEMMA LineTail ==
    ASSUME NEW t, InLine(t), Len(t) > 1
    PROVE  /\ InLine(Tail(t))
           /\ Tail(t)[1] = t[2]
<1>1. t \in Seq(Signal) /\ t # <<>> /\ Len(t) \in Nat
  BY LenProperties DEF InLine
<1>2. /\ Tail(t) \in Seq(Signal)
      /\ Len(Tail(t)) = Len(t) - 1
      /\ \A i \in 1 .. Len(Tail(t)) : Tail(t)[i] = t[i + 1]
  BY <1>1, HeadTailProperties
<1> DEFINE u == Tail(t)
<1> HIDE DEF u
<1>3. /\ u \in Seq(Signal)
      /\ Len(u) = Len(t) - 1
      /\ \A i \in 1 .. Len(u) : u[i] = t[i + 1] /\ i + 1 \in 1 .. Len(t)
  BY <1>1, <1>2 DEF u
<1>4. /\ Len(u) >= 1
      /\ u[Len(u)] # CORRUPT
  BY <1>1, <1>3 DEF InLine
<1>5. \A i \in 1 .. Len(u) : u[i] # CORRUPT /\ Proper(u[i])
  BY <1>1, <1>3 DEF InLine
<1>6. \A i, j \in 1 .. Len(u) : i < j => Before(u[i], u[j])
  <2> SUFFICES ASSUME NEW i \in 1 .. Len(u), NEW j \in 1 .. Len(u), i < j
               PROVE  Before(u[i], u[j])
    OBVIOUS
  <2>1. /\ u[i] = t[i + 1] /\ i + 1 \in 1 .. Len(t)
        /\ u[j] = t[j + 1] /\ j + 1 \in 1 .. Len(t)
        /\ i + 1 < j + 1
    BY <1>3
  <2>2. t[i + 1] # CORRUPT
    BY <1>5, <2>1
  <2> QED BY <2>1, <2>2 DEF InLine
<1>7. \A i \in 1 .. Len(u) : i < Len(u) => Follows(u[i + 1], u[i])
  <2> SUFFICES ASSUME NEW i \in 1 .. Len(u), i < Len(u)
               PROVE  Follows(u[i + 1], u[i])
    OBVIOUS
  <2>0. i + 1 \in 1 .. Len(u)
    BY <1>1, <1>3
  <2>1. /\ u[i] = t[i + 1] /\ i + 1 \in 1 .. Len(t)
        /\ u[i + 1] = t[(i + 1) + 1]
        /\ i + 1 < Len(t)
    BY <1>1, <1>3, <2>0
  <2>2. t[i + 1] # CORRUPT
    BY <1>5, <2>1
  <2> QED BY <2>1, <2>2 DEF InLine
<1>8. InLine(u)
  BY <1>3, <1>4, <1>5, <1>6, <1>7 DEF InLine
<1>9. u[1] = t[2]
  BY <1>1, <1>3
<1> QED BY <1>8, <1>9 DEF u

\* The frame at the head of the line is corrupted.
LEMMA LineCorrupt ==
    ASSUME NEW t, InLine(t), Len(t) > 1
    PROVE  InLine([t EXCEPT ![1] = CORRUPT])
<1> DEFINE u == [t EXCEPT ![1] = CORRUPT]
<1>1. t \in Seq(Signal) /\ Len(t) \in Nat
  BY LenProperties DEF InLine
<1>2. /\ u \in Seq(Signal) /\ Len(u) = Len(t)
      /\ u[1] = CORRUPT
      /\ \A i \in 1 .. Len(t) : i > 1 => u[i] = t[i]
  BY <1>1, ExceptSeq, InLine(t) DEF Signal
<1> HIDE DEF u
<1>3. /\ Len(u) >= 1
      /\ u[Len(u)] # CORRUPT
  BY <1>1, <1>2 DEF InLine
<1>4. \A i \in 1 .. Len(u) : u[i] # CORRUPT => i > 1 /\ u[i] = t[i]
  BY <1>1, <1>2
<1>5. \A i \in 1 .. Len(u) : u[i] # CORRUPT => Proper(u[i])
  BY <1>2, <1>4 DEF InLine
<1>6. \A i \in 1 .. Len(u) : i > 1 => u[i] # CORRUPT
  BY <1>1, <1>2 DEF InLine
<1>7. \A i, j \in 1 .. Len(u) : (i < j /\ u[i] # CORRUPT) => Before(u[i], u[j])
  <2> SUFFICES ASSUME NEW i \in 1 .. Len(u), NEW j \in 1 .. Len(u), i < j, u[i] # CORRUPT
               PROVE  Before(u[i], u[j])
    OBVIOUS
  <2>1. i > 1 /\ j > 1 /\ u[i] = t[i] /\ u[j] = t[j]
    BY <1>1, <1>2, <1>4
  <2> QED BY <1>2, <2>1 DEF InLine
<1>8. \A i \in 1 .. Len(u) : (i < Len(u) /\ u[i] # CORRUPT) => Follows(u[i + 1], u[i])
  <2> SUFFICES ASSUME NEW i \in 1 .. Len(u), i < Len(u), u[i] # CORRUPT
               PROVE  Follows(u[i + 1], u[i])
    OBVIOUS
  <2>1. i > 1 /\ u[i] = t[i]
    BY <1>4
  <2>2. u[i + 1] = t[i + 1]
    BY <1>1, <1>2, <2>1
  <2> QED BY <1>2, <2>1, <2>2 DEF InLine
<1> QED BY <1>2, <1>3, <1>5, <1>6, <1>7, <1>8 DEF InLine, u

\* The frames fs of a datagram take the place of v, the first frame of the next
\* datagram to be sent, of which only id and number are known; it is v2 then.
\* None are sent if the datagram is dropped.
Replaces(fs, v2, v) ==
    /\ fs \in Seq(Frame)
    /\ \A i \in 1 .. Len(fs) :
          /\ Proper(fs[i])
          /\ fs[i].ordering = i - 1
          /\ fs[i].id = v.id
          /\ fs[i].payload.datagram = v.payload.datagram
          /\ fs[i].payload.parts = Len(fs)
    /\ Proper(v2)
    /\ v2.ordering = 0
    /\ v2.payload.datagram = v.payload.datagram + 1
    /\ v2.id = v.id <=> fs = <<>>

LEMMA ProperFields ==
    ASSUME NEW f, Proper(f)
    PROVE  /\ f \in Signal /\ f # CORRUPT
           /\ f.payload.datagram \in Nat
           /\ f.payload.parts \in Nat
           /\ f.ordering \in Nat
           /\ f.ordering < f.payload.parts
           /\ f.ordering <= MaxFrames - 1
           /\ f.payload \in Payload
           /\ f.isLast \in BOOLEAN
           /\ f.id \in 0 .. (FRAME_ID_LIMIT - 1)
           /\ f.isLast <=> f.ordering + 1 = f.payload.parts
<1>1. f \in Frame /\ MaxFrames \in Nat
  BY LinkAssumption DEF Proper
<1>2. f # CORRUPT
  BY <1>1, FrameIdLimit DEF Frame, CORRUPT
<1>3. f.payload \in Payload
  BY <1>1 DEF Frame
<1>4. f.payload.datagram \in Nat /\ f.payload.parts \in 1 .. MaxFrames
  BY <1>3 DEF Payload
<1>5. f.ordering \in 0 .. (MaxFrames - 1) /\ f.isLast \in BOOLEAN
      /\ f.id \in 0 .. (FRAME_ID_LIMIT - 1)
  BY <1>1 DEF Frame
<1> QED BY <1>1, <1>2, <1>3, <1>4, <1>5 DEF Proper, Signal

\* A first frame is sent after the datagrams before it.
LEMMA BeforeFirst ==
    ASSUME NEW g, NEW v, Proper(g), Proper(v), Before(g, v), v.ordering = 0
    PROVE  /\ g.payload.datagram < v.payload.datagram
           /\ v.payload.datagram = g.payload.datagram + 1 => v.id # g.id
BY ProperFields DEF Before

\* Line u is line t, of m signals and v, with something longer instead of v.
Longer(m, v, t, u) ==
    /\ Len(t) = m + 1
    /\ Len(u) >= m + 1
    /\ \A i \in 1 .. m : u[i] = t[i]
    /\ u[m + 1].id = v.id /\ u[m + 1].ordering = 0
    /\ \A i \in 1 .. Len(u) : i > m =>
          u[i] # CORRUPT /\ v.payload.datagram <= u[i].payload.datagram
    /\ \A g : Proper(g) /\ Before(g, v) =>
          \A i \in 1 .. Len(u) : i > m =>
              Before(g, u[i]) /\ g.payload.datagram < u[i].payload.datagram

LEMMA LineLonger ==
    ASSUME NEW s \in Seq(Signal), NEW v, Proper(v), v.ordering = 0,
           InLine(Append(s, v)),
           NEW fs, NEW v2, Replaces(fs, v2, v)
    PROVE  /\ InLine(Append(s \o fs, v2))
           /\ Longer(Len(s), v, Append(s, v), Append(s \o fs, v2))
<1> DEFINE t == Append(s, v)
           u == Append(s \o fs, v2)
           m == Len(s)
           n == Len(fs)
           d == v.payload.datagram
<1>0. /\ fs \in Seq(Signal) /\ m \in Nat /\ n \in Nat /\ v2 \in Signal /\ v \in Signal
      /\ d \in Nat
  BY LenProperties, ProperFields DEF Replaces, Signal
<1>1. /\ s \o fs \in Seq(Signal)
      /\ Len(s \o fs) = m + n
      /\ \A i \in 1 .. m + n : (s \o fs)[i] = IF i <= m THEN s[i] ELSE fs[i - m]
  BY <1>0, ConcatProperties
<1>2. /\ u \in Seq(Signal)
      /\ Len(u) = m + n + 1
      /\ \A i \in 1 .. m + n : u[i] = (s \o fs)[i]
      /\ u[m + n + 1] = v2
  BY <1>0, <1>1, AppendProperties
<1>3. /\ Len(t) = m + 1
      /\ \A i \in 1 .. m : t[i] = s[i]
      /\ t[m + 1] = v
  BY <1>0, AppendProperties
<1>4. InLine(t)
  OBVIOUS
<1> HIDE DEF t, u
<1>5. \A i \in 1 .. m : u[i] = t[i] /\ i \in 1 .. Len(t) /\ i + 1 \in 1 .. Len(t)
  <2> SUFFICES ASSUME NEW i \in 1 .. m
               PROVE  u[i] = t[i] /\ i \in 1 .. Len(t) /\ i + 1 \in 1 .. Len(t)
    OBVIOUS
  <2>1. i \in 1 .. m + n /\ i <= m /\ i \in 1 .. m + 1 /\ i + 1 \in 1 .. m + 1
    BY <1>0
  <2>2. u[i] = s[i] /\ t[i] = s[i]
    BY <2>1, <1>1, <1>2, <1>3
  <2> QED BY <2>1, <2>2, <1>3
<1>6. \A k \in 1 .. n : u[m + k] = fs[k] /\ m + k \in 1 .. m + n
  <2> SUFFICES ASSUME NEW k \in 1 .. n PROVE u[m + k] = fs[k] /\ m + k \in 1 .. m + n
    OBVIOUS
  <2>1. m + k \in 1 .. m + n /\ ~ (m + k <= m) /\ (m + k) - m = k
    BY <1>0
  <2> QED BY <2>1, <1>1, <1>2
<1>7. \A i \in 1 .. Len(u) : i > m =>
         (\E k \in 1 .. n : i = m + k /\ u[i] = fs[k]) \/ (i = m + n + 1 /\ u[i] = v2)
  <2> SUFFICES ASSUME NEW i \in 1 .. Len(u), i > m, i # m + n + 1
               PROVE  \E k \in 1 .. n : i = m + k /\ u[i] = fs[k]
    BY <1>2
  <2>1. i - m \in 1 .. n /\ i = m + (i - m)
    BY <1>0, <1>2
  <2> QED BY <2>1, <1>6
<1>8. \A i \in 1 .. Len(u) : i > m =>
         /\ Proper(u[i])
         /\ u[i].payload.datagram \in {d, d + 1}
         /\ u[i].payload.datagram = d => u[i].id = v.id
  <2> SUFFICES ASSUME NEW i \in 1 .. Len(u), i > m
               PROVE  /\ Proper(u[i])
                      /\ u[i].payload.datagram \in {d, d + 1}
                      /\ u[i].payload.datagram = d => u[i].id = v.id
    OBVIOUS
  <2>1. CASE \E k \in 1 .. n : i = m + k /\ u[i] = fs[k]
    BY <2>1 DEF Replaces
  <2>2. CASE u[i] = v2
    BY <2>2, <1>0 DEF Replaces
  <2> QED BY <1>7, <2>1, <2>2
<1>9. ASSUME NEW g, Proper(g), Before(g, v), NEW i \in 1 .. Len(u), i > m
      PROVE  Before(g, u[i]) /\ g.payload.datagram < u[i].payload.datagram
  <2>1. /\ g.payload.datagram < d
        /\ d = g.payload.datagram + 1 => v.id # g.id
        /\ g.payload.datagram \in Nat
    BY <1>9, BeforeFirst, ProperFields
  <2>2. u[i].payload.datagram \in {d, d + 1} /\ (u[i].payload.datagram = d => u[i].id = v.id)
    BY <1>8, <1>9
  <2>3. u[i].payload.datagram > g.payload.datagram
    BY <1>0, <2>1, <2>2
  <2>4. u[i].payload.datagram = g.payload.datagram + 1 => u[i].id # g.id
    BY SMTT(60), <1>0, <2>1, <2>2
  <2> QED BY <2>3, <2>4, <2>1, <2>2, <1>0 DEF Before
<1>10. \A i \in 1 .. Len(u) : u[i] # CORRUPT => Proper(u[i])
  <2> SUFFICES ASSUME NEW i \in 1 .. Len(u), u[i] # CORRUPT PROVE Proper(u[i])
    OBVIOUS
  <2>1. CASE i <= m
    BY <2>1, <1>0, <1>4, <1>5 DEF InLine
  <2>2. CASE i > m
    BY <2>2, <1>8
  <2> QED BY <1>0, <2>1, <2>2
<1>11. \A i \in 1 .. Len(u) : i > 1 => u[i] # CORRUPT
  <2> SUFFICES ASSUME NEW i \in 1 .. Len(u), i > 1 PROVE u[i] # CORRUPT
    OBVIOUS
  <2>1. CASE i <= m
    BY SMTT(60), <2>1, <1>0, <1>4, <1>5 DEF InLine
  <2>2. CASE i > m
    BY <2>2, <1>8, ProperFields
  <2> QED BY <1>0, <2>1, <2>2
<1>12. \A i, j \in 1 .. Len(u) : (i < j /\ u[i] # CORRUPT) => Before(u[i], u[j])
  <2> SUFFICES ASSUME NEW i \in 1 .. Len(u), NEW j \in 1 .. Len(u), i < j, u[i] # CORRUPT
               PROVE  Before(u[i], u[j])
    OBVIOUS
  <2>1. CASE j <= m
    <3>1. i \in 1 .. m /\ j \in 1 .. m
      BY <2>1, <1>0
    <3> QED BY <3>1, <1>4, <1>5 DEF InLine
  <2>2. CASE i <= m /\ j > m
    <3>1. i \in 1 .. m /\ m + 1 \in 1 .. Len(t) /\ i < m + 1
      BY <2>2, <1>0, <1>3
    <3>2. u[i] = t[i] /\ i \in 1 .. Len(t)
      BY <3>1, <1>5
    <3>3. Before(u[i], t[m + 1])
      BY <3>1, <3>2, <1>4 DEF InLine
    <3>4. Before(u[i], v) /\ Proper(u[i])
      BY <3>3, <1>3, <1>10
    <3> QED BY <3>4, <2>2, <1>9
  <2>3. CASE i > m
    <3>1. i # m + n + 1
      BY <1>0, <1>2
    <3>2. PICK k \in 1 .. n : i = m + k /\ u[i] = fs[k]
      BY <2>3, <3>1, <1>7
    <3>3. j > m
      BY <2>3, <1>0
    <3>4. CASE \E l \in 1 .. n : j = m + l /\ u[j] = fs[l]
      <4>1. PICK l \in 1 .. n : j = m + l /\ u[j] = fs[l]
        BY <3>4
      <4>2. k < l
        BY <3>2, <4>1, <1>0
      <4>3. SameDatagram(fs[k], fs[l]) /\ fs[k].ordering < fs[l].ordering
        BY SMTT(60), <4>2 DEF Replaces, SameDatagram
      <4>4. fs[l].payload.datagram # fs[k].payload.datagram + 1
        BY SMTT(60), <1>0 DEF Replaces
      <4> QED BY <3>2, <4>1, <4>3, <4>4 DEF Before
    <3>5. CASE u[j] = v2
      <4>1. fs # <<>>
        BY <3>2, <1>0
      <4>2. v2.id # v.id /\ v2.payload.datagram = d + 1
        BY <4>1 DEF Replaces
      <4>3. fs[k].id = v.id /\ fs[k].payload.datagram = d
        BY DEF Replaces
      <4> QED BY <1>0, <3>2, <3>5, <4>2, <4>3 DEF Before
    <3> QED BY <3>3, <3>4, <3>5, <1>7
  <2> QED BY <1>0, <2>1, <2>2, <2>3
<1>13. \A i \in 1 .. Len(u) : (i < Len(u) /\ u[i] # CORRUPT) => Follows(u[i + 1], u[i])
  <2> SUFFICES ASSUME NEW i \in 1 .. Len(u), i < Len(u), u[i] # CORRUPT
               PROVE  Follows(u[i + 1], u[i])
    OBVIOUS
  <2>1. CASE i < m
    <3>1. i \in 1 .. m /\ i + 1 \in 1 .. m
      BY <2>1, <1>0
    <3>2. u[i] = t[i] /\ u[i + 1] = t[i + 1] /\ i \in 1 .. Len(t) /\ i < Len(t)
      BY <3>1, <1>5, <1>3, <1>0
    <3> QED BY <3>2, <1>4 DEF InLine
  <2>2. CASE i = m
    <3>1. i \in 1 .. m /\ i < Len(t)
      BY <2>2, <1>0, <1>3
    <3>2. u[i] = t[i] /\ i \in 1 .. Len(t) /\ t[i + 1] = v
      BY <3>1, <1>5, <1>3, <2>2
    <3>3. Follows(v, u[i]) /\ Proper(u[i])
      BY <3>1, <3>2, <1>4, <1>10 DEF InLine
    <3>4. u[i].isLast /\ v.id # u[i].id
      BY <3>3, ProperFields DEF Follows
    <3>5. u[i + 1].ordering = 0 /\ u[i + 1].id = v.id
      <4>1. CASE n = 0
        <5>1. u[i + 1] = v2 /\ fs = <<>>
          BY <2>2, <4>1, <1>0, <1>2
        <5> QED BY <5>1 DEF Replaces
      <4>2. CASE n > 0
        <5>1. u[i + 1] = fs[1] /\ 1 \in 1 .. n
          BY <2>2, <4>2, <1>0, <1>6
        <5>2. fs[1].ordering = 1 - 1 /\ fs[1].id = v.id
          BY <5>1 DEF Replaces
        <5> QED BY <5>1, <5>2
      <4> QED BY <1>0, <4>1, <4>2
    <3> QED BY <3>4, <3>5 DEF Follows
  <2>3. CASE i > m
    <3>1. i # m + n + 1
      BY <1>0, <1>2
    <3>2. PICK k \in 1 .. n : i = m + k /\ u[i] = fs[k]
      BY <2>3, <3>1, <1>7
    <3>3. /\ fs[k].ordering = k - 1 /\ fs[k].id = v.id /\ Proper(fs[k])
          /\ fs[k].payload.parts = n
      BY DEF Replaces
    <3>4. fs[k].isLast <=> k = n
      <4>1. fs[k].isLast <=> fs[k].ordering + 1 = fs[k].payload.parts
        BY <3>3, ProperFields
      <4>2. fs[k].ordering + 1 = k
        BY <3>3, <1>0
      <4> QED BY <4>1, <4>2, <3>3
    <3>5. CASE k = n
      <4>1. u[i + 1] = v2 /\ fs # <<>>
        BY <3>2, <3>5, <1>0, <1>2
      <4>2. v2.ordering = 0 /\ v2.id # v.id
        BY <4>1 DEF Replaces
      <4> QED BY <3>2, <3>3, <3>4, <3>5, <4>1, <4>2 DEF Follows
    <3>6. CASE k # n
      <4>1. k + 1 \in 1 .. n /\ i + 1 = m + (k + 1)
        BY <3>2, <3>6, <1>0
      <4>2. u[i + 1] = fs[k + 1]
        BY <4>1, <1>6
      <4>3. SameDatagram(fs[k], fs[k + 1]) /\ fs[k + 1].ordering = (k + 1) - 1
        BY <4>1 DEF Replaces, SameDatagram
      <4>4. fs[k + 1].ordering = fs[k].ordering + 1
        BY <4>3, <3>3, <1>0
      <4> QED BY <3>2, <3>4, <3>6, <4>2, <4>3, <4>4 DEF Follows
    <3> QED BY <3>5, <3>6
  <2> QED BY <1>0, <2>1, <2>2, <2>3
<1>14. InLine(u)
  <2>1. Len(u) >= 1 /\ Len(u) \in 1 .. Len(u) /\ Len(u) > m
    BY <1>0, <1>2
  <2>2. u[Len(u)] # CORRUPT
    BY <2>1, <1>8, ProperFields
  <2> QED BY <1>2, <2>1, <2>2, <1>10, <1>11, <1>12, <1>13 DEF InLine
<1>15. Len(t) = m + 1 /\ Len(u) >= m + 1 /\ \A i \in 1 .. m : u[i] = t[i]
  BY <1>0, <1>2, <1>3, <1>5
<1>16. u[m + 1].id = v.id /\ u[m + 1].ordering = 0
  <2>1. CASE n = 0
    <3>1. u[m + 1] = v2 /\ fs = <<>>
      BY <2>1, <1>0, <1>2
    <3> QED BY <3>1 DEF Replaces
  <2>2. CASE n > 0
    <3>1. u[m + 1] = fs[1] /\ 1 \in 1 .. n
      BY <2>2, <1>0, <1>6
    <3>2. fs[1].ordering = 1 - 1 /\ fs[1].id = v.id
      BY <3>1 DEF Replaces
    <3> QED BY <3>1, <3>2
  <2> QED BY <1>0, <2>1, <2>2
<1>17. \A i \in 1 .. Len(u) : i > m => u[i] # CORRUPT /\ d <= u[i].payload.datagram
  <2> SUFFICES ASSUME NEW i \in 1 .. Len(u), i > m
               PROVE  u[i] # CORRUPT /\ d <= u[i].payload.datagram
    OBVIOUS
  <2>1. u[i] # CORRUPT /\ u[i].payload.datagram \in {d, d + 1}
    BY <1>8, ProperFields
  <2>2. \A k \in Nat : \A x \in {k, k + 1} : k <= x
    OBVIOUS
  <2> QED BY <1>0, <2>1, <2>2
<1>18. Longer(m, v, t, u)
  BY <1>9, <1>15, <1>16, <1>17 DEF Longer
<1> QED BY <1>14, <1>18 DEF t, u

\* The first frame of the next datagram, as far as it is known: its id and the
\* number of the datagram.
NextFrame == Frames(1)[1]

\* What will arrive, if it is not lost or corrupted, and the frame after it.
line == Append(wire \o queue, NextFrame)

LEMMA FrameOf ==
    ASSUME TypeOK, NEW size \in 1 .. MaxFrames, NEW i \in 1 .. size
    PROVE  /\ Len(Frames(size)) = size
           /\ Proper(Frames(size)[i])
           /\ Frames(size)[i].ordering = i - 1
           /\ Frames(size)[i].id = FrameId(sendId)
           /\ Frames(size)[i].payload.datagram = transmitted
           /\ Frames(size)[i].payload.parts = size
<1>1. size \in Nat /\ MaxFrames \in Nat
  BY LinkAssumption
<1>2. Frames(size) \in Seq(Frame) /\ Len(Frames(size)) = size
  BY <1>1, FramesType DEF Frames
<1>3. Frames(size)[i] \in Frame
  BY <1>1, <1>2, ElementOfSeq
<1>4. Frames(size)[i] =
        [id |-> FrameId(sendId), ordering |-> i - 1, isLast |-> i = size,
         payload |-> [datagram |-> transmitted, part |-> i - 1, parts |-> size]]
  BY DEF Frames
<1>5. i - 1 < size /\ ((i - 1) + 1 = size <=> i = size)
  BY <1>1
<1> DEFINE f == Frames(size)[i]
<1>6. /\ f.ordering = i - 1
      /\ f.id = FrameId(sendId)
      /\ f.isLast = (i = size)
      /\ f.payload.datagram = transmitted
      /\ f.payload.part = i - 1
      /\ f.payload.parts = size
  BY <1>4
<1> HIDE DEF f
<1>7. Proper(f)
  BY <1>3, <1>5, <1>6 DEF Proper, f
<1> QED BY <1>2, <1>6, <1>7 DEF f

LEMMA NextFrameIs ==
    ASSUME TypeOK
    PROVE  /\ Proper(NextFrame)
           /\ NextFrame.ordering = 0
           /\ NextFrame.id = FrameId(sendId)
           /\ NextFrame.payload.datagram = transmitted
<1>1. 1 \in 1 .. MaxFrames /\ 1 \in 1 .. 1
  BY LinkAssumption
<1>2. /\ Proper(Frames(1)[1])
      /\ Frames(1)[1].ordering = 1 - 1
      /\ Frames(1)[1].id = FrameId(sendId)
      /\ Frames(1)[1].payload.datagram = transmitted
  BY <1>1, FrameOf
<1> QED BY <1>2 DEF NextFrame

\* What is sent goes from the queue to the wire.
LEMMA transmit_frameLine ==
    ASSUME TypeOK, NEW q \in Seq(Frame), NEW accepted \in BOOLEAN,
           transmit_frame(q, accepted), q = <<>> => queue = <<>>
    PROVE  wire' \o queue' = wire \o q
<1>1. wire \in Seq(Signal) /\ q \in Seq(Signal)
  BY DEF TypeOK, Signal
<1>2. CASE q # <<>> /\ accepted
  <2>1. wire' = Append(wire, Head(q)) /\ queue' = Tail(q)
    BY <1>2 DEF transmit_frame
  <2>2. Head(q) \in Signal /\ Tail(q) \in Seq(Signal)
    BY <1>1, <1>2, HeadTailProperties
  <2> QED BY <1>1, <1>2, <2>1, <2>2, SMT
<1>3. CASE ~ (q # <<>> /\ accepted)
  BY <1>3 DEF transmit_frame
<1> QED BY <1>2, <1>3

\* A datagram is transmitted or dropped.
Sends(s, fs, v2) ==
    /\ s \in Seq(Signal)
    /\ Replaces(fs, v2, NextFrame)
    /\ line = Append(s, NextFrame)
    /\ line' = Append(s \o fs, v2)
    /\ UNCHANGED receiver

LEMMA NextReplaces ==
    ASSUME TypeOK, TypeOK', transmitted' = transmitted + 1
    PROVE  /\ Proper(NextFrame)'
           /\ NextFrame'.ordering = 0
           /\ NextFrame'.payload.datagram = NextFrame.payload.datagram + 1
           /\ NextFrame'.id = FrameId(sendId')
<1>1. /\ Proper(NextFrame)
      /\ NextFrame.ordering = 0
      /\ NextFrame.id = FrameId(sendId)
      /\ NextFrame.payload.datagram = transmitted
  BY NextFrameIs
<1>2. (/\ Proper(NextFrame)
       /\ NextFrame.ordering = 0
       /\ NextFrame.id = FrameId(sendId)
       /\ NextFrame.payload.datagram = transmitted)'
  BY NextFrameIs, PTL
<1> QED BY <1>1, <1>2

LEMMA link_transmitLine ==
    ASSUME IInv, IInv', NEW size \in 1 .. MaxFrames, link_transmit(size)
    PROVE  \E s, fs, v2 : Sends(s, fs, v2)
<1> DEFINE s == wire \o queue
           fs == Frames(size)
<1>1. TypeOK /\ TypeOK' /\ IdleMeansEmpty
  BY DEF IInv
<1>2. wire \in Seq(Signal) /\ queue \in Seq(Signal) /\ s \in Seq(Signal)
  BY SMTT(60), <1>1, ConcatProperties DEF TypeOK, Signal
<1>3. fs \in Seq(Frame) /\ fs \in Seq(Signal) /\ Len(fs) = size /\ size \in Nat \ {0}
  BY <1>1, FramesType, LinkAssumption DEF Frames, Signal
<1>4. wire' \o queue' = s \o fs
  <2>1. wire \o (queue \o fs) = s \o fs
    BY <1>2, <1>3, SMT
  <2>2. CASE busy
    BY <2>1, <2>2 DEF link_transmit
  <2>3. CASE ~ busy
    <3>1. PICK accepted \in BOOLEAN : transmit_frame(queue \o fs, accepted)
      BY <2>3 DEF link_transmit
    <3>2. queue \o fs \in Seq(Frame) /\ queue = <<>>
      BY <1>1, <1>3, <2>3, ConcatProperties DEF TypeOK, IdleMeansEmpty
    <3> QED BY <1>1, <2>1, <3>1, <3>2, transmit_frameLine
  <2> QED BY <2>2, <2>3
<1>5. /\ Proper(NextFrame)'
      /\ NextFrame'.ordering = 0
      /\ NextFrame'.payload.datagram = NextFrame.payload.datagram + 1
      /\ NextFrame'.id = FrameId((sendId + 1) % SendIds)
  BY <1>1, NextReplaces DEF link_transmit
<1>6. NextFrame'.id # NextFrame.id
  BY <1>1, <1>5, NextFrameIs, IdsDiffer DEF TypeOK
<1>7. Replaces(fs, NextFrame', NextFrame)
  <2>1. fs # <<>>
    BY <1>3
  <2>2. \A i \in 1 .. Len(fs) :
          /\ Proper(fs[i])
          /\ fs[i].ordering = i - 1
          /\ fs[i].id = NextFrame.id
          /\ fs[i].payload.datagram = NextFrame.payload.datagram
          /\ fs[i].payload.parts = Len(fs)
    BY <1>1, <1>3, FrameOf, NextFrameIs
  <2>3. Proper(NextFrame')
    BY <1>5
  <2> HIDE DEF fs
  <2> QED BY <1>3, <1>5, <1>6, <2>1, <2>2, <2>3 DEF Replaces
<1>8. Sends(s, fs, NextFrame')
  <2>1. line = Append(s, NextFrame) /\ line' = Append(s \o fs, NextFrame')
    BY <1>4 DEF line
  <2> QED BY <1>2, <1>7, <2>1 DEF Sends, link_transmit
<1> QED BY <1>8

LEMMA DropLine ==
    ASSUME IInv, IInv', Drop
    PROVE  \E s, fs, v2 : Sends(s, fs, v2)
<1> DEFINE s == wire \o queue
<1>1. TypeOK /\ TypeOK'
  BY DEF IInv
<1>2. wire \in Seq(Signal) /\ queue \in Seq(Signal) /\ s \in Seq(Signal)
  BY SMTT(60), <1>1, ConcatProperties DEF TypeOK, Signal
<1>3. /\ Proper(NextFrame)'
      /\ NextFrame'.ordering = 0
      /\ NextFrame'.payload.datagram = NextFrame.payload.datagram + 1
      /\ NextFrame'.id = FrameId(sendId)
  BY <1>1, NextReplaces DEF Drop
<1>4. Replaces(<<>>, NextFrame', NextFrame)
  <2>1. Proper(NextFrame')
    BY <1>3
  <2>2. NextFrame.id = FrameId(sendId)
    BY <1>1, NextFrameIs
  <2> QED BY <1>3, <2>1, <2>2, EmptySeq DEF Replaces
<1>5. Sends(s, <<>>, NextFrame')
  <2>1. s \o <<>> = s
    BY <1>2, ConcatEmptySeq
  <2>2. line = Append(s, NextFrame) /\ line' = Append(s \o <<>>, NextFrame')
    BY <2>1 DEF line, Drop
  <2> QED BY <1>2, <1>4, <2>2 DEF Sends, Drop
<1> QED BY <1>5

LEMMA LinkTimerLine ==
    ASSUME IInv, IInv', NEW accepted \in BOOLEAN, LinkTimer(accepted)
    PROVE  line' = line
<1>1. TypeOK /\ queue \in Seq(Frame)
  BY DEF IInv, TypeOK
<1>2. wire' \o queue' = wire \o queue
  BY <1>1, transmit_frameLine DEF LinkTimer
<1>3. NextFrame' = NextFrame
  BY DEF NextFrame, Frames, LinkTimer
<1> QED BY <1>2, <1>3 DEF line

\* The head of the wire is the head of the line, and leaves it.
LEMMA HeadOfLine ==
    ASSUME TypeOK, wire # <<>>
    PROVE  /\ Len(line) > 1
           /\ Head(wire) = line[1]
           /\ (wire' = Tail(wire) /\ UNCHANGED sender) => line' = Tail(line)
           /\ (wire' = <<CORRUPT>> \o Tail(wire) /\ UNCHANGED sender)
                 => line' = [line EXCEPT ![1] = CORRUPT]
<1> DEFINE s == wire \o queue
           v == NextFrame
<1>1. wire \in Seq(Signal) /\ queue \in Seq(Signal)
  BY DEF TypeOK, Signal
<1>2. v \in Signal
  BY NextFrameIs, ProperFields
<1>3. Len(line) > 1 /\ Head(wire) = line[1]
  BY <1>1, <1>2, SMT DEF line
<1>4. UNCHANGED sender => NextFrame' = NextFrame /\ queue' = queue
  BY DEF sender, NextFrame, Frames
<1>5. Append(Tail(wire) \o queue, v) = Tail(line)
  BY <1>1, <1>2, SMT DEF line
<1>6. Append((<<CORRUPT>> \o Tail(wire)) \o queue, v) = [line EXCEPT ![1] = CORRUPT]
  <2> DEFINE w == <<CORRUPT>> \o Tail(wire)
             u == Append(w \o queue, v)
             x == [line EXCEPT ![1] = CORRUPT]
  <2>1. /\ Tail(wire) \in Seq(Signal) /\ Len(Tail(wire)) = Len(wire) - 1
        /\ \A i \in 1 .. Len(Tail(wire)) : Tail(wire)[i] = wire[i + 1]
        /\ Len(wire) \in Nat \ {0} /\ Len(queue) \in Nat
    BY <1>1, HeadTailProperties, LenProperties, EmptySeq
  <2>2. /\ w \in Seq(Signal) /\ Len(w) = Len(wire) /\ w[1] = CORRUPT
        /\ \A i \in 1 .. Len(wire) : i > 1 => w[i] = wire[i]
    <3>1. <<CORRUPT>> \in Seq(Signal) /\ Len(<<CORRUPT>>) = 1 /\ <<CORRUPT>>[1] = CORRUPT
      BY DEF Signal
    <3>2. /\ w \in Seq(Signal) /\ Len(w) = 1 + (Len(wire) - 1)
          /\ \A i \in 1 .. 1 + (Len(wire) - 1) :
                w[i] = IF i <= 1 THEN <<CORRUPT>>[i] ELSE Tail(wire)[i - 1]
      BY <2>1, <3>1, ConcatProperties
    <3>3. ASSUME NEW i \in 1 .. Len(wire), i > 1 PROVE w[i] = wire[i]
      <4>1. i - 1 \in 1 .. Len(Tail(wire)) /\ (i - 1) + 1 = i /\ ~ (i <= 1)
        BY <2>1, <3>3
      <4> QED BY <2>1, <3>2, <4>1
    <3> QED BY <2>1, <3>1, <3>2, <3>3
  <2> HIDE DEF w
  <2>3. /\ w \o queue \in Seq(Signal) /\ wire \o queue \in Seq(Signal)
        /\ Len(w \o queue) = Len(wire) + Len(queue)
        /\ Len(wire \o queue) = Len(wire) + Len(queue)
        /\ (w \o queue)[1] = CORRUPT
        /\ \A i \in 1 .. Len(wire) + Len(queue) :
              i > 1 => (w \o queue)[i] = (wire \o queue)[i]
    <3>1. /\ w \o queue \in Seq(Signal) /\ wire \o queue \in Seq(Signal)
          /\ Len(w \o queue) = Len(wire) + Len(queue)
          /\ Len(wire \o queue) = Len(wire) + Len(queue)
          /\ \A i \in 1 .. Len(wire) + Len(queue) :
                /\ (w \o queue)[i] = IF i <= Len(wire) THEN w[i] ELSE queue[i - Len(wire)]
                /\ (wire \o queue)[i] = IF i <= Len(wire) THEN wire[i] ELSE queue[i - Len(wire)]
      <4>1. /\ w \o queue \in Seq(Signal)
            /\ Len(w \o queue) = Len(w) + Len(queue)
            /\ \A i \in 1 .. Len(w) + Len(queue) :
                  (w \o queue)[i] = IF i <= Len(w) THEN w[i] ELSE queue[i - Len(w)]
        BY <1>1, <2>2, ConcatProperties
      <4>2. /\ wire \o queue \in Seq(Signal)
            /\ Len(wire \o queue) = Len(wire) + Len(queue)
            /\ \A i \in 1 .. Len(wire) + Len(queue) :
                  (wire \o queue)[i] =
                      IF i <= Len(wire) THEN wire[i] ELSE queue[i - Len(wire)]
        BY <1>1, ConcatProperties
      <4>3. Len(w) = Len(wire)
        BY <2>2
      <4> QED BY <4>1, <4>2, <4>3
    <3>2. (w \o queue)[1] = CORRUPT
      BY <2>1, <2>2, <3>1
    <3>3. ASSUME NEW i \in 1 .. Len(wire) + Len(queue), i > 1
          PROVE  (w \o queue)[i] = (wire \o queue)[i]
      BY <2>1, <2>2, <3>1, <3>3
    <3> QED BY <3>1, <3>2, <3>3
  <2> DEFINE a == w \o queue
             b == wire \o queue
  <2> HIDE DEF a, b
  <2>4. /\ u = Append(a, v) /\ line = Append(b, v)
    BY DEF a, b, line
  <2>5. /\ a \in Seq(Signal) /\ b \in Seq(Signal) /\ Len(a) = Len(b) /\ Len(a) >= 1
        /\ a[1] = CORRUPT
        /\ \A i \in 1 .. Len(a) : i > 1 => a[i] = b[i]
    BY <2>1, <2>3 DEF a, b
  <2>6. Append(a, v) = [Append(b, v) EXCEPT ![1] = CORRUPT]
    <3>1. /\ Append(a, v) \in Seq(Signal) /\ Len(Append(a, v)) = Len(a) + 1
          /\ Append(b, v) \in Seq(Signal) /\ Len(Append(b, v)) = Len(a) + 1
      BY <1>2, <2>5, AppendProperties
    <3>2. CORRUPT \in Signal
      BY DEF Signal
    <3>3. /\ [Append(b, v) EXCEPT ![1] = CORRUPT] \in Seq(Signal)
          /\ Len([Append(b, v) EXCEPT ![1] = CORRUPT]) = Len(a) + 1
          /\ \A i \in 1 .. Len(a) + 1 :
                [Append(b, v) EXCEPT ![1] = CORRUPT][i] =
                    IF i = 1 THEN CORRUPT ELSE Append(b, v)[i]
      <4>1. Append(b, v) \in Seq(Signal) /\ 1 \in 1 .. Len(Append(b, v))
        BY <2>5, <3>1
      <4> DEFINE x2 == Append(b, v)
      <4> HIDE DEF x2
      <4>2. x2 \in Seq(Signal) /\ 1 \in 1 .. Len(x2) /\ Len(x2) = Len(a) + 1
        BY <3>1, <4>1 DEF x2
      <4>3. /\ [x2 EXCEPT ![1] = CORRUPT] \in Seq(Signal)
            /\ Len([x2 EXCEPT ![1] = CORRUPT]) = Len(x2)
            /\ \A j \in 1 .. Len(x2) :
                  [x2 EXCEPT ![1] = CORRUPT][j] = IF j = 1 THEN CORRUPT ELSE x2[j]
        BY <3>2, <4>2, ExceptSeq
      <4> QED BY <4>2, <4>3 DEF x2
    <3>4. \A i \in 1 .. Len(a) + 1 :
            Append(a, v)[i] = [Append(b, v) EXCEPT ![1] = CORRUPT][i]
      <4> SUFFICES ASSUME NEW i \in 1 .. Len(a) + 1
                   PROVE  Append(a, v)[i] = [Append(b, v) EXCEPT ![1] = CORRUPT][i]
        OBVIOUS
      <4>1. CASE i = 1
        <5>1. Append(a, v)[1] = a[1] /\ 1 \in 1 .. Len(a)
          BY <1>2, <2>5, AppendProperties
        <5> QED BY <4>1, <5>1, <2>5, <3>3
      <4>2. CASE i > 1 /\ i <= Len(a)
        <5>1. i \in 1 .. Len(a) /\ i \in 1 .. Len(b)
          BY <4>2, <2>5
        <5>2. Append(a, v)[i] = a[i] /\ Append(b, v)[i] = b[i]
          BY <5>1, <1>2, <2>5, AppendProperties
        <5> QED BY <4>2, <5>1, <5>2, <2>5, <3>3
      <4>3. CASE i = Len(a) + 1
        <5>1. Append(a, v)[i] = v /\ Append(b, v)[i] = v /\ i # 1
          BY <4>3, <1>2, <2>5, AppendProperties
        <5> QED BY <5>1, <3>3
      <4> QED BY <4>1, <4>2, <4>3, <2>5
    <3> QED BY <3>1, <3>3, <3>4, SeqEqual
  <2> QED BY <2>4, <2>6 DEF w
<1> QED BY <1>3, <1>4, <1>5, <1>6 DEF line

\* The receiver gets frame f (link_receive).
Receives(f) ==
    /\ arrived' = {p \in arrived \union {f.payload} :
                      p.datagram >= f.payload.datagram - 1}
    /\ recId' = f.id
    /\ IF Continues(f) \/ Starts(f)
       THEN /\ corrupt' = FALSE
            /\ buffer' = IF f.id = recId THEN Append(buffer, f.payload) ELSE <<f.payload>>
            /\ ordering' = f.ordering + 1
            /\ delivered' = IF f.isLast THEN buffer' ELSE delivered
       ELSE /\ corrupt' = TRUE
            /\ UNCHANGED <<buffer, ordering, delivered>>

\* What the steps of the link do to the line.
Moves ==
    \/ line' = line /\ UNCHANGED receiver
    \/ \E s, fs, v2 : Sends(s, fs, v2)
    \/ /\ Len(line) > 1
       /\ \/ Lose /\ line' = Tail(line) /\ UNCHANGED receiver
          \/ /\ line[1] # CORRUPT
             /\ line' = [line EXCEPT ![1] = CORRUPT]
             /\ UNCHANGED receiver
          \/ /\ line[1] = CORRUPT
             /\ line' = Tail(line)
             /\ corrupt' = TRUE
             /\ UNCHANGED <<recId, ordering, buffer, arrived, delivered>>
          \/ /\ line[1] # CORRUPT
             /\ line' = Tail(line)
             /\ Receives(line[1])

LEMMA StepMoves ==
    ASSUME IInv, IInv', [Next]_vars
    PROVE  Moves
<1>0. TypeOK
  BY DEF IInv
<1>1. CASE \E size \in 1 .. MaxFrames : link_transmit(size)
  BY <1>1, link_transmitLine DEF Moves
<1>2. CASE Drop
  BY <1>2, DropLine DEF Moves
<1>3. CASE \E accepted \in BOOLEAN : LinkTimer(accepted)
  BY <1>3, LinkTimerLine DEF Moves, LinkTimer
<1>4. CASE ReceiveCorrupt
  <2>1. Len(line) > 1 /\ line[1] = CORRUPT /\ line' = Tail(line)
    BY <1>0, <1>4, HeadOfLine DEF ReceiveCorrupt
  <2> QED BY <1>4, <2>1 DEF Moves, ReceiveCorrupt
<1>5. CASE link_receive
  <2>1. Len(line) > 1 /\ line[1] = Head(wire) /\ line[1] # CORRUPT /\ line' = Tail(line)
    BY <1>0, <1>5, HeadOfLine DEF link_receive
  <2>2. Receives(Head(wire))
    BY <1>5 DEF link_receive, Receives
  <2> QED BY <2>1, <2>2 DEF Moves
<1>6. CASE Lose
  <2>1. Len(line) > 1 /\ line' = Tail(line)
    BY <1>0, <1>6, HeadOfLine DEF Lose
  <2> QED BY <1>6, <2>1 DEF Moves, Lose
<1>7. CASE Corrupt
  <2>1. Len(line) > 1 /\ line[1] # CORRUPT /\ line' = [line EXCEPT ![1] = CORRUPT]
    BY <1>0, <1>7, HeadOfLine DEF Corrupt
  <2> QED BY <1>7, <2>1 DEF Moves, Corrupt
<1>8. CASE UNCHANGED vars
  <2>1. line' = line /\ UNCHANGED receiver
    BY <1>8 DEF vars, line, NextFrame, Frames, sender, receiver
  <2> QED BY <2>1 DEF Moves
<1> QED BY <1>1, <1>2, <1>3, <1>4, <1>5, <1>6, <1>7, <1>8 DEF Next

LEMMA LineInit ==
    ASSUME Init, TypeOK
    PROVE  InLine(line) /\ Len(line) = 1 /\ line[1] = NextFrame
<1>1. Proper(NextFrame)
  BY NextFrameIs
<1>2. NextFrame \in Signal /\ NextFrame # CORRUPT
  BY <1>1, ProperFields
<1>3. wire \o queue = <<>>
  BY DEF Init
<1>4. /\ line \in Seq(Signal) /\ Len(line) = 1 /\ line[1] = NextFrame
  BY <1>2, <1>3, EmptySeq, AppendProperties DEF line
<1>5. \A i \in 1 .. Len(line) : i = 1
  BY <1>4
<1> QED BY <1>1, <1>2, <1>4, <1>5 DEF InLine

LEMMA LineStays ==
    ASSUME TypeOK, InLine(line), Moves
    PROVE  InLine(line')
<1>1. ASSUME NEW s, NEW fs, NEW v2, Sends(s, fs, v2)
      PROVE  InLine(line')
  <2>1. Proper(NextFrame) /\ NextFrame.ordering = 0
    BY NextFrameIs
  <2>2. /\ s \in Seq(Signal) /\ Replaces(fs, v2, NextFrame)
        /\ InLine(Append(s, NextFrame)) /\ line' = Append(s \o fs, v2)
    BY <1>1 DEF Sends
  <2>3. InLine(Append(s \o fs, v2))
    BY <2>1, <2>2, LineLonger
  <2> QED BY <2>2, <2>3
<1>2. Len(line) > 1 => InLine(Tail(line)) /\ InLine([line EXCEPT ![1] = CORRUPT])
  BY LineTail, LineCorrupt
<1> QED BY <1>1, <1>2 DEF Moves

-----------------------------------------------------------------------------
(***************************************************************************)
(* A datagram of which nothing is missing is handed over, if something of  *)
(* the one before it has arrived.                                          *)
(***************************************************************************)

\* The next frame that may arrive.
Coming == IF line[1] = CORRUPT THEN line[2] ELSE line[1]

\* The x-th part of the datagram of f.
PartOf(f, x) == [f.payload EXCEPT !.part = x]

\* Everything that has arrived lately arrived before or with frame g.
Recent(g) ==
    \A p \in arrived :
        /\ p.datagram \in {g.payload.datagram - 1, g.payload.datagram}
        /\ p.datagram = g.payload.datagram =>
              p.parts = g.payload.parts /\ p.part <= g.ordering

PreviousHeard(g) == \E q \in arrived : q.datagram = g.payload.datagram - 1

\* The parts of the datagram of g that were to arrive up to now.
Due(g) ==
    IF Coming.payload.datagram = g.payload.datagram
    THEN Coming.ordering
    ELSE g.payload.parts

\* If nothing of the datagram is missing, the receiver goes on with it or has
\* handed it over.
Prompt(g) ==
    (PreviousHeard(g) /\ \A x \in 0 .. (Due(g) - 1) : PartOf(g, x) \in arrived) =>
        IF Coming.payload.datagram = g.payload.datagram
        THEN line[1] # CORRUPT /\ ~ corrupt /\ ordering = Coming.ordering
        ELSE LastDelivered >= g.payload.datagram

\* g is the frame that arrived last.
Heard(g) ==
    /\ Proper(g)
    /\ recId = g.id
    /\ Recent(g)
    /\ \A i \in 1 .. Len(line) : line[i] # CORRUPT => Before(g, line[i])
    /\ Prompt(g)

HeardInv == arrived = {} \/ \E g : Heard(g)

LEMMA ComingIs ==
    ASSUME InLine(line)
    PROVE  /\ Proper(Coming)
           /\ \A g : Heard(g) => Before(g, Coming)
           /\ line[1] = CORRUPT => Len(line) > 1 /\ Coming = line[2]
           /\ line[1] # CORRUPT => Coming = line[1]
           /\ Len(line) \in Nat /\ 1 \in 1 .. Len(line)
<1>1. Len(line) \in Nat /\ 1 \in 1 .. Len(line)
  BY LenProperties DEF InLine
<1>2. CASE line[1] # CORRUPT
  BY <1>1, <1>2 DEF InLine, Coming, Heard
<1>3. CASE line[1] = CORRUPT
  <2>1. Len(line) # 1
    BY <1>3 DEF InLine
  <2>2. 2 \in 1 .. Len(line)
    <3>1. \A n \in Nat : (1 \in 1 .. n /\ n # 1) => 2 \in 1 .. n
      OBVIOUS
    <3> QED BY <1>1, <2>1, <3>1
  <2>3. line[2] # CORRUPT /\ Proper(line[2])
    BY <2>2 DEF InLine
  <2> QED BY <1>1, <1>3, <2>2, <2>3 DEF InLine, Coming, Heard
<1> QED BY <1>2, <1>3

LEMMA BeforeFields ==
    ASSUME NEW g, NEW f, Proper(g), Proper(f), Before(g, f)
    PROVE  /\ g.payload.datagram <= f.payload.datagram
           /\ f.payload.datagram = g.payload.datagram
                => /\ SameDatagram(g, f) /\ g.ordering < f.ordering
                   /\ f.ordering < g.payload.parts
BY ProperFields DEF Before, SameDatagram

LEMMA PartFields ==
    ASSUME NEW f, Proper(f), NEW x \in Nat
    PROVE  /\ PartOf(f, x).datagram = f.payload.datagram
           /\ PartOf(f, x).part = x
           /\ PartOf(f, x).parts = f.payload.parts
<1>1. f.payload \in [datagram : Nat, part : 0 .. (MaxFrames - 1), parts : 1 .. MaxFrames]
  BY ProperFields DEF Payload
<1> QED BY <1>1 DEF PartOf

\* The frame at the head of the line does not arrive: its datagram will never be
\* complete.
LEMMA HeadMissing ==
    ASSUME InLine(line), InLine(line'), Len(line) > 1, NEW g, Heard(g), UNCHANGED receiver,
           \/ line' = Tail(line)
           \/ line[1] # CORRUPT /\ line' = [line EXCEPT ![1] = CORRUPT]
    PROVE  Heard(g)'
<1> DEFINE d == g.payload.datagram
<1>1. /\ line \in Seq(Signal) /\ Len(line) \in Nat /\ line # <<>>
      /\ 2 \in 1 .. Len(line)
  BY LenProperties DEF InLine
<1>2. line[2] # CORRUPT /\ Proper(line[2]) /\ Before(g, line[2])
  BY <1>1 DEF InLine, Heard
<1>3. /\ Coming' = line[2]
      /\ line[1] = CORRUPT => line'[1] # CORRUPT
      /\ \A i \in 1 .. Len(line') : line'[i] # CORRUPT => Before(g, line'[i])
  <2>1. CASE line' = Tail(line)
    <3>1. line'[1] = line[2]
      BY <2>1, LineTail
    <3>2. \A i \in 1 .. Len(line') : line'[i] = line[i + 1] /\ i + 1 \in 1 .. Len(line)
      BY <1>1, <2>1, HeadTailProperties
    <3> QED BY SMTT(60), <1>2, <3>1, <3>2 DEF Heard, Coming
  <2>2. CASE line[1] # CORRUPT /\ line' = [line EXCEPT ![1] = CORRUPT]
    <3>1. CORRUPT \in Signal /\ 1 \in 1 .. Len(line)
      BY <1>1 DEF Signal
    <3>2. /\ Len(line') = Len(line)
          /\ \A i \in 1 .. Len(line) : line'[i] = IF i = 1 THEN CORRUPT ELSE line[i]
      BY <1>1, <2>2, <3>1, ExceptSeq
    <3>3. line'[1] = CORRUPT /\ line'[2] = line[2]
      BY <1>1, <3>1, <3>2
    <3> QED BY ZenonT(60), <2>2, <3>2, <3>3 DEF Heard, Coming
  <2> QED BY <2>1, <2>2
<1>4. CASE line[1] = CORRUPT
  <2>1. Coming' = Coming /\ line'[1] # CORRUPT
    BY <1>3, <1>4 DEF Coming
  <2>2. Prompt(g)'
    BY <2>1 DEF Heard, Prompt, PreviousHeard, Due, receiver, LastDelivered
  <2> QED BY <1>3, <2>2 DEF Heard, Recent, receiver
<1>5. CASE line[1] # CORRUPT
  <2>1. /\ Coming = line[1] /\ Proper(Coming) /\ Before(g, Coming) /\ Before(line[1], line[2])
    BY <1>1, <1>5, ComingIs DEF InLine
  <2>2. /\ d <= Coming.payload.datagram
        /\ Coming.payload.datagram <= Coming'.payload.datagram
        /\ d \in Nat /\ Coming.payload.datagram \in Nat /\ Coming'.payload.datagram \in Nat
        /\ Coming.ordering \in Nat /\ Coming'.ordering \in Nat
        /\ g.payload.parts \in Nat /\ g.ordering \in Nat
        /\ Proper(g)
    BY <1>2, <1>3, <2>1, BeforeFields, ProperFields DEF Heard
  <2>3. Coming.payload.datagram = d =>
           /\ g.ordering < Coming.ordering
           /\ Coming.ordering < g.payload.parts
    BY <2>1, <2>2, BeforeFields
  <2>4. Coming'.payload.datagram = Coming.payload.datagram =>
           Coming.ordering < Coming'.ordering
    BY <1>2, <1>3, <2>1, <2>2, BeforeFields
  <2>5. Coming.payload.datagram = d => ~ PartOf(g, Coming.ordering) \in arrived
    <3> SUFFICES ASSUME Coming.payload.datagram = d, PartOf(g, Coming.ordering) \in arrived
                 PROVE  FALSE
      OBVIOUS
    <3>1. PartOf(g, Coming.ordering).datagram = d /\ PartOf(g, Coming.ordering).part = Coming.ordering
      BY <2>2, PartFields
    <3>2. Coming.ordering <= g.ordering
      BY <3>1 DEF Heard, Recent
    <3> QED BY <2>2, <2>3, <3>2
  <2>6. Prompt(g)'
    <3>1. CASE Coming.payload.datagram = d
      <4>1. Coming.ordering \in 0 .. (Due(g)' - 1)
        BY <3>1, <2>2, <2>3, <2>4 DEF Due
      <4> QED BY <4>1, <3>1, <2>5 DEF Prompt, receiver
    <3>2. CASE Coming.payload.datagram # d
      <4>1. Coming'.payload.datagram # d
        BY <3>2, <2>2
      <4> QED BY <3>2, <4>1 DEF Heard, Prompt, PreviousHeard, Due, receiver, LastDelivered
    <3> QED BY <3>1, <3>2
  <2> QED BY <1>3, <2>6 DEF Heard, Recent, receiver
<1> QED BY <1>4, <1>5

\* What is left of a corrupt frame arrives: the datagram it belongs to was not
\* complete already.
LEMMA CorruptArrives ==
    ASSUME InLine(line), Len(line) > 1, NEW g, Heard(g),
           line[1] = CORRUPT, line' = Tail(line), corrupt' = TRUE,
           UNCHANGED <<recId, ordering, buffer, arrived, delivered>>
    PROVE  Heard(g)'
<1>1. /\ line \in Seq(Signal) /\ Len(line) \in Nat /\ line # <<>>
      /\ 2 \in 1 .. Len(line) /\ line[2] # CORRUPT
  BY LenProperties DEF InLine
<1>2. line'[1] = line[2]
  BY LineTail
<1>3. Coming' = Coming
  BY <1>1, <1>2 DEF Coming
<1>4. \A i \in 1 .. Len(line') : line'[i] # CORRUPT => Before(g, line'[i])
  <2>1. \A i \in 1 .. Len(line') : line'[i] = line[i + 1] /\ i + 1 \in 1 .. Len(line)
    BY <1>1, HeadTailProperties
  <2> QED BY <2>1 DEF Heard
<1>5. Prompt(g)'
  <2>1. PreviousHeard(g)' = PreviousHeard(g) /\ Due(g)' = Due(g) /\ LastDelivered' = LastDelivered
    BY <1>3 DEF PreviousHeard, Due, LastDelivered
  <2>2. Prompt(g)
    BY DEF Heard
  <2> QED BY <1>3, <2>1, <2>2 DEF Prompt
<1> QED BY <1>4, <1>5 DEF Heard, Recent

\* A datagram is transmitted or dropped.
LEMMA SendsHeard ==
    ASSUME TypeOK, InLine(line), InLine(line'), NEW g, Heard(g),
           NEW s, NEW fs, NEW v2, Sends(s, fs, v2)
    PROVE  Heard(g)'
<1> DEFINE d == g.payload.datagram
           m == Len(s)
<1>1. Proper(NextFrame) /\ NextFrame.ordering = 0
  BY NextFrameIs
<1>2. /\ s \in Seq(Signal) /\ Replaces(fs, v2, NextFrame)
      /\ line = Append(s, NextFrame) /\ line' = Append(s \o fs, v2)
      /\ UNCHANGED receiver /\ m \in Nat /\ Proper(g)
  BY LenProperties DEF Sends, Heard
<1>3. InLine(Append(s, NextFrame))
  BY <1>2
<1>4. /\ Proper(g) /\ Before(g, NextFrame) =>
            \A i \in 1 .. Len(line') : i > m =>
                Before(g, line'[i]) /\ d < line'[i].payload.datagram
      /\ \A i \in 1 .. Len(line') : i > m => line'[i] # CORRUPT
      /\ Len(line) = m + 1
      /\ Len(line') >= m + 1
      /\ \A i \in 1 .. m : line'[i] = line[i]
  <2>1. Longer(m, NextFrame, Append(s, NextFrame), Append(s \o fs, v2))
    BY <1>1, <1>2, <1>3, LineLonger
  <2>2. Longer(m, NextFrame, line, line')
    BY <1>2, <2>1
  <2> QED BY <2>2 DEF Longer
<1>5. line[m + 1] = NextFrame /\ m + 1 \in 1 .. Len(line)
  <2>1. NextFrame \in Signal
    BY <1>1, ProperFields
  <2> QED BY <1>2, <1>4, <2>1, AppendProperties
<1>6. Before(g, NextFrame)
  BY <1>1, <1>5, ProperFields DEF Heard
<1>7. /\ d < NextFrame.payload.datagram
      /\ \A i \in 1 .. Len(line') : i > m =>
            Before(g, line'[i]) /\ d < line'[i].payload.datagram
  BY <1>1, <1>2, <1>4, <1>6, BeforeFirst
<1>8. \A i \in 1 .. Len(line') : line'[i] # CORRUPT => Before(g, line'[i])
  <2> SUFFICES ASSUME NEW i \in 1 .. Len(line'), line'[i] # CORRUPT
               PROVE  Before(g, line'[i])
    OBVIOUS
  <2>1. CASE i > m
    BY <1>7, <2>1
  <2>2. CASE ~ i > m
    <3>1. i \in 1 .. m /\ i \in 1 .. Len(line)
      BY <1>2, <1>4, <2>2
    <3> QED BY <1>4, <3>1 DEF Heard
  <2> QED BY <2>1, <2>2
<1>9. \/ Coming' = Coming /\ (line'[1] = CORRUPT <=> line[1] = CORRUPT)
      \/ d # Coming.payload.datagram /\ d # Coming'.payload.datagram
  <2>0. d \in Nat /\ NextFrame.payload.datagram \in Nat
    BY <1>1, <1>2, ProperFields
  <2>1. CASE m >= 2
    <3>1. line'[1] = line[1] /\ line'[2] = line[2]
      BY <1>2, <1>4, <2>1
    <3> QED BY <3>1 DEF Coming
  <2>2. CASE m = 0
    <3>1. line[1] = NextFrame /\ line[1] # CORRUPT /\ Coming = NextFrame
      BY <1>1, <1>5, <2>2, ProperFields DEF Coming
    <3>2. 1 \in 1 .. Len(line') /\ 1 > m
      BY <1>4, <2>2, LenProperties DEF InLine
    <3>3. line'[1] # CORRUPT
      BY <1>4, <3>2
    <3> QED BY <1>7, <2>0, <3>1, <3>2, <3>3 DEF Coming
  <2>3. CASE m = 1
    <3>1. line'[1] = line[1] /\ line[2] = NextFrame
      BY <1>2, <1>4, <1>5, <2>3
    <3>2. 2 \in 1 .. Len(line') /\ 2 > m
      BY <1>4, <2>3, LenProperties DEF InLine
    <3>3. CASE line[1] = CORRUPT
      <4>1. Coming = NextFrame /\ Coming' = line'[2]
        BY <3>1, <3>3 DEF Coming
      <4>2. d < line'[2].payload.datagram
        BY <1>7, <3>2
      <4>3. d # NextFrame.payload.datagram
        BY <1>7, <2>0
      <4>4. d # line'[2].payload.datagram
        BY <4>2, <2>0
      <4> QED BY <4>1, <4>3, <4>4
    <3>4. CASE line[1] # CORRUPT
      BY <3>1, <3>4 DEF Coming
    <3> QED BY <3>3, <3>4
  <2>4. m >= 2 \/ m = 0 \/ m = 1
    <3>1. \A n \in Nat : n >= 2 \/ n = 0 \/ n = 1
      OBVIOUS
    <3> QED BY <1>2, <3>1
  <2> QED BY <2>1, <2>2, <2>3, <2>4
<1>10. Prompt(g)'
  <2>1. PreviousHeard(g)' = PreviousHeard(g) /\ LastDelivered' = LastDelivered
    BY <1>2 DEF PreviousHeard, LastDelivered, receiver
  <2>2. Prompt(g)
    BY DEF Heard
  <2>3. UNCHANGED receiver
    BY <1>2
  <2> QED BY <1>9, <2>1, <2>2, <2>3 DEF Prompt, Due, receiver
<1> QED BY <1>2, <1>8, <1>10 DEF Heard, Recent, receiver

LEMMA PartsAgree ==
    ASSUME NEW f, NEW g, Proper(f), Proper(g), SameDatagram(g, f), NEW x
    PROVE  PartOf(g, x) = PartOf(f, x)
<1>1. /\ f.payload \in [datagram : Nat, part : 0 .. (MaxFrames - 1), parts : 1 .. MaxFrames]
      /\ g.payload \in [datagram : Nat, part : 0 .. (MaxFrames - 1), parts : 1 .. MaxFrames]
  BY ProperFields DEF Payload
<1> QED BY <1>1 DEF PartOf, SameDatagram

\* What becomes of a frame that goes on with a datagram or starts one.
LEMMA Accepted ==
    ASSUME TypeOK, NEW f, Proper(f), Receives(f), Continues(f) \/ Starts(f)
    PROVE  /\ ~ corrupt' /\ ordering' = f.ordering + 1
           /\ f.isLast => LastDelivered' = f.payload.datagram
<1>1. /\ ~ corrupt' /\ ordering' = f.ordering + 1
      /\ buffer' = IF f.id = recId THEN Append(buffer, f.payload) ELSE <<f.payload>>
      /\ f.isLast => delivered' = buffer'
  BY DEF Receives
<1>2. f.payload \in Payload /\ buffer \in Seq(Payload)
  BY ProperFields DEF TypeOK
<1>3. buffer' # <<>> /\ buffer'[Len(buffer')] = f.payload
  <2>1. CASE f.id = recId
    BY <1>1, <1>2, <2>1, AppendProperties
  <2>2. CASE f.id # recId
    BY <1>1, <2>2
  <2> QED BY <2>1, <2>2
<1> QED BY <1>1, <1>3 DEF LastDelivered

LEMMA FrameHeard ==
    ASSUME TypeOK, InLine(line), Len(line) > 1,
           line[1] # CORRUPT, line' = Tail(line), Receives(line[1]), HeardInv
    PROVE  HeardInv'
<1>f. PICK f : f = line[1]
  OBVIOUS
<1>h. PICK h : h = line[2]
  OBVIOUS
<1> DEFINE e == f.payload.datagram
<1>1. /\ line \in Seq(Signal) /\ Len(line) \in Nat /\ line # <<>>
      /\ 1 \in 1 .. Len(line) /\ 2 \in 1 .. Len(line) /\ 1 < 2 /\ 1 < Len(line)
  BY LenProperties DEF InLine
<1>2. /\ Proper(f) /\ h # CORRUPT /\ Proper(h) /\ Before(f, h) /\ Follows(h, f)
      /\ Coming = f
  BY <1>f, <1>h, <1>1 DEF InLine, Coming
<1>3. line'[1] = h
  BY <1>h, LineTail
<1>4. \A i \in 1 .. Len(line') : Before(f, line'[i])
  <2> SUFFICES ASSUME NEW i \in 1 .. Len(line') PROVE Before(f, line'[i])
    OBVIOUS
  <2>1. line'[i] = line[i + 1] /\ i + 1 \in 1 .. Len(line) /\ 1 < i + 1
    BY <1>1, HeadTailProperties
  <2> QED BY <1>f, <1>1, <2>1 DEF InLine
<1>5. /\ Coming' = h
      /\ line'[1] # CORRUPT
  BY <1>2, <1>3 DEF Coming
<1>6. /\ e \in Nat /\ f.ordering \in Nat /\ f.payload \in Payload /\ f.payload.parts \in Nat
      /\ f.payload.part = f.ordering /\ h.ordering \in Nat
      /\ f.isLast <=> f.ordering + 1 = f.payload.parts
  BY <1>2, ProperFields DEF Proper
<1>7. /\ f.isLast => h.payload.datagram # e
      /\ ~ f.isLast => h.payload.datagram = e /\ h.ordering = f.ordering + 1
  BY <1>2, <1>6 DEF Follows, Before, SameDatagram
<1>8. /\ recId' = f.id
      /\ arrived' = {p \in arrived \union {f.payload} : p.datagram >= e - 1}
  BY <1>f DEF Receives
<1>9. ASSUME NEW g, Heard(g)
      PROVE  /\ Proper(g) /\ Before(g, f) /\ recId = g.id
             /\ g.payload.datagram \in Nat /\ g.ordering \in Nat
             /\ g.payload.datagram <= e
             /\ e = g.payload.datagram => SameDatagram(g, f) /\ g.ordering < f.ordering
  <2>1. Proper(g) /\ Before(g, f) /\ recId = g.id
    BY <1>f, <1>1, <1>9 DEF Heard
  <2> QED BY <1>2, <2>1, BeforeFields, ProperFields
<1> HIDE DEF e
<1>10. Recent(f)'
  <2> SUFFICES ASSUME NEW p \in arrived'
               PROVE  /\ p.datagram \in {e - 1, e}
                      /\ p.datagram = e => p.parts = f.payload.parts /\ p.part <= f.ordering
    BY DEF Recent, e
  <2>1. CASE p = f.payload
    BY <1>6, <2>1 DEF e
  <2>2. CASE p \in arrived /\ p.datagram >= e - 1
    <3>1. PICK g : Heard(g)
      BY <2>2 DEF HeardInv
    <3>2. /\ p.datagram \in {g.payload.datagram - 1, g.payload.datagram}
          /\ p.datagram = g.payload.datagram =>
                p.parts = g.payload.parts /\ p.part <= g.ordering
          /\ p \in Payload
      BY <2>2, <3>1 DEF Heard, Recent, TypeOK
    <3>3. p.part \in Int /\ p.datagram \in Int
      BY <3>2, LinkAssumption DEF Payload
    <3>4. /\ g.payload.datagram \in Nat /\ g.ordering \in Nat
          /\ g.payload.datagram <= e
          /\ e = g.payload.datagram => SameDatagram(g, f) /\ g.ordering < f.ordering
      BY <1>9, <3>1
    <3>5. p.datagram \in {e - 1, e} /\ (p.datagram = e => e = g.payload.datagram)
      BY SMTT(60), <1>6, <2>2, <3>2, <3>3, <3>4
    <3> QED BY <1>6, <3>2, <3>3, <3>4, <3>5 DEF SameDatagram
  <2> QED BY <1>8, <2>1, <2>2
<1>11. Due(f)' = f.ordering + 1
  <2>1. Due(f)' = IF h.payload.datagram = e THEN h.ordering ELSE f.payload.parts
    BY <1>5 DEF Due, e
  <2> QED BY <1>6, <1>7, <2>1
<1>12. ASSUME PreviousHeard(f)', \A x \in 0 .. f.ordering : PartOf(f, x) \in arrived'
       PROVE  Continues(f) \/ Starts(f)
  <2>1. PICK q \in arrived : q.datagram = e - 1
    <3>1. PICK q \in arrived' : q.datagram = e - 1
      BY <1>12 DEF PreviousHeard, e
    <3>2. q # f.payload
      BY <1>6, <3>1 DEF e
    <3> QED BY <1>8, <3>1, <3>2
  <2>2. PICK g : Heard(g)
    BY <2>1 DEF HeardInv
  <2>3. /\ Proper(g) /\ Before(g, f) /\ recId = g.id
        /\ g.payload.datagram \in Nat /\ g.ordering \in Nat
        /\ g.payload.datagram <= e
        /\ e = g.payload.datagram => SameDatagram(g, f) /\ g.ordering < f.ordering
    BY <1>9, <2>2
  <2>4. ASSUME NEW x \in 0 .. f.ordering, x # f.ordering
        PROVE  PartOf(f, x) \in arrived /\ PartOf(f, x).datagram = e
    <3>1. PartOf(f, x).part = x /\ PartOf(f, x).datagram = e
      BY <1>2, <1>6, PartFields DEF e
    <3>2. PartOf(f, x) # f.payload
      BY <1>6, <2>4, <3>1
    <3> QED BY <1>8, <1>12, <3>1, <3>2
  <2>5. CASE e = g.payload.datagram
    <3>1. PreviousHeard(g)
      BY <2>1, <2>5 DEF PreviousHeard
    <3>2. Due(g) = f.ordering
      BY <1>2, <2>5 DEF Due, e
    <3>3. ASSUME NEW x \in 0 .. (Due(g) - 1) PROVE PartOf(g, x) \in arrived
      <4>1. x \in 0 .. f.ordering /\ x # f.ordering
        BY <1>6, <3>2
      <4>2. PartOf(g, x) = PartOf(f, x)
        BY <1>2, <2>3, <2>5, PartsAgree
      <4> QED BY <2>4, <4>1, <4>2
    <3>4. Prompt(g)
      BY <2>2 DEF Heard
    <3>5. ~ corrupt /\ ordering = f.ordering
      BY <1>2, <2>5, <3>1, <3>3, <3>4 DEF Prompt, e
    <3>6. f.id = recId
      BY <2>3, <2>5 DEF SameDatagram
    <3> QED BY <3>5, <3>6 DEF Continues
  <2>6. CASE e # g.payload.datagram
    <3>1. q.datagram \in {g.payload.datagram - 1, g.payload.datagram}
      BY <2>2 DEF Heard, Recent
    <3>2. e = g.payload.datagram + 1
      <4>1. /\ e \in Nat /\ g.payload.datagram \in Nat
            /\ e - 1 \in {g.payload.datagram - 1, g.payload.datagram}
            /\ e # g.payload.datagram
        BY <1>6, <2>1, <2>3, <2>6, <3>1
      <4> DEFINE k == g.payload.datagram
      <4> HIDE DEF k
      <4>2. e \in Nat /\ k \in Nat /\ e - 1 \in {k - 1, k} /\ e # k
        BY <4>1 DEF k
      <4>3. e = k + 1
        BY ONLY <4>2
      <4> QED BY <4>3 DEF k
    <3>3. f.id # recId
      BY <2>3, <3>2 DEF Before, e
    <3>4. f.ordering = 0
      <4> SUFFICES ASSUME f.ordering # 0 PROVE FALSE
        OBVIOUS
      <4>1. 0 \in 0 .. f.ordering
        BY <1>6
      <4>2. PartOf(f, 0) \in arrived /\ PartOf(f, 0).datagram = e
        BY <2>4, <4>1
      <4>3. e \in {g.payload.datagram - 1, g.payload.datagram}
        BY <2>2, <4>2 DEF Heard, Recent
      <4> QED BY <2>3, <3>2, <4>3
    <3> QED BY <3>3, <3>4 DEF Starts
  <2> QED BY <2>5, <2>6
<1>13. Prompt(f)'
  <2> SUFFICES ASSUME PreviousHeard(f)', \A x \in 0 .. (Due(f)' - 1) : PartOf(f, x) \in arrived'
               PROVE  IF Coming'.payload.datagram = e
                      THEN line'[1] # CORRUPT /\ ~ corrupt' /\ ordering' = Coming'.ordering
                      ELSE LastDelivered' >= e
    BY DEF Prompt, PartOf, e
  <2>1. \A x \in 0 .. f.ordering : PartOf(f, x) \in arrived'
    <3>1. (f.ordering + 1) - 1 = f.ordering
      BY <1>6
    <3> QED BY <1>11, <3>1
  <2>2. /\ ~ corrupt' /\ ordering' = f.ordering + 1
        /\ f.isLast => LastDelivered' = e
    <3>1. Receives(f)
      BY <1>f
    <3> QED BY <1>2, <1>12, <2>1, <3>1, Accepted DEF e
  <2> QED BY <1>5, <1>6, <1>7, <2>2
<1>14. Heard(f)'
  BY <1>2, <1>4, <1>8, <1>10, <1>13 DEF Heard
<1> QED BY <1>14 DEF HeardInv

LEMMA IntervalSize ==
    ASSUME NEW n \in Nat
    PROVE  IsFiniteSet(0 .. (n - 1)) /\ Cardinality(0 .. (n - 1)) = n
<1>1. /\ IsFiniteSet(0 .. (n - 1))
      /\ Cardinality(0 .. (n - 1)) = IF 0 > n - 1 THEN 0 ELSE (n - 1) - 0 + 1
  BY FS_Interval
<1>2. CASE n = 0
  BY <1>1, <1>2
<1>3. CASE n > 0
  BY <1>1, <1>3
<1> QED BY <1>1, <1>2, <1>3

LEMMA HeardStays ==
    ASSUME IInv, InLine(line), InLine(line'), HeardInv, Moves
    PROVE  HeardInv'
<1>0. TypeOK
  BY DEF IInv
<1>1. ASSUME UNCHANGED arrived, \A g : Heard(g) => Heard(g)'
      PROVE  HeardInv'
  BY <1>1 DEF HeardInv
<1>2. CASE line' = line /\ UNCHANGED receiver
  <2>1. \A g : Heard(g) => Heard(g)'
    BY <1>2 DEF Heard, Recent, Prompt, PreviousHeard, Due, Coming, LastDelivered, receiver
  <2> QED BY <1>1, <1>2, <2>1 DEF receiver
<1>3. ASSUME NEW s, NEW fs, NEW v2, Sends(s, fs, v2) PROVE HeardInv'
  <2>1. \A g : Heard(g) => Heard(g)'
    BY <1>0, <1>3, SendsHeard
  <2>2. UNCHANGED arrived
    BY <1>3 DEF Sends, receiver
  <2> QED BY <1>1, <2>1, <2>2
<1>4. ASSUME Len(line) > 1, UNCHANGED receiver,
             \/ line' = Tail(line)
             \/ line[1] # CORRUPT /\ line' = [line EXCEPT ![1] = CORRUPT]
      PROVE  HeardInv'
  <2>1. \A g : Heard(g) => Heard(g)'
    BY <1>4, HeadMissing
  <2> QED BY <1>1, <1>4, <2>1 DEF receiver
<1>5. ASSUME Len(line) > 1, line[1] = CORRUPT, line' = Tail(line), corrupt' = TRUE,
             UNCHANGED <<recId, ordering, buffer, arrived, delivered>>
      PROVE  HeardInv'
  <2>1. \A g : Heard(g) => Heard(g)'
    BY <1>5, CorruptArrives
  <2> QED BY <1>1, <1>5, <2>1
<1>6. ASSUME Len(line) > 1, line[1] # CORRUPT, line' = Tail(line), Receives(line[1])
      PROVE  HeardInv'
  BY <1>0, <1>6, FrameHeard
<1> QED BY <1>2, <1>3, <1>4, <1>5, <1>6 DEF Moves

LEMMA HeardAlways == Spec => [](IInv /\ InLine(line) /\ HeardInv)
<1>1. Init => IInv /\ InLine(line) /\ HeardInv
  <2>1. Init => IInv
    BY InitIInv
  <2>2. Init => InLine(line)
    BY <2>1, LineInit DEF IInv
  <2> QED BY <2>1, <2>2 DEF Init, HeardInv
<1>2. IInv /\ InLine(line) /\ HeardInv /\ [Next]_vars => (IInv /\ InLine(line) /\ HeardInv)'
  <2> SUFFICES ASSUME IInv, InLine(line), HeardInv, [Next]_vars
               PROVE  (IInv /\ InLine(line) /\ HeardInv)'
    OBVIOUS
  <2>1. IInv'
    BY NextIInv
  <2>2. Moves
    BY <2>1, StepMoves
  <2>3. InLine(line')
    BY <2>2, LineStays DEF IInv
  <2> QED BY <2>1, <2>2, <2>3, HeardStays
<1> QED BY <1>1, <1>2, PTL DEF Spec

\* Errors do not spread, however many there are: a datagram whose frames all
\* arrive is handed over if any frame of the datagram before it has arrived, since
\* their ids differ (link_receive).
THEOREM ErrorsDoNotSpread == Spec => []IntactIsDelivered
<1>1. IInv /\ InLine(line) /\ HeardInv => IntactIsDelivered
  <2> SUFFICES ASSUME IInv, InLine(line), HeardInv,
                      NEW p \in arrived, NEW q \in arrived,
                      p.datagram = q.datagram + 1, ArrivedIntact(p.datagram)
               PROVE  LastDelivered >= p.datagram
    BY DEF IntactIsDelivered
  <2>1. PICK g : Heard(g)
    BY DEF HeardInv
  <2> DEFINE d == g.payload.datagram
             parts == {r \in arrived : r.datagram = p.datagram}
  <2>2. /\ Proper(g) /\ Recent(g) /\ Prompt(g)
        /\ d \in Nat /\ g.payload.parts \in Nat /\ g.ordering \in Nat /\ g.payload \in Payload
    BY <2>1, ProperFields DEF Heard
  <2>3. p.datagram = d /\ q.datagram = d - 1
    <3>1. p.datagram \in {d - 1, d} /\ q.datagram \in {d - 1, d}
      BY <2>2 DEF Recent
    <3> QED BY <2>2, <3>1
  <2>4. /\ parts # {}
        /\ \A r \in parts : Cardinality(parts) = r.parts
    BY DEF ArrivedIntact
  <2>5. Cardinality(parts) = g.payload.parts
    <3>1. p \in parts /\ p.parts = g.payload.parts
      BY <2>2, <2>3 DEF Recent
    <3> QED BY <2>4, <3>1
  <2>6. \A x \in 0 .. (g.payload.parts - 1) : PartOf(g, x) \in arrived
    <3> DEFINE n == g.payload.parts
               all == {PartOf(g, x) : x \in 0 .. (n - 1)}
    <3>1. parts \subseteq all
      <4> SUFFICES ASSUME NEW r \in parts PROVE r \in all
        OBVIOUS
      <4>1. /\ r \in [datagram : Nat, part : 0 .. (MaxFrames - 1), parts : 1 .. MaxFrames]
            /\ r.datagram = d /\ r.parts = n /\ r.part <= g.ordering
        BY <2>2, <2>3 DEF Recent, IInv, TypeOK, Payload
      <4>2. g.payload \in [datagram : Nat, part : 0 .. (MaxFrames - 1), parts : 1 .. MaxFrames]
        BY <2>2 DEF Payload
      <4>3. r = PartOf(g, r.part)
        BY <4>1, <4>2 DEF PartOf
      <4>4. r.part \in 0 .. (n - 1)
        <5>1. g.ordering < n
          BY <2>2, ProperFields
        <5>2. r.part \in Nat
          BY <4>1, LinkAssumption
        <5> QED BY <2>2, <4>1, <5>1, <5>2
      <4> QED BY <4>3, <4>4
    <3>2. IsFiniteSet(0 .. (n - 1)) /\ Cardinality(0 .. (n - 1)) = n
      BY <2>2, IntervalSize
    <3>3. IsFiniteSet(all) /\ Cardinality(all) <= n
      <4> DEFINE F == [x \in 0 .. (n - 1) |-> PartOf(g, x)]
      <4>1. F \in Surjection(0 .. (n - 1), all)
        BY DEF Surjection
      <4> HIDE DEF F, all
      <4>2. IsFiniteSet(all) /\ Cardinality(all) <= Cardinality(0 .. (n - 1))
        BY <3>2, <4>1, FS_Surjection
      <4> QED BY <3>2, <4>2
    <3>4. parts = all
      <4> HIDE DEF all, parts
      <4>1. Cardinality(parts) <= Cardinality(all) /\ (Cardinality(all) = Cardinality(parts) => all = parts)
        BY <3>1, <3>3, FS_Subset
      <4>2. Cardinality(all) \in Nat /\ n \in Nat
        BY <2>2, <3>3, FS_CardinalityType
      <4> QED BY <2>5, <3>3, <4>1, <4>2
    <3> QED BY <3>4
  <2>7. Coming.payload.datagram # d
    <3> SUFFICES ASSUME Coming.payload.datagram = d PROVE FALSE
      OBVIOUS
    <3>1. Proper(Coming) /\ Before(g, Coming)
      BY <2>1, ComingIs
    <3>2. /\ g.ordering < Coming.ordering /\ Coming.ordering < g.payload.parts
          /\ Coming.ordering \in Nat
      BY <2>2, <3>1, BeforeFields, ProperFields
    <3>3. PartOf(g, Coming.ordering) \in arrived
      BY <2>2, <2>6, <3>2
    <3>4. PartOf(g, Coming.ordering).datagram = d /\ PartOf(g, Coming.ordering).part = Coming.ordering
      BY <2>2, <3>2, PartFields
    <3>5. Coming.ordering <= g.ordering
      BY <2>2, <3>3, <3>4 DEF Recent
    <3> QED BY <2>2, <3>2, <3>5
  <2>8. PreviousHeard(g)
    BY <2>3 DEF PreviousHeard
  <2> QED BY <2>2, <2>3, <2>6, <2>7, <2>8 DEF Prompt, Due
<1> QED BY <1>1, HeardAlways, PTL

-----------------------------------------------------------------------------
(***************************************************************************)
(* What is handed over are whole datagrams, in the order of sending.       *)
(***************************************************************************)

\* The physical link loses no first frame of a datagram; it may corrupt first
\* frames, and lose and corrupt all others.  A frame that is corrupted and then
\* lost is a lost one.
KeepsFirst == Lose => Head(wire) # CORRUPT /\ Head(wire).ordering # 0

\* The first n frames of the datagram of f.
FirstParts(f, n) == [i \in 1 .. n |-> PartOf(f, i - 1)]

\* The receiver goes on with the datagram of the next frame h, of which it may
\* have missed frames, or h starts one.
Attuned(h) ==
    \/ /\ h.id = recId
       /\ ordering <= h.ordering
       /\ buffer = FirstParts(h, ordering)
    \/ h.id # recId /\ h.ordering = 0

FifoInv ==
    /\ delivered = <<>> \/ IsWhole(delivered)
    /\ \A i \in 1 .. Len(line) : line[i] # CORRUPT => LastDelivered < line[i].payload.datagram
    /\ corrupt \/ line[1] = CORRUPT \/ Attuned(line[1])

LEMMA SameParts ==
    ASSUME NEW f, NEW g, Proper(f), Proper(g), SameDatagram(g, f), NEW n
    PROVE  FirstParts(g, n) = FirstParts(f, n)
BY PartsAgree DEF FirstParts

LEMMA NoParts ==
    ASSUME NEW f, NEW b, b = <<>>
    PROVE  b = FirstParts(f, 0)
<1>1. 1 .. 0 = {}
  OBVIOUS
<1>2. FirstParts(f, 0) = [i \in {} |-> PartOf(f, i - 1)]
  BY <1>1 DEF FirstParts
<1> QED BY <1>2

LEMMA LastPart ==
    ASSUME NEW f, Proper(f), NEW b, b = FirstParts(f, f.ordering)
    PROVE  /\ b \in Seq(Payload)
           /\ Append(b, f.payload) = FirstParts(f, f.ordering + 1)
<1> DEFINE n == f.ordering
<1>1. /\ n \in Nat /\ f.payload \in Payload /\ f.payload.part = n
      /\ f.payload \in [datagram : Nat, part : 0 .. (MaxFrames - 1), parts : 1 .. MaxFrames]
      /\ n <= MaxFrames - 1 /\ MaxFrames \in Nat
  BY ProperFields, LinkAssumption DEF Proper, Payload
<1>2. ASSUME NEW i \in 1 .. (n + 1) PROVE PartOf(f, i - 1) \in Payload
  <2>1. i - 1 \in 0 .. (MaxFrames - 1)
    BY <1>1
  <2> QED BY <1>1, <2>1 DEF PartOf, Payload
<1>3. f.payload = PartOf(f, n)
  BY <1>1 DEF PartOf
<1> HIDE DEF n
<1>4. b = [i \in 1 .. n |-> PartOf(f, i - 1)]
  BY DEF FirstParts, n
<1>5. b \in Seq(Payload) /\ Len(b) = n
  <2>1. \A i \in 1 .. n : PartOf(f, i - 1) \in Payload
    BY <1>1, <1>2
  <2> QED BY <1>1, <1>4, <2>1, IsASeq
<1>6. FirstParts(f, n + 1) \in Seq(Payload) /\ Len(FirstParts(f, n + 1)) = n + 1
  <2>1. n + 1 \in Nat
    BY <1>1
  <2> QED BY <1>2, <2>1, IsASeq DEF FirstParts
<1>7. /\ Append(b, f.payload) \in Seq(Payload)
      /\ Len(Append(b, f.payload)) = n + 1
      /\ \A i \in 1 .. n : Append(b, f.payload)[i] = b[i]
      /\ Append(b, f.payload)[n + 1] = f.payload
  BY <1>1, <1>5, AppendProperties
<1>8. \A i \in 1 .. n + 1 : Append(b, f.payload)[i] = FirstParts(f, n + 1)[i]
  <2> SUFFICES ASSUME NEW i \in 1 .. n + 1
               PROVE  Append(b, f.payload)[i] = FirstParts(f, n + 1)[i]
    OBVIOUS
  <2>1. FirstParts(f, n + 1)[i] = PartOf(f, i - 1)
    BY DEF FirstParts
  <2>2. CASE i = n + 1
    <3>1. i - 1 = n
      BY <1>1, <2>2
    <3> QED BY <1>3, <1>7, <2>1, <2>2, <3>1
  <2>3. CASE i # n + 1
    <3>1. i \in 1 .. n
      BY <1>1, <2>3
    <3> QED BY <1>4, <1>7, <2>1, <3>1
  <2> QED BY <2>2, <2>3
<1>9. Append(b, f.payload) = FirstParts(f, n + 1)
  BY <1>6, <1>7, <1>8, SeqEqual
<1> QED BY <1>5, <1>9 DEF n

LEMMA AllPartsAreWhole ==
    ASSUME NEW f, Proper(f), f.isLast
    PROVE  /\ IsWhole(FirstParts(f, f.ordering + 1))
           /\ FirstParts(f, f.ordering + 1) # <<>>
<1> DEFINE b == FirstParts(f, f.ordering + 1)
<1>1. /\ f.ordering \in Nat /\ f.ordering + 1 = f.payload.parts
      /\ f.payload \in [datagram : Nat, part : 0 .. (MaxFrames - 1), parts : 1 .. MaxFrames]
  BY ProperFields DEF Payload
<1>2. 1 \in 1 .. (f.ordering + 1)
  BY <1>1
<1>3. b[1] = PartOf(f, 0) /\ b # <<>>
  <2>1. b[1] = PartOf(f, 1 - 1) /\ DOMAIN b = 1 .. (f.ordering + 1)
    BY <1>2 DEF FirstParts
  <2>2. DOMAIN <<>> = {}
    OBVIOUS
  <2>3. 1 - 1 = 0
    OBVIOUS
  <2>4. b # <<>>
    BY <1>2, <2>1, <2>2
  <2> QED BY <2>1, <2>3, <2>4
<1>4. b[1].parts = f.ordering + 1
  BY <1>1, <1>3 DEF PartOf
<1>5. \A x : [b[1] EXCEPT !.part = x] = PartOf(f, x)
  BY <1>1, <1>3 DEF PartOf
<1>6. b = [i \in 1 .. b[1].parts |-> [b[1] EXCEPT !.part = i - 1]]
  BY <1>4, <1>5 DEF FirstParts
<1> QED BY <1>3, <1>6 DEF IsWhole

\* The receiver accepts the next frame: what it has are the frames of the
\* datagram up to this one.
LEMMA AcceptedParts ==
    ASSUME TypeOK, NEW f, Proper(f), Receives(f), Continues(f) \/ Starts(f),
           corrupt \/ Attuned(f)
    PROVE  buffer' = FirstParts(f, f.ordering + 1)
<1>1. buffer' = IF f.id = recId THEN Append(buffer, f.payload) ELSE <<f.payload>>
  BY DEF Receives
<1>2. CASE Continues(f)
  <2>1. f.id = recId /\ f.ordering = ordering /\ buffer = FirstParts(f, f.ordering)
    BY <1>2 DEF Continues, Attuned
  <2>2. Append(buffer, f.payload) = FirstParts(f, f.ordering + 1)
    BY <2>1, LastPart
  <2> QED BY <1>1, <2>1, <2>2
<1>3. CASE Starts(f)
  <2>1. f.id # recId /\ f.ordering = 0
    BY <1>3 DEF Starts
  <2>2. <<>> = FirstParts(f, f.ordering)
    BY <2>1, NoParts
  <2>3. Append(<<>>, f.payload) = FirstParts(f, f.ordering + 1)
    BY <2>2, LastPart
  <2>4. Append(<<>>, f.payload) = <<f.payload>>
    BY ProperFields
  <2> QED BY <1>1, <2>1, <2>3, <2>4
<1> QED BY <1>2, <1>3

\* A frame arrives.
LEMMA FifoReceives ==
    ASSUME TypeOK, InLine(line), FifoInv, Len(line) > 1,
           line[1] # CORRUPT, line' = Tail(line), Receives(line[1])
    PROVE  /\ FifoInv'
           /\ delivered' = delivered \/ LastDelivered < LastDelivered'
<1>f. PICK f : f = line[1]
  OBVIOUS
<1>h. PICK h : h = line[2]
  OBVIOUS
<1>1. /\ line \in Seq(Signal) /\ Len(line) \in Nat /\ line # <<>>
      /\ 1 \in 1 .. Len(line) /\ 2 \in 1 .. Len(line) /\ 1 < 2 /\ 1 < Len(line)
  BY LenProperties DEF InLine
<1>2. /\ Proper(f) /\ h # CORRUPT /\ Proper(h) /\ Before(f, h) /\ Follows(h, f)
      /\ LastDelivered < f.payload.datagram /\ Receives(f)
  BY <1>f, <1>h, <1>1 DEF InLine, FifoInv
<1>3. line'[1] = h
  BY <1>h, LineTail
<1>4. \A i \in 1 .. Len(line') :
         Before(f, line'[i]) /\ Proper(line'[i]) /\ LastDelivered < line'[i].payload.datagram
  <2> SUFFICES ASSUME NEW i \in 1 .. Len(line')
               PROVE  /\ Before(f, line'[i]) /\ Proper(line'[i])
                      /\ LastDelivered < line'[i].payload.datagram
    OBVIOUS
  <2>1. line'[i] = line[i + 1] /\ i + 1 \in 1 .. Len(line) /\ 1 < i + 1
    BY <1>1, HeadTailProperties
  <2> QED BY <1>f, <1>1, <2>1 DEF InLine, FifoInv
<1>5. recId' = f.id
  BY <1>2 DEF Receives
<1>6. corrupt \/ Attuned(f)
  BY <1>f DEF FifoInv
<1>7. CASE Continues(f) \/ Starts(f)
  <2>1. /\ buffer' = FirstParts(f, f.ordering + 1)
        /\ ordering' = f.ordering + 1
        /\ f.isLast => delivered' = buffer' /\ LastDelivered' = f.payload.datagram
        /\ ~ f.isLast => delivered' = delivered
    <3>1. /\ ordering' = f.ordering + 1
          /\ f.isLast => LastDelivered' = f.payload.datagram
      BY <1>2, <1>7, Accepted
    <3>2. buffer' = FirstParts(f, f.ordering + 1)
      BY <1>2, <1>6, <1>7, AcceptedParts
    <3>3. /\ f.isLast => delivered' = buffer'
          /\ ~ f.isLast => delivered' = delivered
      BY <1>2, <1>7 DEF Receives
    <3> QED BY <3>1, <3>2, <3>3
  <2>2. CASE f.isLast
    <3>1. IsWhole(delivered')
      BY <1>2, <2>1, <2>2, AllPartsAreWhole
    <3>2. \A i \in 1 .. Len(line') : f.payload.datagram < line'[i].payload.datagram
      <4> SUFFICES ASSUME NEW i \in 1 .. Len(line')
                   PROVE  f.payload.datagram < line'[i].payload.datagram
        OBVIOUS
      <4>1. Before(f, line'[i]) /\ Proper(line'[i])
        BY <1>4
      <4>2. /\ f.payload.datagram <= line'[i].payload.datagram
            /\ line'[i].payload.datagram = f.payload.datagram =>
                  f.ordering < line'[i].ordering /\ line'[i].ordering < f.payload.parts
        BY <1>2, <4>1, BeforeFields
      <4>3. /\ f.ordering + 1 = f.payload.parts /\ f.ordering \in Nat
            /\ line'[i].ordering \in Nat
            /\ f.payload.datagram \in Nat /\ line'[i].payload.datagram \in Nat
        BY <1>2, <2>2, <4>1, ProperFields
      <4> QED BY SMTT(60), <4>2, <4>3
    <3>3. Attuned(h)'
      BY <1>2, <1>5, <2>2 DEF Attuned, Follows
    <3>4. line'[1] = CORRUPT \/ (Attuned(line[1]))'
      BY <1>3, <3>3 DEF Attuned
    <3> QED BY <1>2, <2>1, <2>2, <3>1, <3>2, <3>4 DEF FifoInv
  <2>3. CASE ~ f.isLast
    <3>1. SameDatagram(f, h) /\ h.ordering = f.ordering + 1
      BY <1>2, <2>3 DEF Follows
    <3>2. FirstParts(f, f.ordering + 1) = FirstParts(h, f.ordering + 1)
      BY <1>2, <3>1, SameParts
    <3>3. h.ordering \in Nat
      BY <1>2, ProperFields
    <3>4. Attuned(h)'
      BY <1>5, <2>1, <3>1, <3>2, <3>3 DEF Attuned, SameDatagram
    <3>5. (Attuned(line[1]))'
      BY <1>3, <3>4 DEF Attuned
    <3>6. delivered' = delivered /\ LastDelivered' = LastDelivered
      BY <2>1, <2>3 DEF LastDelivered
    <3> QED BY <1>4, <3>5, <3>6 DEF FifoInv
  <2> QED BY <2>2, <2>3
<1>8. CASE ~ (Continues(f) \/ Starts(f))
  <2>1. corrupt' = TRUE /\ delivered' = delivered
    BY <1>2, <1>8 DEF Receives
  <2>2. LastDelivered' = LastDelivered
    BY <2>1 DEF LastDelivered
  <2> QED BY <1>4, <2>1, <2>2 DEF FifoInv
<1> QED BY <1>7, <1>8

\* A frame is lost that is not the first of its datagram.
LEMMA FifoLoses ==
    ASSUME TypeOK, InLine(line), FifoInv, Len(line) > 1,
           line[1] # CORRUPT, line[1].ordering # 0, line' = Tail(line), UNCHANGED receiver
    PROVE  FifoInv'
<1>f. PICK f : f = line[1]
  OBVIOUS
<1>h. PICK h : h = line[2]
  OBVIOUS
<1>1. /\ line \in Seq(Signal) /\ Len(line) \in Nat /\ line # <<>>
      /\ 1 \in 1 .. Len(line) /\ 2 \in 1 .. Len(line) /\ 1 < 2 /\ 1 < Len(line)
  BY LenProperties DEF InLine
<1>2. Proper(f) /\ h # CORRUPT /\ Proper(h) /\ Before(f, h) /\ Follows(h, f)
  BY <1>f, <1>h, <1>1 DEF InLine
<1>3. line'[1] = h
  BY <1>h, LineTail
<1>4. \A i \in 1 .. Len(line') : LastDelivered < line'[i].payload.datagram
  <2> SUFFICES ASSUME NEW i \in 1 .. Len(line')
               PROVE  LastDelivered < line'[i].payload.datagram
    OBVIOUS
  <2>1. line'[i] = line[i + 1] /\ i + 1 \in 1 .. Len(line) /\ 1 < i + 1
    BY <1>1, HeadTailProperties
  <2> QED BY <2>1 DEF InLine, FifoInv
<1>5. CASE corrupt
  BY <1>4, <1>5 DEF FifoInv, receiver, LastDelivered
<1>6. CASE ~ corrupt
  <2>1. f.id = recId /\ ordering <= f.ordering /\ buffer = FirstParts(f, ordering)
    BY <1>f, <1>6 DEF FifoInv, Attuned
  <2>2. Attuned(h)
    <3>1. CASE f.isLast
      BY <1>2, <2>1, <3>1 DEF Follows, Attuned
    <3>2. CASE ~ f.isLast
      <4>1. SameDatagram(f, h) /\ h.ordering = f.ordering + 1
        BY <1>2, <3>2 DEF Follows
      <4>2. FirstParts(f, ordering) = FirstParts(h, ordering)
        BY <1>2, <4>1, SameParts
      <4>3. f.ordering \in Nat /\ ordering \in Nat
        BY <1>2, ProperFields, LinkAssumption DEF TypeOK
      <4> QED BY <2>1, <4>1, <4>2, <4>3 DEF Attuned, SameDatagram
    <3> QED BY <3>1, <3>2
  <2>3. (Attuned(line[1]))'
    BY <1>3, <2>2 DEF Attuned, receiver
  <2> QED BY <1>4, <2>3 DEF FifoInv, receiver, LastDelivered
<1> QED BY <1>5, <1>6

\* A datagram is transmitted or dropped.
LEMMA FifoSends ==
    ASSUME TypeOK, InLine(line), FifoInv, NEW s, NEW fs, NEW v2, Sends(s, fs, v2)
    PROVE  FifoInv'
<1> DEFINE m == Len(s)
<1>1. /\ Proper(NextFrame) /\ NextFrame.ordering = 0 /\ NextFrame.payload.datagram \in Nat
      /\ NextFrame # CORRUPT /\ NextFrame \in Signal
  BY NextFrameIs, ProperFields
<1>2. /\ s \in Seq(Signal) /\ Replaces(fs, v2, NextFrame)
      /\ line = Append(s, NextFrame) /\ line' = Append(s \o fs, v2)
      /\ UNCHANGED receiver /\ m \in Nat
  BY LenProperties DEF Sends
<1>3. InLine(Append(s, NextFrame))
  BY <1>2
<1>4. /\ line'[m + 1].id = NextFrame.id /\ line'[m + 1].ordering = 0
      /\ \A i \in 1 .. Len(line') : i > m =>
            NextFrame.payload.datagram <= line'[i].payload.datagram
      /\ Len(line) = m + 1
      /\ \A i \in 1 .. m : line'[i] = line[i]
      /\ InLine(line')
  <2>1. /\ Longer(m, NextFrame, Append(s, NextFrame), Append(s \o fs, v2))
        /\ InLine(Append(s \o fs, v2))
    BY <1>1, <1>2, <1>3, LineLonger
  <2>2. Longer(m, NextFrame, line, line') /\ InLine(line')
    BY <1>2, <2>1
  <2> QED BY <2>2 DEF Longer
<1>5. line[m + 1] = NextFrame /\ m + 1 \in 1 .. Len(line)
  BY <1>1, <1>2, <1>4, AppendProperties
<1>6. LastDelivered < NextFrame.payload.datagram
  BY <1>1, <1>5 DEF FifoInv
<1>7. LastDelivered \in Int
  <2>1. CASE delivered = <<>>
    BY <2>1 DEF LastDelivered
  <2>2. CASE delivered # <<>>
    <3>1. delivered[Len(delivered)] \in Payload
      <4>1. delivered \in Seq(Payload)
        BY DEF TypeOK
      <4>2. Len(delivered) \in 1 .. Len(delivered)
        BY <2>2, <4>1, EmptySeq, LenProperties
      <4> QED BY <4>1, <4>2, ElementOfSeq
    <3> QED BY <2>2, <3>1 DEF LastDelivered, Payload
  <2> QED BY <2>1, <2>2
<1>8. \A i \in 1 .. Len(line') : line'[i] # CORRUPT => LastDelivered < line'[i].payload.datagram
  <2> SUFFICES ASSUME NEW i \in 1 .. Len(line'), line'[i] # CORRUPT
               PROVE  LastDelivered < line'[i].payload.datagram
    OBVIOUS
  <2>1. CASE i > m
    <3>1. line'[i].payload.datagram \in Nat
      BY <1>4, ProperFields DEF InLine
    <3>2. NextFrame.payload.datagram <= line'[i].payload.datagram
      BY <1>4, <2>1
    <3> QED BY <1>1, <1>6, <1>7, <3>1, <3>2
  <2>2. CASE ~ i > m
    <3>1. i \in 1 .. m /\ i \in 1 .. Len(line)
      BY <1>2, <1>4, <2>2
    <3> QED BY <1>4, <3>1 DEF FifoInv
  <2> QED BY <2>1, <2>2
<1>9. corrupt \/ line'[1] = CORRUPT \/ (Attuned(line[1]))'
  <2>1. CASE m = 0
    <3>1. line[1] = NextFrame /\ line'[1].id = NextFrame.id /\ line'[1].ordering = 0
      BY <1>4, <1>5, <2>1
    <3>2. corrupt \/ Attuned(NextFrame)
      BY <1>1, <3>1 DEF FifoInv
    <3>3. CASE NextFrame.id # recId
      BY <1>2, <3>1, <3>3 DEF Attuned, receiver
    <3>4. CASE NextFrame.id = recId /\ Attuned(NextFrame)
      <4>1. ordering = 0
        BY <1>1, <3>4, LinkAssumption DEF Attuned, TypeOK
      <4>2. buffer = <<>>
        <5>1. buffer = FirstParts(NextFrame, 0)
          BY <3>4, <4>1 DEF Attuned
        <5> QED BY <5>1, NoParts
      <4>3. \A h : buffer = FirstParts(h, 0)
        BY <4>2, NoParts
      <4>4. buffer = FirstParts(line'[1], 0)
        BY <4>3
      <4>5. buffer' = buffer /\ ordering' = ordering /\ recId' = recId
        BY <1>2 DEF receiver
      <4> QED BY <3>1, <3>4, <4>1, <4>4, <4>5 DEF Attuned
    <3> QED BY <3>2, <3>3, <3>4
  <2>2. CASE m > 0
    <3>1. line'[1] = line[1]
      BY <1>2, <1>4, <2>2
    <3> QED BY <1>2, <3>1 DEF FifoInv, Attuned, receiver
  <2> QED BY <1>2, <2>1, <2>2
<1> QED BY <1>2, <1>8, <1>9 DEF FifoInv, receiver, LastDelivered

LEMMA FifoStays ==
    ASSUME TypeOK, InLine(line), InLine(line'), FifoInv, Moves, [KeepsFirst]_vars
    PROVE  /\ FifoInv'
           /\ delivered' = delivered \/ LastDelivered < LastDelivered'
<1>1. CASE line' = line /\ UNCHANGED receiver
  BY <1>1 DEF FifoInv, Attuned, receiver, LastDelivered
<1>2. ASSUME NEW s, NEW fs, NEW v2, Sends(s, fs, v2)
      PROVE  FifoInv' /\ delivered' = delivered
  BY <1>2, FifoSends DEF Sends, receiver
<1>3. CASE Len(line) > 1 /\ Lose /\ line' = Tail(line) /\ UNCHANGED receiver
  <2>1. wire # <<>> /\ wire' # wire
    <3>1. wire # <<>> /\ wire' = Tail(wire) /\ wire \in Seq(Signal)
      BY <1>3 DEF Lose, TypeOK, Signal
    <3>2. Len(Tail(wire)) # Len(wire)
      <4>1. Len(Tail(wire)) = Len(wire) - 1 /\ Len(wire) \in Nat
        BY <3>1, HeadTailProperties, LenProperties
      <4> QED BY <4>1
    <3> QED BY <3>1, <3>2
  <2>2. Head(wire) # CORRUPT /\ Head(wire).ordering # 0
    BY <1>3, <2>1 DEF KeepsFirst, vars
  <2>3. line[1] # CORRUPT /\ line[1].ordering # 0
    BY <2>1, <2>2, HeadOfLine
  <2> QED BY <1>3, <2>3, FifoLoses DEF receiver
<1>4. CASE Len(line) > 1 /\ line[1] # CORRUPT /\ line' = [line EXCEPT ![1] = CORRUPT]
           /\ UNCHANGED receiver
  <2>1. line \in Seq(Signal) /\ CORRUPT \in Signal /\ 1 \in 1 .. Len(line)
    BY <1>4, LenProperties DEF InLine, Signal
  <2>2. /\ Len(line') = Len(line)
        /\ \A i \in 1 .. Len(line) : line'[i] = IF i = 1 THEN CORRUPT ELSE line[i]
    BY <1>4, <2>1, ExceptSeq
  <2>3. line'[1] = CORRUPT
    BY <2>1, <2>2
  <2>4. \A i \in 1 .. Len(line') : line'[i] # CORRUPT => LastDelivered < line'[i].payload.datagram
    BY <2>2 DEF FifoInv
  <2> QED BY <1>4, <2>3, <2>4 DEF FifoInv, receiver, LastDelivered
<1>5. CASE Len(line) > 1 /\ line[1] = CORRUPT /\ line' = Tail(line) /\ corrupt' = TRUE
           /\ UNCHANGED <<recId, ordering, buffer, arrived, delivered>>
  <2>1. line \in Seq(Signal) /\ line # <<>>
    BY <1>5, LenProperties DEF InLine
  <2>2. \A i \in 1 .. Len(line') : line'[i] = line[i + 1] /\ i + 1 \in 1 .. Len(line)
    BY <1>5, <2>1, HeadTailProperties, LenProperties
  <2>3. \A i \in 1 .. Len(line') : line'[i] # CORRUPT => LastDelivered < line'[i].payload.datagram
    BY <2>2 DEF FifoInv
  <2> QED BY <1>5, <2>3 DEF FifoInv, LastDelivered
<1>6. CASE Len(line) > 1 /\ line[1] # CORRUPT /\ line' = Tail(line) /\ Receives(line[1])
  BY <1>6, FifoReceives
<1> QED BY <1>1, <1>2, <1>3, <1>4, <1>5, <1>6 DEF Moves

LEMMA FifoInit ==
    ASSUME Init, TypeOK
    PROVE  FifoInv
<1>1. /\ Len(line) = 1 /\ line[1] = NextFrame
  BY LineInit
<1>2. NextFrame.ordering = 0 /\ NextFrame.payload.datagram = 0 /\ NextFrame.id = FrameId(0)
  BY NextFrameIs DEF Init
<1>3. FrameId(0) = 0
  BY FrameIdLimit DEF FrameId
<1>4. /\ delivered = <<>> /\ buffer = <<>> /\ ordering = 0 /\ recId = 0
  BY DEF Init
<1>5. LastDelivered = -1
  BY <1>4 DEF LastDelivered
<1>6. Attuned(line[1])
  <2>1. \A h : buffer = FirstParts(h, 0)
    BY <1>4, NoParts
  <2> QED BY <1>1, <1>2, <1>3, <1>4, <2>1 DEF Attuned
<1>7. \A i \in 1 .. Len(line) : line[i] # CORRUPT => LastDelivered < line[i].payload.datagram
  <2> SUFFICES ASSUME NEW i \in 1 .. Len(line) PROVE LastDelivered < line[i].payload.datagram
    OBVIOUS
  <2>1. i = 1
    BY <1>1
  <2> QED BY <1>1, <1>2, <1>5, <2>1
<1> QED BY <1>4, <1>6, <1>7 DEF FifoInv

\* What is delivered has been transmitted.
LEMMA DeliveredIsSent ==
    ASSUME TypeOK, InLine(line), FifoInv
    PROVE  /\ LastDelivered \in Int /\ LastDelivered < transmitted
           /\ Received = LastDelivered
<1>1. LastDelivered \in Int
  <2>1. CASE delivered = <<>>
    BY <2>1 DEF LastDelivered
  <2>2. CASE delivered # <<>>
    <3>1. delivered \in Seq(Payload)
      BY DEF TypeOK
    <3>2. Len(delivered) \in 1 .. Len(delivered)
      BY <2>2, <3>1, EmptySeq, LenProperties
    <3>3. delivered[Len(delivered)] \in Payload
      BY <3>1, <3>2, ElementOfSeq
    <3> QED BY <2>2, <3>3 DEF LastDelivered, Payload
  <2> QED BY <2>1, <2>2
<1>2. line[Len(line)] = NextFrame /\ Len(line) \in 1 .. Len(line)
  <2>1. NextFrame \in Signal
    BY NextFrameIs, ProperFields
  <2>2. wire \o queue \in Seq(Signal)
    BY ConcatProperties DEF TypeOK, Signal
  <2> QED BY <2>1, <2>2, AppendProperties, LenProperties DEF line
<1>3. LastDelivered < transmitted
  <2>1. NextFrame.payload.datagram = transmitted /\ NextFrame # CORRUPT
    BY NextFrameIs, ProperFields
  <2> QED BY <1>2, <2>1 DEF FifoInv
<1>4. Received = LastDelivered
  BY DEF Received, FifoInv, LastDelivered
<1> QED BY <1>1, <1>3, <1>4

LEMMA TransmittedSteps ==
    ASSUME [Next]_vars
    PROVE  \/ transmitted' = transmitted + 1 /\ delivered' = delivered
           \/ transmitted' = transmitted
<1>1. CASE \E size \in 1 .. MaxFrames : link_transmit(size)
  BY <1>1 DEF link_transmit, receiver
<1>2. CASE Drop
  BY <1>2 DEF Drop, receiver
<1>3. CASE \E accepted \in BOOLEAN : LinkTimer(accepted)
  BY <1>3 DEF LinkTimer
<1>4. CASE ReceiveCorrupt \/ link_receive \/ Lose \/ Corrupt
  BY <1>4 DEF ReceiveCorrupt, link_receive, Lose, Corrupt, sender
<1>5. CASE UNCHANGED vars
  BY <1>5 DEF vars, sender
<1> QED BY <1>1, <1>2, <1>3, <1>4, <1>5 DEF Next

FifoAll == IInv /\ InLine(line) /\ FifoInv

LEMMA FifoAllInit == Init => FifoAll
<1>1. Init => IInv
  BY InitIInv
<1> QED BY <1>1, LineInit, FifoInit DEF IInv, FifoAll

LEMMA FifoAllStays ==
    FifoAll /\ [Next]_vars /\ [KeepsFirst]_vars
        => FifoAll' /\ (delivered' = delivered \/ LastDelivered < LastDelivered')
<1> SUFFICES ASSUME IInv, InLine(line), FifoInv, [Next]_vars, [KeepsFirst]_vars
             PROVE  FifoAll' /\ (delivered' = delivered \/ LastDelivered < LastDelivered')
  BY DEF FifoAll
<1>1. IInv'
  BY NextIInv
<1>2. Moves
  BY <1>1, StepMoves
<1>3. InLine(line')
  BY <1>2, LineStays DEF IInv
<1> QED BY <1>1, <1>2, <1>3, FifoStays DEF IInv, FifoAll

\* The link is a lossy FIFO of whole datagrams, for every number of ids, of faults
\* and of datagrams, and however the counter of the ids wraps, if no first frame
\* of a datagram is lost without a trace (link_receive): finding 2 is the only way
\* in which it is not.
THEOREM LinkIsLossyFifo == Spec /\ [][KeepsFirst]_vars => LossyFifoSpec
<1>1. Init => Service!Init
  BY DEF Init, Service!Init, Received
<1>2. FifoAll => LastDelivered \in Int /\ LastDelivered < transmitted /\ Received = LastDelivered
           /\ transmitted \in Nat
  BY DeliveredIsSent DEF FifoAll, IInv, TypeOK
<1>3. FifoAll /\ FifoAll' /\ [Next]_vars /\ (delivered' = delivered \/ LastDelivered < LastDelivered')
        => [Service!Next]_(Service!channel)
  <2> SUFFICES ASSUME FifoAll, FifoAll', [Next]_vars,
                      delivered' = delivered \/ LastDelivered < LastDelivered'
               PROVE  [Service!Next]_(Service!channel)
    OBVIOUS
  <2>1. /\ LastDelivered \in Int /\ LastDelivered < transmitted /\ Received = LastDelivered
        /\ transmitted \in Nat
    BY <1>2
  <2>2. (/\ LastDelivered \in Int /\ LastDelivered < transmitted /\ Received = LastDelivered
         /\ transmitted \in Nat)'
    BY <1>2, PTL
  <2>3. CASE transmitted' = transmitted + 1 /\ delivered' = delivered
    <3>1. LastDelivered' = LastDelivered
      BY <2>3 DEF LastDelivered
    <3> QED BY <2>1, <2>2, <2>3, <3>1 DEF Service!Next, Service!Transmit
  <2>4. CASE transmitted' = transmitted /\ delivered' = delivered
    <3>1. LastDelivered' = LastDelivered
      BY <2>4 DEF LastDelivered
    <3> QED BY <2>1, <2>2, <2>4, <3>1 DEF Service!channel
  <2>5. CASE transmitted' = transmitted /\ LastDelivered < LastDelivered'
    <3>1. Received' \in (Received + 1) .. (transmitted - 1)
      BY <2>1, <2>2, <2>5
    <3> QED BY <2>5, <3>1 DEF Service!Next, Service!Receive
  <2>6. \/ transmitted' = transmitted + 1 /\ delivered' = delivered
        \/ transmitted' = transmitted
    BY TransmittedSteps
  <2> QED BY <2>3, <2>4, <2>5, <2>6
<1> QED
  BY <1>1, <1>3, FifoAllInit, FifoAllStays, PTL DEF Spec, LossyFifoSpec, Service!Spec

\* "Only valid data are transmitted to upper layer" (link.c): under the same
\* condition the network layer gets whole datagrams only.
THEOREM WholeUnlessFirstLost == Spec /\ [][KeepsFirst]_vars => []OnlyWholeDatagrams
<1>1. FifoAll => OnlyWholeDatagrams
  BY DEF FifoAll, FifoInv, OnlyWholeDatagrams
<1> QED BY <1>1, FifoAllInit, FifoAllStays, PTL DEF Spec

=============================================================================
