-------------------------------- MODULE Link --------------------------------
(***************************************************************************)
(* One direction of a link (link.c): the sender's queue, its LINK_TIMER    *)
(* and the datagram ids on one side, the reassembly on the other, and the  *)
(* physical link between them, which keeps the order of frames but loses   *)
(* and corrupts some.  The checksum is taken to recognise every corrupt    *)
(* frame.  Datagrams are numbered from 0 in the order of link_transmit; the *)
(* payload of a frame is represented by the number of its datagram, the    *)
(* position in it and the number of frames of the datagram.                *)
(***************************************************************************)
EXTENDS Integers, Sequences, FiniteSets

CONSTANTS
    SendIds,            \* values of the counter sendId (256, a uint8_t)
    MaxFrames,          \* frames of the largest datagram, which fill the buffer
    QueueLimit,         \* queue length at which link_transmit drops (10000)
    WireLimit,          \* frames the physical link holds before it is busy
    MaxDatagrams,       \* bound: datagrams handed to link_transmit
    MaxFaults           \* bound: frames lost or corrupted

\* UINT8_MAX >> 1: an id leaves room for the isLast bit.
FRAME_ID_LIMIT == (SendIds - 1) \div 2

ASSUME LinkAssumption ==
    /\ SendIds \in Nat /\ SendIds >= 6 /\ SendIds % 2 = 0
    /\ MaxFrames \in Nat \ {0}
    /\ QueueLimit \in Nat \ {0}
    /\ WireLimit \in Nat \ {0}
    /\ MaxDatagrams \in Nat
    /\ MaxFaults \in Nat

VARIABLES
    queue,          \* frames that wait for the physical link
    busy,           \* the link is sending, or about to
    timers,         \* pending LINK_TIMER events
    sendId,         \* counter the ids are taken from
    transmitted,    \* history: number of datagrams given to link_transmit
    wire,           \* what travels on the physical link; CORRUPT or a frame
    recId,          \* id of the last received frame
    ordering,       \* expected ordering of the next frame
    corrupt,        \* the current datagram is corrupt
    buffer,         \* input buffer
    arrived,        \* history: the payloads that arrived intact lately
    delivered,      \* history: the buffer handed to network_receive last
    faults          \* frames lost or corrupted so far

sender == <<queue, busy, timers, sendId, transmitted>>

receiver == <<recId, ordering, corrupt, buffer, arrived, delivered>>

vars == <<sender, wire, receiver, faults>>

CORRUPT == [id |-> -1]

Init ==
    /\ queue = <<>>
    /\ busy = FALSE
    /\ timers = 0
    /\ sendId = 0
    /\ transmitted = 0
    /\ wire = <<>>
    /\ recId = 0
    /\ ordering = 0
    /\ corrupt = FALSE
    /\ buffer = <<>>
    /\ arrived = {}
    /\ delivered = <<>>
    /\ faults = 0

-----------------------------------------------------------------------------

\* Mutant of FrameId: the counter itself, without room for the isLast bit.
FrameId_Counter(counter) == counter

FrameId(counter) == counter % FRAME_ID_LIMIT

\* The frames link_transmit splits the next datagram into.
Frames(size) ==
    [i \in 1 .. size |->
        [id |-> FrameId(sendId), ordering |-> i - 1, isLast |-> i = size,
         payload |-> [datagram |-> transmitted, part |-> i - 1, parts |-> size]]]

\* Mutant of transmit_frame: a link that does not accept a frame becomes idle.
transmit_frame_GivesUp(q, accepted) ==
    IF q # <<>>
    THEN /\ accepted => Len(wire) < WireLimit
         /\ queue' = IF accepted THEN Tail(q) ELSE q
         /\ wire' = IF accepted THEN Append(wire, Head(q)) ELSE wire
         /\ busy' = accepted
    ELSE /\ busy' = FALSE
         /\ UNCHANGED <<queue, wire>>

\* transmit_frame with output queue q.  accepted: CNET_write_physical takes the
\* frame; otherwise the link is still busy and the timer is set for a retry.
transmit_frame(q, accepted) ==
    IF q # <<>>
    THEN /\ accepted => Len(wire) < WireLimit
         /\ queue' = IF accepted THEN Tail(q) ELSE q
         /\ wire' = IF accepted THEN Append(wire, Head(q)) ELSE wire
         /\ busy' = TRUE
    ELSE /\ busy' = FALSE
         /\ UNCHANGED <<queue, wire>>

\* The queue has reached its limit: the datagram is dropped and uses no id.
Drop ==
    /\ transmitted < MaxDatagrams
    /\ Len(queue) >= QueueLimit
    /\ transmitted' = transmitted + 1
    /\ UNCHANGED <<queue, busy, timers, sendId, wire, receiver, faults>>

\* A datagram of size frames is queued; an idle link starts at once.
link_transmit(size) ==
    /\ transmitted < MaxDatagrams
    /\ Len(queue) < QueueLimit
    /\ sendId' = (sendId + 1) % SendIds
    /\ transmitted' = transmitted + 1
    /\ LET q == queue \o Frames(size)
       IN  IF busy
           THEN /\ queue' = q
                /\ UNCHANGED <<busy, timers, wire>>
           ELSE /\ \E accepted \in BOOLEAN : transmit_frame(q, accepted)
                /\ timers' = timers + 1
    /\ UNCHANGED <<receiver, faults>>

\* Mutants of LinkTimer: the timer is set only if frames are left; only if the
\* frame was written.
LinkTimer_IfLeft(accepted) ==
    /\ timers > 0
    /\ transmit_frame(queue, accepted)
    /\ timers' = IF queue' # <<>> THEN timers ELSE timers - 1
    /\ UNCHANGED <<sendId, transmitted, receiver, faults>>

LinkTimer_IfWritten(accepted) ==
    /\ timers > 0
    /\ transmit_frame(queue, accepted)
    /\ timers' = IF queue # <<>> /\ accepted THEN timers ELSE timers - 1
    /\ UNCHANGED <<sendId, transmitted, receiver, faults>>

\* link_ready: LINK_TIMER expires.
LinkTimer(accepted) ==
    /\ timers > 0
    /\ transmit_frame(queue, accepted)
    /\ timers' = IF queue # <<>> THEN timers ELSE timers - 1
    /\ UNCHANGED <<sendId, transmitted, receiver, faults>>

-----------------------------------------------------------------------------

\* A corrupt frame spoils the datagram that is being received.
ReceiveCorrupt ==
    /\ wire # <<>>
    /\ Head(wire) = CORRUPT
    /\ wire' = Tail(wire)
    /\ corrupt' = TRUE
    /\ UNCHANGED <<sender, recId, ordering, buffer, arrived, delivered, faults>>

\* Mutant of Continues: a gap in the datagram is not noticed.
Continues_Gap(f) == f.id = recId /\ ~ corrupt

\* Whether frame f goes on with the current datagram or starts a new one.
Continues(f) == f.id = recId /\ ~ corrupt /\ f.ordering = ordering

\* Mutants of Starts: in the middle of a datagram; not after a corrupt one.
Starts_Anywhere(f) == f.id # recId

Starts_IfIntact(f) == f.id # recId /\ f.ordering = 0 /\ ~ corrupt

Starts(f) == f.id # recId /\ f.ordering = 0

\* link_receive, for a frame with a valid checksum.
link_receive ==
    /\ wire # <<>>
    /\ Head(wire) # CORRUPT
    /\ LET f == Head(wire)
           b == IF f.id = recId THEN Append(buffer, f.payload) ELSE <<f.payload>>
       IN  /\ arrived' = {p \in arrived \union {f.payload} :
                             p.datagram >= f.payload.datagram - 1}
           /\ recId' = f.id
           /\ IF Continues(f) \/ Starts(f)
              THEN /\ corrupt' = FALSE
                   /\ buffer' = b
                   /\ ordering' = f.ordering + 1
                   /\ delivered' = IF f.isLast THEN b ELSE delivered
              ELSE /\ corrupt' = TRUE
                   /\ UNCHANGED <<buffer, ordering, delivered>>
    /\ wire' = Tail(wire)
    /\ UNCHANGED <<sender, faults>>

-----------------------------------------------------------------------------

\* The physical link loses the next frame or corrupts it.
Lose ==
    /\ faults < MaxFaults
    /\ wire # <<>>
    /\ wire' = Tail(wire)
    /\ faults' = faults + 1
    /\ UNCHANGED <<sender, receiver>>

Corrupt ==
    /\ faults < MaxFaults
    /\ wire # <<>>
    /\ Head(wire) # CORRUPT
    /\ wire' = <<CORRUPT>> \o Tail(wire)
    /\ faults' = faults + 1
    /\ UNCHANGED <<sender, receiver>>

Next ==
    \/ \E size \in 1 .. MaxFrames : link_transmit(size)
    \/ Drop
    \/ \E accepted \in BOOLEAN : LinkTimer(accepted)
    \/ ReceiveCorrupt
    \/ link_receive
    \/ Lose
    \/ Corrupt

Spec == Init /\ [][Next]_vars

\* Timers expire, the physical link accepts a frame again and again, and what
\* is on the link arrives.
Fairness ==
    /\ WF_vars(\E accepted \in BOOLEAN : LinkTimer(accepted))
    /\ SF_vars(LinkTimer(TRUE))
    /\ WF_vars(link_receive \/ ReceiveCorrupt)

FairSpec == Spec /\ Fairness

-----------------------------------------------------------------------------

Payload ==
    [datagram : Nat, part : 0 .. (MaxFrames - 1), parts : 1 .. MaxFrames]

Frame ==
    [id : 0 .. (FRAME_ID_LIMIT - 1), ordering : 0 .. (MaxFrames - 1),
     isLast : BOOLEAN, payload : Payload]

\* Every variable has its type.
TypeOK ==
    /\ queue \in Seq(Frame)
    /\ busy \in BOOLEAN
    /\ timers \in Nat
    /\ sendId \in 0 .. (SendIds - 1)
    /\ transmitted \in Nat
    /\ wire \in Seq(Frame \union {CORRUPT})
    /\ recId \in 0 .. (FRAME_ID_LIMIT - 1)
    /\ ordering \in 0 .. MaxFrames
    /\ corrupt \in BOOLEAN
    /\ buffer \in Seq(Payload)
    /\ arrived \subseteq Payload
    /\ delivered \in Seq(Payload)
    /\ faults \in Nat

\* A busy link has exactly one LINK_TIMER pending, an idle one none: the
\* assertion of transmit_frame holds, and two timers never send in parallel.
BusyMeansTimer == timers = IF busy THEN 1 ELSE 0

\* No frame is stranded in the queue of an idle link.
IdleMeansEmpty == ~ busy => queue = <<>>

\* The input buffer never holds more than its size (assertion of link_receive);
\* it holds one frame per ordering counted so far.
BufferFits ==
    Len(buffer) <= MaxFrames /\ (~ corrupt => Len(buffer) = ordering)

\* A buffer that holds the frames of one datagram, all of them, in order.
IsWhole(b) ==
    b # <<>> /\ b = [i \in 1 .. b[1].parts |-> [b[1] EXCEPT !.part = i - 1]]

\* "Only valid data are transmitted to upper layer" (link.c): whatever is lost
\* or corrupted, the network layer gets whole datagrams only.
OnlyWholeDatagrams == delivered # <<>> => IsWhole(delivered)

LastDelivered ==
    IF delivered = <<>> THEN -1 ELSE delivered[Len(delivered)].datagram

\* Datagram d is one whose frames have all arrived intact.
ArrivedIntact(d) ==
    LET parts == {p \in arrived : p.datagram = d}
    IN  parts # {} /\ \A p \in parts : Cardinality(parts) = p.parts

\* Errors do not spread: a datagram all of whose frames arrive is handed over,
\* if at least a frame of the datagram before it has arrived.
IntactIsDelivered ==
    \A p, q \in arrived :
        (p.datagram = q.datagram + 1 /\ ArrivedIntact(p.datagram))
            => LastDelivered >= p.datagram

\* Every queued frame is written: the queue drains and the link becomes idle.
QueueDrains == []<>(queue = <<>> /\ ~ busy)

=============================================================================
