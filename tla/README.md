# TLA+ verification of the data-networks-lab protocol stack

The program is a protocol stack for the network simulator *cnet*: C code that
every node of a simulated network runs. It transfers messages between
applications reliably and in order, over links that lose and corrupt frames.
`milestone3.c` is the complete program (application, transport, network with
routing, link); `milestone1.c` and `milestone2.c` are earlier programs with
fewer layers.

This directory holds TLA+ models of it, the TLC configurations that check them
on small instances, and theorems about them that TLAPS proves for all values of
the constants. `PROJECT.json` lists the runs, the lines of code each definition
models, the hazards, the findings and the theorems.

## 1. The system

A node is single threaded: cnet calls one event handler at a time and a handler
runs to its end. Concurrency comes from the other nodes, from what travels
between them and from the timers. All state of a node is in memory and a node
starts once (`reboot_node`): there is no recovery to model.

```
 application          cnet: EV_APPLICATIONREADY, CNET_write_application,
     |                CNET_enable/disable_application
 transport.c          CONNECTION per peer; buffer.c (receive buffer),
     |                dring.c + squeue.c (ends of messages)
 network.c            forwarding table, distance-vector routing with a
     |                reliable protocol between neighbours
 link.c               output queue per link, framing, reassembly
     |
 physical link        cnet: keeps the order, loses and corrupts frames
```

| Component | State | Operations | Hard behaviour | What makes it correct |
|---|---|---|---|---|
| Transport connection (`transport.c`) | `CONNECTION`: receive buffer, ends of messages, unacknowledged segments with their timers, window, threshold, counters | `transport_transmit`, `transmit_segment` (two timers), `transport_receive` | loss, duplicates by retransmission, timers against acknowledgments, a window that collapses under segments in flight, offsets that wrap | messages arrive unchanged, once, in order and in the end; no assertion fails; every segment has at most one timer; the window stays in its bounds |
| Receive buffer (`buffer.c`) | bytes and validity bitmap | `buffer_store`, `buffer_load`, `buffer_check`, `buffer_next_invalid` | wrap; duplicates that overlap valid data | never overwrites valid bytes, never reads invalid ones |
| Double ring (`dring.c`, `squeue.c`) | two sorted queues, `maxFirstRing` | `dring_insert`, `dring_peek`, `dring_pop` | out-of-order inserts around the wrap | pops in the order of the stream |
| Link (`link.c`) | output queue, `busy`, `LINK_TIMER`, ids; `recId`, `ordering`, `corrupt`, buffer | `link_transmit`, `transmit_frame`, `link_receive` | lost and corrupt frames, ids that wrap, a busy physical link, a full queue | a lossy FIFO of whole datagrams; one timer per busy link; the queue drains |
| Link load (`link.c`) | sizes sent in the last 10 s and their sum | `add_load`, `remove_load`, `link_get_load` | the account is brought up to date only when something is sent | sum and entries agree and cover the interval |
| Forwarding (`network.c`) | forwarding table | `network_transmit`, `network_receive`, `network_lookup`, `network_get_bandwidth` | tables of different nodes change at different times while datagrams travel; a missing route; the hop limit | no loop, no datagram lost or expired on its way, a flow keeps its order, the bandwidth of a route is that of its narrowest link |
| Routing (`network.c`) | routing table, per neighbour sequence and acknowledgment numbers and unacknowledged routing segments | `routing_receive`, `routing_timeout`, `transmit_routing_segment`, `update_routing_table` | lost routing segments and acknowledgments, acknowledgments that look like segments, decisions from old weights | announcements are applied once and in order; no segment is let go too early; the exchange ends |
| Node (`milestone3.c`) | event handlers | `application_ready`, `physical_ready`, `link_ready`, `transport_timeout`, `gearing_timeout`, `routing_timeout` | order of events | each handler is the entry of one layer |
| Milestone 1, milestone 2 | a queue and a flag; the link layer alone | `application_ready`, `link_ready`, `transmit`; `link_transmit`, `transmit_frame` | flow control with two thresholds, a timer that stands for the physical link | the queue stays bounded, the application goes on, nothing is written to a busy link |

Interaction: downwards the layers call `network_transmit` and `link_transmit`,
upwards `network_receive` and `transport_receive`; timers call
`transmit_segment`, `transmit_frame` and `transmit_routing_segment`; the
transport layer stops and enables the application, and so does the routing
protocol when it learns of a destination (`network.c:438`).

## 2. The modules

| Module | Models | Uses |
|---|---|---|
| `SequenceNumbers` | offsets, `acknowledged`, `distance` | |
| `CyclicBuffer` | `buffer.c` | |
| `DRing` | `dring.c` over `squeue.c` | |
| `Connection` | one `CONNECTION`: an operator per step of `transport.c` | the three above |
| `Transport` | two nodes and the network between them | `Connection`, refines `ReliableStream` |
| `ReliableStream` | abstract: what the transport layer promises | |
| `MCTransport` | instances for TLC | `Transport` |
| `MessageEnds` | the double ring as `transport_receive` uses it | `DRing` |
| `Link` | one direction of a link | |
| `LossyFifo` | abstract: what the link layer promises | |
| `MCLink` | refinement of `LossyFifo` | `Link` |
| `RoutingTable` | the tables of `network.c` and `update_routing_table` | |
| `DistanceVector` | the algorithm over all nodes, announcements arriving in order and once, the first of a neighbour possibly missed: the abstract specification of `Routing`, the base of `Forwarding` | `RoutingTable` |
| `Routing` | the exchange between neighbours, over links that lose | `RoutingTable`, refines `DistanceVector` |
| `Forwarding` | datagrams over tables that are still being built | `DistanceVector` |
| `MCRouting`, `MCForwarding` | topologies for TLC | the module they name |
| `FlowControl` | `milestone1.c`; `milestone2.c` with the flow control and the load of `link.c` | |
| `ConnectionProofs`, `TransportProofs`, `MessageEndsProofs`, `LinkProofs`, `DistanceVectorProofs`, `RoutingProofs`, `ForwardingProofs`, `FlowControlProofs` | theorems and proofs | the module they name; `MessageEndsProofs` uses the lemmas of `ConnectionProofs` about the ring |

### Transport

`Connection` has one operator per step of the code; each takes a connection and
returns the one the step leaves. `Transport` composes them into one action per
handler:

| Action | Code | Steps, in the order of the code |
|---|---|---|
| `transport_transmit` | `application_ready`, `transport_transmit` | `update_window_limit`, `Enqueue` (split into segments), `Saturated` (stop the application), `transmit_segments` |
| `Timeout` | `transport_timeout`, `gearing_timeout` | `Backoff`, then transmit and start a timer, or defer |
| `transport_receive` | `physical_ready` up to `transport_receive` | `CountDuplicateAck`, `FastRecovery`, `IsNew`, `Store`, `Deliver`, `ProcessAck` (`RemoveAcknowledged`, `Grown`, `transmit_segments`), `Unsaturated` (enable the application), `AckSegment` |
| `Lose`, `RoutingUpdate` | the network in between | a datagram is lost; a routing update enables the application |

The correspondence of state:

- **Bytes.** A byte is its position in the stream of its sender, so that a byte
  in the wrong place is recognised. `sent` and `delivered` are histories.
- **Buffer.** `cell` merges the data array and the bitmap: `INVALID` is a clear
  bit.
- **Timers.** Both timers of a segment have the same handler and a handle is
  only compared with -1, so `timers[o]` counts the pending timers of the segment
  at offset `o` and `timerId` is that offset or `NO_TIMER`. When a timer expires
  is left open: it may expire before an acknowledgment that is on its way. The
  RTT estimate and all durations are thereby abstracted.
- **Acknowledgment time.** Whether more than `ACK_TIME` has passed is the
  parameter `ackDue`; after a fast retransmit in the same handler it is FALSE,
  because `transmit_segment` has just set `lastSendAck`.
- **Loops.** The delivery loop, the removal loop and the growth of the window are
  stated by their result: a prefix of the list, and the one sequence of window
  sizes that follows `Grown`.
- **Assertions.** `failed` collects the assertions that have failed; a node with a
  failed assertion takes no more steps.
- **Window limit.** The share that bandwidth and connections leave is a parameter
  (`WindowShares`); a negative share is a very large one, since `windowLimit` is
  unsigned.
- **Caps.** `timesSend` is only compared with 1 and `ackCounter` with 3; both are
  capped above that.

The network accepts a datagram unless the queue is full (`QueueLimit`), keeps
the order and loses at most `MaxLosses`. An acknowledgment to a peer to which no
route is known yet is dropped by `network_transmit`; here that is a loss.
It keeps the order because links are FIFO and a route never moves (`RouteNeverMoves` of `DistanceVector`; `FlowIntact`
of `Forwarding` says the same of datagrams; both are proved). The transport layer
depends on that: its assertion on acknowledgments (`transport.c:600`) would fail
if one acknowledgment overtook another.

### Message ends

`MessageEnds` inserts ends of messages in any order the window allows and pops
them as the delivery loop does. Positions are absolute in the model; the ring
sees only offsets, and `InStreamOrder` compares both.

### Link

`Link` models both ends of one direction. `transmit_frame` is an operator used by
`link_transmit` (idle link) and by `LinkTimer`. The payload of a frame names its
datagram, so that a datagram put together from two is recognised. The checksum
is taken to recognise every corrupt frame. `arrived` remembers what arrived
intact of the last two datagrams; `delivered` is the buffer handed up last.
`SendIds`, the number of values of the counter, is 256 in the code; the model asks
for an even number of at least 6, so that neighbouring ids differ.

### Routing

`RoutingTable` holds the four tables of every node, of which `announced` is a
history: what a node has broadcast so far, in order. `update_routing_table` is
one operator, with its broadcast: entry, forwarding decision, announcement,
`CNET_enable_application`. A node starts with the announcement of itself and
answers one announcement by at most one of its own, so that a routing segment
carries one `DISTANCE_INFO` or none.

`DistanceVector` has two actions. `Apply`: a node applies the next announcement of
a neighbour. `MissFirst`: it takes an acknowledgment for the first one, which is
what `routing_receive` does with an acknowledgment of sequence number 0 as long as
it waits for segment 0. `DVSpec` allows both, `ReliableDVSpec` only the first.
`Routing` replaces them by the protocol:

| Action | Code | Steps, in the order of the code |
|---|---|---|
| `routing_receive` | `physical_ready` up to `routing_receive` | acknowledged segments and their timers go (`Unacknowledged`, `StillTimed`); if in order, `nextAckNum` grows and the information is applied (`ApplyInfo`); then a broadcast on all links, an acknowledgment, or nothing |
| `RoutingTimeout` | `routing_timeout` | the segment is sent again with the acknowledgment that is due now, and timed again |
| `Lose` | | the link loses a routing segment |

- **Sequence numbers.** A broadcast gives each neighbour the same number of
  segments, so the i-th segment on every link carries the i-th announcement and
  `nextSeqNum` is `Len(announced[n])`. A segment is its number; what it carries is
  looked up in `announced`. The vector of unacknowledged segments is kept in the
  order of their numbers, so a set of numbers stands for it, and the loop that
  removes from its front while the number is below the acknowledgment removes
  the numbers below it.
- **Timers.** All run equally long (100 ms): those of one node expire in the order
  they were started, a sequence `timers[n]`, from which `Sift` takes the stopped
  ones. A timer may expire while segments are under way, and on the slow links of
  the topologies (25.6 and 256 kbps, shared with data) it does. `MaxUnderWay` is a bound
  for TLC that the code lacks: a timer expires only while fewer segments than that
  are on its link, both directions together. It is two in `Routing`, so that
  retransmissions and duplicates mix with newer segments; the theorems hold for
  every value.
- **Pure acknowledgments** have sequence number 0 and no information
  (`DistanceAck`), and an in-order one is counted by `nextAckNum` as in the code.
- **Refinement.** `nextAckNum` implements `applied`. `AnnouncementsApplied` says that
  the protocol implements `DVSpec`, whatever is lost. `ReliableRouting` (`ReliableDVSpec`,
  nothing is missed) is what the design promises; `RoutingLostSegment` shows where the
  protocol falls short of it, and a theorem under which condition it holds.
- **End of the exchange.** `RoutingTerminates` says that the timers run out and that
  every node has the application enabled for its neighbours and for all that its
  neighbours have found, but for a neighbour whose first announcement it has
  `Missed` (finding 3).
- **Weights** are taken not to overflow an `int`. A hop doubles the weight; the
  slowest link weighs 390 (25.6 kbps, in `saarnet-8a` with `linktypes2.txt`) and 39 in the
  other topologies, so that it takes at least 22 hops. The largest diameter is 10,
  but a route is the first one found and may be longer, up to 42 hops in the 43
  nodes of `saarnet-8a`: not excluded, and not modelled.
- **Topology.** Two nodes share at most one link and no node is its own neighbour.

### Forwarding

`Forwarding` extends `DistanceVector` by datagrams: `network_transmit` sends one to
any destination at any time, as the code does: the application is enabled for
destinations with a route only, but the transport layer acknowledges whatever
arrives, perhaps before there is a route back. Without a route the datagram is
dropped there and counted in `unrouted`. `network_receive` drops a datagram
(`hoplimit`), hands it up or forwards it with the table of that moment.
`Announcement` is `Apply` or, at the links of `MayMiss`, `MissFirst`, with the
datagrams left alone. Announcements and datagrams may overtake each other, which is more than the shared queue of a
link allows. `expired` records that the hop limit has ended a datagram. Without a
route a node on the way would call `link_transmit` with link -1; the model has no such
step, since `NextHopHasRoute` excludes it (and TLC would stop with an error).

### Milestones 1 and 2

`FlowControl` models both programs in one module, `program` says which: they share
the thresholds, the timer and the physical link. A frame is its size, and its
size is its transmission time; time is discrete and `Tick` may not pass a timer
that is due. `timeout` is the transmission delay plus `LINK_DELAY`; the physical link
is busy for the delay, possibly rounded up. In milestone 1 a busy link is an
error: `CNET_write_physical` returns -1, which is never `ER_TOOBUSY` (`milestone1.c:96`), so
the branch that would wait is dead and `CHECK` would end the node (`failed`). In
`link.c` the same case polls after one microsecond. The account of the load
(`add_load`, `remove_load`) is kept by the milestone 2 part; `sentLately` is a
history of what was really sent within the interval.

## 3. Runs

`CHECK_DEADLOCK FALSE` in all of them: the bounds on messages and datagrams stop
the models, and a node with nothing to send really stops.

| Run | Question | Bounds |
|---|---|---|
| `TransportStream` | does the transport layer implement `ReliableStream` over a network that loses? do the assertions hold, is the receive buffer safe, also when a routing update enables a stopped application? | three messages of 1 or 4 bytes, segments of 2 bytes, window of 2, 9 offsets, one loss, one update, queues of two datagrams that drop: two segments and two acknowledgments in flight at a time, the offsets wrap, and messages end inside and between segments |
| `TransportWindow` | do window, timers, `timerId` and `numSentSegments` stay consistent? | five segments in a window of 3 against a message of the peer, queues of one datagram that drop, any retransmission timer at any time: reaches back-off, deferral and fast retransmit |
| `TransportDelivery` | is everything delivered, and does every application go on? | one message each way, one loss, fairness |
| `MessageEnds` | does the double ring keep the order of the stream? | window 4, 12 offsets, messages up to the window, 30 positions: two wraps |
| `Link` | is the link a lossy FIFO; one timer, no overflow, no spreading error; does it drain? | 8 counter values, so that ids run 0 1 2 0 1 2 0 1 and wrap with an irregular step as the 256 values do; 9 datagrams, 1 fault, queue limit 2 |
| `Routing` | do the neighbours deliver announcements as `DistanceVector` says, do timers match segments, does the exchange end? | a line of three nodes, one loss anywhere, timers that expire with up to one segment under way on the link, so that two are, fairness: reaches finding 3 |
| `Forwarding` | are the tables sound at every moment, and what travels over them? | a triangle with one slow link, so that the direct link is worse than the way round; two datagrams of one flow, hop limit 2, the number of other nodes; the first announcement may be missed at the two links that lead to the destination (`MayMiss`, `TowardsDestination`) |
| `FlowControl` | are queue, timer, physical link and load consistent, and does the application go on? | thresholds 2 and 5, frames of 1 and 3 units, messages of up to 3 frames, an interval of 8 units: longer than two frames, shorter than a full queue |
| `TransportFastRetransmit` | *violation*: finding 1 | two messages of four segments, one loss |
| `LinkSplice` | *violation*: finding 2 | as `Link`, 2 faults |
| `RoutingLostSegment` | *violation*: finding 3 | a triangle, one loss, and timers that expire on an empty link only: late segments are not needed for it |
| `ForwardsBest` | *violation*: finding 4 | as `Forwarding`, without datagrams |

What the bounds leave out: more than one loss per run in the transport layer
besides the drops of a full queue (a further loss of the same segment only
repeats the back-off), windows beyond 4, and more than two wraps. The queues of
one datagram of `TransportWindow` drop the second of two datagrams that are sent at
once, so that it arrives after a retransmission; those of `TransportStream` hold
two, so that a segment or an acknowledgment may follow another one (`NoStaleAck`
would fail if one overtook the other, which the mutant of `Enqueued` shows). A
segment of one or two bytes is enough to tell a segment's start from its end; a
ring of more than two windows is the proportion the code relies on. For `Routing`
the theorems about its safety bound neither losses nor segments under way; its
liveness is checked within these bounds only. Three nodes are enough for an indirect route and for two routes to choose
from; what holds of the tables of larger networks is proved (section 4).

### Findings

1. **Fast retransmit is not what its comment says** (`transport.c:81`, `531-563`):
   only acknowledgments without data are counted, more than three are needed,
   and the retransmission waits for a segment with data
   (`TransportFastRetransmit`). Traffic in one direction never retransmits fast;
   the retransmission timer covers for it.
2. **Frame ids wrap with a short step** (`link.c:326`): the counter of 256 values is
   taken modulo 127, so after 255 come the ids 0, 1 again right behind 0, 1, and
   two lost frames splice two datagrams (`LinkSplice`). With one fault
   (`Link`) this cannot happen, and with any number of faults only if the first
   frame of a datagram is lost (`LinkIsLossyFifo`, section 4). A spliced datagram reaches the transport layer
   as a segment of wrong contents; the transport layer has no checksum.
3. **An acknowledgment passes for the first routing segment** (`network.c:316`): it
   has sequence number 0, so a node that still waits for the first announcement
   of a neighbour takes it as in order and acknowledges it, whereupon the
   neighbour stops sending the announcement (`RoutingLostSegment`). The node never
   hears of the neighbour on that link, nor is its application enabled for it
   unless another way leads there. In a triangle one lost segment suffices; on a
   line too, if the timer expires while a segment is still under way (`Routing`, where
   `Missed` names the case). If a link loses nothing before its first segment has
   arrived, it cannot happen (`DeliversAnnouncements`, section 4).
4. **The forwarding table does not follow the weights** (`network.c:426`): whether the
   decision changes is decided on the weights before the update, so that only a
   new entry ever changes it. A route stays where it was first heard of
   (`ForwardsBest`; `RouteNeverMoves` and `AnnouncedOnce` are its other side, and
   proved). The transport layer depends on exactly that, see section 2.

### Fairness

- Transport: a pending timer expires (`WF` of `Timeout` for each offset); a
  datagram in the network arrives unless it is lost (`WF` of
  `transport_receive`, losses are bounded); time passes, so that of the segments
  that arrive again and again some arrive more than `ACK_TIME` after the last
  acknowledgment (`SF` of `transport_receive(n, TRUE)`; the timeout of a
  retransmission grows with `timesSend` and exceeds `ACK_TIME`). The application
  is never forced to send.
- Link: timers expire, what is on the physical link arrives, and a physical link
  that is polled again and again accepts a frame (`SF` of `LinkTimer(TRUE)`),
  since cnet makes it busy only for the duration of a transmission.
- Routing: a pending timer expires and a segment arrives unless it is lost (`WF`
  of `RoutingTimeout` and of `routing_receive` for each link; losses are bounded).
  Since a timer waits for room on its link (`MaxUnderWay`), links are taken to carry
  off what is sent: a link so slow that retransmissions alone fill its queue for ever
  is outside.
- FlowControl: time passes and due timers expire (`WF` of the two together, of
  which one is always possible). The application is never forced to send.

## 4. Proofs

Each proof module extends the module it is about; the assumptions are those the
modules name (`SequenceNumbersAssumption`, `ConnectionAssumption`,
`TransportAssumption`, `MessageEndsAssumption`, `LinkAssumption`, `RoutingTableAssumption`,
`DistanceVectorAssumption`, `ForwardingAssumption`, `FlowControlAssumption`): any
sizes of segment, window and offsets with more than two windows of offsets, any
finite network, any bounds. Where a theorem needs more, its hypothesis says so:

| Hypothesis | Of | Meaning |
|---|---|---|
| `MessagesFit` | the sliding window | a message and two windows fit into the offsets; in the code (2^18 offsets, windows of 2^15) messages of up to 196608 bytes |
| `MessageFits` | `EndsInOrder`, `DrainsAll` | the same of `MessageEnds`: `MaxMessageSize` and two windows fit into the offsets |
| `KeepsFirst` | `LinkIsLossyFifo`, `WholeUnlessFirstLost` | no first frame of a datagram is lost without a trace; it may be corrupted |
| `FirstArrives` | `DeliversAnnouncements`, `NeighboursAreKnown` | a link does not lose a segment before the first one is counted: sufficient, not necessary |
| `Cardinality(Node) <= HOP_LIMIT + 1` | `HopLimitSuffices`, `FlowsIntact` | the hop limit reaches across the network |

**`LinkProofs`** proves `TypeOK`, `BusyMeansTimer`, `IdleMeansEmpty` and
`BufferFits` of every behaviour of `Link`. The four together are inductive:
`BusyMeansTimer` is what makes `busy' = TRUE` in `LinkTimer` leave exactly one
timer, `IdleMeansEmpty` needs it when the timer expires with an empty queue, and
`BufferFits` needs the part of `TypeOK` that bounds the ordering of a frame on
the wire. `BufferFits` relates the buffer to the expected ordering, which is
what makes `Len(buffer) <= MaxFrames` inductive: a frame only continues at the
expected ordering, and no frame has an ordering beyond `MaxFrames - 1`. The
invariant splits into a part of the sender, one of the wire and one of the
receiver, and each action disturbs few of them.

What the receiver makes of the frames needs what is on its way: one *line* of
frames, the wire, then the queue, then the first frame of the next datagram
(`InLine`). In it frames follow each other as they were made, and neighbouring
datagrams have different ids, also where the counter wraps (`IdsDiffer`).
`ErrorsDoNotSpread` (`IntactIsDelivered`, whatever is lost or corrupted) rests on
`Heard`: the last frame that arrived left its id with the receiver, and if nothing
of its datagram is missing, the receiver goes on with it or has handed it over.
`LinkIsLossyFifo` and `WholeUnlessFirstLost` rest on `Attuned`: the receiver goes on
with the datagram of the next frame, or that frame starts one. That is not
inductive when a first frame disappears: its datagram may have the id of an
earlier one, which is finding 2. `KeepsFirst` excludes that, and with it the losses
of first frames that do no harm, since no id repeats: it is sufficient, not
necessary.

**`ConnectionProofs`** proves of each operator of `Connection` that it keeps a
connection *healthy*: of its record type, with a window between 1 and
`MAX_WINDOW_SIZE`, a threshold of at least 1, and a limit that is set when
segments are outstanding. The loop that grows the window (`PathBound`) is an
induction over its steps, done by a least counterexample from the well-founded
order of the naturals. It also proves what the sliding window needs of the pieces:
that offsets tell positions apart as long as they lie within a window of each
other (`acknowledged`, `distance`), what a store, a load and the next invalid
position do to the cyclic buffer, and that the double ring pops the ends of
messages in the order of their positions.

**`TransportProofs`**, in its second part, composes these lemmas into one lemma per action and concludes
`TypeOK` and `WindowBounds`. Each is needed for the other: the types of the
segments removed and geared depend on the window being at least 1, and the
growth of the window depends on the type of its limit.

A second invariant, of what is being sent, gives `TimersMatch`, `SentCount` and
`FirstSegmentIsTimed`. The counts alone are not inductive: a timer names its
segment by an offset, so two segments of the same offset in the list would share
it. Segments that are timed lie among the first `MAX_WINDOW_SIZE`, and the list is
contiguous (each segment starts where the one before ends, modulo
`MAX_SEGMENT_OFFSET`); as there are more than two windows of offsets, no two of
them have the same one. Contiguity also shows that `transmit_segment` can tell
the first segment from those behind the window, so that an expiring timer never
leaves the first one without.

The first part of `TransportProofs`, about a stream between two connections, and
the end of the second prove the sliding window:
`NoByteLost`, `AcksNeverStale`, `NeverOverwrites`, `NeverReadsInvalid`,
`HandsOverAtOnce` and `StreamIsReliable`, the refinement of `ReliableStream`. None of
them is inductive, and neither is their conjunction: the code sees offsets, and
that it draws the right conclusions depends on where in the stream everything is.
`InStep` says so of one stream. There are positions `st` at which the sender's
segments start, a number `k` of messages delivered and the first position `r` the
receiver lacks, such that

- the sender keeps everything from `st[1]` on and `st[1] <= r`;
- the receiver has valid bytes between the end of message `k` and the end of the
  sender's window only, all of them up to `r`, not the one at `r`, and no message
  that is complete; its double ring holds exactly the ends it has stored;
- the data in flight lie within a window of both, and what of them lies below `r`
  is recognised as old;
- the acknowledgments in flight stand for positions that rise from `st[1]` to `r`.

`StreamInv` is `InStep` for both streams, with no assertion failed. Every action is a
step of both, of the node's own stream as the sender and of its peer's as the
receiver. `MessagesFit` is needed for the receive buffer: until a message is
complete it stays there, and the window behind it must not reach around the ring.
`TransportDelivery` satisfies it; the instance of `TransportStream` (messages of 4
bytes, windows of 4, 9 offsets) lies outside, and its properties hold there
as well.

**`MessageEndsProofs`** proves `EndsInOrder` (`InStreamOrder`) and `DrainsAll`
(`DrainsComplete`). `EndsInv` says that the ring holds the ends in two ascending
queues, one for each side of a wrap, all of them within a window (`RingHolds`), and
that no message is too long (`NoneTooLong`). The second is what makes the first
inductive: whether a new offset belongs to the first queue is decided from the
last offset of that queue, which may be that of the last end taken out. Between it
and what is complete lies less than one message, since the loop stops only
when nothing complete is left (`Short`); so the new one lies close enough for the
comparison to be right. The ring is in order by itself, then, and not only together
with the sender of `Transport`.
`MessageFits` is close to sharp: the constants of `MessageEnds.cfg` meet it
exactly, they pass with `MAX_SEGMENT_OFFSET` one smaller, and with two smaller (10)
TLC finds `InStreamOrder` violated.

**`DistanceVectorProofs`** rests on who has heard what: a node has told a
destination to everyone who has a finite weight for it over the link to that
node (`FiniteIsTold`), a route goes to a neighbour that has told the destination
(`RouteIsTold`), whatever is announced is the node itself or has a route
(`AnnouncedIsKnown`), and nothing is announced twice (`AnnouncedOnce`). Together
with types they are inductive. The key is `ChangeIsNew`: when information arrives,
the weight over that link is still infinite, because the neighbour announces
each destination once, so the link cannot have been the best one; the only
change is a new entry. `RoutesStay`, `NextHopRoutes` and `RouteFirst` follow.
`MissFirst` harms none of this: what a node misses it never has an entry for over
that link, and that every node has announced something (`AllAnnounce`) is what keeps
`applied` within what was announced.

For the loops (`NoLoops`), the module shows that there is at every moment a rank of the nodes that
have a route to `d`, which falls along every hop and is at most the number of
those nodes (`Ranked`): a node that gets a route is given a rank above all others,
and as routes stay nobody's rank is disturbed. `Way` is a recursive function; that
it exists is shown by a least counterexample, and then each hop uses up a rank.
`RouteHasItsBandwidth` is a second invariant on top of it: the bandwidth a node has
for a route is the smaller of its link's and of what its next hop has, and the
next hop's is the one it announced, since an entry over a chosen link never
changes again. Along the way, by descending rank, that adds up to the minimum.

**`RoutingProofs`** proves of every network, for any number of losses and of
segments under way, that timers and kept segments match and that nothing a
neighbour lacks is let go. Neither is inductive without knowing what travels: a
segment carries the announcement of its number, or none, and acknowledges at
most what its sender has counted (`SegmentsOK`); only announcements are kept
(`SentOK`). `Sift`, by which timers are stopped, is a recursive function; that it
keeps what it should, each timer once, is shown by a least counterexample.

`AppliesAnnouncements` says, without any condition, that `Routing` implements
`DistanceVector`: a segment that is in order and carries information carries the
next announcement (`InOrderCarries`), and one that carries none is an acknowledgment,
in order only where the first segment is awaited. For a finite network all theorems
of `DistanceVectorProofs` about `DVSpec` hold of the protocol, then, whatever is
lost and however late a segment arrives.

`ReliableRouting`, the same without `MissFirst`, is false in general (finding 3).
`FirstArrives` suffices for it: a link does not lose a segment before the neighbour
has counted the first one. Under it the first segment is at the head of its
channel until it is counted (`FirstUnderWay`), so that no acknowledgment, which has
sequence number 0 too, is in order before it. `DeliversAnnouncements` concludes
`ReliableRouting`, and `NeighboursAreKnown` that `NeighbourKnown`, which finding 3
violates, holds. Neither bounds the segments under way: retransmissions that come
too early, duplicates and later losses do no harm. The condition also excludes
losses that would be repaired.

**`ForwardingProofs`** first shows that `Forwarding` implements `DistanceVector`
(`TablesImplemented`), which carries the theorems above over. `HopLimitSuffices`
adds that a datagram on the wire has at least as many hops left as the rank of
the node it travels to. A rank is at most the number of routed nodes, and never
changes while the datagram travels, although new routes are found behind it. With
the limit of 32 the theorem covers networks of up to 33 nodes, `saarnet-1` to
`saarnet-6`; the larger topologies (36 to 48 nodes, diameter 10) rely on their
routes being short.

`FlowsIntact` says that a flow has two parts: what its source sends before it has a
route, all of which is dropped there (`network.c:111`), and the rest, which arrives
complete and in order. Its invariant rests on the hops a datagram has left: since
routes never move, all datagrams of a flow that have as many hops left have come to
the same node and wait on the same link (`Trail`, `OnTrail`); of two, the one with
fewer hops left, or the one in front on the same link, was sent before (`Ordered`);
and each number between those that have come to their end (`Ended`) and those sent
is under way (`IsUnderWay`), so that the next to arrive is the next in order. That
nothing is dropped at the source once something was sent on needs `Counted`: a flow
with more sent than dropped has a route, and routes stay.

**`FlowControlProofs`** proves the types, `OneTimer`, `NeverTooBusy` and
`QueueBounded` together. `NeverTooBusy` says how long the link is busy relative to
the timer (`ready <= timers[i]`), so that it is ready when the timer expires;
`OneTimer` makes that one timer the one of the last frame; and since the frame is
therefore written, the queue shrinks in every `link_ready`.

`LoadAlwaysRecent` (`LoadIsRecent`) is apart from these. `remove_load` looks at the front
of the account only, so its invariant (`Account`) says that the oldest entries come
first; with that, what the loop removes is all that is too old. That `sendBits`
remains the sum of the entries needs the laws of sums (`BitsAppend`, `BitsSplit`),
which follow from the sums of all prefixes; that these exist and are what the
recursive function computes is shown by a least counterexample.

What stays with TLC:

- The link under arbitrary loss: finding 2 shows that the refinement is false there.
- Out of reach: liveness under fairness (`StreamDelivery`, `AppResumes`, `QueueDrains`,
  `RoutingTerminates`), `ENABLED`, and what a recursive definition computes for every
  input (the induction theorems take an operator as a parameter, which the
  installed provers cannot instantiate; where an induction was needed, a least
  counterexample does it). No module uses a `RECURSIVE` operator, since a module
  with a theorem cannot.

## 5. Plan

1. *Done*: transport (`SequenceNumbers`, `CyclicBuffer`, `DRing`, `Connection`,
   `Transport`, `ReliableStream`, `MessageEnds`), link (`Link`, `LossyFifo`), the
   first theorems.
2. *Done*: routing (`RoutingTable`, `DistanceVector`, `Routing`) and forwarding
   (`Forwarding`), with theorems about the tables, loops and the hop limit.
3. *Done*: the earlier programs, the flow control and the load (`FlowControl`).
4. *Done*: theorems about the counts and timers of `Transport`, the bandwidth of
   routes, the routing protocol.
5. *Done*: theorems about the sliding window, flows over the network, the link as a
   lossy FIFO, the load, and the double ring. All that the passing runs check but the
   liveness properties is a theorem now, under the hypotheses above.

## 6. Not modelled

- Header layout and marshalling beyond the fields, the CRC (taken as perfect).
- The RTT estimate (`update_rtt`, `get_timeout`): it only sets how long a timer runs,
  and timers of the transport layer may expire at any time.
- The table of connections (`get_connection`): a node talks to one peer, and a
  connection does not depend on the others but through the share of the window,
  which is a parameter.
- `minMTU`, `busyTime` and `lastStatusChange`, and the quotient that
  `link_get_load` returns: nothing but a log reads them.
- An overflow of the weights, parallel links and restarts of a node: no topology
  of the repository has them.
- Memory allocation, taken to succeed; logging.
- `analyze/`, scripts, topologies and papers: no behaviour of the protocol.
