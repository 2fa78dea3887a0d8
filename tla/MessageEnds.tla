---------------------------- MODULE MessageEnds ----------------------------
(***************************************************************************)
(* The double ring in the use transport_receive makes of it: the end       *)
(* offsets of messages arrive in any order within a window that slides     *)
(* over the cyclic offsets, and are taken out, smallest first, when the    *)
(* bytes before them are complete.  Positions in the stream are absolute   *)
(* here, so that their true order is known; the ring only sees offsets.    *)
(***************************************************************************)
EXTENDS DRing, SequenceNumbers

CONSTANTS
    MaxMessageSize,     \* the longest message
    MaxPosition         \* bound: bytes of the stream

ASSUME MessageEndsAssumption ==
    /\ MaxMessageSize \in Nat \ {0}
    /\ MaxPosition \in Nat

VARIABLES
    ring,       \* the double ring of the connection, lasts
    ends,       \* the positions inserted in the ring and not taken out
    complete,   \* the bytes before this position have arrived
    ahead,      \* the positions behind arrived bytes beyond complete
    delivered   \* the end of the last message taken out

vars == <<ring, ends, complete, ahead, delivered>>

Offset(position) == position % MAX_SEGMENT_OFFSET

Init ==
    /\ ring = dring_new(MAX_WINDOW_OFFSET)
    /\ ends = {}
    /\ complete = 0
    /\ ahead = {}
    /\ delivered = 0

\* The loop of transport_receive goes on.
Draining ==
    dring_peek(ring) # -1 /\ acknowledged(dring_peek(ring), Offset(complete))

\* The largest position whose predecessors have all arrived.
Contiguous(arrived) ==
    Max({p \in complete .. MaxPosition : (complete + 1) .. p \subseteq arrived})

\* No message is longer than MaxMessageSize: of so many positions in a row, one
\* at least is an end or may still turn out to be one.
Fits(position, isLast) ==
    LET arrived == ((delivered + 1) .. complete) \union ahead \union {position}
        inner   == IF isLast THEN arrived \ (ends \union {position})
                             ELSE arrived \ ends
    IN  \A p \in inner : ~ (p .. (p + MaxMessageSize - 1)) \subseteq inner

\* A segment of one byte in the window that has not arrived yet is stored.
Arrive(position, isLast) ==
    /\ ~ Draining
    /\ position > complete
    /\ position <= complete + MAX_WINDOW_OFFSET
    /\ position <= MaxPosition
    /\ position \notin ahead
    /\ Fits(position, isLast)
    /\ ring' = IF isLast THEN dring_insert(ring, Offset(position)) ELSE ring
    /\ ends' = IF isLast THEN ends \union {position} ELSE ends
    /\ complete' = Contiguous(ahead \union {position})
    /\ ahead' = {p \in ahead \union {position} : p > complete'}
    /\ UNCHANGED delivered

\* One round of the loop: the smallest end is taken out.
TakeOut ==
    /\ Draining
    /\ ring' = dring_pop(ring)
    /\ ends' = ends \ {Min(ends)}
    /\ delivered' = Min(ends)
    /\ UNCHANGED <<complete, ahead>>

Next ==
    \/ \E position \in 1 .. MaxPosition, isLast \in BOOLEAN :
          Arrive(position, isLast)
    \/ TakeOut

Spec == Init /\ [][Next]_vars

-----------------------------------------------------------------------------

\* The ring returns its elements in the order of the stream, across the wrap of
\* the offsets: the i-th smallest end is the i-th to be taken out (dring.c: cyclic
\* sequence numbers in two sorted queues).
InStreamOrder ==
    /\ dring_nitems(ring) = Cardinality(ends)
    /\ \A e \in ends :
          PopOrder(ring)[Cardinality({f \in ends : f <= e})] = Offset(e)

\* The loop stops exactly when the next message is incomplete; and taking out
\* many ends at once, as Connection does, is taking out one after the other.
DrainsComplete ==
    /\ Draining <=> \E e \in ends : e <= complete
    /\ PopMany(ring, 0) = ring
    /\ \A n \in 0 .. (dring_nitems(ring) - 1) :
          PopMany(ring, n + 1) = dring_pop(PopMany(ring, n))

=============================================================================
