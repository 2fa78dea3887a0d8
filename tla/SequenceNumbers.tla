-------------------------- MODULE SequenceNumbers --------------------------
(***************************************************************************)
(* The cyclic sequence numbers of the transport layer (transport.c).  A    *)
(* segment is named by the offset of its first byte in the byte stream of  *)
(* its connection, taken modulo MAX_SEGMENT_OFFSET.                        *)
(***************************************************************************)
EXTENDS Integers

CONSTANTS
    SEGMENT_SIZE,         \* largest payload of a segment (1024 in the code)
    MAX_WINDOW_SIZE,      \* largest window, in segments (32 in the code)
    MAX_SEGMENT_OFFSET    \* number of offsets (2^18 in the code)

\* The farthest a window reaches beyond its first byte.
MAX_WINDOW_OFFSET == MAX_WINDOW_SIZE * SEGMENT_SIZE

\* The code has eight windows of offsets; the design paper asks for more than
\* two.
ASSUME SequenceNumbersAssumption ==
    /\ SEGMENT_SIZE \in Nat \ {0}
    /\ MAX_WINDOW_SIZE \in Nat \ {0}
    /\ MAX_SEGMENT_OFFSET \in Nat
    /\ MAX_WINDOW_OFFSET \in Nat
    /\ MAX_SEGMENT_OFFSET > 2 * MAX_WINDOW_OFFSET

Offsets == 0 .. (MAX_SEGMENT_OFFSET - 1)

\* Whether the byte at offset lies before ackOffset, at most a window away:
\* the two disjuncts are the plain and the wrapped order of the two numbers.
acknowledged(offset, ackOffset) ==
    LET o == offset % MAX_SEGMENT_OFFSET
        a == ackOffset % MAX_SEGMENT_OFFSET
    IN  \/ o <= a /\ a - o <= MAX_WINDOW_OFFSET
        \/ (MAX_SEGMENT_OFFSET - o) + a <= MAX_WINDOW_OFFSET

\* The length of the message from startOffset up to endOffset.
distance(startOffset, endOffset) ==
    IF endOffset > startOffset
    THEN endOffset - startOffset
    ELSE (MAX_SEGMENT_OFFSET - startOffset) + endOffset

=============================================================================
