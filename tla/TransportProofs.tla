-------------------------- MODULE TransportProofs --------------------------
(***************************************************************************)
(* Theorems about Transport, for every size of segments, window, offsets,  *)
(* messages and queue, and for every number of messages, losses and        *)
(* routing updates.  Every step of a node is a composition of the          *)
(* operators of Connection.                                                *)
(***************************************************************************)
EXTENDS Transport, ConnectionProofs

-----------------------------------------------------------------------------
(***************************************************************************)
(* Part I.  A stream of messages between two connections, as Transport     *)
(* uses the operators of Connection: what the sender keeps, what is on its *)
(* way and what the receiver has, and that every operator keeps it so.     *)
(*                                                                         *)
(* The offsets that travel are positions of the stream modulo              *)
(* MAX_SEGMENT_OFFSET.  The lemmas are about the positions: as long as no  *)
(* two of them that meet lie more than a window apart, the offsets say     *)
(* which is which.                                                         *)
(***************************************************************************)

-----------------------------------------------------------------------------
(***************************************************************************)
(* The stream of a sender: the messages q one behind the other, each of    *)
(* them split into pieces, the payloads of its segments.                   *)
(***************************************************************************)

\* The position behind the j-th message.
EndOf(q, j) == IF j = 0 THEN 0 ELSE q[j][Len(q[j])] + 1

IsEnd(q, x) == \E j \in 1 .. Len(q) : x = EndOf(q, j)

\* A message leaves room for two windows of cyclic offsets.
StreamOK(q) ==
    /\ q \in Seq(Seq(Nat))
    /\ \A j \in 0 .. Len(q) : EndOf(q, j) \in Nat
    /\ \A i, j \in 0 .. Len(q) : i < j => EndOf(q, i) < EndOf(q, j)
    /\ \A j \in 1 .. Len(q) :
          /\ q[j] = Interval(EndOf(q, j - 1), EndOf(q, j))
          /\ EndOf(q, j) + 2 * MAX_WINDOW_OFFSET
               <= EndOf(q, j - 1) + MAX_SEGMENT_OFFSET

\* A segment carries the bytes from position a up to position b.
Piece(q, a, b) ==
    \E j \in 1 .. Len(q), i \in Nat :
        /\ a = EndOf(q, j - 1) + i * SEGMENT_SIZE
        /\ a < EndOf(q, j)
        /\ b = AtMost(a + SEGMENT_SIZE, EndOf(q, j))

LEMMA WindowHoldsSegment ==
    SEGMENT_SIZE <= MAX_WINDOW_OFFSET /\ MAX_WINDOW_OFFSET >= 1
<1> DEFINE S == SEGMENT_SIZE
           W == MAX_WINDOW_SIZE
<1>1. S \in Nat /\ S >= 1 /\ W \in Nat /\ W >= 1
  BY Constants
<1>2. MAX_WINDOW_OFFSET = W * S
  BY DEF MAX_WINDOW_OFFSET
<1> HIDE DEF S, W
<1>3. W * S >= S
  BY <1>1
<1> QED BY <1>1, <1>2, <1>3 DEF S

LEMMA PieceProperties ==
    ASSUME NEW q, StreamOK(q), NEW a, NEW b, Piece(q, a, b)
    PROVE  /\ a \in Nat /\ b \in Nat
           /\ a < b
           /\ b <= a + SEGMENT_SIZE
           /\ b <= a + MAX_WINDOW_OFFSET
           /\ b <= EndOf(q, Len(q))
           /\ \A j \in 0 .. Len(q) : EndOf(q, j) <= a \/ b <= EndOf(q, j)
<1>1. PICK j \in 1 .. Len(q), i \in Nat :
          /\ a = EndOf(q, j - 1) + i * SEGMENT_SIZE
          /\ a < EndOf(q, j)
          /\ b = AtMost(a + SEGMENT_SIZE, EndOf(q, j))
  BY DEF Piece
<1> DEFINE S == SEGMENT_SIZE
           K == Len(q)
           P == i * SEGMENT_SIZE
<1>2. S \in Nat /\ S >= 1 /\ P \in Nat
  BY Constants
<1>3. K \in Nat /\ j - 1 \in 0 .. K /\ j \in 0 .. K /\ K \in 0 .. K
  BY LenProperties DEF StreamOK
<1>4. /\ \A m \in 0 .. K : EndOf(q, m) \in Nat
      /\ \A l, m \in 0 .. K : l < m => EndOf(q, l) < EndOf(q, m)
  BY DEF StreamOK
<1>5. EndOf(q, j - 1) \in Nat /\ EndOf(q, j) \in Nat
  BY <1>3, <1>4
<1>6. a = EndOf(q, j - 1) + P /\ a < EndOf(q, j)
      /\ b = IF a + S < EndOf(q, j) THEN a + S ELSE EndOf(q, j)
  BY <1>1 DEF AtMost
<1>11. SEGMENT_SIZE <= MAX_WINDOW_OFFSET /\ MAX_WINDOW_OFFSET \in Nat
  BY WindowHoldsSegment, Constants
<1>7. /\ a \in Nat /\ b \in Nat /\ a < b /\ b <= a + S /\ b <= EndOf(q, j)
      /\ EndOf(q, j - 1) <= a /\ b <= a + MAX_WINDOW_OFFSET
  <2> DEFINE e == EndOf(q, j)
             e0 == EndOf(q, j - 1)
             W == MAX_WINDOW_OFFSET
  <2> HIDE DEF e, e0, P, S, W
  <2> QED BY SMTT(60), <1>2, <1>5, <1>6, <1>11 DEF e, e0, S, W
<1>8. EndOf(q, j) <= EndOf(q, K) /\ EndOf(q, K) \in Nat
  <2>1. j = K \/ j < K
    BY <1>3
  <2> QED BY <1>3, <1>4, <1>5, <2>1
<1>9. ASSUME NEW m \in 0 .. K PROVE EndOf(q, m) <= a \/ b <= EndOf(q, m)
  <2>1. m < j - 1 \/ m = j - 1 \/ m = j \/ j < m
    BY <1>3, <1>9
  <2>2. EndOf(q, m) \in Nat
    BY <1>4
  <2>3. CASE m < j - 1
    <3>1. EndOf(q, m) < EndOf(q, j - 1)
      BY <1>3, <1>4, <2>3
    <3> QED BY <1>5, <1>7, <2>2, <3>1
  <2>4. CASE j < m
    <3>1. EndOf(q, j) < EndOf(q, m)
      BY <1>3, <1>4, <2>4
    <3> QED BY <1>5, <1>7, <2>2, <3>1
  <2> QED BY <1>7, <2>1, <2>3, <2>4
<1>10. b <= EndOf(q, K)
  BY <1>5, <1>7, <1>8
<1> QED BY <1>7, <1>9, <1>10

\* Two pieces with a byte in common are the same.
LEMMA PiecesDisjoint ==
    ASSUME NEW q, StreamOK(q), NEW a, NEW b, Piece(q, a, b),
           NEW c, NEW d, Piece(q, c, d), a <= c, c < b
    PROVE  a = c /\ b = d
<1>1. PICK j \in 1 .. Len(q), i \in Nat :
          /\ a = EndOf(q, j - 1) + i * SEGMENT_SIZE
          /\ a < EndOf(q, j)
          /\ b = AtMost(a + SEGMENT_SIZE, EndOf(q, j))
  BY DEF Piece
<1>2. PICK m \in 1 .. Len(q), l \in Nat :
          /\ c = EndOf(q, m - 1) + l * SEGMENT_SIZE
          /\ c < EndOf(q, m)
          /\ d = AtMost(c + SEGMENT_SIZE, EndOf(q, m))
  BY DEF Piece
<1> DEFINE S == SEGMENT_SIZE
           K == Len(q)
<1>3. S \in Nat /\ S >= 1 /\ i * S \in Nat /\ l * S \in Nat
  BY Constants
<1>4. K \in Nat /\ j - 1 \in 0 .. K /\ j \in 0 .. K /\ m - 1 \in 0 .. K /\ m \in 0 .. K
      /\ j \in Nat /\ m \in Nat
  BY LenProperties DEF StreamOK
<1>5. /\ \A x \in 0 .. K : EndOf(q, x) \in Nat
      /\ \A x, y \in 0 .. K : x < y => EndOf(q, x) < EndOf(q, y)
  BY DEF StreamOK
<1>6. /\ a \in Nat /\ b \in Nat /\ c \in Nat /\ d \in Nat
  BY PieceProperties
<1>7. m = j
  <2>1. b <= EndOf(q, j)
    <3>1. EndOf(q, j) \in Nat
      BY <1>4, <1>5
    <3> QED BY <1>1, <1>3, <1>6, <3>1 DEF AtMost
  <2>2. EndOf(q, m - 1) <= c /\ EndOf(q, j - 1) <= a
    <3>1. EndOf(q, m - 1) \in Nat /\ EndOf(q, j - 1) \in Nat
      BY <1>4, <1>5
    <3> DEFINE L == l * SEGMENT_SIZE
               I == i * SEGMENT_SIZE
    <3>2. L \in Nat /\ I \in Nat /\ c = EndOf(q, m - 1) + L /\ a = EndOf(q, j - 1) + I
      BY <1>1, <1>2, <1>3
    <3> HIDE DEF L, I
    <3> QED BY <3>1, <3>2
  <2>3. EndOf(q, m) \in Nat /\ EndOf(q, j) \in Nat
        /\ EndOf(q, m - 1) \in Nat /\ EndOf(q, j - 1) \in Nat
    BY <1>4, <1>5
  <2>4. ASSUME m < j PROVE FALSE
    <3>1. m = j - 1 \/ m < j - 1
      BY <1>4, <2>4
    <3>2. EndOf(q, m) <= EndOf(q, j - 1)
      BY SMTT(60), <1>4, <1>5, <2>3, <3>1
    <3> QED BY SMTT(60), <1>2, <1>6, <2>2, <2>3, <3>2
  <2>5. ASSUME j < m PROVE FALSE
    <3>1. j = m - 1 \/ j < m - 1
      BY <1>4, <2>5
    <3>2. EndOf(q, j) <= EndOf(q, m - 1)
      <4>1. j < m - 1 => EndOf(q, j) < EndOf(q, m - 1)
        BY <1>4, <1>5
      <4> QED BY <2>3, <3>1, <4>1
    <3> QED BY <1>6, <2>1, <2>2, <2>3, <3>2
  <2> QED BY <1>4, <2>4, <2>5
<1>8. EndOf(q, j - 1) \in Nat
  BY <1>4, <1>5
<1>9. l = i
  <2> DEFINE e == EndOf(q, j - 1)
             h == l - i
  <2>1. c = e + l * S /\ a = e + i * S /\ a <= c /\ c < a + S
    <3>1. b <= a + S
      BY PieceProperties
    <3> QED BY SMTT(60), <1>1, <1>2, <1>3, <1>6, <1>7, <3>1
  <2>2. l * S - i * S = h * S /\ h \in Int
    BY <1>3
  <2>3. h * S < S /\ 0 <= h * S
    <3> DEFINE L == l * S
               I == i * S
               H == h * S
    <3>1. L \in Nat /\ I \in Nat /\ L - I = H /\ e \in Nat /\ c = e + L /\ a = e + I
      BY <1>3, <1>8, <2>1, <2>2
    <3>2. a <= c /\ c < a + S
      BY <2>1
    <3> HIDE DEF L, I, H, e, S
    <3>3. H < S /\ 0 <= H
      BY <1>3, <3>1, <3>2
    <3> QED BY <3>3 DEF H
  <2> HIDE DEF h, S
  <2>4. h = 0
    <3>1. h >= 1 => h * S >= S
      BY <1>3, <2>2
    <3>2. h <= -1 => h * S <= - S
      BY <1>3, <2>2
    <3> DEFINE H == h * S
    <3>3. H \in Int
      BY <1>3, <2>2
    <3> HIDE DEF H
    <3> QED BY <1>3, <2>2, <2>3, <3>1, <3>2, <3>3 DEF H
  <2> QED BY <2>4 DEF h
<1> QED BY <1>1, <1>2, <1>7, <1>9

\* What one more message makes of the stream.
LEMMA AppendedStream ==
    ASSUME NEW q, StreamOK(q), NEW size \in Nat, size >= 1,
           size + 2 * MAX_WINDOW_OFFSET <= MAX_SEGMENT_OFFSET,
           NEW msg, msg = Interval(EndOf(q, Len(q)), EndOf(q, Len(q)) + size)
    PROVE  /\ StreamOK(Append(q, msg))
           /\ Len(Append(q, msg)) = Len(q) + 1
           /\ \A j \in 1 .. Len(q) : Append(q, msg)[j] = q[j]
           /\ \A j \in 0 .. Len(q) : EndOf(Append(q, msg), j) = EndOf(q, j)
           /\ EndOf(Append(q, msg), Len(q) + 1) = EndOf(q, Len(q)) + size
<1> DEFINE K == Len(q)
           E == EndOf(q, K)
           r == Append(q, msg)
           N == Nat
<1>1. q \in Seq(Seq(Nat)) /\ K \in Nat
  BY LenProperties DEF StreamOK
<1>2. /\ \A j \in 0 .. K : EndOf(q, j) \in Nat
      /\ \A i, j \in 0 .. K : i < j => EndOf(q, i) < EndOf(q, j)
      /\ \A j \in 1 .. K :
            /\ q[j] = Interval(EndOf(q, j - 1), EndOf(q, j))
            /\ EndOf(q, j) + 2 * MAX_WINDOW_OFFSET
                 <= EndOf(q, j - 1) + MAX_SEGMENT_OFFSET
  BY DEF StreamOK
<1>3. E \in Nat /\ E + size \in Nat /\ E <= E + size /\ K \in 0 .. K
  BY <1>1, <1>2
<1>4. /\ msg \in Seq(Nat) /\ Len(msg) = size
      /\ \A i \in 1 .. size : msg[i] = E + i - 1
  <2> DEFINE F == E + size
  <2>1. F - E = size /\ F \in Nat /\ E <= F /\ msg = Interval(E, F)
    BY <1>3
  <2>2. /\ Interval(E, F) \in Seq(Nat) /\ Len(Interval(E, F)) = F - E
        /\ \A i \in 1 .. (F - E) : Interval(E, F)[i] = E + i - 1
    <3> HIDE DEF E, F
    <3> QED BY ZenonT(60), <1>3, <2>1, IntervalProperties
  <2> QED BY <2>1, <2>2
<1>5. /\ r \in Seq(Seq(Nat)) /\ Len(r) = K + 1
      /\ \A j \in 1 .. K : r[j] = q[j]
      /\ r[K + 1] = msg
  <2> HIDE DEF N
  <2>1. /\ r \in Seq(Seq(Nat)) /\ Len(r) = Len(q) + 1
        /\ \A j \in 1 .. Len(q) : r[j] = q[j]
        /\ r[Len(q) + 1] = msg
    BY <1>1, <1>4, AppendProperties
  <2> QED BY <2>1
<1>6. \A j \in 0 .. K : EndOf(r, j) = EndOf(q, j)
  <2> SUFFICES ASSUME NEW j \in 0 .. K PROVE EndOf(r, j) = EndOf(q, j)
    OBVIOUS
  <2>1. j = 0 \/ j \in 1 .. K
    BY <1>1
  <2> HIDE DEF r
  <2> QED BY <1>5, <2>1 DEF EndOf
<1>7. EndOf(r, K + 1) = E + size
  <2>1. K + 1 # 0
    BY <1>1
  <2>2. size \in 1 .. size
    OBVIOUS
  <2> HIDE DEF r, E, K
  <2>3. EndOf(r, K + 1) = msg[size] + 1
    BY <1>4, <1>5, <2>1 DEF EndOf
  <2>4. msg[size] = E + size - 1
    BY <1>4, <2>2
  <2> QED BY <1>3, <2>3, <2>4
<1> HIDE DEF r
<1>8. StreamOK(r)
  <2>1. ASSUME NEW j \in 0 .. K + 1 PROVE j \in 0 .. K \/ j = K + 1
    BY <1>1
  <2>2. \A j \in 0 .. K + 1 : EndOf(r, j) \in Nat
    BY <1>2, <1>3, <1>6, <1>7, <2>1
  <2>3. ASSUME NEW j \in 0 .. K PROVE EndOf(r, j) < EndOf(r, K + 1)
    <3>1. j = K \/ j < K
      BY <1>1, <2>3
    <3>2. EndOf(q, j) <= E /\ EndOf(q, j) \in Nat
      <4>1. j < K => EndOf(q, j) < E
        BY <1>2, <1>3
      <4> QED BY <1>2, <1>3, <3>1, <4>1
    <3> QED BY <1>3, <1>6, <1>7, <3>2
  <2>4. ASSUME NEW i \in 0 .. K + 1, NEW j \in 0 .. K + 1, i < j
        PROVE  EndOf(r, i) < EndOf(r, j)
    <3>1. i \in 0 .. K
      BY <1>1, <2>4
    <3> QED BY <1>2, <1>6, <2>1, <2>3, <2>4, <3>1
  <2>5. ASSUME NEW j \in 1 .. K + 1
        PROVE  /\ r[j] = Interval(EndOf(r, j - 1), EndOf(r, j))
               /\ EndOf(r, j) + 2 * MAX_WINDOW_OFFSET
                    <= EndOf(r, j - 1) + MAX_SEGMENT_OFFSET
    <3>1. CASE j \in 1 .. K
      <4>1. j \in 0 .. K /\ j - 1 \in 0 .. K
        BY <1>1, <3>1
      <4> QED BY <1>2, <1>5, <1>6, <3>1, <4>1
    <3>2. CASE j = K + 1
      <4>1. j - 1 = K
        BY <1>1, <3>2
      <4>2. EndOf(r, j - 1) = E /\ EndOf(r, j) = E + size /\ r[j] = msg
        BY <1>3, <1>5, <1>6, <1>7, <3>2, <4>1
      <4>3. (E + size) + 2 * MAX_WINDOW_OFFSET <= E + MAX_SEGMENT_OFFSET
        BY <1>3, Constants
      <4> QED BY <4>2, <4>3
    <3>3. j \in 1 .. K \/ j = K + 1
      BY <1>1
    <3> QED BY <3>1, <3>2, <3>3
  <2> HIDE DEF K
  <2> QED BY <1>5, <2>2, <2>4, <2>5 DEF StreamOK
<1> QED BY <1>5, <1>6, <1>7, <1>8 DEF r

\* The pieces of the messages before stay what they are.
LEMMA AppendedPieces ==
    ASSUME NEW q, StreamOK(q), NEW r, StreamOK(r), Len(r) = Len(q) + 1,
           \A j \in 0 .. Len(q) : EndOf(r, j) = EndOf(q, j)
    PROVE  /\ \A a, b : Piece(q, a, b) => Piece(r, a, b) /\ (IsEnd(r, b) <=> IsEnd(q, b))
           /\ \A a, b : Piece(r, a, b) => Piece(q, a, b) \/ EndOf(q, Len(q)) <= a
           /\ \A x : IsEnd(q, x) => IsEnd(r, x)
           /\ \A x : IsEnd(r, x) => IsEnd(q, x) \/ x = EndOf(r, Len(r))
           /\ EndOf(q, Len(q)) < EndOf(r, Len(r))
<1> DEFINE K == Len(q)
<1>1. K \in Nat /\ \A j \in 1 .. K : j \in 1 .. K + 1 /\ j - 1 \in 0 .. K /\ j \in 0 .. K
  BY LenProperties DEF StreamOK
<1>2. \A j \in 1 .. K + 1 : j \in 1 .. K \/ (j = K + 1 /\ j - 1 = K)
  BY <1>1
<1>3. K \in 0 .. K /\ K \in 0 .. Len(r) /\ K + 1 \in 0 .. Len(r) /\ K < K + 1
  BY <1>1
<1>4. EndOf(q, K) < EndOf(r, K + 1) /\ EndOf(r, K) = EndOf(q, K)
  BY <1>3 DEF StreamOK
<1>5. \A x : IsEnd(q, x) => IsEnd(r, x)
  BY <1>1 DEF IsEnd
<1>6. ASSUME NEW x, IsEnd(r, x) PROVE IsEnd(q, x) \/ x = EndOf(r, Len(r))
  BY <1>1, <1>2, <1>6 DEF IsEnd
<1>7. ASSUME NEW a, NEW b, Piece(q, a, b) PROVE Piece(r, a, b)
  <2>1. PICK j \in 1 .. K, i \in Nat :
          /\ a = EndOf(q, j - 1) + i * SEGMENT_SIZE
          /\ a < EndOf(q, j)
          /\ b = AtMost(a + SEGMENT_SIZE, EndOf(q, j))
    BY <1>7 DEF Piece
  <2>2. j \in 1 .. Len(r) /\ EndOf(r, j) = EndOf(q, j) /\ EndOf(r, j - 1) = EndOf(q, j - 1)
    BY <1>1
  <2> HIDE DEF K
  <2> QED BY <2>1, <2>2, Zenon DEF Piece
<1>8. ASSUME NEW a, NEW b, Piece(q, a, b) PROVE IsEnd(r, b) <=> IsEnd(q, b)
  <2>1. b <= EndOf(q, K) /\ b \in Nat
    BY <1>8, PieceProperties
  <2>2. EndOf(q, K) \in Nat /\ EndOf(r, K + 1) \in Nat
    BY <1>3 DEF StreamOK
  <2>3. b # EndOf(r, Len(r))
    BY <1>4, <2>1, <2>2
  <2> QED BY <1>5, <1>6, <2>3
<1>9. ASSUME NEW a, NEW b, Piece(r, a, b), ~ Piece(q, a, b) PROVE EndOf(q, K) <= a
  <2>1. PICK j \in 1 .. K + 1, i \in Nat :
          /\ a = EndOf(r, j - 1) + i * SEGMENT_SIZE
          /\ a < EndOf(r, j)
          /\ b = AtMost(a + SEGMENT_SIZE, EndOf(r, j))
    BY <1>9 DEF Piece
  <2>2. ASSUME j \in 1 .. K PROVE FALSE
    <3>1. EndOf(r, j) = EndOf(q, j) /\ EndOf(r, j - 1) = EndOf(q, j - 1)
      BY <1>1, <2>2
    <3> QED BY <1>9, <2>1, <2>2, <3>1, Zenon DEF Piece
  <2>3. a = EndOf(q, K) + i * SEGMENT_SIZE
    BY <1>2, <1>4, <2>1, <2>2
  <2>4. EndOf(q, K) \in Nat /\ i * SEGMENT_SIZE \in Nat
    BY <1>3, Constants DEF StreamOK
  <2> DEFINE P == i * SEGMENT_SIZE
             E == EndOf(q, K)
  <2>5. a = E + P /\ E \in Nat /\ P \in Nat
    BY <2>3, <2>4
  <2> HIDE DEF P, E
  <2>6. E <= a
    BY <2>5
  <2> QED BY <2>6 DEF E
<1> QED BY <1>4, <1>5, <1>6, <1>7, <1>8, <1>9

-----------------------------------------------------------------------------
(***************************************************************************)
(* The receiver of a stream.                                               *)
(***************************************************************************)

\* seg carries the piece of the stream q from position a up to position b.
SegmentOf(q, seg, a, b) ==
    /\ Piece(q, a, b)
    /\ seg.offset = a % MAX_SEGMENT_OFFSET
    /\ seg.payload = Interval(a, b)
    /\ seg.isLast <=> IsEnd(q, b)

\* A piece is in the buffer with all its bytes or with none.
WholePieces(b, q) ==
    \A a, e, x \in Nat :
        Piece(q, a, e) /\ a <= x /\ x < e => (Holds(b, a) <=> Holds(b, x))

\* The ring holds the ends of the messages whose last byte is in the buffer.
EndsHeld(c, q) == {x \in Nat : IsEnd(q, x) /\ Holds(c.inBuf, x - 1)}

EndsInRing(c, q, D, lo, hi) == RingOf(c.lasts, D, lo, hi, EndsHeld(c, q))

\* The receiver has delivered k messages of the stream q, waits for the byte at
\* position r and holds no byte from hi on.  The ring has no end up to lo.
Receiver(c, q, k, lo, r, hi) ==
    /\ k \in 0 .. Len(q)
    /\ EndOf(q, k) <= lo
    /\ lo <= r
    /\ r <= hi
    /\ hi <= lo + MAX_WINDOW_OFFSET
    /\ hi <= EndOf(q, Len(q))
    /\ k < Len(q) => lo < EndOf(q, k + 1)
    /\ c.bufferStart = EndOf(q, k) % MAX_SEGMENT_OFFSET
    /\ HoldsOnly(c.inBuf, EndOf(q, k), hi)
    /\ FirstMissing(c.inBuf, EndOf(q, k), r)
    /\ WholePieces(c.inBuf, q)
    /\ EndsInRing(c, q, EndOf(q, k), lo, hi)

LEMMA ReceiverRoom ==
    ASSUME NEW q, StreamOK(q), NEW c, NEW k, NEW lo \in Nat, NEW r \in Nat, NEW hi \in Nat,
           Receiver(c, q, k, lo, r, hi)
    PROVE  /\ Roomy(EndOf(q, k), lo, hi)
           /\ EndOf(q, k) \in Nat
           /\ EndOf(q, Len(q)) \in Nat
           /\ k \in Nat /\ k \in 0 .. Len(q) /\ Len(q) \in Nat
           /\ hi <= EndOf(q, k) + MAX_SEGMENT_OFFSET
           /\ hi - EndOf(q, k) < MAX_SEGMENT_OFFSET
<1> DEFINE D == EndOf(q, k)
           W == MAX_WINDOW_OFFSET
           M == MAX_SEGMENT_OFFSET
<1>1. Len(q) \in Nat /\ Len(q) \in 0 .. Len(q) /\ k \in 0 .. Len(q) /\ k \in Nat
  BY LenProperties DEF StreamOK, Receiver
<1>2. D \in Nat /\ EndOf(q, Len(q)) \in Nat
  BY <1>1 DEF StreamOK
<1>3. W \in Nat /\ M \in Nat /\ W >= 1 /\ 2 * W < M
  BY Constants, WindowHoldsSegment, SequenceNumbersAssumption
<1>4. D <= lo /\ lo <= r /\ r <= hi /\ hi <= lo + W /\ hi <= EndOf(q, Len(q))
  BY DEF Receiver
<1>5. lo + 2 * W < D + M
  <2>1. CASE k = Len(q)
    <3> HIDE DEF W, M
    <3> QED BY <1>2, <1>3, <1>4, <2>1
  <2>2. CASE k # Len(q)
    <3>1. k < Len(q) /\ k + 1 \in 1 .. Len(q) /\ k + 1 \in 0 .. Len(q) /\ (k + 1) - 1 = k
      BY <1>1, <2>2
    <3>2. lo < EndOf(q, k + 1)
      BY <3>1 DEF Receiver
    <3>3. EndOf(q, k + 1) + 2 * W <= EndOf(q, (k + 1) - 1) + M /\ EndOf(q, k + 1) \in Nat
      BY <3>1 DEF StreamOK
    <3>4. EndOf(q, k + 1) + 2 * W <= D + M
      BY <3>1, <3>3
    <3> DEFINE F == EndOf(q, k + 1)
    <3>5. lo < F /\ F + 2 * W <= D + M /\ F \in Nat
      BY <3>2, <3>3, <3>4
    <3> HIDE DEF D, W, M, F
    <3> QED BY <1>2, <1>3, <3>5
  <2> QED BY <2>1, <2>2
<1>6. hi <= D + M /\ hi - D < M
  <2> HIDE DEF D, W, M
  <2> QED BY <1>2, <1>3, <1>4, <1>5
<1> QED BY <1>1, <1>2, <1>4, <1>5, <1>6 DEF Roomy

LEMMA SegmentOffsetIsInt ==
    ASSUME NEW seg \in Segment
    PROVE  /\ seg.offset \in Int /\ seg.offset \in Offsets
           /\ seg.payload \in Seq(Nat)
           /\ seg.isLast \in BOOLEAN
<1>1. seg.offset \in Offsets
  BY DEF Segment
<1> QED BY <1>1, OffsetsAreNumbers DEF Segment

\* A lower bound on what is held.
LEMMA HeldBelow ==
    ASSUME NEW b \in ReceiveBuffer, NEW lo \in Nat, NEW hi \in Int,
           HoldsOnly(b, lo, hi), NEW h,
           \A x \in Nat : Holds(b, x) => x < h
    PROVE  HoldsOnly(b, lo, h)
<1> SUFFICES ASSUME NEW o \in Offsets, b.cell[o] # INVALID
             PROVE  /\ b.cell[o] % MAX_SEGMENT_OFFSET = o
                    /\ lo <= b.cell[o]
                    /\ b.cell[o] < h
  BY DEF HoldsOnly
<1>1. b.cell[o] \in Nat
  BY BufferType
<1>2. b.cell[o] % MAX_SEGMENT_OFFSET = o /\ lo <= b.cell[o]
  BY DEF HoldsOnly
<1>3. Holds(b, b.cell[o])
  BY <1>2 DEF Holds
<1> QED BY <1>1, <1>2, <1>3

\* What transport_receive takes for new is new: no byte of it was received.
LEMMA NewIsNew ==
    ASSUME NEW q, StreamOK(q), NEW c \in ConnectionRecord, NEW k, NEW r \in Nat, NEW hi \in Nat,
           Receiver(c, q, k, r, r, hi),
           NEW seg \in Segment, NEW a, NEW b, SegmentOf(q, seg, a, b), b <= hi,
           r <= a + MAX_WINDOW_OFFSET,
           \A x \in Nat : Holds(c.inBuf, x) => x < a + MAX_WINDOW_OFFSET
    PROVE  IsNew(c, seg) <=> r <= a /\ ~ Holds(c.inBuf, a)
<1> DEFINE D == EndOf(q, k)
           W == MAX_WINDOW_OFFSET
           M == MAX_SEGMENT_OFFSET
<1>1. /\ a \in Nat /\ b \in Nat /\ a < b /\ b <= a + W
      /\ D <= a \/ b <= D
      /\ D \in Nat /\ k \in Nat
  BY PieceProperties, ReceiverRoom DEF SegmentOf
<1>2. W \in Nat /\ M \in Nat /\ W >= 1 /\ 2 * W < M
  BY Constants, WindowHoldsSegment, SequenceNumbersAssumption
<1>3. D <= r /\ r <= hi /\ hi <= r + W /\ r + 2 * W < D + M /\ hi - D < M
  BY ReceiverRoom DEF Receiver, Roomy
<1>4. /\ HoldsOnly(c.inBuf, D, hi) /\ FirstMissing(c.inBuf, D, r)
      /\ c.bufferStart = D % M /\ WholePieces(c.inBuf, q)
  BY DEF Receiver
<1>5. c.inBuf \in ReceiveBuffer
  BY Fields
<1>6. AckOffset(c) = r % M
  <2>1. r - D < M /\ hi - r <= M
    <3> HIDE DEF D, W, M
    <3> QED BY <1>1, <1>2, <1>3
  <2> QED BY <1>1, <1>4, <2>1, AckOffsetIsMissing
<1>7. /\ seg.offset = a % M
      /\ seg.payload = Interval(a, b)
      /\ Piece(q, a, b)
  BY DEF SegmentOf
<1>8. Len(seg.payload) = b - a /\ seg.payload # <<>>
  BY <1>1, <1>7, IntervalProperties
<1>9. acknowledged(seg.offset + Len(seg.payload), AckOffset(c)) <=> b <= r
  <2>1. (seg.offset + (b - a)) % M = b % M
    <3>1. b - a \in Int /\ a + (b - a) = b
      BY <1>1
    <3>2. ((a % M) + (b - a)) % M = (a + (b - a)) % M
      BY <1>1, <3>1, ModAdd
    <3> QED BY <1>7, <3>1, <3>2
  <2>2. seg.offset \in Int /\ seg.offset + (b - a) \in Int
    BY <1>1, SegmentOffsetIsInt
  <2>3. b - r <= W /\ r - b <= W
    <3>1. r <= a + W /\ b <= hi
      OBVIOUS
    <3> HIDE DEF D, W, M
    <3> QED BY <1>1, <1>2, <1>3, <3>1
  <2>4. r % M \in Int /\ (r % M) % M = r % M
    BY OffsetMod, OffsetIsMod, OffsetsAreNumbers
  <2> DEFINE o == seg.offset + (b - a)
             p == r % M
  <2>5. o \in Int /\ o % M = b % M /\ p \in Int /\ p % M = r % M
    BY <2>1, <2>2, <2>4
  <2> HIDE DEF o, p
  <2>6. acknowledged(o, p) <=> b <= r
    BY <1>1, <2>3, <2>5, AcknowledgedIsOrder
  <2> QED BY <1>6, <1>8, <2>6 DEF o, p
<1>10. buffer_check(c.inBuf, seg.offset) <=> Holds(c.inBuf, a)
  <2>1. HoldsOnly(c.inBuf, D, a + W)
    BY <1>1, <1>4, <1>5, HeldBelow
  <2>2. a - D < M /\ (a + W) - a <= M
    <3> HIDE DEF D, W, M
    <3> QED BY <1>1, <1>2, <1>3
  <2>3. seg.offset \in Int /\ seg.offset % M = a % M
    <3>1. (a % M) % M = a % M
      BY <1>1, OffsetMod, OffsetIsMod
    <3> QED BY <1>7, <3>1, SegmentOffsetIsInt
  <2> DEFINE h == a + W
  <2>4. h \in Int /\ h - a <= M /\ HoldsOnly(c.inBuf, D, h)
    BY <1>1, <1>2, <2>1, <2>2
  <2> HIDE DEF h
  <2> QED BY <1>1, <1>5, <2>2, <2>3, <2>4, CheckIsHolds
<1>11. ~ Holds(c.inBuf, a) => (r < b <=> r <= a)
  <2> SUFFICES ASSUME ~ Holds(c.inBuf, a), r < b PROVE r <= a
    BY <1>1
  <2>1. D <= a
    <3> HIDE DEF D
    <3> QED BY <1>1, <1>3
  <2>2. ~ (a < r)
    BY <1>1, <1>4, <2>1 DEF FirstMissing
  <2> QED BY <1>1, <2>2
<1> QED BY <1>1, <1>8, <1>9, <1>10, <1>11 DEF IsNew

-----------------------------------------------------------------------------

\* Where the first missing byte is.
LEMMA MissingExists ==
    ASSUME NEW b \in ReceiveBuffer, NEW D \in Nat, NEW hi \in Nat, D <= hi,
           HoldsOnly(b, D, hi),
           NEW r \in Nat, D <= r, \A x \in Nat : D <= x /\ x < r => Holds(b, x)
    PROVE  \E s \in Nat : FirstMissing(b, D, s) /\ r <= s /\ s <= hi
<1> DEFINE U == {x \in Nat : D <= x /\ ~ Holds(b, x)}
<1>1. hi \in U
  <2>1. ASSUME Holds(b, hi) PROVE FALSE
    <3>1. hi < hi
      BY <2>1, HoldsRange
    <3> QED BY <3>1
  <2> QED BY <2>1
<1>2. PICK s \in U : \A y \in U : s <= y
  <2>1. U \subseteq Nat /\ U # {}
    BY <1>1
  <2> HIDE DEF U
  <2> QED BY <2>1, LeastElement
<1>3. s \in Nat /\ D <= s /\ ~ Holds(b, s) /\ s <= hi
  BY <1>1, <1>2
<1>4. \A x \in Nat : D <= x /\ x < s => Holds(b, x)
  BY <1>2, <1>3
<1>5. r <= s
  <2>1. ~ (s < r)
    BY <1>3
  <2> QED BY <1>3, <2>1
<1> QED BY <1>3, <1>4, <1>5 DEF FirstMissing

LEMMA StoreFields ==
    ASSUME NEW c \in ConnectionRecord, NEW seg
    PROVE  /\ Store(c, seg).inBuf
                = buffer_store(c.inBuf, seg.offset, seg.payload, Len(seg.payload))
           /\ Store(c, seg).lasts
                = IF seg.isLast THEN dring_insert(c.lasts, EndOffset(seg)) ELSE c.lasts
           /\ Store(c, seg).failed
                = IF Overwrites(c.inBuf, seg.offset, Len(seg.payload))
                  THEN c.failed \union {"overwrite"} ELSE c.failed
           /\ Store(c, seg).bufferStart = c.bufferStart
           /\ Store(c, seg).windowSize = c.windowSize
           /\ Store(c, seg).nextOffset = c.nextOffset
           /\ Store(c, seg).outSegments = c.outSegments
BY DEF Store, ConnectionRecord

\* A piece none of whose bytes was received is stored: no valid byte is
\* overwritten, and the ring takes in the end of a message.
LEMMA StoreKeeps ==
    ASSUME NEW q, StreamOK(q), NEW c \in ConnectionRecord, NEW k, NEW r \in Nat, NEW hi \in Nat,
           Receiver(c, q, k, r, r, hi),
           NEW seg \in Segment, NEW a, NEW e, SegmentOf(q, seg, a, e), e <= hi,
           r <= a, ~ Holds(c.inBuf, a)
    PROVE  /\ \E r2 \in Nat : Receiver(Store(c, seg), q, k, r, r2, hi)
           /\ Store(c, seg).failed = c.failed
           /\ \A x \in Nat :
                 Holds(Store(c, seg).inBuf, x)
                   <=> Holds(c.inBuf, x) \/ (a <= x /\ x < e)
<1> DEFINE D == EndOf(q, k)
           M == MAX_SEGMENT_OFFSET
           d == Store(c, seg)
           b == c.inBuf
<1>1. /\ a \in Nat /\ e \in Nat /\ a < e
      /\ D \in Nat /\ k \in Nat
  BY PieceProperties, ReceiverRoom DEF SegmentOf
<1>2. M \in Nat
  BY Constants
<1>3. /\ D <= r /\ r <= hi /\ hi - D < M /\ D <= a /\ e - D <= M /\ hi - a <= M
      /\ Roomy(D, r, hi)
  <2>1. D <= r /\ r <= hi /\ hi - D < M /\ Roomy(D, r, hi)
    BY ReceiverRoom DEF Receiver
  <2> HIDE DEF D, M
  <2> QED BY <1>1, <1>2, <2>1
<1>4. /\ HoldsOnly(b, D, hi) /\ FirstMissing(b, D, r)
      /\ WholePieces(b, q)
      /\ EndsInRing(c, q, D, r, hi)
  BY DEF Receiver
<1>5. b \in ReceiveBuffer
  BY Fields
<1>6. /\ seg.offset = a % M
      /\ seg.payload = Interval(a, e)
      /\ Piece(q, a, e)
      /\ seg.isLast <=> IsEnd(q, e)
      /\ Len(seg.payload) = e - a
  <2>1. seg.offset = a % M /\ seg.payload = Interval(a, e) /\ Piece(q, a, e)
        /\ (seg.isLast <=> IsEnd(q, e))
    BY DEF SegmentOf
  <2> QED BY <1>1, <2>1, IntervalProperties
<1>7. /\ d.inBuf = buffer_store(b, a % M, Interval(a, e), e - a)
      /\ d.lasts = IF seg.isLast THEN dring_insert(c.lasts, EndOffset(seg)) ELSE c.lasts
      /\ d.failed = IF Overwrites(b, a % M, e - a) THEN c.failed \union {"overwrite"} ELSE c.failed
      /\ d.bufferStart = c.bufferStart
  BY ZenonT(60), <1>6, StoreFields
<1>8. \A x \in Nat : a <= x /\ x < e => ~ Holds(b, x)
  BY <1>1, <1>4, <1>6 DEF WholePieces
<1>9. ~ Overwrites(b, a % M, e - a)
  <2> SUFFICES ASSUME NEW i \in 0 .. ((e - a) - 1), buffer_check(b, (a % M) + i) PROVE FALSE
    BY DEF Overwrites
  <2> DEFINE x == a + i
             p == (a % M) + i
  <2>1. i \in Int /\ x \in Nat /\ a <= x /\ x < e
    BY <1>1
  <2>2. p \in Int /\ p % M = x % M
    <3>1. a % M \in Nat
      BY <1>1, OffsetMod, OffsetsAreNumbers
    <3>2. ((a % M) + i) % M = (a + i) % M
      BY <1>1, <2>1, ModAdd
    <3> QED BY <2>1, <3>1, <3>2
  <2>3. x - D < M /\ hi - x <= M
    <3> HIDE DEF D, M, x
    <3> QED BY <1>1, <1>2, <1>3, <2>1
  <2>4. buffer_check(b, p)
    OBVIOUS
  <2> HIDE DEF x, p, b, D
  <2>5. Holds(b, x)
    BY <1>1, <1>4, <1>5, <2>1, <2>2, <2>3, <2>4, CheckIsHolds
  <2> QED BY <1>8, <2>1, <2>5
<1>10. /\ \A x \in Nat : Holds(d.inBuf, x) <=> Holds(b, x) \/ (a <= x /\ x < e)
       /\ HoldsOnly(d.inBuf, D, hi)
  <2> DEFINE g == buffer_store(b, a % M, Interval(a, e), e - a)
  <2>1. /\ \A x \in Nat : Holds(g, x) <=> Holds(b, x) \/ (a <= x /\ x < e)
        /\ \A h \in Int : hi <= h /\ e <= h => HoldsOnly(g, D, h)
    BY <1>1, <1>3, <1>4, <1>5, StoredHolds
  <2>2. d.inBuf = g /\ hi \in Int /\ hi <= hi
    BY <1>7
  <2> HIDE DEF g, d
  <2> QED BY <2>1, <2>2
<1>11. d.inBuf \in ReceiveBuffer
  <2>1. buffer_store(b, seg.offset, seg.payload, Len(seg.payload)) \in ReceiveBuffer
    BY <1>5, SegmentOffsetIsInt, buffer_storeType
  <2> QED BY <1>6, <1>7, <2>1
<1> HIDE DEF d
<1>12. PICK r2 \in Nat : FirstMissing(d.inBuf, D, r2) /\ r <= r2 /\ r2 <= hi
  <2>1. D <= hi
    BY <1>1, <1>3
  <2>2. \A x \in Nat : D <= x /\ x < r => Holds(d.inBuf, x)
    BY <1>4, <1>10 DEF FirstMissing
  <2> HIDE DEF D
  <2> QED BY <1>1, <1>3, <1>10, <1>11, <2>1, <2>2, MissingExists
<1>13. WholePieces(d.inBuf, q)
  <2> SUFFICES ASSUME NEW a2 \in Nat, NEW e2 \in Nat, NEW x \in Nat,
                      Piece(q, a2, e2), a2 <= x, x < e2
               PROVE  Holds(d.inBuf, a2) <=> Holds(d.inBuf, x)
    BY DEF WholePieces
  <2>1. Holds(b, a2) <=> Holds(b, x)
    BY <1>4 DEF WholePieces
  <2>2. (a <= a2 /\ a2 < e) <=> (a <= x /\ x < e)
    <3>1. a2 < e2
      BY PieceProperties
    <3>2. a <= a2 /\ a2 < e => a = a2 /\ e = e2
      BY <1>6, PiecesDisjoint
    <3>3. a2 <= a /\ a < e2 => a = a2 /\ e = e2
      BY <1>6, PiecesDisjoint
    <3> QED BY <1>1, <3>1, <3>2, <3>3
  <2> QED BY <1>10, <2>1, <2>2
<1>14. EndsInRing(d, q, D, r, hi)
  <2> DEFINE S == EndsHeld(c, q)
  <2>1. RingOf(c.lasts, D, r, hi, S)
    BY <1>4 DEF EndsInRing
  <2>2. ASSUME NEW x \in Nat, IsEnd(q, x)
        PROVE  /\ x - 1 \in Nat
               /\ Holds(d.inBuf, x - 1) <=> Holds(b, x - 1) \/ x = e
    <3>1. x \in Nat /\ x - 1 \in Nat
      <4>1. PICK j \in 1 .. Len(q) : x = EndOf(q, j)
        BY <2>2 DEF IsEnd
      <4>2. Len(q) \in Nat /\ 0 \in 0 .. Len(q) /\ j \in 0 .. Len(q) /\ 0 < j
        BY LenProperties DEF StreamOK
      <4>3. EndOf(q, 0) < EndOf(q, j) /\ EndOf(q, 0) \in Nat /\ EndOf(q, j) \in Nat
        BY <4>2 DEF StreamOK
      <4> QED BY <4>1, <4>3
    <3>2. x <= a \/ e <= x
      <4>1. PICK j \in 1 .. Len(q) : x = EndOf(q, j)
        BY <2>2 DEF IsEnd
      <4>2. j \in 0 .. Len(q)
        BY LenProperties DEF StreamOK
      <4> QED BY <1>6, <4>1, <4>2, PieceProperties
    <3>3. (a <= x - 1 /\ x - 1 < e) <=> x = e
      BY <1>1, <3>1, <3>2
    <3> QED BY <1>10, <3>1, <3>3
  <2>3. CASE ~ seg.isLast
    <3>1. d.lasts = c.lasts /\ ~ IsEnd(q, e)
      BY <1>6, <1>7, <2>3
    <3>2. EndsHeld(d, q) = S
      BY <2>2, <3>1 DEF EndsHeld
    <3> QED BY <2>1, <3>1, <3>2 DEF EndsInRing
  <2>4. CASE seg.isLast
    <3>1. IsEnd(q, e)
      BY <1>6, <2>4
    <3>2. d.lasts = dring_insert(c.lasts, e % M)
      <4>1. EndOffset(seg) = ((a % M) + (e - a)) % M
        BY <1>6 DEF EndOffset
      <4>2. e - a \in Int /\ a + (e - a) = e
        BY <1>1
      <4>3. ((a % M) + (e - a)) % M = (a + (e - a)) % M
        BY <1>1, <4>2, ModAdd
      <4> QED BY <1>7, <2>4, <4>1, <4>2, <4>3
    <3>3. r < e
      BY <1>1
    <3>4. e \notin S
      <4>1. e - 1 \in Nat /\ a <= e - 1 /\ e - 1 < e
        BY <1>1
      <4>2. ~ Holds(b, e - 1)
        BY <1>8, <4>1
      <4> QED BY <4>2 DEF EndsHeld
    <3>5. EndsHeld(d, q) = S \union {e}
      BY <1>1, <2>2, <3>1 DEF EndsHeld
    <3> DEFINE o == e % MAX_SEGMENT_OFFSET
               f == c.lasts
    <3>6. /\ D \in Nat /\ Roomy(D, r, hi) /\ e \in Nat /\ e <= hi
          /\ RingOf(f, D, r, hi, S) /\ d.lasts = dring_insert(f, o)
          /\ o = e % MAX_SEGMENT_OFFSET
      BY <1>1, <1>3, <2>1, <3>2
    <3> HIDE DEF D, o, f, S
    <3>7. RingOf(dring_insert(f, o), D, r, hi, S \union {e})
      BY <3>3, <3>4, <3>6, RingInserted
    <3> QED BY <3>5, <3>6, <3>7 DEF EndsInRing
  <2> QED BY <2>3, <2>4
<1>15. Receiver(d, q, k, r, r2, hi)
  BY <1>7, <1>10, <1>12, <1>13, <1>14 DEF Receiver
<1> QED BY <1>7, <1>9, <1>10, <1>12, <1>15 DEF d

-----------------------------------------------------------------------------

\* The first n elements of s are the ends of the messages behind the k-th one.
InTurn(q, k, s, n) == \A j \in 1 .. n : s[j] = EndOf(q, k + j)

\* The ends of messages up to position r in their order are those of the messages
\* that follow the k-th one.
LEMMA EndsInOrder ==
    ASSUME NEW q, StreamOK(q), NEW k \in 0 .. Len(q), NEW r \in Nat, EndOf(q, k) <= r,
           NEW s \in Seq(Nat), Increasing(s), NEW n \in 0 .. Len(s),
           \A i \in 1 .. Len(s) : s[i] <= r <=> i <= n,
           \A i \in 1 .. Len(s) : IsEnd(q, s[i]) /\ EndOf(q, k) < s[i],
           \A x \in Nat :
              IsEnd(q, x) /\ EndOf(q, k) < x /\ x <= r => \E i \in 1 .. Len(s) : x = s[i]
    PROVE  /\ k + n \in 0 .. Len(q)
           /\ InTurn(q, k, s, n)
           /\ EndOf(q, k + n) <= r
           /\ k + n < Len(q) => r < EndOf(q, k + n + 1)
<1> DEFINE K == Len(q)
           L == Len(s)
           E(j) == EndOf(q, j)
           Good(j) == k + j <= K /\ s[j] = E(k + j)
           U == {j \in 1 .. n : ~ Good(j)}
<1>1. /\ K \in Nat /\ k \in Nat /\ L \in Nat /\ n \in Nat /\ n <= L /\ k <= K
      /\ DOMAIN s = 1 .. L
      /\ \A i \in 1 .. L : s[i] \in Nat
  <2>1. K \in Nat
    BY LenProperties DEF StreamOK
  <2> QED BY <2>1, OffsetsOfType
<1>2. /\ \A j \in 0 .. K : E(j) \in Nat
      /\ \A i, j \in 0 .. K : i < j => E(i) < E(j)
  BY DEF StreamOK
<1>3. \A i, j \in 1 .. L : i < j => s[i] < s[j]
  BY <1>1 DEF Increasing
<1>4. \A i \in 1 .. L : \E m \in 0 .. K : s[i] = E(m) /\ k < m
  <2> SUFFICES ASSUME NEW i \in 1 .. L PROVE \E m \in 0 .. K : s[i] = E(m) /\ k < m
    OBVIOUS
  <2>1. PICK m \in 1 .. K : s[i] = E(m)
    BY DEF IsEnd
  <2>2. m \in 0 .. K /\ E(k) < E(m) /\ k \in 0 .. K /\ m \in Nat
    BY <1>1, <2>1
  <2>3. ~ (m < k) /\ m # k
    BY <1>2, <2>2
  <2> QED BY <1>1, <2>1, <2>2, <2>3
<1>5. \A m \in 0 .. K : k < m /\ E(m) <= r => \E i \in 1 .. L : s[i] = E(m) /\ i <= n
  <2> SUFFICES ASSUME NEW m \in 0 .. K, k < m, E(m) <= r
               PROVE  \E i \in 1 .. L : s[i] = E(m) /\ i <= n
    OBVIOUS
  <2>1. m \in 1 .. K /\ E(m) \in Nat /\ E(k) < E(m) /\ IsEnd(q, E(m))
    <3>1. m \in 1 .. K /\ k \in 0 .. K
      BY <1>1
    <3> QED BY <1>2, <3>1 DEF IsEnd
  <2>2. PICK i \in 1 .. L : E(m) = s[i]
    BY <2>1
  <2> QED BY <2>2
<1> HIDE DEF K, L, E
<1>6. U = {}
  <2> SUFFICES ASSUME U # {} PROVE FALSE
    OBVIOUS
  <2>1. PICK j \in U : \A y \in U : j <= y
    <3>1. U \subseteq Nat
      BY <1>1
    <3> HIDE DEF U
    <3> QED BY <3>1, LeastElement
  <2>2. /\ j \in 1 .. n /\ j \in 1 .. L /\ j \in Nat /\ ~ Good(j)
        /\ k + j \in Nat
    BY <1>1, <2>1
  <2>3. ASSUME NEW i \in 1 .. n, i < j PROVE k + i <= K /\ s[i] = E(k + i)
    <3>1. ~ (j <= i)
      BY <1>1, <2>2, <2>3
    <3>2. i \notin U
      BY <2>1, <3>1
    <3> QED BY <3>2
  <2>4. PICK m \in 0 .. K : s[j] = E(m) /\ k < m
    BY <1>4, <2>2
  <2>5. PICK p \in 0 .. K : p = k + (j - 1) /\ E(p) < E(m)
    <3>1. CASE j = 1
      <4>1. k \in 0 .. K /\ k = k + (j - 1)
        BY <1>1, <3>1
      <4>2. E(k) < E(m)
        BY <1>2, <2>4, <4>1
      <4> QED BY <4>1, <4>2
    <3>2. CASE j # 1
      <4>1. PICK i \in 1 .. n : i = j - 1 /\ i \in 1 .. L /\ i < j
        BY <1>1, <2>2, <3>2
      <4>2. PICK p \in 0 .. K : p = k + i
        <5>1. k + i <= K
          BY <2>3, <4>1
        <5> QED BY <1>1, <4>1, <5>1
      <4>3. s[i] = E(p)
        BY <2>3, <4>1, <4>2
      <4>4. s[i] < s[j]
        BY <1>3, <2>2, <4>1
      <4>5. E(p) < E(m)
        BY <2>4, <4>3, <4>4
      <4>6. p = k + (j - 1)
        BY <4>1, <4>2
      <4> QED BY <4>5, <4>6
    <3> QED BY <3>1, <3>2
  <2>6. p < m
    <3>1. ASSUME m < p PROVE FALSE
      <4>1. E(m) < E(p) /\ E(m) \in Nat /\ E(p) \in Nat
        BY <1>2, <3>1
      <4> QED BY <2>5, <4>1
    <3>2. ASSUME m = p PROVE FALSE
      <4>1. E(m) \in Nat /\ E(m) < E(m)
        BY <1>2, <2>5, <3>2
      <4> QED BY <4>1
    <3> QED BY <1>1, <3>1, <3>2
  <2>7. PICK t \in 0 .. K : t = k + j /\ k < t /\ t <= m
    BY <1>1, <2>2, <2>5, <2>6
  <2>8. t # m
    <3> SUFFICES ASSUME t = m PROVE FALSE
      OBVIOUS
    <3>1. k + j <= K
      BY <1>1, <2>7
    <3>2. s[j] = E(k + j)
      BY <2>4, <2>7
    <3> QED BY <2>2, <3>1, <3>2
  <2>9. t < m
    BY <1>1, <2>7, <2>8
  <2>10. E(t) < s[j] /\ E(t) \in Nat /\ s[j] \in Nat /\ s[j] <= r
    <3>1. E(t) < E(m) /\ E(t) \in Nat
      BY <1>2, <2>9
    <3>2. s[j] \in Nat /\ s[j] <= r
      BY <1>1, <2>2 DEF L
    <3> QED BY <2>4, <3>1, <3>2
  <2>11. PICK i \in 1 .. L : s[i] = E(t) /\ i <= n
    <3>1. E(t) <= r
      BY SMTT(60), <2>10
    <3> QED BY <1>5, <2>7, <3>1
  <2>12. i < j
    <3>1. ASSUME j < i PROVE FALSE
      <4>1. s[j] < s[i]
        BY <1>3, <2>2, <3>1
      <4>2. s[j] < E(t)
        BY <2>11, <4>1
      <4> HIDE DEF E
      <4> QED BY SMTT(60), <2>10, <4>2
    <3>2. ASSUME j = i PROVE FALSE
      <4>1. E(t) < E(t)
        BY <2>10, <2>11, <3>2
      <4> QED BY <2>10, <4>1
    <3> QED BY <1>1, <2>2, <3>1, <3>2
  <2>13. i \in 1 .. n
    BY <1>1, <2>11
  <2>14. PICK u \in 0 .. K : u = k + i /\ u < t
    BY <1>1, <2>2, <2>7, <2>12, <2>13
  <2>15. E(t) = E(u)
    BY <2>3, <2>11, <2>12, <2>13, <2>14
  <2>16. E(u) < E(t)
    BY <1>2, <2>14
  <2> QED BY <2>10, <2>15, <2>16
<1>7. \A j \in 1 .. n : Good(j)
  BY <1>6
<1> HIDE DEF U
<1>8. k + n \in 0 .. K
  <2>1. CASE n = 0
    BY <1>1, <2>1
  <2>2. CASE n # 0
    <3>1. n \in 1 .. n
      BY <1>1, <2>2
    <3> QED BY <1>1, <1>7, <3>1
  <2> QED BY <2>1, <2>2
<1>9. E(k + n) <= r
  <2>1. CASE n = 0
    <3>1. k + n = k
      BY <1>1, <2>1
    <3> QED BY <3>1 DEF E
  <2>2. CASE n # 0
    <3>1. n \in 1 .. n /\ n \in 1 .. L
      BY <1>1, <2>2
    <3>2. s[n] <= r
      BY <3>1 DEF L
    <3> QED BY <1>7, <3>1, <3>2
  <2> QED BY <2>1, <2>2
<1>10. ASSUME k + n < K PROVE r < E(k + n + 1)
  <2>1. PICK t \in 0 .. K : t = k + n + 1 /\ k < t
    BY <1>1, <1>10
  <2> SUFFICES ASSUME ~ (r < E(t)) PROVE FALSE
    BY <2>1
  <2>2. E(t) <= r /\ E(t) \in Nat
    BY <1>2
  <2>3. PICK i \in 1 .. L : s[i] = E(t) /\ i <= n
    BY <1>5, <2>1, <2>2
  <2>4. PICK u \in 0 .. K : u = k + i /\ u < t /\ i \in 1 .. n
    BY <1>1, <1>10, <2>1, <2>3
  <2>5. s[i] = E(u)
    BY <1>7, <2>4
  <2>6. E(u) < E(t)
    BY <1>2, <2>4
  <2> QED BY <2>2, <2>3, <2>5, <2>6
<1> QED BY <1>7, <1>8, <1>9, <1>10 DEF E, K, InTurn

-----------------------------------------------------------------------------

\* The first n of the ring's positions s are the ends of the messages that
\* transport_receive hands to the application, those up to position r.
Delivery(c, q, k, r, hi, s, n) ==
    /\ s \in Seq(Nat)
    /\ Pops(c.lasts, s)
    /\ n \in 0 .. Len(s)
    /\ n = Cardinality(Complete(c))
    /\ \A i \in 1 .. Len(s) : s[i] <= r <=> i <= n
    /\ \A x : x \in EndsHeld(c, q) <=> \E i \in 1 .. Len(s) : x = s[i]
    /\ k + n \in 0 .. Len(q)
    /\ InTurn(q, k, s, n)
    /\ EndOf(q, k + n) <= r
    /\ k + n < Len(q) => r < EndOf(q, k + n + 1)
    /\ n # 0 =>
          RingOf(PopMany(c.lasts, n), s[n], r, hi,
                 {x \in Nat : \E i \in (n + 1) .. Len(s) : x = s[i]})

LEMMA ReceiverOrder ==
    ASSUME NEW q, StreamOK(q), NEW c \in ConnectionRecord, NEW k,
           NEW lo \in Nat, NEW r \in Nat, NEW hi \in Nat,
           Receiver(c, q, k, lo, r, hi)
    PROVE  \E s, n : Delivery(c, q, k, r, hi, s, n)
<1> DEFINE D == EndOf(q, k)
           W == MAX_WINDOW_OFFSET
           M == MAX_SEGMENT_OFFSET
           S == EndsHeld(c, q)
           d == c.lasts
<1>1. /\ D \in Nat /\ k \in Nat /\ k \in 0 .. Len(q) /\ Len(q) \in Nat
      /\ Roomy(D, lo, hi)
      /\ W \in Nat /\ M \in Nat /\ W >= 1 /\ 2 * W < M
  BY ReceiverRoom, Constants, WindowHoldsSegment, SequenceNumbersAssumption
<1>2. /\ D <= lo /\ lo <= r /\ r <= hi /\ hi <= lo + W /\ lo + 2 * W < D + M
      /\ D <= r
  <2>1. D <= lo /\ lo <= r /\ r <= hi /\ hi <= lo + W /\ lo + 2 * W < D + M
    BY <1>1 DEF Receiver, Roomy
  <2> HIDE DEF D
  <2> QED BY <1>1, <2>1
<1>3. /\ HoldsOnly(c.inBuf, D, hi) /\ FirstMissing(c.inBuf, D, r)
      /\ c.bufferStart = D % M
      /\ RingOf(d, D, lo, hi, S)
  BY DEF Receiver, EndsInRing
<1>4. c.inBuf \in ReceiveBuffer
  BY Fields
<1>5. AckOffset(c) = r % M
  <2>1. r - D < M /\ hi - r <= M
    <3> HIDE DEF D, W, M
    <3> QED BY <1>1, <1>2
  <2> QED BY <1>1, <1>3, <2>1, AckOffsetIsMissing
<1> HIDE DEF S, d
<1>6. PICK s : RingOrdered(d, lo, hi, S, s)
  BY <1>1, <1>3, RingOfOrder
<1> DEFINE L == Len(s)
           T == Complete(c)
           n == Cardinality(T)
<1>7. /\ s \in Seq(Nat)
      /\ Increasing(s)
      /\ \A x : x \in S <=> \E i \in 1 .. L : x = s[i]
      /\ Pops(d, s)
      /\ \A i \in 1 .. L : lo < s[i] /\ s[i] <= hi
      /\ L \in Nat
      /\ \A i \in 1 .. L : s[i] \in Nat /\ OffsetsOf(s)[i] = s[i] % M
      /\ DOMAIN s = 1 .. L
      /\ \A i, j \in 1 .. L : i < j => s[i] < s[j]
      /\ PopOrder(d) = OffsetsOf(s)
      /\ dring_nitems(d) = L
  BY <1>6, OffsetsOfType DEF Pops, Increasing, RingOrdered
<1>8. ASSUME NEW i \in 1 .. L
      PROVE  acknowledged(PopOrder(d)[i], AckOffset(c)) <=> s[i] <= r
  <2> DEFINE x == s[i]
             o == x % M
             p == r % M
  <2>1. x \in Nat /\ lo < x /\ x <= hi
    BY <1>7
  <2>2. x - r <= W /\ r - x <= W /\ x \in Int /\ r \in Int
    <3> HIDE DEF x, W
    <3> QED BY <1>1, <1>2, <2>1
  <2>3. o \in Int /\ o % M = x % M /\ p \in Int /\ p % M = r % M
    <3>1. o \in Offsets /\ p \in Offsets
      BY <2>2, OffsetMod
    <3> QED BY <3>1, OffsetIsMod, OffsetsAreNumbers
  <2>4. PopOrder(d)[i] = o
    BY <1>7
  <2> HIDE DEF x, o, p
  <2>5. acknowledged(o, p) <=> x <= r
    BY <2>2, <2>3, AcknowledgedIsOrder
  <2>6. AckOffset(c) = p
    BY <1>5 DEF p
  <2> QED BY <2>4, <2>5, <2>6 DEF x
<1>9. T = {j \in 1 .. L : \A i \in 1 .. j : s[i] <= r}
  <2>1. T = {j \in 1 .. L : \A i \in 1 .. j : acknowledged(PopOrder(d)[i], AckOffset(c))}
    BY <1>7 DEF Complete, d
  <2>2. \A j \in 1 .. L : \A i \in 1 .. j : i \in 1 .. L
    BY <1>7
  <2> HIDE DEF T, L
  <2> QED BY <1>8, <2>1, <2>2
<1>10. \A j \in 1 .. L : j \in T <=> s[j] <= r
  <2> SUFFICES ASSUME NEW j \in 1 .. L PROVE (\A i \in 1 .. j : s[i] <= r) <=> s[j] <= r
    BY <1>9
  <2>1. j \in 1 .. j
    OBVIOUS
  <2>2. ASSUME s[j] <= r, NEW i \in 1 .. j PROVE s[i] <= r
    <3>1. i \in 1 .. L /\ (i = j \/ i < j)
      BY <1>7
    <3>2. i = j \/ s[i] < s[j]
      BY <1>7, <3>1
    <3>3. s[i] \in Nat /\ s[j] \in Nat
      BY <1>7, <3>1
    <3> QED BY <2>2, <3>2, <3>3
  <2> QED BY <2>1, <2>2
<1>11. n \in 0 .. L /\ T = 1 .. n
  <2>1. T \subseteq 1 .. L
    BY <1>9
  <2>2. \A i, j \in 1 .. L : j \in T /\ i < j => i \in T
    <3> SUFFICES ASSUME NEW i \in 1 .. L, NEW j \in 1 .. L, j \in T, i < j PROVE i \in T
      OBVIOUS
    <3>1. s[i] < s[j] /\ s[i] \in Nat /\ s[j] \in Nat /\ s[j] <= r
      BY <1>7, <1>10
    <3>2. s[i] <= r
      BY <3>1
    <3> QED BY <1>10, <3>2
  <2> HIDE DEF T, L
  <2>3. Cardinality(T) \in 0 .. L
    BY <1>7, <2>1, <2>2, PrefixIsInterval
  <2>4. T = 1 .. Cardinality(T)
    BY <1>7, <2>1, <2>2, PrefixIsInterval
  <2> QED BY <2>3, <2>4
<1> HIDE DEF T
<1>12. \A i \in 1 .. L : s[i] <= r <=> i <= n
  BY <1>7, <1>10, <1>11
<1>13. ASSUME NEW x \in Nat, IsEnd(q, x) PROVE x - 1 \in Nat /\ x >= 1
  <2>1. PICK j \in 1 .. Len(q) : x = EndOf(q, j)
    BY <1>13 DEF IsEnd
  <2>2. 0 \in 0 .. Len(q) /\ j \in 0 .. Len(q) /\ 0 < j
    BY <1>1
  <2>3. EndOf(q, 0) < EndOf(q, j) /\ EndOf(q, 0) \in Nat /\ EndOf(q, j) \in Nat
    BY <2>2 DEF StreamOK
  <2> QED BY <2>1, <2>3
<1>14. \A i \in 1 .. L : IsEnd(q, s[i]) /\ D < s[i]
  <2> SUFFICES ASSUME NEW i \in 1 .. L PROVE IsEnd(q, s[i]) /\ D < s[i]
    OBVIOUS
  <2> DEFINE x == s[i]
  <2>1. x \in S
    BY <1>7
  <2>2. x \in Nat /\ IsEnd(q, x) /\ Holds(c.inBuf, x - 1)
    BY <2>1 DEF S, EndsHeld
  <2>3. x - 1 \in Nat
    BY <1>13, <2>2
  <2> HIDE DEF x
  <2>4. D <= x - 1
    BY <1>1, <1>3, <1>4, <2>2, <2>3, HoldsRange
  <2>5. D < x
    <3> HIDE DEF D
    <3> QED BY <1>1, <2>2, <2>4
  <2> QED BY <2>2, <2>5 DEF x
<1>15. \A x \in Nat : IsEnd(q, x) /\ D < x /\ x <= r => \E i \in 1 .. L : x = s[i]
  <2> SUFFICES ASSUME NEW x \in Nat, IsEnd(q, x), D < x, x <= r
               PROVE  \E i \in 1 .. L : x = s[i]
    OBVIOUS
  <2>1. x - 1 \in Nat /\ D <= x - 1 /\ x - 1 < r
    <3>1. x - 1 \in Nat
      BY <1>13
    <3> HIDE DEF D
    <3> QED BY <1>1, <3>1
  <2>2. Holds(c.inBuf, x - 1)
    BY <1>3, <2>1 DEF FirstMissing
  <2>3. x \in S
    BY <2>2 DEF S, EndsHeld
  <2> QED BY <1>7, <2>3
<1> DEFINE N == n
<1>16. N \in 0 .. Len(s) /\ N = Cardinality(Complete(c))
  BY <1>11 DEF T
<1>17. \A i \in 1 .. Len(s) : s[i] <= r <=> i <= N
  BY <1>12
<1> HIDE DEF n, N
<1>18. /\ k + N \in 0 .. Len(q)
       /\ InTurn(q, k, s, N)
       /\ EndOf(q, k + N) <= r
       /\ k + N < Len(q) => r < EndOf(q, k + N + 1)
  <2>1. \A i \in 1 .. Len(s) : IsEnd(q, s[i]) /\ EndOf(q, k) < s[i]
    BY <1>14
  <2>2. \A x \in Nat :
          IsEnd(q, x) /\ EndOf(q, k) < x /\ x <= r => \E i \in 1 .. Len(s) : x = s[i]
    BY <1>15
  <2>3. EndOf(q, k) <= r /\ s \in Seq(Nat) /\ Increasing(s) /\ k \in 0 .. Len(q)
    BY <1>1, <1>2, <1>7
  <2> HIDE DEF D, L
  <2>4. k + N \in 0 .. Len(q)
    BY <1>16, <1>17, <2>1, <2>2, <2>3, EndsInOrder
  <2>5. InTurn(q, k, s, N)
    BY <1>16, <1>17, <2>1, <2>2, <2>3, EndsInOrder
  <2>6. EndOf(q, k + N) <= r
    BY <1>16, <1>17, <2>1, <2>2, <2>3, EndsInOrder
  <2>7. k + N < Len(q) => r < EndOf(q, k + N + 1)
    BY <1>16, <1>17, <2>1, <2>2, <2>3, EndsInOrder
  <2> QED BY <2>4, <2>5, <2>6, <2>7
<1>19. ASSUME N # 0
       PROVE  RingOf(PopMany(d, N), s[N], r, hi,
                     {x \in Nat : \E i \in (N + 1) .. Len(s) : x = s[i]})
  <2>1. N \in 1 .. Len(s)
    BY <1>7, <1>16, <1>19
  <2>2. \A i \in (N + 1) .. Len(s) : r < s[i]
    <3> SUFFICES ASSUME NEW i \in (N + 1) .. Len(s) PROVE r < s[i]
      OBVIOUS
    <3>1. i \in 1 .. Len(s) /\ ~ (i <= N)
      BY <1>7, <2>1
    <3>2. s[i] \in Nat /\ ~ (s[i] <= r)
      BY <1>7, <1>17, <3>1
    <3> QED BY <3>2
  <2>3. \A i \in 1 .. Len(s), lo2, hi2 \in Nat :
                    /\ hi <= hi2
                    /\ \A j \in (i + 1) .. Len(s) : lo2 < s[j]
                    => RingOf(PopMany(d, i), s[i], lo2, hi2,
                              {x \in Nat : \E j \in (i + 1) .. Len(s) : x = s[j]})
    BY <1>6 DEF RingOrdered
  <2>4. hi <= hi
    OBVIOUS
  <2> QED BY <2>1, <2>2, <2>3, <2>4, Zenon
<1>20. /\ s \in Seq(Nat)
       /\ Pops(c.lasts, s)
       /\ \A x : x \in EndsHeld(c, q) <=> \E i \in 1 .. Len(s) : x = s[i]
  BY <1>7 DEF S, d
<1> QED BY <1>16, <1>17, <1>18, <1>19, <1>20 DEF Delivery, d

-----------------------------------------------------------------------------

\* The j-th piece that transport_receive reads is the message from position a up
\* to position e, the j-th one behind the k-th.
ExtentOf(c, q, k, n, j, a, e) ==
    /\ a \in Nat /\ e \in Nat /\ a < e
    /\ e - a <= MAX_SEGMENT_OFFSET
    /\ EndOf(q, k) <= a /\ e <= EndOf(q, k + n)
    /\ a = EndOf(q, k + (j - 1)) /\ e = EndOf(q, k + j)
    /\ q[k + j] = Interval(a, e)
    /\ Extents(c)[j].start = a % MAX_SEGMENT_OFFSET
    /\ Extents(c)[j].size = e - a

\* The ends of the stream, in a form that hides their definition.
LEMMA EndsOrder ==
    ASSUME NEW q, StreamOK(q)
    PROVE  /\ Len(q) \in Nat
           /\ \A i \in 0 .. Len(q) : EndOf(q, i) \in Nat
           /\ \A i, j \in 0 .. Len(q) : i < j => EndOf(q, i) < EndOf(q, j)
           /\ \A i, j \in 0 .. Len(q) : i <= j => EndOf(q, i) <= EndOf(q, j)
<1>1. /\ Len(q) \in Nat
      /\ \A i \in 0 .. Len(q) : EndOf(q, i) \in Nat
      /\ \A i, j \in 0 .. Len(q) : i < j => EndOf(q, i) < EndOf(q, j)
  BY LenProperties DEF StreamOK
<1>2. ASSUME NEW i \in 0 .. Len(q), NEW j \in 0 .. Len(q), i <= j
      PROVE  EndOf(q, i) <= EndOf(q, j)
  <2>1. CASE i = j
    <3>1. EndOf(q, j) \in Nat
      BY <1>1
    <3>2. EndOf(q, j) <= EndOf(q, j)
      BY <3>1
    <3> QED BY <2>1, <3>2
  <2>2. CASE i # j
    <3>1. i < j
      BY <1>2, <2>2
    <3>2. EndOf(q, i) < EndOf(q, j) /\ EndOf(q, i) \in Nat /\ EndOf(q, j) \in Nat
      BY <1>1, <3>1
    <3> QED BY <3>2
  <2> QED BY <2>1, <2>2
<1> QED BY <1>1, <1>2

LEMMA DeliveredExtent ==
    ASSUME NEW q, StreamOK(q), NEW c \in ConnectionRecord, NEW k \in 0 .. Len(q),
           NEW r \in Nat, NEW hi \in Nat,
           c.bufferStart = EndOf(q, k) % MAX_SEGMENT_OFFSET,
           NEW s, NEW n, Delivery(c, q, k, r, hi, s, n), NEW j \in 1 .. n
    PROVE  \E a, e : ExtentOf(c, q, k, n, j, a, e)
<1> DEFINE K == Len(q)
           M == MAX_SEGMENT_OFFSET
           W == MAX_WINDOW_OFFSET
<1>1. /\ K \in Nat /\ k \in Nat
      /\ \A i \in 0 .. K : EndOf(q, i) \in Nat
      /\ \A x, y \in 0 .. K : x < y => EndOf(q, x) < EndOf(q, y)
      /\ \A x, y \in 0 .. K : x <= y => EndOf(q, x) <= EndOf(q, y)
  BY EndsOrder
<1>2. /\ s \in Seq(Nat) /\ Len(s) \in Nat /\ n \in 0 .. Len(s) /\ n \in Nat
      /\ PopOrder(c.lasts) = OffsetsOf(s)
      /\ \A i \in 1 .. Len(s) : OffsetsOf(s)[i] = s[i] % M
      /\ n = Cardinality(Complete(c))
      /\ k + n \in 0 .. K
      /\ \A i \in 1 .. n : s[i] = EndOf(q, k + i)
  <2>1. /\ s \in Seq(Nat) /\ n \in 0 .. Len(s)
        /\ PopOrder(c.lasts) = OffsetsOf(s)
        /\ n = Cardinality(Complete(c))
        /\ k + n \in 0 .. K
        /\ \A i \in 1 .. n : s[i] = EndOf(q, k + i)
    BY DEF Delivery, Pops, InTurn
  <2>2. /\ Len(s) \in Nat
        /\ \A i \in 1 .. Len(s) : OffsetsOf(s)[i] = s[i] % M
    BY <2>1, OffsetsOfType
  <2>3. n \in Nat
    BY <2>1, <2>2
  <2> QED BY <2>1, <2>2, <2>3
<1>3. PICK h \in 0 .. K, m \in 1 .. K :
        /\ h = k + (j - 1) /\ m = k + j /\ h = m - 1 /\ m \in 0 .. K
        /\ k <= h /\ m <= k + n /\ h < m
  <2> DEFINE h == k + (j - 1)
             m == k + j
  <2>1. j \in Nat /\ 1 <= j /\ j <= n /\ k + n <= K
    BY <1>1, <1>2
  <2>2. /\ h \in 0 .. K /\ m \in 1 .. K /\ h = m - 1 /\ m \in 0 .. K
        /\ k <= h /\ m <= k + n /\ h < m
    BY SMTT(60), <1>1, <1>2, <2>1
  <2> HIDE DEF K
  <2> QED BY <2>2
<1>4. PICK a \in Nat, e \in Nat : a = EndOf(q, h) /\ e = EndOf(q, m)
  BY <1>1, <1>3
<1>5. a < e
  BY <1>1, <1>3, <1>4
<1>6. e - a <= M
  <2>1. EndOf(q, m) + 2 * W <= EndOf(q, m - 1) + M
    BY <1>3 DEF StreamOK
  <2>2. e + 2 * W <= a + M
    BY <1>3, <1>4, <2>1
  <2>3. W \in Nat /\ M \in Nat
    BY Constants
  <2> HIDE DEF W, M
  <2> QED BY <2>2, <2>3
<1>7. EndOf(q, k) <= a /\ e <= EndOf(q, k + n)
  <2>1. EndOf(q, k) <= EndOf(q, h)
    BY <1>1, <1>3
  <2>2. EndOf(q, m) <= EndOf(q, k + n)
    BY <1>1, <1>2, <1>3
  <2> QED BY <1>4, <2>1, <2>2
<1>8. a = EndOf(q, k + (j - 1)) /\ e = EndOf(q, k + j)
  BY <1>3, <1>4
<1>9. q[k + j] = Interval(a, e)
  <2>1. q[m] = Interval(EndOf(q, m - 1), EndOf(q, m))
    BY <1>3 DEF StreamOK
  <2> QED BY <1>3, <1>4, <2>1
<1>10. PopOrder(c.lasts)[j] = e % M
  <2>1. j \in 1 .. Len(s) /\ s[j] = e
    BY SMTT(60), <1>2, <1>8
  <2> QED BY <1>2, <2>1
<1>11. (IF j = 1 THEN c.bufferStart ELSE PopOrder(c.lasts)[j - 1]) = a % M
  <2>1. CASE j = 1
    <3>1. k + (j - 1) = k
      BY <1>1, <2>1
    <3> QED BY <1>8, <2>1, <3>1
  <2>2. CASE j # 1
    <3>1. PICK i \in 1 .. n : i = j - 1 /\ i \in 1 .. Len(s) /\ k + i = h
      BY SMTT(60), <1>2, <1>3, <2>2
    <3>2. s[i] = EndOf(q, k + i)
      BY <1>2
    <3>3. s[i] = a
      BY <1>4, <3>1, <3>2
    <3> QED BY <1>2, <2>2, <3>1, <3>3
  <2> QED BY <2>1, <2>2
<1>12. distance(a % M, e % M) = e - a
  BY <1>5, <1>6, DistanceIsDifference
<1>13. /\ Extents(c)[j].start = a % M
       /\ Extents(c)[j].size = distance(a % M, e % M)
  <2> DEFINE o == PopOrder(c.lasts)
             start(i) == IF i = 1 THEN c.bufferStart ELSE o[i - 1]
             N == Cardinality(Complete(c))
             x == a % M
             y == e % M
  <2>1. j \in 1 .. N
    BY <1>2
  <2>2. start(j) = x /\ o[j] = y
    BY <1>10, <1>11
  <2>3. Extents(c) = [i \in 1 .. N |-> [start |-> start(i), size |-> distance(start(i), o[i])]]
    BY DEF Extents
  <2> HIDE DEF o, N, x, y
  <2>4. Extents(c)[j] = [start |-> start(j), size |-> distance(start(j), o[j])]
    BY <2>1, <2>3
  <2> HIDE DEF start
  <2>5. Extents(c)[j].start = start(j) /\ Extents(c)[j].size = distance(start(j), o[j])
    BY <2>4
  <2> QED BY <2>2, <2>5 DEF x, y
<1> QED BY <1>5, <1>6, <1>7, <1>8, <1>9, <1>12, <1>13 DEF ExtentOf

\* The cells of a message.
LEMMA ExtentCovers ==
    ASSUME NEW c, NEW q, NEW k, NEW n, NEW j, NEW a, NEW e,
           ExtentOf(c, q, k, n, j, a, e), NEW p \in Offsets
    PROVE  Covers(Extents(c)[j], p)
             <=> \E x \in Nat : a <= x /\ x < e /\ x % MAX_SEGMENT_OFFSET = p
<1> DEFINE M == MAX_SEGMENT_OFFSET
           o == a % M
           i == (p - o) % M
           x == a + i
<1>1. /\ a \in Nat /\ e \in Nat /\ a < e /\ e - a <= M
      /\ Extents(c)[j].start = o
      /\ Extents(c)[j].size = e - a
      /\ M \in Nat
  BY Constants DEF ExtentOf
<1>2. Covers(Extents(c)[j], p) <=> i < e - a
  BY <1>1 DEF Covers
<1>3. /\ i \in Offsets
      /\ x % M = p
      /\ \A y \in Int : y % M = p /\ a <= y /\ y < a + M => y = x
  BY <1>1, CellOfSegment
<1>4. i \in Nat
  BY <1>3, OffsetsAreNumbers
<1> HIDE DEF i
<1>5. ASSUME i < e - a PROVE \E y \in Nat : a <= y /\ y < e /\ y % M = p
  <2>1. x \in Nat /\ a <= x /\ x < e
    <3> HIDE DEF M
    <3> QED BY <1>1, <1>4, <1>5
  <2> QED BY <1>3, <2>1
<1>6. ASSUME NEW y \in Nat, a <= y, y < e, y % M = p PROVE i < e - a
  <2>1. y \in Int /\ y < a + M
    BY <1>1, <1>6
  <2>2. y = a + i
    BY <1>3, <1>6, <2>1
  <2> HIDE DEF M
  <2> QED BY <1>1, <1>4, <1>6, <2>2
<1> QED BY <1>2, <1>5, <1>6

-----------------------------------------------------------------------------

\* The messages that are handed to the application are the next n of the stream.
Handed(c, q, k, n) ==
    /\ Messages(c) \in Seq(Seq(Nat))
    /\ Len(Messages(c)) = n
    /\ \A j \in 1 .. n : Messages(c)[j] = q[k + j]

\* Every byte of the messages is in the buffer.
LEMMA ExtentHeld ==
    ASSUME NEW c, NEW q, NEW k, NEW lo \in Nat, NEW r \in Nat, NEW hi \in Nat,
           Receiver(c, q, k, lo, r, hi), StreamOK(q),
           NEW s, NEW n, Delivery(c, q, k, r, hi, s, n), NEW j \in 1 .. n,
           NEW a, NEW e, ExtentOf(c, q, k, n, j, a, e),
           NEW x \in Nat, a <= x, x < e
    PROVE  /\ Holds(c.inBuf, x)
           /\ EndOf(q, k) <= x
           /\ x < EndOf(q, k + n)
           /\ x < r
<1> DEFINE D == EndOf(q, k)
           F == EndOf(q, k + n)
<1>1. /\ a \in Nat /\ e \in Nat /\ D <= a /\ e <= F
      /\ F <= r
      /\ k + n \in 0 .. Len(q) /\ k \in 0 .. Len(q)
  BY DEF ExtentOf, Delivery, Receiver
<1>2. D \in Nat /\ F \in Nat
  BY <1>1, EndsOrder
<1>3. D <= x /\ x < F /\ x < r
  <2> HIDE DEF D, F
  <2> QED BY <1>1, <1>2
<1>4. FirstMissing(c.inBuf, D, r)
  BY DEF Receiver
<1> QED BY <1>3, <1>4 DEF FirstMissing

LEMMA HandedMessages ==
    ASSUME NEW c \in ConnectionRecord, NEW q, NEW k, NEW lo \in Nat, NEW r \in Nat, NEW hi \in Nat,
           Receiver(c, q, k, lo, r, hi), StreamOK(q),
           NEW s, NEW n, Delivery(c, q, k, r, hi, s, n)
    PROVE  Handed(c, q, k, n)
<1> DEFINE M == MAX_SEGMENT_OFFSET
           b == c.inBuf
           X == Extents(c)
<1>1. /\ k \in 0 .. Len(q) /\ Len(q) \in Nat /\ k \in Nat
      /\ c.bufferStart = EndOf(q, k) % M
      /\ n = Cardinality(Complete(c))
      /\ k + n \in 0 .. Len(q)
      /\ n \in Nat
      /\ b.len = M
  <2>1. k \in 0 .. Len(q) /\ c.bufferStart = EndOf(q, k) % M
        /\ n = Cardinality(Complete(c)) /\ k + n \in 0 .. Len(q)
        /\ s \in Seq(Nat) /\ n \in 0 .. Len(s)
    BY DEF Receiver, Delivery
  <2>2. Len(q) \in Nat /\ Len(s) \in Nat
    BY <2>1, EndsOrder, LenProperties
  <2> QED BY <2>1, <2>2, Fields, BufferType
<1>2. Messages(c) = [j \in 1 .. n |-> Loaded(b, X[j].start, X[j].size)]
  <2>1. DOMAIN X = 1 .. n
    BY <1>1 DEF Extents
  <2> QED BY <2>1 DEF Messages
<1>3. ASSUME NEW j \in 1 .. n
      PROVE  Loaded(b, X[j].start, X[j].size) = q[k + j]
  <2>1. PICK a, e : ExtentOf(c, q, k, n, j, a, e)
    BY <1>1, DeliveredExtent
  <2>2. /\ a \in Nat /\ e \in Nat /\ a < e
        /\ q[k + j] = Interval(a, e)
        /\ X[j].start = a % M
        /\ X[j].size = e - a
    BY <2>1 DEF ExtentOf
  <2>3. ASSUME NEW i \in 1 .. (e - a)
        PROVE  b.cell[((a % M) + i - 1) % M] = a + i - 1
    <3> DEFINE x == a + i - 1
    <3>1. x \in Nat /\ a <= x /\ x < e /\ i - 1 \in Int
      BY <2>2
    <3>2. ((a % M) + (i - 1)) % M = (a + (i - 1)) % M
      BY <2>2, <3>1, ModAdd
    <3>3. (a % M) + i - 1 = (a % M) + (i - 1) /\ a + (i - 1) = x
      <4>1. a % M \in Int /\ i \in Int
        BY <2>2, OffsetMod, OffsetsAreNumbers
      <4> DEFINE o == a % M
      <4> HIDE DEF o
      <4>2. o + i - 1 = o + (i - 1)
        BY <4>1 DEF o
      <4> QED BY <2>2, <4>1, <4>2 DEF o
    <3> HIDE DEF x
    <3>4. Holds(b, x)
      BY <2>1, <3>1, ExtentHeld
    <3>5. b.cell[x % M] = x
      BY <3>4 DEF Holds
    <3> QED BY <3>2, <3>3, <3>5 DEF x
  <2>4. Loaded(b, a % M, e - a) = [i \in 1 .. (e - a) |-> b.cell[((a % M) + i - 1) % M]]
    BY <1>1 DEF Loaded
  <2>5. Interval(a, e) = [i \in 1 .. (e - a) |-> a + i - 1]
    BY DEF Interval
  <2> QED BY <2>2, <2>3, <2>4, <2>5
<1>4. ASSUME NEW j \in 1 .. n PROVE q[k + j] \in Seq(Nat)
  <2>1. k + j \in 1 .. Len(q)
    BY <1>1
  <2>2. q \in Seq(Seq(Nat))
    BY DEF StreamOK
  <2> QED BY <2>1, <2>2, ElementOfSeq
<1>5. /\ Messages(c) = [j \in 1 .. n |-> q[k + j]]
  BY <1>2, <1>3
<1> DEFINE Q == Seq(Nat)
           f == [j \in 1 .. n |-> q[k + j]]
<1>6. \A j \in 1 .. n : q[k + j] \in Q
  BY <1>4
<1> HIDE DEF Q
<1>7. f \in Seq(Q) /\ Len(f) = n /\ \A j \in 1 .. n : f[j] = q[k + j]
  <2>1. f \in [1 .. n -> Q]
    BY <1>6
  <2>2. f \in Seq(Q)
    BY <1>1, <2>1, FunctionIsSeq
  <2>3. DOMAIN f = 1 .. n
    OBVIOUS
  <2>4. DOMAIN f = 1 .. Len(f) /\ Len(f) \in Nat
    BY <2>2, LenProperties
  <2> HIDE DEF f
  <2>5. Len(f) = n
    BY <1>1, <2>3, <2>4
  <2> QED BY <2>2, <2>5 DEF f
<1> HIDE DEF f
<1>8. Messages(c) = f
  BY <1>5 DEF f
<1> QED BY <1>7, <1>8 DEF Handed, Q

\* No byte is read that is not there, or that has been read before.
LEMMA NoInvalidReads ==
    ASSUME NEW c \in ConnectionRecord, NEW q, NEW k, NEW lo \in Nat, NEW r \in Nat, NEW hi \in Nat,
           Receiver(c, q, k, lo, r, hi), StreamOK(q),
           NEW s, NEW n, Delivery(c, q, k, r, hi, s, n)
    PROVE  ~ ReadsInvalid(c)
<1> DEFINE M == MAX_SEGMENT_OFFSET
           D == EndOf(q, k)
           X == Extents(c)
<1>1. /\ k \in 0 .. Len(q) /\ Len(q) \in Nat /\ k \in Nat
      /\ c.bufferStart = D % M
      /\ n = Cardinality(Complete(c))
      /\ k + n \in 0 .. Len(q)
      /\ n \in Nat
      /\ D \in Nat /\ hi - D < M /\ M \in Nat /\ r <= hi
      /\ HoldsOnly(c.inBuf, D, hi)
  <2>1. k \in 0 .. Len(q) /\ c.bufferStart = D % M
        /\ n = Cardinality(Complete(c)) /\ k + n \in 0 .. Len(q)
        /\ s \in Seq(Nat) /\ n \in 0 .. Len(s)
        /\ HoldsOnly(c.inBuf, D, hi) /\ r <= hi
    BY DEF Receiver, Delivery
  <2>2. Len(q) \in Nat /\ Len(s) \in Nat
    BY <2>1, EndsOrder, LenProperties
  <2>3. D \in Nat /\ hi - D < M /\ M \in Nat
    BY ReceiverRoom, Constants
  <2> QED BY <2>1, <2>2, <2>3
<1>2. DOMAIN X = 1 .. n
  BY <1>1 DEF Extents
<1> SUFFICES ASSUME NEW j \in 1 .. n,
                    \/ X[j].size > M
                    \/ \E p \in Offsets :
                          /\ Covers(X[j], p)
                          /\ \/ ~ buffer_check(c.inBuf, p)
                             \/ \E i \in 1 .. (j - 1) : Covers(X[i], p)
             PROVE  FALSE
  BY <1>2 DEF ReadsInvalid
<1>3. PICK a, e : ExtentOf(c, q, k, n, j, a, e)
  BY <1>1, DeliveredExtent
<1>4. a \in Nat /\ e \in Nat /\ a < e /\ e - a <= M /\ X[j].size = e - a
      /\ a = EndOf(q, k + (j - 1))
  BY <1>3 DEF ExtentOf
<1>5. ~ (X[j].size > M)
  <2> HIDE DEF M, X
  <2> QED BY SMTT(60), <1>1, <1>4
<1>6. PICK p \in Offsets : /\ Covers(X[j], p)
                           /\ \/ ~ buffer_check(c.inBuf, p)
                              \/ \E i \in 1 .. (j - 1) : Covers(X[i], p)
  BY <1>5
<1>7. PICK x \in Nat : a <= x /\ x < e /\ x % M = p
  BY <1>3, <1>6, ExtentCovers
<1>8. Holds(c.inBuf, x) /\ D <= x /\ x < r
  BY ZenonT(60), <1>3, <1>7, ExtentHeld
<1>9. buffer_check(c.inBuf, p)
  <2>1. x - D < M /\ hi - x <= M
    <3> HIDE DEF D, M
    <3> QED BY SMTT(60), <1>1, <1>8
  <2>2. p \in Int /\ p % M = x % M
    BY <1>7, OffsetIsMod, OffsetsAreNumbers
  <2>3. c.inBuf \in ReceiveBuffer
    BY Fields
  <2>4. Holds(c.inBuf, x) /\ HoldsOnly(c.inBuf, D, hi) /\ D \in Int
    BY <1>1, <1>8
  <2> HIDE DEF D
  <2> QED BY <2>1, <2>2, <2>3, <2>4, CheckIsHolds
<1>10. PICK i \in 1 .. (j - 1) : Covers(X[i], p)
  BY <1>6, <1>9
<1>11. i \in 1 .. n /\ i < j
  BY <1>1
<1>12. PICK f, g : ExtentOf(c, q, k, n, i, f, g)
  BY <1>1, <1>11, DeliveredExtent
<1>13. PICK y \in Nat : f <= y /\ y < g /\ y % M = p
  BY <1>10, <1>12, ExtentCovers
<1>14. D <= y /\ y < r
  BY ZenonT(60), <1>11, <1>12, <1>13, ExtentHeld
<1>15. x = y
  <2>1. x - y < M /\ y - x < M
    <3> HIDE DEF D, M
    <3> QED BY SMTT(60), <1>1, <1>8, <1>14
  <2> QED BY <1>7, <1>13, <2>1, SamePosition
<1>16. g <= a
  <2>1. PICK u \in 0 .. Len(q), v \in 0 .. Len(q) : u = k + i /\ v = k + (j - 1) /\ u <= v
    <3> DEFINE u == k + i
               v == k + (j - 1)
               L == Len(q)
    <3>1. u \in 0 .. L /\ v \in 0 .. L /\ u <= v
      BY SMTT(60), <1>1, <1>11
    <3> HIDE DEF L
    <3> QED BY <3>1 DEF L
  <2>2. EndOf(q, u) <= EndOf(q, v)
    BY <2>1, EndsOrder
  <2>3. g = EndOf(q, k + i)
    BY <1>12 DEF ExtentOf
  <2> QED BY <1>4, <2>1, <2>2, <2>3
<1>17. g \in Nat
  BY <1>12 DEF ExtentOf
<1> QED BY <1>4, <1>7, <1>13, <1>15, <1>16, <1>17

-----------------------------------------------------------------------------

\* The message a position lies in.
LEMMA MessageOf ==
    ASSUME NEW q, StreamOK(q), NEW k \in 0 .. Len(q), NEW n \in Nat, k + n <= Len(q),
           NEW x \in Nat, EndOf(q, k) <= x, x < EndOf(q, k + n)
    PROVE  \E j \in 1 .. n : EndOf(q, k + (j - 1)) <= x /\ x < EndOf(q, k + j)
<1> DEFINE K == Len(q)
           U == {j \in 0 .. n : x < EndOf(q, k + j)}
<1>1. /\ K \in Nat /\ k \in Nat
      /\ \A i \in 0 .. K : EndOf(q, i) \in Nat
  BY EndsOrder
<1>2. n \in U
  BY <1>1
<1>3. PICK j \in U : \A y \in U : j <= y
  <2>1. U \subseteq Nat /\ U # {}
    <3>1. \A y \in U : y \in 0 .. n
      OBVIOUS
    <3>2. \A y \in 0 .. n : y \in Nat
      OBVIOUS
    <3> HIDE DEF U
    <3> QED BY <1>2, <3>1, <3>2
  <2> HIDE DEF U
  <2> QED BY <2>1, LeastElement
<1>4. j \in 0 .. n /\ x < EndOf(q, k + j)
  BY <1>3
<1>5. j # 0
  <2> SUFFICES ASSUME j = 0 PROVE FALSE
    OBVIOUS
  <2>1. k + j = k
    BY <1>1
  <2>2. x < EndOf(q, k) /\ EndOf(q, k) \in Nat
    BY <1>1, <1>4, <2>1
  <2> QED BY <2>2
<1>6. PICK i \in 0 .. n : i = j - 1 /\ i < j
  BY <1>4, <1>5
<1>7. i \notin U
  <2>1. ~ (j <= i)
    BY <1>4, <1>6
  <2> HIDE DEF U
  <2> QED BY <1>3, <2>1
<1>8. ~ (x < EndOf(q, k + i))
  BY <1>7
<1>9. PICK t \in 0 .. K : t = k + i
  BY <1>1
<1>10. EndOf(q, t) <= x
  BY <1>1, <1>8, <1>9
<1>11. j \in 1 .. n
  BY <1>4, <1>5
<1> QED BY <1>4, <1>6, <1>9, <1>10, <1>11

\* The cells of a buffer without those of the first n pieces.
CellsBehind(c, n) ==
    [p \in Offsets |->
        IF \E j \in 1 .. n : Covers(Extents(c)[j], p)
        THEN INVALID ELSE c.inBuf.cell[p]]

LEMMA DeliverFields ==
    ASSUME NEW c \in ConnectionRecord, NEW n, n = Cardinality(Complete(c)), n # 0
    PROVE  /\ Deliver(c).inBuf.cell = CellsBehind(c, n)
           /\ Deliver(c).inBuf.len = c.inBuf.len
           /\ Deliver(c).lasts = PopMany(c.lasts, n)
           /\ Deliver(c).bufferStart = PopOrder(c.lasts)[n]
           /\ Deliver(c).failed = IF ReadsInvalid(c)
                                  THEN c.failed \union {"invalidate"} ELSE c.failed
<1> DEFINE cl == [p \in Offsets |->
                    IF \E j \in 1 .. n : Covers(Extents(c)[j], p)
                    THEN INVALID ELSE c.inBuf.cell[p]]
           po == PopMany(c.lasts, n)
           st == PopOrder(c.lasts)[n]
           fa == IF ReadsInvalid(c) THEN c.failed \union {"invalidate"} ELSE c.failed
<1>1. Deliver(c) = [c EXCEPT !.inBuf.cell = cl, !.lasts = po, !.bufferStart = st,
                             !.failed = fa]
  BY DEF Deliver
<1> HIDE DEF cl, po, st, fa
<1>2. /\ Deliver(c).inBuf.cell = cl
      /\ Deliver(c).inBuf.len = c.inBuf.len
      /\ Deliver(c).lasts = po
      /\ Deliver(c).bufferStart = st
      /\ Deliver(c).failed = fa
  BY <1>1 DEF ConnectionRecord, ReceiveBuffer
<1> QED BY <1>2 DEF cl, po, st, fa, CellsBehind

\* The messages that are complete are handed to the application, their bytes
\* leave the buffer, and the receiver waits for the end of the next one.
LEMMA DeliverKeeps ==
    ASSUME NEW c \in ConnectionRecord, NEW q, NEW k, NEW lo \in Nat, NEW r \in Nat, NEW hi \in Nat,
           Receiver(c, q, k, lo, r, hi), StreamOK(q)
    PROVE  \E n \in Nat :
              /\ Receiver(Deliver(c), q, k + n, r, r, hi)
              /\ Deliver(c).failed = c.failed
              /\ Handed(c, q, k, n)
              /\ \A x \in Nat : Holds(Deliver(c).inBuf, x) => Holds(c.inBuf, x)
<1> DEFINE M == MAX_SEGMENT_OFFSET
           W == MAX_WINDOW_OFFSET
           D == EndOf(q, k)
           b == c.inBuf
<1>1. PICK s, n : Delivery(c, q, k, r, hi, s, n)
  BY ReceiverOrder
<1> DEFINE d == Deliver(c)
           F == EndOf(q, k + n)
<1>2. Handed(c, q, k, n)
  BY <1>1, HandedMessages
<1>3. /\ s \in Seq(Nat) /\ Pops(c.lasts, s) /\ n \in 0 .. Len(s)
      /\ n = Cardinality(Complete(c))
      /\ \A i \in 1 .. Len(s) : s[i] <= r <=> i <= n
      /\ \A x : x \in EndsHeld(c, q) <=> \E i \in 1 .. Len(s) : x = s[i]
      /\ k + n \in 0 .. Len(q)
      /\ InTurn(q, k, s, n)
      /\ F <= r
      /\ k + n < Len(q) => r < EndOf(q, k + n + 1)
      /\ n # 0 => RingOf(PopMany(c.lasts, n), s[n], r, hi,
                         {x \in Nat : \E i \in (n + 1) .. Len(s) : x = s[i]})
  BY <1>1 DEF Delivery
<1>4. /\ k \in 0 .. Len(q) /\ k \in Nat /\ Len(q) \in Nat
      /\ D \in Nat /\ D <= lo /\ lo <= r /\ r <= hi /\ hi <= lo + W
      /\ hi <= EndOf(q, Len(q))
      /\ hi - D < M /\ M \in Nat /\ W \in Nat
      /\ c.bufferStart = D % M
      /\ HoldsOnly(b, D, hi) /\ FirstMissing(b, D, r) /\ WholePieces(b, q)
      /\ RingOf(c.lasts, D, lo, hi, EndsHeld(c, q))
      /\ b \in ReceiveBuffer
  BY ReceiverRoom, Constants, Fields DEF Receiver, EndsInRing
<1>5. Len(s) \in Nat /\ n \in Nat
  <2>1. Len(s) \in Nat
    BY <1>3, LenProperties
  <2> QED BY <1>3, <2>1
<1>6. hi <= r + W
  <2> HIDE DEF W
  <2> QED BY <1>4
<1>7. CASE n = 0
  <2>1. d = c
    BY <1>3, <1>7 DEF Deliver
  <2>2. k + n = k
    BY <1>4, <1>7
  <2>3. \A x \in EndsHeld(c, q) : r < x
    <3> SUFFICES ASSUME NEW x \in EndsHeld(c, q) PROVE r < x
      OBVIOUS
    <3>1. PICK i \in 1 .. Len(s) : x = s[i]
      BY <1>3
    <3>2. ~ (i <= n) /\ s[i] \in Nat
      BY SMTT(60), <1>3, <1>5, <1>7, ElementOfSeq
    <3>3. ~ (s[i] <= r)
      BY <1>3, <3>2
    <3> QED BY <3>1, <3>2, <3>3
  <2>4. RingOf(c.lasts, D, r, hi, EndsHeld(c, q))
    <3> DEFINE f == c.lasts
               S == EndsHeld(c, q)
    <3>1. /\ RingOf(f, D, lo, hi, S) /\ hi <= hi /\ D \in Nat
          /\ \A x \in S : r < x
      BY <1>4, <2>3
    <3> HIDE DEF f, S, D
    <3>2. RingOf(f, D, r, hi, S)
      BY <3>1, RingOfBounds
    <3> QED BY <3>2 DEF f, S
  <2>5. D <= r /\ r <= r
    <3> HIDE DEF D
    <3> QED BY <1>4
  <2>6. k < Len(q) => r < EndOf(q, k + 1)
    BY <1>3, <1>7, <2>2
  <2>7. Receiver(c, q, k, r, r, hi)
    BY <1>4, <1>6, <2>4, <2>5, <2>6 DEF Receiver, EndsInRing
  <2> HIDE DEF d, F, D
  <2>8. Receiver(Deliver(c), q, k + n, r, r, hi) /\ Deliver(c).failed = c.failed
        /\ \A x \in Nat : Holds(Deliver(c).inBuf, x) => Holds(c.inBuf, x)
    BY <2>1, <2>2, <2>7 DEF d
  <2> QED BY <1>2, <1>5, <2>8
<1>8. CASE n # 0
  <2>1. /\ d.inBuf.cell = CellsBehind(c, n)
        /\ d.lasts = PopMany(c.lasts, n)
        /\ d.bufferStart = PopOrder(c.lasts)[n]
        /\ d.failed = c.failed
    <3>1. ~ ReadsInvalid(c)
      BY <1>1, NoInvalidReads
    <3> QED BY <1>3, <1>8, <3>1, DeliverFields
  <2>2. n \in 1 .. n /\ n \in 1 .. Len(s)
    BY <1>3, <1>5, <1>8
  <2>3. s[n] = F
    BY <1>3, <2>2 DEF InTurn
  <2>4. d.bufferStart = F % M
    BY <1>3, <2>1, <2>2, <2>3, OffsetsOfType DEF Pops
  <2>5. F \in Nat /\ D <= F
    <3>1. F \in Nat
      BY <1>3, EndsOrder
    <3>2. PICK t \in 0 .. Len(q) : t = k + n /\ k <= t
      BY <1>3, <1>4, <1>5
    <3>3. EndOf(q, k) <= EndOf(q, t)
      BY <1>4, <3>2, EndsOrder
    <3> QED BY <3>1, <3>2, <3>3
  <2> DEFINE T == {p \in Offsets : \E j \in 1 .. n : Covers(Extents(c)[j], p)}
  <2>6. \A p \in Offsets : d.inBuf.cell[p] = IF p \in T THEN INVALID ELSE b.cell[p]
    <3> HIDE DEF d
    <3> QED BY <2>1 DEF CellsBehind
  <2>7. ASSUME NEW p \in Offsets
        PROVE  p \in T <=> \E x \in Nat : D <= x /\ x < F /\ x % M = p
    <3>1. ASSUME p \in T PROVE \E x \in Nat : D <= x /\ x < F /\ x % M = p
      <4>1. PICK j \in 1 .. n : Covers(Extents(c)[j], p)
        BY <3>1
      <4>2. PICK a, e : ExtentOf(c, q, k, n, j, a, e)
        BY <1>1, <1>4, DeliveredExtent
      <4>3. PICK x \in Nat : a <= x /\ x < e /\ x % M = p
        BY <4>1, <4>2, ExtentCovers
      <4>4. D <= x /\ x < F
        <5>1. a \in Nat /\ e \in Nat /\ D <= a /\ e <= F
          BY <4>2 DEF ExtentOf
        <5> HIDE DEF D, F
        <5> QED BY <1>4, <2>5, <4>3, <5>1
      <4> QED BY <4>3, <4>4
    <3>2. ASSUME NEW x \in Nat, D <= x, x < F, x % M = p PROVE p \in T
      <4>1. k + n <= Len(q)
        BY <1>3, <1>4, <1>5
      <4>2. PICK j \in 1 .. n : EndOf(q, k + (j - 1)) <= x /\ x < EndOf(q, k + j)
        BY <1>4, <1>5, <3>2, <4>1, MessageOf
      <4>3. PICK a, e : ExtentOf(c, q, k, n, j, a, e)
        BY <1>1, <1>4, DeliveredExtent
      <4>4. a <= x /\ x < e
        BY <4>2, <4>3 DEF ExtentOf
      <4>5. Covers(Extents(c)[j], p)
        BY <3>2, <4>3, <4>4, ExtentCovers
      <4> QED BY <4>5
    <3> QED BY <3>1, <3>2
  <2> DEFINE g == d.inBuf
  <2>8. /\ \A x \in Nat : Holds(g, x) <=> Holds(b, x) /\ F <= x
        /\ HoldsOnly(g, F, hi)
    <3>1. hi - D <= M /\ F - D <= M
      <4> HIDE DEF D, F, M
      <4> QED BY <1>3, <1>4, <2>5
    <3>2. T \in SUBSET Offsets
      OBVIOUS
    <3>3. \A p \in Offsets : p \in T <=> \E x \in Nat : D <= x /\ x < F /\ x % M = p
      BY <2>7
    <3>4. \A p \in Offsets : g.cell[p] = IF p \in T THEN INVALID ELSE b.cell[p]
      BY <2>6
    <3>5. /\ b \in ReceiveBuffer /\ D \in Nat /\ HoldsOnly(b, D, hi) /\ F \in Nat /\ D <= F
          /\ hi \in Int
      BY <1>4, <2>5
    <3> HIDE DEF T, D, F, g, b
    <3>6. HoldsFrom(g, b, F)
      BY <3>1, <3>2, <3>3, <3>4, <3>5, TakenOutHolds
    <3>7. HoldsOnly(g, F, hi)
      BY <3>1, <3>2, <3>3, <3>4, <3>5, TakenOutHolds
    <3> QED BY <3>6, <3>7 DEF HoldsFrom
  <2>9. FirstMissing(g, F, r)
    <3>1. \A x \in Nat : F <= x /\ x < r => Holds(g, x)
      <4> SUFFICES ASSUME NEW x \in Nat, F <= x, x < r PROVE Holds(g, x)
        OBVIOUS
      <4>1. D <= x
        <5> HIDE DEF D, F
        <5> QED BY <1>4, <2>5
      <4> QED BY <1>4, <2>8, <4>1 DEF FirstMissing
    <3>2. ~ Holds(g, r)
      BY <1>4, <2>8 DEF FirstMissing
    <3> QED BY <1>3, <3>1, <3>2 DEF FirstMissing
  <2>10. WholePieces(g, q)
    <3> SUFFICES ASSUME NEW a \in Nat, NEW e \in Nat, NEW x \in Nat,
                        Piece(q, a, e), a <= x, x < e
                 PROVE  Holds(g, a) <=> Holds(g, x)
      BY DEF WholePieces
    <3>1. Holds(b, a) <=> Holds(b, x)
      BY <1>4 DEF WholePieces
    <3>2. F <= a \/ e <= F
      BY <1>3, PieceProperties
    <3>3. F <= a <=> F <= x
      <4> HIDE DEF F
      <4> QED BY <2>5, <3>2
    <3> QED BY <2>8, <3>1, <3>3
  <2>11. EndsHeld(d, q) = {x \in Nat : \E i \in (n + 1) .. Len(s) : x = s[i]}
    <3>1. ASSUME NEW x \in Nat
          PROVE  x \in EndsHeld(d, q) <=> x \in EndsHeld(c, q) /\ r < x
      <4>1. CASE ~ IsEnd(q, x)
        BY <4>1 DEF EndsHeld
      <4>2. CASE IsEnd(q, x)
        <5>1. PICK m \in 1 .. Len(q) : x = EndOf(q, m)
          BY <4>2 DEF IsEnd
        <5>2. m \in 0 .. Len(q) /\ 0 \in 0 .. Len(q) /\ 0 < m
          BY <1>4
        <5>3. x >= 1 /\ x - 1 \in Nat
          <6>1. EndOf(q, 0) < EndOf(q, m) /\ EndOf(q, 0) \in Nat
            BY <5>2, EndsOrder
          <6> QED BY <5>1, <6>1
        <5>4. Holds(g, x - 1) <=> Holds(b, x - 1) /\ F <= x - 1
          BY <2>8, <5>3
        <5>5. Holds(b, x - 1) => (F <= x - 1 <=> r < x)
          <6> SUFFICES ASSUME Holds(b, x - 1) PROVE F <= x - 1 <=> r < x
            OBVIOUS
          <6>1. PICK i \in 1 .. Len(s) : x = s[i]
            BY <1>3, <4>2 DEF EndsHeld
          <6>2. r < x => F <= x - 1
            <7> HIDE DEF F
            <7> QED BY <1>3, <2>5, <5>3
          <6>3. ASSUME x <= r PROVE x <= F
            <7>1. i \in 1 .. n
              BY <1>3, <1>5, <6>1, <6>3
            <7>2. s[i] = EndOf(q, k + i)
              BY <1>3, <7>1 DEF InTurn
            <7>3. PICK u \in 0 .. Len(q), t \in 0 .. Len(q) : u = k + i /\ t = k + n /\ u <= t
              <8> DEFINE u == k + i
                         t == k + n
                         L == Len(q)
              <8>1. u \in 0 .. L /\ t \in 0 .. L /\ u <= t
                <9>1. t \in 0 .. L /\ k \in Nat /\ n \in Nat /\ L \in Nat
                  BY <1>3, <1>4, <1>5
                <9> QED BY <7>1, <9>1
              <8> HIDE DEF L
              <8> QED BY <8>1 DEF L
            <7>4. EndOf(q, u) <= EndOf(q, t)
              BY <7>3, EndsOrder
            <7> QED BY <6>1, <7>2, <7>3, <7>4
          <6> HIDE DEF F
          <6> QED BY <2>5, <5>3, <6>2, <6>3
        <5> QED BY <5>4, <5>5 DEF EndsHeld
      <4> QED BY <4>1, <4>2
    <3>2. ASSUME NEW x \in Nat
          PROVE  x \in EndsHeld(c, q) /\ r < x <=> \E i \in (n + 1) .. Len(s) : x = s[i]
      <4>1. ASSUME NEW i \in 1 .. Len(s), x = s[i], r < x PROVE i \in (n + 1) .. Len(s)
        <5>1. ~ (s[i] <= r)
          BY <4>1
        <5>2. ~ (i <= n)
          BY <1>3, <5>1
        <5> QED BY <1>5, <5>2
      <4>2. ASSUME NEW i \in (n + 1) .. Len(s), x = s[i] PROVE i \in 1 .. Len(s) /\ r < x
        <5>1. i \in 1 .. Len(s) /\ ~ (i <= n)
          BY <1>5
        <5>2. ~ (s[i] <= r)
          BY <1>3, <5>1
        <5> QED BY <4>2, <5>1, <5>2
      <4> QED BY <1>3, <4>1, <4>2
    <3>3. EndsHeld(d, q) \subseteq Nat
      BY DEF EndsHeld
    <3> DEFINE R == {x \in Nat : \E i \in (n + 1) .. Len(s) : x = s[i]}
               Q == EndsHeld(d, q)
    <3>4. \A x \in Nat : x \in Q <=> x \in R
      BY <3>1, <3>2
    <3>5. R \subseteq Nat /\ Q \subseteq Nat
      BY <3>3
    <3> HIDE DEF R, Q
    <3>6. Q = R
      BY <3>4, <3>5
    <3> QED BY <3>6 DEF Q, R
  <2>12. EndsInRing(d, q, F, r, hi)
    BY <1>3, <1>8, <2>1, <2>3, <2>11 DEF EndsInRing
  <2>13. Receiver(d, q, k + n, r, r, hi)
    <3>1. r <= r
      OBVIOUS
    <3> HIDE DEF d
    <3> QED BY <1>3, <1>4, <1>6, <2>4, <2>8, <2>9, <2>10, <2>12, <3>1 DEF Receiver
  <2>14. \A x \in Nat : Holds(g, x) => Holds(b, x)
    BY <2>8
  <2> HIDE DEF d
  <2>15. Receiver(Deliver(c), q, k + n, r, r, hi) /\ Deliver(c).failed = c.failed
    BY <2>1, <2>13 DEF d
  <2>16. \A x \in Nat : Holds(Deliver(c).inBuf, x) => Holds(c.inBuf, x)
    BY <2>14 DEF d
  <2> QED BY <1>2, <1>5, <2>15, <2>16
<1> QED BY <1>7, <1>8

-----------------------------------------------------------------------------
(***************************************************************************)
(* The sender of a stream.                                                 *)
(***************************************************************************)

\* st is the positions at which the segments of the sender start, and last the
\* one at which the next message will.  Only a segment in the largest window has
\* a timer.
Sender(c, q, st) ==
    /\ st \in Seq(Nat)
    /\ Len(st) = Len(c.outSegments) + 1
    /\ st[Len(st)] = EndOf(q, Len(q))
    /\ c.nextOffset = EndOf(q, Len(q)) % MAX_SEGMENT_OFFSET
    /\ \A i \in 1 .. Len(c.outSegments) :
          SegmentOf(q, c.outSegments[i], st[i], st[i + 1])
    /\ \A i \in 1 .. Len(c.outSegments) :
          c.outSegments[i].timerId # NO_TIMER => i <= MAX_WINDOW_SIZE

\* Each position lies at most a segment behind the one before.
Paced(st) ==
    \A i, j \in 1 .. Len(st) :
        i < j => st[i] < st[j] /\ st[j] <= st[i] + (j - i) * SEGMENT_SIZE

LEMMA StepsArePaced ==
    ASSUME NEW st \in Seq(Nat),
           \A i, j \in 1 .. Len(st) :
              j = i + 1 => st[i] < st[j] /\ st[j] <= st[i] + SEGMENT_SIZE
    PROVE  Paced(st)
<1> DEFINE S == SEGMENT_SIZE
           L == Len(st)
<1>1. L \in Nat /\ S \in Nat /\ \A i \in 1 .. L : st[i] \in Nat
  BY LenProperties, ElementOfSeq, Constants
<1>2. \A i, j \in 1 .. L : j = i + 1 => st[i] < st[j] /\ st[j] <= st[i] + S
  OBVIOUS
<1> HIDE DEF S, L
<1> SUFFICES ASSUME NEW i \in 1 .. L
             PROVE  \A j \in 1 .. L :
                       i < j => st[i] < st[j] /\ st[j] <= st[i] + (j - i) * S
  BY DEF Paced, S, L
<1> DEFINE Good(j) == i < j => st[i] < st[j] /\ st[j] <= st[i] + (j - i) * S
           U == {j \in 1 .. L : ~ Good(j)}
<1> SUFFICES ASSUME U # {} PROVE FALSE
  OBVIOUS
<1>3. PICK j \in U : \A y \in U : j <= y
  <2>1. U \subseteq Nat
    <3>1. \A y \in U : y \in 1 .. L
      OBVIOUS
    <3> HIDE DEF U
    <3> QED BY <1>1, <3>1
  <2> HIDE DEF U
  <2> QED BY <2>1, LeastElement
<1>4. j \in 1 .. L /\ i < j /\ ~ (st[i] < st[j] /\ st[j] <= st[i] + (j - i) * S)
  BY <1>3
<1>5. CASE j = i + 1
  <2>1. (j - i) * S = S
    BY <1>1, <1>5
  <2> QED BY <1>2, <1>4, <1>5, <2>1
<1>6. CASE j # i + 1
  <2>1. PICK h \in 1 .. L : h = j - 1 /\ i < h /\ j = h + 1
    BY <1>1, <1>4, <1>6
  <2>2. h \notin U
    <3>1. ~ (j <= h)
      BY <1>4, <2>1
    <3> HIDE DEF U
    <3> QED BY <1>3, <3>1
  <2>3. st[i] < st[h] /\ st[h] <= st[i] + (h - i) * S
    BY <2>1, <2>2
  <2>4. st[h] < st[j] /\ st[j] <= st[h] + S
    BY <1>2, <1>4, <2>1
  <2> DEFINE d == h - i
             P == d * S
             Q == (j - i) * S
  <2>5. d \in Nat /\ j - i = d + 1
    BY <1>1, <1>4, <2>1
  <2>6. P \in Nat /\ Q = P + S
    <3>1. \A x, y \in Nat : x * y \in Nat /\ (x + 1) * y = x * y + y
      BY SMT
    <3> HIDE DEF d
    <3> QED BY <1>1, <2>5, <3>1
  <2>7. st[i] \in Nat /\ st[j] \in Nat /\ st[h] \in Nat
    BY <1>1, <1>4, <2>1
  <2>8. st[h] <= st[i] + P /\ ~ (st[i] < st[j] /\ st[j] <= st[i] + Q)
    BY <1>4, <2>3
  <2> DEFINE x == st[i]
             y == st[h]
             z == st[j]
  <2>9. /\ x \in Nat /\ y \in Nat /\ z \in Nat /\ S \in Nat /\ P \in Nat
        /\ x < y /\ y <= x + P /\ y < z /\ z <= y + S /\ Q = P + S
        /\ ~ (x < z /\ z <= x + Q)
    BY <1>1, <2>3, <2>4, <2>6, <2>7, <2>8
  <2> HIDE DEF P, Q, d, x, y, z
  <2> QED BY <2>9
<1> QED BY <1>5, <1>6

\* What is known of the positions of a sender.
LEMMA SenderProperties ==
    ASSUME NEW q, StreamOK(q), NEW c \in ConnectionRecord, NEW st, Sender(c, q, st)
    PROVE  /\ st \in Seq(Nat)
           /\ Len(c.outSegments) \in Nat
           /\ Len(st) = Len(c.outSegments) + 1
           /\ DOMAIN c.outSegments = 1 .. Len(c.outSegments)
           /\ \A i \in 1 .. Len(st) : st[i] \in Nat
           /\ Paced(st)
           /\ st[1] <= EndOf(q, Len(q))
           /\ \A i \in 1 .. Len(c.outSegments) :
                 c.outSegments[i] \in OutSegment /\ i + 1 \in 1 .. Len(st) /\ i \in 1 .. Len(st)
<1> DEFINE L == Len(c.outSegments)
<1>1. /\ c.outSegments \in Seq(OutSegment) /\ L \in Nat
      /\ DOMAIN c.outSegments = 1 .. L
  BY Fields, LenProperties
<1>2. /\ st \in Seq(Nat) /\ Len(st) = L + 1
      /\ \A i \in 1 .. L + 1 : st[i] \in Nat
      /\ st[L + 1] = EndOf(q, Len(q))
      /\ \A i \in 1 .. L : SegmentOf(q, c.outSegments[i], st[i], st[i + 1])
  <2>1. /\ st \in Seq(Nat) /\ Len(st) = L + 1
        /\ st[L + 1] = EndOf(q, Len(q))
        /\ \A i \in 1 .. L : SegmentOf(q, c.outSegments[i], st[i], st[i + 1])
    BY DEF Sender
  <2> QED BY <2>1, ElementOfSeq
<1>3. \A i \in 1 .. L : c.outSegments[i] \in OutSegment /\ i + 1 \in 1 .. L + 1 /\ i \in 1 .. L + 1
  BY <1>1, ElementOfSeq
<1> HIDE DEF L
<1>4. Paced(st)
  <2>1. ASSUME NEW i \in 1 .. L + 1, NEW j \in 1 .. L + 1, j = i + 1
        PROVE  st[i] < st[j] /\ st[j] <= st[i] + SEGMENT_SIZE
    <3>1. i \in 1 .. L
      BY <1>1, <2>1
    <3>2. SegmentOf(q, c.outSegments[i], st[i], st[j])
      BY <1>2, <2>1, <3>1
    <3> QED BY <3>2, PieceProperties DEF SegmentOf
  <2> QED BY <1>2, <2>1, StepsArePaced
<1>5. st[1] <= EndOf(q, Len(q))
  <2>1. CASE L = 0
    <3>1. st[1] = EndOf(q, Len(q)) /\ st[1] \in Nat
      BY <1>2, <2>1
    <3>2. st[1] <= st[1]
      BY <3>1
    <3> QED BY <3>1, <3>2
  <2>2. CASE L # 0
    <3>1. 1 \in 1 .. L + 1 /\ L + 1 \in 1 .. L + 1 /\ 1 < L + 1
      BY <1>1, <2>2
    <3>2. st[1] < st[L + 1] /\ st[1] \in Nat /\ st[L + 1] \in Nat
      BY <1>2, <1>4, <3>1 DEF Paced
    <3>3. st[1] <= st[L + 1]
      BY <3>2
    <3> QED BY <1>2, <3>3
  <2> QED BY <2>1, <2>2
<1> QED BY <1>1, <1>2, <1>3, <1>4, <1>5 DEF L

\* What a sender transmits lies in the largest window.
LEMMA SenderInWindow ==
    ASSUME NEW q, StreamOK(q), NEW c \in ConnectionRecord, NEW st, Sender(c, q, st),
           NEW i \in 1 .. Len(c.outSegments), i <= MAX_WINDOW_SIZE
    PROVE  /\ st[1] <= st[i]
           /\ st[i + 1] <= st[1] + MAX_WINDOW_OFFSET
<1> DEFINE L == Len(c.outSegments)
           S == SEGMENT_SIZE
           P == i * S
           W == MAX_WINDOW_OFFSET
<1>1. /\ L \in Nat /\ Len(st) = L + 1 /\ \A j \in 1 .. L + 1 : st[j] \in Nat
      /\ Paced(st)
  BY SenderProperties
<1>2. i \in Nat /\ i \in 1 .. L + 1 /\ i + 1 \in 1 .. L + 1 /\ 1 \in 1 .. L + 1 /\ 1 < i + 1
      /\ (i + 1) - 1 = i
  BY <1>1
<1>3. st[i + 1] <= st[1] + P /\ st[1] \in Nat /\ st[i] \in Nat /\ st[i + 1] \in Nat
  <2>1. st[i + 1] <= st[1] + ((i + 1) - 1) * S
    BY <1>1, <1>2 DEF Paced
  <2> QED BY <1>1, <1>2, <2>1
<1>4. P <= W /\ P \in Nat /\ W \in Nat
  <2>1. \A x, y, s \in Nat : x <= y => x * s \in Nat /\ x * s <= y * s
    BY SMT
  <2> QED BY <1>2, <2>1, Constants DEF MAX_WINDOW_OFFSET
<1>5. st[1] <= st[i]
  <2>1. CASE i = 1
    BY <1>3, <2>1
  <2>2. CASE i # 1
    <3>1. 1 < i
      BY <1>2, <2>2
    <3>2. st[1] < st[i]
      BY <1>1, <1>2, <3>1 DEF Paced
    <3> QED BY <1>3, <3>2
  <2> QED BY <2>1, <2>2
<1> HIDE DEF P, W
<1>6. st[i + 1] <= st[1] + W
  BY <1>3, <1>4
<1> QED BY <1>5, <1>6 DEF W

-----------------------------------------------------------------------------
(***************************************************************************)
(* What the operators of sending leave alone.                              *)
(***************************************************************************)

\* The parts of a segment that travel.
SameContent(s, t) ==
    t.offset = s.offset /\ t.isLast = s.isLast /\ t.payload = s.payload

\* d has the segments of c; what has a timer had one or lies in the window.
SameQueue(c, d) ==
    /\ d.nextOffset = c.nextOffset
    /\ Len(d.outSegments) = Len(c.outSegments)
    /\ \A i \in 1 .. Len(c.outSegments) :
          /\ SameContent(c.outSegments[i], d.outSegments[i])
          /\ d.outSegments[i].timerId # NO_TIMER =>
                c.outSegments[i].timerId # NO_TIMER \/ i <= MAX_WINDOW_SIZE

\* d receives as c does.
SameReceiving(c, d) ==
    /\ d.inBuf = c.inBuf
    /\ d.lasts = c.lasts
    /\ d.bufferStart = c.bufferStart
    /\ d.failed = c.failed

LEMMA SameQueueTwice ==
    ASSUME NEW c, NEW d, NEW e, SameQueue(c, d), SameQueue(d, e)
    PROVE  SameQueue(c, e)
BY DEF SameQueue, SameContent

LEMMA SameReceivingTwice ==
    ASSUME NEW c, NEW d, NEW e, SameReceiving(c, d), SameReceiving(d, e)
    PROVE  SameReceiving(c, e)
BY DEF SameReceiving

LEMMA SameSegmentsQueue ==
    ASSUME NEW c, NEW d, SameSegments(c, d)
    PROVE  SameQueue(c, d)
BY DEF SameSegments, SameQueue, SameContent

LEMMA SenderKept ==
    ASSUME NEW q, NEW st, NEW c, Sender(c, q, st), NEW d, SameQueue(c, d)
    PROVE  Sender(d, q, st)
<1>1. /\ Len(d.outSegments) = Len(c.outSegments) /\ d.nextOffset = c.nextOffset
      /\ \A i \in 1 .. Len(c.outSegments) :
            /\ SameContent(c.outSegments[i], d.outSegments[i])
            /\ d.outSegments[i].timerId # NO_TIMER =>
                  c.outSegments[i].timerId # NO_TIMER \/ i <= MAX_WINDOW_SIZE
  BY DEF SameQueue
<1>2. \A i \in 1 .. Len(c.outSegments) : SegmentOf(q, d.outSegments[i], st[i], st[i + 1])
  <2> TAKE i \in 1 .. Len(c.outSegments)
  <2>1. SegmentOf(q, c.outSegments[i], st[i], st[i + 1])
    BY DEF Sender
  <2> QED BY <1>1, <2>1 DEF SegmentOf, SameContent
<1>3. \A i \in 1 .. Len(c.outSegments) :
         d.outSegments[i].timerId # NO_TIMER => i <= MAX_WINDOW_SIZE
  BY <1>1 DEF Sender
<1> QED BY <1>1, <1>2, <1>3 DEF Sender

-----------------------------------------------------------------------------

LEMMA BackoffReceiving ==
    ASSUME NEW c \in ConnectionRecord, NEW i
    PROVE  SameReceiving(c, Backoff(c, i))
BY DEF SameReceiving, Backoff, ConnectionRecord

LEMMA stop_timerReceiving ==
    ASSUME NEW c \in ConnectionRecord, NEW o
    PROVE  /\ SameReceiving(c, stop_timer(c, o))
           /\ SameQueue(c, stop_timer(c, o))
BY DEF SameReceiving, stop_timer, ConnectionRecord, SameQueue, SameContent

LEMMA transmit_segmentQueue ==
    ASSUME NEW c0, Healthy(c0), NEW i \in DOMAIN c0.outSegments, i <= MAX_WINDOW_SIZE
    PROVE  /\ SameQueue(c0, transmit_segment(c0, i))
           /\ SameReceiving(c0, transmit_segment(c0, i))
<1> DEFINE c == Backoff(c0, i)
           s == c.outSegments[i]
           in == [s EXCEPT !.timesSend = AtMost(@ + 1, TIMES_SEND_CAP),
                           !.timerId = s.offset]
           out == [s EXCEPT !.timerId = NO_TIMER]
           t == start_timer(c, s.offset)
           d == transmit_segment(c0, i)
<1>1. /\ c0 \in ConnectionRecord /\ c0.outSegments \in Seq(OutSegment)
      /\ DOMAIN c0.outSegments = 1 .. Len(c0.outSegments)
  BY Fields, LenProperties DEF Healthy
<1>2. /\ Healthy(c) /\ c.outSegments = c0.outSegments /\ c.nextOffset = c0.nextOffset
      /\ SameReceiving(c0, c)
  BY <1>1, BackoffHealthy, BackoffReceiving DEF Backoff, Healthy, ConnectionRecord
<1>3. s \in OutSegment /\ s = c0.outSegments[i] /\ s.offset \in Offsets
  BY <1>1, <1>2, SegmentFields
<1> HIDE DEF c
<1>4. /\ Healthy(t) /\ t.outSegments = c0.outSegments /\ t.nextOffset = c0.nextOffset
      /\ SameReceiving(c, t)
  <2>1. t.nextOffset = c.nextOffset /\ SameReceiving(c, t)
    BY <1>2 DEF start_timer, Healthy, ConnectionRecord, SameReceiving
  <2> QED BY <1>2, <1>3, <2>1, start_timerHealthy
<1>5. in \in OutSegment /\ SameContent(s, in) /\ out \in OutSegment /\ SameContent(s, out)
  <2>1. AtMost(s.timesSend + 1, TIMES_SEND_CAP) \in 0 .. TIMES_SEND_CAP
    BY <1>3 DEF AtMost, TIMES_SEND_CAP, OutSegment
  <2> QED BY <1>3, <2>1 DEF OutSegment, SameContent
<1> HIDE DEF s, in, out, t
<1>6. \E e \in {in, out} : /\ d.outSegments = [c0.outSegments EXCEPT ![i] = e]
                           /\ d.nextOffset = c0.nextOffset
                           /\ SameReceiving(c0, d)
  <2>1. CASE InWindow(c, i)
    <3>1. d = [t EXCEPT !.outSegments = [t.outSegments EXCEPT ![i] = in]]
      BY <2>1 DEF transmit_segment, c, s, in, t
    <3> HIDE DEF d
    <3>2. SameReceiving(t, d)
      BY <1>4, <3>1 DEF Healthy, ConnectionRecord, SameReceiving
    <3>3. SameReceiving(c0, d)
      BY <1>2, <1>4, <3>2 DEF SameReceiving
    <3> QED BY <1>4, <3>1, <3>3 DEF Healthy, ConnectionRecord
  <2>2. CASE ~ InWindow(c, i)
    <3>1. d = [c EXCEPT !.outSegments = [c.outSegments EXCEPT ![i] = out],
                        !.numSentSegments = c.numSentSegments - 1]
      BY <2>2 DEF transmit_segment, c, s, out
    <3> HIDE DEF d
    <3>2. SameReceiving(c, d)
      BY <1>2, <3>1 DEF Healthy, ConnectionRecord, SameReceiving
    <3>3. SameReceiving(c0, d)
      BY <1>2, <3>2 DEF SameReceiving
    <3> QED BY <1>2, <3>1, <3>3 DEF Healthy, ConnectionRecord
  <2> QED BY <2>1, <2>2
<1> HIDE DEF d
<1>7. PICK e \in {in, out} : /\ d.outSegments = [c0.outSegments EXCEPT ![i] = e]
                             /\ d.nextOffset = c0.nextOffset
                             /\ SameReceiving(c0, d)
  BY <1>6
<1>8. e \in OutSegment /\ SameContent(c0.outSegments[i], e)
  BY <1>3, <1>5
<1>9. SameQueue(c0, d)
  <2>1. /\ Len(d.outSegments) = Len(c0.outSegments)
        /\ \A j \in 1 .. Len(c0.outSegments) :
              d.outSegments[j] = IF j = i THEN e ELSE c0.outSegments[j]
    BY <1>1, <1>7, <1>8, ExceptSeq
  <2>2. \A j \in 1 .. Len(c0.outSegments) :
           /\ SameContent(c0.outSegments[j], d.outSegments[j])
           /\ d.outSegments[j].timerId # NO_TIMER =>
                 c0.outSegments[j].timerId # NO_TIMER \/ j <= MAX_WINDOW_SIZE
    <3> TAKE j \in 1 .. Len(c0.outSegments)
    <3>1. CASE j = i
      BY <1>8, <2>1, <3>1
    <3>2. CASE j # i
      BY <2>1, <3>2 DEF SameContent
    <3> QED BY <3>1, <3>2
  <2> QED BY <1>7, <2>1, <2>2 DEF SameQueue
<1> QED BY <1>7, <1>9 DEF d

LEMMA transmit_segmentsQueue ==
    ASSUME NEW c, Healthy(c)
    PROVE  /\ SameQueue(c, transmit_segments(c))
           /\ SameReceiving(c, transmit_segments(c))
<1> DEFINE d == transmit_segments(c)
<1>1. /\ c \in ConnectionRecord /\ c.outSegments \in Seq(OutSegment)
      /\ DOMAIN c.outSegments = 1 .. Len(c.outSegments) /\ Len(c.outSegments) \in Nat
      /\ c.windowSize \in 1 .. MAX_WINDOW_SIZE /\ MAX_WINDOW_SIZE \in Nat
  BY Fields, LenProperties, Constants DEF Healthy, WindowOK
<1>2. d.outSegments \in Seq(OutSegment)
  BY transmit_segmentsHealthy, Fields DEF Healthy
<1>3. /\ d.nextOffset = c.nextOffset
      /\ DOMAIN d.outSegments = DOMAIN c.outSegments
      /\ \A i \in DOMAIN c.outSegments :
            \/ d.outSegments[i] = c.outSegments[i]
            \/ /\ d.outSegments[i] =
                     [c.outSegments[i] EXCEPT !.timerId = c.outSegments[i].offset]
               /\ i <= c.windowSize
  BY <1>1 DEF transmit_segments, ConnectionRecord, ToSend
<1>4. SameReceiving(c, d)
  BY <1>1 DEF transmit_segments, ConnectionRecord, SameReceiving
<1> HIDE DEF d
<1>5. Len(d.outSegments) = Len(c.outSegments)
  <2>1. DOMAIN d.outSegments = 1 .. Len(d.outSegments) /\ Len(d.outSegments) \in Nat
    BY <1>2, LenProperties
  <2> QED BY <1>1, <1>3, <2>1
<1>6. \A i \in DOMAIN c.outSegments :
         /\ SameContent(c.outSegments[i], d.outSegments[i])
         /\ d.outSegments[i].timerId # NO_TIMER =>
               c.outSegments[i].timerId # NO_TIMER \/ i <= MAX_WINDOW_SIZE
  <2> TAKE i \in DOMAIN c.outSegments
  <2>1. c.outSegments[i] \in OutSegment /\ i \in Nat
    BY <1>1, SegmentFields
  <2>2. CASE d.outSegments[i] = c.outSegments[i]
    BY <2>2 DEF SameContent
  <2>3. CASE d.outSegments[i] # c.outSegments[i]
    <3>1. d.outSegments[i] =
             [c.outSegments[i] EXCEPT !.timerId = c.outSegments[i].offset]
      BY <1>3, <2>3
    <3>2. i <= MAX_WINDOW_SIZE
      <4>1. i <= c.windowSize
        BY <1>3, <2>3
      <4> QED BY <1>1, <2>1, <4>1
    <3>3. SameContent(c.outSegments[i], d.outSegments[i])
      BY <2>1, <3>1 DEF OutSegment, SameContent
    <3> QED BY <3>2, <3>3
  <2> QED BY <2>2, <2>3
<1>7. SameQueue(c, d)
  BY <1>1, <1>3, <1>5, <1>6 DEF SameQueue
<1> QED BY <1>4, <1>7 DEF d

LEMMA update_window_limitReceiving ==
    ASSUME NEW c \in ConnectionRecord, NEW share
    PROVE  SameReceiving(c, update_window_limit(c, share))
BY DEF SameReceiving, update_window_limit, ConnectionRecord

LEMMA CountDuplicateAckReceiving ==
    ASSUME NEW c \in ConnectionRecord, NEW seg
    PROVE  SameReceiving(c, CountDuplicateAck(c, seg))
BY DEF SameReceiving, CountDuplicateAck, ConnectionRecord

LEMMA HalveWindowReceiving ==
    ASSUME NEW c \in ConnectionRecord
    PROVE  SameReceiving(c, HalveWindow(c))
BY DEF SameReceiving, HalveWindow, ConnectionRecord

\* The connection the fast retransmit starts from.
LEMMA FastStartQueue ==
    ASSUME NEW c, Healthy(c)
    PROVE  /\ SameQueue(c, StopFirstTimer(HalveWindow(c)))
           /\ SameReceiving(c, StopFirstTimer(HalveWindow(c)))
<1> DEFINE h == HalveWindow(c)
           s == StopFirstTimer(h)
<1>1. c \in ConnectionRecord /\ h \in ConnectionRecord
  BY HalveWindowHealthy DEF Healthy
<1>2. SameQueue(c, h) /\ SameReceiving(c, h)
  BY <1>1, HalveWindowSame, SameSegmentsQueue, HalveWindowReceiving
<1> HIDE DEF h
<1>3. SameQueue(h, s) /\ SameReceiving(h, s)
  <2>1. CASE h.outSegments[1].timerId # NO_TIMER
    BY <1>1, <2>1, stop_timerReceiving DEF StopFirstTimer
  <2>2. CASE ~ (h.outSegments[1].timerId # NO_TIMER)
    BY <2>2 DEF StopFirstTimer, SameQueue, SameReceiving, SameContent
  <2> QED BY <2>1, <2>2
<1> HIDE DEF s
<1>4. SameQueue(c, s) /\ SameReceiving(c, s)
  BY <1>2, <1>3, SameQueueTwice, SameReceivingTwice
<1> QED BY <1>4 DEF s, h

LEMMA FastRecoveryQueue ==
    ASSUME NEW c, Healthy(c), NEW seg \in Segment
    PROVE  /\ SameQueue(c, FastRecovery(c, seg))
           /\ SameReceiving(c, FastRecovery(c, seg))
<1> DEFINE h == HalveWindow(c)
           s == StopFirstTimer(h)
<1>1. Healthy(h) /\ c \in ConnectionRecord
  BY HalveWindowHealthy DEF Healthy
<1>2. SameQueue(c, h) /\ SameReceiving(c, h)
  BY <1>1, HalveWindowSame, SameSegmentsQueue, HalveWindowReceiving
<1>3. CASE StartsFastRecovery(c, seg) /\ c.outSegments # <<>>
  <2>1. Healthy(s) /\ 1 \in DOMAIN s.outSegments
    BY <1>3, FastStart
  <2>2. FastRecovery(c, seg) = transmit_segment(s, 1)
    BY <1>3 DEF FastRecovery
  <2>3. SameQueue(c, s) /\ SameReceiving(c, s)
    BY FastStartQueue
  <2> HIDE DEF s
  <2>4. 1 <= MAX_WINDOW_SIZE
    BY Constants
  <2>5. SameQueue(s, transmit_segment(s, 1)) /\ SameReceiving(s, transmit_segment(s, 1))
    BY <2>1, <2>4, transmit_segmentQueue
  <2> QED BY <2>2, <2>3, <2>5, SameQueueTwice, SameReceivingTwice
<1>4. CASE ~ (StartsFastRecovery(c, seg) /\ c.outSegments # <<>>)
  <2>1. FastRecovery(c, seg) = c \/ FastRecovery(c, seg) = h
    BY <1>4 DEF FastRecovery
  <2>2. SameQueue(c, c) /\ SameReceiving(c, c)
    BY DEF SameQueue, SameReceiving, SameContent
  <2> QED BY <1>2, <2>1, <2>2
<1> QED BY <1>3, <1>4

LEMMA SameAckOffset ==
    ASSUME NEW c, NEW d, SameReceiving(c, d)
    PROVE  AckOffset(d) = AckOffset(c)
BY DEF SameReceiving, AckOffset

\* What transmit_segment hands to the network.
LEMMA TransmittedIs ==
    ASSUME NEW c0, Healthy(c0), NEW i \in DOMAIN c0.outSegments
    PROVE  \/ Transmitted(c0, i) = <<>>
           \/ \E seg \in Segment :
                 /\ Transmitted(c0, i) = <<seg>>
                 /\ SameContent(c0.outSegments[i], seg)
                 /\ seg.ackOffset = AckOffset(c0)
<1> DEFINE c == Backoff(c0, i)
           s == c.outSegments[i]
           seg == [offset |-> s.offset, ackOffset |-> AckOffset(c),
                   isLast |-> s.isLast, payload |-> s.payload]
<1>1. /\ c0 \in ConnectionRecord /\ c \in ConnectionRecord /\ i \in DOMAIN c.outSegments
      /\ c.outSegments = c0.outSegments
  BY BackoffHealthy DEF Healthy
<1>2. seg \in Segment
  BY <1>1, SegmentFields, AckOffsetType DEF Segment
<1>3. AckOffset(c) = AckOffset(c0)
  BY <1>1, BackoffReceiving, SameAckOffset
<1>4. SameContent(c0.outSegments[i], seg) /\ seg.ackOffset = AckOffset(c0)
  BY <1>1, <1>3 DEF SameContent
<1>5. Transmitted(c0, i) = IF InWindow(c, i) THEN <<seg>> ELSE <<>>
  BY DEF Transmitted
<1> HIDE DEF seg
<1> QED BY <1>2, <1>4, <1>5

-----------------------------------------------------------------------------
(***************************************************************************)
(* An acknowledgment reaches the sender.                                   *)
(***************************************************************************)

LEMMA EndOffsetIs ==
    ASSUME NEW q, StreamOK(q), NEW s, NEW a, NEW b, SegmentOf(q, s, a, b)
    PROVE  EndOffset(s) = b % MAX_SEGMENT_OFFSET
<1>1. a \in Nat /\ b \in Nat /\ a < b
  BY PieceProperties DEF SegmentOf
<1>2. Len(s.payload) = b - a /\ s.offset = a % MAX_SEGMENT_OFFSET
  <2>1. Len(Interval(a, b)) = b - a
    BY <1>1, IntervalProperties
  <2> QED BY <2>1 DEF SegmentOf
<1>3. ((a % MAX_SEGMENT_OFFSET) + (b - a)) % MAX_SEGMENT_OFFSET
        = (a + (b - a)) % MAX_SEGMENT_OFFSET
  BY <1>1, ModAdd
<1>4. a + (b - a) = b
  BY <1>1
<1> QED BY <1>2, <1>3, <1>4 DEF EndOffset

\* What is acknowledged for the positions of a sender.
LEMMA AcknowledgedPositions ==
    ASSUME NEW q, StreamOK(q), NEW c \in ConnectionRecord, NEW st, Sender(c, q, st),
           NEW y \in Nat, st[1] <= y, y <= st[1] + MAX_WINDOW_OFFSET,
           NEW o, o = y % MAX_SEGMENT_OFFSET
    PROVE  /\ c.outSegments # <<>> => acknowledged(c.outSegments[1].offset, o)
           /\ \A j \in 1 .. Len(c.outSegments) :
                 (\A i \in 1 .. j : acknowledged(EndOffset(c.outSegments[i]), o))
                 => st[j + 1] <= y
<1> DEFINE L == Len(c.outSegments)
           W == MAX_WINDOW_OFFSET
<1>1. /\ L \in Nat /\ Len(st) = L + 1 /\ \A j \in 1 .. L + 1 : st[j] \in Nat
      /\ Paced(st)
      /\ c.outSegments \in Seq(OutSegment)
  BY SenderProperties, Fields
<1>2. /\ o \in Int /\ o % MAX_SEGMENT_OFFSET = y % MAX_SEGMENT_OFFSET
      /\ W \in Nat
  <2>1. o \in Offsets
    BY OffsetMod
  <2> QED BY <2>1, OffsetIsMod, OffsetsAreNumbers, Constants
<1>3. \A i \in 1 .. L : /\ SegmentOf(q, c.outSegments[i], st[i], st[i + 1])
                        /\ st[i] \in Nat /\ st[i + 1] \in Nat
                        /\ st[1] \in Nat /\ st[1] <= st[i]
                        /\ st[i] < st[i + 1] /\ st[i + 1] <= st[i] + W
  <2> TAKE i \in 1 .. L
  <2>1. SegmentOf(q, c.outSegments[i], st[i], st[i + 1])
    BY DEF Sender
  <2>2. st[i] < st[i + 1] /\ st[i + 1] <= st[i] + W
    BY <2>1, PieceProperties DEF SegmentOf
  <2>3. i \in 1 .. L + 1 /\ i + 1 \in 1 .. L + 1 /\ 1 \in 1 .. L + 1
    BY <1>1
  <2>4. st[1] \in Nat /\ st[i] \in Nat /\ st[i + 1] \in Nat
    BY <1>1, <2>3
  <2>5. st[1] <= st[i]
    <3>1. CASE i = 1
      BY <2>4, <3>1
    <3>2. CASE i # 1
      <4>1. 1 < i
        BY <3>2
      <4>2. st[1] < st[i]
        BY <1>1, <2>3, <4>1 DEF Paced
      <4> QED BY <2>4, <4>2
    <3> QED BY <3>1, <3>2
  <2> QED BY <2>1, <2>2, <2>4, <2>5
<1>4. c.outSegments # <<>> => acknowledged(c.outSegments[1].offset, o)
  <2> SUFFICES ASSUME c.outSegments # <<>>
               PROVE  acknowledged(c.outSegments[1].offset, o)
    OBVIOUS
  <2>1. 1 \in 1 .. L
    BY <1>1, EmptySeq
  <2> DEFINE x == st[1]
             p == c.outSegments[1].offset
  <2>2. x \in Nat /\ p = x % MAX_SEGMENT_OFFSET
    BY <1>3, <2>1 DEF SegmentOf
  <2>3. p \in Int /\ p % MAX_SEGMENT_OFFSET = x % MAX_SEGMENT_OFFSET
    BY <2>2, OffsetMod, OffsetIsMod, OffsetsAreNumbers
  <2>4. x - y <= MAX_WINDOW_OFFSET /\ y - x <= MAX_WINDOW_OFFSET /\ x <= y
    BY <1>2, <2>2
  <2> HIDE DEF x, p
  <2>5. acknowledged(p, o)
    BY <1>2, <2>2, <2>3, <2>4, AcknowledgedIsOrder
  <2> QED BY <2>5 DEF p
<1>5. ASSUME NEW j \in 1 .. L,
             \A i \in 1 .. j : acknowledged(EndOffset(c.outSegments[i]), o)
      PROVE  st[j + 1] <= y
  <2> DEFINE U == {h \in 1 .. j : ~ (st[h + 1] <= y)}
  <2> SUFFICES ASSUME U # {} PROVE FALSE
    <3> SUFFICES ASSUME U = {} PROVE st[j + 1] <= y
      OBVIOUS
    <3>1. j \in 1 .. j
      BY <1>1
    <3>2. j \notin U
      OBVIOUS
    <3> QED BY <3>1, <3>2
  <2>1. PICK h \in U : \A z \in U : h <= z
    <3>1. U \subseteq Nat
      <4>1. \A z \in U : z \in 1 .. j
        OBVIOUS
      <4> HIDE DEF U
      <4> QED BY <4>1
    <3> HIDE DEF U
    <3> QED BY <3>1, LeastElement
  <2>2. h \in 1 .. j /\ ~ (st[h + 1] <= y) /\ h \in 1 .. L
    BY <1>1, <2>1
  <2>3. st[h] <= y
    <3>1. CASE h = 1
      BY <3>1
    <3>2. CASE h # 1
      <4>1. PICK g \in 1 .. j : g = h - 1 /\ h = g + 1
        BY <2>2, <3>2
      <4>2. g \notin U
        <5>1. ~ (h <= g)
          BY <4>1
        <5> HIDE DEF U
        <5> QED BY <2>1, <5>1
      <4> QED BY <4>1, <4>2
    <3> QED BY <3>1, <3>2
  <2> DEFINE x == st[h + 1]
             p == EndOffset(c.outSegments[h])
  <2>4. p = x % MAX_SEGMENT_OFFSET /\ x \in Nat
    BY <1>3, <2>2, EndOffsetIs
  <2>5. p \in Int /\ p % MAX_SEGMENT_OFFSET = x % MAX_SEGMENT_OFFSET
    BY SMTT(60), <2>4, OffsetMod, OffsetIsMod, OffsetsAreNumbers
  <2>6. x - y <= MAX_WINDOW_OFFSET /\ y - x <= MAX_WINDOW_OFFSET
    <3> DEFINE u == st[1]
               z == st[h]
    <3>1. /\ x \in Nat /\ u \in Nat /\ z \in Nat /\ u <= z /\ z < x /\ x <= z + W
          /\ z <= y /\ y <= u + W
      BY <1>3, <2>2, <2>3
    <3> HIDE DEF x, u, z
    <3> QED BY <1>2, <3>1
  <2>7. acknowledged(p, o)
    BY <1>5, <2>2
  <2>8. ~ (x <= y)
    BY <2>2
  <2> HIDE DEF x, p
  <2> QED BY <1>2, <2>4, <2>5, <2>6, <2>7, <2>8, AcknowledgedIsOrder
<1> QED BY <1>4, <1>5

\* The positions the sender keeps when it handles the acknowledgment.
KeptAfter(c, d, q, st, y) ==
    \E st2 : Sender(d, q, st2) /\ st[1] <= st2[1] /\ st2[1] <= y

LEMMA RemoveAcknowledgedKeeps ==
    ASSUME NEW q, StreamOK(q), NEW c, Healthy(c), NEW st, Sender(c, q, st),
           NEW y \in Nat, st[1] <= y, y <= st[1] + MAX_WINDOW_OFFSET,
           NEW o, o = y % MAX_SEGMENT_OFFSET
    PROVE  /\ KeptAfter(c, RemoveAcknowledged(c, o), q, st, y)
           /\ SameReceiving(c, RemoveAcknowledged(c, o))
<1> DEFINE n == Acknowledged(c, o)
           d == RemoveAcknowledged(c, o)
           L == Len(c.outSegments)
           st2 == SubSeq(st, n + 1, Len(st))
<1>1. /\ c \in ConnectionRecord /\ c.outSegments \in Seq(OutSegment)
      /\ DOMAIN c.outSegments = 1 .. L /\ L \in Nat
  BY Fields, LenProperties DEF Healthy
<1>2. n \in Nat /\ n <= L
  BY <1>1, AcknowledgedType
<1>3. /\ st \in Seq(Nat) /\ Len(st) = L + 1 /\ Paced(st)
      /\ \A j \in 1 .. L + 1 : st[j] \in Nat
      /\ st[L + 1] = EndOf(q, Len(q))
      /\ c.nextOffset = EndOf(q, Len(q)) % MAX_SEGMENT_OFFSET
  <2>1. /\ st \in Seq(Nat) /\ Len(st) = L + 1 /\ Paced(st)
        /\ \A j \in 1 .. L + 1 : st[j] \in Nat
    BY <1>1, SenderProperties
  <2>2. st[Len(st)] = EndOf(q, Len(q)) /\ c.nextOffset = EndOf(q, Len(q)) % MAX_SEGMENT_OFFSET
    BY DEF Sender
  <2> QED BY <2>1, <2>2
<1>4. \A i \in 1 .. L :
         /\ SegmentOf(q, c.outSegments[i], st[i], st[i + 1])
         /\ c.outSegments[i].timerId # NO_TIMER => i <= MAX_WINDOW_SIZE
  BY DEF Sender
<1>5. /\ c.outSegments # <<>> => acknowledged(c.outSegments[1].offset, o)
      /\ \A j \in 1 .. L :
            (\A i \in 1 .. j : acknowledged(EndOffset(c.outSegments[i]), o))
            => st[j + 1] <= y
  BY <1>1, AcknowledgedPositions
<1>6. SameReceiving(c, d)
  <2>1. ~ AckIsStale(c, o)
    BY <1>5 DEF AckIsStale
  <2> QED BY <1>1, <2>1 DEF RemoveAcknowledged, ConnectionRecord, SameReceiving
<1>7. /\ d.outSegments = SubSeq(c.outSegments, n + 1, L)
      /\ d.nextOffset = c.nextOffset
  BY <1>1 DEF RemoveAcknowledged, ConnectionRecord
<1>8. n # 0 => st[n + 1] <= y
  <2> DEFINE T == {j \in DOMAIN c.outSegments :
                     \A i \in 1 .. j : acknowledged(EndOffset(c.outSegments[i]), o)}
  <2>1. n = Cardinality(T)
    BY DEF Acknowledged
  <2>2. T \subseteq 1 .. L
    BY <1>1
  <2>3. \A i, j \in 1 .. L : j \in T /\ i < j => i \in T
    <3> SUFFICES ASSUME NEW i \in 1 .. L, NEW j \in 1 .. L, j \in T, i < j
                 PROVE  i \in T
      OBVIOUS
    <3>1. \A h \in 1 .. i : h \in 1 .. j
      BY <1>1
    <3> QED BY <1>1, <3>1
  <2>4. T = 1 .. n
    <3> HIDE DEF T, n
    <3>1. T = 1 .. Cardinality(T)
      BY <1>1, <2>2, <2>3, PrefixIsInterval
    <3> QED BY <2>1, <3>1
  <2> SUFFICES ASSUME n # 0 PROVE st[n + 1] <= y
    OBVIOUS
  <2>5. n \in T
    <3> HIDE DEF T, n
    <3> QED BY <1>2, <2>4
  <2>6. \A i \in 1 .. n : acknowledged(EndOffset(c.outSegments[i]), o)
    <3> HIDE DEF n
    <3> QED BY <2>5
  <2>7. n \in 1 .. L
    BY <1>1, <2>5
  <2> HIDE DEF n, T
  <2> QED BY <1>5, <2>6, <2>7
<1> HIDE DEF d, n
<1>9. /\ Len(d.outSegments) = L - n
      /\ \A i \in 1 .. (L - n) : d.outSegments[i] = c.outSegments[n + i]
  <2>1. n \in 0 .. Len(c.outSegments)
    BY <1>1, <1>2
  <2> QED BY <1>1, <1>7, <2>1, SuffixProperties
<1>10. /\ st2 \in Seq(Nat) /\ Len(st2) = (L + 1) - n
       /\ \A i \in 1 .. ((L + 1) - n) : st2[i] = st[n + i]
  <2>1. n \in 0 .. Len(st)
    BY <1>1, <1>2, <1>3
  <2> QED BY SMTT(60), <1>3, <2>1, SuffixProperties
<1> HIDE DEF st2
<1>11. st[1] <= st2[1] /\ st2[1] <= y
  <2>1. 1 \in 1 .. ((L + 1) - n) /\ n + 1 \in 1 .. L + 1 /\ 1 \in 1 .. L + 1
    BY <1>1, <1>2
  <2>2. st2[1] = st[n + 1]
    BY <1>10, <2>1
  <2>3. CASE n = 0
    <3>1. st2[1] = st[1] /\ st[1] \in Nat
      BY <1>3, <2>1, <2>2, <2>3
    <3> QED BY <3>1
  <2>4. CASE n # 0
    <3>1. 1 < n + 1
      BY <1>2, <2>4
    <3>2. st[1] < st[n + 1] /\ st[1] \in Nat /\ st[n + 1] \in Nat
      BY <1>3, <2>1, <3>1 DEF Paced
    <3>3. st[1] <= st[n + 1]
      BY <3>2
    <3> QED BY <1>8, <2>2, <2>4, <3>3
  <2> QED BY <2>3, <2>4
<1>12. Sender(d, q, st2)
  <2>1. Len(st2) = Len(d.outSegments) + 1
    BY <1>1, <1>2, <1>9, <1>10
  <2>2. st2[Len(st2)] = EndOf(q, Len(q))
    <3>1. (L + 1) - n \in 1 .. ((L + 1) - n) /\ n + ((L + 1) - n) = L + 1
      BY <1>1, <1>2
    <3>2. st2[(L + 1) - n] = st[L + 1]
      BY <1>10, <3>1
    <3> QED BY <1>3, <1>10, <3>2
  <2>3. \A i \in 1 .. (L - n) :
           /\ SegmentOf(q, d.outSegments[i], st2[i], st2[i + 1])
           /\ d.outSegments[i].timerId # NO_TIMER => i <= MAX_WINDOW_SIZE
    <3> TAKE i \in 1 .. (L - n)
    <3>1. PICK j \in 1 .. L : j = n + i
      BY <1>1, <1>2
    <3>2. d.outSegments[i] = c.outSegments[j]
      BY <1>9, <3>1
    <3>3. st2[i] = st[j] /\ st2[i + 1] = st[j + 1]
      <4>1. /\ i \in 1 .. ((L + 1) - n) /\ i + 1 \in 1 .. ((L + 1) - n)
            /\ n + (i + 1) = j + 1
        BY SMTT(60), <1>1, <1>2, <3>1
      <4>2. st2[i] = st[n + i] /\ st2[i + 1] = st[n + (i + 1)]
        BY <1>10, <4>1
      <4> QED BY <3>1, <4>1, <4>2
    <3>4. j <= MAX_WINDOW_SIZE => i <= MAX_WINDOW_SIZE
      BY <1>1, <1>2, <3>1, Constants
    <3> QED BY <1>4, <3>2, <3>3, <3>4
  <2>4. d.nextOffset = EndOf(q, Len(q)) % MAX_SEGMENT_OFFSET
    BY <1>3, <1>7
  <2> QED BY <1>9, <1>10, <2>1, <2>2, <2>3, <2>4 DEF Sender
<1>13. KeptAfter(c, d, q, st, y)
  BY <1>11, <1>12 DEF KeptAfter
<1> QED BY <1>6, <1>13 DEF d

\* The acknowledgment and the segments that are geared after it.
LEMMA ProcessAckKeeps ==
    ASSUME NEW q, StreamOK(q), NEW c, Healthy(c), NEW st, Sender(c, q, st),
           NEW y \in Nat, st[1] <= y, y <= st[1] + MAX_WINDOW_OFFSET,
           NEW o, o = y % MAX_SEGMENT_OFFSET,
           NEW path \in GrowthPaths(c, GrowthSteps(c, o))
    PROVE  /\ KeptAfter(c, ProcessAck(c, o, path), q, st, y)
           /\ SameReceiving(c, ProcessAck(c, o, path))
<1> DEFINE r == RemoveAcknowledged(c, o)
           w == path[GrowthSteps(c, o)]
           e == [r EXCEPT !.windowSize = w]
<1>1. CASE c.outSegments = <<>>
  <2>1. ProcessAck(c, o, path) = c
    BY <1>1 DEF ProcessAck
  <2>2. SameReceiving(c, c)
    BY DEF SameReceiving
  <2>3. st[1] <= st[1]
    <3>1. st[1] \in Nat
      <4>1. 1 \in 1 .. Len(st) /\ \A i \in 1 .. Len(st) : st[i] \in Nat
        <5>1. Len(c.outSegments) \in Nat /\ Len(st) = Len(c.outSegments) + 1
              /\ \A i \in 1 .. Len(st) : st[i] \in Nat
          BY SenderProperties DEF Healthy
        <5> QED BY <5>1
      <4> QED BY <4>1
    <3> QED BY <3>1
  <2> QED BY <2>1, <2>2, <2>3 DEF KeptAfter
<1>2. CASE c.outSegments # <<>>
  <2>1. Healthy(r) /\ c.windowLimit >= 1
    BY <1>2, RemoveAcknowledgedHealthy
  <2>2. w \in 1 .. MAX_WINDOW_SIZE
    BY <2>1, AcknowledgedType, PathBound DEF Healthy
  <2>3. KeptAfter(c, r, q, st, y) /\ SameReceiving(c, r)
    BY RemoveAcknowledgedKeeps
  <2> HIDE DEF r, w
  <2>4. w \in Nat
    BY <2>2, Constants
  <2>5. Healthy(e)
    BY <2>1, <2>2, <2>4 DEF Healthy, WindowOK, ConnectionRecord
  <2>6. SameSegments(r, e) /\ SameReceiving(r, e)
    BY <2>1 DEF SameSegments, SameReceiving, Healthy, ConnectionRecord
  <2>7. ProcessAck(c, o, path) = transmit_segments(e)
    BY <1>2 DEF ProcessAck, r, w
  <2> HIDE DEF e
  <2> DEFINE t == transmit_segments(e)
  <2>8. SameQueue(e, t) /\ SameReceiving(e, t)
    BY <2>5, transmit_segmentsQueue
  <2> HIDE DEF t
  <2>9. SameQueue(r, t) /\ SameReceiving(c, t)
    BY <2>3, <2>6, <2>8, SameSegmentsQueue, SameQueueTwice, SameReceivingTwice
  <2>10. KeptAfter(c, t, q, st, y)
    <3>1. PICK st2 : Sender(r, q, st2) /\ st[1] <= st2[1] /\ st2[1] <= y
      BY <2>3 DEF KeptAfter
    <3>2. Sender(t, q, st2)
      BY <2>9, <3>1, SenderKept
    <3> QED BY <3>1, <3>2 DEF KeptAfter
  <2> QED BY <2>7, <2>9, <2>10 DEF t
<1> QED BY <1>1, <1>2

-----------------------------------------------------------------------------
(***************************************************************************)
(* A message is segmented.                                                 *)
(***************************************************************************)

\* The part of the bytes of a message that a segment takes.
PartIs(s, x, p, u) == SubSeq(s, x + 1, x + p) = u

LEMMA PartOfInterval ==
    ASSUME NEW e \in Nat, NEW f \in Nat, NEW x \in Nat, NEW p \in Nat, p >= 1, x + p <= f - e
    PROVE  PartIs(Interval(e, f), x, p, Interval(e + x, (e + x) + p))
<1> DEFINE s == Interval(e, f)
           t == SubSeq(s, x + 1, x + p)
           a == e + x
           b == a + p
           u == Interval(a, b)
<1>1. e <= f /\ f - e \in Nat
  OBVIOUS
<1>2. /\ s \in Seq(Nat) /\ Len(s) = f - e
      /\ \A i \in 1 .. (f - e) : s[i] = e + i - 1
  BY <1>1, IntervalProperties
<1>3. a \in Nat /\ b \in Nat /\ a <= b /\ b - a = p /\ a = e + x
  OBVIOUS
<1> HIDE DEF s
<1>4. u \in Seq(Nat) /\ Len(u) = p /\ \A i \in 1 .. p : u[i] = a + i - 1
  <2> HIDE DEF a, b
  <2> QED BY <1>3, IntervalProperties
<1> HIDE DEF u, a, b
<1>5. \A i \in (x + 1) .. (x + p) : i \in 1 .. (f - e) /\ s[i] \in Nat
  <2> TAKE i \in (x + 1) .. (x + p)
  <2>1. i \in 1 .. (f - e)
    BY <1>1
  <2> QED BY <1>2, <2>1, ElementOfSeq
<1>6. /\ t \in Seq(Nat) /\ Len(t) = p
      /\ \A i \in 1 .. p : t[i] = s[x + i] /\ x + i \in 1 .. (f - e)
  <2>1. x + 1 \in Int /\ x + p \in Int /\ x + 1 <= x + p /\ (x + p) - (x + 1) + 1 = p
    OBVIOUS
  <2>2. /\ t \in Seq(Nat)
        /\ Len(t) = IF x + 1 <= x + p THEN (x + p) - (x + 1) + 1 ELSE 0
        /\ \A i \in 1 .. (x + p) - (x + 1) + 1 : t[i] = s[(x + 1) + i - 1]
    BY <1>5, <2>1, SubSeqProperties
  <2>3. \A i \in 1 .. p : (x + 1) + i - 1 = x + i /\ x + i \in 1 .. (f - e)
    BY <1>1
  <2> HIDE DEF t
  <2> QED BY <2>1, <2>2, <2>3
<1> HIDE DEF t
<1>7. \A i \in 1 .. Len(t) : t[i] = u[i]
  <2> TAKE i \in 1 .. Len(t)
  <2>1. i \in 1 .. p
    BY <1>6
  <2>2. t[i] = e + (x + i) - 1
    BY <1>2, <1>6, <2>1
  <2>3. u[i] = a + i - 1
    BY <1>4, <2>1
  <2>4. e + (x + i) - 1 = a + i - 1
    BY <1>3, <2>1
  <2> QED BY <2>2, <2>3, <2>4
<1>8. t = u
  BY <1>4, <1>6, <1>7, SeqEqual
<1> QED BY <1>8 DEF t, s, u, a, b, PartIs

\* The position at which segment m + 1 of a message starts that takes the
\* positions from e to e + size.
Chunk(e, size, n, m) == IF m = n THEN e + size ELSE e + m * SEGMENT_SIZE

LEMMA Chunks ==
    ASSUME NEW e \in Nat, NEW size \in Nat, NEW n \in Nat,
           size <= n * SEGMENT_SIZE, size + SEGMENT_SIZE - 1 >= n * SEGMENT_SIZE,
           NEW m \in 1 .. n
    PROVE  /\ Chunk(e, size, n, m - 1) = e + (m - 1) * SEGMENT_SIZE
           /\ (m - 1) * SEGMENT_SIZE \in Nat
           /\ (m - 1) * SEGMENT_SIZE < size
           /\ Chunk(e, size, n, m)
                = (e + (m - 1) * SEGMENT_SIZE)
                    + AtMost(size - (m - 1) * SEGMENT_SIZE, SEGMENT_SIZE)
           /\ Chunk(e, size, n, m) = AtMost((e + (m - 1) * SEGMENT_SIZE) + SEGMENT_SIZE, e + size)
           /\ AtMost(size - (m - 1) * SEGMENT_SIZE, SEGMENT_SIZE) \in Nat
           /\ AtMost(size - (m - 1) * SEGMENT_SIZE, SEGMENT_SIZE) >= 1
           /\ (m - 1) * SEGMENT_SIZE + AtMost(size - (m - 1) * SEGMENT_SIZE, SEGMENT_SIZE) <= size
<1> DEFINE S == SEGMENT_SIZE
           P == (m - 1) * S
           Q == m * S
           R == n * S
<1>1. S \in Nat /\ S >= 1 /\ m \in Nat /\ m - 1 \in Nat /\ m - 1 # n
  BY Constants
<1>2. /\ P \in Nat /\ Q = P + S /\ R \in Nat /\ Q <= R /\ (m = n => Q = R)
      /\ (m # n => Q + S <= R)
  <2>1. \A x, y, z \in Nat : /\ x * z \in Nat /\ (x + 1) * z = x * z + z
                             /\ x <= y => x * z <= y * z
    BY SMT
  <2>2. m = (m - 1) + 1 /\ m <= n /\ (m # n => m + 1 <= n) /\ m + 1 \in Nat
    BY <1>1
  <2>3. P \in Nat /\ Q = P + S /\ R \in Nat
    BY <1>1, <2>1, <2>2
  <2>4. Q <= R
    BY <1>1, <2>1, <2>2
  <2>5. m # n => Q + S <= R
    BY <1>1, <2>1, <2>2
  <2> QED BY <2>3, <2>4, <2>5
<1>3. size <= R /\ size + S - 1 >= R
  OBVIOUS
<1>4. /\ Chunk(e, size, n, m - 1) = e + P
      /\ Chunk(e, size, n, m) = IF m = n THEN e + size ELSE e + Q
  BY <1>1 DEF Chunk
<1> HIDE DEF P, Q, R, S
<1>5. P < size /\ (m = n => ~ (size - P > S)) /\ (m # n => size - P > S)
  BY <1>1, <1>2, <1>3
<1>6. AtMost(size - P, S) = IF m = n THEN size - P ELSE S
  BY <1>1, <1>2, <1>5 DEF AtMost
<1>7. AtMost((e + P) + S, e + size) = IF m = n THEN e + size ELSE (e + P) + S
  BY <1>1, <1>2, <1>5 DEF AtMost
<1>8. /\ Chunk(e, size, n, m - 1) = e + P
      /\ P \in Nat
      /\ P < size
      /\ Chunk(e, size, n, m) = (e + P) + AtMost(size - P, S)
      /\ Chunk(e, size, n, m) = AtMost((e + P) + S, e + size)
      /\ AtMost(size - P, S) \in Nat
      /\ AtMost(size - P, S) >= 1
      /\ P + AtMost(size - P, S) <= size
  <2>1. CASE m = n
    BY <1>1, <1>2, <1>4, <1>5, <1>6, <1>7, <2>1
  <2>2. CASE m # n
    BY <1>1, <1>2, <1>4, <1>5, <1>6, <1>7, <2>2
  <2> QED BY <2>1, <2>2
<1> QED BY <1>8 DEF P, S

EndsBoth(e, size, x, p) == size - x = p <=> (e + x) + p = e + size

LEMMA ChunkArithmetic ==
    ASSUME NEW e \in Nat, NEW size \in Nat, NEW x \in Nat, NEW p \in Nat, x + p <= size, x < size
    PROVE  /\ x + p <= (e + size) - e /\ e + size \in Nat
           /\ EndsBoth(e, size, x, p)
           /\ e + x < e + size
           /\ p >= 1 => ~ ((e + x) + p <= e)
           /\ (e + x) + p \in Nat
BY DEF EndsBoth

LEMMA SegmentsOfMessage ==
    ASSUME NEW q, StreamOK(q), NEW c \in ConnectionRecord,
           NEW e, e = EndOf(q, Len(q)), c.nextOffset = e % MAX_SEGMENT_OFFSET,
           NEW size \in Nat, size >= 1, size + 2 * MAX_WINDOW_OFFSET <= MAX_SEGMENT_OFFSET,
           NEW msg, msg = Interval(e, e + size),
           NEW n, n = Len(Segmented(c, msg)), NEW m \in 1 .. n
    PROVE  SegmentOf(Append(q, msg), Segmented(c, msg)[m],
                     Chunk(e, size, n, m - 1), Chunk(e, size, n, m))
<1> DEFINE r == Append(q, msg)
           K == Len(q)
           seg == Segmented(c, msg)[m]
           P == (m - 1) * SEGMENT_SIZE
           p == AtMost(size - P, SEGMENT_SIZE)
           a == Chunk(e, size, n, m - 1)
           b == Chunk(e, size, n, m)
<1>1. K \in Nat /\ e \in Nat
  BY EndsOrder
<1>2. /\ StreamOK(r) /\ Len(r) = K + 1
      /\ \A j \in 0 .. K : EndOf(r, j) = EndOf(q, j)
      /\ EndOf(r, K + 1) = e + size
  BY AppendedStream
<1>3. msg \in Seq(Nat) /\ Len(msg) = size
  <2>1. e + size \in Nat /\ e <= e + size /\ (e + size) - e = size
    BY <1>1
  <2> QED BY <1>1, <2>1, IntervalProperties
<1>4. /\ n \in Nat /\ size <= n * SEGMENT_SIZE /\ size + SEGMENT_SIZE - 1 >= n * SEGMENT_SIZE
  BY <1>3, SegmentedLen
<1>5. /\ a = e + P /\ P \in Nat /\ P < size /\ b = a + p
      /\ b = AtMost(a + SEGMENT_SIZE, e + size)
      /\ p \in Nat /\ p >= 1 /\ P + p <= size
  <2>1. a = e + P /\ P \in Nat /\ P < size
    BY <1>1, <1>4, Chunks
  <2>2. b = (e + P) + p /\ b = AtMost((e + P) + SEGMENT_SIZE, e + size)
    BY <1>1, <1>4, Chunks
  <2>3. p \in Nat /\ p >= 1 /\ P + p <= size
    BY <1>1, <1>4, Chunks
  <2> HIDE DEF a, b, p, P
  <2> QED BY <2>1, <2>2, <2>3
<1>6. /\ seg.offset = (c.nextOffset + P) % MAX_SEGMENT_OFFSET
      /\ seg.isLast <=> size - P = p
      /\ seg.payload = SubSeq(msg, P + 1, P + p)
  <2>1. m \in DOMAIN Segmented(c, msg)
    <3>1. DOMAIN Segmented(c, msg) = 1 .. n
      BY <1>3, SegmentedType, LenProperties
    <3> QED BY <3>1
  <2>2. Segmented(c, msg)[m] =
          [ offset    |-> (c.nextOffset + P) % MAX_SEGMENT_OFFSET,
            isLast    |-> Len(msg) - P = AtMost(Len(msg) - P, SEGMENT_SIZE),
            payload   |-> SubSeq(msg, P + 1, P + AtMost(Len(msg) - P, SEGMENT_SIZE)),
            timerId   |-> NO_TIMER,
            timesSend |-> 0 ]
    BY <2>1 DEF Segmented
  <2>3. Len(msg) - P = size - P /\ AtMost(Len(msg) - P, SEGMENT_SIZE) = p
    BY <1>3
  <2> HIDE DEF P
  <2>4. seg =
          [ offset    |-> (c.nextOffset + P) % MAX_SEGMENT_OFFSET,
            isLast    |-> Len(msg) - P = AtMost(Len(msg) - P, SEGMENT_SIZE),
            payload   |-> SubSeq(msg, P + 1, P + p),
            timerId   |-> NO_TIMER,
            timesSend |-> 0 ]
    BY <1>3, <2>2
  <2> HIDE DEF seg, p
  <2>5. seg.isLast = (Len(msg) - P = AtMost(Len(msg) - P, SEGMENT_SIZE))
    BY <2>4
  <2>6. /\ seg.offset = (c.nextOffset + P) % MAX_SEGMENT_OFFSET
        /\ seg.payload = SubSeq(msg, P + 1, P + p)
    BY <2>4
  <2> QED BY <2>3, <2>5, <2>6
<1> HIDE DEF seg, p, P, a, b, r
<1>7. seg.offset = a % MAX_SEGMENT_OFFSET
  <2>1. ((e % MAX_SEGMENT_OFFSET) + P) % MAX_SEGMENT_OFFSET = (e + P) % MAX_SEGMENT_OFFSET
    BY <1>1, <1>5, ModAdd
  <2> QED BY <1>5, <1>6, <2>1
<1>8. seg.payload = Interval(a, b)
  <2>1. P + p <= (e + size) - e /\ e + size \in Nat
    BY <1>1, <1>5, ChunkArithmetic
  <2>2. PartIs(Interval(e, e + size), P, p, Interval(e + P, (e + P) + p))
    BY <1>1, <1>5, <2>1, PartOfInterval
  <2>3. SubSeq(Interval(e, e + size), P + 1, P + p) = Interval(e + P, (e + P) + p)
    BY <2>2 DEF PartIs
  <2> QED BY <1>5, <1>6, <2>3
<1>9. Piece(r, a, b)
  <2>1. K + 1 \in 1 .. Len(r) /\ m - 1 \in Nat /\ (K + 1) - 1 = K
    BY <1>1, <1>2, <1>4
  <2>2. EndOf(r, K) = e /\ EndOf(r, K + 1) = e + size
    BY <1>1, <1>2
  <2>3. a < e + size
    <3>1. e + P < e + size
      BY <1>1, <1>5, ChunkArithmetic
    <3> QED BY <1>5, <3>1
  <2>4. /\ a = EndOf(r, (K + 1) - 1) + (m - 1) * SEGMENT_SIZE
        /\ a < EndOf(r, K + 1)
        /\ b = AtMost(a + SEGMENT_SIZE, EndOf(r, K + 1))
    BY <1>5, <2>1, <2>2, <2>3 DEF P
  <2> QED BY <2>1, <2>4 DEF Piece
<1>10. seg.isLast <=> IsEnd(r, b)
  <2>1. size - P = p <=> b = e + size
    <3>1. EndsBoth(e, size, P, p)
      BY <1>1, <1>5, ChunkArithmetic
    <3>2. b = (e + P) + p
      BY <1>5
    <3> QED BY <3>1, <3>2, Zenon DEF EndsBoth
  <2>2. b = e + size => IsEnd(r, b)
    <3>1. K + 1 \in 1 .. Len(r)
      BY <1>1, <1>2
    <3> QED BY <1>2, <3>1 DEF IsEnd
  <2>3. IsEnd(r, b) => b = e + size
    <3> SUFFICES ASSUME NEW j \in 1 .. Len(r), b = EndOf(r, j) PROVE b = e + size
      BY DEF IsEnd
    <3>1. CASE j = K + 1
      BY <1>2, <3>1
    <3>2. CASE j # K + 1
      <4>1. j \in 0 .. K /\ K \in 0 .. K /\ j <= K
        BY <1>1, <1>2, <3>2
      <4>2. EndOf(q, j) <= e /\ EndOf(r, j) = EndOf(q, j) /\ EndOf(q, j) \in Nat
        BY <1>2, <4>1, EndsOrder
      <4>3. ~ ((e + P) + p <= e) /\ (e + P) + p \in Nat
        BY <1>1, <1>5, ChunkArithmetic
      <4>4. ~ (b <= e) /\ b \in Nat
        BY <1>5, <4>3
      <4> QED BY <4>2, <4>4
    <3> QED BY <3>1, <3>2
  <2> QED BY <1>6, <2>1, <2>2, <2>3
<1>11. SegmentOf(r, seg, a, b)
  BY <1>7, <1>8, <1>9, <1>10 DEF SegmentOf
<1> QED BY <1>11 DEF r, seg, a, b

-----------------------------------------------------------------------------

LEMMA EnqueueReceiving ==
    ASSUME NEW c \in ConnectionRecord, NEW msg
    PROVE  SameReceiving(c, Enqueue(c, msg))
BY DEF SameReceiving, Enqueue, ConnectionRecord

\* Where the segments start once a message of size bytes has been segmented into
\* n more.
Extended(st, size, n) ==
    [i \in 1 .. (Len(st) + n) |->
        IF i < Len(st) THEN st[i] ELSE Chunk(st[Len(st)], size, n, i - Len(st))]

LEMMA SegmentStays ==
    ASSUME NEW q, StreamOK(q), NEW r, StreamOK(r), Len(r) = Len(q) + 1,
           \A j \in 0 .. Len(q) : EndOf(r, j) = EndOf(q, j),
           NEW s, NEW a, NEW b, SegmentOf(q, s, a, b)
    PROVE  SegmentOf(r, s, a, b)
<1>1. Piece(r, a, b) /\ (IsEnd(r, b) <=> IsEnd(q, b))
  BY AppendedPieces DEF SegmentOf
<1> QED BY <1>1 DEF SegmentOf

LEMMA EnqueueKeeps ==
    ASSUME NEW q, StreamOK(q), NEW c, Healthy(c), c.windowLimit >= 1,
           NEW st, Sender(c, q, st),
           NEW size \in Nat, size >= 1, size + 2 * MAX_WINDOW_OFFSET <= MAX_SEGMENT_OFFSET,
           NEW msg, msg = Interval(EndOf(q, Len(q)), EndOf(q, Len(q)) + size)
    PROVE  \E st2 : Sender(Enqueue(c, msg), Append(q, msg), st2) /\ st2[1] = st[1]
<1> DEFINE e == EndOf(q, Len(q))
           r == Append(q, msg)
           new == Segmented(c, msg)
           d == Enqueue(c, msg)
           L == Len(c.outSegments)
           N == Len(new)
           st2 == Extended(st, size, N)
<1>1. /\ c \in ConnectionRecord /\ c.outSegments \in Seq(OutSegment) /\ L \in Nat
      /\ Len(q) \in Nat /\ e \in Nat
  BY Fields, LenProperties, EndsOrder DEF Healthy
<1>2. /\ StreamOK(r) /\ Len(r) = Len(q) + 1
      /\ \A j \in 0 .. Len(q) : EndOf(r, j) = EndOf(q, j)
      /\ EndOf(r, Len(q) + 1) = e + size
  BY AppendedStream
<1>3. msg \in Seq(Nat) /\ Len(msg) = size
  <2>1. e + size \in Nat /\ e <= e + size /\ (e + size) - e = size
    BY <1>1
  <2> HIDE DEF e
  <2>2. msg = Interval(e, e + size)
    BY DEF e
  <2> DEFINE f == e + size
  <2>3. f \in Nat /\ e <= f /\ f - e = size /\ msg = Interval(e, f)
    BY <2>1, <2>2
  <2> HIDE DEF f
  <2>4. Interval(e, f) \in Seq(Nat) /\ Len(Interval(e, f)) = f - e
    BY <1>1, <2>3, IntervalProperties
  <2> QED BY <2>3, <2>4
<1>4. /\ new \in Seq(OutSegment) /\ N \in Nat
      /\ size <= N * SEGMENT_SIZE /\ size + SEGMENT_SIZE - 1 >= N * SEGMENT_SIZE
      /\ N >= 1
  <2>1. /\ new \in Seq(OutSegment) /\ N \in Nat
        /\ size <= N * SEGMENT_SIZE /\ size + SEGMENT_SIZE - 1 >= N * SEGMENT_SIZE
    BY <1>1, <1>3, SegmentedType, SegmentedLen
  <2>2. N # 0
    <3> SUFFICES ASSUME N = 0 PROVE FALSE
      OBVIOUS
    <3>1. 0 * SEGMENT_SIZE = 0
      BY Constants
    <3> HIDE DEF N
    <3> QED BY <2>1, <3>1
  <2> HIDE DEF N
  <2> QED BY <2>1, <2>2
<1>5. /\ d.outSegments = c.outSegments \o new
      /\ d.nextOffset = (c.nextOffset + Len(msg)) % MAX_SEGMENT_OFFSET
  BY <1>1 DEF Enqueue, ConnectionRecord
<1>6. /\ st \in Seq(Nat) /\ Len(st) = L + 1 /\ st[L + 1] = e
      /\ \A j \in 1 .. L + 1 : st[j] \in Nat
      /\ c.nextOffset = e % MAX_SEGMENT_OFFSET
      /\ \A i \in 1 .. L :
            /\ SegmentOf(q, c.outSegments[i], st[i], st[i + 1])
            /\ c.outSegments[i].timerId # NO_TIMER => i <= MAX_WINDOW_SIZE
  <2>1. /\ st \in Seq(Nat) /\ Len(st) = L + 1
        /\ \A j \in 1 .. L + 1 : st[j] \in Nat
    BY <1>1, SenderProperties
  <2>2. st[Len(st)] = EndOf(q, Len(q)) /\ c.nextOffset = EndOf(q, Len(q)) % MAX_SEGMENT_OFFSET
    BY DEF Sender
  <2>3. \A i \in 1 .. L :
            /\ SegmentOf(q, c.outSegments[i], st[i], st[i + 1])
            /\ c.outSegments[i].timerId # NO_TIMER => i <= MAX_WINDOW_SIZE
    BY DEF Sender
  <2> QED BY <2>1, <2>2, <2>3
<1>7. \A m \in 1 .. N : /\ SegmentOf(r, new[m], Chunk(e, size, N, m - 1), Chunk(e, size, N, m))
                        /\ new[m].timerId = NO_TIMER
  <2> TAKE m \in 1 .. N
  <2>1. SegmentOf(r, new[m], Chunk(e, size, N, m - 1), Chunk(e, size, N, m))
    BY <1>1, <1>6, SegmentsOfMessage
  <2>2. new[m].timerId = NO_TIMER
    <3>1. m \in DOMAIN new
      BY <1>4, LenProperties
    <3> QED BY <3>1 DEF Segmented
  <2> QED BY <2>1, <2>2
<1> HIDE DEF d, new, L, N, e, r
<1>8. /\ Len(d.outSegments) = L + N
      /\ \A i \in 1 .. L : d.outSegments[i] = c.outSegments[i]
      /\ \A m \in 1 .. N : d.outSegments[L + m] = new[m]
  <2>1. /\ Len(c.outSegments \o new) = L + N
        /\ \A i \in 1 .. (L + N) :
              (c.outSegments \o new)[i] = IF i <= L THEN c.outSegments[i] ELSE new[i - L]
    BY <1>1, <1>4, ConcatProperties DEF L, N
  <2>2. \A i \in 1 .. L : i \in 1 .. (L + N) /\ i <= L
    BY <1>1, <1>4
  <2>3. \A m \in 1 .. N : L + m \in 1 .. (L + N) /\ ~ (L + m <= L) /\ (L + m) - L = m
    BY <1>1, <1>4
  <2> QED BY <1>5, <2>1, <2>2, <2>3
<1>9. /\ Len(st) + N \in Nat
      /\ st2 = [i \in 1 .. (Len(st) + N) |->
                  IF i < L + 1 THEN st[i] ELSE Chunk(e, size, N, i - (L + 1))]
  <2>1. st[Len(st)] = e /\ Len(st) = L + 1
    BY <1>6
  <2> QED BY <1>1, <1>4, <2>1 DEF Extended
<1>10. \A m \in 0 .. N : Chunk(e, size, N, m) \in Nat
  <2> TAKE m \in 0 .. N
  <2>1. CASE m = 0
    <3>1. m # N /\ m * SEGMENT_SIZE = 0
      BY <1>4, <2>1, Constants
    <3> QED BY <1>1, <3>1 DEF Chunk
  <2>2. CASE m # 0
    <3>1. m \in 1 .. N
      BY <1>4, <2>2
    <3>2. SegmentOf(r, new[m], Chunk(e, size, N, m - 1), Chunk(e, size, N, m))
      BY <1>7, <3>1
    <3> QED BY <1>2, <3>2, PieceProperties DEF SegmentOf
  <2> QED BY <2>1, <2>2
<1>11. st2 \in Seq(Nat) /\ Len(st2) = (L + N) + 1
  <2>1. \A i \in 1 .. (Len(st) + N) :
           (IF i < L + 1 THEN st[i] ELSE Chunk(e, size, N, i - (L + 1))) \in Nat
    <3> TAKE i \in 1 .. (Len(st) + N)
    <3>1. CASE i < L + 1
      <4>1. i \in 1 .. L + 1
        BY <1>1, <3>1
      <4> QED BY <1>6, <3>1, <4>1
    <3>2. CASE ~ (i < L + 1)
      <4>1. i - (L + 1) \in 0 .. N
        BY <1>1, <1>4, <1>6, <3>2
      <4> QED BY <1>10, <3>2, <4>1
    <3> QED BY <3>1, <3>2
  <2>2. st2 \in [1 .. (Len(st) + N) -> Nat]
    <3> HIDE DEF st2
    <3> QED BY <1>9, <2>1
  <2> HIDE DEF st2
  <2>3. st2 \in Seq(Nat) /\ Len(st2) = Len(st) + N
    BY ZenonT(60), <1>9, <2>2, FunctionIsSeq
  <2>4. Len(st) + N = (L + N) + 1
    BY <1>1, <1>4, <1>6
  <2> QED BY <2>3, <2>4
<1> HIDE DEF st2
<1>12. /\ \A i \in 1 .. L + 1 : st2[i] = st[i]
       /\ \A m \in 0 .. N, i \in 1 .. (L + N) + 1 :
            i = L + 1 + m => st2[i] = Chunk(e, size, N, m)
  <2>1. \A i \in 1 .. (L + N) + 1 :
           st2[i] = IF i < L + 1 THEN st[i] ELSE Chunk(e, size, N, i - (L + 1))
    <3>1. Len(st) + N = (L + N) + 1
      BY <1>1, <1>4, <1>6
    <3> QED BY <1>9, <3>1
  <2>2. ASSUME NEW m \in 0 .. N, NEW i \in 1 .. (L + N) + 1, i = L + 1 + m
        PROVE  st2[i] = Chunk(e, size, N, m)
    <3>1. ~ (i < L + 1) /\ i - (L + 1) = m
      BY <1>1, <1>4, <2>2
    <3> QED BY <2>1, <3>1
  <2>3. Chunk(e, size, N, 0) = e
    <3>1. 0 # N /\ 0 * SEGMENT_SIZE = 0 /\ e + 0 = e
      BY <1>1, <1>4, Constants
    <3> QED BY <3>1 DEF Chunk
  <2>4. ASSUME NEW i \in 1 .. L + 1 PROVE st2[i] = st[i]
    <3>1. i \in 1 .. (L + N) + 1
      BY <1>1, <1>4
    <3>2. CASE i = L + 1
      <4>1. 0 \in 0 .. N /\ i = L + 1 + 0
        BY <1>1, <1>4, <3>2
      <4>2. st2[i] = Chunk(e, size, N, 0)
        BY <2>2, <3>1, <4>1
      <4> QED BY <1>6, <2>3, <3>2, <4>2
    <3>3. CASE i # L + 1
      <4>1. i < L + 1
        BY <1>1, <3>3
      <4> QED BY <2>1, <3>1, <4>1
    <3> QED BY <3>2, <3>3
  <2> QED BY <2>2, <2>4
<1>13. Sender(d, r, st2)
  <2>1. \A i \in 1 .. (L + N) :
           /\ SegmentOf(r, d.outSegments[i], st2[i], st2[i + 1])
           /\ d.outSegments[i].timerId # NO_TIMER => i <= MAX_WINDOW_SIZE
    <3> TAKE i \in 1 .. (L + N)
    <3>1. CASE i <= L
      <4>1. i \in 1 .. L /\ i \in 1 .. L + 1 /\ i + 1 \in 1 .. L + 1
        BY <1>1, <3>1
      <4>2. st2[i] = st[i] /\ st2[i + 1] = st[i + 1] /\ d.outSegments[i] = c.outSegments[i]
        BY <1>8, <1>12, <4>1
      <4>3. SegmentOf(q, c.outSegments[i], st[i], st[i + 1])
        BY <1>6, <4>1
      <4>4. SegmentOf(r, c.outSegments[i], st[i], st[i + 1])
        BY <1>2, <4>3, SegmentStays
      <4> QED BY <1>6, <4>1, <4>2, <4>4
    <3>2. CASE ~ (i <= L)
      <4>1. PICK m \in 1 .. N : i = L + m
        BY <1>1, <1>4, <3>2
      <4>2. /\ m - 1 \in 0 .. N /\ m \in 0 .. N /\ i \in 1 .. (L + N) + 1
            /\ i + 1 \in 1 .. (L + N) + 1
            /\ i = L + 1 + (m - 1) /\ i + 1 = L + 1 + m
        BY <1>1, <1>4, <4>1
      <4>3. st2[i] = Chunk(e, size, N, m - 1)
        BY <1>12, <4>2
      <4>4. st2[i + 1] = Chunk(e, size, N, m)
        BY <1>12, <4>2
      <4>5. d.outSegments[i] = new[m]
        BY <1>8, <4>1
      <4> QED BY <1>7, <4>3, <4>4, <4>5
    <3> QED BY <3>1, <3>2
  <2>2. EndOf(r, Len(r)) = e + size
    BY <1>2
  <2>3. st2[Len(st2)] = e + size
    <3>1. N \in 0 .. N /\ (L + N) + 1 \in 1 .. (L + N) + 1 /\ (L + N) + 1 = L + 1 + N
      BY <1>1, <1>4
    <3>2. st2[(L + N) + 1] = Chunk(e, size, N, N)
      BY <1>12, <3>1
    <3> QED BY <1>11, <3>2 DEF Chunk
  <2>4. d.nextOffset = (e + size) % MAX_SEGMENT_OFFSET
    <3>1. ((e % MAX_SEGMENT_OFFSET) + size) % MAX_SEGMENT_OFFSET
            = (e + size) % MAX_SEGMENT_OFFSET
      BY <1>1, ModAdd
    <3> QED BY <1>3, <1>5, <1>6, <3>1
  <2> QED BY <1>8, <1>11, <2>1, <2>2, <2>3, <2>4 DEF Sender
<1>14. st2[1] = st[1]
  <2>1. 1 \in 1 .. L + 1
    BY <1>1
  <2> QED BY <1>12, <2>1
<1> QED BY <1>13, <1>14 DEF d, r

-----------------------------------------------------------------------------
(***************************************************************************)
(* The datagrams on their way.                                             *)
(***************************************************************************)

\* The positions of the first byte of a segment and of the one behind it.
First(seg) == seg.payload[1]
Behind(seg) == seg.payload[1] + Len(seg.payload)

\* The segments of the stream q on their way to a receiver that waits for
\* position r and has the buffer b.  The sender's first segment starts at u.  None
\* lies behind the sender's window; none is so old that the receiver, or a segment
\* before it, is more than a window ahead.
InFlight(ch, q, u, r, b) ==
    \A j \in 1 .. Len(ch) : ch[j].payload # <<>> =>
        /\ SegmentOf(q, ch[j], First(ch[j]), Behind(ch[j]))
        /\ Behind(ch[j]) <= u + MAX_WINDOW_OFFSET
        /\ r <= First(ch[j]) + MAX_WINDOW_OFFSET
        /\ \A x \in Nat : Holds(b, x) => x < First(ch[j]) + MAX_WINDOW_OFFSET
        /\ \A i \in 1 .. Len(ch) :
              i < j /\ ch[i].payload # <<>> =>
                 Behind(ch[i]) <= First(ch[j]) + MAX_WINDOW_OFFSET

\* The acknowledgments on their way to the sender: ys is the positions they stand
\* for.  They never go back.
Acks(ch, ys, u, r) ==
    /\ ys \in Seq(Nat)
    /\ Len(ys) = Len(ch)
    /\ \A i \in 1 .. Len(ch) :
          /\ ch[i].ackOffset = ys[i] % MAX_SEGMENT_OFFSET
          /\ u <= ys[i]
          /\ ys[i] <= r
    /\ \A i, j \in 1 .. Len(ch) : i <= j => ys[i] <= ys[j]

\* p is the part of ch behind the first k elements, or the beginning of it.
PartOf(p, ch, k) ==
    /\ k \in Nat /\ Len(p) \in Nat /\ Len(ch) \in Nat
    /\ k + Len(p) <= Len(ch)
    /\ \A i \in 1 .. Len(p) : p[i] = ch[k + i]

LEMMA FirstBehind ==
    ASSUME NEW q, StreamOK(q), NEW seg, NEW a, NEW b, SegmentOf(q, seg, a, b)
    PROVE  First(seg) = a /\ Behind(seg) = b /\ seg.payload # <<>> /\ a \in Nat /\ b \in Nat /\ a < b
<1>1. a \in Nat /\ b \in Nat /\ a < b /\ seg.payload = Interval(a, b)
  BY PieceProperties DEF SegmentOf
<1>2. /\ Len(Interval(a, b)) = b - a
      /\ \A i \in 1 .. (b - a) : Interval(a, b)[i] = a + i - 1
      /\ Interval(a, b) \in Seq(Nat)
  BY <1>1, IntervalProperties
<1>3. 1 \in 1 .. (b - a) /\ a + 1 - 1 = a /\ a + (b - a) = b /\ b - a # 0
  BY <1>1
<1>4. Interval(a, b)[1] = a
  BY <1>2, <1>3
<1>5. Interval(a, b) # <<>>
  BY <1>2, <1>3, EmptySeq
<1> QED BY <1>1, <1>2, <1>3, <1>4, <1>5 DEF First, Behind

LEMMA InFlightPart ==
    ASSUME NEW ch, NEW q, NEW u, NEW r, NEW b, InFlight(ch, q, u, r, b),
           NEW p, NEW k, PartOf(p, ch, k)
    PROVE  InFlight(p, q, u, r, b)
<1>1. /\ k \in Nat /\ Len(p) \in Nat /\ Len(ch) \in Nat /\ k + Len(p) <= Len(ch)
      /\ \A i \in 1 .. Len(p) : p[i] = ch[k + i]
  BY DEF PartOf
<1> SUFFICES ASSUME NEW j \in 1 .. Len(p), p[j].payload # <<>>
             PROVE  /\ SegmentOf(q, p[j], First(p[j]), Behind(p[j]))
                    /\ Behind(p[j]) <= u + MAX_WINDOW_OFFSET
                    /\ r <= First(p[j]) + MAX_WINDOW_OFFSET
                    /\ \A x \in Nat : Holds(b, x) => x < First(p[j]) + MAX_WINDOW_OFFSET
                    /\ \A i \in 1 .. Len(p) :
                          i < j /\ p[i].payload # <<>> =>
                             Behind(p[i]) <= First(p[j]) + MAX_WINDOW_OFFSET
  BY DEF InFlight
<1>2. PICK h \in 1 .. Len(ch) : h = k + j
  BY <1>1
<1>3. p[j] = ch[h]
  BY <1>1, <1>2
<1>4. /\ SegmentOf(q, ch[h], First(ch[h]), Behind(ch[h]))
      /\ Behind(ch[h]) <= u + MAX_WINDOW_OFFSET
      /\ r <= First(ch[h]) + MAX_WINDOW_OFFSET
      /\ \A x \in Nat : Holds(b, x) => x < First(ch[h]) + MAX_WINDOW_OFFSET
      /\ \A i \in 1 .. Len(ch) :
            i < h /\ ch[i].payload # <<>> =>
               Behind(ch[i]) <= First(ch[h]) + MAX_WINDOW_OFFSET
  BY <1>3 DEF InFlight
<1>5. ASSUME NEW i \in 1 .. Len(p), i < j, p[i].payload # <<>>
      PROVE  Behind(p[i]) <= First(p[j]) + MAX_WINDOW_OFFSET
  <2>1. PICK g \in 1 .. Len(ch) : g = k + i
    BY <1>1
  <2>2. p[i] = ch[g] /\ g < h
    BY <1>1, <1>2, <1>5, <2>1
  <2> QED BY <1>3, <1>4, <1>5, <2>2
<1> QED BY <1>3, <1>4, <1>5

LEMMA InFlightSent ==
    ASSUME NEW q, StreamOK(q), NEW ch \in Seq(Segment), NEW u \in Nat, NEW r \in Nat, NEW b,
           InFlight(ch, q, u, r, b),
           r <= u + MAX_WINDOW_OFFSET,
           \A x \in Nat : Holds(b, x) => x < u + MAX_WINDOW_OFFSET,
           NEW seg \in Segment,
           seg.payload # <<>> =>
              \E a, e : SegmentOf(q, seg, a, e) /\ u <= a /\ e <= u + MAX_WINDOW_OFFSET
    PROVE  InFlight(Append(ch, seg), q, u, r, b)
<1> DEFINE p == Append(ch, seg)
           L == Len(ch)
           W == MAX_WINDOW_OFFSET
<1>1. L \in Nat /\ W \in Nat
  BY LenProperties, Constants
<1>2. /\ Len(p) = L + 1
      /\ \A i \in 1 .. L : p[i] = ch[i]
      /\ p[L + 1] = seg
  BY AppendProperties
<1> HIDE DEF p
<1>3. \A i \in 1 .. L : p[i].payload # <<>> =>
         /\ SegmentOf(q, p[i], First(p[i]), Behind(p[i]))
         /\ Behind(p[i]) <= u + W
         /\ Behind(p[i]) \in Nat
         /\ r <= First(p[i]) + W
         /\ \A x \in Nat : Holds(b, x) => x < First(p[i]) + W
         /\ \A h \in 1 .. L :
               h < i /\ p[h].payload # <<>> => Behind(p[h]) <= First(p[i]) + W
  <2> SUFFICES ASSUME NEW i \in 1 .. L, p[i].payload # <<>>
               PROVE  /\ SegmentOf(q, p[i], First(p[i]), Behind(p[i]))
                      /\ Behind(p[i]) <= u + W
                      /\ Behind(p[i]) \in Nat
                      /\ r <= First(p[i]) + W
                      /\ \A x \in Nat : Holds(b, x) => x < First(p[i]) + W
                      /\ \A h \in 1 .. L :
                            h < i /\ p[h].payload # <<>> => Behind(p[h]) <= First(p[i]) + W
    OBVIOUS
  <2>1. p[i] = ch[i]
    BY <1>2
  <2>2. /\ SegmentOf(q, ch[i], First(ch[i]), Behind(ch[i]))
        /\ Behind(ch[i]) <= u + W
        /\ r <= First(ch[i]) + W
        /\ \A x \in Nat : Holds(b, x) => x < First(ch[i]) + W
        /\ \A h \in 1 .. L :
              h < i /\ ch[h].payload # <<>> => Behind(ch[h]) <= First(ch[i]) + W
    BY <2>1 DEF InFlight
  <2>3. Behind(ch[i]) \in Nat
    BY <2>2, FirstBehind
  <2> QED BY <1>2, <2>1, <2>2, <2>3
<1>4. \A j \in 1 .. (L + 1) : p[j].payload # <<>> =>
         /\ SegmentOf(q, p[j], First(p[j]), Behind(p[j]))
         /\ Behind(p[j]) <= u + W
         /\ r <= First(p[j]) + W
         /\ \A x \in Nat : Holds(b, x) => x < First(p[j]) + W
         /\ \A i \in 1 .. (L + 1) :
               i < j /\ p[i].payload # <<>> => Behind(p[i]) <= First(p[j]) + W
  <2> SUFFICES ASSUME NEW j \in 1 .. (L + 1), p[j].payload # <<>>
               PROVE  /\ SegmentOf(q, p[j], First(p[j]), Behind(p[j]))
                      /\ Behind(p[j]) <= u + W
                      /\ r <= First(p[j]) + W
                      /\ \A x \in Nat : Holds(b, x) => x < First(p[j]) + W
                      /\ \A i \in 1 .. (L + 1) :
                            i < j /\ p[i].payload # <<>> => Behind(p[i]) <= First(p[j]) + W
    OBVIOUS
  <2>1. CASE j <= L
    <3>1. j \in 1 .. L
      BY <1>1, <2>1
    <3>2. ASSUME NEW i \in 1 .. (L + 1), i < j, p[i].payload # <<>>
          PROVE  Behind(p[i]) <= First(p[j]) + W
      <4>1. i \in 1 .. L
        BY <1>1, <3>1, <3>2
      <4> QED BY <1>3, <3>1, <3>2, <4>1
    <3> QED BY <1>3, <3>1, <3>2
  <2>2. CASE ~ (j <= L)
    <3>1. j = L + 1 /\ p[j] = seg
      BY <1>1, <1>2, <2>2
    <3>2. PICK a, e : SegmentOf(q, seg, a, e) /\ u <= a /\ e <= u + W
      BY <3>1
    <3>3. First(seg) = a /\ Behind(seg) = e /\ a \in Nat /\ e \in Nat
      BY <3>2, FirstBehind
    <3>4. \A x \in Nat : x <= u + W => x <= a + W
      BY <1>1, <3>2, <3>3
    <3>5. \A x \in Nat : x < u + W => x < a + W
      BY <1>1, <3>2, <3>3
    <3>6. ASSUME NEW i \in 1 .. (L + 1), i < j, p[i].payload # <<>>
          PROVE  Behind(p[i]) <= a + W
      <4>1. i \in 1 .. L
        BY <1>1, <3>1, <3>6
      <4>2. Behind(p[i]) <= u + W /\ Behind(p[i]) \in Nat
        BY <1>3, <3>6, <4>1
      <4> QED BY <3>4, <4>2
    <3>7. SegmentOf(q, p[j], First(p[j]), Behind(p[j])) /\ Behind(p[j]) <= u + W
      BY <3>1, <3>2, <3>3
    <3>8. r <= First(p[j]) + W /\ \A x \in Nat : Holds(b, x) => x < First(p[j]) + W
      BY <3>1, <3>3, <3>4, <3>5
    <3> QED BY <3>1, <3>3, <3>6, <3>7, <3>8
  <2> QED BY <2>1, <2>2
<1>5. InFlight(p, q, u, r, b)
  BY <1>2, <1>4 DEF InFlight
<1> QED BY <1>5 DEF p

\* The sender's window moves on; the receiver stays.
LEMMA InFlightLater ==
    ASSUME NEW q, StreamOK(q), NEW ch, NEW u \in Nat, NEW v \in Nat, u <= v, NEW r, NEW b,
           InFlight(ch, q, u, r, b)
    PROVE  InFlight(ch, q, v, r, b)
<1> SUFFICES ASSUME NEW j \in 1 .. Len(ch), ch[j].payload # <<>>
             PROVE  Behind(ch[j]) <= v + MAX_WINDOW_OFFSET
  BY DEF InFlight
<1>1. Behind(ch[j]) <= u + MAX_WINDOW_OFFSET /\ SegmentOf(q, ch[j], First(ch[j]), Behind(ch[j]))
  BY DEF InFlight
<1>2. Behind(ch[j]) \in Nat
  BY <1>1, FirstBehind
<1>3. MAX_WINDOW_OFFSET \in Nat
  BY Constants
<1> QED BY <1>1, <1>2, <1>3

\* A message is added to the stream.
LEMMA InFlightLonger ==
    ASSUME NEW q, StreamOK(q), NEW z, StreamOK(z), Len(z) = Len(q) + 1,
           \A j \in 0 .. Len(q) : EndOf(z, j) = EndOf(q, j),
           NEW ch, NEW u, NEW r, NEW b, InFlight(ch, q, u, r, b)
    PROVE  InFlight(ch, z, u, r, b)
<1> SUFFICES ASSUME NEW j \in 1 .. Len(ch), ch[j].payload # <<>>
             PROVE  SegmentOf(z, ch[j], First(ch[j]), Behind(ch[j]))
  BY DEF InFlight
<1>1. SegmentOf(q, ch[j], First(ch[j]), Behind(ch[j]))
  BY DEF InFlight
<1> QED BY <1>1, SegmentStays

-----------------------------------------------------------------------------

LEMMA AcksPart ==
    ASSUME NEW ch, NEW ys, NEW u, NEW r, Acks(ch, ys, u, r),
           NEW p, NEW k, PartOf(p, ch, k)
    PROVE  \E zs : Acks(p, zs, u, r) /\ PartOf(zs, ys, k)
<1> DEFINE zs == [i \in 1 .. Len(p) |-> ys[k + i]]
<1>1. /\ k \in Nat /\ Len(p) \in Nat /\ Len(ch) \in Nat /\ k + Len(p) <= Len(ch)
      /\ \A i \in 1 .. Len(p) : p[i] = ch[k + i]
  BY DEF PartOf
<1>2. /\ ys \in Seq(Nat) /\ Len(ys) = Len(ch)
      /\ \A i \in 1 .. Len(ch) : ch[i].ackOffset = ys[i] % MAX_SEGMENT_OFFSET
                                 /\ u <= ys[i] /\ ys[i] <= r
      /\ \A i, j \in 1 .. Len(ch) : i <= j => ys[i] <= ys[j]
  BY DEF Acks
<1>3. \A i \in 1 .. Len(p) : k + i \in 1 .. Len(ch) /\ ys[k + i] \in Nat
  <2> TAKE i \in 1 .. Len(p)
  <2>1. k + i \in 1 .. Len(ch)
    BY <1>1
  <2> QED BY <1>2, <2>1, ElementOfSeq
<1>4. zs \in [1 .. Len(p) -> Nat]
  BY <1>3
<1>5. \A i \in 1 .. Len(p) : zs[i] = ys[k + i]
  OBVIOUS
<1> HIDE DEF zs
<1>6. zs \in Seq(Nat) /\ Len(zs) = Len(p)
  BY <1>1, <1>4, FunctionIsSeq
<1>7. \A i, j \in 1 .. Len(p) : i <= j => zs[i] <= zs[j]
  <2> SUFFICES ASSUME NEW i \in 1 .. Len(p), NEW j \in 1 .. Len(p), i <= j
               PROVE  zs[i] <= zs[j]
    OBVIOUS
  <2>1. k + i <= k + j
    BY <1>1
  <2> QED BY <1>2, <1>3, <1>5, <2>1
<1>8. Acks(p, zs, u, r)
  BY <1>1, <1>2, <1>3, <1>5, <1>6, <1>7 DEF Acks
<1>9. PartOf(zs, ys, k)
  BY <1>1, <1>2, <1>5, <1>6 DEF PartOf
<1> QED BY <1>8, <1>9

LEMMA AcksSent ==
    ASSUME NEW ch \in Seq(Segment), NEW ys, NEW u \in Nat, NEW r \in Nat, u <= r,
           Acks(ch, ys, u, r),
           NEW seg \in Segment, seg.ackOffset = r % MAX_SEGMENT_OFFSET
    PROVE  Acks(Append(ch, seg), Append(ys, r), u, r)
<1> DEFINE p == Append(ch, seg)
           zs == Append(ys, r)
           L == Len(ch)
<1>1. L \in Nat
  BY LenProperties
<1>2. /\ Len(p) = L + 1
      /\ \A i \in 1 .. L : p[i] = ch[i]
      /\ p[L + 1] = seg
  BY AppendProperties
<1>3. /\ ys \in Seq(Nat) /\ Len(ys) = L
      /\ \A i \in 1 .. L : /\ ch[i].ackOffset = ys[i] % MAX_SEGMENT_OFFSET
                           /\ u <= ys[i] /\ ys[i] <= r
      /\ \A i, j \in 1 .. L : i <= j => ys[i] <= ys[j]
  BY DEF Acks
<1>4. /\ zs \in Seq(Nat) /\ Len(zs) = L + 1
      /\ \A i \in 1 .. L : zs[i] = ys[i]
      /\ zs[L + 1] = r
  BY <1>3, AppendProperties
<1> HIDE DEF p, zs, L
<1>5. r <= r
  OBVIOUS
<1>6. \A i \in 1 .. (L + 1) : /\ p[i].ackOffset = zs[i] % MAX_SEGMENT_OFFSET
                              /\ u <= zs[i] /\ zs[i] <= r
  <2> TAKE i \in 1 .. (L + 1)
  <2>1. CASE i = L + 1
    BY <1>2, <1>4, <1>5, <2>1
  <2>2. CASE i # L + 1
    <3>1. i \in 1 .. L
      BY <1>1, <2>2
    <3> QED BY <1>2, <1>3, <1>4, <3>1
  <2> QED BY <2>1, <2>2
<1>7. \A i, j \in 1 .. (L + 1) : i <= j => zs[i] <= zs[j]
  <2> SUFFICES ASSUME NEW i \in 1 .. (L + 1), NEW j \in 1 .. (L + 1), i <= j
               PROVE  zs[i] <= zs[j]
    OBVIOUS
  <2>1. CASE j = L + 1
    BY <1>4, <1>6, <2>1
  <2>2. CASE j # L + 1
    <3>1. i \in 1 .. L /\ j \in 1 .. L
      BY <1>1, <2>2
    <3> QED BY <1>3, <1>4, <3>1
  <2> QED BY <2>1, <2>2
<1>8. Acks(p, zs, u, r)
  BY <1>2, <1>4, <1>6, <1>7 DEF Acks
<1> QED BY <1>8 DEF p, zs

LEMMA AcksLater ==
    ASSUME NEW ch, NEW ys, NEW u, NEW r \in Nat, NEW s \in Nat, r <= s, Acks(ch, ys, u, r),
           Len(ch) \in Nat
    PROVE  Acks(ch, ys, u, s)
<1> SUFFICES ASSUME NEW i \in 1 .. Len(ch) PROVE ys[i] <= s
  BY DEF Acks
<1>1. ys[i] \in Nat /\ ys[i] <= r
  BY ElementOfSeq DEF Acks
<1> QED BY <1>1

-----------------------------------------------------------------------------
(***************************************************************************)
(* The receiver when the sender moves.                                     *)
(***************************************************************************)

LEMMA ReceiverSame ==
    ASSUME NEW c, NEW d, SameReceiving(c, d), NEW q, NEW k, NEW lo, NEW r, NEW hi,
           Receiver(c, q, k, lo, r, hi)
    PROVE  Receiver(d, q, k, lo, r, hi)
BY DEF SameReceiving, Receiver, EndsInRing, EndsHeld

LEMMA ReceiverWider ==
    ASSUME NEW q, StreamOK(q), NEW c \in ConnectionRecord, NEW k, NEW r \in Nat, NEW hi \in Nat,
           Receiver(c, q, k, r, r, hi),
           NEW h \in Nat, hi <= h, h <= r + MAX_WINDOW_OFFSET, h <= EndOf(q, Len(q))
    PROVE  Receiver(c, q, k, r, r, h)
<1> DEFINE D == EndOf(q, k)
           S == EndsHeld(c, q)
<1>1. Roomy(D, r, hi) /\ D \in Nat
  BY ReceiverRoom
<1>2. RingOf(c.lasts, D, r, hi, S) /\ HoldsOnly(c.inBuf, D, hi) /\ r <= hi
  BY DEF Receiver, EndsInRing
<1> HIDE DEF D, S
<1>3. \A x \in S : r < x
  <2>1. PICK s : RingOrdered(c.lasts, r, hi, S, s)
    BY <1>1, <1>2, RingOfOrder
  <2> QED BY <2>1 DEF RingOrdered
<1>4. RingOf(c.lasts, D, r, h, S)
  BY <1>1, <1>2, <1>3, RingOfBounds
<1>5. HoldsOnly(c.inBuf, D, h)
  <2> SUFFICES ASSUME NEW o \in Offsets, c.inBuf.cell[o] # INVALID
               PROVE  /\ c.inBuf.cell[o] % MAX_SEGMENT_OFFSET = o
                      /\ D <= c.inBuf.cell[o]
                      /\ c.inBuf.cell[o] < h
    BY DEF HoldsOnly
  <2>1. /\ c.inBuf.cell[o] % MAX_SEGMENT_OFFSET = o
        /\ D <= c.inBuf.cell[o]
        /\ c.inBuf.cell[o] < hi
    BY <1>2 DEF HoldsOnly
  <2>2. c.inBuf.cell[o] \in Nat
    BY Fields, BufferType
  <2> QED BY <2>1, <2>2
<1>6. r <= h
  BY <1>2
<1> QED BY <1>4, <1>5, <1>6 DEF Receiver, EndsInRing, D, S

LEMMA ReceiverLonger ==
    ASSUME NEW q, StreamOK(q), NEW z, StreamOK(z), Len(z) = Len(q) + 1,
           \A j \in 0 .. Len(q) : EndOf(z, j) = EndOf(q, j),
           NEW c \in ConnectionRecord, NEW k, NEW r \in Nat, NEW hi \in Nat,
           Receiver(c, q, k, r, r, hi)
    PROVE  Receiver(c, z, k, r, r, hi)
<1> DEFINE D == EndOf(q, k)
           E == EndOf(q, Len(q))
           F == EndOf(z, Len(z))
           b == c.inBuf
<1>1. /\ D \in Nat /\ E \in Nat /\ k \in 0 .. Len(q) /\ k \in Nat /\ Len(q) \in Nat
      /\ EndOf(z, k) = D
  BY ReceiverRoom
<1>2. /\ \A a, e : Piece(q, a, e) => Piece(z, a, e) /\ (IsEnd(z, e) <=> IsEnd(q, e))
      /\ \A a, e : Piece(z, a, e) => Piece(q, a, e) \/ E <= a
      /\ \A x : IsEnd(q, x) => IsEnd(z, x)
      /\ \A x : IsEnd(z, x) => IsEnd(q, x) \/ x = F
      /\ E < F
  BY AppendedPieces
<1>3. F \in Nat
  BY EndsOrder
<1>4. /\ D <= r /\ r <= hi /\ hi <= r + MAX_WINDOW_OFFSET /\ hi <= E
      /\ k < Len(q) => r < EndOf(q, k + 1)
      /\ c.bufferStart = D % MAX_SEGMENT_OFFSET
      /\ HoldsOnly(b, D, hi)
      /\ FirstMissing(b, D, r)
      /\ WholePieces(b, q)
      /\ RingOf(c.lasts, D, r, hi, EndsHeld(c, q))
  BY DEF Receiver, EndsInRing
<1>5. b \in ReceiveBuffer
  BY Fields
<1>6. \A x \in Nat : Holds(b, x) => x < E
  <2> TAKE x \in Nat
  <2> HAVE Holds(b, x)
  <2> HIDE DEF D, E
  <2>1. x < hi
    BY <1>1, <1>4, <1>5, HoldsRange
  <2> HIDE DEF b
  <2> QED BY <1>1, <1>4, <2>1
<1> HIDE DEF D, E, F, b
<1>7. WholePieces(b, z)
  <2> SUFFICES ASSUME NEW a \in Nat, NEW e \in Nat, NEW x \in Nat,
                      Piece(z, a, e), a <= x, x < e
               PROVE  Holds(b, a) <=> Holds(b, x)
    BY DEF WholePieces
  <2>1. CASE Piece(q, a, e)
    BY <1>4, <2>1 DEF WholePieces
  <2>2. CASE E <= a
    <3>1. ~ (a < E) /\ ~ (x < E)
      BY <1>1, <2>2
    <3> QED BY <1>6, <3>1
  <2> QED BY <1>2, <2>1, <2>2
<1>8. EndsHeld(c, z) = EndsHeld(c, q)
  <2>1. \A x \in Nat : IsEnd(z, x) /\ Holds(b, x - 1) => IsEnd(q, x)
    <3> SUFFICES ASSUME NEW x \in Nat, x = F, Holds(b, x - 1) PROVE FALSE
      BY <1>2
    <3>1. x - 1 \in Nat /\ ~ (x - 1 < E)
      BY <1>1, <1>2, <1>3
    <3> QED BY <1>6, <3>1
  <2> QED BY <1>2, <2>1 DEF EndsHeld, b
<1>9. k < Len(z) => r < EndOf(z, k + 1)
  <2>1. CASE k < Len(q)
    <3>1. k + 1 \in 0 .. Len(q)
      BY <1>1, <2>1
    <3> QED BY <1>4, <2>1, <3>1
  <2>2. CASE ~ (k < Len(q))
    <3>1. k + 1 = Len(z)
      BY <1>1, <2>2
    <3>2. EndOf(z, k + 1) = F
      BY <3>1 DEF F
    <3> QED BY <1>1, <1>2, <1>3, <1>4, <3>2
  <2> QED BY <2>1, <2>2
<1>10. hi <= F /\ k \in 0 .. Len(z)
  BY <1>1, <1>2, <1>3, <1>4
<1>11. RingOf(c.lasts, D, r, hi, EndsHeld(c, z))
  BY <1>4, <1>8
<1> QED
  BY <1>1, <1>4, <1>7, <1>9, <1>10, <1>11 DEF Receiver, EndsInRing, F, b

\* A receiver that waits between two handlers has no complete message.
LEMMA NothingComplete ==
    ASSUME NEW q, StreamOK(q), NEW c \in ConnectionRecord, NEW k, NEW r \in Nat, NEW hi \in Nat,
           Receiver(c, q, k, r, r, hi)
    PROVE  Complete(c) = {}
<1>1. PICK s, n : Delivery(c, q, k, r, hi, s, n)
  BY ReceiverOrder
<1>2. /\ s \in Seq(Nat) /\ n \in 0 .. Len(s) /\ n = Cardinality(Complete(c))
      /\ \A i \in 1 .. Len(s) : s[i] <= r <=> i <= n
      /\ \A j \in 1 .. n : s[j] = EndOf(q, k + j)
      /\ k + n \in 0 .. Len(q)
  BY <1>1 DEF Delivery, InTurn
<1>3. k \in Nat /\ Len(q) \in Nat /\ Len(s) \in Nat /\ (k < Len(q) => r < EndOf(q, k + 1))
  BY <1>2, ReceiverRoom, LenProperties DEF Receiver
<1>4. n = 0
  <2> SUFFICES ASSUME n # 0 PROVE FALSE
    OBVIOUS
  <2>1. 1 \in 1 .. n /\ 1 \in 1 .. Len(s) /\ k < Len(q) /\ 1 <= n /\ k + 1 \in 0 .. Len(q)
    BY SMTT(60), <1>2, <1>3
  <2>2. s[1] <= r /\ s[1] = EndOf(q, k + 1)
    BY <1>2, <2>1
  <2>3. EndOf(q, k + 1) \in Nat
    BY <2>1, EndsOrder
  <2> QED BY <1>3, <2>1, <2>2, <2>3
<1>5. IsFiniteSet(Complete(c))
  <2> DEFINE N == dring_nitems(c.lasts)
             T == Complete(c)
  <2>1. T \in SUBSET (1 .. N)
    BY DEF Complete
  <2>2. N \in Nat
    BY Fields, PopOrderType
  <2> HIDE DEF N, T
  <2>3. IsFiniteSet(1 .. N)
    BY <2>2, IndicesFinite, Zenon
  <2>4. IsFiniteSet(T)
    BY <2>1, <2>3, FS_Subset
  <2> QED BY <2>4 DEF T
<1> QED BY <1>2, <1>4, <1>5, FS_EmptySet

-----------------------------------------------------------------------------
(***************************************************************************)
(* A stream: the messages q of a sender with the connection cs, what has   *)
(* been delivered of them at the receiver with the connection ct, the data *)
(* on its way to the receiver and the acknowledgments on theirs back.      *)
(***************************************************************************)

\* The end of the sender's window, or of the stream.
Upto(q, u) == AtMost(u + MAX_WINDOW_OFFSET, EndOf(q, Len(q)))

HasDelivered(dl, q, k) ==
    Len(dl) = k /\ \A j \in 1 .. k : dl[j] = q[j]

\* st is where the segments of the sender start, k the number of messages
\* delivered, r the position the receiver waits for, ys the acknowledgments.
Stream(q, dl, cs, ct, data, acks, st, k, r, ys) ==
    /\ Sender(cs, q, st)
    /\ r \in Nat
    /\ st[1] <= r
    /\ Receiver(ct, q, k, r, r, Upto(q, st[1]))
    /\ HasDelivered(dl, q, k)
    /\ InFlight(data, q, st[1], r, ct.inBuf)
    /\ Acks(acks, ys, st[1], r)

InStep(q, dl, cs, ct, data, acks) ==
    \E st, k, r, ys : Stream(q, dl, cs, ct, data, acks, st, k, r, ys)

\* The acknowledgment c sends stands for position r.
Awaits(c, r) == AckOffset(c) = r % MAX_SEGMENT_OFFSET

\* The order of the positions of a stream.
LEMMA StreamPositions ==
    ASSUME NEW q, StreamOK(q), NEW dl, NEW cs \in ConnectionRecord, NEW ct \in ConnectionRecord,
           NEW data, NEW acks, NEW st, NEW k, NEW r, NEW ys,
           Stream(q, dl, cs, ct, data, acks, st, k, r, ys)
    PROVE  /\ st[1] \in Nat /\ r \in Nat /\ Upto(q, st[1]) \in Nat
           /\ st[1] <= r /\ r <= Upto(q, st[1])
           /\ Upto(q, st[1]) <= st[1] + MAX_WINDOW_OFFSET
           /\ Upto(q, st[1]) <= EndOf(q, Len(q))
           /\ r <= st[1] + MAX_WINDOW_OFFSET
           /\ \A x \in Nat : Holds(ct.inBuf, x) => x < st[1] + MAX_WINDOW_OFFSET
           /\ Awaits(ct, r)
           /\ EndOf(q, Len(q)) \in Nat
<1> DEFINE u == st[1]
           E == EndOf(q, Len(q))
           W == MAX_WINDOW_OFFSET
           h == Upto(q, u)
           D == EndOf(q, k)
<1>1. /\ Sender(cs, q, st) /\ r \in Nat /\ u <= r /\ Receiver(ct, q, k, r, r, h)
  BY DEF Stream
<1>2. u \in Nat /\ E \in Nat /\ W \in Nat
  <2>1. 1 \in 1 .. Len(st)
    <3>1. Len(cs.outSegments) \in Nat /\ Len(st) = Len(cs.outSegments) + 1
      BY <1>1, SenderProperties
    <3> QED BY <3>1
  <2> QED BY <1>1, <2>1, SenderProperties, EndsOrder, Constants
<1>3. h \in Nat /\ h <= u + W /\ h <= E
  BY <1>2 DEF Upto, AtMost
<1> HIDE DEF h, u, E
<1>4. /\ r <= h /\ HoldsOnly(ct.inBuf, D, h) /\ FirstMissing(ct.inBuf, D, r)
      /\ ct.bufferStart = D % MAX_SEGMENT_OFFSET
  BY <1>1 DEF Receiver
<1>5. D \in Nat /\ h - D < MAX_SEGMENT_OFFSET /\ D <= r
  BY <1>1, <1>3, ReceiverRoom DEF Receiver
<1> HIDE DEF D
<1>6. r <= u + W
  BY <1>1, <1>2, <1>3, <1>4
<1>7. ct.inBuf \in ReceiveBuffer
  BY Fields
<1>8. \A x \in Nat : Holds(ct.inBuf, x) => x < u + W
  <2> TAKE x \in Nat
  <2> HAVE Holds(ct.inBuf, x)
  <2>1. x < h
    BY <1>3, <1>4, <1>5, <1>7, HoldsRange
  <2> QED BY <1>2, <1>3, <2>1
<1>9. AckOffset(ct) = r % MAX_SEGMENT_OFFSET
  <2>1. r - D < MAX_SEGMENT_OFFSET /\ h - r <= MAX_SEGMENT_OFFSET /\ MAX_SEGMENT_OFFSET \in Nat
    BY <1>1, <1>3, <1>4, <1>5, Constants
  <2> QED BY <1>1, <1>3, <1>4, <1>5, <2>1, AckOffsetIsMissing
<1> QED BY <1>1, <1>2, <1>3, <1>4, <1>6, <1>8, <1>9 DEF h, u, E, Awaits

-----------------------------------------------------------------------------

LEMMA SenderMoves ==
    ASSUME NEW q, NEW dl, NEW cs, NEW ct, NEW data, NEW acks,
           InStep(q, dl, cs, ct, data, acks), NEW d, SameQueue(cs, d)
    PROVE  InStep(q, dl, d, ct, data, acks)
<1>1. PICK st, k, r, ys : Stream(q, dl, cs, ct, data, acks, st, k, r, ys)
  BY DEF InStep
<1>2. Sender(d, q, st)
  BY <1>1, SenderKept DEF Stream
<1>3. Stream(q, dl, d, ct, data, acks, st, k, r, ys)
  BY <1>1, <1>2 DEF Stream
<1> QED BY <1>3 DEF InStep

LEMMA ReceiverMoves ==
    ASSUME NEW q, NEW dl, NEW cs, NEW ct, NEW data, NEW acks,
           InStep(q, dl, cs, ct, data, acks), NEW d, SameReceiving(ct, d)
    PROVE  InStep(q, dl, cs, d, data, acks)
<1>1. PICK st, k, r, ys : Stream(q, dl, cs, ct, data, acks, st, k, r, ys)
  BY DEF InStep
<1>2. Receiver(d, q, k, r, r, Upto(q, st[1]))
  BY <1>1, ReceiverSame DEF Stream
<1>3. InFlight(data, q, st[1], r, d.inBuf)
  BY <1>1 DEF Stream, SameReceiving
<1>4. Stream(q, dl, cs, d, data, acks, st, k, r, ys)
  BY <1>1, <1>2, <1>3 DEF Stream
<1> QED BY <1>4 DEF InStep

\* The sender hands a segment of its window, or one without data, to the network.
LEMMA DataSent ==
    ASSUME NEW q, StreamOK(q), NEW dl, NEW cs \in ConnectionRecord, NEW ct \in ConnectionRecord,
           NEW data \in Seq(Segment), NEW acks, InStep(q, dl, cs, ct, data, acks),
           NEW seg \in Segment,
           seg.payload # <<>> =>
              \E i \in 1 .. Len(cs.outSegments) :
                 i <= MAX_WINDOW_SIZE /\ SameContent(cs.outSegments[i], seg)
    PROVE  InStep(q, dl, cs, ct, Append(data, seg), acks)
<1>1. PICK st, k, r, ys : Stream(q, dl, cs, ct, data, acks, st, k, r, ys)
  BY DEF InStep
<1> DEFINE u == st[1]
<1>2. /\ u \in Nat /\ r \in Nat /\ r <= u + MAX_WINDOW_OFFSET
      /\ \A x \in Nat : Holds(ct.inBuf, x) => x < u + MAX_WINDOW_OFFSET
  BY <1>1, StreamPositions
<1>3. InFlight(data, q, u, r, ct.inBuf) /\ Sender(cs, q, st)
  BY <1>1 DEF Stream
<1>4. seg.payload # <<>> =>
         \E a, e : SegmentOf(q, seg, a, e) /\ u <= a /\ e <= u + MAX_WINDOW_OFFSET
  <2> SUFFICES ASSUME NEW i \in 1 .. Len(cs.outSegments), i <= MAX_WINDOW_SIZE,
                      SameContent(cs.outSegments[i], seg)
               PROVE  \E a, e : SegmentOf(q, seg, a, e) /\ u <= a /\ e <= u + MAX_WINDOW_OFFSET
    OBVIOUS
  <2>1. SegmentOf(q, cs.outSegments[i], st[i], st[i + 1])
    BY <1>3 DEF Sender
  <2>2. SegmentOf(q, seg, st[i], st[i + 1])
    BY <2>1 DEF SegmentOf, SameContent
  <2>3. st[1] <= st[i] /\ st[i + 1] <= st[1] + MAX_WINDOW_OFFSET
    BY <1>3, SenderInWindow
  <2> QED BY <2>2, <2>3
<1> HIDE DEF u
<1>5. InFlight(Append(data, seg), q, u, r, ct.inBuf)
  BY <1>2, <1>3, <1>4, InFlightSent
<1>6. Stream(q, dl, cs, ct, Append(data, seg), acks, st, k, r, ys)
  BY <1>1, <1>5 DEF Stream, u
<1> QED BY <1>6 DEF InStep

\* The receiver hands a segment with its acknowledgment to the network.
LEMMA AckSent ==
    ASSUME NEW q, StreamOK(q), NEW dl, NEW cs \in ConnectionRecord, NEW ct \in ConnectionRecord,
           NEW data, NEW acks \in Seq(Segment), InStep(q, dl, cs, ct, data, acks),
           NEW seg \in Segment, seg.ackOffset = AckOffset(ct)
    PROVE  InStep(q, dl, cs, ct, data, Append(acks, seg))
<1>1. PICK st, k, r, ys : Stream(q, dl, cs, ct, data, acks, st, k, r, ys)
  BY DEF InStep
<1> DEFINE u == st[1]
<1>2. u \in Nat /\ r \in Nat /\ u <= r /\ Awaits(ct, r)
  BY <1>1, StreamPositions
<1>3. Acks(acks, ys, u, r)
  BY <1>1 DEF Stream
<1> HIDE DEF u
<1>4. Acks(Append(acks, seg), Append(ys, r), u, r)
  <2>1. seg.ackOffset = r % MAX_SEGMENT_OFFSET
    BY <1>2 DEF Awaits
  <2> QED BY <1>2, <1>3, <2>1, AcksSent
<1>5. Stream(q, dl, cs, ct, data, Append(acks, seg), st, k, r, Append(ys, r))
  BY <1>1, <1>4 DEF Stream, u
<1> QED BY <1>5 DEF InStep

\* Datagrams are lost at either end of a channel.
LEMMA DataLost ==
    ASSUME NEW q, NEW dl, NEW cs, NEW ct, NEW data, NEW acks,
           InStep(q, dl, cs, ct, data, acks), NEW p, NEW m, PartOf(p, data, m)
    PROVE  InStep(q, dl, cs, ct, p, acks)
<1>1. PICK st, k, r, ys : Stream(q, dl, cs, ct, data, acks, st, k, r, ys)
  BY DEF InStep
<1>2. InFlight(p, q, st[1], r, ct.inBuf)
  BY <1>1, InFlightPart DEF Stream
<1>3. Stream(q, dl, cs, ct, p, acks, st, k, r, ys)
  BY <1>1, <1>2 DEF Stream
<1> QED BY <1>3 DEF InStep

LEMMA AcksLost ==
    ASSUME NEW q, NEW dl, NEW cs, NEW ct, NEW data, NEW acks,
           InStep(q, dl, cs, ct, data, acks), NEW p, NEW m, PartOf(p, acks, m)
    PROVE  InStep(q, dl, cs, ct, data, p)
<1>1. PICK st, k, r, ys : Stream(q, dl, cs, ct, data, acks, st, k, r, ys)
  BY DEF InStep
<1>2. PICK zs : Acks(p, zs, st[1], r)
  BY <1>1, AcksPart DEF Stream
<1>3. Stream(q, dl, cs, ct, data, p, st, k, r, zs)
  BY <1>1, <1>2 DEF Stream
<1> QED BY <1>3 DEF InStep

-----------------------------------------------------------------------------
(***************************************************************************)
(* A message is sent, an acknowledgment arrives, a segment arrives.        *)
(***************************************************************************)

LEMMA TailIsPart ==
    ASSUME NEW ch \in Seq(Segment), ch # <<>>
    PROVE  /\ PartOf(Tail(ch), ch, 1)
           /\ Head(ch) = ch[1]
           /\ ch[1] \in Segment
           /\ 1 \in 1 .. Len(ch)
           /\ Tail(ch) \in Seq(Segment)
           /\ Len(ch) \in Nat
<1>1. Len(ch) \in Nat /\ Len(ch) # 0
  BY LenProperties, EmptySeq
<1>2. /\ Tail(ch) \in Seq(Segment) /\ Len(Tail(ch)) = Len(ch) - 1
      /\ \A i \in 1 .. Len(Tail(ch)) : Tail(ch)[i] = ch[i + 1]
      /\ Head(ch) = ch[1]
  BY HeadTailProperties
<1>3. 1 \in 1 .. Len(ch)
  BY <1>1
<1>4. ch[1] \in Segment
  BY <1>3, ElementOfSeq
<1>5. \A i \in 1 .. Len(Tail(ch)) : i + 1 = 1 + i
  BY <1>1, <1>2
<1>6. PartOf(Tail(ch), ch, 1)
  BY <1>1, <1>2, <1>5 DEF PartOf
<1> QED BY <1>1, <1>2, <1>3, <1>4, <1>6

LEMMA MessageAdded ==
    ASSUME NEW q, StreamOK(q), NEW dl, NEW cs, Healthy(cs), cs.windowLimit >= 1,
           NEW ct \in ConnectionRecord,
           NEW data, NEW acks, InStep(q, dl, cs, ct, data, acks),
           NEW size \in Nat, size >= 1, size + 2 * MAX_WINDOW_OFFSET <= MAX_SEGMENT_OFFSET,
           NEW msg, msg = Interval(EndOf(q, Len(q)), EndOf(q, Len(q)) + size)
    PROVE  /\ InStep(Append(q, msg), dl, Enqueue(cs, msg), ct, data, acks)
           /\ StreamOK(Append(q, msg))
<1> DEFINE z == Append(q, msg)
           d == Enqueue(cs, msg)
<1>1. /\ StreamOK(z) /\ Len(z) = Len(q) + 1
      /\ \A j \in 0 .. Len(q) : EndOf(z, j) = EndOf(q, j)
      /\ EndOf(z, Len(q) + 1) = EndOf(q, Len(q)) + size
      /\ \A j \in 1 .. Len(q) : z[j] = q[j]
  BY AppendedStream
<1>2. PICK st, k, r, ys : Stream(q, dl, cs, ct, data, acks, st, k, r, ys)
  BY DEF InStep
<1>3. cs \in ConnectionRecord
  BY DEF Healthy
<1>4. /\ Sender(cs, q, st) /\ Receiver(ct, q, k, r, r, Upto(q, st[1]))
      /\ HasDelivered(dl, q, k) /\ InFlight(data, q, st[1], r, ct.inBuf)
      /\ Acks(acks, ys, st[1], r) /\ st[1] <= r /\ r \in Nat
  BY <1>2 DEF Stream
<1>5. PICK st2 : Sender(d, z, st2) /\ st2[1] = st[1]
  BY <1>4, EnqueueKeeps
<1> HIDE DEF z, d
<1> DEFINE u == st[1]
           h == Upto(q, u)
           g == Upto(z, u)
<1>6. /\ u \in Nat /\ h \in Nat /\ r <= h /\ h <= u + MAX_WINDOW_OFFSET /\ u <= r
      /\ h <= EndOf(q, Len(q)) /\ EndOf(q, Len(q)) \in Nat
  BY <1>2, <1>3, StreamPositions
<1>7. EndOf(z, Len(z)) = EndOf(q, Len(q)) + size
  BY <1>1
<1>8. /\ g \in Nat /\ h <= g /\ g <= r + MAX_WINDOW_OFFSET /\ g <= EndOf(z, Len(z))
  <2> DEFINE E == EndOf(q, Len(q))
             F == EndOf(z, Len(z))
  <2>1. E \in Nat /\ F = E + size /\ MAX_WINDOW_OFFSET \in Nat /\ r \in Nat
        /\ h = AtMost(u + MAX_WINDOW_OFFSET, E) /\ g = AtMost(u + MAX_WINDOW_OFFSET, F)
    BY <1>4, <1>6, <1>7, Constants DEF Upto
  <2> HIDE DEF E, F, h, g
  <2>2. u \in Nat /\ u <= r
    BY <1>6
  <2> HIDE DEF u
  <2>3. g \in Nat /\ h <= g /\ g <= r + MAX_WINDOW_OFFSET /\ g <= F
    BY <2>1, <2>2 DEF AtMost
  <2> QED BY <2>3 DEF F
<1>9. Receiver(ct, z, k, r, r, h)
  <2> HIDE DEF h
  <2>1. Receiver(ct, q, k, r, r, h)
    BY <1>4 DEF h
  <2> QED BY <1>1, <1>4, <1>6, <2>1, ReceiverLonger
<1> HIDE DEF h, g, u
<1>10. Receiver(ct, z, k, r, r, g)
  BY <1>1, <1>4, <1>6, <1>8, <1>9, ReceiverWider
<1>11. HasDelivered(dl, z, k)
  <2>1. k \in 0 .. Len(q) /\ Len(q) \in Nat
    BY <1>4, EndsOrder DEF Receiver
  <2>2. \A j \in 1 .. k : j \in 1 .. Len(q)
    BY <2>1
  <2> QED BY <1>1, <1>4, <2>2 DEF HasDelivered
<1>12. InFlight(data, z, u, r, ct.inBuf)
  <2>1. InFlight(data, q, u, r, ct.inBuf)
    BY <1>4 DEF u
  <2> QED BY <1>1, <2>1, InFlightLonger
<1>13. Stream(z, dl, d, ct, data, acks, st2, k, r, ys)
  <2>1. st2[1] = u /\ Acks(acks, ys, u, r) /\ u <= r
    BY <1>4, <1>5 DEF u
  <2> QED BY <1>4, <1>5, <1>10, <1>11, <1>12, <2>1 DEF Stream, g
<1> QED BY <1>1, <1>13 DEF InStep, z, d

LEMMA AckArrived ==
    ASSUME NEW q, StreamOK(q), NEW dl, NEW cs, Healthy(cs), NEW ct \in ConnectionRecord,
           NEW data, NEW acks \in Seq(Segment), InStep(q, dl, cs, ct, data, acks),
           acks # <<>>, NEW o, o = acks[1].ackOffset,
           NEW path \in GrowthPaths(cs, GrowthSteps(cs, o))
    PROVE  /\ InStep(q, dl, ProcessAck(cs, o, path), ct, data, Tail(acks))
           /\ SameReceiving(cs, ProcessAck(cs, o, path))
<1> DEFINE d == ProcessAck(cs, o, path)
<1>1. PICK st, k, r, ys : Stream(q, dl, cs, ct, data, acks, st, k, r, ys)
  BY DEF InStep
<1>2. cs \in ConnectionRecord
  BY DEF Healthy
<1> DEFINE u == st[1]
           h == Upto(q, u)
           E == EndOf(q, Len(q))
           W == MAX_WINDOW_OFFSET
<1>3. /\ Sender(cs, q, st) /\ Receiver(ct, q, k, r, r, h)
      /\ HasDelivered(dl, q, k) /\ InFlight(data, q, u, r, ct.inBuf)
      /\ Acks(acks, ys, u, r)
  BY <1>1 DEF Stream
<1>4. /\ u \in Nat /\ r \in Nat /\ h \in Nat /\ u <= r /\ r <= h /\ r <= u + W
      /\ h <= E /\ E \in Nat
  BY <1>1, <1>2, StreamPositions
<1>5. PartOf(Tail(acks), acks, 1) /\ 1 \in 1 .. Len(acks) /\ Len(acks) \in Nat
  BY TailIsPart
<1>6. PICK y : y = ys[1]
  OBVIOUS
<1>7. y \in Nat /\ o = y % MAX_SEGMENT_OFFSET /\ u <= y /\ y <= r
  <2>1. /\ ys \in Seq(Nat) /\ Len(ys) = Len(acks)
        /\ acks[1].ackOffset = ys[1] % MAX_SEGMENT_OFFSET
        /\ u <= ys[1] /\ ys[1] <= r
    BY <1>3, <1>5 DEF Acks
  <2> QED BY <1>5, <1>6, <2>1, ElementOfSeq
<1>8. KeptAfter(cs, d, q, st, y) /\ SameReceiving(cs, d)
  <2>1. W \in Nat /\ y <= u + W
    BY <1>4, <1>7, Constants
  <2> HIDE DEF d
  <2>2. st[1] <= y /\ y <= st[1] + MAX_WINDOW_OFFSET
    BY <1>7, <2>1
  <2>3. KeptAfter(cs, ProcessAck(cs, o, path), q, st, y)
    BY <1>3, <1>7, <2>2, ProcessAckKeeps
  <2>4. SameReceiving(cs, ProcessAck(cs, o, path))
    BY <1>3, <1>7, <2>2, ProcessAckKeeps
  <2> QED BY <2>3, <2>4 DEF d
<1> HIDE DEF d
<1>9. PICK st2 : Sender(d, q, st2) /\ u <= st2[1] /\ st2[1] <= y
  BY <1>8 DEF KeptAfter
<1> DEFINE v == st2[1]
           g == Upto(q, v)
<1>10. v \in Nat /\ u <= v /\ v <= y
  <2>1. ys[1] = ys[1]
    OBVIOUS
  <2>2. st2 \in Seq(Nat) /\ Len(st2) = Len(d.outSegments) + 1
    BY <1>9 DEF Sender
  <2>3. d \in ConnectionRecord
    BY ProcessAckHealthy DEF d, Healthy
  <2>4. 1 \in 1 .. Len(st2)
    <3>1. Len(d.outSegments) \in Nat
      BY <2>3, Fields, LenProperties
    <3> QED BY <2>2, <3>1
  <2>5. st2[1] \in Nat
    BY <2>2, <2>4, ElementOfSeq
  <2> QED BY <1>9, <2>5
<1>11. h = AtMost(u + W, E) /\ g = AtMost(v + W, E)
  BY DEF Upto
<1> HIDE DEF u, h, E, v, g
<1>12. W \in Nat
  BY Constants
<1>13. g \in Nat /\ h <= g /\ g <= r + W /\ g <= E /\ v <= r
  <2> HIDE DEF W
  <2> QED BY <1>4, <1>7, <1>10, <1>11, <1>12 DEF AtMost
<1>14. Receiver(ct, q, k, r, r, g)
  <2>1. g <= EndOf(q, Len(q))
    BY <1>13 DEF E
  <2> QED BY <1>3, <1>4, <1>13, <2>1, ReceiverWider
<1>15. InFlight(data, q, v, r, ct.inBuf)
  BY <1>3, <1>4, <1>10, InFlightLater
<1>16. PICK zs : Acks(Tail(acks), zs, u, r) /\ PartOf(zs, ys, 1)
  BY <1>3, <1>5, AcksPart
<1>17. Acks(Tail(acks), zs, v, r)
  <2> SUFFICES ASSUME NEW i \in 1 .. Len(Tail(acks)) PROVE v <= zs[i]
    BY <1>16 DEF Acks
  <2>1. Len(zs) = Len(Tail(acks)) /\ zs \in Seq(Nat)
    BY <1>16 DEF Acks
  <2>2. zs[i] = ys[1 + i] /\ 1 + Len(zs) <= Len(ys) /\ Len(zs) \in Nat
    BY <1>16, <2>1 DEF PartOf
  <2>3. /\ Len(ys) = Len(acks)
        /\ \A f, j \in 1 .. Len(acks) : f <= j => ys[f] <= ys[j]
    BY <1>3 DEF Acks
  <2>4. 1 + i \in 1 .. Len(acks) /\ 1 <= 1 + i
    BY <1>5, <2>1, <2>2, <2>3
  <2>5. y <= zs[i]
    BY <1>5, <1>6, <2>2, <2>3, <2>4
  <2>6. zs[i] \in Nat
    BY <2>1, ElementOfSeq
  <2> QED BY <1>7, <1>10, <2>5, <2>6
<1>18. Stream(q, dl, d, ct, data, Tail(acks), st2, k, r, zs)
  <2>1. st2[1] = v /\ g = Upto(q, st2[1])
    BY DEF v, g
  <2> QED BY <1>3, <1>4, <1>9, <1>13, <1>14, <1>15, <1>17, <2>1 DEF Stream
<1> QED BY <1>8, <1>18 DEF InStep, d

-----------------------------------------------------------------------------

\* The rest of the data when a segment that ends at position e has been stored.
LEMMA InFlightArrived ==
    ASSUME NEW q, StreamOK(q), NEW ch \in Seq(Segment), ch # <<>>, ch[1].payload # <<>>,
           NEW u \in Nat, NEW r \in Nat, NEW b, InFlight(ch, q, u, r, b),
           NEW e \in Nat, e = Behind(ch[1]),
           NEW d, \A x \in Nat : Holds(d, x) => Holds(b, x) \/ x < e,
           NEW s \in Nat, r <= s, \A x \in Nat : r <= x /\ x < s => Holds(b, x) \/ x < e
    PROVE  InFlight(Tail(ch), q, u, s, d)
<1> DEFINE p == Tail(ch)
           W == MAX_WINDOW_OFFSET
<1>1. PartOf(p, ch, 1) /\ 1 \in 1 .. Len(ch) /\ Len(ch) \in Nat
  BY TailIsPart
<1> HIDE DEF p
<1>2. InFlight(p, q, u, r, b)
  BY <1>1, InFlightPart
<1> SUFFICES ASSUME NEW j \in 1 .. Len(p), p[j].payload # <<>>
             PROVE  /\ s <= First(p[j]) + W
                    /\ \A x \in Nat : Holds(d, x) => x < First(p[j]) + W
  BY <1>2 DEF InFlight, p
<1>3. PICK h \in 1 .. Len(ch) : h = 1 + j /\ p[j] = ch[h] /\ 1 < h
  <2>1. 1 + j \in 1 .. Len(ch) /\ p[j] = ch[1 + j] /\ 1 < 1 + j
    BY <1>1 DEF PartOf
  <2> QED BY <2>1
<1> DEFINE a == First(p[j])
<1>4. /\ SegmentOf(q, ch[h], First(ch[h]), Behind(ch[h]))
      /\ r <= First(ch[h]) + W
      /\ \A x \in Nat : Holds(b, x) => x < First(ch[h]) + W
      /\ Behind(ch[1]) <= First(ch[h]) + W
  BY <1>1, <1>3 DEF InFlight
<1>5. First(ch[h]) \in Nat
  BY <1>4, FirstBehind
<1>6. a \in Nat /\ r <= a + W /\ e <= a + W /\ \A x \in Nat : Holds(b, x) => x < a + W
  BY <1>3, <1>4, <1>5
<1>7. W \in Nat
  BY Constants
<1> HIDE DEF a, W
<1>8. \A x \in Nat : Holds(b, x) \/ x < e => x < a + W
  BY <1>6, <1>7
<1>9. s <= a + W
  <2>1. CASE s = r
    BY <1>6, <2>1
  <2>2. CASE s # r
    <3>1. PICK x \in Nat : x = s - 1 /\ r <= x /\ x < s
      BY <2>2
    <3>2. x < a + W
      BY <1>8, <3>1
    <3> QED BY <1>6, <1>7, <3>1, <3>2
  <2> QED BY <2>1, <2>2
<1>10. \A x \in Nat : Holds(d, x) => x < a + W
  BY <1>8
<1> QED BY <1>9, <1>10 DEF a, W

LEMMA DeliveredMore ==
    ASSUME NEW q, NEW S, NEW dl \in Seq(S), NEW k \in Nat, HasDelivered(dl, q, k),
           NEW n \in Nat, NEW msgs \in Seq(S), Len(msgs) = n,
           \A j \in 1 .. n : msgs[j] = q[k + j]
    PROVE  HasDelivered(dl \o msgs, q, k + n)
<1>1. /\ Len(dl \o msgs) = k + n
      /\ \A i \in 1 .. k + n : (dl \o msgs)[i] = IF i <= k THEN dl[i] ELSE msgs[i - k]
  BY ZenonT(60), ConcatProperties DEF HasDelivered
<1>2. \A i \in 1 .. k + n : (dl \o msgs)[i] = q[i]
  <2> TAKE i \in 1 .. k + n
  <2>1. CASE i <= k
    BY <1>1, <2>1 DEF HasDelivered
  <2>2. CASE ~ (i <= k)
    <3>1. i - k \in 1 .. n /\ k + (i - k) = i
      BY <2>2
    <3> QED BY <1>1, <2>2, <3>1
  <2> QED BY <2>1, <2>2
<1> QED BY <1>1, <1>2 DEF HasDelivered

\* d is c with the bytes from position a up to position e stored.
Stored(c, d, a, e) ==
    /\ d.failed = c.failed
    /\ \A x \in Nat : Holds(d.inBuf, x) <=> Holds(c.inBuf, x) \/ (a <= x /\ x < e)

LEMMA StoreStores ==
    ASSUME NEW q, StreamOK(q), NEW c \in ConnectionRecord, NEW k, NEW r \in Nat, NEW hi \in Nat,
           Receiver(c, q, k, r, r, hi),
           NEW seg \in Segment, NEW a, NEW e, SegmentOf(q, seg, a, e), e <= hi,
           r <= a, ~ Holds(c.inBuf, a)
    PROVE  Stored(c, Store(c, seg), a, e)
BY StoreKeeps DEF Stored

\* What the handler makes of the data of a segment: c3 is the connection after
\* buffer_store, c4 the one after the loop that hands over the messages msgs.
Taken(c, seg, c3, c4, msgs) ==
    /\ c3 = IF IsNew(c, seg) THEN Store(c, seg) ELSE c
    /\ c4 = IF IsNew(c, seg) THEN Deliver(c3) ELSE c3
    /\ msgs = IF IsNew(c, seg) THEN Messages(c3) ELSE <<>>

NothingFails(c, d) == d.failed = c.failed

\* A segment arrives: what of it is new is stored and what is complete delivered.
LEMMA DataArrived ==
    ASSUME NEW q, StreamOK(q), NEW dl \in Seq(Seq(Nat \union {INVALID})),
           NEW cs \in ConnectionRecord, NEW ct, Healthy(ct),
           NEW data \in Seq(Segment), NEW acks, Len(acks) \in Nat,
           InStep(q, dl, cs, ct, data, acks),
           data # <<>>, NEW c3, NEW c4, NEW msgs, Taken(ct, data[1], c3, c4, msgs)
    PROVE  /\ InStep(q, dl \o msgs, cs, c4, Tail(data), acks)
           /\ NothingFails(ct, c4)
<1> DEFINE seg == data[1]
<1>9. /\ c3 = IF IsNew(ct, seg) THEN Store(ct, seg) ELSE ct
      /\ c4 = IF IsNew(ct, seg) THEN Deliver(c3) ELSE c3
      /\ msgs = IF IsNew(ct, seg) THEN Messages(c3) ELSE <<>>
  BY DEF Taken
<1>10. seg = data[1]
  OBVIOUS
<1> HIDE DEF seg
<1>1. PICK st, k, r, ys : Stream(q, dl, cs, ct, data, acks, st, k, r, ys)
  BY DEF InStep
<1>2. ct \in ConnectionRecord
  BY DEF Healthy
<1> DEFINE u == st[1]
           h == Upto(q, u)
           W == MAX_WINDOW_OFFSET
<1>3. /\ PartOf(Tail(data), data, 1) /\ seg \in Segment /\ 1 \in 1 .. Len(data)
      /\ Len(data) \in Nat
  BY <1>10, TailIsPart
<1>4. CASE ~ IsNew(ct, seg)
  <2>1. c4 = ct /\ msgs = <<>>
    BY <1>4, <1>9
  <2>2. dl \o msgs = dl
    BY <2>1, ConcatEmptySeq
  <2>3. InStep(q, dl, cs, ct, Tail(data), acks)
    BY <1>3, DataLost
  <2> QED BY <2>1, <2>2, <2>3 DEF NothingFails
<1>5. CASE IsNew(ct, seg)
  <2>1. c3 = Store(ct, seg) /\ c4 = Deliver(c3) /\ msgs = Messages(c3)
    BY <1>5, <1>9
  <2>2. seg.payload # <<>>
    BY <1>5 DEF IsNew
  <2>3. /\ Sender(cs, q, st) /\ Receiver(ct, q, k, r, r, h)
        /\ HasDelivered(dl, q, k) /\ InFlight(data, q, u, r, ct.inBuf)
        /\ Acks(acks, ys, u, r)
    BY <1>1 DEF Stream
  <2>4. /\ u \in Nat /\ r \in Nat /\ h \in Nat /\ u <= r
        /\ EndOf(q, Len(q)) \in Nat
    BY <1>1, <1>2, StreamPositions
  <2>5. PICK a, e : a = First(seg) /\ e = Behind(seg)
    OBVIOUS
  <2>6. /\ SegmentOf(q, seg, a, e) /\ e <= u + W /\ r <= a + W
        /\ \A x \in Nat : Holds(ct.inBuf, x) => x < a + W
    BY <1>3, <1>10, <2>2, <2>3, <2>5 DEF InFlight
  <2>7. a \in Nat /\ e \in Nat /\ e <= EndOf(q, Len(q))
    BY <2>6, PieceProperties DEF SegmentOf
  <2>8. e <= h
    BY <2>4, <2>6, <2>7 DEF Upto, AtMost
  <2> HIDE DEF h, u
  <2>9. r <= a /\ ~ Holds(ct.inBuf, a)
    <3>1. IsNew(ct, seg) <=> r <= a /\ ~ Holds(ct.inBuf, a)
      BY <1>2, <1>3, <2>3, <2>4, <2>6, <2>7, <2>8, NewIsNew
    <3> QED BY <1>5, <3>1
  <2>10. /\ \E r2 \in Nat : Receiver(c3, q, k, r, r2, h)
         /\ c3.failed = ct.failed
         /\ \A x \in Nat :
               Holds(c3.inBuf, x) <=> Holds(ct.inBuf, x) \/ (a <= x /\ x < e)
    <3>1. \E r2 \in Nat : Receiver(Store(ct, seg), q, k, r, r2, h)
      BY <1>2, <1>3, <2>3, <2>4, <2>6, <2>7, <2>8, <2>9, StoreKeeps
    <3>2. Stored(ct, Store(ct, seg), a, e)
      BY <1>2, <1>3, <2>3, <2>4, <2>6, <2>7, <2>8, <2>9, StoreStores
    <3> QED BY <2>1, <3>1, <3>2 DEF Stored
  <2>11. PICK s \in Nat : Receiver(c3, q, k, r, s, h)
    BY <2>10
  <2>12. c3 \in ConnectionRecord
    BY <1>3, <2>1, StoreHealthy DEF Healthy
  <2>13. PICK n \in Nat :
            /\ Receiver(Deliver(c3), q, k + n, s, s, h)
            /\ Deliver(c3).failed = c3.failed
            /\ Handed(c3, q, k, n)
            /\ \A x \in Nat : Holds(Deliver(c3).inBuf, x) => Holds(c3.inBuf, x)
    BY <2>4, <2>11, <2>12, DeliverKeeps
  <2>14. r <= s /\ FirstMissing(c3.inBuf, EndOf(q, k), s) /\ EndOf(q, k) <= r
         /\ k \in Nat /\ EndOf(q, k) \in Nat
    <3>1. r <= s /\ FirstMissing(c3.inBuf, EndOf(q, k), s) /\ EndOf(q, k) <= r
      BY <2>11 DEF Receiver
    <3>2. k \in Nat /\ EndOf(q, k) \in Nat
      BY <2>3, <2>4, ReceiverRoom
    <3> QED BY <3>1, <3>2
  <2>15. HasDelivered(dl \o msgs, q, k + n)
    <3> DEFINE S == Seq(Nat \union {INVALID})
    <3>1. msgs \in Seq(S)
      BY <2>1, <2>12, MessagesType
    <3>2. Len(msgs) = n /\ \A j \in 1 .. n : msgs[j] = q[k + j]
      BY <2>1, <2>13 DEF Handed
    <3>3. dl \in Seq(S)
      OBVIOUS
    <3> HIDE DEF S
    <3> QED BY <2>3, <2>13, <2>14, <3>1, <3>2, <3>3, DeliveredMore
  <2>16. InFlight(Tail(data), q, u, s, c4.inBuf)
    <3>1. \A x \in Nat : Holds(c4.inBuf, x) => Holds(ct.inBuf, x) \/ x < e
      BY <2>1, <2>10, <2>13
    <3>2. \A x \in Nat : r <= x /\ x < s => Holds(ct.inBuf, x) \/ x < e
      <4> SUFFICES ASSUME NEW x \in Nat, r <= x, x < s
                   PROVE  Holds(ct.inBuf, x) \/ x < e
        OBVIOUS
      <4>1. EndOf(q, k) <= x
        BY <2>4, <2>14
      <4>2. Holds(c3.inBuf, x)
        BY <2>14, <4>1 DEF FirstMissing
      <4> QED BY <2>10, <4>2
    <3>3. data[1].payload # <<>> /\ e = Behind(data[1])
      BY <1>10, <2>2, <2>5
    <3> QED BY <2>3, <2>4, <2>7, <2>14, <3>1, <3>2, <3>3, InFlightArrived
  <2>17. Acks(acks, ys, u, s)
    BY <2>3, <2>4, <2>14, AcksLater
  <2>18. u <= s
    BY <2>4, <2>14
  <2>19. Receiver(c4, q, k + n, s, s, h)
    BY <2>1, <2>13
  <2>20. Stream(q, dl \o msgs, cs, c4, Tail(data), acks, st, k + n, s, ys)
    BY <2>3, <2>15, <2>16, <2>17, <2>18, <2>19 DEF Stream, h, u
  <2> QED BY <2>1, <2>10, <2>13, <2>20 DEF InStep, NothingFails
<1> QED BY <1>4, <1>5

-----------------------------------------------------------------------------
(***************************************************************************)
(* Part II.  The steps of a node.                                          *)
(***************************************************************************)

Bytes == Nat \union {INVALID}

\* The inductive invariant.
IInv == TypeOK /\ WindowBounds

LEMMA ConnectionsHealthy ==
    ASSUME IInv, NEW n \in Node
    PROVE  Healthy(con[n])
BY DEF IInv, TypeOK, WindowBounds, Healthy, WindowOK

\* An action that changes one connection.
LEMMA ConnectionChanged ==
    ASSUME IInv, NEW n \in Node, NEW c, Healthy(c), con' = [con EXCEPT ![n] = c]
    PROVE  con' \in [Node -> ConnectionRecord] /\ WindowBounds'
<1>1. con \in [Node -> ConnectionRecord] /\ c \in ConnectionRecord
  BY DEF IInv, TypeOK, Healthy
<1>2. con' \in [Node -> ConnectionRecord]
  BY <1>1
<1>3. \A m \in Node : con'[m] = IF m = n THEN c ELSE con[m]
  BY <1>1
<1>4. \A m \in Node : WindowOK(con'[m])
  BY <1>3, ConnectionsHealthy DEF Healthy
<1> QED BY <1>2, <1>4 DEF WindowBounds, WindowOK

LEMMA PeerIsNode == \A n \in Node : Peer(n) \in Node
BY DEF Peer, Node

\* What the queue lets through are segments.
LEMMA EnqueuedType ==
    ASSUME TypeOK, NEW n \in Node, NEW segs \in Seq(Segment)
    PROVE  Enqueued(n, segs) \in Seq(Segment)
<1> DEFINE queue == channel[n] \o segs
<1>1. queue \in Seq(Segment)
  BY ConcatProperties DEF TypeOK
<1>2. Len(queue) \in Nat /\ QueueLimit \in Nat
  BY <1>1, LenProperties, TransportAssumption
<1> HIDE DEF queue
<1>3. AtMost(Len(queue), QueueLimit) \in Int /\ AtMost(Len(queue), QueueLimit) <= Len(queue)
  <2>1. Len(queue) \in Int /\ QueueLimit \in Int
    BY <1>2
  <2> QED BY <2>1, AtMostType, Zenon
<1>4. SubSeq(queue, 1, AtMost(Len(queue), QueueLimit)) \in Seq(Segment)
  BY <1>1, <1>3, SubSeqType
<1> QED BY <1>4 DEF Enqueued, queue

\* The next message of an application is one.
LEMMA NextMessageType ==
    ASSUME TypeOK, NEW n \in Node, NEW size \in MessageSizes[n]
    PROVE  NextMessage(n, size) \in Message
<1>1. size \in Nat /\ size >= 1
  BY TransportAssumption
<1>2. StreamEnd(n) \in Nat
  <2>1. sent[n] \in Seq(Message)
    BY DEF TypeOK, Message
  <2>2. CASE sent[n] = <<>>
    BY <2>2 DEF StreamEnd
  <2>3. CASE sent[n] # <<>>
    <3> DEFINE last == sent[n][Len(sent[n])]
    <3>1. last \in Message
      <4>1. Len(sent[n]) \in 1 .. Len(sent[n])
        BY <2>1, <2>3, EmptySeq, LenProperties
      <4> QED BY <2>1, <4>1, ElementOfSeq
    <3> HIDE DEF last
    <3>2. last \in Seq(Nat) /\ Len(last) \in 1 .. Len(last)
      BY <3>1, EmptySeq, LenProperties DEF Message
    <3>3. last[Len(last)] \in Nat
      BY <3>2, ElementOfSeq
    <3>4. StreamEnd(n) = last[Len(last)] + 1
      BY <2>3 DEF StreamEnd, last
    <3> QED BY <3>3, <3>4
  <2> QED BY <2>2, <2>3
<1>3. NextMessage(n, size) \in [1 .. size -> Nat]
  BY <1>1, <1>2 DEF NextMessage
<1> DEFINE msg == NextMessage(n, size)
<1> HIDE DEF msg
<1>4. msg \in [1 .. size -> Nat]
  BY <1>3 DEF msg
<1>5. msg \in Seq(Nat) /\ Len(msg) = size
  BY <1>1, <1>4, FunctionIsSeq
<1>6. msg # <<>>
  BY <1>1, <1>5, EmptySeq
<1> QED BY <1>5, <1>6 DEF msg, Message

-----------------------------------------------------------------------------

LEMMA InitIInv == Init => IInv
<1> SUFFICES ASSUME Init PROVE IInv
  OBVIOUS
<1>1. Healthy(create_connection)
  BY create_connectionHealthy
<1>2. TypeOK
  BY <1>1, EmptySeq DEF Init, TypeOK, Healthy
<1>3. WindowBounds
  BY <1>1 DEF Init, WindowBounds, Healthy, WindowOK
<1> QED BY <1>2, <1>3 DEF IInv

LEMMA transport_transmitStep ==
    ASSUME IInv, NEW n \in Node, transport_transmit(n)
    PROVE  IInv'
<1>1. TypeOK
  BY DEF IInv
<1>2. PICK size \in MessageSizes[n], share \in WindowShares :
        LET msg == NextMessage(n, size)
            c   == Enqueue(update_window_limit(con[n], share), msg)
        IN  /\ con' = [con EXCEPT ![n] = transmit_segments(c)]
            /\ app' = [app EXCEPT ![n] = ~ Saturated(c)]
            /\ sent' = [sent EXCEPT ![n] = Append(@, msg)]
  BY DEF transport_transmit
<1> DEFINE msg == NextMessage(n, size)
           c   == Enqueue(update_window_limit(con[n], share), msg)
<1>3. msg \in Message /\ msg \in Seq(Nat)
  BY <1>1, NextMessageType DEF Message
<1> HIDE DEF msg
<1>4. Healthy(c)
  BY <1>3, ConnectionsHealthy, update_window_limitHealthy, EnqueueHealthy,
     TransportAssumption
<1>5. Healthy(transmit_segments(c))
  BY <1>4, transmit_segmentsHealthy
<1>6. con' = [con EXCEPT ![n] = transmit_segments(c)]
  BY <1>2 DEF msg
<1> HIDE DEF c
<1>7. con' \in [Node -> ConnectionRecord] /\ WindowBounds'
  BY <1>5, <1>6, ConnectionChanged
<1>8. app' \in [Node -> BOOLEAN]
  BY <1>1, <1>2 DEF TypeOK, Saturated
<1>9. sent' \in [Node -> Seq(Message)]
  <2>1. sent' = [sent EXCEPT ![n] = Append(sent[n], msg)]
    BY <1>2 DEF msg
  <2>2. sent \in [Node -> Seq(Message)]
    BY <1>1 DEF TypeOK, Message
  <2> QED BY <1>3, <2>1, <2>2, AppendProperties
<1>10. UNCHANGED <<channel, delivered, losses, updates>>
  BY DEF transport_transmit
<1> QED
  BY <1>1, <1>7, <1>8, <1>9, <1>10 DEF IInv, TypeOK, Message

LEMMA TimeoutStep ==
    ASSUME IInv, NEW n \in Node, NEW o \in Offsets, Timeout(n, o)
    PROVE  IInv'
<1>1. TypeOK
  BY DEF IInv
<1>2. PICK i \in DOMAIN con[n].outSegments, c \in {stop_timer(con[n], o)} :
        /\ con' = [con EXCEPT ![n] = transmit_segment(c, i)]
        /\ channel' = [channel EXCEPT
                         ![Peer(n)] = Enqueued(Peer(n), Transmitted(c, i))]
  BY DEF Timeout
<1>3. Healthy(c) /\ i \in DOMAIN c.outSegments
  BY <1>2, ConnectionsHealthy, stop_timerHealthy
<1>4. con' \in [Node -> ConnectionRecord] /\ WindowBounds'
  BY <1>2, <1>3, transmit_segmentHealthy, ConnectionChanged
<1>5. channel' \in [Node -> Seq(Segment)]
  <2>1. Enqueued(Peer(n), Transmitted(c, i)) \in Seq(Segment)
    BY <1>1, <1>3, TransmittedType, EnqueuedType, PeerIsNode
  <2> QED BY <1>1, <1>2, <2>1, PeerIsNode DEF TypeOK
<1>6. UNCHANGED <<app, sent, delivered, losses, updates>>
  BY DEF Timeout
<1> QED BY <1>1, <1>4, <1>5, <1>6 DEF IInv, TypeOK

\* What a received segment does to the state, in terms of the connection after
\* each step of the handler.
Effect(n, ackDue, seg, c1, c2, c3, c4, path, c5) ==
    LET fast == FastRetransmitted(c1, seg)
        ack  == IF ackDue /\ fast = <<>>
                      /\ NotPiggybacked(RemoveAcknowledged(c4, seg.ackOffset),
                                        c5, seg)
                THEN <<AckSegment(c5)>> ELSE <<>>
        msgs == IF IsNew(c2, seg) THEN Messages(c3) ELSE <<>>
    IN  /\ con' = [con EXCEPT ![n] = c5]
        /\ app' = [app EXCEPT ![n] = @ \/ Unsaturated(c4, seg.ackOffset, path)]
        /\ delivered' = [delivered EXCEPT ![n] = @ \o msgs]
        /\ channel' = [channel EXCEPT
                         ![n] = Tail(@),
                         ![Peer(n)] = Enqueued(Peer(n), fast \o ack)]

LEMMA ReceiveEffect ==
    ASSUME NEW n \in Node, NEW ackDue \in BOOLEAN, transport_receive(n, ackDue)
    PROVE  \E seg \in {Head(channel[n])} :
           \E c1 \in {CountDuplicateAck(con[n], seg)} :
           \E c2 \in {FastRecovery(c1, seg)} :
           \E c3 \in {IF IsNew(c2, seg) THEN Store(c2, seg) ELSE c2} :
           \E c4 \in {IF IsNew(c2, seg) THEN Deliver(c3) ELSE c3} :
           \E path \in GrowthPaths(c4, GrowthSteps(c4, seg.ackOffset)) :
           \E c5 \in {ProcessAck(c4, seg.ackOffset, path)} :
              Effect(n, ackDue, seg, c1, c2, c3, c4, path, c5)
BY Zenon DEF transport_receive, Effect

LEMMA transport_receiveStep ==
    ASSUME IInv, NEW n \in Node, NEW ackDue \in BOOLEAN, transport_receive(n, ackDue)
    PROVE  IInv'
<1> SUFFICES
      ASSUME NEW seg \in {Head(channel[n])},
             NEW c1 \in {CountDuplicateAck(con[n], seg)},
             NEW c2 \in {FastRecovery(c1, seg)},
             NEW c3 \in {IF IsNew(c2, seg) THEN Store(c2, seg) ELSE c2},
             NEW c4 \in {IF IsNew(c2, seg) THEN Deliver(c3) ELSE c3},
             NEW path \in GrowthPaths(c4, GrowthSteps(c4, seg.ackOffset)),
             NEW c5 \in {ProcessAck(c4, seg.ackOffset, path)},
             Effect(n, ackDue, seg, c1, c2, c3, c4, path, c5)
      PROVE  IInv'
  BY ReceiveEffect, SMT
<1> DEFINE fast == FastRetransmitted(c1, seg)
           ack  == IF ackDue /\ fast = <<>>
                         /\ NotPiggybacked(RemoveAcknowledged(c4, seg.ackOffset),
                                           c5, seg)
                   THEN <<AckSegment(c5)>> ELSE <<>>
           msgs == IF IsNew(c2, seg) THEN Messages(c3) ELSE <<>>
<1>1. TypeOK
  BY DEF IInv
<1>2. channel[n] # <<>> /\ channel[n] \in Seq(Segment)
  BY <1>1 DEF transport_receive, TypeOK
<1>3. seg \in Segment
  BY <1>2, HeadTailProperties
<1>4. /\ con' = [con EXCEPT ![n] = c5]
      /\ app' = [app EXCEPT ![n] = @ \/ Unsaturated(c4, seg.ackOffset, path)]
      /\ delivered' = [delivered EXCEPT ![n] = @ \o msgs]
      /\ channel' = [channel EXCEPT
                       ![n] = Tail(@),
                       ![Peer(n)] = Enqueued(Peer(n), fast \o ack)]
  BY DEF Effect
<1>5. Healthy(c1)
  BY <1>3, ConnectionsHealthy, CountDuplicateAckHealthy
<1>6. Healthy(c2)
  BY <1>3, <1>5, FastRecoveryHealthy
<1>7. Healthy(c3)
  BY <1>3, <1>6, StoreHealthy
<1>8. Healthy(c4)
  BY <1>7, DeliverHealthy
<1>9. Healthy(c5)
  BY <1>8, ProcessAckHealthy
<1>10. con' \in [Node -> ConnectionRecord] /\ WindowBounds'
  BY <1>4, <1>9, ConnectionChanged
<1>11. app' \in [Node -> BOOLEAN]
  BY <1>1, <1>4 DEF TypeOK, Unsaturated
<1>12. delivered' \in [Node -> Seq(Seq(Bytes))]
  <2>1. msgs \in Seq(Seq(Bytes))
    BY <1>7, MessagesType, EmptySeq DEF Healthy, Bytes
  <2> HIDE DEF msgs
  <2>2. delivered \in [Node -> Seq(Seq(Bytes))]
    BY <1>1 DEF TypeOK, Bytes
  <2>3. delivered[n] \o msgs \in Seq(Seq(Bytes))
    BY <2>1, <2>2, ConcatProperties
  <2> QED BY <1>4, <2>2, <2>3
<1>13. channel' \in [Node -> Seq(Segment)]
  <2>1. fast \in Seq(Segment)
    BY <1>3, <1>5, FastRetransmittedType
  <2>2. ack \in Seq(Segment)
    <3>1. AckSegment(c5) \in Segment
      BY <1>9, AckSegmentType DEF Healthy
    <3>2. <<AckSegment(c5)>> \in Seq(Segment) /\ <<>> \in Seq(Segment)
      BY <3>1, EmptySeq
    <3> QED BY <3>2
  <2> HIDE DEF fast, ack
  <2>3. Enqueued(Peer(n), fast \o ack) \in Seq(Segment)
    BY <1>1, <2>1, <2>2, ConcatProperties, EnqueuedType, PeerIsNode
  <2>4. Tail(channel[n]) \in Seq(Segment)
    BY <1>2, HeadTailProperties
  <2>5. channel \in [Node -> Seq(Segment)]
    BY <1>1 DEF TypeOK
  <2> QED BY <1>4, <2>3, <2>4, <2>5
<1>14. UNCHANGED <<sent, losses, updates>>
  BY DEF transport_receive
<1> QED
  BY <1>1, <1>10, <1>11, <1>12, <1>13, <1>14 DEF IInv, TypeOK, Bytes

-----------------------------------------------------------------------------

LEMMA LoseStep ==
    ASSUME IInv, NEW n \in Node, Lose(n)
    PROVE  IInv'
<1>1. channel \in [Node -> Seq(Segment)] /\ channel[n] # <<>>
  BY DEF IInv, TypeOK, Lose
<1>2. channel' \in [Node -> Seq(Segment)]
  BY <1>1, HeadTailProperties DEF Lose
<1>3. losses' \in Nat
  BY DEF IInv, TypeOK, Lose
<1> QED
  BY <1>2, <1>3 DEF IInv, TypeOK, Lose, WindowBounds

LEMMA RoutingUpdateStep ==
    ASSUME IInv, NEW n \in Node, RoutingUpdate(n)
    PROVE  IInv'
<1>1. app' \in [Node -> BOOLEAN]
  BY DEF IInv, TypeOK, RoutingUpdate
<1>2. updates' \in Nat
  BY DEF IInv, TypeOK, RoutingUpdate
<1> QED
  BY <1>1, <1>2 DEF IInv, TypeOK, RoutingUpdate, WindowBounds

LEMMA NextIInv == IInv /\ [Next]_vars => IInv'
<1> SUFFICES ASSUME IInv, [Next]_vars PROVE IInv'
  OBVIOUS
<1>1. CASE UNCHANGED vars
  BY <1>1 DEF vars, IInv, TypeOK, WindowBounds
<1>2. CASE Next
  <2>1. PICK n \in Node :
          \/ transport_transmit(n)
          \/ \E o \in Offsets : Timeout(n, o)
          \/ \E ackDue \in BOOLEAN : transport_receive(n, ackDue)
          \/ Lose(n)
          \/ RoutingUpdate(n)
    BY <1>2 DEF Next
  <2> QED
    BY <2>1, transport_transmitStep, TimeoutStep, transport_receiveStep, LoseStep,
       RoutingUpdateStep
<1> QED BY <1>1, <1>2

-----------------------------------------------------------------------------
(***************************************************************************)
(* The timers.  What a handler does with a timer is right only because the *)
(* first segment always has one, and that depends on the offsets of the    *)
(* segments: the first one must lie in the window, whatever wraps around.  *)
(***************************************************************************)

Sending(c) == Counted(c) /\ FirstTimed(c) /\ Spaced(c)

SendingInv == \A n \in Node : Sending(con[n])

LEMMA SendingChanged ==
    ASSUME IInv, SendingInv, NEW n \in Node, NEW c, Sending(c),
           con' = [con EXCEPT ![n] = c]
    PROVE  SendingInv'
<1>1. con \in [Node -> ConnectionRecord]
  BY DEF IInv, TypeOK
<1>2. \A m \in Node : con'[m] = IF m = n THEN c ELSE con[m]
  BY <1>1
<1> QED BY <1>2 DEF SendingInv

LEMMA SameSending ==
    ASSUME NEW c \in ConnectionRecord, NEW d, SameSegments(c, d), Sending(c)
    PROVE  Sending(d)
BY SameCounted, SameSegmentsOffsets, SameSpaced DEF Sending

LEMMA transport_transmitSending ==
    ASSUME IInv, SendingInv, NEW n \in Node, transport_transmit(n)
    PROVE  SendingInv'
<1>1. TypeOK
  BY DEF IInv
<1>2. PICK size \in MessageSizes[n], share \in WindowShares :
        con' = [con EXCEPT ![n] =
                  transmit_segments(Enqueue(update_window_limit(con[n], share),
                                            NextMessage(n, size)))]
  BY DEF transport_transmit
<1> DEFINE msg == NextMessage(n, size)
           u   == update_window_limit(con[n], share)
           c   == Enqueue(u, msg)
<1>3. msg \in Seq(Nat) /\ msg # <<>>
  BY <1>1, NextMessageType DEF Message
<1> HIDE DEF msg
<1>4. Healthy(u) /\ u.windowLimit >= 1 /\ Sending(u)
  BY ConnectionsHealthy, update_window_limitHealthy, update_window_limitSame,
     SameSending, TransportAssumption DEF SendingInv, Healthy
<1> HIDE DEF u
<1>5. Healthy(c) /\ Counted(c) /\ Spaced(c)
  BY <1>3, <1>4, EnqueueHealthy, EnqueueCounted, EnqueueSpaced DEF Sending
<1> HIDE DEF c
<1>6. Sending(transmit_segments(c))
  BY <1>5, transmit_segmentsCounted, transmit_segmentsOffsets, SameSpaced
  DEF Sending, Healthy
<1>7. con' = [con EXCEPT ![n] = transmit_segments(c)]
  BY <1>2 DEF c, u, msg
<1> QED BY <1>6, <1>7, SendingChanged

LEMMA TimeoutSending ==
    ASSUME IInv, SendingInv, NEW n \in Node, NEW o \in Offsets, Timeout(n, o)
    PROVE  SendingInv'
<1>1. PICK i \in DOMAIN con[n].outSegments :
        /\ con[n].outSegments[i].timerId = o
        /\ con' = [con EXCEPT ![n] = transmit_segment(stop_timer(con[n], o), i)]
  BY DEF Timeout
<1>2. Healthy(con[n]) /\ Sending(con[n])
  BY ConnectionsHealthy DEF SendingInv
<1>3. Sending(transmit_segment(stop_timer(con[n], o), i))
  BY <1>1, <1>2, RetransmitCounted, RetransmitFirstTimed DEF Sending
<1> QED BY <1>1, <1>3, SendingChanged

LEMMA transport_receiveSending ==
    ASSUME IInv, SendingInv, NEW n \in Node, NEW ackDue \in BOOLEAN,
           transport_receive(n, ackDue)
    PROVE  SendingInv'
<1> SUFFICES
      ASSUME NEW seg \in {Head(channel[n])},
             NEW c1 \in {CountDuplicateAck(con[n], seg)},
             NEW c2 \in {FastRecovery(c1, seg)},
             NEW c3 \in {IF IsNew(c2, seg) THEN Store(c2, seg) ELSE c2},
             NEW c4 \in {IF IsNew(c2, seg) THEN Deliver(c3) ELSE c3},
             NEW path \in GrowthPaths(c4, GrowthSteps(c4, seg.ackOffset)),
             NEW c5 \in {ProcessAck(c4, seg.ackOffset, path)},
             Effect(n, ackDue, seg, c1, c2, c3, c4, path, c5)
      PROVE  SendingInv'
  BY ReceiveEffect, SMT
<1>1. con' = [con EXCEPT ![n] = c5]
  BY DEF Effect
<1>2. seg \in Segment
  <2>1. channel[n] # <<>> /\ channel[n] \in Seq(Segment)
    BY DEF transport_receive, IInv, TypeOK
  <2> QED BY <2>1, HeadTailProperties
<1>4. Healthy(c1) /\ Sending(c1)
  <2>1. Healthy(con[n]) /\ Sending(con[n])
    BY ConnectionsHealthy DEF SendingInv
  <2> QED
    BY <1>2, <2>1, CountDuplicateAckHealthy, CountDuplicateAckSame, SameSending
    DEF Healthy
<1>5. Healthy(c2) /\ Counted(c2) /\ Spaced(c2)
  BY <1>2, <1>4, FastRecoveryHealthy, FastRecoveryCounted, FastRecoverySpaced
  DEF Sending
<1>6. Healthy(c3) /\ Counted(c3) /\ Spaced(c3)
  BY <1>2, <1>5, StoreHealthy, StoreSame, SameCounted, SameSegmentsOffsets, SameSpaced
  DEF Healthy
<1>7. Healthy(c4) /\ Counted(c4) /\ Spaced(c4)
  BY <1>6, DeliverHealthy, DeliverSame, SameCounted, SameSegmentsOffsets, SameSpaced
  DEF Healthy
<1>8. Sending(c5)
  BY <1>7, ProcessAckCounted, ProcessAckSpaced DEF Sending
<1> QED BY <1>1, <1>8, SendingChanged

LEMMA InitSending == Init => SendingInv
BY create_connectionCounted, create_connectionSpaced DEF Init, SendingInv, Sending

LEMMA NextSending == IInv /\ SendingInv /\ [Next]_vars => SendingInv'
<1> SUFFICES ASSUME IInv, SendingInv, [Next]_vars PROVE SendingInv'
  OBVIOUS
<1>1. CASE UNCHANGED con
  BY <1>1 DEF SendingInv
<1>2. CASE Next
  <2>1. PICK n \in Node :
          \/ transport_transmit(n)
          \/ \E o \in Offsets : Timeout(n, o)
          \/ \E ackDue \in BOOLEAN : transport_receive(n, ackDue)
          \/ Lose(n)
          \/ RoutingUpdate(n)
    BY <1>2 DEF Next
  <2>2. CASE Lose(n) \/ RoutingUpdate(n)
    BY <1>1, <2>2 DEF Lose, RoutingUpdate
  <2> QED
    BY <2>1, <2>2, transport_transmitSending, TimeoutSending, transport_receiveSending
<1> QED BY <1>1, <1>2 DEF vars

LEMMA SendingAlways == Spec => [](IInv /\ SendingInv)
BY InitIInv, NextIInv, InitSending, NextSending, PTL DEF Spec

-----------------------------------------------------------------------------

\* Every variable keeps its type; in particular no handler of transport.c makes a
\* connection, a segment or a buffer that is none.
THEOREM TypeCorrect == Spec => []TypeOK
<1>1. IInv => TypeOK
  BY DEF IInv
<1> QED BY <1>1, InitIInv, NextIInv, PTL DEF Spec

\* Congestion control never closes the window and never opens it beyond
\* MAX_WINDOW_SIZE, though windowLimit is not initialised: it is set before the
\* window can grow.
THEOREM WindowInBounds == Spec => []WindowBounds
<1>1. IInv => WindowBounds
  BY DEF IInv
<1> QED BY <1>1, InitIInv, NextIInv, PTL DEF Spec

\* A pending timer always belongs to a segment that exists and knows it, and no
\* segment has two: the handlers of TRANSPORT_TIMER and GEARING_TIMER never get a
\* freed OUT_SEGMENT.
THEOREM TimersBelongToSegments == Spec => []TimersMatch
<1>1. SendingInv => TimersMatch
  BY DEF SendingInv, Sending, Counted, TimedAt, TimersMatch, IsTimed
<1> QED BY <1>1, SendingAlways, PTL

\* numSentSegments never drifts from the number of segments in transmission,
\* though it is changed in transmit_segment, transmit_segments and the loop that
\* removes segments.
THEOREM SentSegmentsCounted == Spec => []SentCount
<1>1. SendingInv => SentCount
  BY DEF SendingInv, Sending, Counted, Timed, SentCount, IsTimed
<1> QED BY <1>1, SendingAlways, PTL

\* The first unacknowledged segment always has a timer: it lies in the window
\* whatever wraps around, so that transmit_segment never puts it off.
THEOREM FirstSegmentTimed == Spec => []FirstSegmentIsTimed
<1>1. SendingInv => FirstSegmentIsTimed
  BY DEF SendingInv, Sending, FirstTimed, FirstSegmentIsTimed, IsTimed
<1> QED BY <1>1, SendingAlways, PTL

-----------------------------------------------------------------------------
(***************************************************************************)
(* The streams.  Both directions between two nodes are streams in step:    *)
(* the sender, the datagrams on their way and the receiver agree on the    *)
(* positions that the offsets stand for.  A step of a node is one of both  *)
(* streams, of its own as the sender and of its peer's as the receiver.    *)
(***************************************************************************)

\* Every message leaves room for two windows in the receive buffer; in the code
\* the two windows take a quarter of it (transport.c, MAX_SEGMENT_OFFSET).
MessagesFit ==
    \A n \in Node : \A size \in MessageSizes[n] :
        size + 2 * MAX_WINDOW_OFFSET <= MAX_SEGMENT_OFFSET

StreamFrom(n) ==
    /\ StreamOK(sent[n])
    /\ InStep(sent[n], delivered[Peer(n)], con[n], con[Peer(n)],
              channel[Peer(n)], channel[n])

StreamInv ==
    /\ MessagesFit
    /\ \A n \in Node : con[n].failed = {} /\ StreamFrom(n)

LEMMA PeerOfPeer ==
    ASSUME NEW n \in Node
    PROVE  /\ Peer(n) \in Node /\ Peer(n) # n /\ Peer(Peer(n)) = n
           /\ \A m \in Node : m = n \/ m = Peer(n)
BY TransportAssumption DEF Peer, Node

\* Both streams of a node with the messages q, what was delivered to it, its
\* connection and the datagrams on their way to it, and the same of its peer.
Pair(q, dl, c, ch, q2, dl2, c2, ch2) ==
    /\ c.failed = {}
    /\ StreamOK(q)
    /\ InStep(q, dl2, c, c2, ch2, ch)
    /\ InStep(q2, dl, c2, c, ch, ch2)

LEMMA PairOf ==
    ASSUME StreamInv, NEW n \in Node
    PROVE  /\ Pair(sent[n], delivered[n], con[n], channel[n],
                   sent[Peer(n)], delivered[Peer(n)], con[Peer(n)], channel[Peer(n)])
           /\ StreamOK(sent[Peer(n)])
<1>1. /\ Peer(n) \in Node /\ Peer(Peer(n)) = n
  BY PeerOfPeer
<1>2. con[n].failed = {} /\ StreamFrom(n)
  BY DEF StreamInv
<1>3. StreamFrom(Peer(n))
  BY <1>1 DEF StreamInv
<1> QED BY <1>1, <1>2, <1>3 DEF StreamFrom, Pair

LEMMA StreamChanged ==
    ASSUME IInv, StreamInv, NEW n \in Node,
           con'[Peer(n)] = con[Peer(n)],
           sent'[Peer(n)] = sent[Peer(n)],
           delivered'[Peer(n)] = delivered[Peer(n)],
           Pair(sent'[n], delivered'[n], con'[n], channel'[n],
                sent[Peer(n)], delivered[Peer(n)], con[Peer(n)], channel'[Peer(n)])
    PROVE  StreamInv'
<1> DEFINE m == Peer(n)
<1>1. m \in Node /\ Peer(m) = n /\ \A j \in Node : j = n \/ j = m
  BY PeerOfPeer
<1>2. con'[m] = con[m] /\ sent'[m] = sent[m] /\ delivered'[m] = delivered[m] /\ m = Peer(n)
  OBVIOUS
<1> HIDE DEF m
<1>3. con'[n].failed = {} /\ StreamFrom(n)'
  BY <1>2 DEF Pair, StreamFrom
<1>4. con'[m].failed = {} /\ StreamFrom(m)'
  <2>1. con[m].failed = {} /\ StreamOK(sent[m])
    BY <1>1 DEF StreamInv, StreamFrom
  <2>2. InStep(sent'[m], delivered'[n], con'[m], con'[n], channel'[n], channel'[m])
    BY <1>2 DEF Pair
  <2> QED BY <1>1, <1>2, <2>1, <2>2 DEF StreamFrom
<1>5. MessagesFit'
  BY DEF StreamInv, MessagesFit
<1> QED BY <1>1, <1>3, <1>4, <1>5 DEF StreamInv

LEMMA StateTypes ==
    ASSUME IInv, NEW n \in Node
    PROVE  /\ con[n] \in ConnectionRecord
           /\ channel[n] \in Seq(Segment)
           /\ sent[n] \in Seq(Message)
           /\ delivered[n] \in Seq(Seq(Nat \union {INVALID}))
           /\ Len(channel[n]) \in Nat
<1>1. channel[n] \in Seq(Segment)
  BY DEF IInv, TypeOK
<1>2. Len(channel[n]) \in Nat
  BY <1>1, LenProperties
<1> QED BY <1>1, <1>2 DEF IInv, TypeOK, Message

-----------------------------------------------------------------------------

LEMMA LoseStream ==
    ASSUME IInv, StreamInv, NEW n \in Node, Lose(n)
    PROVE  StreamInv'
<1> DEFINE m == Peer(n)
<1>1. m \in Node /\ m # n
  BY PeerOfPeer
<1>2. channel[n] \in Seq(Segment) /\ channel[n] # <<>> /\ channel[m] \in Seq(Segment)
  BY <1>1, StateTypes DEF Lose
<1>3. channel \in [Node -> Seq(Segment)]
  BY DEF IInv, TypeOK
<1>4. channel'[n] = Tail(channel[n]) /\ channel'[m] = channel[m]
  BY <1>1, <1>3 DEF Lose
<1>5. UNCHANGED <<con, sent, delivered>>
  BY DEF Lose
<1> HIDE DEF m
<1>6. Pair(sent[n], delivered[n], con[n], channel[n],
           sent[m], delivered[m], con[m], channel[m])
  BY PairOf DEF m
<1>7. PartOf(Tail(channel[n]), channel[n], 1)
  BY <1>2, TailIsPart
<1>8. Pair(sent[n], delivered[n], con[n], Tail(channel[n]),
           sent[m], delivered[m], con[m], channel[m])
  <2>1. InStep(sent[n], delivered[m], con[n], con[m], channel[m], Tail(channel[n]))
    BY <1>6, <1>7, AcksLost DEF Pair
  <2>2. InStep(sent[m], delivered[n], con[m], con[n], Tail(channel[n]), channel[m])
    BY <1>6, <1>7, DataLost DEF Pair
  <2> QED BY <1>6, <2>1, <2>2 DEF Pair
<1>9. Pair(sent'[n], delivered'[n], con'[n], channel'[n],
           sent[m], delivered[m], con[m], channel'[m])
  BY <1>4, <1>5, <1>8
<1> QED BY <1>5, <1>9, StreamChanged DEF m

LEMMA RoutingUpdateStream ==
    ASSUME StreamInv, UNCHANGED <<con, channel, sent, delivered>>
    PROVE  StreamInv'
<1>1. MessagesFit'
  BY DEF StreamInv, MessagesFit
<1>2. ASSUME NEW n \in Node PROVE con'[n].failed = {} /\ StreamFrom(n)'
  BY DEF StreamInv, StreamFrom
<1> QED BY <1>1, <1>2 DEF StreamInv

\* A step that leaves the messages, what was received and the segments of the
\* sender as they are.
LEMMA PairMoves ==
    ASSUME NEW q, NEW dl, NEW c, NEW ch, NEW q2, NEW dl2, NEW c2, NEW ch2,
           Pair(q, dl, c, ch, q2, dl2, c2, ch2),
           NEW d, SameQueue(c, d), SameReceiving(c, d)
    PROVE  Pair(q, dl, d, ch, q2, dl2, c2, ch2)
<1>1. InStep(q, dl2, d, c2, ch2, ch)
  BY SenderMoves DEF Pair
<1>2. InStep(q2, dl, c2, d, ch, ch2)
  BY ReceiverMoves DEF Pair
<1> QED BY <1>1, <1>2 DEF Pair, SameReceiving

LEMMA PairSends ==
    ASSUME NEW q, NEW dl, NEW c \in ConnectionRecord, NEW ch \in Seq(Segment),
           NEW q2, NEW dl2, NEW c2 \in ConnectionRecord, NEW ch2 \in Seq(Segment),
           Pair(q, dl, c, ch, q2, dl2, c2, ch2), StreamOK(q2),
           NEW seg \in Segment, seg.ackOffset = AckOffset(c),
           seg.payload # <<>> =>
              \E i \in 1 .. Len(c.outSegments) :
                 i <= MAX_WINDOW_SIZE /\ SameContent(c.outSegments[i], seg)
    PROVE  Pair(q, dl, c, ch, q2, dl2, c2, Append(ch2, seg))
<1>1. InStep(q, dl2, c, c2, Append(ch2, seg), ch)
  <2>1. StreamOK(q) /\ InStep(q, dl2, c, c2, ch2, ch)
    BY DEF Pair
  <2> QED BY <2>1, DataSent
<1>2. InStep(q2, dl, c2, c, ch, Append(ch2, seg))
  <2>1. InStep(q2, dl, c2, c, ch, ch2)
    BY DEF Pair
  <2> QED BY <2>1, AckSent
<1> QED BY <1>1, <1>2 DEF Pair

\* The link queue drops what exceeds its limit.
Limited(queue) == SubSeq(queue, 1, AtMost(Len(queue), QueueLimit))

LEMMA LimitedIsPart ==
    ASSUME NEW queue \in Seq(Segment)
    PROVE  PartOf(Limited(queue), queue, 0)
<1> DEFINE L == Len(queue)
           m == AtMost(L, QueueLimit)
<1>1. L \in Nat /\ QueueLimit \in Nat
  BY LenProperties, TransportAssumption
<1> HIDE DEF L
<1>2. m \in Nat /\ m <= L
  BY <1>1 DEF AtMost
<1> HIDE DEF m
<1>3. SubSeq(queue, 1, m) \in Seq(Segment) /\ Len(SubSeq(queue, 1, m)) = m
      /\ \A i \in 1 .. m : SubSeq(queue, 1, m)[i] = queue[i]
  BY <1>1, <1>2 DEF L
<1>4. Limited(queue) = SubSeq(queue, 1, m)
  BY DEF Limited, m, L
<1>5. Len(Limited(queue)) = m /\ \A i \in 1 .. m : Limited(queue)[i] = queue[0 + i]
  <2>1. \A i \in 1 .. m : 0 + i = i
    BY <1>2
  <2> QED BY <1>3, <1>4, <2>1
<1>6. 0 + m <= Len(queue) /\ Len(queue) \in Nat
  BY <1>1, <1>2 DEF L
<1> QED BY <1>2, <1>5, <1>6 DEF PartOf

LEMMA PairLimited ==
    ASSUME NEW q, NEW dl, NEW c, NEW ch, NEW q2, NEW dl2, NEW c2, NEW queue \in Seq(Segment),
           Pair(q, dl, c, ch, q2, dl2, c2, queue)
    PROVE  Pair(q, dl, c, ch, q2, dl2, c2, Limited(queue))
<1>1. PartOf(Limited(queue), queue, 0)
  BY LimitedIsPart
<1>2. InStep(q, dl2, c, c2, Limited(queue), ch)
  BY <1>1, DataLost DEF Pair
<1>3. InStep(q2, dl, c2, c, ch, Limited(queue))
  BY <1>1, AcksLost DEF Pair
<1> QED BY <1>2, <1>3 DEF Pair

\* A handler puts the segments it has transmitted into the queue of the peer.
Sent(ch, segs) == segs = <<>> \/ \E seg \in Segment : segs = <<seg>>

\* transmit_segment of a segment of the largest window.
LEMMA PairTransmits ==
    ASSUME NEW q, NEW dl, NEW c, Healthy(c), NEW ch \in Seq(Segment),
           NEW q2, NEW dl2, NEW c2 \in ConnectionRecord, NEW ch2 \in Seq(Segment),
           Pair(q, dl, c, ch, q2, dl2, c2, ch2), StreamOK(q2),
           NEW i \in DOMAIN c.outSegments, i <= MAX_WINDOW_SIZE
    PROVE  /\ Pair(q, dl, c, ch, q2, dl2, c2, ch2 \o Transmitted(c, i))
           /\ Pair(q, dl, transmit_segment(c, i), ch, q2, dl2, c2, ch2 \o Transmitted(c, i))
           /\ ch2 \o Transmitted(c, i) \in Seq(Segment)
<1> DEFINE T == Transmitted(c, i)
<1>1. c \in ConnectionRecord
  BY DEF Healthy
<1>2. i \in 1 .. Len(c.outSegments)
  BY <1>1, Fields, LenProperties
<1>3. Pair(q, dl, c, ch, q2, dl2, c2, ch2 \o T)
  <2>1. CASE T = <<>>
    <3>1. ch2 \o <<>> = ch2
      BY ConcatProperties
    <3> HIDE DEF T
    <3> QED BY <2>1, <3>1
  <2>2. CASE \E seg \in Segment :
               /\ T = <<seg>>
               /\ SameContent(c.outSegments[i], seg)
               /\ seg.ackOffset = AckOffset(c)
    <3>1. PICK seg \in Segment :
               /\ T = <<seg>>
               /\ SameContent(c.outSegments[i], seg)
               /\ seg.ackOffset = AckOffset(c)
      BY <2>2
    <3> HIDE DEF T
    <3>2. Pair(q, dl, c, ch, q2, dl2, c2, Append(ch2, seg))
      BY <1>1, <1>2, <3>1, PairSends
    <3>3. ch2 \o <<seg>> = Append(ch2, seg)
      OBVIOUS
    <3> QED BY <3>1, <3>2, <3>3
  <2> QED BY <2>1, <2>2, TransmittedIs
<1>4. SameQueue(c, transmit_segment(c, i)) /\ SameReceiving(c, transmit_segment(c, i))
  BY transmit_segmentQueue
<1>5. ch2 \o T \in Seq(Segment)
  <2>1. T \in Seq(Segment)
    BY TransmittedType
  <2> QED BY <2>1, ConcatProperties
<1> HIDE DEF T
<1>6. Pair(q, dl, transmit_segment(c, i), ch, q2, dl2, c2, ch2 \o T)
  BY <1>3, <1>4, PairMoves
<1> QED BY <1>3, <1>5, <1>6 DEF T

\* Only a segment of the largest window has a timer.
LEMMA TimedInWindow ==
    ASSUME NEW q, NEW dl, NEW c, NEW ch, NEW q2, NEW dl2, NEW c2, NEW ch2,
           Pair(q, dl, c, ch, q2, dl2, c2, ch2),
           NEW i \in 1 .. Len(c.outSegments), c.outSegments[i].timerId # NO_TIMER
    PROVE  i <= MAX_WINDOW_SIZE
<1>1. PICK st : Sender(c, q, st)
  BY DEF Pair, InStep, Stream
<1> QED BY <1>1 DEF Sender

-----------------------------------------------------------------------------

LEMMA TimeoutStream ==
    ASSUME IInv, StreamInv, NEW n \in Node, NEW o \in Offsets, Timeout(n, o)
    PROVE  StreamInv'
<1> DEFINE m == Peer(n)
<1>1. PICK i \in DOMAIN con[n].outSegments, c \in {stop_timer(con[n], o)} :
        /\ con[n].outSegments[i].timerId = o
        /\ con' = [con EXCEPT ![n] = transmit_segment(c, i)]
        /\ channel' = [channel EXCEPT
                         ![Peer(n)] = Enqueued(Peer(n), Transmitted(c, i))]
  BY DEF Timeout
<1>2. Healthy(c) /\ i \in DOMAIN c.outSegments
  BY <1>1, ConnectionsHealthy, stop_timerHealthy
<1>3. m \in Node /\ m # n
  BY PeerOfPeer
<1>4. UNCHANGED <<sent, delivered>>
  BY DEF Timeout
<1>5. /\ con[n] \in ConnectionRecord /\ channel[n] \in Seq(Segment)
      /\ con[m] \in ConnectionRecord /\ channel[m] \in Seq(Segment)
      /\ con \in [Node -> ConnectionRecord] /\ channel \in [Node -> Seq(Segment)]
  BY <1>3, StateTypes DEF IInv, TypeOK
<1>6. /\ con'[n] = transmit_segment(c, i) /\ con'[m] = con[m]
      /\ channel'[n] = channel[n]
      /\ channel'[m] = Limited(channel[m] \o Transmitted(c, i))
  BY <1>1, <1>3, <1>5 DEF Enqueued, Limited
<1>7. Pair(sent[n], delivered[n], con[n], channel[n],
           sent[m], delivered[m], con[m], channel[m]) /\ StreamOK(sent[m])
  BY PairOf
<1> HIDE DEF m
<1>8. i <= MAX_WINDOW_SIZE
  <2>1. i \in 1 .. Len(con[n].outSegments)
    BY <1>1, <1>5, Fields, LenProperties
  <2>2. con[n].outSegments[i].timerId # NO_TIMER
    BY <1>1, Constants DEF NO_TIMER, Offsets
  <2> QED BY <1>7, <2>1, <2>2, TimedInWindow
<1>9. Pair(sent[n], delivered[n], c, channel[n],
           sent[m], delivered[m], con[m], channel[m])
  BY <1>1, <1>5, <1>7, stop_timerReceiving, PairMoves
<1> DEFINE queue == channel[m] \o Transmitted(c, i)
<1>10. queue \in Seq(Segment)
       /\ Pair(sent[n], delivered[n], transmit_segment(c, i), channel[n],
               sent[m], delivered[m], con[m], queue)
  BY <1>2, <1>5, <1>7, <1>8, <1>9, PairTransmits
<1>11. channel'[m] = Limited(queue)
  BY <1>6
<1> HIDE DEF queue
<1>12. Pair(sent[n], delivered[n], transmit_segment(c, i), channel[n],
            sent[m], delivered[m], con[m], Limited(queue))
  BY <1>10, PairLimited
<1>13. Pair(sent'[n], delivered'[n], con'[n], channel'[n],
            sent[m], delivered[m], con[m], channel'[m])
  BY <1>4, <1>6, <1>11, <1>12
<1> QED BY <1>4, <1>6, <1>13, StreamChanged DEF m

-----------------------------------------------------------------------------

LEMMA StreamEndIs ==
    ASSUME IInv, NEW n \in Node, NEW size \in Int
    PROVE  /\ StreamEnd(n) = EndOf(sent[n], Len(sent[n]))
           /\ EndOf(sent[n], Len(sent[n])) \in Nat
              => NextMessage(n, size) = Interval(EndOf(sent[n], Len(sent[n])),
                                                 EndOf(sent[n], Len(sent[n])) + size)
<1>1. StreamEnd(n) = EndOf(sent[n], Len(sent[n]))
  <2>1. sent[n] \in Seq(Message)
    BY StateTypes
  <2>2. Len(sent[n]) = 0 <=> sent[n] = <<>>
    BY <2>1, EmptySeq
  <2> QED BY <2>2 DEF StreamEnd, EndOf
<1> DEFINE E == EndOf(sent[n], Len(sent[n]))
<1>2. ASSUME E \in Nat PROVE NextMessage(n, size) = Interval(E, E + size)
  <2>1. StreamEnd(n) = E
    BY <1>1
  <2> HIDE DEF E
  <2>2. NextMessage(n, size) = [i \in 1 .. size |-> E + i - 1]
    BY <2>1 DEF NextMessage
  <2>3. (E + size) - E = size
    BY <1>2
  <2> QED BY <2>2, <2>3 DEF Interval
<1> QED BY <1>1, <1>2

LEMMA transport_transmitStream ==
    ASSUME IInv, StreamInv, NEW n \in Node, transport_transmit(n)
    PROVE  StreamInv'
<1> DEFINE m == Peer(n)
<1>1. PICK size \in MessageSizes[n], share \in WindowShares :
        LET msg == NextMessage(n, size)
            c   == Enqueue(update_window_limit(con[n], share), msg)
        IN  /\ con' = [con EXCEPT ![n] = transmit_segments(c)]
            /\ sent' = [sent EXCEPT ![n] = Append(@, msg)]
  BY DEF transport_transmit
<1> DEFINE msg == NextMessage(n, size)
           u   == update_window_limit(con[n], share)
           c   == Enqueue(u, msg)
<1>2. m \in Node /\ m # n
  BY PeerOfPeer
<1>3. size \in Nat /\ size >= 1 /\ share \in Int
  BY TransportAssumption
<1>4. size + 2 * MAX_WINDOW_OFFSET <= MAX_SEGMENT_OFFSET
  BY DEF StreamInv, MessagesFit
<1>5. Healthy(u) /\ u.windowLimit >= 1
  BY <1>3, ConnectionsHealthy, update_window_limitHealthy
<1>6. msg \in Seq(Nat)
  BY NextMessageType DEF Message, IInv
<1>7. Healthy(c)
  BY <1>5, <1>6, EnqueueHealthy
<1>8. /\ con[n] \in ConnectionRecord /\ con[m] \in ConnectionRecord
      /\ con \in [Node -> ConnectionRecord]
      /\ sent \in [Node -> Seq(Message)]
  BY <1>2, StateTypes DEF IInv, TypeOK, Message
<1>9. /\ con'[n] = transmit_segments(c) /\ con'[m] = con[m]
      /\ sent'[n] = Append(sent[n], msg) /\ sent'[m] = sent[m]
  <2>1. con' = [con EXCEPT ![n] = transmit_segments(c)]
    BY <1>1
  <2>2. sent' = [sent EXCEPT ![n] = Append(sent[n], msg)]
    BY <1>1
  <2> HIDE DEF c, msg
  <2> QED BY <1>2, <1>8, <2>1, <2>2
<1>10. UNCHANGED <<channel, delivered>>
  BY DEF transport_transmit
<1>11. Pair(sent[n], delivered[n], con[n], channel[n],
            sent[m], delivered[m], con[m], channel[m])
  BY PairOf
<1>12. SameQueue(con[n], u) /\ SameReceiving(con[n], u)
  BY <1>8, update_window_limitReceiving, update_window_limitSame, SameSegmentsQueue
<1>13. StreamOK(sent[n]) /\ EndOf(sent[n], Len(sent[n])) \in Nat
  <2>1. StreamOK(sent[n])
    BY <1>11 DEF Pair
  <2>2. Len(sent[n]) \in 0 .. Len(sent[n])
    <3>1. Len(sent[n]) \in Nat
      BY <1>8, LenProperties
    <3> QED BY <3>1
  <2> QED BY <2>1, <2>2 DEF StreamOK
<1>14. msg = Interval(EndOf(sent[n], Len(sent[n])), EndOf(sent[n], Len(sent[n])) + size)
  BY <1>3, <1>13, StreamEndIs
<1> HIDE DEF msg, u, m
<1>15. Pair(sent[n], delivered[n], u, channel[n],
            sent[m], delivered[m], con[m], channel[m])
  BY <1>11, <1>12, PairMoves
<1>16. /\ InStep(Append(sent[n], msg), delivered[m], c, con[m], channel[m], channel[n])
       /\ StreamOK(Append(sent[n], msg))
  <2>1. InStep(sent[n], delivered[m], u, con[m], channel[m], channel[n])
    BY <1>15 DEF Pair
  <2> QED BY <1>3, <1>4, <1>5, <1>8, <1>13, <1>14, <2>1, MessageAdded
<1>17. SameReceiving(u, c)
  BY <1>5, EnqueueReceiving DEF Healthy
<1>18. Pair(Append(sent[n], msg), delivered[n], c, channel[n],
            sent[m], delivered[m], con[m], channel[m])
  <2>1. InStep(sent[m], delivered[n], con[m], c, channel[n], channel[m])
    BY <1>15, <1>17, ReceiverMoves DEF Pair
  <2>2. c.failed = {}
    BY <1>15, <1>17 DEF Pair, SameReceiving
  <2> QED BY <1>16, <2>1, <2>2 DEF Pair
<1> HIDE DEF c
<1>19. Pair(Append(sent[n], msg), delivered[n], transmit_segments(c), channel[n],
            sent[m], delivered[m], con[m], channel[m])
  BY <1>7, <1>18, transmit_segmentsQueue, PairMoves
<1>20. Pair(sent'[n], delivered'[n], con'[n], channel'[n],
            sent[m], delivered[m], con[m], channel'[m])
  BY <1>9, <1>10, <1>19
<1> QED BY <1>9, <1>10, <1>20, StreamChanged DEF m

\* Congestion control, and the fast retransmit of the first segment.
LEMMA PairRecovers ==
    ASSUME NEW q, NEW dl, NEW c, Healthy(c), NEW ch \in Seq(Segment),
           NEW q2, NEW dl2, NEW c2 \in ConnectionRecord, NEW ch2 \in Seq(Segment),
           Pair(q, dl, c, ch, q2, dl2, c2, ch2), StreamOK(q2),
           NEW seg \in Segment
    PROVE  /\ Pair(q, dl, FastRecovery(c, seg), ch, q2, dl2, c2,
                   ch2 \o FastRetransmitted(c, seg))
           /\ ch2 \o FastRetransmitted(c, seg) \in Seq(Segment)
<1>1. CASE ~ FastRetransmits(c, seg)
  <2>1. ch2 \o FastRetransmitted(c, seg) = ch2
    <3>1. FastRetransmitted(c, seg) = <<>>
      BY <1>1 DEF FastRetransmitted
    <3> QED BY <3>1, ConcatProperties
  <2>2. Pair(q, dl, FastRecovery(c, seg), ch, q2, dl2, c2, ch2)
    BY FastRecoveryQueue, PairMoves
  <2> QED BY <2>1, <2>2
<1>2. CASE FastRetransmits(c, seg)
  <2> DEFINE s == StopFirstTimer(HalveWindow(c))
  <2>1. c.outSegments # <<>>
    BY <1>2 DEF FastRetransmits
  <2>2. Healthy(s) /\ 1 \in DOMAIN s.outSegments
    BY <2>1, FastStart
  <2>3. FastRecovery(c, seg) = transmit_segment(s, 1)
    BY <1>2, <2>1 DEF FastRetransmits, FastRecovery
  <2>4. FastRetransmitted(c, seg) = Transmitted(s, 1)
    BY <1>2 DEF FastRetransmitted
  <2>5. SameQueue(c, s) /\ SameReceiving(c, s)
    BY <2>1, FastStartQueue
  <2> HIDE DEF s
  <2>6. Pair(q, dl, s, ch, q2, dl2, c2, ch2)
    BY <2>5, PairMoves
  <2>7. 1 <= MAX_WINDOW_SIZE
    BY Constants
  <2>8. /\ Pair(q, dl, transmit_segment(s, 1), ch, q2, dl2, c2, ch2 \o Transmitted(s, 1))
        /\ ch2 \o Transmitted(s, 1) \in Seq(Segment)
    BY <2>2, <2>6, <2>7, PairTransmits
  <2> QED BY <2>3, <2>4, <2>8
<1> QED BY <1>1, <1>2

\* The segment that has arrived is stored, messages are handed over, and its
\* acknowledgment is processed.
LEMMA PairReceives ==
    ASSUME NEW q, NEW dl \in Seq(Seq(Nat \union {INVALID})), NEW c, Healthy(c),
           NEW ch \in Seq(Segment), ch # <<>>,
           NEW q2, NEW dl2, NEW c2 \in ConnectionRecord, NEW ch2 \in Seq(Segment),
           Pair(q, dl, c, ch, q2, dl2, c2, ch2), StreamOK(q2),
           NEW c3, NEW c4, NEW msgs, Taken(c, ch[1], c3, c4, msgs),
           NEW path \in GrowthPaths(c4, GrowthSteps(c4, ch[1].ackOffset))
    PROVE  /\ Pair(q, dl \o msgs, ProcessAck(c4, ch[1].ackOffset, path), Tail(ch),
                   q2, dl2, c2, ch2)
           /\ Healthy(ProcessAck(c4, ch[1].ackOffset, path))
<1> DEFINE seg == ch[1]
           c5  == ProcessAck(c4, seg.ackOffset, path)
<1>11. /\ c3 = IF IsNew(c, seg) THEN Store(c, seg) ELSE c
       /\ c4 = IF IsNew(c, seg) THEN Deliver(c3) ELSE c3
  BY DEF Taken
<1>1. seg \in Segment /\ Len(ch2) \in Nat
  BY TailIsPart, LenProperties
<1>2. StreamOK(q) /\ c.failed = {}
      /\ InStep(q, dl2, c, c2, ch2, ch) /\ InStep(q2, dl, c2, c, ch, ch2)
  BY DEF Pair
<1>3. Healthy(c3) /\ SameQueue(c, c3)
  <2>1. CASE IsNew(c, seg)
    BY <1>1, <1>11, <2>1, StoreHealthy, StoreSame, SameSegmentsQueue DEF Healthy
  <2>2. CASE ~ IsNew(c, seg)
    BY <1>11, <2>2 DEF SameQueue, SameContent
  <2> QED BY <2>1, <2>2
<1>4. Healthy(c4) /\ SameQueue(c3, c4)
  <2>1. CASE IsNew(c, seg)
    BY <1>3, <1>11, <2>1, DeliverHealthy, DeliverSame, SameSegmentsQueue DEF Healthy
  <2>2. CASE ~ IsNew(c, seg)
    BY <1>3, <1>11, <2>2 DEF SameQueue, SameContent
  <2> QED BY <2>1, <2>2
<1>5. InStep(q2, dl \o msgs, c2, c4, Tail(ch), ch2) /\ c4.failed = c.failed
  <2>1. c2 \in ConnectionRecord /\ StreamOK(q2) /\ Len(ch2) \in Nat /\ InStep(q2, dl, c2, c, ch, ch2)
    BY <1>1, <1>2
  <2>2. InStep(q2, dl \o msgs, c2, c4, Tail(ch), ch2)
    BY <2>1, DataArrived
  <2>3. NothingFails(c, c4)
    BY <2>1, DataArrived
  <2> QED BY <2>2, <2>3 DEF NothingFails
<1>6. InStep(q, dl2, c4, c2, ch2, ch)
  BY <1>2, <1>3, <1>4, SameQueueTwice, SenderMoves
<1>7. /\ InStep(q, dl2, c5, c2, ch2, Tail(ch))
      /\ SameReceiving(c4, c5)
  BY <1>1, <1>2, <1>4, <1>6, AckArrived
<1>8. InStep(q2, dl \o msgs, c2, c5, Tail(ch), ch2)
  BY <1>5, <1>7, ReceiverMoves
<1>9. c5.failed = {}
  BY <1>2, <1>5, <1>7 DEF SameReceiving
<1>10. Healthy(c5)
  BY <1>4, ProcessAckHealthy
<1> QED BY <1>2, <1>7, <1>8, <1>9, <1>10 DEF Pair

\* The acknowledgment without data, if the handler sends one.
LEMMA PairAcknowledges ==
    ASSUME NEW q, NEW dl, NEW c \in ConnectionRecord, NEW ch \in Seq(Segment),
           NEW q2, NEW dl2, NEW c2 \in ConnectionRecord, NEW ch2 \in Seq(Segment),
           Pair(q, dl, c, ch, q2, dl2, c2, ch2), StreamOK(q2)
    PROVE  /\ Pair(q, dl, c, ch, q2, dl2, c2, ch2 \o <<AckSegment(c)>>)
           /\ ch2 \o <<AckSegment(c)>> \in Seq(Segment)
<1> DEFINE a == AckSegment(c)
<1>1. a \in Segment
  BY AckSegmentType
<1>2. a.payload = <<>> /\ a.ackOffset = AckOffset(c)
  BY DEF AckSegment
<1> HIDE DEF a
<1>3. Pair(q, dl, c, ch, q2, dl2, c2, Append(ch2, a))
  BY <1>1, <1>2, PairSends
<1>4. ch2 \o <<a>> = Append(ch2, a) /\ Append(ch2, a) \in Seq(Segment)
  BY <1>1
<1> QED BY <1>3, <1>4 DEF a

LEMMA transport_receiveStream ==
    ASSUME IInv, StreamInv, NEW n \in Node, NEW ackDue \in BOOLEAN,
           transport_receive(n, ackDue)
    PROVE  StreamInv'
<1> SUFFICES
      ASSUME NEW seg \in {Head(channel[n])},
             NEW c1 \in {CountDuplicateAck(con[n], seg)},
             NEW c2 \in {FastRecovery(c1, seg)},
             NEW c3 \in {IF IsNew(c2, seg) THEN Store(c2, seg) ELSE c2},
             NEW c4 \in {IF IsNew(c2, seg) THEN Deliver(c3) ELSE c3},
             NEW path \in GrowthPaths(c4, GrowthSteps(c4, seg.ackOffset)),
             NEW c5 \in {ProcessAck(c4, seg.ackOffset, path)},
             Effect(n, ackDue, seg, c1, c2, c3, c4, path, c5)
      PROVE  StreamInv'
  BY ReceiveEffect, SMT
<1> DEFINE m    == Peer(n)
           fast == FastRetransmitted(c1, seg)
           ack  == IF ackDue /\ fast = <<>>
                         /\ NotPiggybacked(RemoveAcknowledged(c4, seg.ackOffset),
                                           c5, seg)
                   THEN <<AckSegment(c5)>> ELSE <<>>
           msgs == IF IsNew(c2, seg) THEN Messages(c3) ELSE <<>>
           queue == channel[m] \o (fast \o ack)
<1>1. m \in Node /\ m # n
  BY PeerOfPeer
<1>2. /\ con[n] \in ConnectionRecord /\ channel[n] \in Seq(Segment)
      /\ con[m] \in ConnectionRecord /\ channel[m] \in Seq(Segment)
      /\ con \in [Node -> ConnectionRecord] /\ channel \in [Node -> Seq(Segment)]
      /\ delivered[n] \in Seq(Seq(Nat \union {INVALID}))
      /\ delivered \in [Node -> Seq(Seq(Nat \union {INVALID}))]
  BY <1>1, StateTypes DEF IInv, TypeOK
<1>3. channel[n] # <<>> /\ UNCHANGED sent
  BY DEF transport_receive
<1>4. seg \in Segment /\ seg = channel[n][1]
  BY <1>2, <1>3, TailIsPart
<1>5. /\ con' = [con EXCEPT ![n] = c5]
      /\ delivered' = [delivered EXCEPT ![n] = @ \o msgs]
      /\ channel' = [channel EXCEPT
                       ![n] = Tail(@),
                       ![m] = Limited(queue)]
  BY DEF Effect, Enqueued, Limited
<1> HIDE DEF queue, msgs, m
<1>6. /\ con'[n] = c5 /\ con'[m] = con[m]
      /\ delivered'[n] = delivered[n] \o msgs /\ delivered'[m] = delivered[m]
      /\ channel'[n] = Tail(channel[n]) /\ channel'[m] = Limited(queue)
  BY <1>1, <1>2, <1>5
<1>7. Pair(sent[n], delivered[n], con[n], channel[n],
           sent[m], delivered[m], con[m], channel[m]) /\ StreamOK(sent[m])
  BY PairOf DEF m
<1>8. Healthy(con[n]) /\ Healthy(c1)
  BY <1>4, ConnectionsHealthy, CountDuplicateAckHealthy
<1>9. Pair(sent[n], delivered[n], c1, channel[n],
           sent[m], delivered[m], con[m], channel[m])
  <2>1. SameQueue(con[n], c1) /\ SameReceiving(con[n], c1)
    BY <1>2, CountDuplicateAckSame, CountDuplicateAckReceiving, SameSegmentsQueue
  <2> QED BY <1>7, <2>1, PairMoves
<1>21. c2 = FastRecovery(c1, seg) /\ con[m] \in ConnectionRecord
  BY <1>2
<1>10. /\ Pair(sent[n], delivered[n], c2, channel[n],
               sent[m], delivered[m], con[m], channel[m] \o fast)
       /\ channel[m] \o fast \in Seq(Segment)
       /\ Healthy(c2)
  <2>1. /\ Pair(sent[n], delivered[n], FastRecovery(c1, seg), channel[n],
                sent[m], delivered[m], con[m], channel[m] \o fast)
        /\ channel[m] \o fast \in Seq(Segment)
    BY <1>2, <1>4, <1>7, <1>8, <1>9, PairRecovers
  <2>2. Healthy(FastRecovery(c1, seg))
    BY <1>4, <1>8, FastRecoveryHealthy
  <2> QED BY <1>21, <2>1, <2>2
<1>11. fast \in Seq(Segment)
  BY <1>4, <1>8, FastRetransmittedType
<1> DEFINE sending == channel[m] \o fast
<1> HIDE DEF fast
<1>12. sending \in Seq(Segment)
       /\ Pair(sent[n], delivered[n], c2, channel[n],
               sent[m], delivered[m], con[m], sending)
  BY <1>10
<1> HIDE DEF sending
<1>13. /\ Pair(sent[n], delivered[n] \o msgs, c5, Tail(channel[n]),
               sent[m], delivered[m], con[m], sending)
       /\ Healthy(c5)
  <2>1. Taken(c2, channel[n][1], c3, c4, msgs)
    BY <1>4 DEF Taken, msgs
  <2>2. c5 = ProcessAck(c4, channel[n][1].ackOffset, path)
        /\ path \in GrowthPaths(c4, GrowthSteps(c4, channel[n][1].ackOffset))
    BY <1>4
  <2> QED BY ZenonT(60), <1>2, <1>3, <1>7, <1>10, <1>12, <2>1, <2>2, PairReceives
<1>14. /\ Pair(sent[n], delivered[n] \o msgs, c5, Tail(channel[n]),
               sent[m], delivered[m], con[m], queue)
       /\ queue \in Seq(Segment)
  <2>1. CASE ack = <<>>
    <3>1. fast \o <<>> = fast
      BY <1>11, ConcatProperties
    <3> HIDE DEF ack
    <3>5. fast \o ack = fast
      BY <2>1, <3>1
    <3>2. queue = sending
      BY <3>5 DEF queue, sending
    <3> QED BY <1>12, <1>13, <3>2
  <2>2. CASE ack # <<>>
    <3>1. ack = <<AckSegment(c5)>> /\ fast = <<>>
      BY <2>2
    <3>2. AckSegment(c5) \in Segment /\ c5 \in ConnectionRecord
      BY <1>13, AckSegmentType DEF Healthy
    <3>3. queue = sending \o <<AckSegment(c5)>>
      <4>1. sending = channel[m]
        BY <1>2, <3>1, ConcatProperties DEF sending
      <4>2. fast \o ack = <<AckSegment(c5)>>
        <5>1. <<AckSegment(c5)>> \in Seq(Segment)
          BY <3>2
        <5> HIDE DEF ack
        <5> QED BY <3>1, <5>1, ConcatProperties
      <4> HIDE DEF ack
      <4> QED BY <4>1, <4>2 DEF queue
    <3>4. Tail(channel[n]) \in Seq(Segment)
      BY <1>2, <1>3, TailIsPart
    <3> QED BY <1>2, <1>7, <1>12, <1>13, <3>2, <3>3, <3>4, PairAcknowledges
  <2> QED BY <2>1, <2>2
<1>15. Pair(sent[n], delivered[n] \o msgs, c5, Tail(channel[n]),
            sent[m], delivered[m], con[m], Limited(queue))
  BY <1>14, PairLimited
<1>16. Pair(sent'[n], delivered'[n], con'[n], channel'[n],
            sent[m], delivered[m], con[m], channel'[m])
  BY <1>3, <1>6, <1>15
<1> QED BY <1>3, <1>6, <1>16, StreamChanged DEF m

-----------------------------------------------------------------------------

EmptyStream == <<>>

LEMMA EmptyStreamOK == StreamOK(EmptyStream)
<1> DEFINE q == EmptyStream
<1>1. q \in Seq(Seq(Nat)) /\ Len(q) = 0
  BY DEF EmptyStream
<1>2. EndOf(q, 0) = 0
  BY DEF EndOf
<1> HIDE DEF q
<1>3. /\ \A j \in 0 .. Len(q) : j = 0
      /\ \A j \in 1 .. Len(q) : FALSE
  BY <1>1
<1>4. \A j \in 0 .. Len(q) : EndOf(q, j) = 0
  BY <1>2, <1>3
<1>5. StreamOK(q)
  BY <1>1, <1>3, <1>4 DEF StreamOK
<1> QED BY <1>5 DEF q

LEMMA InitialReceiver ==
    Receiver(create_connection, EmptyStream, 0, 0, 0, Upto(EmptyStream, 0))
<1> DEFINE q == EmptyStream
           c == create_connection
<1>1. Len(q) = 0 /\ EndOf(q, 0) = 0
  BY DEF EmptyStream, EndOf
<1>2. Upto(q, 0) = 0
  <2>1. MAX_WINDOW_OFFSET \in Nat
    BY Constants
  <2> HIDE DEF q
  <2> QED BY <1>1, <2>1 DEF Upto, AtMost
<1>3. /\ c.bufferStart = 0 /\ c.inBuf = buffer_new(MAX_SEGMENT_OFFSET)
      /\ c.lasts = dring_new(MAX_WINDOW_OFFSET)
  BY DEF create_connection
<1>4. \A o \in Offsets : c.inBuf.cell[o] = INVALID
  BY <1>3 DEF buffer_new, Offsets
<1>5. \A x \in Nat : ~ Holds(c.inBuf, x)
  <2> SUFFICES ASSUME NEW x \in Nat PROVE ~ Holds(c.inBuf, x)
    OBVIOUS
  <2>1. x % MAX_SEGMENT_OFFSET \in Offsets
    BY Constants DEF Offsets
  <2>2. c.inBuf.cell[x % MAX_SEGMENT_OFFSET] = INVALID
    BY <1>4, <2>1
  <2> QED BY <2>2 DEF Holds, INVALID
<1>6. 0 = 0 % MAX_SEGMENT_OFFSET
  BY Constants
<1> HIDE DEF c, q
<1>7. \A a, b : ~ Piece(q, a, b)
  BY <1>1 DEF Piece
<1>8. HoldsOnly(c.inBuf, 0, 0)
  BY <1>4 DEF HoldsOnly
<1>9. FirstMissing(c.inBuf, 0, 0)
  BY <1>5 DEF FirstMissing
<1>10. WholePieces(c.inBuf, q)
  BY <1>7 DEF WholePieces
<1>11. EndsInRing(c, q, 0, 0, 0)
  <2>1. EndsHeld(c, q) = {}
    <3>1. \A x : ~ IsEnd(q, x)
      BY <1>1 DEF IsEnd
    <3> QED BY <3>1 DEF EndsHeld
  <2> QED BY <1>3, <2>1, EmptyRing DEF EndsInRing
<1>12. Receiver(c, q, 0, 0, 0, 0)
  <2>1. 0 <= 0 + MAX_WINDOW_OFFSET
    BY Constants
  <2> QED BY <1>1, <1>3, <1>6, <1>8, <1>9, <1>10, <1>11, <2>1 DEF Receiver
<1> QED BY <1>2, <1>12 DEF c, q

LEMMA InitialSender == Sender(create_connection, EmptyStream, <<0>>)
<1> DEFINE q == EmptyStream
           c == create_connection
           st == <<0>>
<1>1. Len(q) = 0 /\ EndOf(q, 0) = 0
  BY DEF EmptyStream, EndOf
<1>2. c.outSegments = <<>> /\ c.nextOffset = 0
  BY DEF create_connection
<1>3. 0 = 0 % MAX_SEGMENT_OFFSET
  BY Constants
<1>4. st \in Seq(Nat) /\ Len(st) = 1 /\ st[1] = 0
  OBVIOUS
<1> HIDE DEF c, q, st
<1>5. Len(c.outSegments) = 0
  BY <1>2
<1>6. Sender(c, q, st)
  BY <1>1, <1>2, <1>3, <1>4, <1>5 DEF Sender
<1> QED BY <1>6 DEF c, q, st

LEMMA InitialStream ==
    InStep(EmptyStream, EmptyStream, create_connection, create_connection,
           EmptyStream, EmptyStream)
<1> DEFINE st == <<0>>
           ys == <<>>
           e  == EmptyStream
           c  == create_connection
<1>1. Sender(c, e, st) /\ st[1] = 0
  BY InitialSender
<1>2. Receiver(c, e, 0, 0, 0, Upto(e, 0))
  BY InitialReceiver
<1>3. Len(e) = 0 /\ ys \in Seq(Nat) /\ Len(ys) = 0
  BY DEF EmptyStream
<1> HIDE DEF c, e, st, ys
<1>4. HasDelivered(e, e, 0)
  BY <1>3 DEF HasDelivered
<1>5. InFlight(e, e, 0, 0, c.inBuf)
  BY <1>3 DEF InFlight
<1>6. Acks(e, ys, 0, 0)
  BY <1>3 DEF Acks
<1>7. Stream(e, e, c, c, e, e, st, 0, 0, ys)
  BY <1>1, <1>2, <1>4, <1>5, <1>6 DEF Stream
<1>8. InStep(e, e, c, c, e, e)
  BY <1>7 DEF InStep
<1> QED BY <1>8 DEF c, e

LEMMA InitStream == MessagesFit /\ Init => StreamInv
<1> SUFFICES ASSUME MessagesFit, Init, NEW n \in Node
             PROVE  con[n].failed = {} /\ StreamFrom(n)
  BY DEF StreamInv
<1>1. Peer(n) \in Node
  BY PeerOfPeer
<1>2. /\ con[n] = create_connection /\ con[Peer(n)] = create_connection
      /\ channel[n] = EmptyStream /\ channel[Peer(n)] = EmptyStream
      /\ sent[n] = EmptyStream /\ delivered[Peer(n)] = EmptyStream
  BY <1>1 DEF Init, EmptyStream
<1>3. create_connection.failed = {}
  BY DEF create_connection
<1> QED BY <1>2, <1>3, InitialStream, EmptyStreamOK DEF StreamFrom

LEMMA NextStream == IInv /\ StreamInv /\ [Next]_vars => StreamInv'
<1> SUFFICES ASSUME IInv, StreamInv, [Next]_vars PROVE StreamInv'
  OBVIOUS
<1>1. CASE UNCHANGED vars
  <2>1. UNCHANGED <<con, channel, sent, delivered>>
    BY <1>1 DEF vars
  <2> QED BY <2>1, RoutingUpdateStream
<1>2. CASE Next
  <2>1. PICK n \in Node :
          \/ transport_transmit(n)
          \/ \E o \in Offsets : Timeout(n, o)
          \/ \E ackDue \in BOOLEAN : transport_receive(n, ackDue)
          \/ Lose(n)
          \/ RoutingUpdate(n)
    BY <1>2 DEF Next
  <2>2. CASE RoutingUpdate(n)
    <3>1. UNCHANGED <<con, channel, sent, delivered>>
      BY <2>2 DEF RoutingUpdate
    <3> QED BY <3>1, RoutingUpdateStream
  <2> QED
    BY <2>1, <2>2, transport_transmitStream, TimeoutStream, transport_receiveStream,
       LoseStream
<1> QED BY <1>1, <1>2

LEMMA StreamAlways == MessagesFit /\ Spec => [](IInv /\ StreamInv)
BY InitIInv, NextIInv, InitStream, NextStream, PTL DEF Spec

-----------------------------------------------------------------------------

\* buffer_validate never finds valid data: what a node sends never reaches around
\* the receive buffer to data that has not been delivered.
THEOREM NeverOverwrites == MessagesFit /\ Spec => []NoOverwrite
<1>1. StreamInv => NoOverwrite
  BY DEF StreamInv, NoOverwrite
<1> QED BY <1>1, StreamAlways, PTL

\* buffer_invalidate never finds an invalid byte: the message that the next end in
\* the double ring closes is complete, and no two extents overlap.
THEOREM NeverReadsInvalid == MessagesFit /\ Spec => []NoInvalidRead
<1>1. StreamInv => NoInvalidRead
  BY DEF StreamInv, NoInvalidRead
<1> QED BY <1>1, StreamAlways, PTL

\* No acknowledgment lies before the first unacknowledged segment, though an
\* acknowledgment is an offset and offsets are used again and again.
THEOREM AcksNeverStale == MessagesFit /\ Spec => []NoStaleAck
<1>1. StreamInv => NoStaleAck
  BY DEF StreamInv, NoStaleAck
<1> QED BY <1>1, StreamAlways, PTL

\* The handler that receives the last missing byte of a message hands the message
\* over, with all complete ones behind it: none waits for the next datagram.
THEOREM HandsOverAtOnce == MessagesFit /\ Spec => []NothingHeldBack
<1>1. IInv /\ StreamInv => NothingHeldBack
  <2> SUFFICES ASSUME IInv, StreamInv, NEW n \in Node PROVE Complete(con[n]) = {}
    BY DEF NothingHeldBack
  <2> DEFINE m == Peer(n)
  <2>1. m \in Node /\ Peer(m) = n
    BY PeerOfPeer
  <2>2. StreamOK(sent[m])
        /\ InStep(sent[m], delivered[n], con[m], con[n], channel[n], channel[m])
    BY <2>1 DEF StreamInv, StreamFrom
  <2>3. con[n] \in ConnectionRecord /\ con[m] \in ConnectionRecord
    BY <2>1, StateTypes
  <2> HIDE DEF m
  <2>4. PICK st, k, r, ys :
           Stream(sent[m], delivered[n], con[m], con[n], channel[n], channel[m],
                  st, k, r, ys)
    BY <2>2 DEF InStep
  <2>5. r \in Nat /\ Upto(sent[m], st[1]) \in Nat
    BY <2>2, <2>3, <2>4, StreamPositions
  <2>6. Receiver(con[n], sent[m], k, r, r, Upto(sent[m], st[1]))
    BY <2>4 DEF Stream
  <2> QED BY <2>2, <2>3, <2>5, <2>6, NothingComplete
<1> QED BY <1>1, StreamAlways, PTL

-----------------------------------------------------------------------------

\* The bytes of an interval.
LEMMA InInterval ==
    ASSUME NEW a \in Nat, NEW b \in Nat, a <= b
    PROVE  /\ \A y \in Nat : a <= y /\ y < b => y \in Range(Interval(a, b))
           /\ \A y \in Range(Interval(a, b)) : y \in Nat /\ a <= y /\ y < b
<1> DEFINE I == Interval(a, b)
<1>1. DOMAIN I = 1 .. (b - a) /\ \A i \in 1 .. (b - a) : I[i] = a + i - 1
  BY DEF Interval
<1> HIDE DEF I
<1>2. ASSUME NEW y \in Nat, a <= y, y < b PROVE y \in Range(I)
  <2>1. PICK i \in 1 .. (b - a) : a + i - 1 = y
    <3>1. (y - a) + 1 \in 1 .. (b - a) /\ a + ((y - a) + 1) - 1 = y
      BY <1>2
    <3> QED BY <3>1
  <2> QED BY <1>1, <2>1 DEF Range
<1>3. ASSUME NEW y \in Range(I) PROVE y \in Nat /\ a <= y /\ y < b
  <2>1. PICK i \in 1 .. (b - a) : y = I[i]
    BY <1>1 DEF Range
  <2>2. y = a + i - 1
    BY <1>1, <2>1
  <2> QED BY <2>2
<1> QED BY <1>2, <1>3 DEF I

\* The segments of a sender hold every byte between its first position and its
\* last one.
LEMMA SegmentsHold ==
    ASSUME NEW c \in ConnectionRecord, NEW q, StreamOK(q), NEW st, Sender(c, q, st),
           NEW y \in Nat, st[1] <= y, y < EndOf(q, Len(q))
    PROVE  \E i \in 1 .. Len(c.outSegments) : y \in Range(c.outSegments[i].payload)
<1> DEFINE L == Len(c.outSegments)
           U == {i \in 1 .. (L + 1) : y < st[i]}
<1>1. /\ st \in Seq(Nat) /\ Len(st) = L + 1 /\ st[L + 1] = EndOf(q, Len(q))
      /\ \A i \in 1 .. L : SegmentOf(q, c.outSegments[i], st[i], st[i + 1])
  BY DEF Sender
<1>2. L \in Nat
  BY Fields, LenProperties
<1>3. \A i \in 1 .. (L + 1) : st[i] \in Nat
  BY <1>1, <1>2, ElementOfSeq
<1> HIDE DEF L
<1>4. L + 1 \in U
  BY <1>1, <1>2
<1>5. PICK j \in U : \A i \in U : j <= i
  <2>1. U \subseteq Nat /\ U # {}
    <3>1. \A i \in U : i \in 1 .. (L + 1)
      OBVIOUS
    <3> HIDE DEF U
    <3> QED BY <1>2, <1>4, <3>1
  <2> HIDE DEF U
  <2> QED BY <2>1, LeastElement
<1>6. j \in 1 .. (L + 1) /\ y < st[j]
  BY <1>5
<1>7. j # 1
  BY <1>3, <1>6
<1>8. j - 1 \in 1 .. L /\ (j - 1) + 1 = j /\ j - 1 \in 1 .. (L + 1) /\ j - 1 < j
  BY <1>2, <1>6, <1>7
<1>9. st[j - 1] <= y
  <2>1. j - 1 \notin U
    <3>1. ~ (j <= j - 1)
      BY <1>8, <1>6, <1>2
    <3> HIDE DEF U
    <3> QED BY <1>5, <3>1
  <2>2. ~ (y < st[j - 1])
    BY <1>8, <2>1
  <2> QED BY <1>3, <1>8, <2>2
<1> DEFINE i == j - 1
           a == st[i]
           b == st[i + 1]
<1>10. i \in 1 .. L /\ a \in Nat /\ b \in Nat /\ a <= y /\ y < b
  BY <1>3, <1>6, <1>8, <1>9
<1>11. c.outSegments[i].payload = Interval(a, b)
  <2>1. SegmentOf(q, c.outSegments[i], a, b)
    BY <1>1, <1>10
  <2> QED BY <2>1 DEF SegmentOf
<1> HIDE DEF i, a, b
<1>12. y \in Range(Interval(a, b))
  BY <1>10, InInterval
<1> QED BY <1>10, <1>11, <1>12 DEF L

\* Where a byte is that was sent.
LEMMA NoByteForgotten ==
    ASSUME NEW q, StreamOK(q), NEW dl, NEW cs \in ConnectionRecord, NEW ct \in ConnectionRecord,
           NEW data, NEW acks, InStep(q, dl, cs, ct, data, acks),
           NEW j \in 1 .. Len(q), NEW y, y \in Range(q[j])
    PROVE  \/ \E i \in 1 .. Len(dl) : y \in Range(dl[i])
           \/ y \in Range(ct.inBuf.cell)
           \/ \E i \in 1 .. Len(cs.outSegments) : y \in Range(cs.outSegments[i].payload)
<1>1. PICK st, k, r, ys : Stream(q, dl, cs, ct, data, acks, st, k, r, ys)
  BY DEF InStep
<1>2. /\ Sender(cs, q, st) /\ Receiver(ct, q, k, r, r, Upto(q, st[1]))
      /\ HasDelivered(dl, q, k)
  BY <1>1 DEF Stream
<1>3. /\ st[1] \in Nat /\ r \in Nat /\ st[1] <= r /\ Upto(q, st[1]) \in Nat
      /\ EndOf(q, Len(q)) \in Nat
  BY <1>1, StreamPositions
<1>4. k \in Nat /\ k \in 0 .. Len(q) /\ EndOf(q, k) \in Nat /\ Len(q) \in Nat
  BY <1>2, <1>3, ReceiverRoom
<1>5. CASE j <= k
  <2>1. j \in 1 .. k /\ j \in 1 .. Len(dl)
    BY <1>2, <1>4, <1>5 DEF HasDelivered
  <2>2. dl[j] = q[j]
    BY <1>2, <2>1 DEF HasDelivered
  <2> QED BY <2>1, <2>2
<1>6. CASE ~ (j <= k)
  <2> DEFINE a == EndOf(q, j - 1)
             b == EndOf(q, j)
             E == EndOf(q, Len(q))
  <2>1. /\ j - 1 \in 0 .. Len(q) /\ j \in 0 .. Len(q) /\ Len(q) \in 0 .. Len(q)
        /\ j - 1 < j /\ (k < j - 1 \/ k = j - 1) /\ (j < Len(q) \/ j = Len(q))
    BY <1>4, <1>6
  <2>2. a \in Nat /\ b \in Nat /\ a < b /\ b <= E /\ EndOf(q, k) <= a
    <3>1. a \in Nat /\ b \in Nat
      BY <2>1 DEF StreamOK
    <3>2. a < b
      BY <2>1 DEF StreamOK
    <3>5. \A i, h \in 0 .. Len(q) : i < h => EndOf(q, i) < EndOf(q, h)
      BY DEF StreamOK
    <3>3. b <= E
      <4>1. CASE j = Len(q)
        BY <1>3, <4>1
      <4>2. CASE j < Len(q)
        <5>1. EndOf(q, j) < EndOf(q, Len(q))
          BY <2>1, <3>5, <4>2
        <5> QED BY <1>3, <3>1, <5>1
      <4> QED BY <2>1, <4>1, <4>2
    <3>4. EndOf(q, k) <= a
      <4>1. CASE k = j - 1
        BY <1>4, <4>1
      <4>2. CASE k < j - 1
        <5>1. EndOf(q, k) < EndOf(q, j - 1)
          BY <1>4, <2>1, <3>5, <4>2
        <5> QED BY <1>4, <3>1, <5>1
      <4> QED BY <2>1, <4>1, <4>2
    <3> QED BY <3>1, <3>2, <3>3, <3>4
  <2>3. q[j] = Interval(a, b)
    BY DEF StreamOK
  <2> HIDE DEF a, b
  <2>4. y \in Nat /\ a <= y /\ y < b
    BY <2>2, <2>3, InInterval
  <2>5. EndOf(q, k) <= y /\ y < E
    BY SMTT(60), <1>3, <1>4, <2>2, <2>4
  <2>6. CASE y < r
    <3>1. Holds(ct.inBuf, y)
      BY <1>2, <2>4, <2>5, <2>6 DEF Receiver, FirstMissing
    <3>2. y % MAX_SEGMENT_OFFSET \in Offsets
      BY <2>4, Constants DEF Offsets
    <3>3. y \in Range(ct.inBuf.cell)
      BY <3>1, <3>2, BufferType, Fields DEF Holds, Range
    <3> QED BY <3>3
  <2>7. CASE ~ (y < r)
    <3>1. st[1] <= y
      BY <1>3, <2>4, <2>7
    <3> QED BY <1>2, <2>4, <2>5, <3>1, SegmentsHold
  <2> QED BY <2>6, <2>7
<1> QED BY <1>5, <1>6

\* The sender frees a segment only when all its bytes are in the receive buffer of
\* the peer, or were delivered: no byte that was sent can get lost for good.
THEOREM NoByteLost == MessagesFit /\ Spec => []NothingForgotten
<1>1. IInv /\ StreamInv => NothingForgotten
  <2> SUFFICES ASSUME IInv, StreamInv, NEW n \in Node,
                      NEW y \in BytesOf(Range(sent[n]))
               PROVE  y \in BytesOf(Range(delivered[Peer(n)]))
                              \union Range(con[Peer(n)].inBuf.cell)
                              \union UnackedBytes(n)
    BY DEF NothingForgotten
  <2> DEFINE m == Peer(n)
  <2>1. m \in Node
    BY PeerOfPeer
  <2>2. StreamOK(sent[n])
        /\ InStep(sent[n], delivered[m], con[n], con[m], channel[m], channel[n])
    BY DEF StreamInv, StreamFrom
  <2>3. con[n] \in ConnectionRecord /\ con[m] \in ConnectionRecord
        /\ sent[n] \in Seq(Message)
        /\ delivered[m] \in Seq(Seq(Nat \union {INVALID}))
    BY <2>1, StateTypes
  <2>4. /\ DOMAIN sent[n] = 1 .. Len(sent[n]) /\ DOMAIN delivered[m] = 1 .. Len(delivered[m])
        /\ DOMAIN con[n].outSegments = 1 .. Len(con[n].outSegments)
    BY <2>3, Fields, LenProperties
  <2>5. PICK j \in 1 .. Len(sent[n]) : y \in Range(sent[n][j])
    BY <2>4 DEF BytesOf, Range
  <2> HIDE DEF m
  <2>6. \/ \E i \in 1 .. Len(delivered[m]) : y \in Range(delivered[m][i])
        \/ y \in Range(con[m].inBuf.cell)
        \/ \E i \in 1 .. Len(con[n].outSegments) :
              y \in Range(con[n].outSegments[i].payload)
    BY <2>2, <2>3, <2>5, NoByteForgotten
  <2>7. CASE \E i \in 1 .. Len(delivered[m]) : y \in Range(delivered[m][i])
    <3>1. PICK i \in DOMAIN delivered[m] : y \in Range(delivered[m][i])
      BY <2>4, <2>7
    <3>2. delivered[m][i] \in Range(delivered[m])
      BY DEF Range
    <3>3. y \in BytesOf(Range(delivered[m]))
      BY <3>1, <3>2 DEF BytesOf
    <3> QED BY <3>3 DEF m
  <2>8. CASE \E i \in 1 .. Len(con[n].outSegments) :
                y \in Range(con[n].outSegments[i].payload)
    <3>1. PICK i \in DOMAIN con[n].outSegments :
             y \in Range(con[n].outSegments[i].payload)
      BY <2>4, <2>8
    <3>2. y \in UnackedBytes(n)
      BY <3>1 DEF UnackedBytes, BytesOf
    <3> QED BY <3>2
  <2> QED BY <2>6, <2>7, <2>8 DEF m
<1> QED BY <1>1, StreamAlways, PTL

-----------------------------------------------------------------------------
(***************************************************************************)
(* The refinement of ReliableStream.                                       *)
(***************************************************************************)

\* dl is a prefix of the messages q.
Begins(dl, q) ==
    Len(dl) \in 0 .. Len(q) /\ \A j \in 1 .. Len(dl) : dl[j] = q[j]

LEMMA InStepBegins ==
    ASSUME NEW q, StreamOK(q), NEW dl, NEW cs \in ConnectionRecord, NEW ct \in ConnectionRecord,
           NEW data, NEW acks, InStep(q, dl, cs, ct, data, acks)
    PROVE  Begins(dl, q)
<1>1. PICK st, k, r, ys : Stream(q, dl, cs, ct, data, acks, st, k, r, ys)
  BY DEF InStep
<1>2. Receiver(ct, q, k, r, r, Upto(q, st[1])) /\ HasDelivered(dl, q, k)
  BY <1>1 DEF Stream
<1>3. k \in 0 .. Len(q)
  BY <1>2 DEF Receiver
<1> QED BY <1>2, <1>3 DEF HasDelivered, Begins

IsFirst(s, t, n) == s = SubSeq(t, 1, n)

LEMMA BeginsIsFirst ==
    ASSUME NEW S, NEW s \in Seq(S), NEW T, NEW t \in Seq(T), Begins(s, t)
    PROVE  IsFirst(s, t, Len(s))
<1> DEFINE n == Len(s)
<1>1. n \in Nat /\ Len(t) \in Nat /\ n <= Len(t) /\ \A j \in 1 .. n : s[j] = t[j]
  <2>1. n \in Nat /\ Len(t) \in Nat
    BY LenProperties
  <2> QED BY <2>1 DEF Begins
<1>2. s = [j \in 1 .. n |-> s[j]]
  BY LenProperties
<1> HIDE DEF n
<1>3. SubSeq(t, 1, n) = [j \in 1 .. n |-> t[j]]
  <2>1. SubSeq(t, 1, n) \in Seq(T) /\ Len(SubSeq(t, 1, n)) = n
        /\ \A j \in 1 .. n : SubSeq(t, 1, n)[j] = t[j]
    BY <1>1
  <2>2. SubSeq(t, 1, n) = [j \in 1 .. n |-> SubSeq(t, 1, n)[j]]
    BY <2>1, LenProperties
  <2> QED BY <2>1, <2>2
<1>4. [j \in 1 .. n |-> s[j]] = [j \in 1 .. n |-> t[j]]
  BY <1>1
<1>5. s = SubSeq(t, 1, n)
  BY <1>2, <1>3, <1>4
<1> QED BY <1>5 DEF IsFirst, n

\* What has been delivered at n when a step leaves the messages sent as they are.
LEMMA DeliversMore ==
    ASSUME IInv, StreamInv, IInv', StreamInv', NEW n \in Node, UNCHANGED sent,
           NEW msgs \in Seq(Seq(Nat \union {INVALID})),
           delivered' = [delivered EXCEPT ![n] = @ \o msgs]
    PROVE  [Service!Next]_(Service!streams)
<1> DEFINE m == Peer(n)
<1>1. m \in Node /\ Peer(m) = n
  BY PeerOfPeer
<1>2. /\ delivered \in [Node -> Seq(Seq(Nat \union {INVALID}))]
      /\ sent[m] \in Seq(Message)
  BY <1>1, StateTypes DEF IInv, TypeOK
<1>3. delivered'[n] = delivered[n] \o msgs
  BY <1>2
<1>4. Len(delivered[n]) \in Nat /\ Len(msgs) \in Nat
      /\ delivered'[n] \in Seq(Seq(Nat \union {INVALID}))
      /\ Len(delivered'[n]) = Len(delivered[n]) + Len(msgs)
  BY <1>2, <1>3, ConcatProperties, LenProperties
<1>5. CASE msgs = <<>>
  <2>1. delivered[n] \o <<>> = delivered[n]
    BY <1>2, ConcatProperties
  <2>2. delivered' = delivered
    BY <1>2, <1>5, <2>1
  <2> QED BY <2>2 DEF Service!streams
<1>6. CASE msgs # <<>>
  <2>1. Len(msgs) >= 1
    BY <1>4, <1>6, EmptySeq
  <2>2. StreamOK(sent[m])'
        /\ InStep(sent'[m], delivered'[n], con'[m], con'[n], channel'[n], channel'[m])
    BY <1>1 DEF StreamInv, StreamFrom
  <2>3. con'[m] \in ConnectionRecord /\ con'[n] \in ConnectionRecord
    BY <1>1 DEF IInv, TypeOK
  <2> HIDE DEF m
  <2>4. Begins(delivered'[n], sent'[m])
    BY <2>2, <2>3, InStepBegins
  <2>5. Begins(delivered'[n], sent[m])
    BY <2>4
  <2>6. delivered'[n] = SubSeq(sent[m], 1, Len(delivered'[n]))
    <3>1. IsFirst(delivered'[n], sent[m], Len(delivered'[n]))
      BY <1>2, <1>4, <2>5, BeginsIsFirst
    <3> QED BY <3>1 DEF IsFirst
  <2>7. Len(msgs) \in 1 .. (Len(sent[m]) - Len(delivered[n]))
    <3>1. Len(sent[m]) \in Nat
      BY <1>2, LenProperties
    <3>2. Len(delivered'[n]) \in 0 .. Len(sent[m])
      BY <2>5 DEF Begins
    <3> QED BY <1>4, <2>1, <3>1, <3>2
  <2>8. delivered' = [delivered EXCEPT
                        ![n] = SubSeq(sent[m], 1, Len(delivered[n]) + Len(msgs))]
    BY <1>2, <1>3, <1>4, <2>6
  <2>9. Service!Deliver(n)
    BY <2>7, <2>8 DEF Service!Deliver, m
  <2> QED BY <2>9 DEF Service!Next
<1> QED BY <1>5, <1>6

LEMMA StepImplements ==
    IInv /\ StreamInv /\ [Next]_vars /\ IInv' /\ StreamInv'
        => [Service!Next]_(Service!streams)
<1> SUFFICES ASSUME IInv, StreamInv, [Next]_vars, IInv', StreamInv'
             PROVE  [Service!Next]_(Service!streams)
  OBVIOUS
<1>1. CASE UNCHANGED <<sent, delivered>>
  BY <1>1 DEF Service!streams
<1>2. ASSUME NEW n \in Node, transport_transmit(n) PROVE Service!Next
  <2>1. PICK size \in MessageSizes[n] :
          sent' = [sent EXCEPT ![n] = Append(@, NextMessage(n, size))]
    BY <1>2 DEF transport_transmit
  <2>2. NextMessage(n, size) \in Message
    BY NextMessageType DEF IInv
  <2>3. UNCHANGED delivered
    BY <1>2 DEF transport_transmit
  <2>4. NextMessage(n, size) \in Range(sent'[n])
    <3> DEFINE msg == NextMessage(n, size)
    <3>1. sent \in [Node -> Seq(Message)] /\ sent[n] \in Seq(Message) /\ msg \in Message
      BY <2>2 DEF IInv, TypeOK
    <3>2. sent'[n] = Append(sent[n], msg)
      BY <2>1, <3>1
    <3> HIDE DEF msg
    <3>3. /\ Len(sent[n]) + 1 \in DOMAIN Append(sent[n], msg)
          /\ Append(sent[n], msg)[Len(sent[n]) + 1] = msg
      <4>1. Len(sent[n]) \in Nat /\ DOMAIN Append(sent[n], msg) = 1 .. (Len(sent[n]) + 1)
        BY <3>1, AppendProperties, LenProperties
      <4> QED BY <3>1, <4>1, AppendProperties
    <3> QED BY <3>2, <3>3 DEF Range, msg
  <2>5. Service!Send(n)
    BY <2>1, <2>2, <2>3, <2>4 DEF Service!Send, Service!Range, Range
  <2> QED BY <2>5 DEF Service!Next
<1>3. ASSUME NEW n \in Node, NEW ackDue \in BOOLEAN, transport_receive(n, ackDue)
      PROVE  [Service!Next]_(Service!streams)
  <2> SUFFICES
        ASSUME NEW seg \in {Head(channel[n])},
               NEW c1 \in {CountDuplicateAck(con[n], seg)},
               NEW c2 \in {FastRecovery(c1, seg)},
               NEW c3 \in {IF IsNew(c2, seg) THEN Store(c2, seg) ELSE c2},
               NEW c4 \in {IF IsNew(c2, seg) THEN Deliver(c3) ELSE c3},
               NEW path \in GrowthPaths(c4, GrowthSteps(c4, seg.ackOffset)),
               NEW c5 \in {ProcessAck(c4, seg.ackOffset, path)},
               Effect(n, ackDue, seg, c1, c2, c3, c4, path, c5)
        PROVE  [Service!Next]_(Service!streams)
    BY <1>3, ReceiveEffect, SMT
  <2> DEFINE msgs == IF IsNew(c2, seg) THEN Messages(c3) ELSE <<>>
  <2>1. delivered' = [delivered EXCEPT ![n] = @ \o msgs] /\ UNCHANGED sent
    BY <1>3 DEF Effect, transport_receive
  <2>2. seg \in Segment
    <3>1. channel[n] # <<>> /\ channel[n] \in Seq(Segment)
      BY <1>3 DEF transport_receive, IInv, TypeOK
    <3> QED BY <3>1, HeadTailProperties
  <2>3. Healthy(c3)
    BY <2>2, ConnectionsHealthy, CountDuplicateAckHealthy, FastRecoveryHealthy,
       StoreHealthy
  <2>4. msgs \in Seq(Seq(Nat \union {INVALID}))
    BY <2>3, MessagesType, EmptySeq DEF Healthy
  <2> HIDE DEF msgs
  <2> QED BY <2>1, <2>4, DeliversMore
<1>4. CASE Next
  <2>1. PICK n \in Node :
          \/ transport_transmit(n)
          \/ \E o \in Offsets : Timeout(n, o)
          \/ \E ackDue \in BOOLEAN : transport_receive(n, ackDue)
          \/ Lose(n)
          \/ RoutingUpdate(n)
    BY <1>4 DEF Next
  <2>2. CASE (\E o \in Offsets : Timeout(n, o)) \/ Lose(n) \/ RoutingUpdate(n)
    BY <1>1, <2>2 DEF Timeout, Lose, RoutingUpdate
  <2> QED BY <1>2, <1>3, <2>1, <2>2
<1> QED BY <1>1, <1>4 DEF vars

\* The transport layer implements ReliableStream: whatever is lost, repeated or
\* wraps around, every node is delivered a prefix of the messages of its peer.
THEOREM StreamIsReliable == MessagesFit /\ Spec => StreamSpec
<1>1. Init => Service!Init
  BY DEF Init, Service!Init
<1> QED
  BY <1>1, StepImplements, StreamAlways, PTL DEF Spec, StreamSpec, Service!Spec

=============================================================================
