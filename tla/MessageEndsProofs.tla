------------------------- MODULE MessageEndsProofs -------------------------
(***************************************************************************)
(* Theorems about MessageEnds, for every number of offsets, window, length *)
(* of messages and of the stream.                                          *)
(*                                                                         *)
(* The lemmas of ConnectionProofs say what the double ring makes of new    *)
(* positions as long as all of them lie within a window and the offsets    *)
(* leave room for one more (Roomy).  That they do is due to two things:    *)
(* what lies behind the last end taken out is shorter than a message, and  *)
(* nothing is stored before all complete messages are taken out.           *)
(***************************************************************************)
EXTENDS MessageEnds, ConnectionProofs

\* A message leaves room for two windows of offsets, as MessagesFit of
\* TransportProofs.
MessageFits == MaxMessageSize + 2 * MAX_WINDOW_OFFSET <= MAX_SEGMENT_OFFSET

\* The positions known not to be an end.
Inner(from, upto, beyond, known) == (((from + 1) .. upto) \union beyond) \ known

\* No message is too long.
NoneTooLong(inner) == \A p \in inner : ~ (p .. (p + MaxMessageSize - 1)) \subseteq inner

\* The ring holds the ends, which lie within a window behind lo.
RingHolds(lo, hi) ==
    /\ Roomy(delivered, lo, hi)
    /\ lo <= complete
    /\ complete <= hi
    /\ hi <= complete + MAX_WINDOW_OFFSET
    /\ RingOf(ring, delivered, lo, hi, ends)

Positions ==
    /\ complete \in 0 .. MaxPosition
    /\ delivered \in Nat
    /\ delivered <= complete
    /\ ends \subseteq Nat
    /\ ahead \subseteq (complete + 1) .. (complete + MAX_WINDOW_OFFSET)
    /\ \A e \in ends : e <= complete \/ e \in ahead

EndsInv ==
    /\ Positions
    /\ NoneTooLong(Inner(delivered, complete, ahead, ends))
    /\ \E lo, hi \in Nat : RingHolds(lo, hi)

-----------------------------------------------------------------------------
(* The operations of the ring. *)

LEMMA EndsConstants ==
    /\ MaxMessageSize \in Nat /\ MaxMessageSize >= 1
    /\ MaxPosition \in Nat
BY MessageEndsAssumption

LEMMA PeekIsFirst ==
    ASSUME NEW d \in DoubleRing
    PROVE  dring_peek(d) = IF PopOrder(d) = <<>> THEN -1 ELSE PopOrder(d)[1]
<1>1. d.s \in Seq(Offsets) /\ d.l \in Seq(Offsets)
  BY DEF DoubleRing
<1>2. CASE d.s = <<>>
  <2>1. PopOrder(d) = d.l
    BY <1>1, <1>2, ConcatEmptySeq DEF PopOrder
  <2> QED BY <1>2, <2>1 DEF dring_peek, squeue_peek
<1>3. CASE d.s # <<>>
  <2>1. /\ Len(d.s) \in Nat /\ Len(d.s) # 0 /\ Len(d.l) \in Nat
        /\ Len(PopOrder(d)) = Len(d.s) + Len(d.l)
        /\ PopOrder(d)[1] = d.s[1]
    <3>1. Len(d.s) \in Nat /\ Len(d.s) # 0 /\ Len(d.l) \in Nat
      BY <1>1, <1>3, EmptySeq, LenProperties
    <3>2. Len(d.s \o d.l) = Len(d.s) + Len(d.l)
          /\ \A i \in 1 .. (Len(d.s) + Len(d.l)) :
                (d.s \o d.l)[i] = IF i <= Len(d.s) THEN d.s[i] ELSE d.l[i - Len(d.s)]
      BY <1>1, ConcatProperties
    <3>3. \A x, y \in Nat : x # 0 => 1 \in 1 .. (x + y) /\ 1 <= x
      OBVIOUS
    <3>4. 1 \in 1 .. (Len(d.s) + Len(d.l)) /\ 1 <= Len(d.s)
      BY <3>1, <3>3
    <3> QED BY <3>1, <3>2, <3>4 DEF PopOrder
  <2>2. PopOrder(d) # <<>>
    <3>1. \A x, y \in Nat : x # 0 => x + y # 0
      OBVIOUS
    <3>2. Len(PopOrder(d)) # 0
      BY <2>1, <3>1
    <3> QED BY <3>2, EmptySeq
  <2> QED BY <1>3, <2>1, <2>2 DEF dring_peek, squeue_peek
<1> QED BY <1>2, <1>3

LEMMA PopNone ==
    ASSUME NEW d \in DoubleRing
    PROVE  PopMany(d, 0) = d
<1>1. d.s \in Seq(Offsets) /\ Len(d.s) \in Nat
  BY LenProperties DEF DoubleRing
<1>2. SubSeq(d.s, 0 + 1, Len(d.s)) = d.s
  BY <1>1, SubSeqFull
<1>3. [d EXCEPT !.s = d.s] = d
  BY DEF DoubleRing
<1> QED BY <1>1, <1>2, <1>3 DEF PopMany

\* The tail of a suffix is the next one.
LEMMA TailOfSuffix ==
    ASSUME NEW q \in Seq(Offsets), NEW n \in Nat, n < Len(q)
    PROVE  /\ SubSeq(q, n + 1, Len(q)) # <<>>
           /\ Tail(SubSeq(q, n + 1, Len(q))) = SubSeq(q, (n + 1) + 1, Len(q))
<1> DEFINE L == Len(q)
           t == SubSeq(q, n + 1, L)
           u == SubSeq(q, (n + 1) + 1, L)
<1>1. L \in Nat /\ n \in 0 .. L /\ n + 1 \in 0 .. L
  BY LenProperties
<1>2. t \in Seq(Offsets) /\ Len(t) = L - n /\ \A i \in 1 .. (L - n) : t[i] = q[n + i]
  BY <1>1, SuffixProperties
<1>3. /\ u \in Seq(Offsets) /\ Len(u) = L - (n + 1)
      /\ \A i \in 1 .. (L - (n + 1)) : u[i] = q[(n + 1) + i]
  BY <1>1, SuffixProperties
<1> HIDE DEF t, u, L
<1>4. t # <<>>
  BY <1>1, <1>2, EmptySeq
<1>5. /\ Tail(t) \in Seq(Offsets) /\ Len(Tail(t)) = Len(t) - 1
      /\ \A i \in 1 .. (Len(t) - 1) : Tail(t)[i] = t[i + 1]
  BY <1>2, <1>4, HeadTailProperties
<1>6. Len(Tail(t)) = Len(u)
  BY <1>1, <1>2, <1>3, <1>5
<1>7. ASSUME NEW i \in 1 .. Len(Tail(t)) PROVE Tail(t)[i] = u[i]
  <2>1. /\ i \in 1 .. (Len(t) - 1) /\ i + 1 \in 1 .. (L - n)
        /\ i \in 1 .. (L - (n + 1)) /\ n + (i + 1) = (n + 1) + i
    BY <1>1, <1>2, <1>5
  <2> QED BY <1>2, <1>3, <1>5, <2>1
<1>8. Tail(t) = u
  BY <1>3, <1>5, <1>6, <1>7, SeqEqual
<1> QED BY <1>4, <1>8 DEF t, u, L

\* Taking out many is taking out one after the other.
LEMMA PopNext ==
    ASSUME NEW d \in DoubleRing, NEW n \in Nat, n < dring_nitems(d)
    PROVE  PopMany(d, n + 1) = dring_pop(PopMany(d, n))
<1>1. /\ d.s \in Seq(Offsets) /\ d.l \in Seq(Offsets)
      /\ Len(d.s) \in Nat /\ Len(d.l) \in Nat
      /\ n < Len(d.s) + Len(d.l)
  BY LenProperties DEF DoubleRing, dring_nitems
<1> DEFINE p == Len(d.s)
           e == PopMany(d, n)
<1>5. \A x, y \in Nat : x < y => x + 1 \in Nat /\ x + 1 <= y
  OBVIOUS
<1>2. CASE n < p
  <2>1. e = [d EXCEPT !.s = SubSeq(d.s, n + 1, p)] /\ n + 1 <= p
    BY <1>1, <1>2 DEF PopMany
  <2>2. e.s = SubSeq(d.s, n + 1, p)
    BY <2>1 DEF DoubleRing
  <2>3. e.s # <<>> /\ Tail(e.s) = SubSeq(d.s, (n + 1) + 1, p)
    BY <1>1, <1>2, <2>2, TailOfSuffix
  <2>4. dring_pop(e) = [e EXCEPT !.s = Tail(e.s)]
    BY <2>3 DEF dring_pop
  <2>5. PopMany(d, n + 1) = [d EXCEPT !.s = SubSeq(d.s, (n + 1) + 1, p)]
    BY <2>1 DEF PopMany
  <2> HIDE DEF e, p
  <2> QED BY <2>1, <2>3, <2>4, <2>5 DEF DoubleRing, e
<1>3. CASE n = p
  <2>1. e = [d EXCEPT !.s = SubSeq(d.s, n + 1, p)] /\ ~ (n + 1 <= p)
    BY <1>1, <1>3 DEF PopMany
  <2>2. SubSeq(d.s, n + 1, p) = <<>>
    BY <1>1, <1>3, SubSeqEmpty
  <2>3. e.s = <<>> /\ e.l = d.l
    BY <2>1, <2>2 DEF DoubleRing
  <2>4. 0 < Len(d.l) /\ SubSeq(d.l, 0 + 1, Len(d.l)) = d.l
    <3>1. \A x, y \in Nat : x < x + y => 0 < y
      OBVIOUS
    <3>2. 0 < Len(d.l)
      BY <1>1, <1>3, <3>1
    <3>3. SubSeq(d.l, 1, Len(d.l)) = d.l
      BY <1>1, SubSeqFull
    <3> QED BY <3>2, <3>3
  <2>5. d.l # <<>> /\ Tail(d.l) = SubSeq(d.l, (0 + 1) + 1, Len(d.l))
    BY <1>1, <2>4, TailOfSuffix
  <2>6. dring_pop(e) = [e EXCEPT !.s = Tail(d.l), !.l = <<>>, !.maxFirstRing = squeue_peek_tail(d.l)]
    BY <2>3, <2>5 DEF dring_pop
  <2>7. PopMany(d, n + 1) = [d EXCEPT !.s = Tail(d.l), !.l = <<>>, !.maxFirstRing = squeue_peek_tail(d.l)]
    <3>1. (n + 1) - p + 1 = (0 + 1) + 1
      BY <1>1, <1>3
    <3> QED BY <2>1, <2>5, <3>1 DEF PopMany
  <2> HIDE DEF e, p
  <2> QED BY <2>1, <2>6, <2>7 DEF DoubleRing, e
<1>4. CASE n > p
  <2> DEFINE k == n - p
  <2>1. e = [d EXCEPT !.s = SubSeq(d.l, k + 1, Len(d.l)), !.l = <<>>,
                      !.maxFirstRing = squeue_peek_tail(d.l)]
    BY <1>1, <1>4 DEF PopMany
  <2>2. e.s = SubSeq(d.l, k + 1, Len(d.l))
    BY <2>1 DEF DoubleRing
  <2>3. e.s # <<>> /\ Tail(e.s) = SubSeq(d.l, (k + 1) + 1, Len(d.l))
    <3>1. \A x, y, z \in Nat : z > x /\ z < x + y => z - x \in Nat /\ z - x < y
      OBVIOUS
    <3>4. k \in Nat /\ k < Len(d.l)
      BY <1>1, <1>4, <3>1
    <3> HIDE DEF k
    <3> QED BY <1>1, <2>2, <3>4, TailOfSuffix
  <2>4. dring_pop(e) = [e EXCEPT !.s = Tail(e.s)]
    BY <2>3 DEF dring_pop
  <2>5. PopMany(d, n + 1) = [d EXCEPT !.s = SubSeq(d.l, (k + 1) + 1, Len(d.l)), !.l = <<>>,
                                      !.maxFirstRing = squeue_peek_tail(d.l)]
    <3>1. ~ (n + 1 <= p) /\ (n + 1) - p + 1 = (k + 1) + 1
      BY <1>1, <1>4
    <3> QED BY <3>1 DEF PopMany
  <2> HIDE DEF e, p, k
  <2> QED BY ZenonT(60), <2>1, <2>3, <2>4, <2>5 DEF DoubleRing, e
<1> QED BY <1>1, <1>2, <1>3, <1>4

\* The first entries of an increasing sequence are the smallest.
LEMMA RankOf ==
    ASSUME NEW q \in Seq(Nat), Increasing(q), NEW S, Lists(q, S)
    PROVE  /\ Cardinality(S) = Len(q)
           /\ \A i \in 1 .. Len(q) : Cardinality({f \in S : f <= q[i]}) = i
<1>1. /\ Len(q) \in Nat /\ DOMAIN q = 1 .. Len(q)
      /\ \A i \in 1 .. Len(q) : q[i] \in Nat
  BY OffsetsOfType
<1>2. ASSUME NEW n \in 0 .. Len(q), NEW T, \A x : x \in T <=> \E i \in 1 .. n : x = q[i]
      PROVE  Cardinality(T) = n
  <2> DEFINE f == [i \in 1 .. n |-> q[i]]
  <2>1. \A i \in 1 .. n : i \in 1 .. Len(q)
    BY <1>1
  <2>2. f \in [1 .. n -> T]
    BY <1>2
  <2>3. \A i, j \in 1 .. n : f[i] = f[j] => i = j
    <3> SUFFICES ASSUME NEW i \in 1 .. n, NEW j \in 1 .. n, q[i] = q[j] PROVE i = j
      OBVIOUS
    <3>1. q[i] \in Nat /\ q[j] \in Nat /\ i \in Nat /\ j \in Nat
      BY <1>1, <2>1
    <3>2. (i < j => q[i] < q[j]) /\ (j < i => q[j] < q[i])
      BY <1>1, <2>1 DEF Increasing
    <3> QED BY <3>1, <3>2
  <2>4. \A x \in T : \E i \in 1 .. n : f[i] = x
    BY <1>2
  <2> HIDE DEF f
  <2>5. f \in Bijection(1 .. n, T)
    <3>1. IsInjective(f)
      BY <2>2, <2>3 DEF IsInjective
    <3> QED BY <2>2, <2>4, <3>1 DEF Bijection, Injection, Surjection
  <2>6. n \in Nat /\ ExistsBijection(1 .. n, T)
    BY <1>1, <2>5 DEF ExistsBijection
  <2> QED BY <2>6, FS_CountingElements
<1>3. Cardinality(S) = Len(q)
  <2>1. Len(q) \in 0 .. Len(q)
    BY <1>1
  <2> QED BY <1>2, <2>1 DEF Lists
<1>4. ASSUME NEW i \in 1 .. Len(q) PROVE Cardinality({f \in S : f <= q[i]}) = i
  <2>1. i \in 0 .. Len(q) /\ \A j \in 1 .. i : j \in 1 .. Len(q)
    BY <1>1
  <2>2. \A j \in 1 .. Len(q) : q[j] <= q[i] <=> j <= i
    <3> TAKE j \in 1 .. Len(q)
    <3>1. (j < i => q[j] < q[i]) /\ (i < j => q[i] < q[j])
      BY <1>1 DEF Increasing
    <3>2. i \in Nat /\ j \in Nat /\ q[i] \in Nat /\ q[j] \in Nat
      BY <1>1
    <3>3. i = j => q[i] = q[j]
      OBVIOUS
    <3>4. i < j \/ j < i \/ i = j
      BY <3>2
    <3> QED BY <3>1, <3>2, <3>3, <3>4
  <2>3. \A x : x \in {f \in S : f <= q[i]} <=> \E j \in 1 .. i : x = q[j]
    BY <1>1, <2>1, <2>2 DEF Lists
  <2> QED BY <1>2, <2>1, <2>3
<1> QED BY <1>3, <1>4

-----------------------------------------------------------------------------
(* What the invariant says of the ring. *)

\* The ends in the order in which they are taken out.
InOrder(lo, hi, q) ==
    /\ RingHolds(lo, hi)
    /\ RingOrdered(ring, lo, hi, ends, q)
    /\ ring \in DoubleRing

LEMMA OrderExists ==
    ASSUME EndsInv
    PROVE  \E lo, hi \in Nat : \E q \in Seq(Nat) : InOrder(lo, hi, q)
<1>1. PICK lo \in Nat, hi \in Nat : RingHolds(lo, hi)
  BY DEF EndsInv
<1>2. delivered \in Nat /\ Roomy(delivered, lo, hi) /\ RingOf(ring, delivered, lo, hi, ends)
  BY <1>1 DEF EndsInv, Positions, RingHolds
<1>3. PICK q : RingOrdered(ring, lo, hi, ends, q)
  BY <1>2, RingOfOrder
<1>4. ring \in DoubleRing
  BY <1>2 DEF RingOf, Ring
<1>5. q \in Seq(Nat)
  BY <1>3 DEF RingOrdered
<1> QED BY <1>1, <1>3, <1>4, <1>5 DEF InOrder

\* The loop goes on as long as the smallest end is complete.
LEMMA DrainingIs ==
    ASSUME EndsInv, NEW lo \in Nat, NEW hi \in Nat, NEW q \in Seq(Nat), InOrder(lo, hi, q)
    PROVE  /\ Draining <=> q # <<>> /\ q[1] <= complete
           /\ Draining <=> \E e \in ends : e <= complete
           /\ q # <<>> => 1 \in 1 .. Len(q) /\ Min(ends) = q[1] /\ q[1] \in ends
<1>1. /\ Increasing(q)
      /\ \A x : x \in ends <=> \E i \in 1 .. Len(q) : x = q[i]
      /\ PopOrder(ring) = OffsetsOf(q)
      /\ \A i \in 1 .. Len(q) : lo < q[i] /\ q[i] <= hi
      /\ ring \in DoubleRing
  BY DEF InOrder, RingOrdered, Pops
<1>2. /\ lo <= complete /\ complete <= hi /\ hi <= lo + MAX_WINDOW_OFFSET
      /\ hi <= complete + MAX_WINDOW_OFFSET
      /\ complete \in Nat /\ MAX_WINDOW_OFFSET \in Nat
  BY EndsConstants, Constants DEF InOrder, RingHolds, Roomy, EndsInv, Positions
<1>3. /\ DOMAIN q = 1 .. Len(q) /\ Len(q) \in Nat
      /\ \A i \in 1 .. Len(q) : q[i] \in Nat /\ OffsetsOf(q)[i] = q[i] % MAX_SEGMENT_OFFSET
      /\ OffsetsOf(q) = <<>> <=> q = <<>>
  BY OffsetsOfType
<1>4. CASE q = <<>>
  <2>1. dring_peek(ring) = -1
    BY <1>1, <1>3, <1>4, PeekIsFirst
  <2>2. Len(q) = 0
    BY <1>4, EmptySeq
  <2> QED BY <1>1, <1>4, <2>1, <2>2 DEF Draining
<1>5. CASE q # <<>>
  <2>1. 1 \in 1 .. Len(q)
    BY <1>3, <1>5, EmptySeq
  <2>2. \A i \in 1 .. Len(q) : q[1] <= q[i]
    BY SMTT(60), <1>1, <1>3, <2>1 DEF Increasing
  <2>3. dring_peek(ring) = q[1] % MAX_SEGMENT_OFFSET /\ q[1] \in Nat
    BY <1>1, <1>3, <1>5, <2>1, PeekIsFirst
  <2>4. q[1] % MAX_SEGMENT_OFFSET \in Offsets /\ complete % MAX_SEGMENT_OFFSET \in Offsets
    BY <1>2, <2>3, OffsetMod
  <2>5. dring_peek(ring) # -1
    BY <2>3, <2>4, OffsetsAreNumbers
  <2>6. acknowledged(dring_peek(ring), Offset(complete)) <=> q[1] <= complete
    <3>1. q[1] - complete <= MAX_WINDOW_OFFSET /\ complete - q[1] <= MAX_WINDOW_OFFSET
      BY <1>1, <1>2, <2>1, <2>3
    <3>2. \A o \in Offsets : o % MAX_SEGMENT_OFFSET = o /\ o \in Int
      BY Constants DEF Offsets
    <3>3. complete \in Int /\ q[1] \in Int
      BY <1>2, <2>3
    <3> DEFINE o == q[1] % MAX_SEGMENT_OFFSET
               a == complete % MAX_SEGMENT_OFFSET
    <3>4. o \in Int /\ a \in Int /\ o % MAX_SEGMENT_OFFSET = o /\ a % MAX_SEGMENT_OFFSET = a
      BY <2>4, <3>2
    <3> HIDE DEF o, a
    <3>5. acknowledged(o, a) <=> q[1] <= complete
      <4>1. o % MAX_SEGMENT_OFFSET = q[1] % MAX_SEGMENT_OFFSET
            /\ a % MAX_SEGMENT_OFFSET = complete % MAX_SEGMENT_OFFSET
        BY <3>4 DEF o, a
      <4> QED BY <3>1, <3>3, <3>4, <4>1, AcknowledgedIsOrder
    <3> QED BY <2>3, <3>5 DEF o, a, Offset
  <2>7. Draining <=> q[1] <= complete
    BY <2>5, <2>6 DEF Draining
  <2>8. q[1] \in ends /\ \A e \in ends : q[1] <= e
    BY <1>1, <2>1, <2>2
  <2>9. \A e \in ends : e \in Nat
    BY DEF EndsInv, Positions
  <2>10. (\E e \in ends : e <= complete) <=> q[1] <= complete
    BY <1>2, <2>3, <2>8, <2>9
  <2>11. Min(ends) = q[1]
    <3>1. \A x \in ends : (\A y \in ends : x <= y) => x = q[1]
      BY <2>3, <2>8, <2>9
    <3> QED BY <2>8, <3>1 DEF Min
  <2> QED BY <1>5, <2>1, <2>7, <2>8, <2>10, <2>11
<1> QED BY <1>4, <1>5

-----------------------------------------------------------------------------
(* Each action. *)

\* What is complete and not taken out is shorter than a message.
LEMMA Short ==
    ASSUME MessageFits, EndsInv, ~ Draining
    PROVE  /\ complete - delivered < MaxMessageSize
           /\ \A e \in ends : complete < e
           /\ RingOf(ring, delivered, complete, complete + MAX_WINDOW_OFFSET, ends)
           /\ Roomy(delivered, complete, complete + MAX_WINDOW_OFFSET)
<1>1. PICK lo \in Nat, hi \in Nat, q \in Seq(Nat) : InOrder(lo, hi, q)
  BY OrderExists
<1>2. \A e \in ends : ~ (e <= complete) /\ e \in Nat
  BY <1>1, DrainingIs DEF EndsInv, Positions
<1>3. /\ complete \in Nat /\ delivered \in Nat /\ delivered <= complete
      /\ MaxMessageSize \in Nat /\ MaxMessageSize >= 1 /\ MAX_WINDOW_OFFSET \in Nat
      /\ MAX_SEGMENT_OFFSET \in Nat
  BY EndsConstants, Constants DEF EndsInv, Positions
<1>4. complete - delivered < MaxMessageSize
  <2> SUFFICES ASSUME complete - delivered >= MaxMessageSize PROVE FALSE
    BY <1>3
  <2> DEFINE inner == Inner(delivered, complete, ahead, ends)
  <2>1. \A p \in (delivered + 1) .. complete : p \in inner
    BY <1>2, <1>3 DEF Inner
  <2>2. delivered + 1 \in (delivered + 1) .. complete
    BY <1>3
  <2>3. \A p \in (delivered + 1) .. ((delivered + 1) + MaxMessageSize - 1) :
          p \in (delivered + 1) .. complete
    BY <1>3
  <2>4. NoneTooLong(inner)
    BY DEF EndsInv
  <2> HIDE DEF inner
  <2> QED BY <2>1, <2>2, <2>3, <2>4 DEF NoneTooLong
<1>5. \A e \in ends : complete < e
  BY <1>2, <1>3
<1>6. RingOf(ring, delivered, complete, complete + MAX_WINDOW_OFFSET, ends)
  <2>1. RingOf(ring, delivered, lo, hi, ends) /\ hi <= complete + MAX_WINDOW_OFFSET
    BY <1>1 DEF InOrder, RingHolds
  <2>2. complete + MAX_WINDOW_OFFSET \in Nat
    BY <1>3
  <2> QED BY <1>3, <1>5, <2>1, <2>2, RingOfBounds
<1>7. Roomy(delivered, complete, complete + MAX_WINDOW_OFFSET)
  BY <1>3, <1>4 DEF Roomy, MessageFits
<1> QED BY <1>4, <1>5, <1>6, <1>7

\* What has arrived without a gap.
LEMMA ContiguousIs ==
    ASSUME complete \in 0 .. MaxPosition, NEW arrived
    PROVE  /\ Contiguous(arrived) \in complete .. MaxPosition
           /\ (complete + 1) .. Contiguous(arrived) \subseteq arrived
<1> DEFINE S == {p \in complete .. MaxPosition : (complete + 1) .. p \subseteq arrived}
           C == {MaxPosition - p : p \in S}
<1>1. complete \in Nat /\ MaxPosition \in Nat /\ complete <= MaxPosition
  BY EndsConstants
<1>2. complete \in S
  <2>1. (complete + 1) .. complete = {}
    BY <1>1
  <2> QED BY <1>1, <2>1
<1>3. C \subseteq Nat /\ C # {}
  BY <1>1, <1>2
<1>4. PICK c \in C : \A y \in C : c <= y
  BY <1>3, LeastElement
<1>5. PICK m \in S : c = MaxPosition - m
  BY <1>4
<1>6. \A y \in S : m >= y
  <2> TAKE y \in S
  <2>1. MaxPosition - m <= MaxPosition - y
    BY <1>4, <1>5
  <2>2. y \in Int /\ m \in Int
    BY <1>1
  <2> HIDE DEF S
  <2> QED BY <1>1, <2>1, <2>2
<1>7. Max(S) \in S
  BY <1>6 DEF Max
<1> QED BY <1>7 DEF Contiguous

LEMMA ArriveKeeps ==
    ASSUME MessageFits, EndsInv, NEW position \in 1 .. MaxPosition, NEW isLast \in BOOLEAN,
           Arrive(position, isLast)
    PROVE  EndsInv'
<1> DEFINE W == MAX_WINDOW_OFFSET
           c2 == Contiguous(ahead \union {position})
<1>1. /\ ~ Draining /\ position > complete /\ position <= complete + W
      /\ position <= MaxPosition /\ position \notin ahead /\ Fits(position, isLast)
      /\ ends' = IF isLast THEN ends \union {position} ELSE ends
      /\ ring' = IF isLast THEN dring_insert(ring, Offset(position)) ELSE ring
      /\ complete' = c2
      /\ ahead' = {p \in ahead \union {position} : p > complete'}
      /\ delivered' = delivered
  BY DEF Arrive
<1>2. /\ complete \in 0 .. MaxPosition /\ complete \in Nat /\ delivered \in Nat
      /\ delivered <= complete /\ ends \subseteq Nat
      /\ ahead \subseteq (complete + 1) .. (complete + W)
      /\ \A e \in ends : e <= complete \/ e \in ahead
      /\ W \in Nat /\ MaxPosition \in Nat /\ position \in Nat
  BY EndsConstants, Constants DEF EndsInv, Positions
<1>3. /\ c2 \in complete .. MaxPosition
      /\ (complete + 1) .. c2 \subseteq ahead \union {position}
  BY <1>2, ContiguousIs
<1> HIDE DEF c2
<1>4. complete <= c2 /\ c2 \in Nat /\ c2 <= complete + W /\ c2 <= MaxPosition
  <2>1. complete <= c2 /\ c2 \in Nat /\ c2 <= MaxPosition
    BY <1>2, <1>3
  <2>2. c2 <= complete + W
    <3>1. CASE c2 = complete
      BY <1>2, <3>1
    <3>2. CASE c2 # complete
      <4>1. c2 \in (complete + 1) .. c2
        BY <1>2, <2>1, <3>2
      <4>2. c2 \in ahead \union {position}
        BY <1>3, <4>1
      <4>3. CASE c2 \in ahead
        BY <1>2, <4>3
      <4>4. CASE c2 = position
        BY <1>1, <4>4
      <4> QED BY <4>2, <4>3, <4>4
    <3> QED BY <3>1, <3>2
  <2> QED BY <2>1, <2>2
<1>5. \A p \in ahead \union {position} : p \in Nat /\ complete < p /\ p <= complete + W
  BY <1>1, <1>2
<1>6. Positions'
  <2>1. ahead' \subseteq (complete' + 1) .. (complete' + W)
    <3> SUFFICES ASSUME NEW p \in ahead' PROVE p \in (c2 + 1) .. (c2 + W)
      BY <1>1
    <3>1. p \in Nat /\ p <= complete + W /\ p > c2
      BY <1>1, <1>5
    <3> QED BY <1>2, <1>4, <3>1
  <2>2. \A e \in ends' : e <= complete' \/ e \in ahead'
    <3> TAKE e \in ends'
    <3>1. e \in Nat /\ (e <= complete \/ e \in ahead \union {position})
      BY <1>1, <1>2
    <3>2. CASE e <= complete
      BY <1>1, <1>2, <1>4, <3>1, <3>2
    <3>3. CASE e \in ahead \union {position}
      BY <1>1, <1>4, <3>1, <3>3
    <3> QED BY <3>1, <3>2, <3>3
  <2>3. complete' \in 0 .. MaxPosition /\ delivered' \in Nat /\ delivered' <= complete'
    BY <1>1, <1>2, <1>4
  <2>4. ends' \subseteq Nat
    BY <1>1, <1>2
  <2> QED BY <2>1, <2>2, <2>3, <2>4 DEF Positions
<1>7. NoneTooLong(Inner(delivered', complete', ahead', ends'))
  <2> DEFINE arrived == ((delivered + 1) .. complete) \union ahead \union {position}
             arrived2 == ((delivered + 1) .. c2) \union ahead'
  <2>1. arrived2 = arrived
    <3>1. ASSUME NEW x \in arrived2 PROVE x \in arrived
      <4>1. CASE x \in ahead'
        BY <1>1, <4>1
      <4>2. CASE x \in (delivered + 1) .. c2
        <5>1. x <= complete => x \in (delivered + 1) .. complete
          BY <1>2, <1>4, <4>2
        <5>2. ~ (x <= complete) => x \in (complete + 1) .. c2
          BY <1>2, <1>4, <4>2
        <5> QED BY <1>3, <5>1, <5>2
      <4> QED BY <3>1, <4>1, <4>2
    <3>2. ASSUME NEW x \in arrived PROVE x \in arrived2
      <4>1. CASE x \in (delivered + 1) .. complete
        BY <1>2, <1>4, <4>1
      <4>2. CASE x \in ahead \union {position}
        <5>1. x \in Nat /\ complete < x
          BY <1>5, <4>2
        <5>2. x <= c2 => x \in (delivered + 1) .. c2
          BY <1>2, <1>4, <5>1
        <5>3. ~ (x <= c2) => x \in ahead'
          BY <1>1, <1>4, <4>2, <5>1
        <5> QED BY <5>2, <5>3
      <4> QED BY <3>2, <4>1, <4>2
    <3> HIDE DEF arrived, arrived2
    <3> QED BY <3>1, <3>2
  <2>2. NoneTooLong(arrived \ ends')
    <3>1. CASE isLast
      BY <1>1, <3>1 DEF Fits, NoneTooLong
    <3>2. CASE ~ isLast
      BY <1>1, <3>2 DEF Fits, NoneTooLong
    <3> QED BY <3>1, <3>2
  <2>3. Inner(delivered', complete', ahead', ends') = arrived2 \ ends'
    BY <1>1 DEF Inner
  <2> HIDE DEF arrived, arrived2
  <2> QED BY <2>1, <2>2, <2>3
<1>8. PICK l \in Nat, h \in Nat : l = complete /\ h = complete + W
  BY <1>2
<1>9. RingOf(ring, delivered, l, h, ends) /\ Roomy(delivered, l, h)
  BY <1>1, <1>8, Short
<1>10. RingOf(ring', delivered, l, h, ends')
  <2>1. CASE isLast
    <3>1. position \notin ends /\ l < position /\ position <= h
      BY <1>1, <1>2, <1>8
    <3>2. Offset(position) = position % MAX_SEGMENT_OFFSET
      BY DEF Offset
    <3>3. RingOf(dring_insert(ring, Offset(position)), delivered, l, h, ends \union {position})
      BY <1>2, <1>9, <3>1, <3>2, RingInserted
    <3> QED BY <1>1, <2>1, <3>3
  <2>2. CASE ~ isLast
    BY <1>1, <1>9, <2>2
  <2> QED BY <2>1, <2>2
<1>11. l <= complete' /\ complete' <= h /\ h <= complete' + W
  BY <1>1, <1>2, <1>4, <1>8
<1>12. RingHolds(l, h)'
  BY <1>1, <1>9, <1>10, <1>11 DEF RingHolds
<1>13. (\E lo, hi \in Nat : RingHolds(lo, hi))'
  BY <1>8, <1>12
<1>14. NoneTooLong(Inner(delivered, complete, ahead, ends))'
  BY <1>7 DEF NoneTooLong, Inner
<1> QED BY <1>6, <1>13, <1>14 DEF EndsInv

LEMMA TakeOutKeeps ==
    ASSUME EndsInv, TakeOut
    PROVE  EndsInv'
<1>1. PICK lo \in Nat, hi \in Nat, q \in Seq(Nat) : InOrder(lo, hi, q)
  BY OrderExists
<1>2. Draining /\ ring' = dring_pop(ring) /\ ends' = ends \ {Min(ends)}
      /\ delivered' = Min(ends) /\ complete' = complete /\ ahead' = ahead
  BY DEF TakeOut
<1>3. /\ q # <<>> /\ q[1] <= complete /\ 1 \in 1 .. Len(q)
      /\ Min(ends) = q[1] /\ q[1] \in ends
  BY <1>1, <1>2, DrainingIs
<1>4. /\ Increasing(q)
      /\ \A x : x \in ends <=> \E i \in 1 .. Len(q) : x = q[i]
      /\ Pops(ring, q)
      /\ \A i \in 1 .. Len(q) : lo < q[i] /\ q[i] <= hi
      /\ ring \in DoubleRing
  BY <1>1 DEF InOrder, RingOrdered
<1>5. /\ Roomy(delivered, lo, hi) /\ lo <= complete /\ complete <= hi
      /\ hi <= complete + MAX_WINDOW_OFFSET
  BY <1>1 DEF InOrder, RingHolds
<1>6. /\ complete \in Nat /\ delivered \in Nat /\ ends \subseteq Nat
      /\ MAX_WINDOW_OFFSET \in Nat /\ MAX_SEGMENT_OFFSET \in Nat
      /\ ahead \subseteq (complete + 1) .. (complete + MAX_WINDOW_OFFSET)
      /\ \A e \in ends : e <= complete \/ e \in ahead
  BY Constants DEF EndsInv, Positions
<1>7. Len(q) \in Nat /\ DOMAIN q = 1 .. Len(q) /\ \A i \in 1 .. Len(q) : q[i] \in Nat
  BY OffsetsOfType
<1>8. PICK f \in Nat : f = q[1]
  BY <1>3, <1>7
<1>9. ring' = PopMany(ring, 1)
  <2>1. 0 \in Nat /\ 0 < dring_nitems(ring)
    BY <1>3, <1>4, <1>7 DEF Pops
  <2>2. PopMany(ring, 0 + 1) = dring_pop(PopMany(ring, 0))
    BY <1>4, <2>1, PopNext
  <2> QED BY <1>2, <1>4, <2>2, PopNone
<1>10. \A i \in (1 + 1) .. Len(q) : i \in 1 .. Len(q) /\ f < q[i]
  <2> TAKE i \in (1 + 1) .. Len(q)
  <2>1. i \in 1 .. Len(q) /\ 1 < i
    BY <1>7
  <2>2. q[1] < q[i]
    BY <1>3, <1>4, <1>7, <2>1 DEF Increasing
  <2> QED BY <1>8, <2>1, <2>2
<1>11. {x \in Nat : \E i \in (1 + 1) .. Len(q) : x = q[i]} = ends \ {f}
  <2>1. ASSUME NEW x \in Nat, NEW i \in (1 + 1) .. Len(q), x = q[i]
        PROVE  x \in ends \ {f}
    <3>1. x # f
      BY <1>10, <2>1
    <3> QED BY <1>4, <1>10, <2>1, <3>1
  <2>2. ASSUME NEW x \in ends \ {f}
        PROVE  \E i \in (1 + 1) .. Len(q) : x = q[i]
    <3>1. PICK i \in 1 .. Len(q) : x = q[i]
      BY <1>4
    <3>2. i # 1
      BY <1>8, <3>1
    <3>3. i \in (1 + 1) .. Len(q)
      BY <1>7, <3>2
    <3> QED BY <3>1, <3>3
  <2> QED BY <1>6, <2>1, <2>2
<1>12. RingOf(PopMany(ring, 1), f, f, hi, ends \ {f})
  <2>1. RingOf(PopMany(ring, 1), q[1], f, hi,
               {x \in Nat : \E i \in (1 + 1) .. Len(q) : x = q[i]})
    <3>1. hi <= hi
      OBVIOUS
    <3> QED BY <1>1, <1>3, <1>10, <3>1 DEF InOrder, RingOrdered
  <2> QED BY <1>8, <1>11, <2>1
<1>13. lo < f /\ f <= hi /\ f <= complete
  BY <1>3, <1>4, <1>8
<1>14. delivered <= f /\ Roomy(f, f, hi)
  BY <1>5, <1>6, <1>13 DEF Roomy
<1>15. ring' = PopMany(ring, 1) /\ ends' = ends \ {f} /\ delivered' = f
  BY <1>2, <1>3, <1>8, <1>9
<1>16. RingHolds(f, hi)'
  BY <1>2, <1>5, <1>12, <1>13, <1>14, <1>15 DEF RingHolds
<1>17. (\E l, h \in Nat : RingHolds(l, h))'
  BY <1>16
<1>18. Positions'
  BY <1>2, <1>6, <1>13, <1>15 DEF EndsInv, Positions
<1>19. NoneTooLong(Inner(delivered, complete, ahead, ends))'
  <2> DEFINE inner == Inner(delivered, complete, ahead, ends)
             later == Inner(f, complete, ahead, ends \ {f})
  <2>1. later \subseteq inner
    <3> SUFFICES ASSUME NEW x \in later PROVE x \in inner
      OBVIOUS
    <3>1. x \in ((f + 1) .. complete) \union ahead /\ x \notin ends \ {f}
      BY DEF Inner
    <3>2. x # f
      BY <1>6, <1>13, <3>1
    <3>3. x \in ((delivered + 1) .. complete) \union ahead
      BY <1>6, <1>14, <3>1
    <3> QED BY <3>1, <3>2, <3>3 DEF Inner
  <2>2. NoneTooLong(inner)
    BY DEF EndsInv
  <2> HIDE DEF inner, later
  <2>3. NoneTooLong(later)
    BY <2>1, <2>2 DEF NoneTooLong
  <2> QED BY <1>2, <1>15, <2>3 DEF NoneTooLong, Inner, later
<1> QED BY <1>17, <1>18, <1>19 DEF EndsInv

LEMMA InitEnds == Init => EndsInv
<1> SUFFICES ASSUME Init PROVE EndsInv
  OBVIOUS
<1>1. /\ ring = dring_new(MAX_WINDOW_OFFSET) /\ ends = {} /\ complete = 0
      /\ ahead = {} /\ delivered = 0
  BY DEF Init
<1>2. 0 \in 0 .. MaxPosition /\ MAX_WINDOW_OFFSET \in Nat
  BY EndsConstants, Constants
<1>3. Positions
  BY <1>1, <1>2 DEF Positions
<1>4. NoneTooLong(Inner(delivered, complete, ahead, ends))
  <2>1. (0 + 1) .. 0 = {}
    OBVIOUS
  <2> QED BY <1>1, <2>1 DEF NoneTooLong, Inner
<1>5. Roomy(0, 0, 0)
  BY <1>2, SequenceNumbersAssumption DEF Roomy
<1>6. RingHolds(0, 0)
  BY <1>1, <1>2, <1>5, EmptyRing DEF RingHolds
<1> QED BY <1>3, <1>4, <1>6 DEF EndsInv

LEMMA NextEnds == MessageFits /\ EndsInv /\ [Next]_vars => EndsInv'
<1> SUFFICES ASSUME MessageFits, EndsInv, [Next]_vars PROVE EndsInv'
  OBVIOUS
<1>1. CASE \E position \in 1 .. MaxPosition, isLast \in BOOLEAN : Arrive(position, isLast)
  BY <1>1, ArriveKeeps
<1>2. CASE TakeOut
  BY <1>2, TakeOutKeeps
<1>3. CASE UNCHANGED vars
  BY <1>3 DEF vars, EndsInv, Positions, NoneTooLong, Inner, RingHolds
<1> QED BY <1>1, <1>2, <1>3 DEF Next

LEMMA EndsAlways == MessageFits /\ Spec => []EndsInv
<1> SUFFICES ASSUME MessageFits PROVE Spec => []EndsInv
  OBVIOUS
<1>1. EndsInv /\ [Next]_vars => EndsInv'
  BY NextEnds
<1> QED BY <1>1, InitEnds, PTL DEF Spec

-----------------------------------------------------------------------------
(* What the runs check. *)

\* The double ring hands out the ends in the order of the stream, across every
\* wrap of the offsets: for every window and message length that leave room for
\* two windows of offsets.
THEOREM EndsInOrder == MessageFits /\ Spec => []InStreamOrder
<1>1. EndsInv => InStreamOrder
  <2> SUFFICES ASSUME EndsInv PROVE InStreamOrder
    OBVIOUS
  <2>1. PICK lo \in Nat, hi \in Nat, q \in Seq(Nat) : InOrder(lo, hi, q)
    BY OrderExists
  <2>2. Increasing(q) /\ Lists(q, ends)
        /\ PopOrder(ring) = OffsetsOf(q) /\ dring_nitems(ring) = Len(q)
    BY <2>1 DEF InOrder, RingOrdered, Pops, Lists
  <2>3. /\ Cardinality(ends) = Len(q)
        /\ \A i \in 1 .. Len(q) : Cardinality({f \in ends : f <= q[i]}) = i
    BY <2>2, RankOf
  <2>4. ASSUME NEW e \in ends
        PROVE  PopOrder(ring)[Cardinality({f \in ends : f <= e})] = Offset(e)
    <3>1. PICK i \in 1 .. Len(q) : e = q[i]
      BY <2>2 DEF Lists
    <3>2. Cardinality({f \in ends : f <= e}) = i
      BY <2>3, <3>1
    <3>3. OffsetsOf(q)[i] = q[i] % MAX_SEGMENT_OFFSET
      BY OffsetsOfType
    <3> QED BY <2>2, <3>1, <3>2, <3>3 DEF Offset
  <2> QED BY <2>2, <2>3, <2>4 DEF InStreamOrder
<1> QED BY <1>1, EndsAlways, PTL

\* The loop of transport_receive takes out exactly the complete messages, and
\* PopMany, with which Deliver models all of its rounds, is dring_pop repeated.
THEOREM DrainsAll == MessageFits /\ Spec => []DrainsComplete
<1>1. EndsInv => DrainsComplete
  <2> SUFFICES ASSUME EndsInv PROVE DrainsComplete
    OBVIOUS
  <2>1. PICK lo \in Nat, hi \in Nat, q \in Seq(Nat) : InOrder(lo, hi, q)
    BY OrderExists
  <2>2. Draining <=> \E e \in ends : e <= complete
    BY <2>1, DrainingIs
  <2>3. ring \in DoubleRing
    BY <2>1 DEF InOrder
  <2>4. PopMany(ring, 0) = ring
    BY <2>3, PopNone
  <2>5. \A n \in 0 .. (dring_nitems(ring) - 1) : n \in Nat /\ n < dring_nitems(ring)
    BY <2>3, PopOrderType
  <2>6. \A n \in 0 .. (dring_nitems(ring) - 1) :
          PopMany(ring, n + 1) = dring_pop(PopMany(ring, n))
    BY <2>3, <2>5, PopNext
  <2> QED BY <2>2, <2>4, <2>6 DEF DrainsComplete
<1> QED BY <1>1, EndsAlways, PTL

=============================================================================
