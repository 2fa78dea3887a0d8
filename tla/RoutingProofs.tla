--------------------------- MODULE RoutingProofs ---------------------------
(***************************************************************************)
(* Theorems about Routing, for every network, every number of segments     *)
(* under way and every number of losses.  What is acknowledged has been    *)
(* received, so that an acknowledgment lets go of no segment the neighbour *)
(* still needs, and stops the timers of exactly the segments it lets go.   *)
(*                                                                         *)
(* Routing implements DistanceVector over links that lose any segment; none *)
(* of the announcements is missed if a link does not lose the first        *)
(* segment that is sent on it.                                             *)
(***************************************************************************)
EXTENDS Routing, SequenceTheorems, WellFoundedInduction, TLAPS

Announcements == [destAddr : Node, weight : Int, minBWD : Int]

Segments == [seq_num : Nat, ack_num : Nat, info : Announcements \union {NO_INFO}]

\* The functions with a value in S for each link of each node.
PerLink(S) ==
    {f \in [Node -> UNION {[LinksOf(n) -> S] : n \in Node}] :
        \A n \in Node : f[n] \in [LinksOf(n) -> S]}

RTypeOK ==
    /\ announced \in [Node -> Seq(Announcements)]
    /\ nextAckNum \in PerLink(Nat)
    /\ outRoutingSegments \in PerLink(SUBSET Nat)
    /\ timers \in [Node -> Seq(Int \X Nat)]
    /\ channel \in PerLink(Seq(Segments))

\* A segment carries the announcement of its number, or none, and acknowledges
\* at most what its sender has received.
SegmentOK(n, l, seg) ==
    /\ seg.ack_num <= nextAckNum[n][l]
    /\ \/ seg.info = NO_INFO /\ seg.seq_num = 0
       \/ /\ seg.seq_num < Len(announced[n])
          /\ seg.info = announced[n][seg.seq_num + 1]

SegmentsOK ==
    \A n \in Node : \A l \in LinksOf(n) : \A seg \in ToSet(channel[n][l]) :
        SegmentOK(n, l, seg)

\* Only announcements are kept for a retransmission.
SentOK ==
    \A n \in Node : \A l \in LinksOf(n) : \A s \in outRoutingSegments[n][l] :
        s < Len(announced[n])

RInv == RTypeOK /\ SegmentsOK /\ SentOK /\ TimersMatch /\ NothingForgotten

-----------------------------------------------------------------------------
(* Links, and what is kept for each of them. *)

LEMMA LinkEnds ==
    ASSUME NEW n \in Node, NEW l \in LinksOf(n)
    PROVE  /\ l \in Nat
           /\ Peer(n, l) \in Node
           /\ Peer(n, l) # n
           /\ PeerLink(n, l) \in LinksOf(Peer(n, l))
           /\ Peer(Peer(n, l), PeerLink(n, l)) = n
           /\ PeerLink(Peer(n, l), PeerLink(n, l)) = l
<1> DEFINE p == Peer(n, l)
           k == PeerLink(n, l)
<1>1. Links[n] \in Seq(Node)
  BY RoutingTableAssumption
<1>2. Len(Links[n]) \in Nat /\ l \in 1 .. Len(Links[n])
  BY <1>1, LenProperties DEF LinksOf
<1>3. l \in Nat /\ p \in Node
  BY <1>1, <1>2, ElementOfSeq DEF Peer
<1>4. p # n /\ \E j \in LinksOf(p) : Peer(p, j) = n
  BY RoutingTableAssumption
<1>5. k \in LinksOf(p) /\ Peer(p, k) = n
  BY <1>4 DEF PeerLink
<1>6. PeerLink(p, k) = l
  <2>1. PeerLink(p, k) = CHOOSE j \in LinksOf(n) : Peer(n, j) = p
    BY <1>5 DEF PeerLink
  <2>2. PeerLink(p, k) \in LinksOf(n) /\ Peer(n, PeerLink(p, k)) = p
    BY <2>1
  <2> QED BY <2>2, RoutingTableAssumption
<1> QED BY <1>3, <1>4, <1>5, <1>6

LEMMA PerLinkType ==
    ASSUME NEW S, NEW f \in PerLink(S), NEW n \in Node
    PROVE  /\ f[n] \in [LinksOf(n) -> S]
           /\ \A l \in LinksOf(n) : f[n][l] \in S
BY DEF PerLink

LEMMA PerLinkIntro ==
    ASSUME NEW S, NEW f, f = [n \in Node |-> f[n]],
           \A n \in Node : f[n] \in [LinksOf(n) -> S]
    PROVE  f \in PerLink(S)
<1> DEFINE U == UNION {[LinksOf(n) -> S] : n \in Node}
<1>1. \A n \in Node : f[n] \in U
  OBVIOUS
<1>2. f \in [Node -> U]
  <2> HIDE DEF U
  <2> QED BY <1>1
<1> QED BY <1>2 DEF PerLink

\* A new value for one node.
LEMMA PerLinkRow ==
    ASSUME NEW S, NEW f \in PerLink(S), NEW n \in Node,
           NEW r \in [LinksOf(n) -> S]
    PROVE  /\ [f EXCEPT ![n] = r] \in PerLink(S)
           /\ \A m \in Node :
                [f EXCEPT ![n] = r][m] = IF m = n THEN r ELSE f[m]
<1> DEFINE U == UNION {[LinksOf(m) -> S] : m \in Node}
           g == [f EXCEPT ![n] = r]
<1>1. f \in [Node -> U] /\ \A m \in Node : f[m] \in [LinksOf(m) -> S]
  BY DEF PerLink
<1>2. r \in U
  OBVIOUS
<1>3. g \in [Node -> U] /\ \A m \in Node : g[m] = IF m = n THEN r ELSE f[m]
  <2> HIDE DEF U
  <2> QED BY <1>1, <1>2
<1>4. \A m \in Node : g[m] \in [LinksOf(m) -> S]
  BY <1>1, <1>3
<1> QED BY <1>3, <1>4 DEF PerLink

\* A new value for one link.
LEMMA PerLinkCell ==
    ASSUME NEW S, NEW f \in PerLink(S), NEW n \in Node, NEW l \in LinksOf(n),
           NEW v \in S
    PROVE  /\ [f EXCEPT ![n][l] = v] \in PerLink(S)
           /\ \A m \in Node : \A k \in LinksOf(m) :
                [f EXCEPT ![n][l] = v][m][k] =
                    IF m = n /\ k = l THEN v ELSE f[m][k]
<1> DEFINE r == [f[n] EXCEPT ![l] = v]
           g == [f EXCEPT ![n] = r]
<1>1. f[n] \in [LinksOf(n) -> S]
  BY PerLinkType
<1>2. r \in [LinksOf(n) -> S] /\ \A k \in LinksOf(n) : r[k] = IF k = l THEN v ELSE f[n][k]
  BY <1>1
<1>3. [f EXCEPT ![n][l] = v] = g
  OBVIOUS
<1>4. g \in PerLink(S) /\ \A m \in Node : g[m] = IF m = n THEN r ELSE f[m]
  <2> HIDE DEF r
  <2> QED BY <1>2, PerLinkRow
<1>5. \A m \in Node : \A k \in LinksOf(m) :
        g[m][k] = IF m = n /\ k = l THEN v ELSE f[m][k]
  <2> HIDE DEF r, g
  <2> QED BY <1>2, <1>4
<1> QED BY <1>3, <1>4, <1>5

Cell(f, n, l, v) == [f EXCEPT ![n][l] = v]

LEMMA CellAt ==
    ASSUME NEW S, NEW f \in PerLink(S), NEW n \in Node, NEW l \in LinksOf(n),
           NEW v \in S
    PROVE  /\ Cell(f, n, l, v) \in PerLink(S)
           /\ \A m \in Node : \A k \in LinksOf(m) :
                Cell(f, n, l, v)[m][k] = IF m = n /\ k = l THEN v ELSE f[m][k]
BY PerLinkCell DEF Cell

-----------------------------------------------------------------------------
(* Sift keeps the elements that are in the set, and each of them once.     *)

NatLess == OpToRel(<, Nat)

\* A set of natural numbers has a least element.
LEMMA LeastNumber ==
    ASSUME NEW S \in SUBSET Nat, S # {}
    PROVE  \E x \in S : \A y \in S : x <= y
<1>1. IsWellFoundedOn(NatLess, Nat)
  BY NatLessThanWellFounded DEF NatLess
<1>2. PICK x \in S : \A y \in S : ~ (<<y, x>> \in NatLess)
  BY <1>1, WFMin
<1>3. \A y \in S : <<y, x>> \in NatLess <=> y < x
  BY DEF NatLess, OpToRel
<1>4. \A y \in S : ~ (y < x)
  BY <1>2, <1>3
<1> QED BY <1>4

\* The function that the definition of Sift is about, up to m.
IsSift(f, seq, S, m) ==
    f = [i \in 0 .. m |->
            IF i = 0 THEN <<>>
            ELSE IF seq[i] \in S THEN Append(f[i - 1], seq[i]) ELSE f[i - 1]]

LEMMA SiftExists ==
    ASSUME NEW seq, NEW S
    PROVE  \A m \in Nat : \E f : IsSift(f, seq, S, m)
<1> DEFINE B == {m \in Nat : ~ \E f : IsSift(f, seq, S, m)}
<1>1. SUFFICES ASSUME B # {} PROVE FALSE
  OBVIOUS
<1>2. PICK m \in B : \A y \in B : m <= y
  BY <1>1, LeastNumber
<1>3. m \in Nat /\ ~ \E f : IsSift(f, seq, S, m)
  OBVIOUS
<1>4. CASE m = 0
  <2> DEFINE f == [i \in 0 .. 0 |-> <<>>]
  <2>1. f = [i \in 0 .. 0 |->
              IF i = 0 THEN <<>>
              ELSE IF seq[i] \in S THEN Append(f[i - 1], seq[i]) ELSE f[i - 1]]
    OBVIOUS
  <2> QED BY <1>3, <1>4, <2>1 DEF IsSift
<1>5. CASE m # 0
  <2>1. m - 1 \in Nat /\ m - 1 \notin B
    BY <1>2, <1>3, <1>5
  <2>2. PICK f : IsSift(f, seq, S, m - 1)
    BY <2>1
  <2> DEFINE last == IF seq[m] \in S THEN Append(f[m - 1], seq[m]) ELSE f[m - 1]
             g == [i \in 0 .. m |-> IF i <= m - 1 THEN f[i] ELSE last]
  <2>3. \A i \in 0 .. (m - 1) :
          f[i] = IF i = 0 THEN <<>>
                 ELSE IF seq[i] \in S THEN Append(f[i - 1], seq[i]) ELSE f[i - 1]
    BY <2>2 DEF IsSift
  <2>4. ASSUME NEW i \in 0 .. m
        PROVE  g[i] = IF i = 0 THEN <<>>
                      ELSE IF seq[i] \in S THEN Append(g[i - 1], seq[i]) ELSE g[i - 1]
    <3>1. CASE i <= m - 1
      <4>1. i \in 0 .. (m - 1) /\ (i # 0 => i - 1 \in 0 .. m /\ i - 1 <= m - 1)
        BY <1>3, <3>1
      <4>2. g[i] = f[i] /\ (i # 0 => g[i - 1] = f[i - 1])
        BY <3>1, <4>1
      <4> HIDE DEF g
      <4> QED BY <2>3, <4>1, <4>2
    <3>2. CASE ~ (i <= m - 1)
      <4>1. i = m /\ i # 0 /\ i - 1 \in 0 .. m /\ i - 1 <= m - 1
        BY <1>3, <1>5, <3>2
      <4>2. g[i] = last /\ g[i - 1] = f[m - 1]
        BY <3>2, <4>1
      <4> HIDE DEF g
      <4> QED BY <4>1, <4>2
    <3> QED BY <3>1, <3>2
  <2>5. g = [i \in 0 .. m |-> g[i]]
    OBVIOUS
  <2>6. IsSift(g, seq, S, m)
    <3> HIDE DEF g
    <3> QED BY <2>4, <2>5 DEF IsSift
  <2> QED BY <1>3, <2>6
<1> QED BY <1>4, <1>5

\* What Sift has kept of the first i elements of seq.
KeptOf(t, T, seq, S, i) ==
    /\ t \in Seq(T)
    /\ \A x : x \in ToSet(t) <=> x \in S /\ \E j \in 1 .. i : x = seq[j]
    /\ IsInjective(seq) => IsInjective(t)

LEMMA KeptAppend ==
    ASSUME NEW T, NEW seq \in Seq(T), NEW S, NEW i \in 1 .. Len(seq), NEW t,
           KeptOf(t, T, seq, S, i - 1), seq[i] \in S
    PROVE  KeptOf(Append(t, seq[i]), T, seq, S, i)
<1> DEFINE u == Append(t, seq[i])
<1>1. seq[i] \in T /\ Len(seq) \in Nat /\ i \in Nat
  BY ElementOfSeq, LenProperties
<1>2. t \in Seq(T) /\ Len(t) \in Nat
  BY LenProperties DEF KeptOf
<1>3. /\ u \in Seq(T)
      /\ Len(u) = Len(t) + 1
      /\ \A a \in 1 .. Len(t) : u[a] = t[a]
      /\ u[Len(t) + 1] = seq[i]
  BY <1>1, <1>2, AppendProperties
<1>4. DOMAIN u = 1 .. (Len(t) + 1) /\ DOMAIN t = 1 .. Len(t)
  BY <1>2, <1>3, LenProperties
<1> HIDE DEF u
<1>5. \A x : x \in ToSet(u) <=> x \in ToSet(t) \/ x = seq[i]
  BY SMTT(60), <1>2, <1>3, <1>4 DEF ToSet
<1>6. \A x : x \in ToSet(t) <=> x \in S /\ \E j \in 1 .. (i - 1) : x = seq[j]
  BY DEF KeptOf
<1>7. \A x : x \in ToSet(u) <=> x \in S /\ \E j \in 1 .. i : x = seq[j]
  BY <1>1, <1>5, <1>6
<1>8. ASSUME IsInjective(seq) PROVE IsInjective(u)
  <2>1. IsInjective(t)
    BY <1>8 DEF KeptOf
  <2>2. \A a \in 1 .. Len(t) : t[a] # seq[i]
    <3> SUFFICES ASSUME NEW a \in 1 .. Len(t), t[a] = seq[i] PROVE FALSE
      OBVIOUS
    <3>1. seq[i] \in ToSet(t)
      BY <1>4 DEF ToSet
    <3>2. PICK j \in 1 .. (i - 1) : seq[i] = seq[j]
      BY <1>6, <3>1
    <3>3. DOMAIN seq = 1 .. Len(seq)
      BY LenProperties
    <3> QED BY <1>1, <1>8, <3>2, <3>3 DEF IsInjective
  <2> QED BY SMTT(60), <1>2, <1>3, <1>4, <2>1, <2>2 DEF IsInjective
<1> QED BY <1>3, <1>7, <1>8 DEF KeptOf, u

LEMMA SiftProperties ==
    ASSUME NEW T, NEW seq \in Seq(T), NEW S
    PROVE  /\ Sift(seq, S) \in Seq(T)
           /\ ToSet(Sift(seq, S)) = ToSet(seq) \intersect S
           /\ IsInjective(seq) => IsInjective(Sift(seq, S))
<1>1. Len(seq) \in Nat /\ DOMAIN seq = 1 .. Len(seq)
  BY LenProperties
<1> DEFINE f == CHOOSE g : IsSift(g, seq, S, Len(seq))
<1>2. IsSift(f, seq, S, Len(seq))
  BY <1>1, SiftExists
<1>3. Sift(seq, S) = f[Len(seq)]
  BY DEF Sift, IsSift
<1> HIDE DEF f
<1>4. \A i \in 0 .. Len(seq) :
        f[i] = IF i = 0 THEN <<>>
               ELSE IF seq[i] \in S THEN Append(f[i - 1], seq[i]) ELSE f[i - 1]
  BY <1>2 DEF IsSift
<1> DEFINE B == {i \in 0 .. Len(seq) : ~ KeptOf(f[i], T, seq, S, i)}
<1>5. B = {}
  <2> SUFFICES ASSUME B # {} PROVE FALSE
    OBVIOUS
  <2>1. PICK i \in B : \A j \in B : i <= j
    <3>1. B \in SUBSET Nat
      BY <1>1
    <3> HIDE DEF B
    <3> QED BY <3>1, LeastNumber
  <2>2. i \in 0 .. Len(seq) /\ ~ KeptOf(f[i], T, seq, S, i)
    OBVIOUS
  <2>3. CASE i = 0
    <3>1. f[i] = <<>>
      BY <1>4, <2>2, <2>3
    <3>2. <<>> \in Seq(T) /\ DOMAIN << >> = {}
      BY EmptySeq
    <3>3. KeptOf(<<>>, T, seq, S, 0)
      BY <3>2 DEF KeptOf, ToSet, IsInjective
    <3> QED BY <2>2, <2>3, <3>1, <3>3
  <2>4. CASE i # 0
    <3>1. i - 1 \in 0 .. Len(seq) /\ i - 1 \notin B /\ i \in 1 .. Len(seq)
      BY <1>1, <2>1, <2>2, <2>4
    <3>2. KeptOf(f[i - 1], T, seq, S, i - 1)
      BY <3>1
    <3>3. CASE seq[i] \in S
      <4>1. f[i] = Append(f[i - 1], seq[i])
        BY <1>4, <2>2, <2>4, <3>3
      <4> QED BY <2>2, <3>1, <3>2, <3>3, <4>1, KeptAppend
    <3>4. CASE seq[i] \notin S
      <4>1. f[i] = f[i - 1]
        BY <1>4, <2>2, <2>4, <3>4
      <4>2. \A x : x \in S => ((\E j \in 1 .. i : x = seq[j])
                                 <=> \E j \in 1 .. (i - 1) : x = seq[j])
        BY <1>1, <3>1, <3>4
      <4>3. KeptOf(f[i], T, seq, S, i)
        BY <3>2, <4>1, <4>2 DEF KeptOf
      <4> QED BY <2>2, <4>3
    <3> QED BY <3>3, <3>4
  <2> QED BY <2>3, <2>4
<1>6. KeptOf(f[Len(seq)], T, seq, S, Len(seq))
  BY <1>1, <1>5
<1>7. \A x : x \in ToSet(seq) <=> \E j \in 1 .. Len(seq) : x = seq[j]
  BY <1>1 DEF ToSet
<1> QED BY <1>3, <1>6, <1>7 DEF KeptOf

-----------------------------------------------------------------------------
(* The elements of a sequence. *)

LEMMA ToSetProperties ==
    ASSUME NEW T, NEW s \in Seq(T)
    PROVE  /\ \A i \in 1 .. Len(s) : s[i] \in ToSet(s)
           /\ ToSet(s) \subseteq T
           /\ \A x \in T : /\ Append(s, x) \in Seq(T)
                           /\ ToSet(Append(s, x)) = ToSet(s) \union {x}
                           /\ s # <<>> => Head(Append(s, x)) = Head(s)
           /\ s # <<>> => /\ Head(s) \in ToSet(s)
                          /\ Tail(s) \in Seq(T)
                          /\ ToSet(Tail(s)) \subseteq ToSet(s)
                          /\ ToSet(s) = ToSet(Tail(s)) \union {Head(s)}
<1>1. Len(s) \in Nat /\ DOMAIN s = 1 .. Len(s)
  BY LenProperties
<1>2. \A i \in 1 .. Len(s) : s[i] \in ToSet(s) /\ s[i] \in T
  BY <1>1, ElementOfSeq DEF ToSet
<1>3. ASSUME NEW x \in T
      PROVE  /\ Append(s, x) \in Seq(T)
             /\ ToSet(Append(s, x)) = ToSet(s) \union {x}
             /\ s # <<>> => Head(Append(s, x)) = Head(s)
  <2> DEFINE u == Append(s, x)
  <2>1. /\ u \in Seq(T) /\ Len(u) = Len(s) + 1 /\ u[Len(s) + 1] = x
        /\ \A i \in 1 .. Len(s) : u[i] = s[i]
    BY AppendProperties
  <2>2. DOMAIN u = 1 .. (Len(s) + 1)
    BY <2>1, LenProperties
  <2> HIDE DEF u
  <2>3. ToSet(u) = ToSet(s) \union {x}
    BY <1>1, <2>1, <2>2 DEF ToSet
  <2>4. s # <<>> => Head(u) = Head(s)
    <3> SUFFICES ASSUME s # <<>> PROVE Head(u) = Head(s)
      OBVIOUS
    <3>1. Len(s) > 0 /\ u # <<>>
      BY <1>1, <2>1, EmptySeq
    <3>2. Head(s) = s[1] /\ Head(u) = u[1]
      BY <2>1, <3>1, HeadTailProperties
    <3> QED BY <1>1, <2>1, <3>1, <3>2
  <2> QED BY <2>1, <2>3, <2>4 DEF u
<1>4. ASSUME s # <<>>
      PROVE  /\ Head(s) \in ToSet(s)
             /\ Tail(s) \in Seq(T)
             /\ ToSet(Tail(s)) \subseteq ToSet(s)
             /\ ToSet(s) = ToSet(Tail(s)) \union {Head(s)}
  <2>1. /\ Head(s) = s[1] /\ Len(s) > 0
        /\ Tail(s) \in Seq(T) /\ Len(Tail(s)) = Len(s) - 1
        /\ \A i \in 1 .. Len(Tail(s)) : Tail(s)[i] = s[i + 1]
    BY <1>1, <1>4, HeadTailProperties, EmptySeq
  <2>2. DOMAIN Tail(s) = 1 .. (Len(s) - 1)
    BY <2>1, LenProperties
  <2>3. \A x : x \in ToSet(Tail(s)) <=> \E i \in 2 .. Len(s) : x = s[i]
    <3>1. \A x : x \in ToSet(Tail(s)) <=> \E i \in 1 .. (Len(s) - 1) : x = s[i + 1]
      BY <2>1, <2>2 DEF ToSet
    <3>2. ASSUME NEW x, NEW i \in 2 .. Len(s), x = s[i]
          PROVE  \E j \in 1 .. (Len(s) - 1) : x = s[j + 1]
      <4>1. i - 1 \in 1 .. (Len(s) - 1) /\ s[i] = s[(i - 1) + 1]
        BY <1>1
      <4> QED BY <3>2, <4>1
    <3>3. ASSUME NEW i \in 1 .. (Len(s) - 1)
          PROVE  i + 1 \in 2 .. Len(s)
      BY <1>1
    <3> QED BY <3>1, <3>2, <3>3
  <2>4. \A x : x \in ToSet(s) <=> \E i \in 1 .. Len(s) : x = s[i]
    BY <1>1 DEF ToSet
  <2> QED BY <1>1, <2>1, <2>3, <2>4
<1>5. ToSet(s) \subseteq T
  BY <1>1, <1>2 DEF ToSet
<1> QED BY <1>2, <1>3, <1>4, <1>5

-----------------------------------------------------------------------------
(* What a step announces. *)

Told == announced' # announced

\* Node n announces something, or nobody does.
TablesEffect(n) ==
    \/ announced' = announced
    \/ \E x \in Announcements : announced' = [announced EXCEPT ![n] = Append(@, x)]

LEMMA ExtendedIsInt ==
    ASSUME NEW n \in Node, NEW l \in LinksOf(n), NEW info \in Announcements
    PROVE  Extended(n, l, info).weight \in Int /\ Extended(n, l, info).minBWD \in Int
<1>1. Bandwidth[n][l] \in Int /\ Bandwidth[n][l] > 0 /\ WEIGHT_OF_UNIT \in Int
  BY RoutingTableAssumption
<1>2. get_weight(n, l) \in Int
  BY <1>1 DEF get_weight
<1>3. info.weight \in Int /\ info.minBWD \in Int
  BY DEF Announcements
<1> QED BY <1>1, <1>2, <1>3 DEF Extended

LEMMA ApplyEffect ==
    ASSUME NEW n \in Node, NEW l \in LinksOf(n), NEW info \in Announcements,
           ApplyInfo(n, l, info)
    PROVE  TablesEffect(n)
<1>1. CASE info.destAddr = n
  BY <1>1 DEF ApplyInfo, tables, TablesEffect
<1>2. CASE info.destAddr # n
  <2> DEFINE x == [destAddr |-> info.destAddr,
                   weight |-> Extended(n, l, info).weight,
                   minBWD |-> Extended(n, l, info).minBWD]
  <2>1. x \in Announcements
    BY ExtendedIsInt DEF Announcements
  <2>2. announced' = IF BestChoiceChanged(n, l, info)
                     THEN [announced EXCEPT ![n] = Append(@, x)] ELSE announced
    BY <1>2 DEF ApplyInfo, update_routing_table
  <2> HIDE DEF x
  <2> QED BY <2>1, <2>2 DEF TablesEffect
<1> QED BY <1>1, <1>2

LEMMA EffectAt ==
    ASSUME RTypeOK, NEW n \in Node, TablesEffect(n)
    PROVE  /\ announced' \in [Node -> Seq(Announcements)]
           /\ \A m \in Node :
                /\ Len(announced[m]) \in Nat
                /\ Len(announced'[m]) =
                        IF m = n /\ Told THEN Len(announced[m]) + 1 ELSE Len(announced[m])
                /\ Len(announced[m]) <= Len(announced'[m])
                /\ \A i \in 1 .. Len(announced[m]) : announced'[m][i] = announced[m][i]
<1>1. announced \in [Node -> Seq(Announcements)]
  BY DEF RTypeOK
<1>2. \A m \in Node : Len(announced[m]) \in Nat
  BY <1>1, LenProperties
<1>3. CASE ~ Told
  BY <1>1, <1>2, <1>3 DEF Told
<1>4. CASE Told
  <2>1. PICK x \in Announcements : announced' = [announced EXCEPT ![n] = Append(@, x)]
    BY <1>4 DEF TablesEffect, Told
  <2>2. /\ Append(announced[n], x) \in Seq(Announcements)
        /\ Len(Append(announced[n], x)) = Len(announced[n]) + 1
        /\ \A i \in 1 .. Len(announced[n]) : Append(announced[n], x)[i] = announced[n][i]
    BY <1>1, AppendProperties
  <2>3. \A m \in Node : announced'[m] = IF m = n THEN Append(announced[n], x) ELSE announced[m]
    BY <1>1, <2>1
  <2>4. announced' \in [Node -> Seq(Announcements)]
    BY <1>1, <2>1, <2>2
  <2>5. ASSUME NEW m \in Node
        PROVE  /\ Len(announced'[m]) =
                      IF m = n /\ Told THEN Len(announced[m]) + 1 ELSE Len(announced[m])
               /\ Len(announced[m]) <= Len(announced'[m])
               /\ \A i \in 1 .. Len(announced[m]) : announced'[m][i] = announced[m][i]
    <3>1. CASE m = n
      <4>1. announced'[m] = Append(announced[m], x)
        BY <2>3, <3>1
      <4>2. Len(announced'[m]) = Len(announced[m]) + 1
        BY <2>2, <3>1, <4>1
      <4>3. Len(announced[m]) <= Len(announced'[m])
        BY <1>2, <4>2
      <4> QED BY <1>4, <2>2, <3>1, <4>1, <4>2, <4>3
    <3>2. CASE m # n
      BY <1>2, <2>3, <3>2
    <3> QED BY <3>1, <3>2
  <2> QED BY <1>2, <2>4, <2>5
<1> QED BY <1>3, <1>4

-----------------------------------------------------------------------------
(* The arrival of a segment. *)

\* The acknowledgments that are due never fall behind.
AcksGrow ==
    /\ nextAckNum' \in PerLink(Nat)
    /\ \A m \in Node : \A j \in LinksOf(m) : nextAckNum[m][j] <= nextAckNum'[m][j]

LEMMA SegmentStaysOK ==
    ASSUME RInv, NEW n \in Node, TablesEffect(n), AcksGrow,
           NEW m \in Node, NEW j \in LinksOf(m), NEW seg \in ToSet(channel[m][j])
    PROVE  SegmentOK(m, j, seg)'
<1>1. SegmentOK(m, j, seg)
  BY DEF RInv, SegmentsOK
<1>2. seg \in Segments
  <2>1. channel[m][j] \in Seq(Segments)
    BY PerLinkType DEF RInv, RTypeOK
  <2> QED BY <2>1, ToSetProperties
<1>3. seg.seq_num \in Nat /\ seg.ack_num \in Nat
  BY <1>2 DEF Segments
<1>4. nextAckNum[m][j] \in Nat /\ nextAckNum'[m][j] \in Nat
  BY PerLinkType DEF AcksGrow, RInv, RTypeOK
<1>5. seg.ack_num <= nextAckNum'[m][j]
  BY <1>1, <1>3, <1>4 DEF SegmentOK, AcksGrow
<1>6. ASSUME seg.seq_num < Len(announced[m]), seg.info = announced[m][seg.seq_num + 1]
      PROVE  /\ seg.seq_num < Len(announced'[m])
             /\ seg.info = announced'[m][seg.seq_num + 1]
  <2>1. /\ Len(announced[m]) \in Nat
        /\ Len(announced'[m]) \in Nat
        /\ Len(announced[m]) <= Len(announced'[m])
        /\ \A i \in 1 .. Len(announced[m]) : announced'[m][i] = announced[m][i]
    BY EffectAt, LenProperties DEF RInv
  <2>2. seg.seq_num + 1 \in 1 .. Len(announced[m])
    BY <1>3, <1>6, <2>1
  <2>3. seg.seq_num < Len(announced'[m])
    BY <1>3, <1>6, <2>1
  <2> QED BY <1>6, <2>1, <2>2, <2>3
<1>7. NO_INFO' = NO_INFO
  BY DEF NO_INFO
<1> QED BY <1>1, <1>5, <1>6, <1>7 DEF SegmentOK

LEMMA NewSegmentOK ==
    ASSUME announced' \in [Node -> Seq(Announcements)], nextAckNum' \in PerLink(Nat),
           NEW n \in Node, NEW j \in LinksOf(n), NEW s \in Nat, s < Len(announced'[n]),
           NEW seg, seg = RoutingSegment(n, j, s)
    PROVE  seg \in Segments /\ SegmentOK(n, j, seg)' /\ seg.seq_num = s
<1>1. announced'[n] \in Seq(Announcements) /\ Len(announced'[n]) \in Nat
  BY LenProperties
<1>2. s + 1 \in 1 .. Len(announced'[n])
  BY <1>1
<1>3. announced'[n][s + 1] \in Announcements
  BY <1>1, <1>2, ElementOfSeq
<1>4. nextAckNum'[n][j] \in Nat
  BY PerLinkType
<1> QED BY <1>3, <1>4 DEF RoutingSegment, Segments, SegmentOK

LEMMA NewAckOK ==
    ASSUME nextAckNum' \in PerLink(Nat), NEW n \in Node, NEW j \in LinksOf(n),
           NEW seg, seg = DistanceAck(n, j)
    PROVE  seg \in Segments /\ SegmentOK(n, j, seg)'
<1>1. nextAckNum'[n][j] \in Nat
  BY PerLinkType
<1> QED BY <1>1 DEF DistanceAck, Segments, SegmentOK, NO_INFO

\* What arrives, and what the node hears from it.
LEMMA ArrivalEffect ==
    ASSUME RInv, NEW n \in Node, NEW l \in LinksOf(n), routing_receive(n, l),
           NEW p \in Node, p = Peer(n, l), NEW k \in LinksOf(p), k = PeerLink(n, l),
           NEW seg, seg = Head(channel[p][k])
    PROVE  /\ channel[p][k] # <<>>
           /\ channel[p][k] \in Seq(Segments)
           /\ seg \in ToSet(channel[p][k])
           /\ seg \in Segments
           /\ SegmentOK(p, k, seg)
           /\ TablesEffect(n)
           /\ AcksGrow
           /\ \A m \in Node : \A j \in LinksOf(m) :
                nextAckNum'[m][j] =
                    IF m = n /\ j = l /\ InOrder(n, l, seg)
                    THEN nextAckNum[m][j] + 1 ELSE nextAckNum[m][j]
<1>1. channel[p][k] # <<>>
  BY DEF routing_receive
<1>2. channel[p][k] \in Seq(Segments)
  BY PerLinkType DEF RInv, RTypeOK
<1>3. seg \in ToSet(channel[p][k]) /\ seg \in Segments
  BY <1>1, <1>2, ToSetProperties
<1>4. SegmentOK(p, k, seg)
  BY <1>3 DEF RInv, SegmentsOK
<1>5. TablesEffect(n)
  <2>1. IF InOrder(n, l, seg) /\ seg.info # NO_INFO THEN ApplyInfo(n, l, seg.info)
        ELSE UNCHANGED tables
    BY DEF routing_receive
  <2>2. CASE InOrder(n, l, seg) /\ seg.info # NO_INFO
    <3>1. seg.info \in Announcements
      BY <1>3, <2>2 DEF Segments
    <3> QED BY <2>1, <2>2, <3>1, ApplyEffect
  <2>3. CASE ~ (InOrder(n, l, seg) /\ seg.info # NO_INFO)
    BY <2>1, <2>3 DEF tables, TablesEffect
  <2> QED BY <2>2, <2>3
<1>6. nextAckNum \in PerLink(Nat)
  BY DEF RInv, RTypeOK
<1>7. \A m \in Node : \A j \in LinksOf(m) : nextAckNum[m][j] \in Nat
  BY <1>6, PerLinkType
<1>8. nextAckNum' = IF InOrder(n, l, seg)
                    THEN [nextAckNum EXCEPT ![n][l] = @ + 1] ELSE nextAckNum
  BY DEF routing_receive
<1>9. /\ nextAckNum' \in PerLink(Nat)
      /\ \A m \in Node : \A j \in LinksOf(m) :
            nextAckNum'[m][j] = IF m = n /\ j = l /\ InOrder(n, l, seg)
                                THEN nextAckNum[m][j] + 1 ELSE nextAckNum[m][j]
  <2>1. CASE InOrder(n, l, seg)
    <3> DEFINE v == nextAckNum[n][l] + 1
               g == [nextAckNum EXCEPT ![n][l] = v]
    <3>1. v \in Nat
      BY <1>7
    <3>2. nextAckNum' = g
      BY <1>8, <2>1
    <3>3. /\ g \in PerLink(Nat)
          /\ \A m \in Node : \A j \in LinksOf(m) :
               g[m][j] = IF m = n /\ j = l THEN v ELSE nextAckNum[m][j]
      <4> HIDE DEF v
      <4> QED BY SMTT(60), <1>6, <3>1, PerLinkCell
    <3> HIDE DEF g
    <3> QED BY <2>1, <3>2, <3>3
  <2>2. CASE ~ InOrder(n, l, seg)
    BY <1>6, <1>8, <2>2
  <2> QED BY <2>1, <2>2
<1>10. AcksGrow
  BY <1>7, <1>9 DEF AcksGrow
<1> QED BY <1>1, <1>2, <1>3, <1>4, <1>5, <1>9, <1>10

\* What it acknowledges is no longer kept, and what it makes the node announce is.
LEMMA ArrivalKept ==
    ASSUME RInv, NEW n \in Node, NEW l \in LinksOf(n), routing_receive(n, l),
           NEW p \in Node, p = Peer(n, l), NEW k \in LinksOf(p), k = PeerLink(n, l),
           NEW seg, seg = Head(channel[p][k])
    PROVE  /\ outRoutingSegments' \in PerLink(SUBSET Nat)
           /\ \A m \in Node : \A j \in LinksOf(m) :
                outRoutingSegments'[m][j] =
                    (IF m = n /\ j = l THEN Unacknowledged(n, l, seg.ack_num)
                     ELSE outRoutingSegments[m][j])
                      \union (IF m = n /\ Told THEN {Len(announced[n])} ELSE {})
<1> DEFINE s == Len(announced[n])
           una == Unacknowledged(n, l, seg.ack_num)
           u == [outRoutingSegments[n] EXCEPT ![l] = una]
           row == [j \in LinksOf(n) |-> u[j] \union {s}]
<1>1. s \in Nat
  BY LenProperties DEF RInv, RTypeOK
<1>2. /\ outRoutingSegments \in PerLink(SUBSET Nat)
      /\ outRoutingSegments[n] \in [LinksOf(n) -> SUBSET Nat]
  BY SMTT(60), PerLinkType DEF RInv, RTypeOK
<1>3. una \in SUBSET Nat
  <2>1. outRoutingSegments[n][l] \in SUBSET Nat
    BY <1>2
  <2> QED BY <2>1 DEF Unacknowledged
<1>4. outRoutingSegments' = IF Told THEN [outRoutingSegments EXCEPT ![n] = row]
                            ELSE [outRoutingSegments EXCEPT ![n] = u]
  BY DEF routing_receive, Told, Broadcast
<1> HIDE DEF una, s
<1>5. u \in [LinksOf(n) -> SUBSET Nat]
      /\ \A j \in LinksOf(n) : u[j] = IF j = l THEN una ELSE outRoutingSegments[n][j]
  BY <1>2, <1>3
<1> HIDE DEF u
<1>6. row \in [LinksOf(n) -> SUBSET Nat] /\ \A j \in LinksOf(n) : row[j] = u[j] \union {s}
  BY <1>1, <1>5
<1> HIDE DEF row
<1>7. CASE Told
  <2> DEFINE g == [outRoutingSegments EXCEPT ![n] = row]
  <2>1. g \in PerLink(SUBSET Nat) /\ \A m \in Node : g[m] = IF m = n THEN row ELSE outRoutingSegments[m]
    BY <1>2, <1>6, PerLinkRow
  <2>2. outRoutingSegments' = g
    BY <1>4, <1>7
  <2> HIDE DEF g
  <2> QED BY <1>5, <1>6, <1>7, <2>1, <2>2 DEF s, una
<1>8. CASE ~ Told
  <2> DEFINE g == [outRoutingSegments EXCEPT ![n] = u]
  <2>1. g \in PerLink(SUBSET Nat) /\ \A m \in Node : g[m] = IF m = n THEN u ELSE outRoutingSegments[m]
    BY <1>2, <1>5, PerLinkRow
  <2>2. outRoutingSegments' = g
    BY <1>4, <1>8
  <2> HIDE DEF g
  <2> QED BY <1>5, <1>8, <2>1, <2>2 DEF s, una
<1> QED BY <1>7, <1>8

\* Its timers follow.
LEMMA ArrivalTimed ==
    ASSUME RInv, NEW n \in Node, NEW l \in LinksOf(n), routing_receive(n, l),
           NEW p \in Node, p = Peer(n, l), NEW k \in LinksOf(p), k = PeerLink(n, l),
           NEW seg, seg = Head(channel[p][k])
    PROVE  \A m \in Node :
             timers'[m] =
                IF m # n THEN timers[m]
                ELSE IF Told THEN StillTimed(n, l, seg.ack_num)
                                    \o [j \in LinksOf(n) |-> <<j, Len(announced[n])>>]
                     ELSE StillTimed(n, l, seg.ack_num)
<1> DEFINE kept == StillTimed(n, l, seg.ack_num)
           new == [j \in LinksOf(n) |-> <<j, Len(announced[n])>>]
<1>1. timers' = IF Told THEN [timers EXCEPT ![n] = kept \o new]
                ELSE [timers EXCEPT ![n] = kept]
  BY DEF routing_receive, Told, Broadcast
<1>2. timers \in [Node -> Seq(Int \X Nat)]
  BY DEF RInv, RTypeOK
<1> HIDE DEF kept, new
<1>3. \A m \in Node : timers'[m] = IF m # n THEN timers[m]
                                   ELSE IF Told THEN kept \o new ELSE kept
  BY <1>1, <1>2
<1> QED BY SMTT(60), <1>3 DEF kept, new

\* The segment is taken from its channel; the node may send one on each link.
LEMMA ArrivalSends ==
    ASSUME RInv, NEW n \in Node, NEW l \in LinksOf(n), routing_receive(n, l),
           NEW p \in Node, p = Peer(n, l), NEW k \in LinksOf(p), k = PeerLink(n, l)
    PROVE  /\ channel' \in PerLink(Seq(Segments))
           /\ channel'[p][k] = Tail(channel[p][k])
           /\ \A m \in Node : \A j \in LinksOf(m) :
                m # p \/ j # k =>
                    \/ channel'[m][j] = channel[m][j]
                    \/ \E x \in Segments :
                         /\ SegmentOK(m, j, x)'
                         /\ channel'[m][j] = Append(channel[m][j], x)
<1> DEFINE seg == Head(channel[p][k])
           tail == Tail(channel[p][k])
           arrived == [channel EXCEPT ![p][k] = tail]
           s == Len(announced[n])
<1>1. channel \in PerLink(Seq(Segments)) /\ p # n
  BY LinkEnds DEF RInv, RTypeOK
<1>2. tail \in Seq(Segments)
  BY ArrivalEffect, ToSetProperties
<1>3. /\ arrived \in PerLink(Seq(Segments))
      /\ \A m \in Node : \A j \in LinksOf(m) :
            arrived[m][j] = IF m = p /\ j = k THEN tail ELSE channel[m][j]
  <2> HIDE DEF tail
  <2> QED BY SMTT(60), <1>1, <1>2, PerLinkCell
<1>4. /\ TablesEffect(n)
      /\ nextAckNum' \in PerLink(Nat)
      /\ announced' \in [Node -> Seq(Announcements)]
      /\ s \in Nat
      /\ Told => s < Len(announced'[n])
  <2>1. TablesEffect(n) /\ AcksGrow
    BY ArrivalEffect
  <2>2. announced' \in [Node -> Seq(Announcements)] /\ s \in Nat
    BY <2>1, EffectAt DEF RInv
  <2>3. Told => Len(announced'[n]) = s + 1
    BY <2>1, EffectAt DEF RInv
  <2> QED BY <2>1, <2>2, <2>3 DEF AcksGrow
<1>5. /\ Told => channel' = [arrived EXCEPT ![n] =
                    [j \in LinksOf(n) |-> Append(@[j], RoutingSegment(n, j, s))]]
      /\ ~ Told => \/ channel' = arrived
                   \/ channel' = [arrived EXCEPT ![n][l] = Append(@, DistanceAck(n, l))]
  BY DEF routing_receive, Told, Broadcast
<1> HIDE DEF arrived, tail, s
<1>6. CASE Told
  <2> DEFINE new == [j \in LinksOf(n) |-> RoutingSegment(n, j, s)]
             row == [j \in LinksOf(n) |-> Append(arrived[n][j], new[j])]
             g == [arrived EXCEPT ![n] = row]
  <2>1. channel' = g
    BY <1>5, <1>6
  <2>2. \A j \in LinksOf(n) :
          \E x \in Segments : x = new[j] /\ SegmentOK(n, j, x)'
    <3> TAKE j \in LinksOf(n)
    <3>1. new[j] = RoutingSegment(n, j, s)
      OBVIOUS
    <3> HIDE DEF new
    <3>2. PICK x : x = RoutingSegment(n, j, s)
      OBVIOUS
    <3>3. x \in Segments /\ SegmentOK(n, j, x)'
      BY <1>4, <1>6, <3>2, NewSegmentOK
    <3> QED BY <3>1, <3>2, <3>3
  <2> HIDE DEF new
  <2>3. \A j \in LinksOf(n) : arrived[n][j] = channel[n][j] /\ channel[n][j] \in Seq(Segments)
    BY <1>1, <1>3, PerLinkType
  <2>4. row \in [LinksOf(n) -> Seq(Segments)]
        /\ \A j \in LinksOf(n) : row[j] = Append(channel[n][j], new[j])
    <3>1. ASSUME NEW j \in LinksOf(n) PROVE Append(channel[n][j], new[j]) \in Seq(Segments)
      BY <2>2, <2>3, AppendProperties
    <3> QED BY <2>3, <3>1
  <2> HIDE DEF row
  <2>5. /\ g \in PerLink(Seq(Segments))
        /\ \A m \in Node : g[m] = IF m = n THEN row ELSE arrived[m]
    BY <1>3, <2>4, PerLinkRow
  <2> HIDE DEF g
  <2>6. channel'[p][k] = tail
    BY <1>1, <1>3, <2>1, <2>5
  <2>7. ASSUME NEW m \in Node, NEW j \in LinksOf(m), m # p \/ j # k
        PROVE  \/ channel'[m][j] = channel[m][j]
               \/ \E x \in Segments : /\ SegmentOK(m, j, x)'
                                     /\ channel'[m][j] = Append(channel[m][j], x)
    <3>1. CASE m = n
      <4>1. PICK x \in Segments : x = new[j] /\ SegmentOK(n, j, x)'
        BY <2>2, <3>1
      <4>2. channel'[n][j] = Append(channel[n][j], x)
        BY <2>1, <2>4, <2>5, <3>1, <4>1
      <4> QED BY <3>1, <4>1, <4>2
    <3>2. CASE m # n
      BY <1>3, <2>1, <2>5, <2>7, <3>2
    <3> QED BY <3>1, <3>2
  <2> QED BY <2>1, <2>5, <2>6, <2>7 DEF tail
<1>7. CASE channel' = arrived
  BY <1>3, <1>7 DEF tail
<1>8. CASE channel' = [arrived EXCEPT ![n][l] = Append(@, DistanceAck(n, l))]
  <2>1. PICK ack : ack = DistanceAck(n, l)
    OBVIOUS
  <2>2. ack \in Segments /\ SegmentOK(n, l, ack)'
    BY <1>4, <2>1, NewAckOK
  <2> DEFINE out == Append(channel[n][l], ack)
             g == [arrived EXCEPT ![n][l] = out]
  <2>3. arrived[n][l] = channel[n][l] /\ channel[n][l] \in Seq(Segments)
    BY <1>1, <1>3, PerLinkType
  <2>4. out \in Seq(Segments)
    BY <2>2, <2>3, AppendProperties
  <2>5. channel' = g
    BY <1>8, <2>1, <2>3
  <2>6. /\ g \in PerLink(Seq(Segments))
        /\ \A m \in Node : \A j \in LinksOf(m) :
              g[m][j] = IF m = n /\ j = l THEN out ELSE arrived[m][j]
    <3> HIDE DEF out
    <3> QED BY <1>3, <2>4, PerLinkCell
  <2> HIDE DEF g
  <2>7. channel'[p][k] = tail
    BY <1>1, <1>3, <2>5, <2>6
  <2>8. ASSUME NEW m \in Node, NEW j \in LinksOf(m), m # p \/ j # k
        PROVE  \/ channel'[m][j] = channel[m][j]
               \/ \E x \in Segments : /\ SegmentOK(m, j, x)'
                                     /\ channel'[m][j] = Append(channel[m][j], x)
    <3>1. CASE m = n /\ j = l
      <4>1. channel'[m][j] = Append(channel[m][j], ack)
        BY <2>5, <2>6, <3>1
      <4>2. SegmentOK(m, j, ack)'
        BY <2>2, <3>1
      <4> QED BY <2>2, <4>1, <4>2
    <3>2. CASE ~ (m = n /\ j = l)
      BY <1>3, <2>5, <2>6, <2>8, <3>2
    <3> QED BY <3>1, <3>2
  <2> QED BY <2>5, <2>6, <2>7, <2>8 DEF tail
<1> QED BY <1>5, <1>6, <1>7, <1>8

-----------------------------------------------------------------------------
(* The invariant is kept when a segment arrives. *)

LEMMA ReceiveSegmentsOK ==
    ASSUME RInv, NEW n \in Node, NEW l \in LinksOf(n), routing_receive(n, l)
    PROVE  SegmentsOK'
<1>1. PICK p \in Node, k \in LinksOf(Peer(n, l)) : p = Peer(n, l) /\ k = PeerLink(n, l)
  BY LinkEnds
<1>2. TablesEffect(n) /\ AcksGrow /\ channel[p][k] # <<>>
  BY <1>1, ArrivalEffect
<1>3. ASSUME NEW m \in Node, NEW j \in LinksOf(m), NEW seg \in ToSet(channel'[m][j])
      PROVE  SegmentOK(m, j, seg)'
  <2>1. channel[m][j] \in Seq(Segments)
    BY PerLinkType DEF RInv, RTypeOK
  <2>2. CASE seg \in ToSet(channel[m][j])
    BY <1>2, <2>2, SegmentStaysOK
  <2>3. CASE seg \notin ToSet(channel[m][j])
    <3>1. m # p \/ j # k
      <4>1. channel'[p][k] = Tail(channel[p][k])
        BY <1>1, ArrivalSends
      <4> QED BY <1>2, <2>1, <2>3, <4>1, ToSetProperties
    <3>2. channel'[m][j] # channel[m][j]
      BY <2>3
    <3>3. PICK x \in Segments : /\ SegmentOK(m, j, x)'
                                /\ channel'[m][j] = Append(channel[m][j], x)
      BY <1>1, <3>1, <3>2, ArrivalSends
    <3>4. seg = x
      BY <2>1, <2>3, <3>3, ToSetProperties
    <3> QED BY <3>3, <3>4
  <2> QED BY <2>2, <2>3
<1> QED BY <1>3 DEF SegmentsOK, LinksOf

LEMMA ReceiveSentOK ==
    ASSUME RInv, NEW n \in Node, NEW l \in LinksOf(n), routing_receive(n, l)
    PROVE  SentOK'
<1>1. PICK p \in Node, k \in LinksOf(Peer(n, l)) : p = Peer(n, l) /\ k = PeerLink(n, l)
  BY LinkEnds
<1> DEFINE seg == Head(channel[p][k])
<1>2. TablesEffect(n)
  BY <1>1, ArrivalEffect
<1>3. ASSUME NEW m \in Node, NEW j \in LinksOf(m), NEW s \in outRoutingSegments'[m][j]
      PROVE  s < Len(announced'[m])
  <2>1. /\ Len(announced[m]) \in Nat
        /\ Len(announced'[m]) =
              IF m = n /\ Told THEN Len(announced[m]) + 1 ELSE Len(announced[m])
    BY <1>2, EffectAt DEF RInv
  <2>2. \/ s \in outRoutingSegments[m][j]
        \/ m = n /\ Told /\ s = Len(announced[n])
    BY <1>1, ArrivalKept DEF Unacknowledged
  <2>3. CASE s \in outRoutingSegments[m][j]
    <3>1. s < Len(announced[m])
      BY <2>3 DEF RInv, SentOK
    <3>2. s \in Nat
      BY <2>3, PerLinkType DEF RInv, RTypeOK
    <3> QED BY <2>1, <3>1, <3>2
  <2>4. CASE m = n /\ Told /\ s = Len(announced[n])
    BY <2>1, <2>4
  <2> QED BY <2>2, <2>3, <2>4
<1> QED BY <1>3 DEF SentOK, LinksOf

\* The heart of the argument: the neighbour has received what it acknowledges.
LEMMA ReceiveNothingForgotten ==
    ASSUME RInv, NEW n \in Node, NEW l \in LinksOf(n), routing_receive(n, l)
    PROVE  NothingForgotten'
<1>1. PICK p \in Node, k \in LinksOf(Peer(n, l)) : p = Peer(n, l) /\ k = PeerLink(n, l)
  BY LinkEnds
<1> DEFINE seg == Head(channel[p][k])
<1>2. TablesEffect(n) /\ AcksGrow /\ SegmentOK(p, k, seg) /\ seg \in Segments
  BY <1>1, ArrivalEffect
<1>3. ASSUME NEW m \in Node, NEW j \in LinksOf(m),
             NEW q \in Node, q = Peer(m, j), NEW i \in LinksOf(q), i = PeerLink(m, j),
             NEW s \in nextAckNum'[q][i] .. (Len(announced'[m]) - 1)
      PROVE  s \in outRoutingSegments'[m][j]
  <2>1. /\ Len(announced[m]) \in Nat
        /\ Len(announced'[m]) =
              IF m = n /\ Told THEN Len(announced[m]) + 1 ELSE Len(announced[m])
    BY <1>2, EffectAt DEF RInv
  <2>2. /\ nextAckNum[q][i] \in Nat /\ nextAckNum'[q][i] \in Nat
        /\ nextAckNum[q][i] <= nextAckNum'[q][i]
    BY <1>2, PerLinkType DEF AcksGrow, RInv, RTypeOK
  <2>3. outRoutingSegments'[m][j] =
            (IF m = n /\ j = l THEN Unacknowledged(n, l, seg.ack_num)
             ELSE outRoutingSegments[m][j])
              \union (IF m = n /\ Told THEN {Len(announced[n])} ELSE {})
    BY <1>1, ArrivalKept
  <2>4. CASE s = Len(announced[m])
    <3>1. m = n /\ Told
      BY <2>1, <2>4
    <3> QED BY <2>3, <2>4, <3>1
  <2>5. CASE s # Len(announced[m])
    <3>1. s \in nextAckNum[q][i] .. (Len(announced[m]) - 1)
      BY <2>1, <2>2, <2>5
    <3>2. s \in outRoutingSegments[m][j]
      BY <1>3, <3>1 DEF RInv, NothingForgotten
    <3>3. CASE m = n /\ j = l
      <4>1. q = p /\ i = k
        BY <1>1, <1>3, <3>3
      <4>2. seg.ack_num \in Nat /\ seg.ack_num <= nextAckNum[q][i]
        BY <1>2, <4>1 DEF SegmentOK, Segments
      <4>3. s >= seg.ack_num
        BY <2>2, <3>1, <4>2
      <4>4. s \in Unacknowledged(n, l, seg.ack_num)
        BY <3>2, <3>3, <4>3 DEF Unacknowledged
      <4> QED BY <2>3, <3>3, <4>4
    <3>4. CASE ~ (m = n /\ j = l)
      BY <2>3, <3>2, <3>4
    <3> QED BY <3>3, <3>4
  <2> QED BY <2>4, <2>5
<1>4. ASSUME NEW m \in Node, NEW j \in LinksOf(m)
      PROVE  \A s \in nextAckNum'[Peer(m, j)][PeerLink(m, j)] .. (Len(announced'[m]) - 1) :
                s \in outRoutingSegments'[m][j]
  <2>1. PICK q \in Node, i \in LinksOf(Peer(m, j)) : q = Peer(m, j) /\ i = PeerLink(m, j)
    BY LinkEnds
  <2> QED BY <1>3, <2>1
<1> QED BY <1>4 DEF NothingForgotten, Peer, PeerLink, LinksOf

LEMMA ConcatInjective ==
    ASSUME NEW T, NEW s \in Seq(T), NEW t \in Seq(T)
    PROVE  /\ s \o t \in Seq(T)
           /\ \A x : x \in ToSet(s \o t) <=> x \in ToSet(s) \/ x \in ToSet(t)
           /\ IsInjective(s) /\ IsInjective(t) /\ ToSet(s) \intersect ToSet(t) = {}
                => IsInjective(s \o t)
<1> DEFINE u == s \o t
           m == Len(s)
           n == Len(t)
<1>1. m \in Nat /\ n \in Nat /\ DOMAIN s = 1 .. m /\ DOMAIN t = 1 .. n
  BY LenProperties
<1>2. /\ u \in Seq(T)
      /\ Len(u) = m + n
      /\ \A i \in 1 .. (m + n) : u[i] = IF i <= m THEN s[i] ELSE t[i - m]
  BY ConcatProperties
<1>3. DOMAIN u = 1 .. (m + n)
  BY <1>2, LenProperties
<1> HIDE DEF u, m, n
<1>4. \A x : x \in ToSet(u) <=> x \in ToSet(s) \/ x \in ToSet(t)
  <2>1. ASSUME NEW i \in 1 .. (m + n) PROVE u[i] \in ToSet(s) \/ u[i] \in ToSet(t)
    <3>1. CASE i <= m
      <4>1. i \in 1 .. m /\ u[i] = s[i]
        BY <1>1, <1>2, <3>1
      <4> QED BY <1>1, <4>1 DEF ToSet
    <3>2. CASE ~ (i <= m)
      <4>1. i - m \in 1 .. n /\ u[i] = t[i - m]
        BY <1>1, <1>2, <3>2
      <4> QED BY <1>1, <4>1 DEF ToSet
    <3> QED BY <3>1, <3>2
  <2>2. ASSUME NEW i \in 1 .. m PROVE s[i] \in ToSet(u)
    <3>1. i \in 1 .. (m + n) /\ u[i] = s[i]
      BY <1>1, <1>2
    <3> QED BY <1>3, <3>1 DEF ToSet
  <2>3. ASSUME NEW i \in 1 .. n PROVE t[i] \in ToSet(u)
    <3>1. m + i \in 1 .. (m + n) /\ u[m + i] = t[i]
      <4>1. m + i \in 1 .. (m + n) /\ ~ (m + i <= m) /\ (m + i) - m = i
        BY <1>1
      <4> QED BY <1>2, <4>1
    <3> QED BY <1>3, <3>1 DEF ToSet
  <2>4. /\ \A x : x \in ToSet(u) <=> \E i \in 1 .. (m + n) : x = u[i]
        /\ \A x : x \in ToSet(s) <=> \E i \in 1 .. m : x = s[i]
        /\ \A x : x \in ToSet(t) <=> \E i \in 1 .. n : x = t[i]
    BY <1>1, <1>3 DEF ToSet
  <2> QED BY <2>1, <2>2, <2>3, <2>4
<1>5. ASSUME IsInjective(s), IsInjective(t), ToSet(s) \intersect ToSet(t) = {}
      PROVE  IsInjective(u)
  <2> SUFFICES ASSUME NEW a \in 1 .. (m + n), NEW b \in 1 .. (m + n), u[a] = u[b]
               PROVE  a = b
    BY <1>3 DEF IsInjective
  <2>1. \A i \in 1 .. (m + n) :
          /\ i <= m => i \in 1 .. m /\ u[i] = s[i] /\ u[i] \in ToSet(s)
          /\ ~ (i <= m) => i - m \in 1 .. n /\ u[i] = t[i - m] /\ u[i] \in ToSet(t)
    <3> TAKE i \in 1 .. (m + n)
    <3>1. CASE i <= m
      <4>1. i \in 1 .. m /\ u[i] = s[i]
        BY <1>1, <1>2, <3>1
      <4> QED BY <1>1, <3>1, <4>1 DEF ToSet
    <3>2. CASE ~ (i <= m)
      <4>1. i - m \in 1 .. n /\ u[i] = t[i - m]
        BY <1>1, <1>2, <3>2
      <4> QED BY <1>1, <3>2, <4>1 DEF ToSet
    <3> QED BY <3>1, <3>2
  <2>2. CASE a <= m /\ b <= m
    BY <1>1, <1>5, <2>1, <2>2 DEF IsInjective
  <2>3. CASE ~ (a <= m) /\ ~ (b <= m)
    <3>1. a - m \in 1 .. n /\ b - m \in 1 .. n /\ t[a - m] = t[b - m]
      BY <2>1, <2>3
    <3>2. a - m = b - m
      BY <1>1, <1>5, <3>1 DEF IsInjective
    <3> QED BY <1>1, <3>2
  <2>4. CASE (a <= m) # (b <= m)
    BY <1>5, <2>1, <2>4
  <2> QED BY <2>2, <2>3, <2>4
<1> QED BY <1>2, <1>4, <1>5 DEF u

\* The timers of acknowledged segments, and only those, are stopped.
LEMMA ReceiveTimersMatch ==
    ASSUME RInv, NEW n \in Node, NEW l \in LinksOf(n), routing_receive(n, l)
    PROVE  timers' \in [Node -> Seq(Int \X Nat)] /\ TimersMatch'
<1>1. PICK p \in Node, k \in LinksOf(Peer(n, l)) : p = Peer(n, l) /\ k = PeerLink(n, l)
  BY LinkEnds
<1> DEFINE seg == Head(channel[p][k])
           N == Len(announced[n])
           S == {t \in ToSet(timers[n]) : t[1] = l => t[2] >= seg.ack_num}
           kept == StillTimed(n, l, seg.ack_num)
           new == [j \in LinksOf(n) |-> <<j, N>>]
<1>2. kept = Sift(timers[n], S)
  BY DEF StillTimed
<1>3. /\ timers \in [Node -> Seq(Int \X Nat)]
      /\ timers[n] \in Seq(Int \X Nat)
      /\ N \in Nat
      /\ LinksOf(n) = 1 .. Len(Links[n]) /\ Len(Links[n]) \in Nat
  BY RoutingTableAssumption, LenProperties DEF RInv, RTypeOK, LinksOf
<1>4. /\ kept \in Seq(Int \X Nat)
      /\ ToSet(kept) = ToSet(timers[n]) \intersect S
      /\ IsInjective(timers[n]) => IsInjective(kept)
  <2> HIDE DEF S
  <2> QED BY <1>2, <1>3, SiftProperties
<1>5. /\ new \in Seq(Int \X Nat)
      /\ Len(new) = Len(Links[n])
      /\ \A j \in LinksOf(n) : new[j] = <<j, N>>
  <2>1. \A j \in LinksOf(n) : <<j, N>> \in Int \X Nat
    BY <1>3
  <2> HIDE DEF N
  <2>2. new \in [1 .. Len(Links[n]) -> Int \X Nat]
    BY <1>3, <2>1
  <2>3. new \in Seq(Int \X Nat)
    BY <1>3, <2>2, SeqDef
  <2>4. Len(new) = Len(Links[n])
    BY <1>3, <2>2, <2>3, LenProperties
  <2> QED BY <2>3, <2>4
<1>6. \A m \in Node :
        timers'[m] = IF m # n THEN timers[m] ELSE IF Told THEN kept \o new ELSE kept
  BY SMTT(60), <1>1, ArrivalTimed
<1>7. \A m \in Node : \A j \in LinksOf(m) :
        outRoutingSegments'[m][j] =
            (IF m = n /\ j = l THEN Unacknowledged(n, l, seg.ack_num)
             ELSE outRoutingSegments[m][j]) \union (IF m = n /\ Told THEN {N} ELSE {})
  BY <1>1, ArrivalKept
<1>8. \A m \in Node : \A t :
        t \in ToSet(timers[m]) <=>
            \E j \in LinksOf(m) : \E s \in outRoutingSegments[m][j] : t = <<j, s>>
  BY DEF RInv, TimersMatch
<1>9. \A t : t \in ToSet(kept) <=>
        \E j \in LinksOf(n) :
            \E s \in (IF j = l THEN Unacknowledged(n, l, seg.ack_num)
                      ELSE outRoutingSegments[n][j]) : t = <<j, s>>
  BY <1>4, <1>8 DEF Unacknowledged
<1>10. /\ \A m \in Node : IsInjective(timers[m])
       /\ IsInjective(kept)
  BY <1>4 DEF RInv, TimersMatch
<1> HIDE DEF kept, new, S, N, seg
<1>11. ASSUME NEW m \in Node
       PROVE  /\ timers'[m] \in Seq(Int \X Nat)
              /\ \A t : t \in ToSet(timers'[m]) <=>
                    \E j \in LinksOf(m) : \E s \in outRoutingSegments'[m][j] : t = <<j, s>>
              /\ IsInjective(timers'[m])
  <2>1. CASE m # n
    BY <1>3, <1>6, <1>7, <1>8, <1>10, <2>1
  <2>2. CASE m = n /\ ~ Told
    <3>1. timers'[m] = kept
      BY <1>6, <2>2
    <3>2. ASSUME NEW j \in LinksOf(n)
          PROVE  outRoutingSegments'[n][j] =
                    IF j = l THEN Unacknowledged(n, l, seg.ack_num)
                    ELSE outRoutingSegments[n][j]
      <4>1. outRoutingSegments'[n][j] =
                (IF j = l THEN Unacknowledged(n, l, seg.ack_num)
                 ELSE outRoutingSegments[n][j]) \union {}
        BY <1>7, <2>2
      <4> QED BY <4>1
    <3>3. \A t : t \in ToSet(timers'[m]) <=>
            \E j \in LinksOf(m) : \E s \in outRoutingSegments'[m][j] : t = <<j, s>>
      BY <1>9, <2>2, <3>1, <3>2
    <3> QED BY <1>4, <1>10, <3>1, <3>3
  <2>3. CASE m = n /\ Told
    <3>1. timers'[m] = kept \o new
      BY <1>6, <2>3
    <3>2. \A t : t \in ToSet(new) <=> \E j \in LinksOf(n) : t = <<j, N>>
      <4>1. DOMAIN new = LinksOf(n)
        BY <1>3, <1>5, LenProperties
      <4> QED BY <1>5, <4>1 DEF ToSet
    <3>3. ASSUME NEW a \in 1 .. Len(new), NEW b \in 1 .. Len(new), new[a] = new[b]
          PROVE  a = b
      <4>1. a \in LinksOf(n) /\ b \in LinksOf(n)
        BY <1>3, <1>5
      <4>2. <<a, N>> = <<b, N>>
        BY <1>5, <3>3, <4>1
      <4> QED BY <4>2
    <3>4. ASSUME NEW t \in ToSet(kept), t \in ToSet(new) PROVE FALSE
      <4>1. PICK j \in LinksOf(n) : \E s \in outRoutingSegments[n][j] : t = <<j, s>>
        BY <1>9 DEF Unacknowledged
      <4>2. PICK s \in outRoutingSegments[n][j] : t = <<j, s>>
        BY <4>1
      <4>3. t[2] = N /\ t[2] = s
        BY <3>2, <3>4, <4>2
      <4>4. s < N
        BY DEF RInv, SentOK, N
      <4> QED BY <1>3, <4>3, <4>4
    <3>5. /\ kept \o new \in Seq(Int \X Nat)
          /\ \A t : t \in ToSet(kept \o new) <=> t \in ToSet(kept) \/ t \in ToSet(new)
          /\ IsInjective(kept \o new)
      <4>1. IsInjective(new)
        BY <1>5, <3>3, LenProperties DEF IsInjective
      <4> QED BY <1>4, <1>5, <1>10, <3>4, <4>1, ConcatInjective
    <3>6. \A t : t \in ToSet(timers'[m]) <=>
                \E j \in LinksOf(m) : \E s \in outRoutingSegments'[m][j] : t = <<j, s>>
      <4>1. \A j \in LinksOf(n) :
              outRoutingSegments'[n][j] =
                (IF j = l THEN Unacknowledged(n, l, seg.ack_num)
                 ELSE outRoutingSegments[n][j]) \union {N}
        BY <1>7, <2>3
      <4> QED BY <1>9, <2>3, <3>1, <3>2, <3>5, <4>1
    <3> QED BY <3>1, <3>5, <3>6
  <2> QED BY <2>1, <2>2, <2>3
<1>12. timers' \in [Node -> Seq(Int \X Nat)]
  <2>1. timers' = [m \in Node |-> timers'[m]]
    BY <1>3 DEF routing_receive, Broadcast
  <2> QED BY SMTT(60), <1>11, <2>1
<1>13. ASSUME NEW m \in Node
       PROVE  ToSet(timers'[m]) =
                UNION {{<<j, s>> : s \in outRoutingSegments'[m][j]} : j \in LinksOf(m)}
  BY <1>11
<1> QED BY <1>11, <1>12, <1>13 DEF TimersMatch, LinksOf, ToSet, IsInjective

LEMMA ReceiveRInv ==
    ASSUME RInv, NEW n \in Node, NEW l \in LinksOf(n), routing_receive(n, l)
    PROVE  RInv'
<1>1. PICK p \in Node, k \in LinksOf(Peer(n, l)) : p = Peer(n, l) /\ k = PeerLink(n, l)
  BY LinkEnds
<1>2. TablesEffect(n) /\ AcksGrow
  BY <1>1, ArrivalEffect
<1>3. announced' \in [Node -> Seq(Announcements)]
  BY <1>2, EffectAt DEF RInv
<1>4. outRoutingSegments' \in PerLink(SUBSET Nat) /\ channel' \in PerLink(Seq(Segments))
  BY <1>1, ArrivalKept, ArrivalSends
<1>5. timers' \in [Node -> Seq(Int \X Nat)] /\ TimersMatch'
  BY ReceiveTimersMatch
<1>6. RTypeOK'
  BY <1>2, <1>3, <1>4, <1>5
     DEF RTypeOK, AcksGrow, Announcements, PerLink, LinksOf, Segments, NO_INFO
<1> QED BY <1>5, <1>6, ReceiveSegmentsOK, ReceiveSentOK, ReceiveNothingForgotten DEF RInv

-----------------------------------------------------------------------------
(* ... and by the other steps, which announce and receive nothing. *)

\* The oldest timer starts again.
LEMMA RotateInjective ==
    ASSUME NEW T, NEW s \in Seq(T), s # <<>>
    PROVE  LET u == Append(Tail(s), Head(s))
           IN  /\ u \in Seq(T)
               /\ ToSet(u) = ToSet(s)
               /\ IsInjective(s) => IsInjective(u)
<1> DEFINE t == Tail(s)
           h == Head(s)
           u == Append(t, h)
           n == Len(s)
<1>1. /\ h \in ToSet(s) /\ t \in Seq(T) /\ ToSet(s) \subseteq T
      /\ ToSet(s) = ToSet(t) \union {h}
  BY ToSetProperties
<1>2. /\ n \in Nat /\ n > 0 /\ h = s[1] /\ Len(t) = n - 1
      /\ \A i \in 1 .. (n - 1) : t[i] = s[i + 1]
      /\ DOMAIN s = 1 .. n
  BY LenProperties, EmptySeq, HeadTailProperties
<1>3. u \in Seq(T) /\ ToSet(u) = ToSet(t) \union {h}
  <2>1. t \in Seq(T) /\ h \in T
    BY <1>1
  <2> HIDE DEF t, h
  <2> QED BY <2>1, ToSetProperties
<1>4. /\ Len(u) = n
      /\ \A i \in 1 .. n : u[i] = IF i = n THEN s[1] ELSE s[i + 1]
  <2>1. /\ Len(u) = Len(t) + 1 /\ u[Len(t) + 1] = h
        /\ \A i \in 1 .. Len(t) : u[i] = t[i]
    BY SMTT(60), <1>1, AppendProperties
  <2> HIDE DEF u, t, h, n
  <2> QED BY <1>2, <2>1
<1>5. DOMAIN u = 1 .. n
  BY <1>3, <1>4, LenProperties
<1>6. ASSUME IsInjective(s) PROVE IsInjective(u)
  <2> SUFFICES ASSUME NEW a \in 1 .. n, NEW b \in 1 .. n, u[a] = u[b] PROVE a = b
    BY <1>5 DEF IsInjective
  <2> HIDE DEF u, t, h, n
  <2>1. \A i, j \in 1 .. n : s[i] = s[j] => i = j
    BY <1>2, <1>6 DEF IsInjective
  <2>2. CASE a = n /\ b # n
    <3>1. s[1] = s[b + 1] /\ b + 1 \in 1 .. n /\ 1 \in 1 .. n
      BY <1>2, <1>4, <2>2
    <3> QED BY <1>2, <2>1, <3>1
  <2>3. CASE a # n /\ b = n
    <3>1. s[a + 1] = s[1] /\ a + 1 \in 1 .. n /\ 1 \in 1 .. n
      BY <1>2, <1>4, <2>3
    <3> QED BY <1>2, <2>1, <3>1
  <2>4. CASE a # n /\ b # n
    <3>1. s[a + 1] = s[b + 1] /\ a + 1 \in 1 .. n /\ b + 1 \in 1 .. n
      BY <1>2, <1>4, <2>4
    <3> QED BY <1>2, <2>1, <3>1
  <2> QED BY <2>2, <2>3, <2>4
<1> QED BY <1>1, <1>3, <1>6

\* A channel changes by a segment that is sent or lost; nothing is announced.
LEMMA ChannelStep ==
    ASSUME RInv, UNCHANGED <<announced, nextAckNum, outRoutingSegments>>,
           NEW n \in Node, NEW l \in LinksOf(n), NEW v \in Seq(Segments),
           \A seg \in ToSet(v) : seg \in ToSet(channel[n][l]) \/ SegmentOK(n, l, seg),
           channel' = [channel EXCEPT ![n][l] = v]
    PROVE  /\ channel' \in PerLink(Seq(Segments))
           /\ \A m \in Node : \A j \in LinksOf(m) :
                channel'[m][j] = IF m = n /\ j = l THEN v ELSE channel[m][j]
           /\ SegmentsOK' /\ SentOK' /\ NothingForgotten'
<1>1. channel \in PerLink(Seq(Segments))
  BY DEF RInv, RTypeOK
<1> DEFINE g == Cell(channel, n, l, v)
<1>2. /\ g \in PerLink(Seq(Segments))
      /\ \A m \in Node : \A j \in LinksOf(m) :
            g[m][j] = IF m = n /\ j = l THEN v ELSE channel[m][j]
  BY <1>1, CellAt
<1>3. channel' = g
  BY DEF Cell
<1> HIDE DEF g
<1>4. ASSUME NEW m \in Node, NEW j \in LinksOf(m), NEW seg \in ToSet(channel'[m][j])
      PROVE  SegmentOK(m, j, seg)'
  <2>1. SegmentOK(m, j, seg)
    <3>1. CASE m = n /\ j = l
      BY <1>2, <1>3, <3>1 DEF RInv, SegmentsOK
    <3>2. CASE ~ (m = n /\ j = l)
      BY <1>2, <1>3, <3>2 DEF RInv, SegmentsOK
    <3> QED BY <3>1, <3>2
  <2> QED BY <2>1 DEF SegmentOK, NO_INFO
<1>5. SegmentsOK'
  BY <1>4 DEF SegmentsOK, LinksOf
<1>6. SentOK' /\ NothingForgotten'
  BY DEF RInv, SentOK, NothingForgotten, LinksOf, Peer, PeerLink
<1> QED BY <1>2, <1>3, <1>5, <1>6

LEMMA RTypeStays ==
    ASSUME RInv, UNCHANGED <<announced, nextAckNum, outRoutingSegments>>,
           channel' \in PerLink(Seq(Segments)), timers' \in [Node -> Seq(Int \X Nat)]
    PROVE  RTypeOK'
BY DEF RInv, RTypeOK, Announcements, PerLink, LinksOf, Segments, NO_INFO

\* The oldest timer is that of a segment that is kept, which goes out again.
LEMMA TimeoutSegment ==
    ASSUME RInv, NEW n \in Node, RoutingTimeout(n)
    PROVE  \E l \in LinksOf(n) : \E v \in Seq(Segments) : \E seg \in Segments :
            /\ v = Append(channel[n][l], seg)
            /\ SegmentOK(n, l, seg)
            /\ channel' = [channel EXCEPT ![n][l] = v]
<1> DEFINE t == Head(timers[n])
<1>1. timers[n] \in Seq(Int \X Nat) /\ timers[n] # <<>>
  BY DEF RInv, RTypeOK, RoutingTimeout
<1>2. t \in ToSet(timers[n])
  BY <1>1, ToSetProperties
<1>3. PICK l \in LinksOf(n) : \E s \in outRoutingSegments[n][l] : t = <<l, s>>
  BY <1>2 DEF RInv, TimersMatch
<1>4. PICK s \in outRoutingSegments[n][l] : t = <<l, s>>
  BY <1>3
<1>5. s \in Nat /\ s < Len(announced[n])
  BY PerLinkType DEF RInv, RTypeOK, SentOK
<1>6. l = t[1] /\ s = t[2]
  BY <1>4
<1> HIDE DEF t
<1>7. /\ UNCHANGED <<announced, nextAckNum>>
      /\ channel' = [channel EXCEPT ![n][l] = Append(@, RoutingSegment(n, l, s))]
  BY <1>4, <1>6 DEF RoutingTimeout, tables, t
<1>8. PICK seg : seg = RoutingSegment(n, l, s)
  OBVIOUS
<1>9. seg \in Segments /\ SegmentOK(n, l, seg)
  <2>1. announced' \in [Node -> Seq(Announcements)] /\ nextAckNum' \in PerLink(Nat)
    BY <1>7 DEF RInv, RTypeOK
  <2>2. seg \in Segments /\ SegmentOK(n, l, seg)'
    BY <1>5, <1>7, <1>8, <2>1, NewSegmentOK
  <2> QED BY <1>7, <2>2 DEF SegmentOK, NO_INFO
<1>10. PICK v : v = Append(channel[n][l], seg)
  OBVIOUS
<1>11. channel[n][l] \in Seq(Segments)
  BY PerLinkType DEF RInv, RTypeOK
<1>12. v \in Seq(Segments)
  BY <1>9, <1>10, <1>11, ToSetProperties
<1>13. channel' = [channel EXCEPT ![n][l] = v]
  BY <1>7, <1>8, <1>10
<1> QED BY <1>9, <1>10, <1>12, <1>13

LEMMA TimeoutRInv ==
    ASSUME RInv, NEW n \in Node, RoutingTimeout(n)
    PROVE  RInv'
<1> DEFINE u == Append(Tail(timers[n]), Head(timers[n]))
<1>1. /\ timers \in [Node -> Seq(Int \X Nat)] /\ timers[n] \in Seq(Int \X Nat)
      /\ timers[n] # <<>>
  BY DEF RInv, RTypeOK, RoutingTimeout
<1>2. PICK l \in LinksOf(n), v \in Seq(Segments), seg \in Segments :
        /\ v = Append(channel[n][l], seg)
        /\ SegmentOK(n, l, seg)
        /\ channel' = [channel EXCEPT ![n][l] = v]
  BY TimeoutSegment
<1>3. UNCHANGED <<announced, nextAckNum, outRoutingSegments>>
  BY DEF RoutingTimeout, tables
<1>4. timers' = [timers EXCEPT ![n] = u]
  <2>1. Head(timers[n]) \in Int \X Nat
    BY <1>1, ToSetProperties
  <2>2. Head(timers[n]) = <<Head(timers[n])[1], Head(timers[n])[2]>>
    BY <2>1
  <2> QED BY <2>2 DEF RoutingTimeout
<1>5. /\ channel' \in PerLink(Seq(Segments))
      /\ SegmentsOK' /\ SentOK' /\ NothingForgotten'
  <2>1. channel[n][l] \in Seq(Segments)
    BY PerLinkType DEF RInv, RTypeOK
  <2>2. \A x \in ToSet(v) : x \in ToSet(channel[n][l]) \/ SegmentOK(n, l, x)
    BY <1>2, <2>1, ToSetProperties
  <2> QED BY <1>2, <1>3, <2>2, ChannelStep
<1>6. /\ u \in Seq(Int \X Nat)
      /\ ToSet(u) = ToSet(timers[n])
      /\ IsInjective(timers[n]) => IsInjective(u)
  BY <1>1, RotateInjective
<1> HIDE DEF u
<1>7. timers' \in [Node -> Seq(Int \X Nat)]
      /\ \A m \in Node : timers'[m] = IF m = n THEN u ELSE timers[m]
  BY <1>1, <1>4, <1>6
<1>8. ASSUME NEW m \in Node
      PROVE  /\ ToSet(timers'[m]) =
                   UNION {{<<j, q>> : q \in outRoutingSegments'[m][j]} : j \in LinksOf(m)}
             /\ IsInjective(timers'[m])
  <2>1. ToSet(timers'[m]) = ToSet(timers[m]) /\ IsInjective(timers'[m])
    BY <1>6, <1>7 DEF RInv, TimersMatch
  <2>2. ToSet(timers[m]) =
            UNION {{<<j, q>> : q \in outRoutingSegments[m][j]} : j \in LinksOf(m)}
    BY DEF RInv, TimersMatch
  <2> QED BY <1>3, <2>1, <2>2
<1>9. TimersMatch'
  BY <1>8 DEF TimersMatch, LinksOf, ToSet, IsInjective
<1>10. RTypeOK'
  BY <1>3, <1>5, <1>7, RTypeStays
<1> QED BY <1>5, <1>9, <1>10 DEF RInv

LEMMA LoseRInv ==
    ASSUME RInv, NEW n \in Node, NEW l \in LinksOf(n), Lose(n, l)
    PROVE  RInv'
<1> DEFINE v == Tail(channel[n][l])
<1>1. /\ channel[n][l] # <<>>
      /\ channel' = [channel EXCEPT ![n][l] = v]
      /\ UNCHANGED <<announced, nextAckNum, outRoutingSegments, timers>>
  BY DEF Lose, tables
<1>2. channel[n][l] \in Seq(Segments)
  BY PerLinkType DEF RInv, RTypeOK
<1>3. v \in Seq(Segments) /\ ToSet(v) \subseteq ToSet(channel[n][l])
  BY <1>1, <1>2, ToSetProperties
<1>4. /\ channel' \in PerLink(Seq(Segments))
      /\ SegmentsOK' /\ SentOK' /\ NothingForgotten'
  <2> HIDE DEF v
  <2> QED BY <1>1, <1>3, ChannelStep
<1>5. timers' \in [Node -> Seq(Int \X Nat)] /\ TimersMatch'
  BY SMTT(60), <1>1 DEF RInv, RTypeOK, TimersMatch, LinksOf, ToSet, IsInjective
<1>6. RTypeOK'
  BY <1>1, <1>4, <1>5, RTypeStays
<1> QED BY <1>4, <1>5, <1>6 DEF RInv

-----------------------------------------------------------------------------
(* The theorems. *)

LEMMA InitRInv == Init => RInv
<1> SUFFICES ASSUME Init PROVE RInv
  OBVIOUS
<1>1. /\ announced = [n \in Node |-> <<SelfInfo(n)>>]
      /\ nextAckNum = [n \in Node |-> [l \in LinksOf(n) |-> 0]]
      /\ outRoutingSegments = [n \in Node |-> [l \in LinksOf(n) |-> {0}]]
      /\ timers = [n \in Node |-> [l \in LinksOf(n) |-> <<l, 0>>]]
      /\ channel = [n \in Node |-> [l \in LinksOf(n) |->
                      <<[seq_num |-> 0, ack_num |-> 0, info |-> SelfInfo(n)]>>]]
  BY DEF Init, TablesInit, perLink
<1>2. \A n \in Node : SelfInfo(n) \in Announcements
  BY DEF SelfInfo, Announcements, INT_MAX
<1>3. \A n \in Node : LinksOf(n) = 1 .. Len(Links[n]) /\ Len(Links[n]) \in Nat
  BY RoutingTableAssumption, LenProperties DEF LinksOf
<1>4. ASSUME NEW n \in Node
      PROVE  /\ announced[n] \in Seq(Announcements)
             /\ Len(announced[n]) = 1 /\ announced[n][1] = SelfInfo(n)
  <2> DEFINE x == SelfInfo(n)
  <2>1. announced[n] = <<x>> /\ x \in Announcements
    BY <1>1, <1>2
  <2> HIDE DEF x
  <2> QED BY <2>1 DEF x
<1>5. ASSUME NEW n \in Node, NEW l \in LinksOf(n)
      PROVE  /\ channel[n][l] \in Seq(Segments)
             /\ \A seg \in ToSet(channel[n][l]) : SegmentOK(n, l, seg)
  <2> DEFINE seg == [seq_num |-> 0, ack_num |-> 0, info |-> SelfInfo(n)]
  <2>1. seg \in Segments
    BY <1>2 DEF Segments
  <2>2. SegmentOK(n, l, seg)
    BY <1>1, <1>4 DEF SegmentOK
  <2>3. channel[n][l] = <<seg>>
    BY <1>1
  <2> HIDE DEF seg
  <2>4. <<seg>> \in Seq(Segments) /\ ToSet(<<seg>>) = {seg}
    BY <2>1 DEF ToSet
  <2> QED BY <2>2, <2>3, <2>4
<1>6. ASSUME NEW n \in Node
      PROVE  /\ timers[n] \in Seq(Int \X Nat)
             /\ ToSet(timers[n]) =
                  UNION {{<<l, s>> : s \in outRoutingSegments[n][l]} : l \in LinksOf(n)}
             /\ IsInjective(timers[n])
  <2>1. timers[n] = [l \in LinksOf(n) |-> <<l, 0>>]
    BY <1>1
  <2>2. timers[n] \in [1 .. Len(Links[n]) -> Int \X Nat]
    BY <1>3, <2>1
  <2>3. timers[n] \in Seq(Int \X Nat)
    BY <1>3, <2>2, SeqDef
  <2>4. DOMAIN timers[n] = LinksOf(n) /\ \A l \in LinksOf(n) : timers[n][l] = <<l, 0>>
    BY <2>1
  <2>5. IsInjective(timers[n])
    BY <2>4 DEF IsInjective
  <2>6. \A t : t \in ToSet(timers[n]) <=> \E l \in LinksOf(n) : t = <<l, 0>>
    BY <2>4 DEF ToSet
  <2>7. \A l \in LinksOf(n) : outRoutingSegments[n][l] = {0}
    BY <1>1
  <2> QED BY <2>3, <2>5, <2>6, <2>7
<1>7. RTypeOK
  <2>1. /\ announced \in [Node -> Seq(Announcements)]
        /\ timers \in [Node -> Seq(Int \X Nat)]
    BY <1>1, <1>4, <1>6
  <2>2. nextAckNum \in PerLink(Nat) /\ outRoutingSegments \in PerLink(SUBSET Nat)
    <3>1. /\ nextAckNum = [n \in Node |-> nextAckNum[n]]
          /\ \A n \in Node : nextAckNum[n] \in [LinksOf(n) -> Nat]
          /\ outRoutingSegments = [n \in Node |-> outRoutingSegments[n]]
          /\ \A n \in Node : outRoutingSegments[n] \in [LinksOf(n) -> SUBSET Nat]
      BY <1>1
    <3> QED BY <3>1, PerLinkIntro
  <2>3. channel \in PerLink(Seq(Segments))
    <3>1. \A n \in Node : channel[n] \in [LinksOf(n) -> Seq(Segments)]
      BY <1>1, <1>5
    <3>2. channel = [n \in Node |-> channel[n]]
      BY <1>1
    <3> QED BY <3>1, <3>2, PerLinkIntro
  <2> QED BY <2>1, <2>2, <2>3 DEF RTypeOK
<1>8. SegmentsOK /\ TimersMatch
  BY <1>5, <1>6 DEF SegmentsOK, TimersMatch
<1>9. SentOK
  BY <1>1, <1>4 DEF SentOK
<1>10. NothingForgotten
  <2> SUFFICES ASSUME NEW n \in Node, NEW l \in LinksOf(n),
                      NEW s \in nextAckNum[Peer(n, l)][PeerLink(n, l)]
                                  .. (Len(announced[n]) - 1)
               PROVE  s \in outRoutingSegments[n][l]
    BY DEF NothingForgotten
  <2>1. nextAckNum[Peer(n, l)][PeerLink(n, l)] = 0
    BY <1>1, LinkEnds
  <2> QED BY <1>1, <1>4, <2>1
<1> QED BY <1>7, <1>8, <1>9, <1>10 DEF RInv

LEMMA NextRInv == RInv /\ [Next]_vars => RInv'
<1> SUFFICES ASSUME RInv, [Next]_vars PROVE RInv'
  OBVIOUS
<1>1. ASSUME NEW n \in Node, RoutingTimeout(n) PROVE RInv'
  BY <1>1, TimeoutRInv
<1>2. ASSUME NEW n \in Node, NEW l \in LinksOf(n), routing_receive(n, l) PROVE RInv'
  BY <1>2, ReceiveRInv
<1>3. ASSUME NEW n \in Node, NEW l \in LinksOf(n), Lose(n, l) PROVE RInv'
  BY <1>3, LoseRInv
<1>4. CASE UNCHANGED vars
  <2>1. UNCHANGED <<announced, nextAckNum, outRoutingSegments, timers, channel>>
    BY <1>4 DEF vars, tables
  <2>2. RTypeOK'
    BY <2>1 DEF RInv, RTypeOK, Announcements, PerLink, LinksOf, Segments, NO_INFO
  <2>3. SegmentsOK' /\ SentOK'
    BY <2>1 DEF RInv, SegmentsOK, SegmentOK, SentOK, LinksOf, NO_INFO, ToSet
  <2>4. TimersMatch'
    BY <2>1 DEF RInv, TimersMatch, LinksOf, ToSet, IsInjective
  <2>5. NothingForgotten'
    BY <2>1 DEF RInv, NothingForgotten, LinksOf, Peer, PeerLink
  <2> QED BY <2>2, <2>3, <2>4, <2>5 DEF RInv
<1> QED BY <1>1, <1>2, <1>3, <1>4 DEF Next

LEMMA SpecRInv == Spec => []RInv
BY InitRInv, NextRInv, PTL DEF Spec

\* A ROUTING_TIMER is pending for exactly the segments that are kept, one for each,
\* on any network: none expires for a segment that was freed.
THEOREM RoutingTimersMatch == Spec => []TimersMatch
<1>1. RInv => TimersMatch
  BY DEF RInv
<1> QED BY <1>1, SpecRInv, PTL

\* However many segments a link loses, what a neighbour has not got is kept.
THEOREM KeptForNeighbours == Spec => []NothingForgotten
<1>1. RInv => NothingForgotten
  BY DEF RInv
<1> QED BY <1>1, SpecRInv, PTL

-----------------------------------------------------------------------------
(* Routing implements DistanceVector: announcements are applied once and in  *)
(* order, and at most the first one is missed.                               *)

LEMMA InfoIsNot ==
    ASSUME NEW info \in Announcements
    PROVE  info # NO_INFO
<1>1. "weight" \in DOMAIN info
  BY DEF Announcements
<1>2. DOMAIN NO_INFO = {}
  BY EmptySeq DEF NO_INFO
<1> QED BY <1>1, <1>2

\* The two modules have the tables and what is done with them in common.
LEMMA SameApplyInfo ==
    ASSUME NEW n, NEW l, NEW info, ApplyInfo(n, l, info)
    PROVE  DV!ApplyInfo(n, l, info)
BY DEF ApplyInfo, update_routing_table, tables, BestChoiceChanged, IsBest, Extended,
       EntryOf, get_weight, LinksOf, NO_ENTRY, INT_MAX,
       DV!ApplyInfo, DV!update_routing_table, DV!tables, DV!BestChoiceChanged,
       DV!IsBest, DV!Extended, DV!EntryOf, DV!get_weight, DV!LinksOf, DV!NO_ENTRY,
       DV!INT_MAX

\* A segment that is in order carries the next announcement, or it is an
\* acknowledgment on its own and the first segment is awaited.
LEMMA InOrderCarries ==
    ASSUME RInv, NEW n \in Node, NEW l \in LinksOf(n), routing_receive(n, l),
           NEW p \in Node, p = Peer(n, l), NEW k \in LinksOf(p), k = PeerLink(n, l),
           NEW seg, seg = Head(channel[p][k]), InOrder(n, l, seg)
    PROVE  /\ seg.info = NO_INFO => nextAckNum[n][l] = 0
           /\ seg.info # NO_INFO =>
                /\ nextAckNum[n][l] < Len(announced[p])
                /\ seg.info = announced[p][nextAckNum[n][l] + 1]
<1>1. seg \in Segments /\ SegmentOK(p, k, seg) /\ seg.seq_num = nextAckNum[n][l]
  BY ArrivalEffect DEF InOrder
<1>2. CASE seg.info = NO_INFO /\ seg.seq_num = 0
  BY <1>1, <1>2
<1>3. CASE seg.seq_num < Len(announced[p]) /\ seg.info = announced[p][seg.seq_num + 1]
  <2>1. announced[p] \in Seq(Announcements) /\ seg.seq_num \in Nat
    BY <1>1 DEF RInv, RTypeOK, Segments
  <2>2. Len(announced[p]) \in Nat
    BY <2>1, LenProperties
  <2>3. seg.seq_num + 1 \in 1 .. Len(announced[p])
    BY SMTT(60), <1>3, <2>1, <2>2
  <2>4. seg.info \in Announcements
    BY <1>3, <2>1, <2>3, ElementOfSeq
  <2> QED BY <1>1, <1>3, <2>4, InfoIsNot
<1> QED BY <1>1, <1>2, <1>3 DEF SegmentOK

\* What the arrival of a segment does to the tables and to the awaited number.
LEMMA ArrivalTables ==
    ASSUME NEW n \in Node, NEW l \in LinksOf(n), routing_receive(n, l),
           NEW seg, seg = Head(channel[Peer(n, l)][PeerLink(n, l)])
    PROVE  /\ nextAckNum' = IF InOrder(n, l, seg)
                            THEN [nextAckNum EXCEPT ![n][l] = @ + 1] ELSE nextAckNum
           /\ IF InOrder(n, l, seg) /\ seg.info # NO_INFO THEN ApplyInfo(n, l, seg.info)
              ELSE UNCHANGED tables
BY SMTT(60) DEF routing_receive

LEMMA InOrderApplies ==
    ASSUME RInv, NEW n \in Node, NEW l \in LinksOf(n), routing_receive(n, l),
           NEW seg, seg = Head(channel[Peer(n, l)][PeerLink(n, l)]),
           InOrder(n, l, seg), seg.info # NO_INFO
    PROVE  DV!Apply(n, l)
<1>1. PICK p \in Node, k \in LinksOf(Peer(n, l)) : p = Peer(n, l) /\ k = PeerLink(n, l)
  BY LinkEnds
<1>2. /\ nextAckNum' = [nextAckNum EXCEPT ![n][l] = @ + 1]
      /\ ApplyInfo(n, l, seg.info)
  BY ArrivalTables
<1>3. /\ nextAckNum[n][l] < Len(announced[p])
      /\ seg.info = announced[p][nextAckNum[n][l] + 1]
  BY <1>1, InOrderCarries
<1>4. DV!ApplyInfo(n, l, announced[p][nextAckNum[n][l] + 1])
  BY SMTT(60), <1>2, <1>3, SameApplyInfo
<1> QED BY <1>1, <1>2, <1>3, <1>4 DEF DV!Apply, DV!Peer, Peer

LEMMA ReceiveImplements ==
    ASSUME RInv, NEW n \in Node, NEW l \in LinksOf(n), routing_receive(n, l)
    PROVE  [DV!DVNext]_(DV!dvVars)
<1>1. PICK p \in Node, k \in LinksOf(Peer(n, l)) : p = Peer(n, l) /\ k = PeerLink(n, l)
  BY LinkEnds
<1>2. PICK seg : seg = Head(channel[p][k])
  OBVIOUS
<1>3. CASE InOrder(n, l, seg) /\ seg.info # NO_INFO
  <2>1. DV!Apply(n, l)
    BY <1>1, <1>2, <1>3, InOrderApplies
  <2> QED BY <2>1 DEF DV!DVNext, DV!LinksOf, LinksOf
<1>4. CASE InOrder(n, l, seg) /\ seg.info = NO_INFO
  <2>1. nextAckNum[n][l] = 0
    BY <1>1, <1>2, <1>4, InOrderCarries
  <2>2. nextAckNum' = [nextAckNum EXCEPT ![n][l] = @ + 1] /\ UNCHANGED tables
    BY <1>1, <1>2, <1>4, ArrivalTables
  <2>3. nextAckNum' = [nextAckNum EXCEPT ![n][l] = 1]
    BY <2>1, <2>2
  <2>4. DV!MissFirst(n, l)
    BY <2>1, <2>2, <2>3 DEF DV!MissFirst, DV!tables, tables
  <2> QED BY <2>4 DEF DV!DVNext, DV!LinksOf, LinksOf
<1>5. CASE ~ InOrder(n, l, seg)
  <2>1. nextAckNum' = nextAckNum /\ UNCHANGED tables
    BY <1>1, <1>2, <1>5, ArrivalTables
  <2> QED BY <2>1 DEF tables, DV!dvVars, DV!tables
<1> QED BY <1>3, <1>4, <1>5

LEMMA InitImplements == Init => DV!DVInit
BY SMTT(60) DEF Init, perLink, DV!DVInit, TablesInit, DV!TablesInit, SelfInfo, DV!SelfInfo,
       INT_MAX, DV!INT_MAX, NO_ENTRY, DV!NO_ENTRY, NO_LINK, DV!NO_LINK, LinksOf,
       DV!LinksOf

\* Neither a timer nor a loss touches the tables.
LEMMA OthersImplement ==
    ASSUME NEW n \in Node, \/ RoutingTimeout(n)
                           \/ \E l \in LinksOf(n) : Lose(n, l)
    PROVE  UNCHANGED DV!dvVars
BY DEF RoutingTimeout, Lose, tables, DV!dvVars, DV!tables

\* Whatever is lost, however late a segment arrives and however many of its
\* retransmissions are under way: a node applies what its neighbours announce
\* once and in order, and misses at most the first announcement of each, to the
\* acknowledgment that passes for it (transmit_distance_ack leaves seq_num 0).
\* What is proved of DistanceVector holds of the protocol, then.
THEOREM AppliesAnnouncements == Spec => AnnouncementsApplied
<1>1. RInv /\ [Next]_vars => [DV!DVNext]_(DV!dvVars)
  <2> SUFFICES ASSUME RInv, [Next]_vars
               PROVE  [DV!DVNext]_(DV!dvVars)
    OBVIOUS
  <2>1. ASSUME NEW n \in Node, NEW l \in LinksOf(n), routing_receive(n, l)
        PROVE  [DV!DVNext]_(DV!dvVars)
    BY <2>1, ReceiveImplements
  <2>2. ASSUME NEW n \in Node, \/ RoutingTimeout(n)
                               \/ \E l \in LinksOf(n) : Lose(n, l)
        PROVE  UNCHANGED DV!dvVars
    BY <2>2, OthersImplement
  <2>3. CASE UNCHANGED vars
    BY <2>3 DEF vars, tables, DV!dvVars, DV!tables
  <2> QED BY <2>1, <2>2, <2>3 DEF Next
<1> QED BY <1>1, SpecRInv, InitImplements, PTL DEF Spec, AnnouncementsApplied, DV!DVSpec

-----------------------------------------------------------------------------
(* The announcements arrive, all of them and in order, if a link does not    *)
(* lose the first segment.                                                   *)

\* A link may lose any segment once the neighbour has received the first one.
FirstArrives ==
    [][\A n \in Node : \A l \in LinksOf(n) :
        Lose(n, l) => nextAckNum[Peer(n, l)][PeerLink(n, l)] > 0]_vars

\* Until the first segment is received it is the next to arrive.  Otherwise an
\* acknowledgment on its own, with sequence number 0, would pass for it.
FirstUnderWay ==
    \A n \in Node : \A l \in LinksOf(n) :
        nextAckNum[Peer(n, l)][PeerLink(n, l)] = 0 =>
            /\ channel[n][l] # <<>>
            /\ Head(channel[n][l]).seq_num = 0
            /\ Head(channel[n][l]).info # NO_INFO

LEMMA InitFirstUnderWay == Init => FirstUnderWay
<1> SUFFICES ASSUME Init, NEW n \in Node, NEW l \in LinksOf(n)
             PROVE  /\ channel[n][l] # <<>>
                    /\ Head(channel[n][l]).seq_num = 0
                    /\ Head(channel[n][l]).info # NO_INFO
  BY DEF FirstUnderWay
<1> DEFINE info == SelfInfo(n)
<1>1. info \in Announcements
  BY DEF SelfInfo, Announcements, INT_MAX
<1>2. channel[n][l] = <<[seq_num |-> 0, ack_num |-> 0, info |-> info]>>
  BY DEF Init
<1> HIDE DEF info
<1> QED BY <1>1, <1>2, InfoIsNot

\* A segment that is sent on a channel does not overtake.
LEMMA FirstStays ==
    ASSUME RInv, NEW n \in Node, NEW l \in LinksOf(n), channel[n][l] # <<>>,
           \/ channel'[n][l] = channel[n][l]
           \/ \E x \in Segments : channel'[n][l] = Append(channel[n][l], x)
    PROVE  channel'[n][l] # <<>> /\ Head(channel'[n][l]) = Head(channel[n][l])
<1>1. channel[n][l] \in Seq(Segments)
  BY PerLinkType DEF RInv, RTypeOK
<1>2. ASSUME NEW x \in Segments, channel'[n][l] = Append(channel[n][l], x)
      PROVE  channel'[n][l] # <<>> /\ Head(channel'[n][l]) = Head(channel[n][l])
  <2>1. x \in ToSet(channel'[n][l]) /\ Head(channel'[n][l]) = Head(channel[n][l])
    BY <1>1, <1>2, ToSetProperties
  <2>2. ToSet(<<>>) = {}
    BY EmptySeq DEF ToSet
  <2> QED BY <2>1, <2>2
<1> QED BY <1>2

\* A retransmission is appended to one channel.
LEMMA TimeoutSends ==
    ASSUME RInv, NEW n \in Node, RoutingTimeout(n),
           NEW m \in Node, NEW j \in LinksOf(m)
    PROVE  \/ channel'[m][j] = channel[m][j]
           \/ \E x \in Segments : channel'[m][j] = Append(channel[m][j], x)
<1>1. PICK l \in LinksOf(n), v \in Seq(Segments), seg \in Segments :
        /\ v = Append(channel[n][l], seg)
        /\ channel' = [channel EXCEPT ![n][l] = v]
  BY TimeoutSegment
<1>2. channel \in PerLink(Seq(Segments)) /\ channel' = Cell(channel, n, l, v)
  BY <1>1 DEF RInv, RTypeOK, Cell
<1>3. channel'[m][j] = IF m = n /\ j = l THEN v ELSE channel[m][j]
  BY SMTT(60), <1>2, CellAt
<1> QED BY <1>1, <1>3

LEMMA KeepsFirstUnderWay ==
    ASSUME RInv, FirstUnderWay, NEW n \in Node,
           \/ RoutingTimeout(n)
           \/ \E l \in LinksOf(n) : routing_receive(n, l)
           \/ \E l \in LinksOf(n) :
                Lose(n, l) /\ nextAckNum[Peer(n, l)][PeerLink(n, l)] > 0
    PROVE  FirstUnderWay'
<1>1. ASSUME NEW m \in Node, NEW j \in LinksOf(m), NEW q \in Node, q = Peer(m, j),
             NEW i \in LinksOf(q), i = PeerLink(m, j), nextAckNum'[q][i] = 0
      PROVE  /\ channel'[m][j] # <<>>
             /\ Head(channel'[m][j]).seq_num = 0
             /\ Head(channel'[m][j]).info # NO_INFO
  <2>1. nextAckNum[q][i] \in Nat /\ channel[m][j] \in Seq(Segments)
        /\ channel \in PerLink(Seq(Segments))
    BY PerLinkType DEF RInv, RTypeOK
  <2>2. SUFFICES ASSUME nextAckNum[q][i] = 0
                 PROVE  \/ channel'[m][j] = channel[m][j]
                        \/ \E x \in Segments : channel'[m][j] = Append(channel[m][j], x)
    <3>1. nextAckNum[q][i] = 0
      <4>1. CASE \E l \in LinksOf(n) : routing_receive(n, l)
        <5>1. AcksGrow
          <6>1. PICK l \in LinksOf(n) : routing_receive(n, l)
            BY <4>1
          <6>2. PICK p \in Node, k \in LinksOf(Peer(n, l)) :
                    p = Peer(n, l) /\ k = PeerLink(n, l)
            BY LinkEnds
          <6> QED BY <6>1, <6>2, ArrivalEffect
        <5>2. nextAckNum[q][i] <= nextAckNum'[q][i]
          BY SMTT(60), <5>1 DEF AcksGrow
        <5> QED BY <1>1, <2>1, <5>2
      <4>2. CASE RoutingTimeout(n) \/ \E l \in LinksOf(n) : Lose(n, l)
        BY <1>1, <4>2 DEF RoutingTimeout, Lose
      <4> QED BY <4>1, <4>2
    <3>2. /\ channel[m][j] # <<>>
          /\ Head(channel[m][j]).seq_num = 0
          /\ Head(channel[m][j]).info # NO_INFO
      BY SMTT(60), <1>1, <3>1 DEF FirstUnderWay
    <3>3. \/ channel'[m][j] = channel[m][j]
          \/ \E x \in Segments : channel'[m][j] = Append(channel[m][j], x)
      BY <2>2, <3>1
    <3> QED BY <3>2, <3>3, FirstStays
  <2>3. ASSUME NEW l \in LinksOf(n), routing_receive(n, l)
        PROVE  \/ channel'[m][j] = channel[m][j]
               \/ \E x \in Segments : channel'[m][j] = Append(channel[m][j], x)
    <3>1. PICK p \in Node, k \in LinksOf(Peer(n, l)) : p = Peer(n, l) /\ k = PeerLink(n, l)
      BY LinkEnds
    <3>2. CASE m = p /\ j = k
      <4>1. q = n /\ i = l
        BY <1>1, <3>1, <3>2, LinkEnds
      <4>2. Head(channel[p][k]).seq_num = 0
        BY <1>1, <2>2, <3>2 DEF FirstUnderWay
      <4>3. nextAckNum'[n][l] = 1
        <5>1. PICK seg : seg = Head(channel[p][k])
          OBVIOUS
        <5>2. InOrder(n, l, seg)
          BY <2>2, <4>1, <4>2, <5>1 DEF InOrder
        <5>3. nextAckNum'[n][l] = nextAckNum[n][l] + 1
          BY <2>3, <3>1, <5>1, <5>2, ArrivalEffect
        <5> QED BY <2>2, <4>1, <5>3
      <4> QED BY <1>1, <4>1, <4>3
    <3>3. CASE m # p \/ j # k
      BY <2>3, <3>1, <3>3, ArrivalSends
    <3> QED BY <3>2, <3>3
  <2>4. ASSUME RoutingTimeout(n)
        PROVE  \/ channel'[m][j] = channel[m][j]
               \/ \E x \in Segments : channel'[m][j] = Append(channel[m][j], x)
    BY <2>4, TimeoutSends
  <2>5. ASSUME NEW l \in LinksOf(n), Lose(n, l),
               nextAckNum[Peer(n, l)][PeerLink(n, l)] > 0
        PROVE  channel'[m][j] = channel[m][j]
    <3>1. m # n \/ j # l
      BY <1>1, <2>2, <2>5
    <3>2. channel' = [channel EXCEPT ![n][l] = Tail(@)]
      BY <2>5 DEF Lose
    <3> QED BY <2>1, <3>1, <3>2 DEF PerLink
  <2> QED BY <2>3, <2>4, <2>5
<1>2. ASSUME NEW m \in Node, NEW j \in LinksOf(m),
             nextAckNum'[Peer(m, j)][PeerLink(m, j)] = 0
      PROVE  /\ channel'[m][j] # <<>>
             /\ Head(channel'[m][j]).seq_num = 0
             /\ Head(channel'[m][j]).info # NO_INFO
  <2>1. PICK q \in Node, i \in LinksOf(Peer(m, j)) : q = Peer(m, j) /\ i = PeerLink(m, j)
    BY LinkEnds
  <2> QED BY <1>1, <1>2, <2>1
<1> QED BY <1>2 DEF FirstUnderWay, LinksOf, Peer, PeerLink, NO_INFO

LEMMA SpecFirstUnderWay == Spec /\ FirstArrives => []FirstUnderWay
<1> DEFINE Arrives ==
        \A n \in Node : \A l \in LinksOf(n) :
            Lose(n, l) => nextAckNum[Peer(n, l)][PeerLink(n, l)] > 0
<1>1. RInv /\ FirstUnderWay /\ [Next]_vars /\ [Arrives]_vars => FirstUnderWay'
  <2> SUFFICES ASSUME RInv, FirstUnderWay, [Next]_vars, [Arrives]_vars
               PROVE  FirstUnderWay'
    OBVIOUS
  <2>1. CASE UNCHANGED vars
    BY <2>1 DEF vars, FirstUnderWay, LinksOf, Peer, PeerLink, NO_INFO
  <2>2. CASE Next /\ Arrives
    <3>1. PICK n \in Node :
            \/ RoutingTimeout(n)
            \/ \E l \in LinksOf(n) : routing_receive(n, l) \/ Lose(n, l)
      BY <2>2 DEF Next
    <3>2. CASE RoutingTimeout(n)
      BY <3>2, KeepsFirstUnderWay
    <3>3. CASE \E l \in LinksOf(n) : routing_receive(n, l)
      BY <3>3, KeepsFirstUnderWay
    <3>4. CASE \E l \in LinksOf(n) : Lose(n, l)
      <4>1. \E l \in LinksOf(n) :
                Lose(n, l) /\ nextAckNum[Peer(n, l)][PeerLink(n, l)] > 0
        BY SMTT(60), <2>2, <3>4
      <4> QED BY <4>1, KeepsFirstUnderWay
    <3> QED BY <3>1, <3>2, <3>3, <3>4
  <2> QED BY <2>1, <2>2
<1> QED BY <1>1, SpecRInv, InitFirstUnderWay, PTL DEF Spec, FirstArrives

-----------------------------------------------------------------------------
(* With the first segments received none is passed over. *)

LEMMA InOrderInforms ==
    ASSUME RInv, FirstUnderWay, NEW n \in Node, NEW l \in LinksOf(n),
           routing_receive(n, l),
           NEW p \in Node, p = Peer(n, l), NEW k \in LinksOf(p), k = PeerLink(n, l),
           NEW seg, seg = Head(channel[p][k]), InOrder(n, l, seg)
    PROVE  /\ seg.info # NO_INFO
           /\ nextAckNum[n][l] < Len(announced[p])
           /\ seg.info = announced[p][nextAckNum[n][l] + 1]
<1>1. Peer(p, k) = n /\ PeerLink(p, k) = l
  BY LinkEnds
<1>2. seg.info # NO_INFO
  <2> SUFFICES ASSUME seg.info = NO_INFO PROVE FALSE
    OBVIOUS
  <2>1. nextAckNum[Peer(p, k)][PeerLink(p, k)] = 0
    BY <1>1, InOrderCarries
  <2> QED BY <2>1 DEF FirstUnderWay
<1> QED BY <1>2, InOrderCarries

LEMMA ReceiveApplies ==
    ASSUME RInv, FirstUnderWay, NEW n \in Node, NEW l \in LinksOf(n),
           routing_receive(n, l)
    PROVE  [\E m \in Node : \E j \in DV!LinksOf(m) : DV!Apply(m, j)]_(DV!dvVars)
<1>1. PICK p \in Node, k \in LinksOf(Peer(n, l)) : p = Peer(n, l) /\ k = PeerLink(n, l)
  BY LinkEnds
<1>2. PICK seg : seg = Head(channel[p][k])
  OBVIOUS
<1>3. CASE InOrder(n, l, seg)
  <2>1. DV!Apply(n, l)
    BY <1>1, <1>2, <1>3, InOrderInforms, InOrderApplies
  <2> QED BY <2>1 DEF DV!LinksOf, LinksOf
<1>4. CASE ~ InOrder(n, l, seg)
  <2>1. nextAckNum' = nextAckNum /\ UNCHANGED tables
    BY <1>1, <1>2, <1>4, ArrivalTables
  <2> QED BY <2>1 DEF tables, DV!dvVars, DV!tables
<1> QED BY <1>3, <1>4

\* Nothing is missed as long as no link loses the first segment, whatever else is
\* lost.
THEOREM DeliversAnnouncements == Spec /\ FirstArrives => ReliableRouting
<1> DEFINE Applies == \E n \in Node : \E l \in DV!LinksOf(n) : DV!Apply(n, l)
<1>1. RInv /\ FirstUnderWay /\ [Next]_vars => [Applies]_(DV!dvVars)
  <2> SUFFICES ASSUME RInv, FirstUnderWay, [Next]_vars
               PROVE  [Applies]_(DV!dvVars)
    OBVIOUS
  <2>1. ASSUME NEW n \in Node, NEW l \in LinksOf(n), routing_receive(n, l)
        PROVE  [Applies]_(DV!dvVars)
    BY <2>1, ReceiveApplies
  <2>2. ASSUME NEW n \in Node, \/ RoutingTimeout(n)
                               \/ \E l \in LinksOf(n) : Lose(n, l)
        PROVE  UNCHANGED DV!dvVars
    BY <2>2, OthersImplement
  <2>3. CASE UNCHANGED vars
    BY <2>3 DEF vars, tables, DV!dvVars, DV!tables
  <2> QED BY <2>1, <2>2, <2>3 DEF Next
<1> QED BY <1>1, SpecRInv, SpecFirstUnderWay, InitImplements, PTL
        DEF Spec, ReliableRouting, DV!ReliableDVSpec

-----------------------------------------------------------------------------
(* What a node has heard first of a neighbour is the neighbour. *)

KnownInv ==
    /\ \A n \in Node : Len(announced[n]) > 0 /\ announced[n][1] = SelfInfo(n)
    /\ app = [n \in Node |-> app[n]]
    /\ NeighbourKnown

LEMMA InitKnownInv == Init => KnownInv
<1> SUFFICES ASSUME Init PROVE KnownInv
  OBVIOUS
<1>1. ASSUME NEW n \in Node
      PROVE  Len(announced[n]) > 0 /\ announced[n][1] = SelfInfo(n)
  <2> DEFINE x == SelfInfo(n)
  <2>1. announced[n] = <<x>>
    BY DEF Init, TablesInit
  <2> HIDE DEF x
  <2> QED BY <2>1 DEF x
<1>2. app = [n \in Node |-> app[n]]
  BY DEF Init, TablesInit
<1>3. NeighbourKnown
  BY DEF Init, perLink, NeighbourKnown
<1> QED BY <1>1, <1>2, <1>3 DEF KnownInv

LEMMA ReceiveKnownInv ==
    ASSUME RInv, FirstUnderWay, KnownInv, NEW n \in Node, NEW l \in LinksOf(n),
           routing_receive(n, l)
    PROVE  KnownInv'
<1>1. PICK p \in Node, k \in LinksOf(Peer(n, l)) : p = Peer(n, l) /\ k = PeerLink(n, l)
  BY LinkEnds
<1>2. PICK seg : seg = Head(channel[p][k])
  OBVIOUS
<1>3. /\ TablesEffect(n)
      /\ \A m \in Node : \A j \in LinksOf(m) :
            nextAckNum'[m][j] = IF m = n /\ j = l /\ InOrder(n, l, seg)
                                THEN nextAckNum[m][j] + 1 ELSE nextAckNum[m][j]
  BY <1>1, <1>2, ArrivalEffect
<1>4. ASSUME NEW m \in Node
      PROVE  Len(announced'[m]) > 0 /\ announced'[m][1] = SelfInfo(m)
  <2>1. /\ Len(announced[m]) \in Nat /\ Len(announced'[m]) \in Nat
        /\ Len(announced[m]) <= Len(announced'[m])
        /\ \A i \in 1 .. Len(announced[m]) : announced'[m][i] = announced[m][i]
    BY <1>3, EffectAt, LenProperties DEF RInv
  <2>2. Len(announced[m]) > 0 /\ announced[m][1] = SelfInfo(m)
    BY DEF KnownInv
  <2>3. 1 \in 1 .. Len(announced[m])
    BY <2>1, <2>2
  <2> QED BY <2>1, <2>2, <2>3
<1>5. IF InOrder(n, l, seg) /\ seg.info # NO_INFO THEN ApplyInfo(n, l, seg.info)
      ELSE UNCHANGED tables
  BY <1>1, <1>2 DEF routing_receive
<1>6. /\ app' = [m \in Node |-> app'[m]]
      /\ \A m \in Node : app[m] \subseteq app'[m]
      /\ InOrder(n, l, seg) /\ nextAckNum[n][l] = 0 => p \in app'[n]
  <2>1. CASE InOrder(n, l, seg)
    <3> DEFINE d == seg.info.destAddr
    <3>1. /\ seg.info # NO_INFO
          /\ seg.info = announced[p][nextAckNum[n][l] + 1]
      BY <1>1, <1>2, <2>1, InOrderInforms
    <3>2. nextAckNum[n][l] = 0 => d = p
      <4> SUFFICES ASSUME nextAckNum[n][l] = 0 PROVE d = p
        OBVIOUS
      <4>1. nextAckNum[n][l] + 1 = 1
        OBVIOUS
      <4>2. seg.info = SelfInfo(p)
        BY SMTT(60), <3>1, <4>1 DEF KnownInv
      <4> QED BY <4>2 DEF SelfInfo
    <3>3. IF d = n THEN app' = app ELSE app' = [app EXCEPT ![n] = @ \union {d}]
      BY <1>5, <2>1, <3>1 DEF ApplyInfo, update_routing_table, tables
    <3>4. app = [m \in Node |-> app[m]] /\ p # n
      BY <1>1, LinkEnds DEF KnownInv
    <3> HIDE DEF d
    <3> QED BY <3>2, <3>3, <3>4
  <2>2. CASE ~ InOrder(n, l, seg)
    BY <1>5, <2>2 DEF tables, KnownInv
  <2> QED BY <2>1, <2>2
<1>7. ASSUME NEW m \in Node, NEW j \in LinksOf(m), nextAckNum'[m][j] > 0
      PROVE  Peer(m, j) \in app'[m]
  <2>1. CASE nextAckNum[m][j] > 0
    BY <1>6, <2>1 DEF KnownInv, NeighbourKnown
  <2>2. CASE ~ (nextAckNum[m][j] > 0)
    <3>1. nextAckNum[m][j] \in Nat
      BY PerLinkType DEF RInv, RTypeOK
    <3>2. m = n /\ j = l /\ InOrder(n, l, seg) /\ nextAckNum[m][j] = 0
      BY <1>3, <1>7, <2>2, <3>1
    <3> QED BY <1>1, <1>6, <3>2
  <2> QED BY <2>1, <2>2
<1>8. NeighbourKnown'
  BY <1>7 DEF NeighbourKnown, LinksOf, Peer
<1>9. \A m \in Node : Len(announced'[m]) > 0 /\ announced'[m][1] = SelfInfo(m)
  BY <1>4
<1> QED BY <1>6, <1>8, <1>9 DEF KnownInv, SelfInfo, INT_MAX

\* A node that has acknowledged the first segment of a neighbour can send to it,
\* if no link loses the first segment.
THEOREM NeighboursAreKnown == Spec /\ FirstArrives => []NeighbourKnown
<1>1. RInv /\ FirstUnderWay /\ KnownInv /\ [Next]_vars => KnownInv'
  <2> SUFFICES ASSUME RInv, FirstUnderWay, KnownInv, [Next]_vars
               PROVE  KnownInv'
    OBVIOUS
  <2>1. ASSUME NEW n \in Node, NEW l \in LinksOf(n), routing_receive(n, l)
        PROVE  KnownInv'
    BY <2>1, ReceiveKnownInv
  <2>2. ASSUME UNCHANGED <<announced, app, nextAckNum>>
        PROVE  KnownInv'
    BY SMTT(60), <2>2 DEF KnownInv, NeighbourKnown, LinksOf, Peer, SelfInfo, INT_MAX
  <2>3. ASSUME NEW n \in Node, \/ RoutingTimeout(n)
                               \/ \E l \in LinksOf(n) : Lose(n, l)
        PROVE  UNCHANGED <<announced, app, nextAckNum>>
    BY <2>3 DEF RoutingTimeout, Lose, tables
  <2>4. CASE UNCHANGED vars
    BY <2>2, <2>4 DEF vars, tables
  <2> QED BY <2>1, <2>2, <2>3, <2>4 DEF Next
<1>2. KnownInv => NeighbourKnown
  BY DEF KnownInv
<1> QED BY <1>1, <1>2, InitKnownInv, SpecRInv, SpecFirstUnderWay, PTL DEF Spec

=============================================================================
