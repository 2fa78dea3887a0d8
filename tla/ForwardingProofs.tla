------------------------- MODULE ForwardingProofs -------------------------
(***************************************************************************)
(* Datagrams over the tables of DistanceVector: what is proved of the      *)
(* tables holds while datagrams travel, the hop limit ends none of them,   *)
(* and those of a flow arrive in order.  A datagram has more hops left     *)
(* than the rank of the node it is on its way to, and new routes rank      *)
(* above the old ones.                                                     *)
(***************************************************************************)
EXTENDS Forwarding, DistanceVectorProofs

Datagrams == [flow : Flows, number : Nat, hoplimit : Int]

WireType ==
    /\ wire \in [Node -> Seq(Seq(Datagrams))]
    /\ \A n \in Node : DOMAIN wire[n] = LinksOf(n)
    /\ sent \in [Flows -> Nat]
    /\ unrouted \in [Flows -> Nat]

\* Datagram g travels on link k of m.
Carried(m, k, g) == \E i \in 1 .. Len(wire[m][k]) : wire[m][k][i] = g

\* A datagram on its way to node q gets to its destination d from there.
Arrives(g, q, rank, d) ==
    /\ q = d \/ q \in Routed(d)
    /\ rank[q] < g.hoplimit

OnTheWay(rank, d) ==
    \A m \in Node : \A k \in LinksOf(m) : \A g \in Datagrams :
        Carried(m, k, g) /\ g.flow[2] = d => Arrives(g, Peer(m, k), rank, d)

AllOnTheWay ==
    \A d \in Node : \E rank \in [Node -> Nat] : Descends(rank, d) /\ OnTheWay(rank, d)

\* The nodes are few enough for the hop limit.
Small == Cardinality(Node) <= HOP_LIMIT + 1

Safe == IInv /\ Ranked /\ WireType /\ AllOnTheWay /\ ~ expired

-----------------------------------------------------------------------------

LEMMA FlowEnds ==
    ASSUME NEW f \in Flows
    PROVE  f[1] \in Node /\ f[2] \in Node /\ f[1] # f[2]
BY ForwardingAssumption

\* No rank exceeds the number of other nodes.
LEMMA RankBound ==
    ASSUME Ranked, NEW d \in Node, NEW rank \in [Node -> Nat], Descends(rank, d),
           NEW m \in Routed(d)
    PROVE  rank[m] \in Nat /\ rank[m] <= Cardinality(Node) - 1
<1>1. Cardinality(Node) \in Nat
  BY DistanceVectorAssumption, FS_CardinalityType
<1>2. Routed(d) \subseteq Node \ {d}
  BY DEF Routed, Ranked
<1>3. /\ Cardinality(Routed(d)) <= Cardinality(Node \ {d})
      /\ Cardinality(Node \ {d}) = Cardinality(Node) - 1
  BY <1>2, DistanceVectorAssumption, FS_RemoveElement, FS_Subset
<1>4. Cardinality(Routed(d)) \in Nat
  BY RoutedFinite
<1> QED BY <1>1, <1>2, <1>3, <1>4 DEF Descends

LEMMA LinkType ==
    ASSUME WireType, NEW m \in Node, NEW k \in LinksOf(m)
    PROVE  /\ wire[m] \in Seq(Seq(Datagrams))
           /\ k \in 1 .. Len(wire[m])
           /\ wire[m][k] \in Seq(Datagrams)
           /\ Len(wire[m][k]) \in Nat
<1>1. wire[m] \in Seq(Seq(Datagrams)) /\ DOMAIN wire[m] = LinksOf(m)
  BY DEF WireType
<1>2. k \in 1 .. Len(wire[m])
  BY <1>1, LenProperties
<1>3. wire[m][k] \in Seq(Datagrams)
  BY <1>1, <1>2, ElementOfSeq
<1> QED BY <1>1, <1>2, <1>3, LenProperties

\* A wire that changes on one link.
LEMMA LinkChanged ==
    ASSUME NEW w, w \in [Node -> Seq(Seq(Datagrams))],
           \A i \in Node : DOMAIN w[i] = LinksOf(i),
           NEW m \in Node, NEW k \in LinksOf(m), NEW s \in Seq(Datagrams),
           NEW v, v = [w EXCEPT ![m][k] = s]
    PROVE  /\ v \in [Node -> Seq(Seq(Datagrams))]
           /\ \A i \in Node : DOMAIN v[i] = LinksOf(i)
           /\ \A i \in Node : \A j \in LinksOf(i) :
                v[i][j] = IF i = m /\ j = k THEN s ELSE w[i][j]
<1>1. w[m] \in Seq(Seq(Datagrams)) /\ k \in 1 .. Len(w[m])
  BY LenProperties
<1>2. [w[m] EXCEPT ![k] = s] \in Seq(Seq(Datagrams))
  BY <1>1, ExceptSeq
<1>3. v = [w EXCEPT ![m] = [w[m] EXCEPT ![k] = s]]
  OBVIOUS
<1> QED BY <1>1, <1>2, <1>3

LEMMA PeerLinkType ==
    ASSUME NEW n \in Node, NEW l \in LinksOf(n)
    PROVE  /\ PeerLink(n, l) \in LinksOf(Peer(n, l))
           /\ Peer(Peer(n, l), PeerLink(n, l)) = n
<1>1. \E k \in LinksOf(Peer(n, l)) : Peer(Peer(n, l), k) = n
  BY RoutingTableAssumption
<1> QED BY <1>1 DEF PeerLink

-----------------------------------------------------------------------------
(* Each action. *)

\* An announcement is applied.
LEMMA AppliedKeeps ==
    ASSUME Safe, NEW n \in Node, NEW l \in LinksOf(n), Apply(n, l),
           UNCHANGED <<wire, sent, unrouted, received, expired>>
    PROVE  Safe'
<1>1. Apply(n, l) /\ UNCHANGED <<wire, sent, unrouted, received, expired>>
  OBVIOUS
<1>2. IInv' /\ Ranked'
  <2>1. [DVNext]_dvVars
    BY <1>1 DEF DVNext
  <2> QED BY <1>1, <2>1, NextIInv, KeepsRanked DEF Safe
<1>3. WireType' /\ ~ expired'
  <2>1. UNCHANGED <<wire, sent, unrouted, expired>>
    BY <1>1
  <2> QED BY ONLY Safe, <2>1 DEF Safe, WireType, Datagrams
<1>4. ASSUME NEW d \in Node
      PROVE  \E r \in [Node -> Nat] : Descends(r, d)' /\ OnTheWay(r, d)'
  <2>1. PICK rank \in [Node -> Nat] : Descends(rank, d) /\ OnTheWay(rank, d)
    BY DEF Safe, AllOnTheWay
  <2>2. CASE Changed(n, l) /\ d = Info(n, l).destAddr
    <3>1. PICK r \in [Node -> Nat] :
            Descends(r, d)' /\ \A m \in Node \ {n} : r[m] = rank[m]
      BY <1>1, <2>1, <2>2, KeepsDescends DEF Safe
    <3>2. n # d /\ ~ HasEntry(n, d)
      BY <1>1, <2>2, ChangeIsNew DEF Changed, Safe
    <3>3. n \notin Routed(d)
      BY <3>2 DEF Routed, Safe, IInv, RouteIsTold
    <3>4. \A m \in Routed(d) : m \in Routed(d)'
      <4>1. \A m \in Node :
              forwarding_table'[m][d] = IF m = n THEN l ELSE forwarding_table[m][d]
        BY <1>1, <2>2, AppliedAt DEF Safe
      <4>2. l # NO_LINK
        BY Neighbours
      <4> QED BY <4>1, <4>2 DEF Routed, HasRoute, NO_LINK
    <3>5. ASSUME NEW m \in Node, NEW k \in LinksOf(m), NEW g \in Datagrams,
                 Carried(m, k, g), g.flow[2] = d
          PROVE  (Peer(m, k) = d \/ Peer(m, k) \in Routed(d)') /\ r[Peer(m, k)] < g.hoplimit
      <4>1. /\ Peer(m, k) = d \/ Peer(m, k) \in Routed(d)
            /\ rank[Peer(m, k)] < g.hoplimit
        BY <2>1, <3>5 DEF OnTheWay, Arrives
      <4>2. Peer(m, k) \in Node \ {n}
        BY <3>2, <3>3, <4>1, Neighbours
      <4> QED BY <3>1, <3>4, <4>1, <4>2
    <3>6. OnTheWay(r, d)'
      BY <1>1, <3>5 DEF OnTheWay, Arrives, Carried
    <3> QED BY <3>1, <3>6
  <2>3. CASE ~ (Changed(n, l) /\ d = Info(n, l).destAddr)
    <3>1. \A m \in Node : forwarding_table'[m][d] = forwarding_table[m][d]
      BY <1>1, <2>3, AppliedAt DEF Safe
    <3>2. Routed(d)' = Routed(d)
      BY <3>1 DEF Routed, HasRoute, NO_LINK
    <3>3. \A m \in Routed(d) : Peer(m, forwarding_table'[m][d]) = NextHop(m, d)
      BY <3>1 DEF Routed, NextHop
    <3>4. Descends(rank, d)'
      BY <2>1, <3>2, <3>3 DEF Descends, NextHop
    <3>5. OnTheWay(rank, d)'
      BY <1>1, <2>1, <3>2 DEF OnTheWay, Arrives, Carried
    <3> QED BY <3>4, <3>5
  <2> QED BY <2>2, <2>3
<1>5. AllOnTheWay'
  BY <1>4 DEF AllOnTheWay
<1> QED BY <1>2, <1>3, <1>5 DEF Safe

\* A step that leaves the tables alone, and after which every datagram has been
\* there before or is on its way.
LEMMA WireKeeps ==
    ASSUME Safe, [DVNext]_dvVars, UNCHANGED tables, WireType', ~ expired',
           \A d \in Node : \A rank \in [Node -> Nat] :
             Descends(rank, d) /\ OnTheWay(rank, d) =>
               \A m \in Node : \A k \in LinksOf(m) : \A g \in Datagrams :
                 Carried(m, k, g)' /\ g.flow[2] = d =>
                    Carried(m, k, g) \/ Arrives(g, Peer(m, k), rank, d)
    PROVE  Safe'
<1>1. IInv' /\ Ranked'
  <2>2. IInv'
    BY NextIInv DEF Safe
  <2>3. Ranked'
    BY ZenonT(60) DEF Safe, Ranked, tables, HasRoute, Descends, Routed, NextHop
  <2> QED BY <2>2, <2>3
<1>2. ASSUME NEW d \in Node
      PROVE  \E r \in [Node -> Nat] : Descends(r, d)' /\ OnTheWay(r, d)'
  <2>1. PICK rank \in [Node -> Nat] : Descends(rank, d) /\ OnTheWay(rank, d)
    BY DEF Safe, AllOnTheWay
  <2>2. Descends(rank, d)'
    BY <2>1 DEF tables, Descends, Routed, NextHop, HasRoute
  <2>3. \A m \in Node : \A k \in LinksOf(m) : \A g \in Datagrams :
          Carried(m, k, g)' /\ g.flow[2] = d => Arrives(g, Peer(m, k), rank, d)
    BY <2>1 DEF OnTheWay
  <2>4. Routed(d)' = Routed(d)
    BY DEF tables, Routed, HasRoute
  <2>5. OnTheWay(rank, d)'
    BY <2>3, <2>4 DEF OnTheWay, Arrives
  <2> QED BY <2>2, <2>5
<1>3. AllOnTheWay'
  BY <1>2 DEF AllOnTheWay
<1> QED BY <1>1, <1>3 DEF Safe

LEMMA AnnouncementKeeps ==
    ASSUME Safe, NEW n \in Node, NEW l \in LinksOf(n), Announcement(n, l)
    PROVE  Safe'
<1>1. CASE Apply(n, l)
  BY <1>1, AppliedKeeps DEF Announcement
<1>2. CASE MissFirst(n, l)
  <2>1. UNCHANGED <<wire, sent, unrouted, received, expired>>
    BY DEF Announcement
  <2>2. [DVNext]_dvVars /\ UNCHANGED tables
    BY <1>2 DEF DVNext, MissFirst
  <2>3. WireType' /\ ~ expired'
    BY <2>1 DEF Safe, WireType, Datagrams
  <2>4. \A m \in Node : \A k \in LinksOf(m) : \A g \in Datagrams :
          Carried(m, k, g)' => Carried(m, k, g)
    BY <2>1 DEF Carried
  <2> QED BY <2>2, <2>3, <2>4, WireKeeps
<1> QED BY <1>1, <1>2 DEF Announcement

\* What is appended to a link, and what is taken from it.
LEMMA AppendedTo ==
    ASSUME NEW s \in Seq(Datagrams), NEW h \in Datagrams, NEW g,
           NEW i \in 1 .. Len(Append(s, h)), Append(s, h)[i] = g
    PROVE  g = h \/ \E j \in 1 .. Len(s) : s[j] = g
<1>1. /\ Len(s) \in Nat
      /\ Len(Append(s, h)) = Len(s) + 1
      /\ \A j \in 1 .. Len(s) : Append(s, h)[j] = s[j]
      /\ Append(s, h)[Len(s) + 1] = h
  BY AppendProperties, LenProperties
<1>2. i \in 1 .. Len(s) \/ i = Len(s) + 1
  BY <1>1
<1> QED BY <1>1, <1>2

LEMMA TakenFrom ==
    ASSUME NEW s \in Seq(Datagrams), s # <<>>
    PROVE  /\ Head(s) \in Datagrams /\ Tail(s) \in Seq(Datagrams)
           /\ \E j \in 1 .. Len(s) : s[j] = Head(s)
           /\ \A g : (\E i \in 1 .. Len(Tail(s)) : Tail(s)[i] = g)
                        => \E j \in 1 .. Len(s) : s[j] = g
<1>1. /\ Head(s) \in Datagrams
      /\ Tail(s) \in Seq(Datagrams)
      /\ Len(Tail(s)) = Len(s) - 1
      /\ \A i \in 1 .. Len(Tail(s)) : Tail(s)[i] = s[i + 1]
      /\ Len(s) \in Nat \ {0}
  BY HeadTailProperties, EmptySeq
<1>2. s[1] = Head(s)
  OBVIOUS
<1>3. ASSUME NEW g, NEW i \in 1 .. Len(Tail(s)), Tail(s)[i] = g
      PROVE  \E j \in 1 .. Len(s) : s[j] = g
  <2>1. i + 1 \in 1 .. Len(s) /\ s[i + 1] = g
    BY <1>1, <1>3
  <2> QED BY <2>1
<1>4. \E j \in 1 .. Len(s) : s[j] = Head(s)
  BY SMTT(60), <1>1, <1>2
<1> QED BY <1>1, <1>3, <1>4

\* A datagram that has a route is sent.
LEMMA RoutedKeeps ==
    ASSUME Safe, Small, NEW f \in Flows, network_transmit(f), HasRoute(f[1], f[2])
    PROVE  Safe'
<1> DEFINE n == f[1]
           d == f[2]
           l == forwarding_table[n][d]
           h == [flow |-> f, number |-> sent[f], hoplimit |-> HOP_LIMIT]
<1>1. n \in Node /\ d \in Node
  BY FlowEnds
<1>2. n \in Routed(d) /\ l # NO_LINK
  BY <1>1, FlowEnds DEF Routed, HasRoute
<1>3. l \in LinksOf(n)
  BY <1>1, <1>2 DEF Safe, IInv, TypeOK
<1>4. h \in Datagrams
  BY ForwardingAssumption DEF Datagrams, Safe, WireType
<1>5. wire[n][l] \in Seq(Datagrams)
  BY SMTT(60), <1>1, <1>3, LinkType DEF Safe
<1>6. /\ wire' = [wire EXCEPT ![n][l] = Append(wire[n][l], h)]
      /\ sent' = [sent EXCEPT ![f] = @ + 1]
      /\ UNCHANGED <<dvVars, unrouted, received, expired>>
  BY <1>2 DEF network_transmit, network_lookup
<1>7. Append(wire[n][l], h) \in Seq(Datagrams)
  BY <1>4, <1>5, AppendProperties
<1> HIDE DEF h
<1>8. /\ wire' \in [Node -> Seq(Seq(Datagrams))]
      /\ \A i \in Node : DOMAIN wire'[i] = LinksOf(i)
      /\ \A i \in Node : \A j \in LinksOf(i) :
           wire'[i][j] = IF i = n /\ j = l THEN Append(wire[n][l], h) ELSE wire[i][j]
  <2>1. wire \in [Node -> Seq(Seq(Datagrams))] /\ \A i \in Node : DOMAIN wire[i] = LinksOf(i)
    BY DEF Safe, WireType
  <2> HIDE DEF n, l
  <2> QED BY SMTT(60), <1>1, <1>3, <1>6, <1>7, <2>1, LinkChanged
<1>9. WireType' /\ ~ expired'
  <2>1. sent' \in [Flows -> Nat]
    BY <1>6 DEF Safe, WireType
  <2> QED BY ZenonT(60), <1>6, <1>8, <2>1 DEF Safe, WireType, Datagrams, LinksOf
<1>10. ASSUME NEW e \in Node, NEW rank \in [Node -> Nat], Descends(rank, e), OnTheWay(rank, e),
              NEW m \in Node, NEW k \in LinksOf(m), NEW g \in Datagrams,
              \E i \in 1 .. Len(wire'[m][k]) : wire'[m][k][i] = g, g.flow[2] = e
       PROVE  Carried(m, k, g) \/ Arrives(g, Peer(m, k), rank, e)
  <2>1. CASE m = n /\ k = l
    <3>1. PICK i \in 1 .. Len(Append(wire[n][l], h)) : Append(wire[n][l], h)[i] = g
      BY <1>8, <1>10, <2>1
    <3>2. g = h \/ Carried(m, k, g)
      <4>1. g = h \/ \E j \in 1 .. Len(wire[n][l]) : wire[n][l][j] = g
        BY ZenonT(60), <1>4, <1>5, <3>1, AppendedTo
      <4> QED BY <2>1, <4>1 DEF Carried
    <3>3. ASSUME g = h PROVE Arrives(g, Peer(m, k), rank, e)
      <4>1. e = d /\ g.hoplimit = HOP_LIMIT
        BY <1>10, <3>3 DEF h
      <4>2. Peer(m, k) = NextHop(n, d)
        BY <2>1 DEF NextHop
      <4>3. /\ NextHop(n, d) \in Node
            /\ NextHop(n, d) = d \/ NextHop(n, d) \in Routed(d)
        BY <1>1, <1>2, NextHopRouted DEF Safe
      <4>4. rank[n] \in Nat /\ rank[n] <= Cardinality(Node) - 1
        BY <1>1, <1>2, <1>10, <4>1, RankBound DEF Safe
      <4>5. rank[NextHop(n, d)] < rank[n] /\ rank[NextHop(n, d)] \in Nat
        BY <1>2, <1>10, <4>1, <4>3 DEF Descends
      <4>6. rank[NextHop(n, d)] < HOP_LIMIT
        <5>1. Cardinality(Node) \in Nat /\ HOP_LIMIT \in Nat
          BY DistanceVectorAssumption, FS_CardinalityType, ForwardingAssumption
        <5> QED BY <4>4, <4>5, <5>1 DEF Small
      <4> QED BY <4>1, <4>2, <4>3, <4>6 DEF Arrives
    <3> QED BY SMTT(60), <3>2, <3>3
  <2>2. CASE ~ (m = n /\ k = l)
    BY ZenonT(60), <1>8, <1>10, <2>2 DEF Carried
  <2> QED BY <2>1, <2>2
<1>11. \A e \in Node : \A rank \in [Node -> Nat] :
         Descends(rank, e) /\ OnTheWay(rank, e) =>
           \A m \in Node : \A k \in LinksOf(m) : \A g \in Datagrams :
             Carried(m, k, g)' /\ g.flow[2] = e =>
                Carried(m, k, g) \/ Arrives(g, Peer(m, k), rank, e)
  BY SMTT(60), <1>10 DEF Carried
<1> QED BY <1>6, <1>9, <1>11, WireKeeps DEF dvVars

\* A datagram without a route is dropped.
LEMMA DroppedKeeps ==
    ASSUME Safe, NEW f \in Flows, network_transmit(f), ~ HasRoute(f[1], f[2])
    PROVE  Safe'
<1>1. /\ sent' = [sent EXCEPT ![f] = @ + 1]
      /\ unrouted' = [unrouted EXCEPT ![f] = @ + 1]
      /\ UNCHANGED <<dvVars, wire, received, expired>>
  BY DEF network_transmit, network_lookup, HasRoute
<1>2. WireType' /\ ~ expired'
  BY <1>1 DEF Safe, WireType, Datagrams
<1>3. \A m \in Node : \A k \in LinksOf(m) : \A g \in Datagrams :
        Carried(m, k, g)' => Carried(m, k, g)
  BY <1>1 DEF Carried
<1> QED BY <1>1, <1>2, <1>3, WireKeeps DEF dvVars

LEMMA TransmitKeeps ==
    ASSUME Safe, Small, NEW f \in Flows, network_transmit(f)
    PROVE  Safe'
BY RoutedKeeps, DroppedKeeps

LEMMA ReceiveKeeps ==
    ASSUME Safe, NEW n \in Node, NEW l \in LinksOf(n), network_receive(n, l)
    PROVE  Safe'
<1> DEFINE p == Peer(n, l)
           q == PeerLink(n, l)
           h == Head(wire[p][q])
           d == h.flow[2]
           arrived == [wire EXCEPT ![p][q] = Tail(wire[p][q])]
<1>1. p \in Node /\ p # n /\ q \in LinksOf(p) /\ Peer(p, q) = n
  BY Neighbours, PeerLinkType
<1>2. /\ wire[p][q] # <<>>
      /\ Forwarded(n, h, arrived)
      /\ UNCHANGED <<dvVars, sent, unrouted>>
  BY DEF network_receive
<1>3. wire[p][q] \in Seq(Datagrams)
  BY <1>1, LinkType DEF Safe
<1>4. /\ h \in Datagrams /\ Tail(wire[p][q]) \in Seq(Datagrams)
      /\ Carried(p, q, h)
      /\ \A g : (\E i \in 1 .. Len(Tail(wire[p][q])) : Tail(wire[p][q])[i] = g)
                   => Carried(p, q, g)
  BY <1>2, <1>3, TakenFrom DEF Carried
<1>5. d \in Node
  BY <1>4, FlowEnds DEF Datagrams
<1>6. /\ arrived \in [Node -> Seq(Seq(Datagrams))]
      /\ \A i \in Node : DOMAIN arrived[i] = LinksOf(i)
      /\ \A i \in Node : \A j \in LinksOf(i) :
           arrived[i][j] = IF i = p /\ j = q THEN Tail(wire[p][q]) ELSE wire[i][j]
  <2>1. wire \in [Node -> Seq(Seq(Datagrams))] /\ \A i \in Node : DOMAIN wire[i] = LinksOf(i)
    BY DEF Safe, WireType
  <2> DEFINE s == Tail(wire[p][q])
  <2>2. s \in Seq(Datagrams) /\ arrived = [wire EXCEPT ![p][q] = s]
    BY <1>4
  <2> HIDE DEF p, q, s, arrived
  <2>3. \A i \in Node : \A j \in LinksOf(i) :
          arrived[i][j] = IF i = p /\ j = q THEN s ELSE wire[i][j]
    BY SMTT(60), <1>1, <2>1, <2>2, LinkChanged
  <2>4. /\ arrived \in [Node -> Seq(Seq(Datagrams))]
        /\ \A i \in Node : DOMAIN arrived[i] = LinksOf(i)
    BY <1>1, <2>1, <2>2, LinkChanged
  <2> QED BY <2>3, <2>4 DEF s
<1>7. \A m \in Node : \A k \in LinksOf(m) : \A g :
        (\E i \in 1 .. Len(arrived[m][k]) : arrived[m][k][i] = g) => Carried(m, k, g)
  <2> HIDE DEF arrived, p, q, h
  <2> SUFFICES ASSUME NEW m \in Node, NEW k \in LinksOf(m), NEW g,
                      \E i \in 1 .. Len(arrived[m][k]) : arrived[m][k][i] = g
               PROVE  Carried(m, k, g)
    OBVIOUS
  <2>1. CASE m = p /\ k = q
    <3>1. arrived[m][k] = Tail(wire[p][q])
      BY <1>6, <2>1
    <3>2. Carried(p, q, g)
      BY <1>4, <3>1
    <3> QED BY <2>1, <3>2
  <2>2. CASE ~ (m = p /\ k = q)
    <3>1. arrived[m][k] = wire[m][k]
      BY <1>6, <2>2
    <3> QED BY <3>1 DEF Carried
  <2> QED BY <2>1, <2>2
<1>8. ASSUME NEW rank \in [Node -> Nat], OnTheWay(rank, d)
      PROVE  Arrives(h, n, rank, d)
  BY <1>1, <1>4, <1>8 DEF OnTheWay
<1>9. PICK rank \in [Node -> Nat] : Descends(rank, d) /\ OnTheWay(rank, d)
  BY SMTT(60), <1>5 DEF Safe, AllOnTheWay
<1>10. h.hoplimit \in Int /\ h.hoplimit > 0
  BY SMTT(60), <1>4, <1>8, <1>9 DEF Datagrams, Arrives
<1> HIDE DEF h, d, arrived
<1>11. CASE d = n
  <2>1. wire' = arrived /\ UNCHANGED expired
    BY <1>2, <1>10, <1>11 DEF Forwarded, d
  <2>2. WireType' /\ ~ expired'
    BY <1>2, <1>6, <2>1 DEF Safe, WireType, Datagrams, LinksOf
  <2>3. \A m \in Node : \A k \in LinksOf(m) : \A g \in Datagrams :
          Carried(m, k, g)' => Carried(m, k, g)
    <3> TAKE m \in Node
    <3> TAKE k \in LinksOf(m)
    <3> TAKE g \in Datagrams
    <3>1. Carried(m, k, g)' = \E i \in 1 .. Len(arrived[m][k]) : arrived[m][k][i] = g
      BY <2>1 DEF Carried
    <3> QED BY <1>7, <3>1
  <2> QED BY <1>2, <2>2, <2>3, WireKeeps DEF dvVars
<1>12. CASE d # n
  <2> DEFINE r == forwarding_table[n][d]
             g0 == [h EXCEPT !.hoplimit = @ - 1]
             s == Append(arrived[n][r], g0)
  <2>1. n \in Routed(d)
    BY <1>8, <1>9, <1>12 DEF Arrives
  <2>2. r \in LinksOf(n)
    BY SMTT(60), <1>5, <2>1 DEF Safe, IInv, TypeOK, Routed, HasRoute
  <2>3. wire' = [arrived EXCEPT ![n][r] = s] /\ UNCHANGED expired
    BY <1>2, <1>10, <1>12 DEF Forwarded, network_lookup, d
  <2>4. g0 \in Datagrams /\ g0.flow = h.flow /\ g0.hoplimit = h.hoplimit - 1
    BY <1>4, <1>10 DEF Datagrams
  <2>5. arrived[n][r] = wire[n][r] /\ wire[n][r] \in Seq(Datagrams)
    <3>1. arrived[n][r] = wire[n][r]
      BY <1>1, <1>6, <2>2
    <3>2. wire[n][r] \in Seq(Datagrams)
      BY <2>2, LinkType DEF Safe
    <3> QED BY <3>1, <3>2
  <2> HIDE DEF g0
  <2>6. s \in Seq(Datagrams)
    BY <2>4, <2>5, AppendProperties
  <2>7. /\ wire' \in [Node -> Seq(Seq(Datagrams))]
        /\ \A i \in Node : DOMAIN wire'[i] = LinksOf(i)
        /\ \A i \in Node : \A j \in LinksOf(i) :
             wire'[i][j] = IF i = n /\ j = r THEN s ELSE arrived[i][j]
    <3> HIDE DEF s, r
    <3>1. /\ wire' \in [Node -> Seq(Seq(Datagrams))]
          /\ \A i \in Node : DOMAIN wire'[i] = LinksOf(i)
      BY <1>6, <2>2, <2>3, <2>6, LinkChanged
    <3>2. \A i \in Node : \A j \in LinksOf(i) :
            wire'[i][j] = IF i = n /\ j = r THEN s ELSE arrived[i][j]
      BY SMTT(60), <1>6, <2>2, <2>3, <2>6, LinkChanged
    <3> QED BY <3>1, <3>2
  <2>8. WireType' /\ ~ expired'
    BY <1>2, <2>3, <2>7 DEF Safe, WireType, Datagrams, LinksOf
  <2>9. ASSUME NEW rk \in [Node -> Nat], Descends(rk, d), OnTheWay(rk, d)
        PROVE  Arrives(g0, Peer(n, r), rk, d)
    <3>1. rk[n] < h.hoplimit
      BY <1>8, <2>9 DEF Arrives
    <3>2. Peer(n, r) = NextHop(n, d)
      BY DEF NextHop
    <3>3. /\ NextHop(n, d) \in Node
          /\ NextHop(n, d) = d \/ NextHop(n, d) \in Routed(d)
      BY <1>5, <2>1, NextHopRouted DEF Safe
    <3>4. rk[NextHop(n, d)] < rk[n] /\ rk[NextHop(n, d)] \in Nat /\ rk[n] \in Nat
      BY <2>1, <2>9, <3>3 DEF Descends
    <3>5. rk[NextHop(n, d)] < g0.hoplimit
      BY <1>10, <2>4, <3>1, <3>4
    <3> QED BY <3>2, <3>3, <3>5 DEF Arrives
  <2>10. ASSUME NEW e \in Node, NEW rk \in [Node -> Nat], Descends(rk, e), OnTheWay(rk, e),
                NEW m \in Node, NEW k \in LinksOf(m), NEW g \in Datagrams,
                \E i \in 1 .. Len(wire'[m][k]) : wire'[m][k][i] = g, g.flow[2] = e
         PROVE  Carried(m, k, g) \/ Arrives(g, Peer(m, k), rk, e)
    <3>1. CASE m = n /\ k = r
      <4>0. wire'[m][k] = Append(wire[n][r], g0)
        <5>1. wire'[m][k] = s
          <6> HIDE DEF s, r
          <6> QED BY <2>2, <2>7, <3>1
        <5> QED BY <2>5, <5>1
      <4>1. PICK i \in 1 .. Len(Append(wire[n][r], g0)) : Append(wire[n][r], g0)[i] = g
        BY <2>10, <4>0
      <4>2. g = g0 \/ \E j \in 1 .. Len(wire[n][r]) : wire[n][r][j] = g
        BY ZenonT(60), <2>4, <2>5, <4>1, AppendedTo
      <4>3. g = g0 => e = d
        BY <2>4, <2>10 DEF d
      <4> QED BY <2>9, <2>10, <3>1, <4>2, <4>3 DEF Carried
    <3>2. CASE ~ (m = n /\ k = r)
      BY ZenonT(60), <1>7, <2>7, <2>10, <3>2
    <3> QED BY <3>1, <3>2
  <2>11. \A e \in Node : \A rk \in [Node -> Nat] :
           Descends(rk, e) /\ OnTheWay(rk, e) =>
             \A m \in Node : \A k \in LinksOf(m) : \A g \in Datagrams :
               Carried(m, k, g)' /\ g.flow[2] = e =>
                  Carried(m, k, g) \/ Arrives(g, Peer(m, k), rk, e)
    BY SMTT(60), <2>10 DEF Carried
  <2> QED BY <1>2, <2>8, <2>11, WireKeeps DEF dvVars
<1> QED BY <1>11, <1>12

-----------------------------------------------------------------------------
(* The theorems. *)

LEMMA InitSafe == Init => Safe
<1> SUFFICES ASSUME Init PROVE Safe
  OBVIOUS
<1>1. IInv /\ Ranked
  BY InitIInv, InitRanked DEF Init
<1>2. /\ wire = [n \in Node |-> [l \in LinksOf(n) |-> <<>>]]
      /\ sent = [f \in Flows |-> 0] /\ unrouted = [f \in Flows |-> 0]
  BY DEF Init
<1>3. <<>> \in Seq(Datagrams) /\ Len(<<>>) = 0
  BY EmptySeq
<1>4. \A n \in Node : [l \in LinksOf(n) |-> <<>>] \in Seq(Seq(Datagrams))
  <2> TAKE n \in Node
  <2>1. Len(Links[n]) \in Nat
    BY RoutingTableAssumption, LenProperties
  <2>2. [l \in LinksOf(n) |-> <<>>] \in [1 .. Len(Links[n]) -> Seq(Datagrams)]
    BY <1>3 DEF LinksOf
  <2> QED BY <2>1, <2>2, SeqDef
<1>5. WireType
  BY <1>2, <1>4 DEF WireType
<1>6. \A m \in Node : \A k \in LinksOf(m) : \A g \in Datagrams : ~ Carried(m, k, g)
  BY <1>2, <1>3 DEF Carried
<1>7. AllOnTheWay
  BY <1>1, <1>6 DEF AllOnTheWay, OnTheWay, Ranked
<1> QED BY <1>1, <1>5, <1>7 DEF Init, Safe

\* While datagrams travel the tables take the steps of DistanceVector, so that
\* all that is proved of them holds.
THEOREM TablesImplemented == Spec => DVSpec
<1>1. Init => DVInit
  BY DEF Init
<1>2. [Next]_vars => [DVNext]_dvVars
  <2> SUFFICES ASSUME [Next]_vars PROVE [DVNext]_dvVars
    OBVIOUS
  <2>1. ASSUME NEW f \in Flows, network_transmit(f) PROVE UNCHANGED dvVars
    BY <2>1 DEF network_transmit
  <2>2. ASSUME NEW n \in Node, NEW l \in LinksOf(n), network_receive(n, l)
        PROVE  UNCHANGED dvVars
    BY <2>2 DEF network_receive
  <2>3. ASSUME NEW n \in Node, NEW l \in LinksOf(n), Announcement(n, l) PROVE DVNext
    BY <2>3 DEF Announcement, DVNext
  <2>4. CASE UNCHANGED vars
    BY <2>4 DEF vars
  <2> QED BY <2>1, <2>2, <2>3, <2>4 DEF Next
<1> QED BY <1>1, <1>2, PTL DEF Spec, DVSpec

\* The routes that datagrams travel on have no loops.
THEOREM LoopFreeForwarding == Spec => []LoopFree
BY TablesImplemented, NoLoops, PTL

LEMMA NextSafe == Small /\ Safe /\ [Next]_vars => Safe'
<1> SUFFICES ASSUME Small, Safe, [Next]_vars PROVE Safe'
  OBVIOUS
<1>1. CASE UNCHANGED vars
  <2>1. UNCHANGED <<dvVars, wire, sent, unrouted, expired>>
    BY <1>1 DEF vars
  <2>2. WireType' /\ ~ expired'
    BY <2>1 DEF Safe, WireType, Datagrams
  <2>3. \A m \in Node : \A k \in LinksOf(m) : \A g \in Datagrams :
          Carried(m, k, g)' => Carried(m, k, g)
    BY <2>1 DEF Carried
  <2> QED BY <2>1, <2>2, <2>3, WireKeeps DEF dvVars
<1> QED BY <1>1, TransmitKeeps, ReceiveKeeps, AnnouncementKeeps DEF Next

\* In a network that is small enough for the hop limit, it ends no datagram.
THEOREM HopLimitSuffices == Spec => []NeverExpires
<1>1. Small /\ Safe /\ [Next]_vars => Safe'
  BY NextSafe
<1>2. (Small => Safe) /\ [Next]_vars => (Small => Safe)'
  BY <1>1 DEF Small
<1>3. (Small => Safe) => NeverExpires
  BY DEF Small, Safe, NeverExpires
<1> QED BY InitSafe, <1>2, <1>3, PTL DEF Spec

-----------------------------------------------------------------------------
(***************************************************************************)
(* The order of a flow.  The hops a datagram has left say how far it is:   *)
(* all that have as many left are on the same link, because a route never  *)
(* moves.                                                                  *)
(***************************************************************************)

\* Datagrams on links.
Wires ==
    {w \in [Node -> Seq(Seq(Datagrams))] : \A n \in Node : DOMAIN w[n] = LinksOf(n)}

\* The i-th datagram on link k of m is of flow f.
Place(w, f, m, k, i) ==
    /\ m \in Node
    /\ k \in LinksOf(m)
    /\ i \in 1 .. Len(w[m][k])
    /\ w[m][k][i].flow = f

LEMMA PlaceType ==
    ASSUME NEW w \in Wires, NEW f, NEW m, NEW k, NEW i, Place(w, f, m, k, i)
    PROVE  /\ w[m][k][i] \in Datagrams
           /\ w[m][k][i].flow = f
           /\ w[m][k][i].number \in Nat
           /\ w[m][k][i].hoplimit \in Int
           /\ i \in Nat /\ Len(w[m][k]) \in Nat
<1>1. w[m] \in Seq(Seq(Datagrams)) /\ DOMAIN w[m] = LinksOf(m) /\ k \in LinksOf(m)
  BY DEF Wires, Place
<1>2. k \in 1 .. Len(w[m])
  BY <1>1, LenProperties
<1>3. w[m][k] \in Seq(Datagrams)
  BY <1>1, <1>2, ElementOfSeq
<1>4. i \in 1 .. Len(w[m][k]) /\ Len(w[m][k]) \in Nat
  BY <1>3, LenProperties DEF Place
<1>5. w[m][k][i] \in Datagrams
  BY <1>3, <1>4, ElementOfSeq
<1> QED BY <1>4, <1>5 DEF Datagrams, Place

\* The nodes at which datagrams of flow f have had h hops left, as far as any of
\* them has come.
Trail(f, at, low) ==
    /\ at \in [Int -> Node]
    /\ low \in Int
    /\ low <= HOP_LIMIT
    /\ at[HOP_LIMIT] = f[1]
    /\ \A h \in Int : low < h /\ h <= HOP_LIMIT =>
          /\ at[h] # f[2]
          /\ HasRoute(at[h], f[2])
          /\ NextHop(at[h], f[2]) = at[h - 1]

\* All datagrams of flow f are on its trail; their numbers lie between those of
\* the received and those of the sent ones.
OnTrail(w, f, at, low, r, s) ==
    \A m, k, i : Place(w, f, m, k, i) =>
        /\ r <= w[m][k][i].number
        /\ w[m][k][i].number < s
        /\ low < w[m][k][i].hoplimit
        /\ w[m][k][i].hoplimit <= HOP_LIMIT
        /\ m = at[w[m][k][i].hoplimit]
        /\ k = forwarding_table[m][f[2]]

\* Datagram g, the i-th on its link, is ahead of g2, the j-th on its link.
Ahead(g, i, g2, j) ==
    g.hoplimit < g2.hoplimit \/ (g.hoplimit = g2.hoplimit /\ i < j)

\* The datagrams that are ahead are those that were sent before.
Ordered(w, f) ==
    \A m, k, i, n, l, j :
        Place(w, f, m, k, i) /\ Place(w, f, n, l, j) =>
            (w[m][k][i].number < w[n][l][j].number
                <=> Ahead(w[m][k][i], i, w[n][l][j], j))

\* The datagram of flow f with number v is under way.
IsUnderWay(w, f, v) ==
    \E m, k, i : Place(w, f, m, k, i) /\ w[m][k][i].number = v

\* What has been sent and not received is under way.
FlowKept(w, f, at, low, r, s) ==
    /\ Trail(f, at, low)
    /\ OnTrail(w, f, at, low, r, s)
    /\ Ordered(w, f)
    /\ \A v \in Nat : r <= v /\ v < s => IsUnderWay(w, f, v)

\* How many datagrams of flow f have come to their end, at the source or at the
\* destination.
Ended(f) == unrouted[f] + Len(received[f])

\* Those that are dropped at the source are the first, and the received ones come
\* next.
Counted(f) ==
    /\ received[f] \in Seq(Nat) /\ unrouted[f] \in Nat /\ sent[f] \in Nat
    /\ received[f] = [i \in 1 .. Len(received[f]) |-> unrouted[f] + i - 1]
    /\ Ended(f) <= sent[f]
    /\ unrouted[f] < sent[f] => HasRoute(f[1], f[2])

FlowOK(f) ==
    /\ Counted(f)
    /\ \E at, low : FlowKept(wire, f, at, low, Ended(f), sent[f])

FlowsOK ==
    /\ DOMAIN received = Flows
    /\ \A f \in Flows : FlowOK(f)

\* Two datagrams of a flow with the same number are the same.
LEMMA NumbersDiffer ==
    ASSUME NEW w \in Wires, NEW f, NEW at, NEW low, NEW r, NEW s,
           OnTrail(w, f, at, low, r, s), Ordered(w, f),
           NEW m, NEW k, NEW i, Place(w, f, m, k, i),
           NEW n, NEW l, NEW j, Place(w, f, n, l, j),
           w[m][k][i].number = w[n][l][j].number
    PROVE  m = n /\ k = l /\ i = j
<1> DEFINE g == w[m][k][i]
           h == w[n][l][j]
<1>1. /\ g.number \in Nat /\ h.number \in Nat
      /\ g.hoplimit \in Int /\ h.hoplimit \in Int
      /\ i \in Nat /\ j \in Nat
  BY PlaceType
<1>2. /\ g.number < h.number <=> Ahead(g, i, h, j)
      /\ h.number < g.number <=> Ahead(h, j, g, i)
  BY DEF Ordered
<1>3. /\ m = at[g.hoplimit] /\ k = forwarding_table[m][f[2]]
      /\ n = at[h.hoplimit] /\ l = forwarding_table[n][f[2]]
  BY DEF OnTrail
<1>4. g.number = h.number
  OBVIOUS
<1> HIDE DEF g, h
<1>5. g.hoplimit = h.hoplimit /\ i = j
  BY <1>1, <1>2, <1>4 DEF Ahead
<1> QED BY <1>3, <1>5

\* The trail goes on by one hop.
LEMMA TrailExtends ==
    ASSUME IInv, NEW f \in Flows, NEW at, NEW low, Trail(f, at, low),
           at[low] # f[2], HasRoute(at[low], f[2])
    PROVE  \E at2 : /\ Trail(f, at2, low - 1)
                    /\ \A h \in Int : low <= h => at2[h] = at[h]
<1> DEFINE q == NextHop(at[low], f[2])
           at2 == [at EXCEPT ![low - 1] = q]
<1>1. at \in [Int -> Node] /\ low \in Int /\ HOP_LIMIT \in Int /\ low <= HOP_LIMIT
  BY ForwardingAssumption DEF Trail
<1>2. q \in Node
  <2>1. at[low] \in Node /\ f[2] \in Node
    BY <1>1, FlowEnds
  <2>2. forwarding_table[at[low]][f[2]] \in LinksOf(at[low])
    BY <2>1 DEF IInv, TypeOK, HasRoute
  <2> QED BY <2>1, <2>2, Neighbours DEF NextHop
<1>3. /\ at2 \in [Int -> Node]
      /\ at2[low - 1] = q
      /\ \A h \in Int : h # low - 1 => at2[h] = at[h]
  BY <1>1, <1>2
<1> HIDE DEF at2
<1>4. \A h \in Int : low <= h => at2[h] = at[h]
  BY <1>1, <1>3
<1>5. ASSUME NEW h \in Int, low - 1 < h, h <= HOP_LIMIT
      PROVE  at2[h] # f[2] /\ HasRoute(at2[h], f[2]) /\ NextHop(at2[h], f[2]) = at2[h - 1]
  <2>1. at2[h] = at[h]
    BY <1>1, <1>4, <1>5
  <2>2. CASE h = low
    BY <1>3, <2>1, <2>2
  <2>3. CASE low < h
    <3>1. at2[h - 1] = at[h - 1]
      BY <1>1, <1>4, <2>3
    <3> QED BY <1>5, <2>1, <2>3, <3>1 DEF Trail
  <2> QED BY <1>1, <1>5, <2>2, <2>3
<1>6. Trail(f, at2, low - 1)
  <2>1. at2[HOP_LIMIT] = f[1]
    BY <1>1, <1>4 DEF Trail
  <2>2. low - 1 \in Int /\ low - 1 <= HOP_LIMIT
    BY <1>1
  <2> QED BY <1>3, <1>5, <2>1, <2>2 DEF Trail
<1> QED BY <1>4, <1>6

-----------------------------------------------------------------------------
(* A datagram is taken from the front of a link. *)

\* By how much the datagrams on link k of m move up, when one is taken from link q
\* of p.
Shift(p, q, m, k) == IF m = p /\ k = q THEN 1 ELSE 0

\* v is w without the first datagram on link q of p.
WithoutHead(w, v, p, q) ==
    /\ w \in Wires /\ v \in Wires
    /\ p \in Node /\ q \in LinksOf(p)
    /\ w[p][q] # <<>>
    /\ \A m \in Node : \A k \in LinksOf(m) :
          v[m][k] = IF m = p /\ k = q THEN Tail(w[p][q]) ELSE w[m][k]

LEMMA WireSeq ==
    ASSUME NEW w \in Wires, NEW m \in Node, NEW k \in LinksOf(m)
    PROVE  w[m][k] \in Seq(Datagrams) /\ Len(w[m][k]) \in Nat
<1>1. w[m] \in Seq(Seq(Datagrams)) /\ DOMAIN w[m] = LinksOf(m)
  BY DEF Wires
<1>2. k \in 1 .. Len(w[m])
  BY <1>1, LenProperties
<1> QED BY <1>1, <1>2, ElementOfSeq, LenProperties

LEMMA HeadPlace ==
    ASSUME NEW w, NEW v, NEW p, NEW q, WithoutHead(w, v, p, q)
    PROVE  /\ Head(w[p][q]) \in Datagrams
           /\ Place(w, Head(w[p][q]).flow, p, q, 1)
           /\ w[p][q][1] = Head(w[p][q])
<1>1. w[p][q] \in Seq(Datagrams) /\ w[p][q] # <<>> /\ Len(w[p][q]) \in Nat
  BY WireSeq DEF WithoutHead
<1>2. Head(w[p][q]) \in Datagrams /\ w[p][q][1] = Head(w[p][q]) /\ Len(w[p][q]) # 0
  BY <1>1, EmptySeq
<1> QED BY <1>1, <1>2 DEF Place, WithoutHead

LEMMA RemovedPlace ==
    ASSUME NEW w, NEW v, NEW p, NEW q, WithoutHead(w, v, p, q), NEW f, NEW m, NEW k
    PROVE  /\ \A i : Place(v, f, m, k, i) =>
                /\ Place(w, f, m, k, i + Shift(p, q, m, k))
                /\ w[m][k][i + Shift(p, q, m, k)] = v[m][k][i]
           /\ \A i : Place(w, f, m, k, i) =>
                \/ m = p /\ k = q /\ i = 1
                \/ /\ Place(v, f, m, k, i - Shift(p, q, m, k))
                   /\ v[m][k][i - Shift(p, q, m, k)] = w[m][k][i]
<1> DEFINE s == w[p][q]
<1>1. s \in Seq(Datagrams) /\ s # <<>>
  BY WireSeq DEF WithoutHead
<1>2. /\ Len(s) \in Nat
      /\ Len(Tail(s)) = Len(s) - 1
      /\ \A i \in 1 .. Len(Tail(s)) : Tail(s)[i] = s[i + 1]
  BY <1>1, HeadTailProperties, LenProperties
<1>3. CASE m = p /\ k = q
  <2>1. m \in Node /\ k \in LinksOf(m) /\ v[m][k] = Tail(s) /\ w[m][k] = s
    BY <1>3 DEF WithoutHead
  <2>2. Shift(p, q, m, k) = 1
    BY <1>3 DEF Shift
  <2> HIDE DEF s
  <2>3. ASSUME NEW i, Place(v, f, m, k, i)
        PROVE  Place(w, f, m, k, i + 1) /\ w[m][k][i + 1] = v[m][k][i]
    <3>1. i \in 1 .. Len(Tail(s)) /\ Tail(s)[i] = s[i + 1] /\ Tail(s)[i].flow = f
      BY <1>2, <2>1, <2>3 DEF Place
    <3>2. i + 1 \in 1 .. Len(s)
      BY <1>2, <3>1
    <3> QED BY <2>1, <3>1, <3>2 DEF Place
  <2>4. ASSUME NEW i, Place(w, f, m, k, i), i # 1
        PROVE  Place(v, f, m, k, i - 1) /\ v[m][k][i - 1] = w[m][k][i]
    <3>1. i \in 1 .. Len(s) /\ s[i].flow = f
      BY <2>1, <2>4 DEF Place
    <3>2. i - 1 \in 1 .. Len(Tail(s)) /\ (i - 1) + 1 = i
      BY <1>2, <2>4, <3>1
    <3>3. Tail(s)[i - 1] = s[i]
      BY <1>2, <3>2
    <3> QED BY <2>1, <3>1, <3>2, <3>3 DEF Place
  <2> QED BY <1>3, <2>2, <2>3, <2>4
<1>4. CASE ~ (m = p /\ k = q)
  <2>1. Shift(p, q, m, k) = 0
    BY <1>4 DEF Shift
  <2>2. m \in Node /\ k \in LinksOf(m) => v[m][k] = w[m][k] /\ Len(w[m][k]) \in Nat
    BY <1>4, WireSeq DEF WithoutHead
  <2>3. \A i : Place(v, f, m, k, i) <=> Place(w, f, m, k, i)
    BY <2>2 DEF Place
  <2>4. \A i : Place(w, f, m, k, i) => i + 0 = i /\ i - 0 = i /\ v[m][k][i] = w[m][k][i]
    BY <2>2 DEF Place
  <2> QED BY <2>1, <2>3, <2>4
<1> QED BY <1>3, <1>4

LEMMA RemovedKeeps ==
    ASSUME NEW w, NEW v, NEW p, NEW q, WithoutHead(w, v, p, q),
           NEW f, NEW at, NEW low, NEW r, NEW s,
           OnTrail(w, f, at, low, r, s), Ordered(w, f)
    PROVE  /\ OnTrail(v, f, at, low, r, s)
           /\ Ordered(v, f)
           /\ \A x : IsUnderWay(w, f, x) =>
                IsUnderWay(v, f, x) \/ (Place(w, f, p, q, 1) /\ w[p][q][1].number = x)
<1>1. OnTrail(v, f, at, low, r, s)
  <2> SUFFICES ASSUME NEW m, NEW k, NEW i, Place(v, f, m, k, i)
               PROVE  /\ r <= v[m][k][i].number
                      /\ v[m][k][i].number < s
                      /\ low < v[m][k][i].hoplimit
                      /\ v[m][k][i].hoplimit <= HOP_LIMIT
                      /\ m = at[v[m][k][i].hoplimit]
                      /\ k = forwarding_table[m][f[2]]
    BY DEF OnTrail
  <2> DEFINE j == i + Shift(p, q, m, k)
  <2>1. Place(w, f, m, k, j) /\ w[m][k][j] = v[m][k][i]
    BY RemovedPlace
  <2> HIDE DEF j
  <2> QED BY <2>1 DEF OnTrail
<1>2. Ordered(v, f)
  <2> SUFFICES ASSUME NEW m, NEW k, NEW i, NEW n, NEW l, NEW j,
                      Place(v, f, m, k, i), Place(v, f, n, l, j)
               PROVE  v[m][k][i].number < v[n][l][j].number
                         <=> Ahead(v[m][k][i], i, v[n][l][j], j)
    BY DEF Ordered
  <2> DEFINE i2 == i + Shift(p, q, m, k)
             j2 == j + Shift(p, q, n, l)
             g == v[m][k][i]
             h == v[n][l][j]
  <2>1. /\ Place(w, f, m, k, i2) /\ w[m][k][i2] = g
        /\ Place(w, f, n, l, j2) /\ w[n][l][j2] = h
    BY RemovedPlace
  <2>2. g.number < h.number <=> Ahead(g, i2, h, j2)
    <3> HIDE DEF i2, j2, g, h
    <3> QED BY <2>1 DEF Ordered
  <2>3. g.hoplimit = h.hoplimit => m = n /\ k = l
    <3> HIDE DEF i2, j2, g, h
    <3>1. /\ m = at[g.hoplimit] /\ k = forwarding_table[m][f[2]]
          /\ n = at[h.hoplimit] /\ l = forwarding_table[n][f[2]]
      BY <2>1 DEF OnTrail
    <3> QED BY <3>1
  <2>4. i \in Nat /\ j \in Nat
    BY PlaceType DEF WithoutHead
  <2>5. m = n /\ k = l => (i2 < j2 <=> i < j)
    BY <2>4 DEF Shift
  <2> HIDE DEF i2, j2, g, h
  <2>6. Ahead(g, i2, h, j2) <=> Ahead(g, i, h, j)
    BY <2>3, <2>5 DEF Ahead
  <2> QED BY <2>2, <2>6 DEF g, h
<1>3. ASSUME NEW x, IsUnderWay(w, f, x)
      PROVE  IsUnderWay(v, f, x) \/ (Place(w, f, p, q, 1) /\ w[p][q][1].number = x)
  <2>1. PICK m, k, i : Place(w, f, m, k, i) /\ w[m][k][i].number = x
    BY <1>3 DEF IsUnderWay
  <2> DEFINE j == i - Shift(p, q, m, k)
  <2>2. \/ m = p /\ k = q /\ i = 1
        \/ Place(v, f, m, k, j) /\ v[m][k][j] = w[m][k][i]
    BY <2>1, RemovedPlace
  <2> HIDE DEF j
  <2> QED BY <2>1, <2>2 DEF IsUnderWay
<1> QED BY <1>1, <1>2, <1>3

\* The first datagram on a link is the first of its flow there.
LEMMA HeadIsAhead ==
    ASSUME NEW w, NEW v, NEW p, NEW q, WithoutHead(w, v, p, q),
           NEW f, f = Head(w[p][q]).flow, NEW at, NEW low, NEW r, NEW s,
           OnTrail(w, f, at, low, r, s), Ordered(w, f),
           NEW m, NEW k, NEW i, Place(v, f, m, k, i)
    PROVE  LET h == Head(w[p][q])
               g == v[m][k][i]
           IN  /\ g.number # h.number
               /\ g.number < h.number <=> g.hoplimit < h.hoplimit
               /\ g.hoplimit \in Int /\ h.hoplimit \in Int
               /\ g.number \in Nat /\ h.number \in Nat
<1> DEFINE h == Head(w[p][q])
           g == v[m][k][i]
           j == i + Shift(p, q, m, k)
<1>1. Place(w, f, p, q, 1) /\ w[p][q][1] = h /\ h \in Datagrams
  BY HeadPlace
<1>2. Place(w, f, m, k, j) /\ w[m][k][j] = g
  BY RemovedPlace
<1>3. w \in Wires /\ v \in Wires
  BY DEF WithoutHead
<1>4. i \in Nat /\ i # 0
  <2>1. i \in Nat /\ Len(v[m][k]) \in Nat
    BY <1>3, PlaceType
  <2> QED BY <2>1 DEF Place
<1>5. m = p /\ k = q => j # 1 /\ ~ (j < 1) /\ j \in Nat
  BY <1>4 DEF Shift
<1> HIDE DEF h, g, j
<1>6. /\ g.number \in Nat /\ h.number \in Nat
      /\ g.hoplimit \in Int /\ h.hoplimit \in Int
      /\ j \in Nat
  BY <1>1, <1>2, <1>3, PlaceType
<1>7. g.number # h.number
  BY <1>1, <1>2, <1>3, <1>5, NumbersDiffer
<1>8. g.number < h.number <=> Ahead(g, j, h, 1)
  BY ZenonT(60), <1>1, <1>2 DEF Ordered
<1>9. g.hoplimit = h.hoplimit => m = p /\ k = q
  <2>1. /\ p = at[h.hoplimit] /\ q = forwarding_table[p][f[2]]
        /\ m = at[g.hoplimit] /\ k = forwarding_table[m][f[2]]
    BY <1>1, <1>2 DEF OnTrail
  <2> QED BY ZenonT(60), <2>1
<1>10. g.number < h.number <=> g.hoplimit < h.hoplimit
  BY <1>5, <1>8, <1>9 DEF Ahead
<1> QED BY <1>6, <1>7, <1>10 DEF g, h

-----------------------------------------------------------------------------
(* A datagram is appended to a link. *)

\* u is v with g behind what is on link l of n.
WithLast(v, u, n, l, g) ==
    /\ v \in Wires /\ u \in Wires
    /\ n \in Node /\ l \in LinksOf(n)
    /\ g \in Datagrams
    /\ \A m \in Node : \A k \in LinksOf(m) :
          u[m][k] = IF m = n /\ k = l THEN Append(v[n][l], g) ELSE v[m][k]

LEMMA AppendedPlace ==
    ASSUME NEW v, NEW u, NEW n, NEW l, NEW g, WithLast(v, u, n, l, g), NEW f
    PROVE  /\ \A m, k, i : Place(u, f, m, k, i) =>
                \/ Place(v, f, m, k, i) /\ u[m][k][i] = v[m][k][i]
                \/ /\ m = n /\ k = l /\ i = Len(v[n][l]) + 1
                   /\ u[m][k][i] = g /\ g.flow = f
           /\ \A m, k, i : Place(v, f, m, k, i) =>
                Place(u, f, m, k, i) /\ u[m][k][i] = v[m][k][i]
<1> DEFINE s == v[n][l]
<1>1. s \in Seq(Datagrams) /\ Len(s) \in Nat
  BY WireSeq DEF WithLast
<1>2. /\ Len(Append(s, g)) = Len(s) + 1
      /\ \A i \in 1 .. Len(s) : Append(s, g)[i] = s[i]
      /\ Append(s, g)[Len(s) + 1] = g
  BY <1>1, AppendProperties DEF WithLast
<1>3. n \in Node /\ l \in LinksOf(n) /\ u[n][l] = Append(s, g)
  BY DEF WithLast
<1>4. \A m \in Node : \A k \in LinksOf(m) : ~ (m = n /\ k = l) => u[m][k] = v[m][k]
  BY DEF WithLast
<1> HIDE DEF s
<1>5. ASSUME NEW i
      PROVE  /\ i \in 1 .. Len(Append(s, g)) <=> i \in 1 .. Len(s) \/ i = Len(s) + 1
  BY <1>1, <1>2
<1>6. ASSUME NEW m, NEW k, NEW i, Place(u, f, m, k, i)
      PROVE  \/ Place(v, f, m, k, i) /\ u[m][k][i] = v[m][k][i]
             \/ m = n /\ k = l /\ i = Len(s) + 1 /\ u[m][k][i] = g /\ g.flow = f
  <2>1. CASE m = n /\ k = l
    <3>1. i \in 1 .. Len(s) \/ i = Len(s) + 1
      BY <1>3, <1>5, <1>6, <2>1 DEF Place
    <3>2. u[m][k] = Append(s, g) /\ v[m][k] = s /\ m \in Node /\ k \in LinksOf(m)
          /\ u[m][k][i].flow = f
      BY <1>3, <1>6, <2>1 DEF s, Place
    <3> QED BY <1>2, <2>1, <3>1, <3>2 DEF Place
  <2>2. CASE ~ (m = n /\ k = l)
    BY <1>4, <1>6, <2>2 DEF Place
  <2> QED BY <2>1, <2>2
<1>7. ASSUME NEW m, NEW k, NEW i, Place(v, f, m, k, i)
      PROVE  Place(u, f, m, k, i) /\ u[m][k][i] = v[m][k][i]
  <2>1. CASE m = n /\ k = l
    <3>1. u[m][k] = Append(s, g) /\ v[m][k] = s /\ m \in Node /\ k \in LinksOf(m)
          /\ v[m][k][i].flow = f /\ i \in 1 .. Len(s)
      BY <1>3, <1>7, <2>1 DEF s, Place
    <3>2. i \in 1 .. Len(Append(s, g))
      BY <1>5, <3>1
    <3> QED BY <1>2, <3>1, <3>2 DEF Place
  <2>2. CASE ~ (m = n /\ k = l)
    BY <1>4, <1>7, <2>2 DEF Place
  <2> QED BY <2>1, <2>2
<1> QED BY <1>6, <1>7 DEF s

LEMMA AppendedLast ==
    ASSUME NEW v, NEW u, NEW n, NEW l, NEW g, WithLast(v, u, n, l, g)
    PROVE  /\ Place(u, g.flow, n, l, Len(v[n][l]) + 1)
           /\ u[n][l][Len(v[n][l]) + 1] = g
           /\ Len(v[n][l]) \in Nat
<1> DEFINE s == v[n][l]
<1>1. s \in Seq(Datagrams) /\ Len(s) \in Nat
  BY WireSeq DEF WithLast
<1>2. Len(Append(s, g)) = Len(s) + 1 /\ Append(s, g)[Len(s) + 1] = g
  BY <1>1, AppendProperties DEF WithLast
<1>3. n \in Node /\ l \in LinksOf(n) /\ u[n][l] = Append(s, g)
  BY DEF WithLast
<1> HIDE DEF s
<1>4. Len(s) + 1 \in 1 .. Len(Append(s, g))
  BY <1>1, <1>2
<1>5. Place(u, g.flow, n, l, Len(s) + 1) /\ u[n][l][Len(s) + 1] = g
  BY <1>2, <1>3, <1>4 DEF Place
<1> QED BY <1>1, <1>5 DEF s

\* A datagram of another flow changes nothing for this one.
LEMMA AppendedOther ==
    ASSUME NEW v, NEW u, NEW n, NEW l, NEW g, WithLast(v, u, n, l, g),
           NEW f, g.flow # f, NEW at, NEW low, NEW r, NEW s,
           OnTrail(v, f, at, low, r, s), Ordered(v, f)
    PROVE  /\ OnTrail(u, f, at, low, r, s)
           /\ Ordered(u, f)
           /\ \A x : IsUnderWay(v, f, x) => IsUnderWay(u, f, x)
<1>1. \A m, k, i : Place(u, f, m, k, i) => Place(v, f, m, k, i) /\ u[m][k][i] = v[m][k][i]
  BY AppendedPlace
<1>2. \A m, k, i : Place(v, f, m, k, i) => Place(u, f, m, k, i) /\ u[m][k][i] = v[m][k][i]
  BY AppendedPlace
<1>3. OnTrail(u, f, at, low, r, s)
  <2> SUFFICES ASSUME NEW m, NEW k, NEW i, Place(u, f, m, k, i)
               PROVE  /\ r <= u[m][k][i].number
                      /\ u[m][k][i].number < s
                      /\ low < u[m][k][i].hoplimit
                      /\ u[m][k][i].hoplimit <= HOP_LIMIT
                      /\ m = at[u[m][k][i].hoplimit]
                      /\ k = forwarding_table[m][f[2]]
    BY DEF OnTrail
  <2>1. Place(v, f, m, k, i) /\ u[m][k][i] = v[m][k][i]
    BY <1>1
  <2> QED BY <2>1 DEF OnTrail
<1>4. Ordered(u, f)
  <2> SUFFICES ASSUME NEW m, NEW k, NEW i, NEW m2, NEW k2, NEW j,
                      Place(u, f, m, k, i), Place(u, f, m2, k2, j)
               PROVE  u[m][k][i].number < u[m2][k2][j].number
                         <=> Ahead(u[m][k][i], i, u[m2][k2][j], j)
    BY DEF Ordered
  <2>1. /\ Place(v, f, m, k, i) /\ u[m][k][i] = v[m][k][i]
        /\ Place(v, f, m2, k2, j) /\ u[m2][k2][j] = v[m2][k2][j]
    BY <1>1
  <2> QED BY <2>1 DEF Ordered
<1> QED BY <1>2, <1>3, <1>4 DEF IsUnderWay

\* A datagram of the flow goes behind those that are as far as it is.
LEMMA AppendedBehind ==
    ASSUME NEW v, NEW u, NEW n, NEW l, NEW g, WithLast(v, u, n, l, g),
           NEW f, g.flow = f, NEW at, NEW low, NEW r, NEW s,
           OnTrail(v, f, at, low, r, s), Ordered(v, f),
           r <= g.number, g.number < s, low < g.hoplimit, g.hoplimit <= HOP_LIMIT,
           n = at[g.hoplimit], l = forwarding_table[n][f[2]],
           \A m, k, i : Place(v, f, m, k, i) =>
             /\ v[m][k][i].number # g.number
             /\ v[m][k][i].number < g.number <=> v[m][k][i].hoplimit <= g.hoplimit
    PROVE  /\ OnTrail(u, f, at, low, r, s)
           /\ Ordered(u, f)
           /\ \A x : IsUnderWay(v, f, x) => IsUnderWay(u, f, x)
           /\ IsUnderWay(u, f, g.number)
<1> DEFINE c == Len(v[n][l])
           e == c + 1
<1>1. \A m, k, i : Place(u, f, m, k, i) =>
         \/ Place(v, f, m, k, i) /\ u[m][k][i] = v[m][k][i]
         \/ m = n /\ k = l /\ i = e /\ u[m][k][i] = g
  BY AppendedPlace
<1>2. \A m, k, i : Place(v, f, m, k, i) => Place(u, f, m, k, i) /\ u[m][k][i] = v[m][k][i]
  BY SMTT(60), AppendedPlace
<1>3. Place(u, f, n, l, e) /\ u[n][l][e] = g /\ c \in Nat /\ e \in Nat
  <2>1. Place(u, g.flow, n, l, e) /\ u[n][l][e] = g /\ c \in Nat
    BY ONLY WithLast(v, u, n, l, g), AppendedLast
  <2>2. Place(u, f, n, l, e)
    BY ONLY <2>1, g.flow = f
  <2>3. e \in Nat
    BY ONLY <2>1
  <2> QED BY <2>1, <2>2, <2>3
<1>4. g.number \in Nat /\ g.hoplimit \in Int /\ v \in Wires /\ u \in Wires
  BY SMTT(60) DEF WithLast, Datagrams
<1>5. OnTrail(u, f, at, low, r, s)
  <2> SUFFICES ASSUME NEW m, NEW k, NEW i, Place(u, f, m, k, i)
               PROVE  /\ r <= u[m][k][i].number
                      /\ u[m][k][i].number < s
                      /\ low < u[m][k][i].hoplimit
                      /\ u[m][k][i].hoplimit <= HOP_LIMIT
                      /\ m = at[u[m][k][i].hoplimit]
                      /\ k = forwarding_table[m][f[2]]
    BY DEF OnTrail
  <2>1. CASE Place(v, f, m, k, i) /\ u[m][k][i] = v[m][k][i]
    BY SMTT(60), <2>1 DEF OnTrail
  <2>2. CASE m = n /\ k = l /\ i = e /\ u[m][k][i] = g
    BY <2>2
  <2> QED BY <1>1, <2>1, <2>2
<1>6. ASSUME NEW m, NEW k, NEW i, Place(v, f, m, k, i)
      PROVE  LET y == v[m][k][i]
             IN  /\ y.number < g.number <=> Ahead(y, i, g, e)
                 /\ g.number < y.number <=> Ahead(g, e, y, i)
  <2> DEFINE y == v[m][k][i]
  <2>1. /\ y.number # g.number
        /\ y.number < g.number <=> y.hoplimit <= g.hoplimit
    BY <1>6
  <2>2. y.number \in Nat /\ y.hoplimit \in Int /\ i \in Nat
    BY SMTT(60), <1>4, <1>6, PlaceType
  <2>3. y.hoplimit = g.hoplimit => i < e /\ ~ (e < i)
    <3> SUFFICES ASSUME y.hoplimit = g.hoplimit PROVE i < e /\ ~ (e < i)
      OBVIOUS
    <3>1. m = at[y.hoplimit] /\ k = forwarding_table[m][f[2]]
      BY <1>6 DEF OnTrail
    <3>2. m = n /\ k = l
      BY SMTT(60), <3>1
    <3>3. i \in 1 .. c
      BY <1>6, <3>2 DEF Place
    <3> HIDE DEF y, c
    <3> QED BY SMTT(60), <1>3, <2>2, <3>3
  <2> HIDE DEF y, e
  <2>4. y.number < g.number <=> Ahead(y, i, g, e)
    BY <1>4, <2>1, <2>2, <2>3 DEF Ahead
  <2>5. g.number < y.number <=> Ahead(g, e, y, i)
    BY SMTT(60), <1>4, <2>1, <2>2, <2>3 DEF Ahead
  <2> QED BY <2>4, <2>5 DEF y
<1> HIDE DEF e
<1>7. ~ (g.number < g.number) /\ ~ Ahead(g, e, g, e)
  BY <1>3, <1>4 DEF Ahead
<1>8. Ordered(u, f)
  <2> SUFFICES ASSUME NEW m, NEW k, NEW i, NEW m2, NEW k2, NEW j,
                      Place(u, f, m, k, i), Place(u, f, m2, k2, j)
               PROVE  u[m][k][i].number < u[m2][k2][j].number
                         <=> Ahead(u[m][k][i], i, u[m2][k2][j], j)
    BY DEF Ordered
  <2>1. \/ Place(v, f, m, k, i) /\ u[m][k][i] = v[m][k][i]
        \/ i = e /\ u[m][k][i] = g
    BY <1>1
  <2>2. \/ Place(v, f, m2, k2, j) /\ u[m2][k2][j] = v[m2][k2][j]
        \/ j = e /\ u[m2][k2][j] = g
    BY <1>1
  <2>3. CASE Place(v, f, m, k, i) /\ u[m][k][i] = v[m][k][i]
    <3>1. CASE Place(v, f, m2, k2, j) /\ u[m2][k2][j] = v[m2][k2][j]
      BY <2>3, <3>1 DEF Ordered
    <3>2. CASE j = e /\ u[m2][k2][j] = g
      BY <1>6, <2>3, <3>2
    <3> QED BY <2>2, <3>1, <3>2
  <2>4. CASE i = e /\ u[m][k][i] = g
    <3>1. CASE Place(v, f, m2, k2, j) /\ u[m2][k2][j] = v[m2][k2][j]
      BY <1>6, <2>4, <3>1
    <3>2. CASE j = e /\ u[m2][k2][j] = g
      BY SMTT(60), <1>7, <2>4, <3>2
    <3> QED BY <2>2, <3>1, <3>2
  <2> QED BY <2>1, <2>3, <2>4
<1>9. IsUnderWay(u, f, g.number)
  BY <1>3 DEF IsUnderWay
<1> QED BY <1>2, <1>5, <1>8, <1>9 DEF IsUnderWay

-----------------------------------------------------------------------------
(* Each action. *)

\* What a step leaves of a flow when the tables stay.
LEMMA FlowCarries ==
    ASSUME UNCHANGED forwarding_table, NEW f, NEW at, NEW low,
           NEW r, NEW s, r = Ended(f)', s = sent'[f], Counted(f)',
           Trail(f, at, low), OnTrail(wire', f, at, low, r, s), Ordered(wire', f),
           \A v \in Nat : r <= v /\ v < s => IsUnderWay(wire', f, v)
    PROVE  FlowOK(f)'
<1>1. Trail(f, at, low)'
  BY DEF Trail, HasRoute, NextHop, NO_LINK
<1>2. OnTrail(wire, f, at, low, r, s)'
  BY DEF OnTrail, Place, LinksOf
<1>3. Ordered(wire, f)'
  BY DEF Ordered, Place, LinksOf
<1>4. (\A v \in Nat : r <= v /\ v < s => IsUnderWay(wire, f, v))'
  BY DEF IsUnderWay, Place, LinksOf
<1>5. FlowKept(wire, f, at, low, Ended(f), sent[f])'
  BY <1>1, <1>2, <1>3, <1>4 DEF FlowKept
<1> QED BY <1>5 DEF FlowOK

LEMMA AnnouncementFlows ==
    ASSUME Safe, FlowsOK, NEW n \in Node, NEW l \in LinksOf(n), Announcement(n, l)
    PROVE  FlowsOK'
<1>1. UNCHANGED <<wire, sent, unrouted, received>> /\ (Apply(n, l) \/ MissFirst(n, l))
  BY DEF Announcement
<1>2. ASSUME NEW m \in Node, NEW d \in Node, HasRoute(m, d)
      PROVE  forwarding_table'[m][d] = forwarding_table[m][d]
  <2>1. CASE Apply(n, l) /\ Changed(n, l) /\ m = n /\ d = Info(n, l).destAddr
    <3>1. n # d /\ ~ HasEntry(n, d)
      BY <2>1, ChangeIsNew DEF Changed, Safe
    <3>2. ~ HasRoute(n, d)
      BY <1>2, <3>1 DEF HasRoute, Safe, IInv, RouteIsTold
    <3> QED BY <1>2, <2>1, <3>2
  <2>2. CASE Apply(n, l) /\ ~ (Changed(n, l) /\ m = n /\ d = Info(n, l).destAddr)
    BY <2>2, AppliedAt DEF Safe
  <2>3. CASE MissFirst(n, l)
    BY <2>3 DEF MissFirst, tables
  <2> QED BY <1>1, <2>1, <2>2, <2>3
<1>3. ASSUME NEW f \in Flows PROVE FlowOK(f)'
  <2>1. PICK at, low : FlowKept(wire, f, at, low, Ended(f), sent[f])
    BY DEF FlowsOK, FlowOK
  <2>2. f[2] \in Node
    BY FlowEnds
  <2>3. Trail(f, at, low)'
    <3>1. at \in [Int -> Node] /\ low \in Int
      BY <2>1 DEF FlowKept, Trail
    <3>2. ASSUME NEW h \in Int, low < h, h <= HOP_LIMIT
          PROVE  HasRoute(at[h], f[2])' /\ NextHop(at[h], f[2])' = at[h - 1]
      <4>1. HasRoute(at[h], f[2]) /\ NextHop(at[h], f[2]) = at[h - 1] /\ at[h] \in Node
        BY <2>1, <3>1, <3>2 DEF FlowKept, Trail
      <4>2. forwarding_table'[at[h]][f[2]] = forwarding_table[at[h]][f[2]]
        BY <1>2, <2>2, <4>1
      <4> QED BY <4>1, <4>2 DEF HasRoute, NextHop, NO_LINK
    <3> QED BY <2>1, <3>2 DEF FlowKept, Trail
  <2>4. ASSUME NEW m, NEW k, NEW i, Place(wire, f, m, k, i)
        PROVE  k = forwarding_table'[m][f[2]]
    <3>1. /\ k = forwarding_table[m][f[2]] /\ m \in Node
          /\ k \in LinksOf(m)
      BY <2>1, <2>4 DEF FlowKept, OnTrail, Place
    <3>2. HasRoute(m, f[2])
      BY <3>1, Neighbours DEF HasRoute
    <3> QED BY <1>2, <2>2, <3>1, <3>2
  <2>5. OnTrail(wire, f, at, low, Ended(f), sent[f])'
    <3>1. OnTrail(wire, f, at, low, Ended(f), sent[f])
      BY <2>1 DEF FlowKept
    <3> QED BY <1>1, <2>4, <3>1 DEF OnTrail, Place, Ended
  <2>6. /\ Ordered(wire, f)'
        /\ \A v \in Nat : Ended(f)' <= v /\ v < sent'[f] => IsUnderWay(wire, f, v)'
    BY <1>1, <2>1 DEF FlowKept, Ordered, IsUnderWay, Place, Ended
  <2>7. FlowKept(wire, f, at, low, Ended(f), sent[f])'
    BY <2>3, <2>5, <2>6 DEF FlowKept
  <2>8. Counted(f)'
    <3>1. Counted(f)
      BY DEF FlowsOK, FlowOK
    <3>2. HasRoute(f[1], f[2]) => HasRoute(f[1], f[2])'
      BY <1>2, FlowEnds DEF HasRoute, NO_LINK
    <3> QED BY <1>1, <3>1, <3>2 DEF Counted, Ended
  <2> QED BY <2>7, <2>8 DEF FlowOK
<1> QED BY <1>1, <1>3 DEF FlowsOK

\* A step that leaves a flow alone, its datagrams and counts.
LEMMA FlowRests ==
    ASSUME FlowsOK, UNCHANGED forwarding_table, NEW f \in Flows,
           received'[f] = received[f], sent'[f] = sent[f], unrouted'[f] = unrouted[f],
           \A at, low, r, s : OnTrail(wire, f, at, low, r, s) /\ Ordered(wire, f) =>
             /\ OnTrail(wire', f, at, low, r, s)
             /\ Ordered(wire', f)
             /\ \A x : IsUnderWay(wire, f, x) => IsUnderWay(wire', f, x)
    PROVE  FlowOK(f)'
<1>1. PICK at, low : FlowKept(wire, f, at, low, Ended(f), sent[f])
  BY DEF FlowsOK, FlowOK
<1> DEFINE r == Ended(f)
           s == sent[f]
<1>2. /\ Trail(f, at, low)
      /\ OnTrail(wire, f, at, low, r, s)
      /\ Ordered(wire, f)
      /\ \A v \in Nat : r <= v /\ v < s => IsUnderWay(wire, f, v)
  BY <1>1 DEF FlowKept
<1>3. Counted(f)
  BY DEF FlowsOK, FlowOK
<1>4. r = Ended(f)' /\ s = sent'[f]
  BY DEF Ended
<1>5. Counted(f)'
  BY <1>3 DEF Counted, Ended, HasRoute, NO_LINK
<1> HIDE DEF r, s
<1>6. /\ OnTrail(wire', f, at, low, r, s)
      /\ Ordered(wire', f)
      /\ \A v \in Nat : r <= v /\ v < s => IsUnderWay(wire', f, v)
  BY <1>2
<1> QED BY <1>2, <1>4, <1>5, <1>6, FlowCarries

\* The trail of a flow reaches behind a node from which it goes on.
LEMMA TrailReaches ==
    ASSUME IInv, NEW f \in Flows, NEW w \in Wires, NEW at, NEW low, NEW r, NEW s,
           Trail(f, at, low), OnTrail(w, f, at, low, r, s),
           NEW h \in Int, low <= h, at[h] # f[2], HasRoute(at[h], f[2])
    PROVE  \E at2, low2 : /\ Trail(f, at2, low2)
                          /\ OnTrail(w, f, at2, low2, r, s)
                          /\ low2 < h
                          /\ at2[h] = at[h]
<1>1. low \in Int
  BY DEF Trail
<1>2. CASE low < h
  BY <1>2
<1>3. CASE low = h
  <2>1. PICK at2 : Trail(f, at2, low - 1) /\ \A i \in Int : low <= i => at2[i] = at[i]
    BY SMTT(60), <1>3, TrailExtends
  <2>2. OnTrail(w, f, at2, low - 1, r, s)
    <3> SUFFICES ASSUME NEW m, NEW k, NEW i, Place(w, f, m, k, i)
                 PROVE  /\ r <= w[m][k][i].number
                        /\ w[m][k][i].number < s
                        /\ low - 1 < w[m][k][i].hoplimit
                        /\ w[m][k][i].hoplimit <= HOP_LIMIT
                        /\ m = at2[w[m][k][i].hoplimit]
                        /\ k = forwarding_table[m][f[2]]
      BY DEF OnTrail
    <3> DEFINE g == w[m][k][i]
    <3>1. g.hoplimit \in Int
      BY PlaceType
    <3>2. /\ r <= g.number /\ g.number < s
          /\ low < g.hoplimit
          /\ g.hoplimit <= HOP_LIMIT
          /\ m = at[g.hoplimit]
          /\ k = forwarding_table[m][f[2]]
      BY DEF OnTrail
    <3> HIDE DEF g
    <3>3. low - 1 < g.hoplimit /\ low <= g.hoplimit
      BY <1>1, <3>1, <3>2
    <3>4. at2[g.hoplimit] = at[g.hoplimit]
      BY <2>1, <3>1, <3>3
    <3> QED BY <3>2, <3>3, <3>4 DEF g
  <2>3. low - 1 < h /\ at2[h] = at[h]
    BY <1>1, <1>3, <2>1
  <2> QED BY <2>1, <2>2, <2>3
<1> QED BY <1>1, <1>2, <1>3

LEMMA WireInWires ==
    ASSUME WireType
    PROVE  wire \in Wires
BY DEF WireType, Wires

\* A datagram that has a route follows the others of its flow.
LEMMA RoutedFlows ==
    ASSUME Safe, Safe', FlowsOK, NEW f \in Flows, network_transmit(f),
           HasRoute(f[1], f[2])
    PROVE  FlowsOK'
<1> DEFINE n == f[1]
           d == f[2]
           l == forwarding_table[n][d]
           h == [flow |-> f, number |-> sent[f], hoplimit |-> HOP_LIMIT]
<1>1. n \in Node /\ d \in Node /\ n # d
  BY FlowEnds
<1>2. HasRoute(n, d) /\ l # NO_LINK
  BY DEF HasRoute
<1>3. l \in LinksOf(n)
  BY SMTT(60), <1>1, <1>2 DEF Safe, IInv, TypeOK
<1>4. h \in Datagrams /\ sent[f] \in Nat /\ HOP_LIMIT \in Int
  BY ForwardingAssumption DEF Datagrams, Safe, WireType
<1>5. /\ wire' = [wire EXCEPT ![n][l] = Append(wire[n][l], h)]
      /\ sent' = [sent EXCEPT ![f] = @ + 1]
      /\ UNCHANGED <<dvVars, unrouted, received>>
  BY SMTT(60), <1>2 DEF network_transmit, network_lookup
<1>6. UNCHANGED forwarding_table /\ sent \in [Flows -> Nat]
  BY <1>5 DEF dvVars, tables, Safe, WireType
<1>7. wire \in Wires /\ wire' \in Wires
  <2>1. wire \in Wires
    BY WireInWires DEF Safe
  <2>2. wire' \in Wires
    BY DEF Safe, WireType, Wires, Datagrams, LinksOf
  <2> QED BY <2>1, <2>2
<1>8. WithLast(wire, wire', n, l, h)
  <2>1. wire[n][l] \in Seq(Datagrams)
    BY SMTT(60), <1>1, <1>3, <1>7, WireSeq
  <2> DEFINE s == Append(wire[n][l], h)
  <2>2. s \in Seq(Datagrams) /\ wire' = [wire EXCEPT ![n][l] = s]
    BY <1>4, <1>5, <2>1, AppendProperties
  <2>3. wire \in [Node -> Seq(Seq(Datagrams))] /\ \A i \in Node : DOMAIN wire[i] = LinksOf(i)
    BY <1>7 DEF Wires
  <2> HIDE DEF s, n, l, h
  <2>4. \A i \in Node : \A j \in LinksOf(i) :
          wire'[i][j] = IF i = n /\ j = l THEN s ELSE wire[i][j]
    BY <1>1, <1>3, <2>2, <2>3, LinkChanged
  <2> QED BY <1>1, <1>3, <1>4, <1>7, <2>4 DEF WithLast, s
<1>9. h.flow = f /\ h.number = sent[f] /\ h.hoplimit = HOP_LIMIT
  OBVIOUS
<1> HIDE DEF h
<1>10. ASSUME NEW g \in Flows, g # f PROVE FlowOK(g)'
  <2>1. h.flow # g
    BY <1>9, <1>10
  <2>2. \A at, low, r, s : OnTrail(wire, g, at, low, r, s) /\ Ordered(wire, g) =>
          /\ OnTrail(wire', g, at, low, r, s)
          /\ Ordered(wire', g)
          /\ \A x : IsUnderWay(wire, g, x) => IsUnderWay(wire', g, x)
    BY SMTT(60), <1>8, <2>1, AppendedOther
  <2>3. received'[g] = received[g] /\ sent'[g] = sent[g] /\ unrouted'[g] = unrouted[g]
    BY <1>5, <1>6, <1>10
  <2> QED BY <1>6, <2>2, <2>3, FlowRests
<1>11. FlowOK(f)'
  <2> DEFINE r == Ended(f)
             s == sent[f]
  <2>1. PICK at, low : FlowKept(wire, f, at, low, r, s)
    BY DEF FlowsOK, FlowOK
  <2>2. Counted(f) /\ r \in Nat /\ r <= s
    BY SMTT(60), LenProperties DEF FlowsOK, FlowOK, Counted, Ended
  <2>3. /\ Trail(f, at, low)
        /\ OnTrail(wire, f, at, low, r, s)
        /\ Ordered(wire, f)
        /\ \A v \in Nat : r <= v /\ v < s => IsUnderWay(wire, f, v)
    BY SMTT(60), <2>1 DEF FlowKept
  <2>4. /\ s \in Nat /\ sent'[f] = s + 1 /\ h.number = s
        /\ received'[f] = received[f] /\ unrouted'[f] = unrouted[f]
    BY <1>4, <1>5, <1>6, <1>9
  <2>5. low <= HOP_LIMIT /\ at[HOP_LIMIT] = n
    BY <2>3 DEF Trail
  <2> HIDE DEF r, s
  <2>6. PICK at2, low2 : /\ Trail(f, at2, low2)
                         /\ OnTrail(wire, f, at2, low2, r, s)
                         /\ low2 < HOP_LIMIT
                         /\ at2[HOP_LIMIT] = n
    <3>1. at[HOP_LIMIT] # d /\ HasRoute(at[HOP_LIMIT], d)
      BY <1>1, <1>2, <2>5
    <3>2. IInv
      BY DEF Safe
    <3>3. \E at2, low2 : /\ Trail(f, at2, low2)
                         /\ OnTrail(wire, f, at2, low2, r, s)
                         /\ low2 < HOP_LIMIT
                         /\ at2[HOP_LIMIT] = at[HOP_LIMIT]
      BY <1>4, <1>7, <2>3, <2>5, <3>1, <3>2, TrailReaches
    <3> QED BY <2>5, <3>3
  <2>7. ASSUME NEW m, NEW k, NEW i, Place(wire, f, m, k, i)
        PROVE  /\ r <= wire[m][k][i].number
               /\ wire[m][k][i].number < s
               /\ wire[m][k][i].number \in Nat
               /\ low2 < wire[m][k][i].hoplimit
               /\ wire[m][k][i].hoplimit <= HOP_LIMIT
               /\ m = at2[wire[m][k][i].hoplimit]
               /\ k = forwarding_table[m][f[2]]
    BY <1>7, <2>6, <2>7, PlaceType DEF OnTrail
  <2>8. OnTrail(wire, f, at2, low2, r, s + 1)
    <3>1. ASSUME NEW x \in Nat, x < s PROVE x < s + 1
      BY <2>4, <3>1
    <3> QED BY <2>7, <3>1 DEF OnTrail
  <2>9. \A m, k, i : Place(wire, f, m, k, i) =>
          /\ wire[m][k][i].number # h.number
          /\ wire[m][k][i].number < h.number <=> wire[m][k][i].hoplimit <= h.hoplimit
    <3>1. ASSUME NEW x \in Nat, x < s PROVE x # s
      BY <2>4, <3>1
    <3> QED BY <1>9, <2>4, <2>7, <3>1
  <2>10. /\ r <= h.number /\ h.number < s + 1
         /\ low2 < h.hoplimit /\ h.hoplimit <= HOP_LIMIT
         /\ n = at2[h.hoplimit]
    BY <1>4, <1>9, <2>2, <2>4, <2>6
  <2>11. /\ OnTrail(wire', f, at2, low2, r, s + 1)
         /\ Ordered(wire', f)
         /\ \A x : IsUnderWay(wire, f, x) => IsUnderWay(wire', f, x)
         /\ IsUnderWay(wire', f, h.number)
    BY <1>8, <1>9, <2>3, <2>8, <2>9, <2>10, AppendedBehind
  <2>12. \A v \in Nat : r <= v /\ v < s + 1 => IsUnderWay(wire', f, v)
    <3>1. ASSUME NEW v \in Nat, v < s + 1 PROVE v < s \/ v = s
      BY <2>4, <3>1
    <3> QED BY <2>3, <2>4, <2>11, <3>1
  <2>13. r = Ended(f)' /\ s + 1 = sent'[f] /\ Counted(f)'
    <3>1. r = Ended(f)'
      BY <2>4 DEF r, Ended
    <3>2. r <= s + 1
      BY SMTT(60), <2>2, <2>4
    <3>3. HasRoute(f[1], f[2])'
      BY SMTT(60), <1>6 DEF HasRoute, NO_LINK
    <3> QED BY <2>2, <2>4, <3>1, <3>2, <3>3 DEF Counted
  <2> QED BY <1>6, <2>6, <2>11, <2>12, <2>13, FlowCarries
<1>12. DOMAIN received' = Flows
  BY <1>5 DEF FlowsOK
<1> QED BY <1>10, <1>11, <1>12 DEF FlowsOK

\* A datagram without a route is dropped; no other of its flow is under way.
LEMMA DroppedFlows ==
    ASSUME Safe, FlowsOK, NEW f \in Flows, network_transmit(f), ~ HasRoute(f[1], f[2])
    PROVE  FlowsOK'
<1>1. /\ sent' = [sent EXCEPT ![f] = @ + 1]
      /\ unrouted' = [unrouted EXCEPT ![f] = @ + 1]
      /\ UNCHANGED <<forwarding_table, wire, received>>
  BY DEF network_transmit, network_lookup, HasRoute, dvVars, tables
<1>2. sent \in [Flows -> Nat] /\ unrouted \in [Flows -> Nat] /\ wire \in Wires
  BY WireInWires DEF Safe, WireType
<1>3. ASSUME NEW g \in Flows, g # f PROVE FlowOK(g)'
  <2>1. received'[g] = received[g] /\ sent'[g] = sent[g] /\ unrouted'[g] = unrouted[g]
    BY <1>1, <1>2, <1>3
  <2> QED BY <1>1, <2>1, FlowRests
<1>4. FlowOK(f)'
  <2> DEFINE s == sent[f]
  <2>1. Counted(f) /\ Len(received[f]) \in Nat
    BY LenProperties DEF FlowsOK, FlowOK, Counted
  <2>2. Len(received[f]) = 0 /\ unrouted[f] = s /\ s \in Nat
    BY <2>1 DEF Counted, Ended
  <2>3. PICK at, low : FlowKept(wire, f, at, low, Ended(f), s)
    BY DEF FlowsOK, FlowOK
  <2>4. /\ sent'[f] = s + 1 /\ unrouted'[f] = s + 1 /\ received'[f] = received[f]
    BY <1>1, <1>2, <2>2
  <2> HIDE DEF s
  <2>5. ASSUME NEW m, NEW k, NEW i, Place(wire, f, m, k, i) PROVE FALSE
    <3> DEFINE v == wire[m][k][i].number
    <3>1. v \in Nat
      BY <1>2, <2>5, PlaceType
    <3>2. Ended(f) <= v /\ v < s
      BY <2>3, <2>5 DEF FlowKept, OnTrail
    <3> HIDE DEF v
    <3>3. Ended(f) = s
      BY <2>2 DEF Ended
    <3> QED BY ONLY <2>2, <3>1, <3>2, <3>3
  <2>6. Trail(f, at, low)
    BY <2>3 DEF FlowKept
  <2>7. OnTrail(wire', f, at, low, s + 1, s + 1) /\ Ordered(wire', f)
    BY <1>1, <2>5 DEF OnTrail, Ordered
  <2>8. \A v \in Nat : ~ (s + 1 <= v /\ v < s + 1)
    BY <2>2
  <2>9. Ended(f)' = s + 1
    <3>1. Ended(f)' = (s + 1) + 0
      BY ONLY <2>2, <2>4 DEF Ended
    <3>2. (s + 1) + 0 = s + 1
      BY ONLY <2>2
    <3> QED BY ONLY <3>1, <3>2
  <2>10. Counted(f)'
    <3>1. received[f] \in Seq(Nat)
          /\ received[f] = [i \in 1 .. 0 |-> unrouted[f] + i - 1]
      BY <2>1, <2>2 DEF Counted
    <3>2. \A x, y : [i \in 1 .. 0 |-> x + i - 1] = [i \in 1 .. 0 |-> y + i - 1]
      OBVIOUS
    <3>3. received[f] = [i \in 1 .. 0 |-> (s + 1) + i - 1]
      BY ONLY <3>1, <3>2
    <3> QED BY <2>2, <2>4, <2>9, <3>1, <3>3 DEF Counted
  <2> QED BY <1>1, <2>4, <2>6, <2>7, <2>8, <2>9, <2>10, FlowCarries
<1>5. DOMAIN received' = Flows
  BY <1>1 DEF FlowsOK
<1> QED BY <1>3, <1>4, <1>5 DEF FlowsOK

LEMMA TransmitFlows ==
    ASSUME Safe, Safe', FlowsOK, NEW f \in Flows, network_transmit(f)
    PROVE  FlowsOK'
BY RoutedFlows, DroppedFlows

\* What network_receive does to the links: a datagram leaves one link, and is
\* received or goes to the next link with one hop less.
Takes(n, v, p, q) ==
    LET h == Head(wire[p][q])
        l == forwarding_table[n][h.flow[2]]
    IN  /\ WithoutHead(wire, v, p, q)
        /\ Peer(p, q) = n
        /\ h.flow \in Flows
        /\ \/ /\ h.flow[2] = n
              /\ wire' = v
              /\ received' = [received EXCEPT ![h.flow] = Append(@, h.number)]
           \/ /\ h.flow[2] # n
              /\ HasRoute(n, h.flow[2])
              /\ WithLast(v, wire', n, l, [h EXCEPT !.hoplimit = @ - 1])
              /\ UNCHANGED received

LEMMA ReceiveTakes ==
    ASSUME Safe, Safe', NEW n \in Node, NEW l \in LinksOf(n), network_receive(n, l)
    PROVE  \E v, p, q : Takes(n, v, p, q)
<1> DEFINE p == Peer(n, l)
           q == PeerLink(n, l)
           h == Head(wire[p][q])
           d == h.flow[2]
           arrived == [wire EXCEPT ![p][q] = Tail(wire[p][q])]
<1>1. p \in Node /\ p # n /\ q \in LinksOf(p) /\ Peer(p, q) = n
  BY Neighbours, PeerLinkType
<1>2. /\ wire[p][q] # <<>>
      /\ Forwarded(n, h, arrived)
  BY DEF network_receive
<1>3. wire \in Wires /\ wire' \in Wires
  <2>1. wire \in Wires
    BY WireInWires DEF Safe
  <2>2. wire' \in Wires
    BY DEF Safe, WireType, Wires, Datagrams, LinksOf
  <2> QED BY <2>1, <2>2
<1>4. /\ wire[p][q] \in Seq(Datagrams)
      /\ h \in Datagrams /\ Tail(wire[p][q]) \in Seq(Datagrams)
      /\ Carried(p, q, h)
  <2>1. wire[p][q] \in Seq(Datagrams)
    BY <1>1, <1>3, WireSeq
  <2> QED BY <1>2, <2>1, TakenFrom DEF Carried
<1>5. d \in Node /\ h.flow \in Flows
  BY <1>4, FlowEnds DEF Datagrams
<1>6. /\ arrived \in Wires
      /\ \A i \in Node : \A j \in LinksOf(i) :
           arrived[i][j] = IF i = p /\ j = q THEN Tail(wire[p][q]) ELSE wire[i][j]
  <2>1. wire \in [Node -> Seq(Seq(Datagrams))] /\ \A i \in Node : DOMAIN wire[i] = LinksOf(i)
    BY <1>3 DEF Wires
  <2> DEFINE s == Tail(wire[p][q])
  <2>2. s \in Seq(Datagrams) /\ arrived = [wire EXCEPT ![p][q] = s]
    BY <1>4
  <2> HIDE DEF p, q, s, arrived
  <2>3. \A i \in Node : \A j \in LinksOf(i) :
          arrived[i][j] = IF i = p /\ j = q THEN s ELSE wire[i][j]
    BY SMTT(60), <1>1, <2>1, <2>2, LinkChanged
  <2>4. /\ arrived \in [Node -> Seq(Seq(Datagrams))]
        /\ \A i \in Node : DOMAIN arrived[i] = LinksOf(i)
    BY <1>1, <2>1, <2>2, LinkChanged
  <2> QED BY <2>3, <2>4 DEF s, Wires
<1>7. WithoutHead(wire, arrived, p, q)
  <2> HIDE DEF arrived, p, q
  <2> QED BY <1>1, <1>2, <1>3, <1>6 DEF WithoutHead
<1>8. PICK rank \in [Node -> Nat] : Descends(rank, d) /\ OnTheWay(rank, d)
  BY <1>5 DEF Safe, AllOnTheWay
<1>9. Arrives(h, n, rank, d)
  BY SMTT(60), <1>1, <1>4, <1>8 DEF OnTheWay
<1>10. h.hoplimit \in Int /\ h.hoplimit > 0
  BY SMTT(60), <1>4, <1>8, <1>9 DEF Datagrams, Arrives
<1> HIDE DEF h, arrived
<1>11. CASE d = n
  <2>1. /\ wire' = arrived
        /\ received' = [received EXCEPT ![h.flow] = Append(@, h.number)]
    BY <1>2, <1>10, <1>11 DEF Forwarded
  <2>2. Takes(n, arrived, p, q)
    BY <1>1, <1>5, <1>7, <1>11, <2>1 DEF Takes, h
  <2> QED BY <2>2
<1>12. CASE d # n
  <2> DEFINE r == forwarding_table[n][d]
             g == [h EXCEPT !.hoplimit = @ - 1]
             s == Append(arrived[n][r], g)
  <2>1. HasRoute(n, d)
    BY <1>9, <1>12 DEF Arrives, Routed
  <2>2. r \in LinksOf(n)
    BY <1>5, <2>1 DEF Safe, IInv, TypeOK, HasRoute
  <2>3. wire' = [arrived EXCEPT ![n][r] = s] /\ UNCHANGED received
    BY <1>2, <1>10, <1>12 DEF Forwarded, network_lookup
  <2>4. g \in Datagrams
    BY SMTT(60), <1>4, <1>10 DEF Datagrams
  <2> HIDE DEF g
  <2>5. arrived[n][r] \in Seq(Datagrams) /\ s \in Seq(Datagrams)
    <3>1. arrived[n][r] \in Seq(Datagrams)
      BY <1>6, <2>2, WireSeq
    <3> QED BY <2>4, <3>1, AppendProperties
  <2>6. WithLast(arrived, wire', n, r, g)
    <3>1. arrived \in [Node -> Seq(Seq(Datagrams))] /\ \A i \in Node : DOMAIN arrived[i] = LinksOf(i)
      BY <1>6 DEF Wires
    <3> HIDE DEF s, r, d
    <3>2. \A i \in Node : \A j \in LinksOf(i) :
            wire'[i][j] = IF i = n /\ j = r THEN s ELSE arrived[i][j]
      BY SMTT(60), <2>2, <2>3, <2>5, <3>1, LinkChanged
    <3> QED BY <1>3, <1>6, <2>2, <2>4, <3>2 DEF WithLast, s
  <2>7. Takes(n, arrived, p, q)
    BY <1>1, <1>5, <1>7, <1>12, <2>1, <2>3, <2>6 DEF Takes, h, g
  <2> QED BY <2>7
<1> QED BY <1>11, <1>12

\* A flow to which the datagram does not belong.
LEMMA OtherFlowRests ==
    ASSUME FlowsOK, UNCHANGED <<forwarding_table, sent, unrouted>>,
           NEW n \in Node, NEW v, NEW p, NEW q, Takes(n, v, p, q),
           NEW f \in Flows, f # Head(wire[p][q]).flow
    PROVE  FlowOK(f)'
<1> DEFINE h == Head(wire[p][q])
           g == [h EXCEPT !.hoplimit = @ - 1]
           l == forwarding_table[n][h.flow[2]]
<1>1. WithoutHead(wire, v, p, q)
  BY DEF Takes
<1>2. h \in Datagrams /\ wire[p][q][1] = h /\ ~ Place(wire, f, p, q, 1)
  BY SMTT(60), <1>1, HeadPlace DEF Place
<1>3. received'[f] = received[f] /\ sent'[f] = sent[f] /\ unrouted'[f] = unrouted[f]
  BY DEF Takes, FlowsOK
<1>4. ASSUME NEW at, NEW low, NEW r, NEW s, OnTrail(wire, f, at, low, r, s), Ordered(wire, f)
      PROVE  /\ OnTrail(v, f, at, low, r, s)
             /\ Ordered(v, f)
             /\ \A x : IsUnderWay(wire, f, x) => IsUnderWay(v, f, x)
  BY <1>1, <1>2, <1>4, RemovedKeeps
<1>5. g.flow = h.flow
  BY <1>2 DEF Datagrams
<1> HIDE DEF h, g, l
<1>6. ASSUME NEW at, NEW low, NEW r, NEW s, OnTrail(wire, f, at, low, r, s), Ordered(wire, f)
      PROVE  /\ OnTrail(wire', f, at, low, r, s)
             /\ Ordered(wire', f)
             /\ \A x : IsUnderWay(wire, f, x) => IsUnderWay(wire', f, x)
  <2>1. wire' = v \/ WithLast(v, wire', n, l, g)
    BY DEF Takes, h, l, g
  <2>2. g.flow # f
    BY <1>5 DEF h
  <2>3. CASE wire' = v
    BY <1>4, <1>6, <2>3
  <2>4. CASE WithLast(v, wire', n, l, g)
    <3>1. /\ OnTrail(v, f, at, low, r, s) /\ Ordered(v, f)
          /\ \A x : IsUnderWay(wire, f, x) => IsUnderWay(v, f, x)
      BY <1>4, <1>6
    <3>2. /\ OnTrail(wire', f, at, low, r, s) /\ Ordered(wire', f)
          /\ \A x : IsUnderWay(v, f, x) => IsUnderWay(wire', f, x)
      BY <2>2, <2>4, <3>1, AppendedOther
    <3> QED BY <3>1, <3>2
  <2> QED BY SMTT(60), <2>1, <2>3, <2>4
<1> QED BY SMTT(60), <1>3, <1>6, FlowRests

\* A datagram of flow f gets to its destination, and v is left.
Arrived(v, p, q, f) ==
    /\ WithoutHead(wire, v, p, q)
    /\ Head(wire[p][q]).flow = f
    /\ Peer(p, q) = f[2]

\* The datagram that is received is the first of its flow.
LEMMA ReceivedIsNext ==
    ASSUME NEW v, NEW p, NEW q, NEW f, Arrived(v, p, q, f),
           NEW at, NEW low, NEW r \in Nat, NEW s \in Nat,
           FlowKept(wire, f, at, low, r, s)
    PROVE  /\ Head(wire[p][q]).number = r
           /\ \A m, k, i : Place(v, f, m, k, i) => r + 1 <= v[m][k][i].number
<1> USE DEF Arrived
<1> DEFINE h == Head(wire[p][q])
           n == f[2]
<1>1. Trail(f, at, low) /\ OnTrail(wire, f, at, low, r, s) /\ Ordered(wire, f)
  BY DEF FlowKept
<1>2. h \in Datagrams /\ Place(wire, f, p, q, 1) /\ wire[p][q][1] = h
  BY HeadPlace
<1>3. /\ r <= h.number /\ h.number < s
      /\ low < h.hoplimit /\ h.hoplimit <= HOP_LIMIT
      /\ p = at[h.hoplimit] /\ q = forwarding_table[p][f[2]]
  <2> HIDE DEF h
  <2> QED BY <1>1, <1>2 DEF OnTrail
<1>4. h.number \in Nat /\ h.hoplimit \in Int
  BY <1>2 DEF Datagrams
<1>5. low \in Int /\ HOP_LIMIT \in Int
  BY <1>1, ForwardingAssumption DEF Trail
<1>6. \A m, k, i : Place(v, f, m, k, i) =>
        /\ v[m][k][i].number # h.number
        /\ v[m][k][i].number < h.number <=> v[m][k][i].hoplimit < h.hoplimit
        /\ v[m][k][i].hoplimit \in Int
        /\ v[m][k][i].number \in Nat
  BY ZenonT(60), <1>1, HeadIsAhead
<1>7. OnTrail(v, f, at, low, r, s)
      /\ \A x : IsUnderWay(wire, f, x) =>
            IsUnderWay(v, f, x) \/ (Place(wire, f, p, q, 1) /\ wire[p][q][1].number = x)
  BY <1>1, RemovedKeeps
<1> HIDE DEF h
<1>8. at[h.hoplimit - 1] = n
  <2>1. NextHop(at[h.hoplimit], f[2]) = at[h.hoplimit - 1]
    BY <1>1, <1>3, <1>4 DEF Trail
  <2> QED BY <1>3, <2>1 DEF NextHop
<1>9. ASSUME NEW m, NEW k, NEW i, Place(v, f, m, k, i)
      PROVE  h.number < v[m][k][i].number
  <2> DEFINE y == v[m][k][i]
  <2>1. /\ y.number # h.number
        /\ y.number < h.number <=> y.hoplimit < h.hoplimit
        /\ y.hoplimit \in Int /\ y.number \in Nat
    BY <1>6, <1>9
  <2>2. low < y.hoplimit
    BY <1>7, <1>9 DEF OnTrail
  <2> HIDE DEF y
  <2>3. ~ (y.hoplimit < h.hoplimit)
    <3> SUFFICES ASSUME y.hoplimit < h.hoplimit PROVE FALSE
      OBVIOUS
    <3> DEFINE j == h.hoplimit - 1
    <3>1. j \in Int /\ low < j /\ j <= HOP_LIMIT
      BY ONLY y.hoplimit < h.hoplimit, <1>3, <1>4, <1>5, <2>1, <2>2
    <3> HIDE DEF j
    <3>2. at[j] # f[2]
      BY <1>1, <3>1 DEF Trail
    <3> QED BY <1>8, <3>2 DEF j
  <2> QED BY <1>4, <2>1, <2>3 DEF y
<1>10. h.number = r
  <2>1. CASE r < s
    <3>1. IsUnderWay(wire, f, r)
      BY <2>1 DEF FlowKept
    <3>2. IsUnderWay(v, f, r) \/ h.number = r
      BY <1>2, <1>7, <3>1
    <3>3. CASE IsUnderWay(v, f, r)
      <4>1. PICK m, k, i : Place(v, f, m, k, i) /\ v[m][k][i].number = r
        BY <3>3 DEF IsUnderWay
      <4>2. h.number < r
        BY <1>9, <4>1
      <4> QED BY ONLY <1>3, <1>4, <4>2, r \in Nat
    <3> QED BY <3>2, <3>3
  <2>2. CASE ~ (r < s)
    BY ONLY <1>3, <1>4, <2>2, r \in Nat, s \in Nat
  <2> QED BY <2>1, <2>2
<1>11. ASSUME NEW m, NEW k, NEW i, Place(v, f, m, k, i)
       PROVE  r + 1 <= v[m][k][i].number
  <2> DEFINE y == v[m][k][i]
  <2>1. r < y.number /\ y.number \in Nat
    BY <1>6, <1>9, <1>10, <1>11
  <2> HIDE DEF y
  <2>2. r + 1 <= y.number
    BY SMTT(60), <2>1
  <2> QED BY <2>2 DEF y
<1> QED BY <1>10, <1>11 DEF h

\* The next node on the trail is the one that takes the datagram.
LEMMA HeadOnTrail ==
    ASSUME NEW n, NEW v, NEW p, NEW q, WithoutHead(wire, v, p, q), Peer(p, q) = n,
           NEW f, Place(wire, f, p, q, 1), NEW at, NEW low, NEW r, NEW s,
           Trail(f, at, low), OnTrail(wire, f, at, low, r, s)
    PROVE  LET h == Head(wire[p][q])
           IN  /\ r <= h.number /\ h.number < s /\ h.number \in Nat
               /\ h.hoplimit \in Int
               /\ low <= h.hoplimit - 1 /\ h.hoplimit - 1 <= HOP_LIMIT
               /\ at[h.hoplimit - 1] = n
<1> DEFINE h == Head(wire[p][q])
<1>1. h \in Datagrams /\ wire[p][q][1] = h
  BY HeadPlace
<1>2. h.number \in Nat /\ h.hoplimit \in Int
  BY <1>1 DEF Datagrams
<1> HIDE DEF h
<1>3. /\ r <= h.number /\ h.number < s
      /\ low < h.hoplimit /\ h.hoplimit <= HOP_LIMIT
      /\ p = at[h.hoplimit] /\ q = forwarding_table[p][f[2]]
  BY <1>1 DEF OnTrail
<1>4. low \in Int /\ HOP_LIMIT \in Int
  BY ForwardingAssumption DEF Trail
<1>5. low <= h.hoplimit - 1 /\ h.hoplimit - 1 <= HOP_LIMIT
  BY ONLY <1>2, <1>3, <1>4
<1>6. NextHop(at[h.hoplimit], f[2]) = at[h.hoplimit - 1]
  BY <1>2, <1>3 DEF Trail
<1>7. at[h.hoplimit - 1] = n
  BY <1>3, <1>6 DEF NextHop
<1> QED BY <1>2, <1>3, <1>5, <1>7 DEF h

LEMMA ForwardedFlow ==
    ASSUME IInv, WireType, FlowsOK, UNCHANGED <<forwarding_table, sent, unrouted, received>>,
           NEW n \in Node, NEW v, NEW p, NEW q, WithoutHead(wire, v, p, q), Peer(p, q) = n,
           NEW f \in Flows, Head(wire[p][q]).flow = f,
           f[2] # n, HasRoute(n, f[2]),
           WithLast(v, wire', n, forwarding_table[n][f[2]],
                    [Head(wire[p][q]) EXCEPT !.hoplimit = @ - 1])
    PROVE  FlowOK(f)'
<1> DEFINE h == Head(wire[p][q])
           g == [h EXCEPT !.hoplimit = @ - 1]
           l == forwarding_table[n][f[2]]
           j == h.hoplimit - 1
           r == Ended(f)
           s == sent[f]
<1>1. PICK at, low : FlowKept(wire, f, at, low, r, s)
  BY DEF FlowsOK, FlowOK
<1>2. /\ Trail(f, at, low)
      /\ OnTrail(wire, f, at, low, r, s)
      /\ Ordered(wire, f)
      /\ \A x \in Nat : r <= x /\ x < s => IsUnderWay(wire, f, x)
  BY <1>1 DEF FlowKept
<1>3. /\ h \in Datagrams /\ Place(wire, f, p, q, 1) /\ wire[p][q][1] = h
      /\ v \in Wires
  <2>1. v \in Wires
    BY DEF WithoutHead
  <2>2. h \in Datagrams /\ Place(wire, f, p, q, 1) /\ wire[p][q][1] = h
    BY HeadPlace
  <2> QED BY <2>1, <2>2
<1>4. /\ g.flow = f /\ g.number = h.number /\ g.hoplimit = j
      /\ h.hoplimit \in Int /\ h.number \in Nat /\ j \in Int
  BY <1>3 DEF Datagrams
<1>5. Counted(f)
  BY DEF FlowsOK, FlowOK
<1>6. r = Ended(f)' /\ s = sent'[f]
  BY DEF Ended
<1>7. /\ r <= h.number /\ h.number < s
      /\ low <= j /\ j <= HOP_LIMIT
      /\ at[j] = n
  <2> HIDE DEF r, s
  <2> QED BY <1>2, <1>3, HeadOnTrail
<1>8. WithLast(v, wire', n, l, g)
  OBVIOUS
<1>9. /\ OnTrail(v, f, at, low, r, s)
      /\ Ordered(v, f)
      /\ \A x : IsUnderWay(wire, f, x) => IsUnderWay(v, f, x) \/ x = h.number
  <2> HIDE DEF r, s, h
  <2>1. /\ OnTrail(v, f, at, low, r, s)
        /\ Ordered(v, f)
        /\ \A x : IsUnderWay(wire, f, x) =>
             IsUnderWay(v, f, x) \/ (Place(wire, f, p, q, 1) /\ wire[p][q][1].number = x)
    BY <1>2, RemovedKeeps
  <2> QED BY <1>3, <2>1
<1>10. \A m, k, i : Place(v, f, m, k, i) =>
         /\ v[m][k][i].number # h.number
         /\ v[m][k][i].number < h.number <=> v[m][k][i].hoplimit < h.hoplimit
         /\ v[m][k][i].hoplimit \in Int
  <2> HIDE DEF r, s
  <2> QED BY <1>2, HeadIsAhead
<1> HIDE DEF h, g, r, s
<1>11. \A m, k, i : Place(v, f, m, k, i) =>
         /\ v[m][k][i].number # g.number
         /\ v[m][k][i].number < g.number <=> v[m][k][i].hoplimit <= g.hoplimit
  <2> SUFFICES ASSUME NEW m, NEW k, NEW i, Place(v, f, m, k, i)
               PROVE  /\ v[m][k][i].number # g.number
                      /\ v[m][k][i].number < g.number <=> v[m][k][i].hoplimit <= g.hoplimit
    OBVIOUS
  <2> DEFINE y == v[m][k][i]
  <2>1. /\ y.number # h.number
        /\ y.number < h.number <=> y.hoplimit < h.hoplimit
        /\ y.hoplimit \in Int
    BY <1>10
  <2> HIDE DEF y
  <2>2. y.hoplimit < h.hoplimit <=> y.hoplimit <= j
    BY ONLY <1>4, <2>1
  <2> QED BY <1>4, <2>1, <2>2 DEF y
<1>12. PICK at2, low2 : /\ Trail(f, at2, low2)
                        /\ OnTrail(v, f, at2, low2, r, s)
                        /\ low2 < j
                        /\ at2[j] = n
  <2> HIDE DEF j
  <2>1. at[j] # f[2] /\ HasRoute(at[j], f[2])
    BY <1>7
  <2>2. \E at2, low2 : /\ Trail(f, at2, low2)
                       /\ OnTrail(v, f, at2, low2, r, s)
                       /\ low2 < j
                       /\ at2[j] = at[j]
    BY <1>2, <1>3, <1>4, <1>7, <1>9, <2>1, TrailReaches
  <2> QED BY <1>7, <2>2
<1> HIDE DEF j, l
<1>13. /\ r <= g.number /\ g.number < s /\ low2 < g.hoplimit /\ g.hoplimit <= HOP_LIMIT
       /\ n = at2[g.hoplimit] /\ l = forwarding_table[n][f[2]]
  BY <1>4, <1>7, <1>12 DEF l
<1>14. /\ OnTrail(wire', f, at2, low2, r, s)
       /\ Ordered(wire', f)
       /\ \A x : IsUnderWay(v, f, x) => IsUnderWay(wire', f, x)
       /\ IsUnderWay(wire', f, g.number)
  BY ONLY <1>4, <1>8, <1>9, <1>11, <1>12, <1>13, AppendedBehind
<1>15. \A x \in Nat : r <= x /\ x < s => IsUnderWay(wire', f, x)
  BY <1>2, <1>4, <1>9, <1>14
<1>16. Counted(f)'
  BY <1>5 DEF Counted, Ended, HasRoute, NO_LINK
<1> QED BY <1>6, <1>12, <1>14, <1>15, <1>16, FlowCarries

LEMMA ReceivedFlow ==
    ASSUME WireType, FlowsOK, UNCHANGED <<forwarding_table, sent, unrouted>>,
           NEW n \in Node, NEW p, NEW q, WithoutHead(wire, wire', p, q), Peer(p, q) = n,
           NEW f \in Flows, Head(wire[p][q]).flow = f, f[2] = n,
           received' = [received EXCEPT ![f] = Append(@, Head(wire[p][q]).number)]
    PROVE  FlowOK(f)'
<1> DEFINE h == Head(wire[p][q])
           u == unrouted[f]
           c == Len(received[f])
           r == Ended(f)
           s == sent[f]
<1>1. PICK at, low : FlowKept(wire, f, at, low, r, s)
  BY DEF FlowsOK, FlowOK
<1>2. /\ received[f] \in Seq(Nat)
      /\ received[f] = [i \in 1 .. c |-> u + i - 1]
      /\ u \in Nat /\ c \in Nat /\ r = u + c
      /\ r \in Nat /\ r <= s /\ s \in Nat
      /\ u < s => HasRoute(f[1], f[2])
      /\ DOMAIN received = Flows
  BY LenProperties DEF FlowsOK, FlowOK, Counted, Ended
<1>3. /\ h \in Datagrams /\ Place(wire, f, p, q, 1) /\ wire[p][q][1] = h
  BY HeadPlace
<1>4. h.number \in Nat
  BY <1>3 DEF Datagrams
<1>5. /\ Trail(f, at, low)
      /\ OnTrail(wire, f, at, low, r, s)
      /\ Ordered(wire, f)
      /\ \A x \in Nat : r <= x /\ x < s => IsUnderWay(wire, f, x)
  BY <1>1 DEF FlowKept
<1> HIDE DEF u, c, r, s
<1>6. /\ h.number = r
      /\ \A m, k, i : Place(wire', f, m, k, i) => r + 1 <= wire'[m][k][i].number
  <2>1. Arrived(wire', p, q, f)
    BY DEF Arrived
  <2> HIDE DEF h
  <2>2. /\ Head(wire[p][q]).number = r
        /\ \A m, k, i : Place(wire', f, m, k, i) => r + 1 <= wire'[m][k][i].number
    BY ONLY ZenonT(60), <1>1, <1>2, <2>1, ReceivedIsNext
  <2> QED BY <2>2 DEF h
<1>7. h.number < s
  BY <1>3, <1>5, HeadOnTrail
<1>8. /\ OnTrail(wire', f, at, low, r, s)
      /\ Ordered(wire', f)
      /\ \A x : IsUnderWay(wire, f, x) => IsUnderWay(wire', f, x) \/ x = h.number
  <2> HIDE DEF h
  <2>1. /\ OnTrail(wire', f, at, low, r, s)
        /\ Ordered(wire', f)
        /\ \A x : IsUnderWay(wire, f, x) =>
             IsUnderWay(wire', f, x) \/ (Place(wire, f, p, q, 1) /\ wire[p][q][1].number = x)
    BY <1>5, RemovedKeeps
  <2> QED BY <1>3, <2>1
<1> HIDE DEF h
<1>9. OnTrail(wire', f, at, low, r + 1, s)
  BY <1>6, <1>8 DEF OnTrail
<1>10. \A x \in Nat : r + 1 <= x /\ x < s => IsUnderWay(wire', f, x)
  <2> SUFFICES ASSUME NEW x \in Nat, r + 1 <= x, x < s PROVE IsUnderWay(wire', f, x)
    OBVIOUS
  <2>1. r <= x /\ x # r
    BY ONLY <1>2, r + 1 <= x, x \in Nat
  <2> QED BY <1>5, <1>6, <1>8, <2>1
<1>11. received'[f] = Append(received[f], r)
  BY <1>2, <1>6 DEF h
<1>12. /\ received'[f] \in Seq(Nat)
       /\ c + 1 = Len(received'[f])
       /\ received'[f] = [i \in 1 .. Len(received'[f]) |-> u + i - 1]
  <2>1. /\ Append(received[f], r) \in Seq(Nat)
        /\ Len(Append(received[f], r)) = c + 1
        /\ \A i \in 1 .. c : Append(received[f], r)[i] = received[f][i]
        /\ Append(received[f], r)[c + 1] = r
    BY <1>2, AppendProperties DEF c
  <2> DEFINE a == Append(received[f], r)
  <2>2. a \in [1 .. (c + 1) -> Nat]
    <3>1. DOMAIN a = 1 .. (c + 1)
      BY <2>1, LenProperties
    <3> QED BY <2>1, <3>1, LenProperties, ElementOfSeq
  <2> HIDE DEF a
  <2>3. \A i \in 1 .. (c + 1) : a[i] = u + i - 1
    <3> TAKE i \in 1 .. (c + 1)
    <3>1. CASE i \in 1 .. c
      BY <1>2, <2>1, <3>1 DEF a
    <3>2. CASE i = c + 1
      <4>1. a[c + 1] = r
        BY <2>1 DEF a
      <4>2. u + (c + 1) - 1 = r
        BY ONLY <1>2
      <4> QED BY <3>2, <4>1, <4>2
    <3>3. i \in 1 .. c \/ i = c + 1
      BY ONLY <1>2, i \in 1 .. (c + 1)
    <3> QED BY <3>1, <3>2, <3>3
  <2>4. a = [i \in 1 .. (c + 1) |-> u + i - 1]
    BY ONLY <2>2, <2>3
  <2> QED BY <1>11, <2>1, <2>4 DEF a
<1>13. s = sent'[f] /\ r + 1 = Ended(f)' /\ Counted(f)'
  <2>1. s = sent'[f] /\ u = unrouted'[f]
    BY DEF s, u
  <2>2. r + 1 <= s
    BY ONLY <1>2, <1>6, <1>7
  <2>3. r + 1 = u + (c + 1)
    BY ONLY <1>2
  <2>4. r + 1 = Ended(f)'
    BY <1>12, <2>1, <2>3 DEF Ended
  <2>5. HasRoute(f[1], f[2])' <=> HasRoute(f[1], f[2])
    BY DEF HasRoute, NO_LINK
  <2> QED BY <1>2, <1>12, <2>1, <2>2, <2>4, <2>5 DEF Counted
<1> QED BY ZenonT(60), <1>5, <1>8, <1>9, <1>10, <1>12, <1>13, FlowCarries

LEMMA ReceiveFlows ==
    ASSUME Safe, Safe', FlowsOK, NEW n \in Node, NEW l \in LinksOf(n), network_receive(n, l)
    PROVE  FlowsOK'
<1>1. PICK v, p, q : Takes(n, v, p, q)
  BY ReceiveTakes
<1>2. UNCHANGED <<forwarding_table, sent, unrouted>>
  BY SMTT(60) DEF network_receive, dvVars, tables
<1>3. PICK f \in Flows : f = Head(wire[p][q]).flow
  BY ZenonT(60), <1>1 DEF Takes
<1>4. WithoutHead(wire, v, p, q) /\ Peer(p, q) = n /\ IInv /\ WireType
  BY ZenonT(60), <1>1 DEF Takes, Safe
<1>5. FlowOK(f)'
  <2> DEFINE h == Head(wire[p][q])
  <2>1. CASE /\ f[2] = n
             /\ wire' = v
             /\ received' = [received EXCEPT ![f] = Append(@, h.number)]
    <3>1. WithoutHead(wire, wire', p, q)
      BY <1>4, <2>1
    <3> QED BY <1>2, <1>3, <1>4, <2>1, <3>1, ReceivedFlow
  <2>2. CASE /\ f[2] # n
             /\ HasRoute(n, f[2])
             /\ WithLast(v, wire', n, forwarding_table[n][f[2]],
                         [h EXCEPT !.hoplimit = @ - 1])
             /\ UNCHANGED received
    BY <1>2, <1>3, <1>4, <2>2, ForwardedFlow
  <2> QED BY ZenonT(60), <1>1, <1>3, <2>1, <2>2 DEF Takes
<1>6. ASSUME NEW e \in Flows, e # f PROVE FlowOK(e)'
  BY SMTT(60), <1>1, <1>2, <1>3, <1>6, OtherFlowRests
<1>7. DOMAIN received' = Flows
  BY <1>1 DEF Takes, FlowsOK
<1>8. \A e \in Flows : FlowOK(e)'
  BY <1>5, <1>6
<1> QED BY <1>7, <1>8 DEF FlowsOK

LEMMA UnderWayIs ==
    ASSUME NEW f
    PROVE  \A x : x \in UnderWay(f) <=>
              \E m, k, i : x = <<m, k, i>> /\ Place(wire, f, m, k, i)
<1>1. ASSUME NEW x, x \in UnderWay(f)
      PROVE  \E m, k, i : x = <<m, k, i>> /\ Place(wire, f, m, k, i)
  <2>1. PICK n \in Node : \E l \in LinksOf(n) :
          x \in {<<n, l, i>> : i \in {j \in 1 .. Len(wire[n][l]) : wire[n][l][j].flow = f}}
    BY <1>1 DEF UnderWay
  <2>2. PICK l \in LinksOf(n) :
          x \in {<<n, l, i>> : i \in {j \in 1 .. Len(wire[n][l]) : wire[n][l][j].flow = f}}
    BY <2>1
  <2>3. PICK i \in 1 .. Len(wire[n][l]) : wire[n][l][i].flow = f /\ x = <<n, l, i>>
    BY <2>2
  <2> QED BY <2>3 DEF Place
<1>2. ASSUME NEW m, NEW k, NEW i, Place(wire, f, m, k, i)
      PROVE  <<m, k, i>> \in UnderWay(f)
  BY <1>2 DEF Place, UnderWay
<1> QED BY <1>1, <1>2

\* As many datagrams are under way as numbers are between the received and the
\* sent ones.
LEMMA CountUnderWay ==
    ASSUME WireType, NEW f, NEW at, NEW low, NEW r \in Nat, NEW s \in Nat, r <= s,
           FlowKept(wire, f, at, low, r, s)
    PROVE  Cardinality(UnderWay(f)) = s - r
<1> DEFINE I == r .. (s - 1)
           pos(v) == CHOOSE x \in UnderWay(f) : wire[x[1]][x[2]][x[3]].number = v
           b == [v \in I |-> pos(v)]
<1>1. /\ OnTrail(wire, f, at, low, r, s)
      /\ Ordered(wire, f)
      /\ \A v \in Nat : r <= v /\ v < s => IsUnderWay(wire, f, v)
      /\ wire \in Wires
  BY SMTT(60), WireInWires DEF FlowKept
<1>2. ASSUME NEW v \in I
      PROVE  pos(v) \in UnderWay(f) /\ wire[pos(v)[1]][pos(v)[2]][pos(v)[3]].number = v
  <2>1. v \in Nat /\ r <= v /\ v < s
    BY <1>2
  <2>2. PICK m, k, i : Place(wire, f, m, k, i) /\ wire[m][k][i].number = v
    BY <1>1, <2>1 DEF IsUnderWay
  <2> DEFINE x == <<m, k, i>>
  <2>3. x \in UnderWay(f) /\ wire[x[1]][x[2]][x[3]].number = v
    BY <2>2, UnderWayIs
  <2> HIDE DEF x
  <2> QED BY <2>3
<1>3. ASSUME NEW x \in UnderWay(f), NEW y \in UnderWay(f),
             wire[x[1]][x[2]][x[3]].number = wire[y[1]][y[2]][y[3]].number
      PROVE  x = y
  <2>1. PICK m, k, i : x = <<m, k, i>> /\ Place(wire, f, m, k, i)
    BY UnderWayIs
  <2>2. PICK n, l, j : y = <<n, l, j>> /\ Place(wire, f, n, l, j)
    BY UnderWayIs
  <2>3. wire[m][k][i].number = wire[n][l][j].number
    BY <1>3, <2>1, <2>2
  <2>4. m = n /\ k = l /\ i = j
    BY <1>1, <2>1, <2>2, <2>3, NumbersDiffer
  <2> QED BY <2>1, <2>2, <2>4
<1>4. ASSUME NEW x \in UnderWay(f)
      PROVE  wire[x[1]][x[2]][x[3]].number \in I
  <2>1. PICK m, k, i : x = <<m, k, i>> /\ Place(wire, f, m, k, i)
    BY UnderWayIs
  <2> DEFINE v == wire[m][k][i].number
  <2>2. v \in Nat /\ r <= v /\ v < s
    BY <1>1, <2>1, PlaceType DEF OnTrail
  <2> HIDE DEF v
  <2>3. v \in I
    BY <2>2
  <2> QED BY <2>1, <2>3 DEF v
<1> HIDE DEF pos
<1>5. b \in [I -> UnderWay(f)]
  BY <1>2
<1>6. b \in Injection(I, UnderWay(f))
  <2>1. \A v, u \in I : b[v] = b[u] => v = u
    BY <1>2
  <2> QED BY <1>5, <2>1 DEF Injection, IsInjective
<1>7. b \in Surjection(I, UnderWay(f))
  <2>1. ASSUME NEW x \in UnderWay(f) PROVE \E v \in I : b[v] = x
    <3> DEFINE v == wire[x[1]][x[2]][x[3]].number
    <3>1. v \in I
      BY <1>4
    <3> HIDE DEF v
    <3>2. pos(v) \in UnderWay(f) /\ wire[pos(v)[1]][pos(v)[2]][pos(v)[3]].number = v
      BY SMTT(60), <1>2, <3>1
    <3>3. pos(v) = x
      BY <1>3, <3>2 DEF v
    <3> QED BY <3>1, <3>3
  <2> QED BY <1>5, <2>1 DEF Surjection
<1>8. ExistsBijection(I, UnderWay(f))
  BY <1>6, <1>7 DEF ExistsBijection, Bijection
<1>9. IsFiniteSet(I) /\ Cardinality(I) = s - r
  <2>1. r \in Int /\ s - 1 \in Int
    OBVIOUS
  <2>2. IsFiniteSet(I) /\ Cardinality(I) = IF r > s - 1 THEN 0 ELSE (s - 1) - r + 1
    BY ONLY <2>1, FS_Interval
  <2> HIDE DEF I
  <2> QED BY <2>2
<1> HIDE DEF I
<1> QED BY <1>8, <1>9, FS_Bijection

LEMMA FlowIntactOf == Safe /\ FlowsOK => FlowIntact
<1> SUFFICES ASSUME Safe, FlowsOK, NEW f \in Flows
             PROVE  /\ received[f] = [i \in 1 .. Len(received[f]) |-> unrouted[f] + i - 1]
                    /\ sent[f] = unrouted[f] + Len(received[f]) + Cardinality(UnderWay(f))
  BY DEF FlowIntact
<1>1. PICK at, low : FlowKept(wire, f, at, low, Ended(f), sent[f])
  BY DEF FlowsOK, FlowOK
<1>2. /\ received[f] = [i \in 1 .. Len(received[f]) |-> unrouted[f] + i - 1]
      /\ unrouted[f] \in Nat /\ Len(received[f]) \in Nat
      /\ Ended(f) \in Nat /\ sent[f] \in Nat /\ Ended(f) <= sent[f]
      /\ WireType
  BY LenProperties DEF FlowsOK, FlowOK, Counted, Ended, Safe
<1>3. Cardinality(UnderWay(f)) = sent[f] - Ended(f)
  BY <1>1, <1>2, CountUnderWay
<1>4. sent[f] = Ended(f) + Cardinality(UnderWay(f))
  BY ONLY <1>2, <1>3
<1> QED BY <1>2, <1>4 DEF Ended

LEMMA InitFlows == Init => FlowsOK
<1> SUFFICES ASSUME Init PROVE FlowsOK
  OBVIOUS
<1>1. /\ wire = [n \in Node |-> [l \in LinksOf(n) |-> <<>>]]
      /\ sent = [f \in Flows |-> 0] /\ unrouted = [f \in Flows |-> 0]
      /\ received = [f \in Flows |-> <<>>]
  BY DEF Init
<1>2. <<>> \in Seq(Nat) /\ Len(<<>>) = 0
  BY EmptySeq
<1>3. \A f, m, k, i : ~ Place(wire, f, m, k, i)
  BY <1>1, <1>2 DEF Place
<1>4. ASSUME NEW f \in Flows PROVE FlowOK(f)
  <2> DEFINE at == [h \in Int |-> f[1]]
  <2>1. Trail(f, at, HOP_LIMIT)
    <3>1. HOP_LIMIT \in Int /\ f[1] \in Node
      BY ForwardingAssumption, FlowEnds
    <3>2. \A h \in Int : ~ (HOP_LIMIT < h /\ h <= HOP_LIMIT)
      BY <3>1
    <3>3. HOP_LIMIT <= HOP_LIMIT
      BY <3>1
    <3> QED BY <3>1, <3>2, <3>3 DEF Trail
  <2> HIDE DEF at
  <2>2. OnTrail(wire, f, at, HOP_LIMIT, 0, 0) /\ Ordered(wire, f)
    BY <1>3 DEF OnTrail, Ordered
  <2>3. \A v \in Nat : ~ (0 <= v /\ v < 0)
    OBVIOUS
  <2>4. FlowKept(wire, f, at, HOP_LIMIT, 0, 0)
    BY <2>1, <2>2, <2>3 DEF FlowKept
  <2>5. received[f] = <<>> /\ sent[f] = 0 /\ unrouted[f] = 0 /\ Ended(f) = 0
    BY <1>1, <1>2 DEF Ended
  <2>6. <<>> = [i \in 1 .. 0 |-> 0 + i - 1]
    OBVIOUS
  <2> QED BY <1>2, <2>4, <2>5, <2>6 DEF FlowOK, Counted
<1> QED BY <1>1, <1>4 DEF FlowsOK

\* Between two nodes every datagram takes the same way, and none is left behind: in
\* a network that is small enough for the hop limit, what a node sends before it
\* has a route is dropped there and then (network_transmit), and all later datagrams
\* of the flow arrive, in the order in which they were sent.
THEOREM FlowsIntact == Cardinality(Node) <= HOP_LIMIT + 1 /\ Spec => []FlowIntact
<1>1. Small /\ Safe /\ [Next]_vars => Safe'
  BY NextSafe
<1>2. Small /\ Safe /\ FlowsOK /\ [Next]_vars => FlowsOK'
  <2> SUFFICES ASSUME Small, Safe, FlowsOK, [Next]_vars PROVE FlowsOK'
    OBVIOUS
  <2>1. Safe'
    BY <1>1
  <2>2. CASE UNCHANGED vars
    <3>1. UNCHANGED <<forwarding_table, wire, sent, unrouted, received>>
      BY <2>2 DEF vars, dvVars, tables
    <3>2. \A f \in Flows : FlowOK(f)'
      BY <3>1, FlowRests
    <3> QED BY <3>1, <3>2 DEF FlowsOK
  <2> QED BY <2>1, <2>2, TransmitFlows, ReceiveFlows, AnnouncementFlows DEF Next
<1>3. Small /\ Safe /\ [Next]_vars => (Small /\ Safe)'
  BY <1>1 DEF Small
<1> QED BY InitSafe, InitFlows, <1>2, <1>3, FlowIntactOf, PTL DEF Spec, Small

=============================================================================
