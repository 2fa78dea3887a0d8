----------------------- MODULE DistanceVectorProofs -----------------------
(***************************************************************************)
(* Theorems about DistanceVector, for every network, every bandwidth and   *)
(* every number of announcements.  The argument is about who has heard     *)
(* what: a best choice is an entry of finite weight, so its neighbour has  *)
(* announced the destination before and does not announce it again.  An    *)
(* update therefore changes the forwarding decision only where there was   *)
(* none.  A first announcement that is missed leaves every table as it is. *)
(***************************************************************************)
EXTENDS DistanceVector, FiniteSetTheorems, SequenceTheorems, WellFoundedInduction,
        TLAPS

HasEntry(n, d) == routing_table[n][d] # NO_ENTRY

\* Node n has announced d within its first k announcements.
Told(n, d, k) == \E i \in 1 .. k : announced[n][i].destAddr = d

\* What a node passes on it has an entry for.
AnnouncedIsKnown ==
    \A n \in Node : \A i \in 1 .. Len(announced[n]) :
        announced[n][i].destAddr = n \/ HasEntry(n, announced[n][i].destAddr)

\* An entry of finite weight comes from an announcement that was applied.
FiniteIsTold ==
    \A n, d \in Node : \A l \in LinksOf(n) :
        HasEntry(n, d) /\ routing_table[n][d][l].weight < INT_MAX =>
            Told(Peer(n, l), d, applied[n][l])

\* There is a route exactly where there is an entry, over a link on which the
\* destination was announced and with a bandwidth the link has.
RouteIsTold ==
    \A n, d \in Node :
        /\ HasEntry(n, d) <=> HasRoute(n, d)
        /\ HasRoute(n, d) =>
            LET l == forwarding_table[n][d]
            IN  /\ Told(Peer(n, l), d, applied[n][l])
                /\ routing_table[n][d][l].minBWD \in 1 .. (INT_MAX - 1)

AppHasRoute == \A n \in Node : \A d \in app[n] : HasRoute(n, d)

\* A node announces itself before it receives anything.
AllAnnounce == \A n \in Node : Len(announced[n]) > 0

IInv ==
    /\ TypeOK
    /\ AllAnnounce
    /\ AnnouncedOnce
    /\ AnnouncedIsKnown
    /\ FiniteIsTold
    /\ RouteIsTold
    /\ AppHasRoute

-----------------------------------------------------------------------------
(* The links. *)

LEMMA Neighbours ==
    ASSUME NEW n \in Node, NEW l \in LinksOf(n)
    PROVE  /\ LinksOf(n) = 1 .. Len(Links[n])
           /\ Len(Links[n]) \in Nat
           /\ l \in Int
           /\ l # NO_LINK
           /\ Peer(n, l) \in Node
           /\ Peer(n, l) # n
<1>1. Links[n] \in Seq(Node)
  BY RoutingTableAssumption
<1>2. Len(Links[n]) \in Nat
  BY <1>1, LenProperties
<1>3. l \in 1 .. Len(Links[n])
  BY DEF LinksOf
<1>4. Links[n][l] \in Node
  BY <1>1, <1>3, ElementOfSeq
<1>5. Peer(n, l) # n
  BY RoutingTableAssumption
<1>6. l \in Int /\ l # NO_LINK
  BY <1>2, <1>3 DEF NO_LINK
<1> QED BY <1>2, <1>4, <1>5, <1>6 DEF LinksOf, Peer

\* The first announcement of the neighbour that is not applied yet.
Info(n, l) == announced[Peer(n, l)][applied[n][l] + 1]

LEMMA InfoType ==
    ASSUME IInv, NEW n \in Node, NEW l \in LinksOf(n), Apply(n, l)
    PROVE  /\ applied[n][l] \in Nat
           /\ applied[n][l] + 1 \in 1 .. Len(announced[Peer(n, l)])
           /\ Len(announced[Peer(n, l)]) \in Nat
           /\ Info(n, l) \in Infos
<1>1. applied[n] \in Seq(Nat) /\ DOMAIN applied[n] = LinksOf(n)
  BY DEF IInv, TypeOK
<1>2. l \in 1 .. Len(applied[n])
  BY <1>1, LenProperties
<1>3. applied[n][l] \in Nat
  BY <1>1, <1>2, ElementOfSeq
<1>4. announced[Peer(n, l)] \in Seq(Infos)
  BY Neighbours DEF IInv, TypeOK
<1>5. Len(announced[Peer(n, l)]) \in Nat
  BY <1>4, LenProperties
<1>6. applied[n][l] + 1 \in 1 .. Len(announced[Peer(n, l)])
  BY <1>3, <1>5 DEF Apply
<1>7. Info(n, l) \in Infos
  BY <1>4, <1>6, ElementOfSeq DEF Info
<1> QED BY <1>3, <1>5, <1>6, <1>7

\* The heart of the argument: the decision only changes where there was none.
LEMMA ChangeIsNew ==
    ASSUME IInv, NEW n \in Node, NEW l \in LinksOf(n), Apply(n, l),
           BestChoiceChanged(n, l, Info(n, l))
    PROVE  ~ HasEntry(n, Info(n, l).destAddr)
<1> DEFINE p == Peer(n, l)
           d == Info(n, l).destAddr
<1>1. d \in Node /\ p \in Node
  BY InfoType, Neighbours DEF Infos
<1>2. SUFFICES ASSUME HasEntry(n, d) PROVE FALSE
  OBVIOUS
<1>3. routing_table[n][d][l].weight < INT_MAX
  BY <1>2 DEF BestChoiceChanged, IsBest, HasEntry
<1>4. PICK i \in 1 .. applied[n][l] : announced[p][i].destAddr = d
  BY <1>1, <1>2, <1>3 DEF IInv, FiniteIsTold, Told
<1>5. i \in 1 .. Len(announced[p]) /\ i # applied[n][l] + 1
  BY InfoType
<1>6. announced[p][applied[n][l] + 1].destAddr = d
  BY DEF Info
<1> QED BY SMTT(60), <1>1, <1>4, <1>5, <1>6, InfoType DEF IInv, AnnouncedOnce

-----------------------------------------------------------------------------
(* An update. *)

LEMMA IntMaxType == INT_MAX \in Nat \ {0, 1}
BY SMT DEF INT_MAX

LEMMA WeightType ==
    ASSUME NEW n \in Node, NEW l \in LinksOf(n)
    PROVE  get_weight(n, l) \in Nat
<1>1. Bandwidth[n][l] \in Nat \ {0} /\ WEIGHT_OF_UNIT \in Nat
  BY RoutingTableAssumption, IntMaxType
<1> QED BY <1>1 DEF get_weight

\* What is entered for a link is no wider than the link.
LEMMA ExtendedType ==
    ASSUME NEW n \in Node, NEW l \in LinksOf(n), NEW info \in Infos
    PROVE  /\ Extended(n, l, info) \in Entries
           /\ Extended(n, l, info).minBWD \in 1 .. (INT_MAX - 1)
<1>1. Bandwidth[n][l] \in 1 .. (INT_MAX - 1)
  BY RoutingTableAssumption
<1>2. info.weight \in Nat /\ info.minBWD \in Nat \ {0}
  BY DEF Infos
<1>3. get_weight(n, l) \in Nat
  BY WeightType
<1>4. 2 * info.weight + get_weight(n, l) \in Nat
  BY <1>2, <1>3
<1>5. (IF info.minBWD < Bandwidth[n][l] THEN info.minBWD ELSE Bandwidth[n][l])
          \in 1 .. (INT_MAX - 1)
  BY <1>1, <1>2, IntMaxType
<1> QED BY <1>4, <1>5, IntMaxType DEF Extended, Entries

LEMMA EntryOfType ==
    ASSUME TypeOK, NEW n \in Node, NEW d \in Node
    PROVE  EntryOf(n, d) \in [LinksOf(n) -> Entries]
<1>1. CASE routing_table[n][d] = NO_ENTRY
  BY <1>1, IntMaxType DEF EntryOf, Entries
<1>2. CASE routing_table[n][d] # NO_ENTRY
  <2>1. routing_table[n][d] \in Seq(Entries) /\ DOMAIN routing_table[n][d] = LinksOf(n)
    BY <1>2 DEF TypeOK
  <2>2. routing_table[n][d] \in [LinksOf(n) -> Entries]
    BY <2>1, LenProperties
  <2> QED BY <1>2, <2>2 DEF EntryOf
<1> QED BY <1>1, <1>2

LEMMA FunctionIsSeq ==
    ASSUME NEW n \in Node, NEW l \in LinksOf(n), NEW S, NEW f \in [LinksOf(n) -> S]
    PROVE  f \in Seq(S)
BY Neighbours, SeqDef

\* The new entry of n for d, and the announcement of it.
NewEntry(n, l) == [EntryOf(n, Info(n, l).destAddr) EXCEPT ![l] = Extended(n, l, Info(n, l))]

Passed(n, l) ==
    [destAddr |-> Info(n, l).destAddr,
     weight |-> Extended(n, l, Info(n, l)).weight,
     minBWD |-> Extended(n, l, Info(n, l)).minBWD]

Changed(n, l) ==
    Info(n, l).destAddr # n /\ BestChoiceChanged(n, l, Info(n, l))

LEMMA NewEntryType ==
    ASSUME IInv, NEW n \in Node, NEW l \in LinksOf(n), Apply(n, l)
    PROVE  /\ Info(n, l).destAddr \in Node
           /\ Passed(n, l) \in Infos
           /\ NewEntry(n, l) \in Seq(Entries)
           /\ DOMAIN NewEntry(n, l) = LinksOf(n)
           /\ NewEntry(n, l) # NO_ENTRY
           /\ NewEntry(n, l)[l] = Extended(n, l, Info(n, l))
           /\ \A k \in LinksOf(n) :
                k # l => NewEntry(n, l)[k] = EntryOf(n, Info(n, l).destAddr)[k]
<1>1. Info(n, l) \in Infos /\ Info(n, l).destAddr \in Node
  BY InfoType DEF Infos
<1>2. Extended(n, l, Info(n, l)) \in Entries
  BY <1>1, ExtendedType
<1>3. EntryOf(n, Info(n, l).destAddr) \in [LinksOf(n) -> Entries]
  BY <1>1, EntryOfType DEF IInv
<1>4. NewEntry(n, l) \in [LinksOf(n) -> Entries]
  BY <1>2, <1>3 DEF NewEntry
<1>5. NewEntry(n, l) \in Seq(Entries)
  BY <1>4, FunctionIsSeq
<1>6. NewEntry(n, l) # NO_ENTRY
  <2>1. l \in DOMAIN NewEntry(n, l)
    BY <1>4
  <2>2. DOMAIN NO_ENTRY = 1 .. 0
    BY EmptySeq, LenProperties DEF NO_ENTRY
  <2> QED BY <2>1, <2>2
<1>7. Passed(n, l) \in Infos
  BY <1>1, <1>2 DEF Passed, Infos, Entries
<1> QED BY <1>1, <1>3, <1>4, <1>5, <1>6, <1>7 DEF NewEntry

\* The step, field by field.
LEMMA Applied ==
    ASSUME IInv, NEW n \in Node, NEW l \in LinksOf(n), Apply(n, l)
    PROVE  /\ applied' = [applied EXCEPT ![n][l] = @ + 1]
           /\ routing_table' =
                IF Info(n, l).destAddr = n THEN routing_table
                ELSE [routing_table EXCEPT ![n][Info(n, l).destAddr] = NewEntry(n, l)]
           /\ forwarding_table' =
                IF Changed(n, l)
                THEN [forwarding_table EXCEPT ![n][Info(n, l).destAddr] = l]
                ELSE forwarding_table
           /\ announced' =
                IF Changed(n, l)
                THEN [announced EXCEPT ![n] = Append(@, Passed(n, l))]
                ELSE announced
           /\ app' = IF Info(n, l).destAddr = n THEN app
                     ELSE [app EXCEPT ![n] = @ \union {Info(n, l).destAddr}]
<1>1. CASE Info(n, l).destAddr = n
  BY <1>1 DEF Apply, ApplyInfo, tables, Changed, Info
<1>2. CASE Info(n, l).destAddr # n
  <2>1. update_routing_table(n, l, Info(n, l))
    BY <1>2 DEF Apply, ApplyInfo, Info
  <2>2. applied' = [applied EXCEPT ![n][l] = @ + 1]
    BY DEF Apply
  <2> QED BY <1>2, <2>1, <2>2 DEF update_routing_table, Changed, NewEntry, Passed
<1> QED BY <1>1, <1>2

\* The step at each node, link and destination.
LEMMA AppliedAt ==
    ASSUME IInv, NEW n \in Node, NEW l \in LinksOf(n), Apply(n, l)
    PROVE  /\ \A m \in Node : \A k \in LinksOf(m) :
                applied'[m][k] = applied[m][k] + IF m = n /\ k = l THEN 1 ELSE 0
           /\ \A m, e \in Node :
                routing_table'[m][e] =
                    IF m = n /\ e = Info(n, l).destAddr /\ e # n
                    THEN NewEntry(n, l) ELSE routing_table[m][e]
           /\ \A m, e \in Node :
                forwarding_table'[m][e] =
                    IF Changed(n, l) /\ m = n /\ e = Info(n, l).destAddr
                    THEN l ELSE forwarding_table[m][e]
           /\ \A m \in Node :
                app'[m] = IF m = n /\ Info(n, l).destAddr # n
                          THEN app[m] \union {Info(n, l).destAddr} ELSE app[m]
<1>1. applied \in [Node -> Seq(Nat)]
      /\ routing_table \in [Node -> [Node -> Seq(Entries)]]
      /\ forwarding_table \in [Node -> [Node -> Int]]
      /\ app \in [Node -> SUBSET Node]
  BY DEF IInv, TypeOK
<1>2. \A m \in Node : \A k \in LinksOf(m) : applied[m][k] \in Nat
  <2> TAKE m \in Node
  <2> TAKE k \in LinksOf(m)
  <2>1. applied[m] \in Seq(Nat) /\ k \in DOMAIN applied[m]
    BY DEF IInv, TypeOK
  <2>2. k \in 1 .. Len(applied[m])
    BY <2>1, LenProperties
  <2> QED BY <2>1, <2>2, ElementOfSeq
<1> DEFINE d == Info(n, l).destAddr
           entry == NewEntry(n, l)
           decides == Changed(n, l)
<1>3. d \in Node
  BY NewEntryType
<1>4. /\ applied' = [applied EXCEPT ![n][l] = @ + 1]
      /\ routing_table' = IF d = n THEN routing_table
                          ELSE [routing_table EXCEPT ![n][d] = entry]
      /\ forwarding_table' = IF decides THEN [forwarding_table EXCEPT ![n][d] = l]
                             ELSE forwarding_table
      /\ app' = IF d = n THEN app ELSE [app EXCEPT ![n] = @ \union {d}]
  BY Applied
<1> HIDE DEF d, entry, decides
<1>5. \A m \in Node : \A k \in LinksOf(m) :
        applied'[m][k] = applied[m][k] + IF m = n /\ k = l THEN 1 ELSE 0
  <2>1. \A m \in Node : DOMAIN applied[m] = LinksOf(m)
    BY DEF IInv, TypeOK
  <2>2. \A m \in Node : \A k \in LinksOf(m) :
          applied'[m][k] = IF m = n /\ k = l THEN applied[m][k] + 1 ELSE applied[m][k]
    BY <1>1, <1>4, <2>1
  <2> QED BY <1>2, <2>2
<1>6. \A m, e \in Node :
        routing_table'[m][e] =
            IF m = n /\ e = d /\ e # n THEN entry ELSE routing_table[m][e]
  BY <1>1, <1>3, <1>4
<1>7. \A m, e \in Node :
        forwarding_table'[m][e] =
            IF decides /\ m = n /\ e = d THEN l ELSE forwarding_table[m][e]
  BY <1>1, <1>3, <1>4
<1>8. \A m \in Node :
        app'[m] = IF m = n /\ d # n THEN app[m] \union {d} ELSE app[m]
  BY <1>1, <1>3, <1>4
<1> QED BY <1>5, <1>6, <1>7, <1>8 DEF d, entry, decides

\* What is announced stays announced; n announces what it changes.
LEMMA AnnouncedAt ==
    ASSUME IInv, NEW n \in Node, NEW l \in LinksOf(n), Apply(n, l), NEW m \in Node
    PROVE  /\ announced[m] \in Seq(Infos) /\ announced'[m] \in Seq(Infos)
           /\ Len(announced[m]) \in Nat /\ Len(announced'[m]) \in Nat
           /\ \A i \in 1 .. Len(announced[m]) : announced'[m][i] = announced[m][i]
           /\ ~ (Changed(n, l) /\ m = n) => announced'[m] = announced[m]
           /\ Changed(n, l) /\ m = n =>
                /\ Len(announced'[m]) = Len(announced[m]) + 1
                /\ announced'[m][Len(announced[m]) + 1] = Passed(n, l)
           /\ Len(announced[m]) <= Len(announced'[m])
<1>1. announced \in [Node -> Seq(Infos)]
  BY DEF IInv, TypeOK
<1>2. announced[m] \in Seq(Infos)
  BY <1>1
<1> DEFINE passed == Passed(n, l)
           decides == Changed(n, l)
<1>3. passed \in Infos /\ Len(announced[m]) \in Nat
  BY <1>2, NewEntryType, LenProperties
<1>4. announced' = IF decides THEN [announced EXCEPT ![n] = Append(@, passed)]
                   ELSE announced
  BY Applied
<1> HIDE DEF passed, decides
<1>5. announced'[m] = IF decides /\ m = n THEN Append(announced[m], passed)
                      ELSE announced[m]
  BY <1>1, <1>4
<1>6. CASE decides /\ m = n
  <2>1. /\ announced'[m] \in Seq(Infos)
        /\ Len(announced'[m]) = Len(announced[m]) + 1
        /\ \A i \in 1 .. Len(announced[m]) : announced'[m][i] = announced[m][i]
        /\ announced'[m][Len(announced[m]) + 1] = passed
    BY <1>2, <1>3, <1>5, <1>6, AppendProperties
  <2> QED BY <1>2, <1>3, <1>6, <2>1 DEF passed, decides
<1>7. CASE ~ (decides /\ m = n)
  <2>1. announced'[m] = announced[m]
    BY <1>5, <1>7
  <2>2. ~ (Changed(n, l) /\ m = n)
    BY <1>7 DEF decides
  <2> QED BY <1>2, <1>3, <2>1, <2>2
<1> QED BY <1>6, <1>7

-----------------------------------------------------------------------------
(* Each part of the invariant is kept. *)

\* What was told stays told.
LEMMA StaysTold ==
    ASSUME IInv, NEW n \in Node, NEW l \in LinksOf(n), Apply(n, l),
           NEW m \in Node, NEW k \in LinksOf(m), NEW d \in Node,
           Told(Peer(m, k), d, applied[m][k])
    PROVE  Told(Peer(m, k), d, applied[m][k])'
<1> DEFINE p == Peer(m, k)
<1>1. PICK i \in 1 .. applied[m][k] : announced[p][i].destAddr = d
  BY DEF Told
<1>2. p \in Node
  BY Neighbours
<1>3. applied[m][k] \in Nat /\ applied[m][k] <= Len(announced[p])
  <2>1. applied[m] \in Seq(Nat) /\ k \in DOMAIN applied[m]
    BY DEF IInv, TypeOK
  <2>2. k \in 1 .. Len(applied[m])
    BY <2>1, LenProperties
  <2> QED BY <2>1, <2>2, ElementOfSeq DEF IInv, TypeOK
<1>4. i \in 1 .. Len(announced[p])
  BY <1>2, <1>3, AnnouncedAt
<1>5. announced'[p][i].destAddr = d
  BY <1>1, <1>2, <1>4, AnnouncedAt
<1>6. i \in 1 .. applied'[m][k]
  BY <1>3, AppliedAt
<1>7. Peer(m, k)' = p
  BY DEF Peer
<1> QED BY <1>5, <1>6, <1>7 DEF Told

\* What has just been applied is told.
LEMMA JustTold ==
    ASSUME IInv, NEW n \in Node, NEW l \in LinksOf(n), Apply(n, l),
           NEW d \in Node, d = Info(n, l).destAddr
    PROVE  Told(Peer(n, l), d, applied[n][l])'
<1> DEFINE p == Peer(n, l)
           i == applied[n][l] + 1
<1>1. p \in Node /\ applied[n][l] \in Nat /\ i \in 1 .. Len(announced[p])
  BY Neighbours, InfoType
<1>2. applied'[n][l] = i
  BY <1>1, AppliedAt
<1>3. announced'[p][i] = Info(n, l)
  BY <1>1, AnnouncedAt DEF Info
<1>4. \E j \in 1 .. applied'[n][l] : announced'[p][j].destAddr = d
  <2>1. i \in 1 .. applied'[n][l]
    BY <1>1, <1>2
  <2> QED BY <1>3, <2>1
<1>5. p \in Node /\ p' = p
  BY <1>1 DEF Peer
<1> QED BY <1>4, <1>5 DEF Told

LEMMA EntryStays ==
    ASSUME IInv, NEW n \in Node, NEW l \in LinksOf(n), Apply(n, l),
           NEW m \in Node, NEW d \in Node, HasEntry(m, d)
    PROVE  HasEntry(m, d)'
<1>1. NewEntry(n, l) # NO_ENTRY
  BY NewEntryType
<1>2. routing_table'[m][d] # NO_ENTRY
  BY <1>1, AppliedAt DEF HasEntry
<1>3. NO_ENTRY' = NO_ENTRY
  BY DEF NO_ENTRY
<1> QED BY <1>2, <1>3 DEF HasEntry

LEMMA KeepsTypeOK ==
    ASSUME IInv, NEW n \in Node, NEW l \in LinksOf(n), Apply(n, l)
    PROVE  TypeOK'
<1> DEFINE d == Info(n, l).destAddr
           passed == Passed(n, l)
           entry == NewEntry(n, l)
           decides == Changed(n, l)
<1>1. /\ d \in Node
      /\ passed \in Infos
      /\ entry \in Seq(Entries)
      /\ DOMAIN entry = LinksOf(n)
      /\ l \in Int
  BY NewEntryType, Neighbours
<1>2. /\ announced \in [Node -> Seq(Infos)]
      /\ routing_table \in [Node -> [Node -> Seq(Entries)]]
      /\ forwarding_table \in [Node -> [Node -> Int]]
      /\ app \in [Node -> SUBSET Node]
  BY DEF IInv, TypeOK
<1>3. /\ routing_table' = IF d = n THEN routing_table
                          ELSE [routing_table EXCEPT ![n][d] = entry]
      /\ forwarding_table' = IF decides THEN [forwarding_table EXCEPT ![n][d] = l]
                             ELSE forwarding_table
      /\ announced' = IF decides THEN [announced EXCEPT ![n] = Append(@, passed)]
                      ELSE announced
      /\ app' = IF d = n THEN app ELSE [app EXCEPT ![n] = @ \union {d}]
  BY Applied
<1>4. /\ \A m, e \in Node :
            routing_table'[m][e] =
                IF m = n /\ e = d /\ e # n THEN entry ELSE routing_table[m][e]
      /\ \A m, e \in Node :
            forwarding_table'[m][e] =
                IF decides /\ m = n /\ e = d THEN l ELSE forwarding_table[m][e]
  BY AppliedAt
<1> HIDE DEF d, passed, entry, decides
<1>5. announced' \in [Node -> Seq(Infos)]
  <2>1. Append(announced[n], passed) \in Seq(Infos)
    BY <1>1, <1>2, AppendProperties
  <2> QED BY <1>2, <1>3, <2>1
<1>6. routing_table' \in [Node -> [Node -> Seq(Entries)]]
  BY <1>1, <1>2, <1>3
<1>7. forwarding_table' \in [Node -> [Node -> Int]]
  BY <1>1, <1>2, <1>3
<1>8. app' \in [Node -> SUBSET Node]
  BY <1>1, <1>2, <1>3
<1>9. applied' \in [Node -> Seq(Nat)] /\ \A m \in Node : DOMAIN applied'[m] = LinksOf(m)
  <2>1. applied \in [Node -> Seq(Nat)] /\ \A m \in Node : DOMAIN applied[m] = LinksOf(m)
    BY DEF IInv, TypeOK
  <2>2. applied[n][l] + 1 \in Nat /\ l \in 1 .. Len(applied[n])
    BY <2>1, InfoType, LenProperties
  <2>3. [applied[n] EXCEPT ![l] = applied[n][l] + 1] \in Seq(Nat)
    BY <2>1, <2>2, ExceptSeq
  <2>4. applied' = [applied EXCEPT ![n] = [applied[n] EXCEPT ![l] = applied[n][l] + 1]]
    BY <2>1, Applied
  <2> QED BY <2>1, <2>3, <2>4
<1>10. ASSUME NEW m \in Node, NEW e \in Node
      PROVE  /\ routing_table'[m][e] = NO_ENTRY \/ DOMAIN routing_table'[m][e] = LinksOf(m)
             /\ forwarding_table'[m][e] \in LinksOf(m) \union {NO_LINK}
  <2>1. /\ routing_table[m][e] = NO_ENTRY \/ DOMAIN routing_table[m][e] = LinksOf(m)
        /\ forwarding_table[m][e] \in LinksOf(m) \union {NO_LINK}
    BY DEF IInv, TypeOK
  <2>2. routing_table'[m][e] = NO_ENTRY \/ DOMAIN routing_table'[m][e] = LinksOf(m)
    BY <1>1, <1>4, <2>1
  <2>3. forwarding_table'[m][e] \in LinksOf(m) \union {NO_LINK}
    BY <1>4, <2>1
  <2> QED BY <2>2, <2>3
<1>11. ASSUME NEW m \in Node, NEW k \in LinksOf(m)
      PROVE  applied'[m][k] <= Len(announced'[Peer(m, k)])
  <2> DEFINE p == Peer(m, k)
  <2>1. p \in Node
    BY Neighbours
  <2>2. Len(announced[p]) \in Nat /\ Len(announced'[p]) \in Nat
        /\ Len(announced[p]) <= Len(announced'[p])
    BY <2>1, AnnouncedAt
  <2>3. applied[m][k] \in Nat /\ applied[m][k] <= Len(announced[p])
    <3>1. applied[m] \in Seq(Nat) /\ k \in DOMAIN applied[m]
      BY DEF IInv, TypeOK
    <3>2. k \in 1 .. Len(applied[m])
      BY <3>1, LenProperties
    <3> QED BY <3>1, <3>2, ElementOfSeq DEF IInv, TypeOK
  <2>4. CASE m = n /\ k = l
    <3>1. applied'[m][k] = applied[m][k] + 1
      BY <2>4, AppliedAt
    <3>2. applied[m][k] + 1 <= Len(announced[p])
      BY <2>4, InfoType
    <3> QED BY <2>2, <2>3, <3>1, <3>2
  <2>5. CASE ~ (m = n /\ k = l)
    <3>1. applied'[m][k] = applied[m][k]
      BY <2>3, <2>5, AppliedAt
    <3> QED BY <2>2, <2>3, <3>1
  <2> QED BY <2>4, <2>5
<1> QED BY <1>5, <1>6, <1>7, <1>8, <1>9, <1>10, <1>11
        DEF TypeOK, LinksOf, Peer, NO_ENTRY, NO_LINK, Infos, Entries

LEMMA KeepsAnnouncedOnce ==
    ASSUME IInv, NEW n \in Node, NEW l \in LinksOf(n), Apply(n, l)
    PROVE  AnnouncedOnce' /\ AnnouncedIsKnown'
<1> DEFINE d == Info(n, l).destAddr
<1>1. d \in Node /\ Passed(n, l).destAddr = d
  BY NewEntryType DEF Passed
<1>2. ASSUME Changed(n, l), NEW i \in 1 .. Len(announced[n]), announced[n][i].destAddr = d
      PROVE  FALSE
  <2>1. ~ HasEntry(n, d) /\ d # n
    BY <1>2, ChangeIsNew DEF Changed
  <2> QED BY <1>2, <2>1 DEF IInv, AnnouncedIsKnown
<1>3. ASSUME NEW m \in Node, NEW i \in 1 .. Len(announced'[m]),
             NEW j \in 1 .. Len(announced'[m]),
             announced'[m][i].destAddr = announced'[m][j].destAddr
      PROVE  i = j
  <2>1. CASE ~ (Changed(n, l) /\ m = n)
    <3>1. announced'[m] = announced[m]
      BY <2>1, AnnouncedAt
    <3> QED BY <1>3, <3>1 DEF IInv, AnnouncedOnce
  <2>2. CASE Changed(n, l) /\ m = n
    <3> DEFINE last == Len(announced[n]) + 1
    <3>1. /\ Len(announced[n]) \in Nat
          /\ Len(announced'[n]) = last
          /\ announced'[n][last].destAddr = d
          /\ \A k \in 1 .. Len(announced[n]) : announced'[n][k] = announced[n][k]
      BY <1>1, <2>2, AnnouncedAt
    <3>2. \A k \in 1 .. last : k = last \/ k \in 1 .. Len(announced[n])
      BY <3>1
    <3>3. CASE i = last /\ j # last
      BY <1>2, <1>3, <2>2, <3>1, <3>2, <3>3
    <3>4. CASE j = last /\ i # last
      BY <1>2, <1>3, <2>2, <3>1, <3>2, <3>4
    <3>5. CASE i # last /\ j # last
      BY ZenonT(60), <1>3, <2>2, <3>1, <3>2, <3>5 DEF IInv, AnnouncedOnce
    <3> QED BY <3>3, <3>4, <3>5
  <2> QED BY <2>1, <2>2
<1>4. ASSUME NEW m \in Node, NEW i \in 1 .. Len(announced'[m])
      PROVE  announced'[m][i].destAddr = m
               \/ routing_table'[m][announced'[m][i].destAddr] # NO_ENTRY
  <2>1. CASE i \in 1 .. Len(announced[m])
    <3>1. announced'[m][i] = announced[m][i] /\ announced[m][i].destAddr \in Node
      <4>1. announced'[m][i] = announced[m][i] /\ announced[m] \in Seq(Infos)
        BY <2>1, AnnouncedAt
      <4>2. announced[m][i] \in Infos
        BY <2>1, <4>1, ElementOfSeq
      <4> QED BY <4>1, <4>2 DEF Infos
    <3>2. announced[m][i].destAddr = m \/ HasEntry(m, announced[m][i].destAddr)
      BY <2>1 DEF IInv, AnnouncedIsKnown
    <3>3. HasEntry(m, announced[m][i].destAddr)
            => routing_table'[m][announced[m][i].destAddr] # NO_ENTRY
      BY <3>1, AppliedAt, NewEntryType DEF HasEntry
    <3> QED BY <3>1, <3>2, <3>3
  <2>2. CASE i \notin 1 .. Len(announced[m])
    <3>1. Changed(n, l) /\ m = n
      BY <2>2, AnnouncedAt
    <3>2. announced'[m][i].destAddr = d
      BY <1>1, <2>2, <3>1, AnnouncedAt
    <3>3. routing_table'[n][d] = NewEntry(n, l) /\ NewEntry(n, l) # NO_ENTRY
      BY <1>1, <3>1, AppliedAt, NewEntryType DEF Changed
    <3> QED BY <3>1, <3>2, <3>3
  <2> QED BY <2>1, <2>2
<1> QED BY <1>3, <1>4 DEF AnnouncedOnce, AnnouncedIsKnown, HasEntry, NO_ENTRY

LEMMA KeepsFiniteIsTold ==
    ASSUME IInv, NEW n \in Node, NEW l \in LinksOf(n), Apply(n, l)
    PROVE  FiniteIsTold'
<1> DEFINE d == Info(n, l).destAddr
<1>1. d \in Node
  BY NewEntryType
<1>2. ASSUME NEW m \in Node, NEW e \in Node, NEW k \in LinksOf(m),
             routing_table'[m][e] # NO_ENTRY,
             routing_table'[m][e][k].weight < INT_MAX
      PROVE  Told(Peer(m, k), e, applied[m][k])'
  <2>1. CASE HasEntry(m, e) /\ routing_table[m][e][k].weight < INT_MAX
    <3>1. Told(Peer(m, k), e, applied[m][k])
      BY <2>1 DEF IInv, FiniteIsTold
    <3> QED BY <3>1, StaysTold
  <2>2. CASE ~ (HasEntry(m, e) /\ routing_table[m][e][k].weight < INT_MAX)
    <3>1. m = n /\ e = d /\ e # n
      BY <1>2, <2>2, AppliedAt DEF HasEntry
    <3>2. routing_table'[n][d] = NewEntry(n, l)
      BY <1>1, <3>1, AppliedAt
    <3>3. k = l
      <4>1. SUFFICES ASSUME k # l PROVE FALSE
        OBVIOUS
      <4>2. NewEntry(n, l)[k] = EntryOf(n, d)[k]
        BY <3>1, <4>1, NewEntryType
      <4>3. EntryOf(n, d)[k].weight < INT_MAX
        BY <1>2, <3>1, <3>2, <4>2
      <4>4. CASE HasEntry(n, d)
        <5>1. EntryOf(n, d) = routing_table[n][d]
          BY <4>4 DEF HasEntry, EntryOf
        <5> QED BY <2>2, <3>1, <4>3, <4>4, <5>1
      <4>5. CASE ~ HasEntry(n, d)
        <5>1. EntryOf(n, d)[k].weight = INT_MAX
          BY <3>1, <4>5 DEF HasEntry, EntryOf
        <5> QED BY <4>3, <5>1, IntMaxType
      <4> QED BY <4>4, <4>5
    <3> QED BY <1>1, <3>1, <3>3, JustTold
  <2> QED BY <2>1, <2>2
<1>3. \A m, e \in Node : \A k \in LinksOf(m) :
        routing_table'[m][e] # NO_ENTRY /\ routing_table'[m][e][k].weight < INT_MAX =>
            Told(Peer(m, k), e, applied[m][k])'
  BY <1>2
<1> QED BY <1>3 DEF FiniteIsTold, HasEntry, NO_ENTRY, LinksOf

LEMMA KeepsRouteIsTold ==
    ASSUME IInv, NEW n \in Node, NEW l \in LinksOf(n), Apply(n, l)
    PROVE  RouteIsTold'
<1> DEFINE d == Info(n, l).destAddr
<1>1. /\ d \in Node
      /\ NewEntry(n, l) # NO_ENTRY
      /\ NewEntry(n, l)[l].minBWD \in 1 .. (INT_MAX - 1)
      /\ l # NO_LINK
  BY NewEntryType, InfoType, ExtendedType, Neighbours
<1>2. ASSUME NEW m \in Node, NEW e \in Node
      PROVE  /\ routing_table'[m][e] # NO_ENTRY <=> forwarding_table'[m][e] # NO_LINK
             /\ forwarding_table'[m][e] # NO_LINK =>
                    /\ Told(Peer(m, forwarding_table[m][e]), e,
                            applied[m][forwarding_table[m][e]])'
                    /\ routing_table'[m][e][forwarding_table'[m][e]].minBWD
                            \in 1 .. (INT_MAX - 1)
  <2> DEFINE r == forwarding_table[m][e]
  <2>1. routing_table[m][e] # NO_ENTRY <=> r # NO_LINK
    BY DEF IInv, RouteIsTold, HasEntry, HasRoute
  <2>2. r # NO_LINK => Told(Peer(m, r), e, applied[m][r])
                         /\ routing_table[m][e][r].minBWD \in 1 .. (INT_MAX - 1)
    BY DEF IInv, RouteIsTold, HasRoute
  <2>3. r # NO_LINK => r \in LinksOf(m)
    BY DEF IInv, TypeOK
  <2>4. CASE Changed(n, l) /\ m = n /\ e = d
    <3>1. forwarding_table'[m][e] = l /\ routing_table'[m][e] = NewEntry(n, l)
      BY <1>1, <2>4, AppliedAt DEF Changed
    <3>2. Told(Peer(n, l), e, applied[n][l])'
      BY <2>4, JustTold
    <3>3. Told(Peer(m, forwarding_table[m][e]), e, applied[m][forwarding_table[m][e]])'
      BY SMTT(60), <2>4, <3>1, <3>2 DEF Told, Peer
    <3> QED BY <1>1, <3>1, <3>3
  <2>5. CASE ~ (Changed(n, l) /\ m = n /\ e = d)
    <3>1. forwarding_table'[m][e] = r
      BY <2>5, AppliedAt
    <3>2. r # NO_LINK =>
            Told(Peer(m, forwarding_table[m][e]), e, applied[m][forwarding_table[m][e]])'
      <4>1. SUFFICES ASSUME r # NO_LINK
            PROVE  Told(Peer(m, forwarding_table[m][e]), e,
                        applied[m][forwarding_table[m][e]])'
        OBVIOUS
      <4>2. PICK k \in LinksOf(m) : k = r
        BY <2>3, <4>1
      <4>3. Told(Peer(m, k), e, applied[m][k])'
        BY <2>2, <4>1, <4>2, StaysTold
      <4> QED BY <3>1, <4>2, <4>3 DEF Told, Peer
    <3>3. CASE m = n /\ e = d /\ e # n
      <4>1. routing_table'[m][e] = NewEntry(n, l)
        BY <1>1, <3>3, AppliedAt
      <4>2. HasEntry(n, d)
        BY <2>5, <3>3 DEF Changed, BestChoiceChanged, HasEntry
      <4>3. r # NO_LINK
        BY <2>1, <3>3, <4>2 DEF HasEntry
      <4>4. routing_table'[m][e][r].minBWD \in 1 .. (INT_MAX - 1)
        <5>1. CASE r = l
          BY SMTT(60), <1>1, <4>1, <5>1
        <5>2. CASE r # l
          <6>1. NewEntry(n, l)[r] = EntryOf(n, d)[r]
            BY <2>3, <3>3, <4>3, <5>2, NewEntryType
          <6>2. EntryOf(n, d) = routing_table[n][d]
            BY <4>2 DEF HasEntry, EntryOf
          <6> QED BY <2>2, <3>3, <4>1, <4>3, <6>1, <6>2
        <5> QED BY <5>1, <5>2
      <4> QED BY <1>1, <3>1, <3>2, <4>1, <4>3, <4>4
    <3>4. CASE ~ (m = n /\ e = d /\ e # n)
      <4>1. routing_table'[m][e] = routing_table[m][e]
        BY <3>4, AppliedAt
      <4> QED BY <2>1, <2>2, <3>1, <3>2, <4>1
    <3> QED BY <3>3, <3>4
  <2> QED BY <2>4, <2>5
<1> QED BY <1>2 DEF RouteIsTold, HasEntry, HasRoute, NO_ENTRY, NO_LINK

LEMMA KeepsAppHasRoute ==
    ASSUME IInv, NEW n \in Node, NEW l \in LinksOf(n), Apply(n, l)
    PROVE  AppHasRoute'
<1>1. ASSUME NEW m \in Node, NEW e \in app'[m]
      PROVE  HasRoute(m, e)'
  <2>1. e \in Node
    BY KeepsTypeOK DEF TypeOK
  <2>2. HasEntry(m, e)'
    <3>1. CASE e \in app[m]
      <4>1. HasEntry(m, e)
        BY <2>1, <3>1 DEF IInv, AppHasRoute, RouteIsTold
      <4> QED BY <2>1, <4>1, EntryStays
    <3>2. CASE e \notin app[m]
      <4>1. m = n /\ e = Info(n, l).destAddr /\ e # n
        <5> DEFINE d == Info(n, l).destAddr
        <5>1. \A k \in Node :
                app'[k] = IF k = n /\ d # n THEN app[k] \union {d} ELSE app[k]
          BY ZenonT(60), AppliedAt
        <5> HIDE DEF d
        <5>2. app'[m] = IF m = n /\ d # n THEN app[m] \union {d} ELSE app[m]
          BY <5>1, Zenon
        <5>3. m = n /\ d # n /\ e = d
          BY <3>2, <5>2
        <5> QED BY <5>3 DEF d
      <4>2. routing_table'[m][e] = NewEntry(n, l) /\ NewEntry(n, l) # NO_ENTRY
        BY <2>1, <4>1, AppliedAt, NewEntryType
      <4> QED BY <4>2 DEF HasEntry, NO_ENTRY
    <3> QED BY <3>1, <3>2
  <2> QED BY <2>1, <2>2, KeepsRouteIsTold DEF RouteIsTold
<1> QED BY <1>1 DEF AppHasRoute

LEMMA KeepsAllAnnounce ==
    ASSUME IInv, NEW n \in Node, NEW l \in LinksOf(n), Apply(n, l)
    PROVE  AllAnnounce'
<1> SUFFICES ASSUME NEW m \in Node PROVE Len(announced'[m]) > 0
  BY DEF AllAnnounce
<1>1. Len(announced[m]) > 0
  BY DEF IInv, AllAnnounce
<1> QED BY <1>1, AnnouncedAt

-----------------------------------------------------------------------------
(* A first announcement is missed. *)

LEMMA AppliedType ==
    ASSUME TypeOK, NEW m \in Node, NEW k \in LinksOf(m)
    PROVE  /\ applied[m][k] \in Nat
           /\ k \in 1 .. Len(applied[m])
<1>1. applied[m] \in Seq(Nat) /\ k \in DOMAIN applied[m]
  BY DEF TypeOK
<1>2. k \in 1 .. Len(applied[m])
  BY <1>1, LenProperties
<1> QED BY <1>1, <1>2, ElementOfSeq

LEMMA MissedAt ==
    ASSUME IInv, NEW n \in Node, NEW l \in LinksOf(n), MissFirst(n, l)
    PROVE  /\ UNCHANGED tables
           /\ applied' \in [Node -> Seq(Nat)]
           /\ \A m \in Node : DOMAIN applied'[m] = LinksOf(m)
           /\ \A m \in Node : \A k \in LinksOf(m) :
                /\ applied'[m][k] \in Nat
                /\ applied[m][k] <= applied'[m][k]
                /\ applied'[m][k] <= Len(announced[Peer(m, k)])
<1>1. applied \in [Node -> Seq(Nat)] /\ \A m \in Node : DOMAIN applied[m] = LinksOf(m)
  BY DEF IInv, TypeOK
<1>2. applied[n][l] = 0 /\ l \in 1 .. Len(applied[n])
  BY AppliedType DEF IInv, MissFirst
<1>3. applied' = [applied EXCEPT ![n] = [applied[n] EXCEPT ![l] = 1]]
  BY <1>1 DEF MissFirst
<1>4. [applied[n] EXCEPT ![l] = 1] \in Seq(Nat)
  BY <1>1, <1>2, ExceptSeq
<1>5. applied' \in [Node -> Seq(Nat)] /\ \A m \in Node : DOMAIN applied'[m] = LinksOf(m)
  BY <1>1, <1>3, <1>4
<1>6. ASSUME NEW m \in Node, NEW k \in LinksOf(m)
      PROVE  /\ applied'[m][k] \in Nat
             /\ applied[m][k] <= applied'[m][k]
             /\ applied'[m][k] <= Len(announced[Peer(m, k)])
  <2>1. applied[m][k] \in Nat /\ applied[m][k] <= Len(announced[Peer(m, k)])
    BY AppliedType DEF IInv, TypeOK
  <2>2. Len(announced[Peer(m, k)]) \in Nat /\ Len(announced[Peer(m, k)]) > 0
    BY Neighbours, LenProperties DEF IInv, TypeOK, AllAnnounce
  <2>3. applied'[m][k] = IF m = n /\ k = l THEN 1 ELSE applied[m][k]
    BY <1>1, <1>3
  <2> QED BY <1>2, <2>1, <2>2, <2>3
<1>7. UNCHANGED tables
  BY DEF MissFirst
<1> QED BY <1>5, <1>6, <1>7

LEMMA MissKeepsIInv ==
    ASSUME IInv, NEW n \in Node, NEW l \in LinksOf(n), MissFirst(n, l)
    PROVE  IInv'
<1>1. /\ announced' = announced
      /\ routing_table' = routing_table
      /\ forwarding_table' = forwarding_table
      /\ app' = app
  BY MissedAt DEF tables
<1>2. TypeOK'
  BY <1>1, MissedAt DEF IInv, TypeOK
<1>3. ASSUME NEW m \in Node, NEW k \in LinksOf(m), NEW d \in Node,
             Told(Peer(m, k), d, applied[m][k])
      PROVE  Told(Peer(m, k), d, applied[m][k])'
  <2>1. PICK i \in 1 .. applied[m][k] : announced[Peer(m, k)][i].destAddr = d
    BY <1>3 DEF Told
  <2>2. applied[m][k] \in Nat /\ applied'[m][k] \in Nat /\ applied[m][k] <= applied'[m][k]
    BY MissedAt, AppliedType DEF IInv
  <2>3. i \in 1 .. applied'[m][k]
    BY <2>2
  <2> QED BY <1>1, <2>1, <2>3 DEF Told, Peer
<1>4. FiniteIsTold'
  <2> SUFFICES ASSUME NEW m \in Node, NEW d \in Node, NEW k \in LinksOf(m),
                      routing_table[m][d] # NO_ENTRY,
                      routing_table[m][d][k].weight < INT_MAX
               PROVE  Told(Peer(m, k), d, applied[m][k])'
    BY <1>1 DEF FiniteIsTold, HasEntry
  <2>1. Told(Peer(m, k), d, applied[m][k])
    BY DEF IInv, FiniteIsTold, HasEntry
  <2> QED BY <1>3, <2>1
<1>5. RouteIsTold'
  <2> SUFFICES ASSUME NEW m \in Node, NEW d \in Node
               PROVE  /\ routing_table[m][d] # NO_ENTRY <=> forwarding_table[m][d] # NO_LINK
                      /\ forwarding_table[m][d] # NO_LINK =>
                          /\ Told(Peer(m, forwarding_table[m][d]), d,
                                  applied[m][forwarding_table[m][d]])'
                          /\ routing_table[m][d][forwarding_table[m][d]].minBWD
                                \in 1 .. (INT_MAX - 1)
    BY <1>1 DEF RouteIsTold, HasEntry, HasRoute
  <2>1. forwarding_table[m][d] # NO_LINK => forwarding_table[m][d] \in LinksOf(m)
    BY DEF IInv, TypeOK
  <2>2. /\ routing_table[m][d] # NO_ENTRY <=> forwarding_table[m][d] # NO_LINK
        /\ forwarding_table[m][d] # NO_LINK =>
            /\ Told(Peer(m, forwarding_table[m][d]), d, applied[m][forwarding_table[m][d]])
            /\ routing_table[m][d][forwarding_table[m][d]].minBWD \in 1 .. (INT_MAX - 1)
    BY DEF IInv, RouteIsTold, HasEntry, HasRoute
  <2>3. ASSUME forwarding_table[m][d] # NO_LINK
        PROVE  Told(Peer(m, forwarding_table[m][d]), d, applied[m][forwarding_table[m][d]])'
    <3> DEFINE k == forwarding_table[m][d]
    <3>1. k \in LinksOf(m) /\ Told(Peer(m, k), d, applied[m][k]) /\ k' = k
      BY <1>1, <2>1, <2>2, <2>3
    <3> HIDE DEF k
    <3>2. Told(Peer(m, k), d, applied[m][k])'
      BY <1>1, <1>3, <3>1 DEF Told, Peer
    <3> QED BY <1>1, <3>1, <3>2 DEF k, Told, Peer
  <2> QED BY <2>2, <2>3
<1>6. AllAnnounce' /\ AnnouncedOnce' /\ AnnouncedIsKnown' /\ AppHasRoute'
  BY <1>1 DEF IInv, AllAnnounce, AnnouncedOnce, AnnouncedIsKnown, AppHasRoute, HasEntry,
     HasRoute
<1> QED BY <1>2, <1>4, <1>5, <1>6 DEF IInv

-----------------------------------------------------------------------------
(* The theorems. *)

LEMMA InitIInv == DVInit => IInv
<1> SUFFICES ASSUME DVInit PROVE IInv
  OBVIOUS
<1>1. /\ announced = [n \in Node |-> <<SelfInfo(n)>>]
      /\ routing_table = [n \in Node |-> [d \in Node |-> NO_ENTRY]]
      /\ forwarding_table = [n \in Node |-> [d \in Node |-> NO_LINK]]
      /\ app = [n \in Node |-> {}]
      /\ applied = [n \in Node |-> [l \in LinksOf(n) |-> 0]]
  BY DEF DVInit, TablesInit
<1>2. \A n \in Node : SelfInfo(n) \in Infos /\ SelfInfo(n).destAddr = n
  BY IntMaxType DEF SelfInfo, Infos
<1>3. \A n \in Node :
        /\ announced[n] \in Seq(Infos)
        /\ Len(announced[n]) = 1
        /\ announced[n][1] = SelfInfo(n)
  <2> TAKE n \in Node
  <2> DEFINE info == SelfInfo(n)
  <2>1. announced[n] = <<info>> /\ info \in Infos
    BY <1>1, <1>2
  <2> HIDE DEF info
  <2>2. <<info>> \in Seq(Infos) /\ Len(<<info>>) = 1 /\ <<info>>[1] = info
    BY <2>1
  <2> QED BY <2>1, <2>2 DEF info
<1>4. \A n \in Node : \A i \in 1 .. Len(announced[n]) : i = 1
  <2>1. \A n \in Node : Len(announced[n]) = 1
    BY <1>3
  <2>2. \A i \in 1 .. 1 : i = 1
    OBVIOUS
  <2> QED BY <2>1, <2>2
<1>5. TypeOK
  <2>1. announced \in [Node -> Seq(Infos)]
    BY <1>1, <1>3
  <2>2. NO_ENTRY \in Seq(Entries)
    BY EmptySeq DEF NO_ENTRY
  <2>3. routing_table \in [Node -> [Node -> Seq(Entries)]]
    BY <1>1, <2>2
  <2>4. forwarding_table \in [Node -> [Node -> Int]]
    BY <1>1 DEF NO_LINK
  <2>5. \A n \in Node : [l \in LinksOf(n) |-> 0] \in Seq(Nat)
    <3> TAKE n \in Node
    <3>1. Len(Links[n]) \in Nat
      BY RoutingTableAssumption, LenProperties
    <3>2. [l \in LinksOf(n) |-> 0] \in [1 .. Len(Links[n]) -> Nat]
      BY DEF LinksOf
    <3> QED BY <3>1, <3>2, SeqDef
  <2>6. applied \in [Node -> Seq(Nat)]
    BY <1>1, <2>5
  <2>7. \A n \in Node : \A l \in LinksOf(n) : applied[n][l] <= Len(announced[Peer(n, l)])
    BY <1>1, <1>3, Neighbours
  <2> QED BY <1>1, <2>1, <2>3, <2>4, <2>6, <2>7 DEF TypeOK
<1>6. AnnouncedOnce
  BY <1>4 DEF AnnouncedOnce
<1>7. AnnouncedIsKnown
  BY <1>2, <1>3, <1>4 DEF AnnouncedIsKnown
<1>8. FiniteIsTold
  BY <1>1 DEF FiniteIsTold, HasEntry
<1>9. RouteIsTold
  BY <1>1 DEF RouteIsTold, HasEntry, HasRoute
<1>10. AppHasRoute
  BY <1>1 DEF AppHasRoute
<1>11. AllAnnounce
  <2> SUFFICES ASSUME NEW n \in Node PROVE Len(announced[n]) > 0
    BY DEF AllAnnounce
  <2>1. Len(announced[n]) = 1
    BY <1>3
  <2> QED BY <2>1
<1> QED BY <1>5, <1>6, <1>7, <1>8, <1>9, <1>10, <1>11 DEF IInv

LEMMA NextIInv == IInv /\ [DVNext]_dvVars => IInv'
<1> SUFFICES ASSUME IInv, [DVNext]_dvVars PROVE IInv'
  OBVIOUS
<1>1. ASSUME NEW n \in Node, NEW l \in LinksOf(n), Apply(n, l)
      PROVE  IInv'
  BY SMTT(60), <1>1, KeepsTypeOK, KeepsAnnouncedOnce, KeepsFiniteIsTold, KeepsRouteIsTold,
     KeepsAppHasRoute, KeepsAllAnnounce DEF IInv
<1>2. ASSUME NEW n \in Node, NEW l \in LinksOf(n), MissFirst(n, l)
      PROVE  IInv'
  BY <1>2, MissKeepsIInv
<1>3. CASE UNCHANGED dvVars
  <2>1. /\ announced' = announced
        /\ routing_table' = routing_table
        /\ forwarding_table' = forwarding_table
        /\ app' = app
        /\ applied' = applied
    BY <1>3 DEF dvVars, tables
  <2>2. TypeOK'
    BY <2>1 DEF IInv, TypeOK
  <2>3. AllAnnounce' /\ AnnouncedOnce' /\ AnnouncedIsKnown' /\ AppHasRoute'
    BY <2>1 DEF IInv, AllAnnounce, AnnouncedOnce, AnnouncedIsKnown, AppHasRoute, HasEntry,
       HasRoute
  <2>4. FiniteIsTold' /\ RouteIsTold'
    BY <2>1 DEF IInv, FiniteIsTold, RouteIsTold, HasEntry, HasRoute, Told
  <2> QED BY <2>2, <2>3, <2>4 DEF IInv
<1> QED BY <1>1, <1>2, <1>3 DEF DVNext

LEMMA SpecIInv == DVSpec => []IInv
BY InitIInv, NextIInv, PTL DEF DVSpec

\* Every table keeps its type, on every network.
THEOREM TypeCorrect == DVSpec => []TypeOK
<1>1. IInv => TypeOK
  BY DEF IInv
<1> QED BY <1>1, SpecIInv, PTL

\* A node announces a destination at most once (update_routing_table).
THEOREM AnnouncesOnce == DVSpec => []AnnouncedOnce
<1>1. IInv => AnnouncedOnce
  BY DEF IInv
<1> QED BY <1>1, SpecIInv, PTL

\* The next hop of a route has announced the destination.
LEMMA NextHopOfInvariant == IInv => NextHopHasRoute
<1> SUFFICES ASSUME IInv, NEW n \in Node, NEW d \in Node, HasRoute(n, d)
             PROVE  LET p == Peer(n, forwarding_table[n][d])
                    IN  p = d \/ HasRoute(p, d)
  BY DEF NextHopHasRoute
<1> DEFINE l == forwarding_table[n][d]
           p == Peer(n, l)
<1>1. l \in LinksOf(n)
  BY DEF IInv, TypeOK, HasRoute
<1>2. Told(p, d, applied[n][l]) /\ p \in Node
  BY <1>1, Neighbours DEF IInv, RouteIsTold
<1>3. PICK i \in 1 .. applied[n][l] : announced[p][i].destAddr = d
  BY <1>2 DEF Told
<1>4. applied[n][l] \in Nat /\ applied[n][l] <= Len(announced[p])
  <2>1. applied[n] \in Seq(Nat) /\ l \in DOMAIN applied[n]
    BY <1>1 DEF IInv, TypeOK
  <2>2. l \in 1 .. Len(applied[n])
    BY <2>1, LenProperties
  <2> QED BY <1>1, <2>1, <2>2, ElementOfSeq DEF IInv, TypeOK
<1>5. Len(announced[p]) \in Nat
  BY <1>2, LenProperties DEF IInv, TypeOK
<1>6. i \in 1 .. Len(announced[p])
  BY <1>4, <1>5
<1>7. d = p \/ HasEntry(p, d)
  BY <1>2, <1>3, <1>6 DEF IInv, AnnouncedIsKnown
<1> QED BY <1>2, <1>7 DEF IInv, RouteIsTold

\* The next hop of a route has a route itself, so that network_receive never
\* transmits on link -1.
THEOREM NextHopRoutes == DVSpec => []NextHopHasRoute
BY NextHopOfInvariant, SpecIInv, PTL

\* An application is enabled for a destination only when there is a route to it
\* with a bandwidth, which network_get_bandwidth reads unchecked.
THEOREM RouteFirst == DVSpec => []RouteBeforeTraffic
<1>1. ASSUME IInv PROVE RouteBeforeTraffic
  <2> SUFFICES ASSUME NEW n \in Node, NEW d \in app[n]
               PROVE  /\ HasRoute(n, d)
                      /\ network_get_bandwidth(n, d) \in 1 .. (INT_MAX - 1)
    BY DEF RouteBeforeTraffic
  <2>1. d \in Node
    BY <1>1 DEF IInv, TypeOK
  <2>2. HasRoute(n, d)
    BY <1>1 DEF IInv, AppHasRoute
  <2> QED BY <1>1, <2>1, <2>2 DEF IInv, RouteIsTold, network_get_bandwidth
<1> QED BY <1>1, SpecIInv, PTL

\* A route never moves: the forwarding decision for a destination is made once.
THEOREM RoutesStay == DVSpec => RouteNeverMoves
<1>1. ASSUME IInv, [DVNext]_dvVars
      PROVE  [\A n, d \in Node :
                HasRoute(n, d) => forwarding_table'[n][d] = forwarding_table[n][d]]_dvVars
  <2>1. ASSUME NEW m \in Node, NEW l \in LinksOf(m), Apply(m, l),
               NEW n \in Node, NEW d \in Node, HasRoute(n, d)
        PROVE  forwarding_table'[n][d] = forwarding_table[n][d]
    <3>1. CASE Changed(m, l) /\ n = m /\ d = Info(m, l).destAddr
      <4>1. ~ HasEntry(n, d)
        BY <1>1, <2>1, <3>1, ChangeIsNew DEF Changed
      <4> QED BY <1>1, <2>1, <4>1 DEF IInv, RouteIsTold
    <3>2. CASE ~ (Changed(m, l) /\ n = m /\ d = Info(m, l).destAddr)
      BY <1>1, <2>1, <3>2, AppliedAt
    <3> QED BY <3>1, <3>2
  <2>2. ASSUME UNCHANGED tables, NEW n \in Node, NEW d \in Node
        PROVE  forwarding_table'[n][d] = forwarding_table[n][d]
    BY <2>2 DEF tables
  <2> QED BY <1>1, <2>1, <2>2 DEF DVNext, MissFirst, dvVars
<1> QED BY <1>1, SpecIInv, PTL DEF RouteNeverMoves, DVSpec

-----------------------------------------------------------------------------
(***************************************************************************)
(* No network ever has a forwarding loop.  A node that finds a route has   *)
(* not announced the destination, so no other node routes through it yet:  *)
(* it can be ranked above its next hop, and no rank exceeds the number of  *)
(* nodes with a route.  A datagram descends the ranks, and on its way the  *)
(* bandwidth that was announced for the route is that of what lies ahead.  *)
(***************************************************************************)

\* The nodes with a route to d.
Routed(d) == {n \in Node : HasRoute(n, d)}

NextHop(n, d) == Peer(n, forwarding_table[n][d])

\* rank descends along the routes to d.
Descends(rank, d) ==
    /\ \A n \in Routed(d) :
        /\ rank[NextHop(n, d)] < rank[n]
        /\ rank[n] <= Cardinality(Routed(d))
    /\ \A n \in Node \ Routed(d) : rank[n] = 0

\* A destination has no route to itself; those to it are ranked.
Ranked ==
    \A d \in Node :
        /\ ~ HasRoute(d, d)
        /\ \E rank \in [Node -> Nat] : Descends(rank, d)

NatLess == OpToRel(<, Nat)

\* A set of natural numbers has a least element.
LEMMA Least ==
    ASSUME NEW S \in SUBSET Nat, S # {}
    PROVE  \E x \in S : \A y \in S : x <= y
<1>1. IsWellFoundedOn(NatLess, Nat)
  BY NatLessThanWellFounded DEF NatLess
<1>2. PICK x \in S : \A y \in S : ~ (<<y, x>> \in NatLess)
  BY <1>1, WFMin
<1>3. \A y \in S : <<y, x>> \in NatLess <=> y < x
  BY DEF NatLess, OpToRel
<1>4. \A y \in S : ~ (y < x)
  BY <1>2, <1>3
<1> QED BY <1>4

-----------------------------------------------------------------------------
(* Way is well defined. *)

\* The function that the definition of Way is about.
IsWay(f, n, d, m) == f = [k \in 0 .. m |-> IF k = 0 THEN n ELSE Onward(f[k - 1], d)]

LEMMA WaysExist ==
    ASSUME NEW n \in Node, NEW d \in Node
    PROVE  \A m \in Nat : \E f : IsWay(f, n, d, m)
<1> DEFINE B == {m \in Nat : ~ \E f : IsWay(f, n, d, m)}
<1>1. SUFFICES ASSUME B # {} PROVE FALSE
  OBVIOUS
<1>2. PICK m \in B : \A y \in B : m <= y
  BY <1>1, Least
<1>3. m \in Nat /\ ~ \E f : IsWay(f, n, d, m)
  OBVIOUS
<1>4. CASE m = 0
  <2> DEFINE f == [k \in 0 .. 0 |-> n]
  <2>1. f = [k \in 0 .. 0 |-> IF k = 0 THEN n ELSE Onward(f[k - 1], d)]
    OBVIOUS
  <2> QED BY <1>3, <1>4, <2>1 DEF IsWay
<1>5. CASE m # 0
  <2>1. m - 1 \in Nat /\ m - 1 \notin B
    BY <1>2, <1>3, <1>5
  <2>2. PICK f : IsWay(f, n, d, m - 1)
    BY <2>1
  <2> DEFINE g == [k \in 0 .. m |-> IF k <= m - 1 THEN f[k] ELSE Onward(f[m - 1], d)]
  <2>3. \A k \in 0 .. (m - 1) : f[k] = IF k = 0 THEN n ELSE Onward(f[k - 1], d)
    BY <2>2 DEF IsWay
  <2>4. ASSUME NEW k \in 0 .. m
        PROVE  g[k] = IF k = 0 THEN n ELSE Onward(g[k - 1], d)
    <3>1. CASE k <= m - 1
      <4>1. k \in 0 .. (m - 1) /\ (k # 0 => k - 1 \in 0 .. m /\ k - 1 <= m - 1)
        BY <1>3, <3>1
      <4> QED BY <2>3, <3>1, <4>1
    <3>2. CASE ~ (k <= m - 1)
      <4>1. k = m /\ k # 0 /\ k - 1 \in 0 .. m /\ k - 1 <= m - 1
        BY <1>3, <1>5, <3>2
      <4> QED BY <3>2, <4>1
    <3> QED BY <3>1, <3>2
  <2>5. g = [k \in 0 .. m |-> IF k = 0 THEN n ELSE Onward(g[k - 1], d)]
    <3>1. g = [k \in 0 .. m |-> g[k]]
      OBVIOUS
    <3> HIDE DEF g
    <3> QED BY <2>4, <3>1
  <2>6. IsWay(g, n, d, m)
    BY <2>5 DEF IsWay
  <2> QED BY <1>3, <2>6
<1> QED BY <1>4, <1>5

LEMMA WayDef ==
    ASSUME NEW n \in Node, NEW d \in Node
    PROVE  \A k \in 0 .. Cardinality(Node) :
             Way(n, d)[k] = IF k = 0 THEN n ELSE Onward(Way(n, d)[k - 1], d)
<1>1. Cardinality(Node) \in Nat
  BY DistanceVectorAssumption, FS_CardinalityType
<1>2. \E f : IsWay(f, n, d, Cardinality(Node))
  BY <1>1, WaysExist
<1>3. Way(n, d) = CHOOSE f : IsWay(f, n, d, Cardinality(Node))
  BY DEF Way, IsWay
<1>4. IsWay(Way(n, d), n, d, Cardinality(Node))
  BY <1>2, <1>3
<1> QED BY <1>4 DEF IsWay

-----------------------------------------------------------------------------
(* The routes are ranked. *)

LEMMA RoutedFinite ==
    ASSUME NEW d \in Node
    PROVE  /\ Routed(d) \subseteq Node
           /\ IsFiniteSet(Routed(d))
           /\ Cardinality(Routed(d)) \in Nat
<1>1. Routed(d) \subseteq Node
  BY DEF Routed
<1> QED BY <1>1, DistanceVectorAssumption, FS_Subset, FS_CardinalityType

\* The next hop of a route is the destination or has a route.
LEMMA NextHopRouted ==
    ASSUME IInv, NEW d \in Node, NEW n \in Routed(d)
    PROVE  /\ NextHop(n, d) \in Node
           /\ NextHop(n, d) = d \/ NextHop(n, d) \in Routed(d)
<1>1. n \in Node /\ HasRoute(n, d)
  BY DEF Routed
<1>2. forwarding_table[n][d] \in LinksOf(n)
  BY <1>1 DEF IInv, TypeOK, HasRoute
<1>3. NextHop(n, d) \in Node
  BY <1>1, <1>2, Neighbours DEF NextHop
<1>4. NextHopHasRoute
  BY NextHopOfInvariant
<1>5. NextHop(n, d) = d \/ HasRoute(NextHop(n, d), d)
  BY <1>1, <1>4 DEF NextHopHasRoute, NextHop
<1> QED BY <1>3, <1>5 DEF Routed

\* A new route is ranked above its next hop.
LEMMA KeepsDescends ==
    ASSUME IInv, NEW n \in Node, NEW l \in LinksOf(n), Apply(n, l), Changed(n, l),
           NEW d \in Node, d = Info(n, l).destAddr,
           NEW rank \in [Node -> Nat], Descends(rank, d)
    PROVE  \E r \in [Node -> Nat] :
             Descends(r, d)' /\ \A m \in Node \ {n} : r[m] = rank[m]
<1> DEFINE p == Peer(n, l)
           r == [rank EXCEPT ![n] = rank[p] + 1]
<1>1. p \in Node /\ p # n /\ l # NO_LINK
  BY Neighbours
<1>2. n # d /\ n \notin Routed(d)
  <2>1. n # d /\ ~ HasEntry(n, d)
    BY ChangeIsNew DEF Changed
  <2> QED BY <2>1 DEF IInv, RouteIsTold, Routed
<1>3. \A m \in Node :
        forwarding_table'[m][d] = IF m = n THEN l ELSE forwarding_table[m][d]
  BY AppliedAt
<1>4. Routed(d)' = Routed(d) \union {n}
  <2>1. \A m \in Node : forwarding_table'[m][d] # NO_LINK
                          <=> m = n \/ forwarding_table[m][d] # NO_LINK
    BY <1>1, <1>3
  <2>2. Routed(d)' = {m \in Node : forwarding_table'[m][d] # NO_LINK}
    BY DEF Routed, HasRoute, NO_LINK
  <2>3. Routed(d) = {m \in Node : forwarding_table[m][d] # NO_LINK}
    BY DEF Routed, HasRoute
  <2> QED BY <2>1, <2>2, <2>3
<1>5. /\ Cardinality(Routed(d)) \in Nat
      /\ Cardinality(Routed(d)') = Cardinality(Routed(d)) + 1
  BY <1>2, <1>4, RoutedFinite, FS_AddElement
<1>6. r \in [Node -> Nat] /\ r[n] = rank[p] + 1 /\ \A m \in Node \ {n} : r[m] = rank[m]
  BY <1>1
<1>7. \A m \in Node : rank[m] \in Nat /\ rank[m] <= Cardinality(Routed(d))
  BY <1>5, RoutedFinite DEF Descends
<1>8. ASSUME NEW m \in Routed(d)'
      PROVE  /\ r[Peer(m, forwarding_table'[m][d])] < r[m]
             /\ r[m] <= Cardinality(Routed(d)')
  <2>1. CASE m = n
    <3>1. Peer(m, forwarding_table'[m][d]) = p
      BY <1>3, <2>1
    <3>2. r[p] = rank[p] /\ r[m] = rank[p] + 1
      BY <1>1, <1>6, <2>1
    <3> QED BY <1>1, <1>5, <1>7, <3>1, <3>2
  <2>2. CASE m # n
    <3>1. m \in Routed(d) /\ m \in Node
      BY <1>4, <2>2 DEF Routed
    <3>2. Peer(m, forwarding_table'[m][d]) = NextHop(m, d)
      BY <1>3, <2>2, <3>1 DEF NextHop
    <3>3. NextHop(m, d) \in Node /\ NextHop(m, d) # n
      BY <1>2, <3>1, NextHopRouted
    <3>4. r[NextHop(m, d)] = rank[NextHop(m, d)] /\ r[m] = rank[m]
      BY <1>6, <2>2, <3>1, <3>3
    <3>5. rank[NextHop(m, d)] < rank[m]
      BY <3>1 DEF Descends
    <3> QED BY <1>5, <1>7, <3>1, <3>2, <3>4, <3>5
  <2> QED BY <2>1, <2>2
<1>9. \A m \in Node \ Routed(d)' : r[m] = 0
  BY <1>4, <1>6 DEF Descends
<1>10. Descends(r, d)'
  <2>1. \A m \in Routed(d)' :
          /\ r[Peer(m, forwarding_table'[m][d])] < r[m]
          /\ r[m] <= Cardinality(Routed(d)')
    BY <1>8
  <2> QED BY <1>9, <2>1 DEF Descends, NextHop
<1> QED BY <1>6, <1>10

LEMMA KeepsRanked ==
    ASSUME IInv, Ranked, NEW n \in Node, NEW l \in LinksOf(n), Apply(n, l)
    PROVE  Ranked'
<1>1. ASSUME NEW d \in Node
      PROVE  ~ HasRoute(d, d)' /\ \E r \in [Node -> Nat] : Descends(r, d)'
  <2>1. ~ HasRoute(d, d) /\ \E r \in [Node -> Nat] : Descends(r, d)
    BY DEF Ranked
  <2>2. CASE Changed(n, l) /\ d = Info(n, l).destAddr
    <3>1. d # n
      BY <2>2 DEF Changed
    <3>2. forwarding_table'[d][d] = forwarding_table[d][d]
      BY <3>1, AppliedAt
    <3>3. ~ HasRoute(d, d)'
      BY <2>1, <3>2 DEF HasRoute, NO_LINK
    <3>4. \E r \in [Node -> Nat] : Descends(r, d)'
      BY <2>1, <2>2, KeepsDescends
    <3> QED BY <3>3, <3>4
  <2>3. CASE ~ (Changed(n, l) /\ d = Info(n, l).destAddr)
    <3>1. \A m \in Node : forwarding_table'[m][d] = forwarding_table[m][d]
      BY <2>3, AppliedAt
    <3>2. Routed(d)' = Routed(d)
      BY <3>1 DEF Routed, HasRoute, NO_LINK
    <3>3. ~ HasRoute(d, d)'
      BY <2>1, <3>1 DEF HasRoute, NO_LINK
    <3>4. PICK r \in [Node -> Nat] : Descends(r, d)
      BY <2>1
    <3>5. \A m \in Routed(d) : Peer(m, forwarding_table'[m][d]) = NextHop(m, d)
      BY <3>1 DEF Routed, NextHop
    <3>6. Descends(r, d)'
      BY <3>2, <3>4, <3>5 DEF Descends, NextHop
    <3> QED BY <3>3, <3>6
  <2> QED BY <2>2, <2>3
<1> QED BY <1>1 DEF Ranked

LEMMA InitRanked == DVInit => Ranked
<1> SUFFICES ASSUME DVInit, NEW d \in Node
             PROVE  ~ HasRoute(d, d) /\ \E rank \in [Node -> Nat] : Descends(rank, d)
  BY DEF Ranked
<1>1. \A n \in Node : ~ HasRoute(n, d)
  BY DEF DVInit, TablesInit, HasRoute
<1>2. Routed(d) = {}
  BY <1>1 DEF Routed
<1>3. Descends([n \in Node |-> 0], d)
  BY <1>2 DEF Descends
<1> QED BY <1>1, <1>3

LEMMA SpecRanked == DVSpec => []Ranked
<1>1. IInv /\ Ranked /\ [DVNext]_dvVars => Ranked'
  <2> SUFFICES ASSUME IInv, Ranked, [DVNext]_dvVars PROVE Ranked'
    OBVIOUS
  <2>1. CASE UNCHANGED tables
    BY <2>1 DEF tables, Ranked, HasRoute, Descends, Routed, NextHop
  <2> QED BY <2>1, KeepsRanked DEF DVNext, MissFirst, dvVars
<1> QED BY <1>1, InitRanked, SpecIInv, PTL DEF DVSpec

-----------------------------------------------------------------------------
(* A datagram descends the ranks. *)

\* After k hops the datagram is at its destination, or k ranks lower.
Descended(n, d, rank, k) ==
    LET m == Way(n, d)[k]
    IN  /\ m \in Node
        /\ m = d \/ (m \in Routed(d) /\ rank[m] + k < Cardinality(Node))

LEMMA WayDescends ==
    ASSUME IInv, Ranked, NEW n \in Node, NEW d \in Node, HasRoute(n, d),
           NEW rank \in [Node -> Nat], Descends(rank, d)
    PROVE  \A k \in 0 .. (Cardinality(Node) - 1) : Descended(n, d, rank, k)
<1> DEFINE N == Cardinality(Node)
           B == {k \in Nat : k < N /\ ~ Descended(n, d, rank, k)}
<1>1. N \in Nat
  BY DistanceVectorAssumption, FS_CardinalityType
<1>2. \A m \in Routed(d) : rank[m] \in Nat /\ rank[m] < N
  <2>1. Routed(d) \subseteq Node \ {d}
    BY DEF Routed, Ranked
  <2>2. Cardinality(Routed(d)) <= Cardinality(Node \ {d}) /\ Cardinality(Node \ {d}) = N - 1
    BY <2>1, DistanceVectorAssumption, FS_RemoveElement, FS_Subset
  <2>3. Cardinality(Routed(d)) \in Nat
    BY RoutedFinite
  <2> QED BY <1>1, <2>1, <2>2, <2>3 DEF Descends
<1>3. SUFFICES ASSUME B # {} PROVE FALSE
  BY <1>1
<1>4. PICK k \in B : \A j \in B : k <= j
  <2>1. B \in SUBSET Nat
    OBVIOUS
  <2> HIDE DEF B
  <2> QED BY <1>3, <2>1, Least
<1>5. k \in Nat /\ k < N /\ ~ Descended(n, d, rank, k)
  OBVIOUS
<1>6. Way(n, d)[k] = IF k = 0 THEN n ELSE Onward(Way(n, d)[k - 1], d)
  BY <1>1, <1>5, WayDef
<1>7. CASE k = 0
  <2>1. Way(n, d)[k] = n /\ n \in Routed(d)
    BY <1>6, <1>7 DEF Routed
  <2> QED BY <1>2, <1>5, <1>7, <2>1 DEF Descended
<1>8. CASE k # 0
  <2> DEFINE m == Way(n, d)[k - 1]
  <2>1. k - 1 \in Nat /\ k - 1 < N /\ k - 1 \notin B
    BY <1>1, <1>4, <1>5, <1>8
  <2>2. m \in Node /\ (m = d \/ (m \in Routed(d) /\ rank[m] + (k - 1) < N))
    BY <2>1 DEF Descended
  <2>3. Way(n, d)[k] = Onward(m, d)
    BY <1>6, <1>8
  <2>4. CASE m = d
    <3>1. Way(n, d)[k] = d
      BY <2>3, <2>4 DEF Onward
    <3> QED BY <1>5, <3>1 DEF Descended
  <2>5. CASE m # d
    <3>1. m \in Routed(d) /\ rank[m] + (k - 1) < N
      BY <2>2, <2>5
    <3>2. Way(n, d)[k] = NextHop(m, d)
      BY <2>3, <2>5, <3>1 DEF Onward, NextHop, Routed
    <3>3. /\ NextHop(m, d) \in Node
          /\ NextHop(m, d) = d \/ NextHop(m, d) \in Routed(d)
      BY <3>1, NextHopRouted
    <3>4. rank[NextHop(m, d)] < rank[m] /\ rank[NextHop(m, d)] \in Nat /\ rank[m] \in Nat
      BY <2>2, <3>1, <3>3 DEF Descends
    <3>5. rank[NextHop(m, d)] + k < N
      BY <1>1, <1>5, <3>1, <3>4
    <3> QED BY <1>5, <3>2, <3>3, <3>5 DEF Descended
  <2> QED BY <2>4, <2>5
<1> QED BY <1>7, <1>8

LEMMA LoopFreeOfInvariant == IInv /\ Ranked => LoopFree
<1> SUFFICES ASSUME IInv, Ranked, NEW n \in Node, NEW d \in Node, HasRoute(n, d)
             PROVE  Way(n, d)[Cardinality(Node) - 1] = d
  BY DEF LoopFree
<1> DEFINE N == Cardinality(Node)
<1>1. N \in Nat /\ N # 0
  BY DistanceVectorAssumption, FS_CardinalityType, FS_EmptySet
<1>2. PICK rank \in [Node -> Nat] : Descends(rank, d)
  BY DEF Ranked
<1>3. Descended(n, d, rank, N - 1)
  <2>1. \A k \in 0 .. (N - 1) : Descended(n, d, rank, k)
    BY <1>2, WayDescends
  <2> QED BY <1>1, <2>1
<1> DEFINE m == Way(n, d)[N - 1]
<1>4. SUFFICES ASSUME m # d PROVE FALSE
  OBVIOUS
<1>5. m \in Routed(d) /\ rank[m] + (N - 1) < N
  BY <1>3, <1>4 DEF Descended
<1>6. NextHop(m, d) \in Node
  BY <1>5, NextHopRouted
<1>7. rank[NextHop(m, d)] < rank[m] /\ rank[NextHop(m, d)] \in Nat /\ rank[m] \in Nat
  BY <1>2, <1>5, <1>6 DEF Descends, Routed
<1> HIDE DEF N, m
<1> QED BY <1>1, <1>5, <1>7

\* No forwarding loop ever forms, on any network: a datagram for a destination
\* with a route arrives after at most as many hops as there are other nodes.
THEOREM NoLoops == DVSpec => []LoopFree
BY LoopFreeOfInvariant, SpecIInv, SpecRanked, PTL

-----------------------------------------------------------------------------
(* The bandwidth of a route is entered when the route is found: the        *)
(* narrower one of the first link and of what the next hop announced, the  *)
(* bandwidth of its own route.  It stays, as routes never move.            *)

\* The bandwidth that node n has for d to pass on.
Behind(n, d) == IF n = d THEN INT_MAX ELSE network_get_bandwidth(n, d)

Narrower(v, w) == IF v < w THEN v ELSE w

\* What a node announces it has, and the entry of a route is made of it.
Widths ==
    /\ \A n \in Node : \A i \in 1 .. Len(announced[n]) :
        announced[n][i].minBWD = Behind(n, announced[n][i].destAddr)
    /\ \A d \in Node : \A n \in Routed(d) :
        network_get_bandwidth(n, d) =
            Narrower(Behind(NextHop(n, d), d), Bandwidth[n][forwarding_table[n][d]])

\* The entry over the link of a route is written once.
LEMMA BandwidthStays ==
    ASSUME IInv, NEW n \in Node, NEW l \in LinksOf(n), Apply(n, l),
           NEW m \in Node, NEW d \in Node, HasRoute(m, d)
    PROVE  /\ forwarding_table'[m][d] = forwarding_table[m][d]
           /\ network_get_bandwidth(m, d)' = network_get_bandwidth(m, d)
<1> DEFINE r == forwarding_table[m][d]
           e == Info(n, l).destAddr
<1>1. HasEntry(m, d)
  BY DEF IInv, RouteIsTold
<1>2. r \in LinksOf(m) /\ Told(Peer(m, r), d, applied[m][r])
  BY DEF IInv, TypeOK, RouteIsTold, HasRoute
<1>3. ~ (Changed(n, l) /\ m = n /\ d = e)
  BY <1>1, ChangeIsNew DEF Changed
<1>4. forwarding_table'[m][d] = r
  BY <1>3, AppliedAt
<1>5. routing_table'[m][d][r] = routing_table[m][d][r]
  <2>1. CASE m = n /\ d = e /\ d # n
    <3>1. routing_table'[m][d] = NewEntry(n, l)
      BY <2>1, AppliedAt
    <3>2. EntryOf(n, d) = routing_table[n][d]
      BY <1>1, <2>1 DEF HasEntry, EntryOf
    <3>3. r # l
      <4>1. SUFFICES ASSUME r = l PROVE FALSE
        OBVIOUS
      <4>2. PICK i \in 1 .. applied[n][l] : announced[Peer(n, l)][i].destAddr = d
        BY <1>2, <2>1, <4>1 DEF Told
      <4>3. announced[Peer(n, l)][applied[n][l] + 1].destAddr = d
        BY <2>1 DEF Info
      <4>4. i \in 1 .. Len(announced[Peer(n, l)]) /\ i # applied[n][l] + 1
        BY InfoType
      <4>5. Peer(n, l) \in Node
        BY Neighbours
      <4> QED BY <4>2, <4>3, <4>4, <4>5, InfoType DEF IInv, AnnouncedOnce
    <3>4. NewEntry(n, l)[r] = EntryOf(n, e)[r]
      BY <1>2, <2>1, <3>3, NewEntryType
    <3> QED BY <2>1, <3>1, <3>2, <3>4
  <2>2. CASE ~ (m = n /\ d = e /\ d # n)
    BY <2>2, AppliedAt
  <2> QED BY <2>1, <2>2
<1> QED BY <1>4, <1>5 DEF network_get_bandwidth

LEMMA BehindStays ==
    ASSUME IInv, NEW n \in Node, NEW l \in LinksOf(n), Apply(n, l),
           NEW m \in Node, NEW d \in Node, m = d \/ HasRoute(m, d)
    PROVE  Behind(m, d)' = Behind(m, d)
BY BandwidthStays DEF Behind, INT_MAX

\* Whatever is announced has a route.
LEMMA AnnouncedRouted ==
    ASSUME IInv, NEW n \in Node, NEW i \in 1 .. Len(announced[n])
    PROVE  /\ announced[n][i].destAddr \in Node
           /\ announced[n][i].destAddr = n \/ HasRoute(n, announced[n][i].destAddr)
<1>1. announced[n] \in Seq(Infos)
  BY DEF IInv, TypeOK
<1>2. announced[n][i] \in Infos
  BY <1>1, ElementOfSeq
<1> QED BY <1>2 DEF Infos, IInv, AnnouncedIsKnown, RouteIsTold

LEMMA KeepsWidths ==
    ASSUME IInv, Ranked, Widths, NEW n \in Node, NEW l \in LinksOf(n), Apply(n, l)
    PROVE  Widths'
<1>1. PICK p \in Node, d \in Node : p = Peer(n, l) /\ d = Info(n, l).destAddr
  BY Neighbours, NewEntryType
<1>2. p = d \/ HasRoute(p, d)
  BY <1>1, InfoType, AnnouncedRouted DEF Info
<1>3. Info(n, l).minBWD = Behind(p, d)
  BY <1>1, InfoType DEF Info, Widths
<1>4. Behind(p, d)' = Behind(p, d)
  BY <1>1, <1>2, BehindStays
<1>5. ASSUME Changed(n, l)
      PROVE  /\ forwarding_table'[n][d] = l
             /\ network_get_bandwidth(n, d)' = Passed(n, l).minBWD
             /\ Passed(n, l).minBWD = Narrower(Behind(p, d), Bandwidth[n][l])
  <2>1. forwarding_table'[n][d] = l
    BY <1>1, <1>5, AppliedAt
  <2>2. routing_table'[n][d] = NewEntry(n, l)
    BY <1>1, <1>5, AppliedAt DEF Changed
  <2>3. network_get_bandwidth(n, d)' = Extended(n, l, Info(n, l)).minBWD
    BY <2>1, <2>2, NewEntryType DEF network_get_bandwidth
  <2>4. Extended(n, l, Info(n, l)).minBWD = Narrower(Behind(p, d), Bandwidth[n][l])
    BY <1>3 DEF Extended, Narrower
  <2> QED BY <2>1, <2>3, <2>4 DEF Passed
<1>6. ASSUME NEW m \in Node, NEW i \in 1 .. Len(announced'[m])
      PROVE  (announced[m][i].minBWD = Behind(m, announced[m][i].destAddr))'
  <2>1. CASE i \in 1 .. Len(announced[m])
    <3>1. announced'[m][i] = announced[m][i]
      BY <2>1, AnnouncedAt
    <3>2. announced[m][i].minBWD = Behind(m, announced[m][i].destAddr)
      BY <2>1 DEF Widths
    <3>3. ASSUME NEW e \in Node, e = announced[m][i].destAddr
          PROVE  announced'[m][i].minBWD = Behind(m, e)'
      <4>1. Behind(m, e)' = Behind(m, e)
        BY <2>1, <3>3, AnnouncedRouted, BehindStays
      <4> QED BY <3>1, <3>2, <3>3, <4>1
    <3>4. PICK e \in Node : e = announced[m][i].destAddr
      BY <2>1, AnnouncedRouted
    <3>5. announced'[m][i].minBWD = Behind(m, e)'
      BY <3>3, <3>4
    <3> QED BY <3>1, <3>4, <3>5 DEF Behind, network_get_bandwidth, INT_MAX
  <2>2. CASE ~ (i \in 1 .. Len(announced[m]))
    <3>1. Changed(n, l) /\ m = n /\ i = Len(announced[n]) + 1
      BY <2>2, AnnouncedAt
    <3>2. announced'[m][i] = Passed(n, l)
      BY <3>1, AnnouncedAt
    <3>3. Passed(n, l).destAddr = d
      BY <1>1 DEF Passed
    <3>4. d # n
      BY <1>1, <3>1 DEF Changed
    <3>5. network_get_bandwidth(n, d)' = Passed(n, l).minBWD
      BY <1>5, <3>1
    <3> QED BY <3>1, <3>2, <3>3, <3>4, <3>5 DEF Behind, network_get_bandwidth, INT_MAX
  <2> QED BY SMTT(60), <2>1, <2>2
<1>7. ASSUME NEW e \in Node, NEW m \in Node, forwarding_table'[m][e] # NO_LINK
      PROVE  network_get_bandwidth(m, e)' =
                Narrower(Behind(Peer(m, forwarding_table[m][e]), e)',
                         Bandwidth[m][forwarding_table'[m][e]])
  <2>1. CASE HasRoute(m, e)
    <3>1. m \in Routed(e)
      BY <2>1 DEF Routed
    <3>2. NextHop(m, e) \in Node /\ (NextHop(m, e) = e \/ HasRoute(NextHop(m, e), e))
      BY <3>1, NextHopRouted DEF Routed
    <3>3. PICK q \in Node : q = NextHop(m, e)
      BY <3>2
    <3>4. Behind(q, e)' = Behind(q, e)
      BY <3>2, <3>3, BehindStays
    <3>5. /\ forwarding_table'[m][e] = forwarding_table[m][e]
          /\ network_get_bandwidth(m, e)' = network_get_bandwidth(m, e)
      BY <2>1, BandwidthStays
    <3>6. Behind(Peer(m, forwarding_table[m][e]), e)' = Behind(q, e)'
      BY <3>3, <3>5 DEF Behind, network_get_bandwidth, INT_MAX, NextHop, Peer
    <3>7. network_get_bandwidth(m, e) =
            Narrower(Behind(q, e), Bandwidth[m][forwarding_table[m][e]])
      BY <3>1, <3>3 DEF Widths
    <3> QED BY <3>4, <3>5, <3>6, <3>7
  <2>2. CASE ~ HasRoute(m, e)
    <3>1. Changed(n, l) /\ m = n /\ e = d
      BY <1>1, <1>7, <2>2, AppliedAt DEF HasRoute
    <3>2. forwarding_table'[n][d] = l
      BY <1>5, <3>1
    <3>3. Behind(Peer(m, forwarding_table[m][e]), e)' = Behind(p, d)'
      BY <1>1, <3>1, <3>2 DEF Behind, network_get_bandwidth, INT_MAX, Peer
    <3>4. network_get_bandwidth(n, d)' = Narrower(Behind(p, d)', Bandwidth[n][l])
      BY <1>4, <1>5, <3>1
    <3>5. network_get_bandwidth(m, e)' = network_get_bandwidth(n, d)'
      BY <3>1 DEF network_get_bandwidth
    <3> QED BY <3>1, <3>2, <3>3, <3>4, <3>5
  <2> QED BY <2>1, <2>2
<1> QED BY <1>6, <1>7 DEF Widths, Routed, HasRoute, NO_LINK, NextHop, Narrower

LEMMA InitWidths == DVInit => Widths
<1> SUFFICES ASSUME DVInit PROVE Widths
  OBVIOUS
<1>1. \A n, d \in Node : ~ HasRoute(n, d)
  BY DEF DVInit, TablesInit, HasRoute
<1>2. ASSUME NEW n \in Node, NEW i \in 1 .. Len(announced[n])
      PROVE  announced[n][i].minBWD = Behind(n, announced[n][i].destAddr)
  <2>1. announced[n] = <<SelfInfo(n)>>
    BY DEF DVInit, TablesInit
  <2>2. i = 1 /\ announced[n][i] = SelfInfo(n)
    BY <2>1
  <2> QED BY <2>2 DEF SelfInfo, Behind
<1> QED BY <1>1, <1>2 DEF Widths, Routed

LEMMA SpecWidths == DVSpec => []Widths
<1>1. IInv /\ Ranked /\ Widths /\ [DVNext]_dvVars => Widths'
  <2> SUFFICES ASSUME IInv, Ranked, Widths, [DVNext]_dvVars PROVE Widths'
    OBVIOUS
  <2>1. CASE UNCHANGED tables
    <3>1. /\ announced' = announced
          /\ routing_table' = routing_table
          /\ forwarding_table' = forwarding_table
      BY SMTT(60), <2>1 DEF tables
    <3>2. \A n \in Node : \A i \in 1 .. Len(announced'[n]) :
            (announced[n][i].minBWD = Behind(n, announced[n][i].destAddr))'
      BY SMTT(60), <3>1 DEF Widths, Behind, network_get_bandwidth, INT_MAX
    <3>3. ASSUME NEW d \in Node, NEW n \in Node, forwarding_table'[n][d] # NO_LINK
          PROVE  network_get_bandwidth(n, d)' =
                    Narrower(Behind(Peer(n, forwarding_table[n][d]), d)',
                             Bandwidth[n][forwarding_table'[n][d]])
      <4>1. network_get_bandwidth(n, d) =
                Narrower(Behind(NextHop(n, d), d), Bandwidth[n][forwarding_table[n][d]])
        BY <3>1, <3>3 DEF Widths, Routed, HasRoute
      <4>2. Behind(Peer(n, forwarding_table[n][d]), d)' = Behind(NextHop(n, d), d)
        BY <3>1 DEF Behind, network_get_bandwidth, NextHop, Peer, INT_MAX
      <4> QED BY <3>1, <4>1, <4>2 DEF network_get_bandwidth
    <3> QED BY <3>2, <3>3 DEF Widths, Routed, HasRoute, NO_LINK, NextHop, Narrower
  <2> QED BY <2>1, KeepsWidths DEF DVNext, MissFirst, dvVars
<1> QED BY <1>1, InitWidths, SpecIInv, SpecRanked, PTL DEF DVSpec

\* The links that a datagram from n to d passes, by the nodes that send it.
Width(m, d) == Bandwidth[m][forwarding_table[m][d]]

\* After k hops a link as narrow as the route has been passed, or the rest of the
\* way has the bandwidth of the route.
Narrows(n, d, k) ==
    \/ \E j \in 0 .. k :
        Way(n, d)[j] # d /\ network_get_bandwidth(n, d) = Width(Way(n, d)[j], d)
    \/ /\ Way(n, d)[k] # d
       /\ network_get_bandwidth(n, d) = network_get_bandwidth(Way(n, d)[k], d)

\* A node of the way is no narrower than the route, and its link no narrower still.
LEMMA WidthOfHop ==
    ASSUME IInv, Widths, NEW d \in Node, NEW m \in Routed(d)
    PROVE  /\ network_get_bandwidth(m, d) \in 1 .. (INT_MAX - 1)
           /\ Width(m, d) \in 1 .. (INT_MAX - 1)
           /\ network_get_bandwidth(m, d) <= Width(m, d)
           /\ NextHop(m, d) = d => network_get_bandwidth(m, d) = Width(m, d)
           /\ NextHop(m, d) # d =>
                /\ network_get_bandwidth(m, d) <= network_get_bandwidth(NextHop(m, d), d)
                /\ \/ network_get_bandwidth(m, d) = Width(m, d)
                   \/ network_get_bandwidth(m, d)
                        = network_get_bandwidth(NextHop(m, d), d)
<1> DEFINE w == Width(m, d)
           b == Behind(NextHop(m, d), d)
           v == network_get_bandwidth(m, d)
<1>1. \A q \in Routed(d) : network_get_bandwidth(q, d) \in 1 .. (INT_MAX - 1)
  BY DEF IInv, RouteIsTold, Routed, network_get_bandwidth
<1>2. w \in 1 .. (INT_MAX - 1)
  <2>1. forwarding_table[m][d] \in LinksOf(m) /\ m \in Node
    BY DEF IInv, TypeOK, Routed, HasRoute
  <2> QED BY <2>1, RoutingTableAssumption DEF Width
<1>3. v = Narrower(b, w)
  BY DEF Widths, Width
<1>4. NextHop(m, d) = d => b = INT_MAX
  BY DEF Behind
<1>5. NextHop(m, d) # d => b = network_get_bandwidth(NextHop(m, d), d)
                             /\ NextHop(m, d) \in Routed(d)
  BY NextHopRouted DEF Behind
<1>6. b \in 1 .. INT_MAX
  <2>1. CASE NextHop(m, d) = d
    BY <1>4, <2>1, IntMaxType
  <2>2. CASE NextHop(m, d) # d
    <3>1. network_get_bandwidth(NextHop(m, d), d) \in 1 .. (INT_MAX - 1)
      BY <1>1, <1>5, <2>2
    <3> QED BY <1>5, <2>2, <3>1, IntMaxType
  <2> QED BY <2>1, <2>2
<1>7. v \in 1 .. (INT_MAX - 1)
  BY <1>1
<1> HIDE DEF w, b, v
<1>8. v <= w /\ v <= b /\ (v = w \/ v = b) /\ (b = INT_MAX => v = w)
  BY <1>2, <1>3, <1>6, <1>7, IntMaxType DEF Narrower
<1> QED BY <1>2, <1>4, <1>5, <1>7, <1>8 DEF w, v

\* Every node of the way is the destination, or one with a route as wide.
LEMMA WayNarrows ==
    ASSUME IInv, Ranked, Widths, NEW n \in Node, NEW d \in Node, HasRoute(n, d)
    PROVE  \A k \in 0 .. Cardinality(Node) :
             /\ Way(n, d)[k] # d =>
                  /\ Way(n, d)[k] \in Routed(d)
                  /\ network_get_bandwidth(n, d)
                        <= network_get_bandwidth(Way(n, d)[k], d)
             /\ Narrows(n, d, k)
<1> DEFINE N == Cardinality(Node)
           way == Way(n, d)
           v == network_get_bandwidth(n, d)
           P(k) == /\ way[k] # d => /\ way[k] \in Routed(d)
                                    /\ v <= network_get_bandwidth(way[k], d)
                   /\ Narrows(n, d, k)
           B == {k \in Nat : k <= N /\ ~ P(k)}
<1>1. N \in Nat
  BY DistanceVectorAssumption, FS_CardinalityType
<1>2. SUFFICES ASSUME B # {} PROVE FALSE
  BY <1>1
<1>3. PICK k \in B : \A j \in B : k <= j
  <2>1. B \in SUBSET Nat
    OBVIOUS
  <2> HIDE DEF B
  <2> QED BY <1>2, <2>1, Least
<1>4. k \in Nat /\ k <= N /\ ~ P(k)
  OBVIOUS
<1>5. way[k] = IF k = 0 THEN n ELSE Onward(way[k - 1], d)
  BY <1>1, <1>4, WayDef
<1>6. n \in Routed(d) /\ n # d /\ v \in Int
  <2>1. n \in Routed(d) /\ n # d
    BY DEF Routed, Ranked
  <2> QED BY <2>1, WidthOfHop, IntMaxType
<1>7. CASE k = 0
  <2>1. way[k] = n
    BY <1>5, <1>7
  <2>2. Narrows(n, d, k)
    BY <1>6, <2>1 DEF Narrows
  <2>3. P(k)
    BY <1>6, <2>1, <2>2
  <2> QED BY <1>4, <2>3
<1>8. CASE k # 0
  <2> DEFINE m == way[k - 1]
             q == way[k]
  <2>1. k - 1 \in Nat /\ k - 1 <= N /\ k - 1 \notin B
    BY <1>1, <1>3, <1>4, <1>8
  <2>2. P(k - 1)
    BY <2>1
  <2>3. q = Onward(m, d)
    BY <1>5, <1>8
  <2>4. ASSUME \E j \in 0 .. (k - 1) : way[j] # d /\ v = Width(way[j], d)
        PROVE  Narrows(n, d, k)
    BY <1>4, <2>4 DEF Narrows
  <2>5. CASE m = d
    <3>1. q = d
      BY <2>3, <2>5 DEF Onward
    <3>2. \E j \in 0 .. (k - 1) : way[j] # d /\ v = Width(way[j], d)
      BY <2>2, <2>5 DEF Narrows
    <3>3. P(k)
      BY <2>4, <3>1, <3>2
    <3> QED BY <1>4, <3>3
  <2>6. CASE m # d
    <3>1. m \in Routed(d) /\ v <= network_get_bandwidth(m, d)
      BY <2>2, <2>6
    <3>2. q = NextHop(m, d)
      BY <2>3, <2>6, <3>1 DEF Onward, NextHop, Routed
    <3>3. q # d => q \in Routed(d) /\ v <= network_get_bandwidth(q, d)
      <4>1. SUFFICES ASSUME q # d
                     PROVE  q \in Routed(d) /\ v <= network_get_bandwidth(q, d)
        OBVIOUS
      <4>2. q \in Routed(d)
        BY <3>1, <3>2, <4>1, NextHopRouted
      <4>3. /\ network_get_bandwidth(m, d) \in Int
            /\ network_get_bandwidth(q, d) \in Int
            /\ network_get_bandwidth(m, d) <= network_get_bandwidth(q, d)
        BY <3>1, <3>2, <4>1, <4>2, WidthOfHop
      <4> HIDE DEF q, m, v
      <4> QED BY <1>6, <3>1, <4>2, <4>3
    <3>4. Narrows(n, d, k)
      <4>1. CASE \E j \in 0 .. (k - 1) : way[j] # d /\ v = Width(way[j], d)
        BY <2>4, <4>1
      <4>2. CASE v = network_get_bandwidth(m, d) /\ v = Width(m, d)
        <5>1. k - 1 \in 0 .. (k - 1)
          BY <2>1
        <5> QED BY <2>4, <2>6, <4>2, <5>1
      <4>3. CASE /\ v = network_get_bandwidth(m, d)
                 /\ q # d /\ v = network_get_bandwidth(q, d)
        BY <4>3 DEF Narrows
      <4>4. v = network_get_bandwidth(m, d)
              \/ \E j \in 0 .. (k - 1) : way[j] # d /\ v = Width(way[j], d)
        BY <2>2 DEF Narrows
      <4>5. \/ network_get_bandwidth(m, d) = Width(m, d)
            \/ q # d /\ network_get_bandwidth(m, d) = network_get_bandwidth(q, d)
        BY <3>1, <3>2, WidthOfHop
      <4> QED BY <4>1, <4>2, <4>3, <4>4, <4>5
    <3>5. P(k)
      BY <3>3, <3>4
    <3> QED BY <1>4, <3>5
  <2> QED BY <2>5, <2>6
<1> QED BY <1>7, <1>8

\* The bandwidth of a route is that of the narrowest link on the way that a
\* datagram takes, on any network and with any bandwidths.
THEOREM RouteHasItsBandwidth == DVSpec => []BandwidthOfRoute
<1>1. ASSUME IInv, Ranked, Widths PROVE BandwidthOfRoute
  <2> DEFINE N == Cardinality(Node)
  <2> SUFFICES ASSUME NEW n \in Node, NEW d \in Node, HasRoute(n, d)
               PROVE  /\ \E k \in 0 .. N :
                             /\ Way(n, d)[k] # d
                             /\ network_get_bandwidth(n, d) = Width(Way(n, d)[k], d)
                        /\ \A j \in 0 .. N :
                             Way(n, d)[j] # d =>
                                network_get_bandwidth(n, d) <= Width(Way(n, d)[j], d)
    BY DEF BandwidthOfRoute, Width
  <2>1. N \in Nat /\ N # 0
    BY DistanceVectorAssumption, FS_CardinalityType, FS_EmptySet
  <2>2. Way(n, d)[N - 1] = d
    BY <1>1, LoopFreeOfInvariant DEF LoopFree
  <2>3. Narrows(n, d, N - 1)
    <3>1. N - 1 \in 0 .. N
      BY <2>1
    <3> QED BY <1>1, <3>1, WayNarrows
  <2>4. ASSUME NEW k \in 0 .. N, Way(n, d)[k] # d
        PROVE  network_get_bandwidth(n, d) <= Width(Way(n, d)[k], d)
    <3>1. PICK m \in Routed(d) :
            m = Way(n, d)[k] /\ network_get_bandwidth(n, d) <= network_get_bandwidth(m, d)
      BY <1>1, <2>4, WayNarrows
    <3>2. /\ network_get_bandwidth(m, d) \in Int
          /\ Width(m, d) \in Int
          /\ network_get_bandwidth(m, d) <= Width(m, d)
      BY <1>1, WidthOfHop
    <3>3. network_get_bandwidth(n, d) \in Int
      BY <1>1, WidthOfHop DEF Routed
    <3> QED BY <3>1, <3>2, <3>3
  <2>5. \E k \in 0 .. N : /\ Way(n, d)[k] # d
                          /\ network_get_bandwidth(n, d) = Width(Way(n, d)[k], d)
    BY <2>1, <2>2, <2>3 DEF Narrows
  <2> QED BY <2>4, <2>5
<1> QED BY <1>1, SpecIInv, SpecRanked, SpecWidths, PTL

=============================================================================
