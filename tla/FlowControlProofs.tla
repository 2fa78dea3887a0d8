------------------------- MODULE FlowControlProofs -------------------------
(***************************************************************************)
(* Theorems about FlowControl, for every threshold, delay, frame size and  *)
(* message length.  They hang together: exactly one timer is pending while *)
(* the link works, the link is ready when it expires, so that every frame  *)
(* that is due is written and the queue shrinks.                           *)
(*                                                                         *)
(* The account of the load is apart from that: its entries are in the      *)
(* order of their age, and its sum is kept by the laws of sums.            *)
(***************************************************************************)
EXTENDS FlowControl, SequenceTheorems, NaturalsInduction,
        WellFoundedInduction, TLAPS

\* The types of all but the account of the load.
Types ==
    /\ program \in Programs
    /\ queue \in Seq(Sizes)
    /\ started \in BOOLEAN
    /\ timers \in Seq(Nat)
    /\ ready \in Nat
    /\ enabled \in BOOLEAN
    /\ failed \in BOOLEAN

IInv == Types /\ OneTimer /\ NeverTooBusy /\ QueueBounded

-----------------------------------------------------------------------------

LEMMA EmptyOrNot ==
    ASSUME NEW S, NEW s \in Seq(S)
    PROVE  /\ Len(s) \in Nat
           /\ s = <<>> <=> Len(s) = 0
BY EmptySeq, LenProperties

\* A message has at least one frame and at most MaxFrames.
LEMMA MessageType ==
    ASSUME NEW frames \in Messages
    PROVE  frames \in Seq(Sizes) /\ Len(frames) \in 1 .. MaxFrames
<1>1. PICK n \in 1 .. MaxFrames, last \in Sizes, large \in Sizes :
        frames = [i \in 1 .. n |-> IF i < n THEN large ELSE last]
  BY DEF Messages
<1>2. n \in Nat /\ n \in 1 .. MaxFrames
  BY FlowControlAssumption
<1>3. frames \in [1 .. n -> Sizes]
  BY <1>1
<1>4. frames \in Seq(Sizes)
  BY <1>2, <1>3, SeqDef
<1>5. Len(frames) = n
  BY <1>2, <1>3, <1>4, LenProperties
<1> QED BY <1>2, <1>4, <1>5

\* The only timer that expires leaves none.
LEMMA TimerGone ==
    ASSUME IInv, NEW i \in 1 .. Len(timers), timers[i] = 0
    PROVE  /\ RemoveAt(timers, i) = <<>>
           /\ ready = 0
           /\ started
<1>1. Len(timers) = 1 /\ started /\ i = 1
  BY DEF IInv, OneTimer
<1>2. ready <= timers[i] /\ ready \in Nat
  BY DEF IInv, NeverTooBusy, Types
<1>3. SubSeq(timers, 1, i - 1) = <<>> /\ SubSeq(timers, i + 1, Len(timers)) = <<>>
  BY <1>1, SubSeqEmpty
<1>4. <<>> \o <<>> = <<>>
  <2>1. <<>> \in Seq(Nat)
    BY EmptySeq
  <2> QED BY <2>1, ConcatEmptySeq
<1> QED BY <1>1, <1>2, <1>3, <1>4 DEF RemoveAt

\* A frame is written to an idle link: one timer, that outlasts it.
LEMMA WriteKeeps ==
    ASSUME NEW q \in Seq(Sizes), q # <<>>, Write(q, <<>>)
    PROVE  /\ queue' \in Seq(Sizes)
           /\ Len(queue') = Len(q) - 1
           /\ timers' \in Seq(Nat)
           /\ Len(timers') = 1
           /\ ready' \in Nat
           /\ ready' <= timers'[1]
<1>1. Head(q) \in Sizes /\ Tail(q) \in Seq(Sizes) /\ Len(Tail(q)) = Len(q) - 1
  BY HeadTailProperties
<1>2. Head(q) \in Nat \ {0} /\ LINK_DELAY \in Nat \ {0}
  BY <1>1, FlowControlAssumption
<1>3. timeout(Head(q)) \in Nat
  BY <1>2 DEF timeout
<1>4. timers' = <<timeout(Head(q))>>
  BY DEF Write
<1>5. timers' \in Seq(Nat) /\ Len(timers') = 1 /\ timers'[1] = timeout(Head(q))
  BY <1>3, <1>4
<1>6. PICK rounding \in {0, 1} : ready' = Head(q) + rounding
  BY DEF Write
<1>7. ready' \in Nat /\ ready' <= timers'[1]
  BY <1>2, <1>5, <1>6 DEF timeout
<1> QED BY <1>1, <1>5, <1>7 DEF Write

LEMMA Thresholds ==
    /\ QUEUE_MIN_MSGS \in Nat /\ QUEUE_MAX_MSGS \in Nat
    /\ QUEUE_MIN_MSGS < QUEUE_MAX_MSGS
    /\ MaxFrames \in Nat \ {0}
BY FlowControlAssumption

\* Nothing to send, or a frame that is written, leaves the link in order.
LEMMA LinkInOrder ==
    ASSUME started' \in BOOLEAN, queue' \in Seq(Sizes), timers' \in Seq(Nat), ready' \in Nat,
           failed' = FALSE,
           \/ started' /\ Len(timers') = 1 /\ ready' <= timers'[1]
           \/ ~ started' /\ queue' = <<>> /\ timers' = <<>> /\ ready' = 0
    PROVE  OneTimer' /\ NeverTooBusy'
<1>1. CASE started' /\ Len(timers') = 1 /\ ready' <= timers'[1]
  BY <1>1 DEF OneTimer, NeverTooBusy
<1>2. CASE ~ started' /\ queue' = <<>> /\ timers' = <<>> /\ ready' = 0
  BY <1>2 DEF OneTimer, NeverTooBusy
<1> QED BY <1>1, <1>2

\* transmit on an idle link.
LEMMA TransmitKeeps ==
    ASSUME program = "milestone1", program' = program, ~ failed, failed \in BOOLEAN, ready = 0,
           NEW q \in Seq(Sizes), NEW e \in BOOLEAN, transmit(q, <<>>, e),
           Len(q) <= QUEUE_MAX_MSGS + 1,
           e => Len(q) <= QUEUE_MAX_MSGS
    PROVE  IInv'
<1>1. Len(q) \in Nat /\ (q = <<>> <=> Len(q) = 0)
  BY EmptyOrNot
<1>2. CASE q = <<>>
  <2>1. /\ started' = FALSE /\ queue' = <<>> /\ timers' = <<>> /\ enabled' = e
        /\ ready' = 0 /\ failed' = FALSE
    BY <1>2 DEF transmit
  <2>2. Types'
    BY <1>2, <2>1, EmptySeq DEF Types, Programs
  <2>3. OneTimer' /\ NeverTooBusy'
    BY <2>1, <2>2, LinkInOrder DEF Types
  <2>4. QueueBounded'
    <3>1. Len(queue') = 0 /\ program' = "milestone1"
      BY <1>1, <1>2, <2>1
    <3> QED BY <3>1, Thresholds DEF QueueBounded
  <2> QED BY <2>2, <2>3, <2>4 DEF IInv
<1>3. CASE q # <<>>
  <2>1. /\ enabled' = (e \/ Resumes(Len(q)))
        /\ Write(q, <<>>) /\ started' = TRUE /\ failed' = FALSE
    BY <1>3 DEF transmit
  <2>2. /\ queue' \in Seq(Sizes)
        /\ Len(queue') = Len(q) - 1
        /\ timers' \in Seq(Nat)
        /\ Len(timers') = 1
        /\ ready' \in Nat
        /\ ready' <= timers'[1]
    BY <1>3, <2>1, WriteKeeps
  <2>3. Types'
    BY <2>1, <2>2 DEF Types, Programs
  <2>4. OneTimer' /\ NeverTooBusy'
    BY <2>1, <2>2, LinkInOrder
  <2>5. QueueBounded'
    <3>1. program' = "milestone1" /\ Len(queue') <= QUEUE_MAX_MSGS
      BY <1>1, <2>2, Thresholds
    <3> QED BY <1>1, <2>2, <3>1, Thresholds DEF QueueBounded
  <2> QED BY <2>3, <2>4, <2>5 DEF IInv
<1> QED BY <1>2, <1>3

\* transmit_frame on an idle link.
LEMMA TransmitFrameKeeps ==
    ASSUME program = "milestone2", program' = program, ~ failed, failed \in BOOLEAN, ready = 0,
           NEW q \in Seq(Sizes), NEW e \in BOOLEAN, NEW a, transmit_frame(q, <<>>, e, a),
           Len(q) < QUEUE_MAX_MSGS + MaxFrames,
           e => Len(q) < QUEUE_MAX_MSGS
    PROVE  IInv'
<1>1. Len(q) \in Nat /\ (q = <<>> <=> Len(q) = 0)
  BY EmptyOrNot
<1>2. program' = "milestone2" /\ failed' = FALSE
  BY DEF transmit_frame
<1>3. started' = (q # <<>>) /\ enabled' = (e \/ Resumes(Len(queue')))
  BY DEF transmit_frame
<1>4. ASSUME queue' \in Seq(Sizes), Len(queue') <= Len(q)
      PROVE  QueueBounded'
  <2>1. Len(queue') \in Nat
    BY <1>4, EmptyOrNot
  <2>2. enabled' => Len(queue') < QUEUE_MAX_MSGS
    BY <1>1, <1>3, <1>4, <2>1, Thresholds DEF Resumes
  <2>3. Len(queue') < QUEUE_MAX_MSGS + MaxFrames
    BY <1>1, <1>4, <2>1, Thresholds
  <2> QED BY <1>2, <2>2, <2>3 DEF QueueBounded
<1>5. CASE q = <<>>
  <2>1. started' = FALSE /\ queue' = q /\ timers' = <<>> /\ ready' = 0
    BY <1>3, <1>5 DEF transmit_frame
  <2>2. Types'
    BY <1>2, <1>3, <2>1, EmptySeq DEF Types, Programs
  <2>3. OneTimer' /\ NeverTooBusy'
    BY <1>2, <1>5, <2>1, <2>2, LinkInOrder DEF Types
  <2> QED BY <1>1, <1>4, <2>1, <2>2, <2>3 DEF IInv
<1>6. CASE q # <<>>
  <2>1. Write(q, <<>>) /\ started' = TRUE
    BY <1>3, <1>6 DEF transmit_frame
  <2>2. /\ queue' \in Seq(Sizes)
        /\ Len(queue') = Len(q) - 1
        /\ timers' \in Seq(Nat)
        /\ Len(timers') = 1
        /\ ready' \in Nat
        /\ ready' <= timers'[1]
    BY <1>6, <2>1, WriteKeeps
  <2>3. Types'
    BY <1>2, <1>3, <2>1, <2>2 DEF Types, Programs
  <2>4. OneTimer' /\ NeverTooBusy'
    BY <1>2, <2>1, <2>2, LinkInOrder
  <2>5. QueueBounded'
    BY <1>1, <1>4, <2>2
  <2> QED BY <2>3, <2>4, <2>5 DEF IInv
<1> QED BY <1>5, <1>6

-----------------------------------------------------------------------------
(* Each action. *)

LEMMA IdleLink ==
    ASSUME IInv, Idle
    PROVE  ready = 0 /\ timers = <<>> /\ ~ started
<1>1. ~ started
  BY DEF Idle
<1>2. timers \in Seq(Nat) /\ Len(timers) = 0
  BY <1>1 DEF IInv, OneTimer, Types
<1> QED BY <1>1, <1>2, EmptyOrNot DEF IInv, NeverTooBusy

\* A message that waits for the link changes nothing but the queue and enabled.
LEMMA QueuedKeeps ==
    ASSUME IInv, ~ Idle, queue' \in Seq(Sizes), enabled' \in BOOLEAN,
           UNCHANGED <<program, started, timers, ready, failed>>, QueueBounded'
    PROVE  IInv'
BY DEF IInv, Types, Programs, OneTimer, NeverTooBusy, Idle

LEMMA Application1Keeps ==
    ASSUME IInv, NEW size \in Sizes, application_ready1(size)
    PROVE  IInv'
<1> DEFINE q == Append(queue, size)
           e == ~ Stops(Len(queue))
<1>1. /\ program = "milestone1" /\ ~ failed /\ enabled /\ program' = program
      /\ queue \in Seq(Sizes) /\ failed \in BOOLEAN
  BY DEF IInv, Types, application_ready1
<1>2. Len(queue) \in Nat /\ Len(queue) <= QUEUE_MAX_MSGS
  BY <1>1, EmptyOrNot, Thresholds DEF IInv, QueueBounded
<1>3. q \in Seq(Sizes) /\ Len(q) = Len(queue) + 1
  BY <1>1, AppendProperties
<1>4. e \in BOOLEAN /\ (e => Len(q) <= QUEUE_MAX_MSGS) /\ Len(q) <= QUEUE_MAX_MSGS + 1
  BY <1>2, <1>3, Thresholds DEF Stops
<1>5. CASE Idle
  <2>1. transmit(q, <<>>, e)
    BY <1>5, IdleLink DEF application_ready1
  <2> HIDE DEF q, e
  <2> QED BY <1>1, <1>3, <1>4, <1>5, <2>1, IdleLink, TransmitKeeps
<1>6. CASE ~ Idle
  <2>1. queue' = q /\ enabled' = e /\ UNCHANGED <<started, timers, ready, failed>>
    BY <1>6 DEF application_ready1
  <2>2. QueueBounded'
    BY <1>1, <1>2, <1>3, <1>4, <2>1, Thresholds DEF QueueBounded
  <2> HIDE DEF q, e
  <2> QED BY <1>1, <1>3, <1>4, <1>6, <2>1, <2>2, QueuedKeeps
<1> QED BY <1>5, <1>6

LEMMA Application2Keeps ==
    ASSUME IInv, NEW frames \in Messages, application_ready2(frames)
    PROVE  IInv'
<1> DEFINE q == queue \o frames
           e == ~ Stops(Len(q))
           a == remove_load(load)
<1>1. /\ program = "milestone2" /\ enabled /\ program' = program
      /\ queue \in Seq(Sizes) /\ failed \in BOOLEAN /\ ~ failed
  BY DEF IInv, Types, NeverTooBusy, application_ready2
<1>2. Len(queue) \in Nat /\ Len(queue) < QUEUE_MAX_MSGS
  BY <1>1, EmptyOrNot, Thresholds DEF IInv, QueueBounded
<1>3. /\ q \in Seq(Sizes) /\ Len(q) \in Nat
      /\ Len(q) <= Len(queue) + MaxFrames
  <2>1. frames \in Seq(Sizes) /\ Len(frames) \in 1 .. MaxFrames
    BY MessageType
  <2>2. q \in Seq(Sizes) /\ Len(q) = Len(queue) + Len(frames)
    BY <1>1, <2>1, ConcatProperties
  <2> QED BY <1>2, <2>1, <2>2, Thresholds
<1>4. /\ e \in BOOLEAN /\ (e => Len(q) < QUEUE_MAX_MSGS)
      /\ Len(q) < QUEUE_MAX_MSGS + MaxFrames
  BY <1>2, <1>3, Thresholds DEF Stops
<1>5. CASE Idle
  <2>1. transmit_frame(q, <<>>, e, a)
    BY <1>5, IdleLink DEF application_ready2
  <2> HIDE DEF q, e, a
  <2> QED BY <1>1, <1>3, <1>4, <1>5, <2>1, IdleLink, TransmitFrameKeeps
<1>6. CASE ~ Idle
  <2>1. queue' = q /\ enabled' = e /\ UNCHANGED <<started, timers, ready, failed>>
    BY <1>6 DEF application_ready2
  <2>2. QueueBounded'
    BY <1>1, <1>4, <2>1 DEF QueueBounded
  <2> HIDE DEF q, e, a
  <2> QED BY <1>1, <1>3, <1>4, <1>6, <2>1, <2>2, QueuedKeeps
<1> QED BY <1>5, <1>6

LEMMA LinkReadyKeeps ==
    ASSUME IInv, NEW i \in 1 .. Len(timers), link_ready(i)
    PROVE  IInv'
<1>1. /\ RemoveAt(timers, i) = <<>> /\ ready = 0 /\ program' = program
      /\ queue \in Seq(Sizes) /\ enabled \in BOOLEAN /\ failed \in BOOLEAN /\ ~ failed
  BY TimerGone DEF IInv, Types, link_ready
<1>2. Len(queue) \in Nat
  BY <1>1, EmptyOrNot
<1>3. CASE program = "milestone1" /\ transmit(queue, RemoveAt(timers, i), enabled)
  <2>1. Len(queue) <= QUEUE_MAX_MSGS + 1 /\ (enabled => Len(queue) <= QUEUE_MAX_MSGS)
    BY <1>2, <1>3, Thresholds DEF IInv, QueueBounded
  <2>2. transmit(queue, <<>>, enabled)
    BY <1>1, <1>3
  <2> QED BY <1>1, <1>3, <2>1, <2>2, TransmitKeeps
<1>4. CASE program = "milestone2" /\ transmit_frame(queue, RemoveAt(timers, i), enabled, load)
  <2>1. /\ Len(queue) < QUEUE_MAX_MSGS + MaxFrames
        /\ enabled => Len(queue) < QUEUE_MAX_MSGS
    BY <1>4 DEF IInv, QueueBounded
  <2>2. transmit_frame(queue, <<>>, enabled, load)
    BY <1>1, <1>4
  <2> QED BY <1>1, <1>4, <2>1, <2>2, TransmitFrameKeeps
<1> QED BY <1>3, <1>4 DEF link_ready

LEMMA TickKeeps ==
    ASSUME IInv, Tick
    PROVE  IInv'
<1>1. /\ timers \in Seq(Nat) /\ Len(timers) \in Nat
      /\ \A i \in 1 .. Len(timers) : timers[i] \in Nat /\ timers[i] > 0
  BY LenProperties, ElementOfSeq DEF IInv, Types, Tick
<1>2. timers' = [i \in 1 .. Len(timers) |-> timers[i] - 1]
  BY DEF Tick
<1>3. \A i \in 1 .. Len(timers) : timers[i] - 1 \in Nat
  BY <1>1
<1>4. timers' \in [1 .. Len(timers) -> Nat]
  BY <1>2, <1>3
<1>5. timers' \in Seq(Nat)
  BY SMTT(60), <1>1, <1>4, SeqDef
<1>6. Len(timers') = Len(timers)
  BY <1>1, <1>4, <1>5, LenProperties
<1>7. ready \in Nat /\ ready' = IF ready > 0 THEN ready - 1 ELSE 0
  BY DEF IInv, Types, Tick
<1>8. UNCHANGED <<program, queue, started, enabled, failed>>
  BY DEF Tick
<1>9. Types'
  BY <1>5, <1>7, <1>8 DEF IInv, Types, Programs
<1>10. OneTimer'
  BY <1>6, <1>8 DEF IInv, OneTimer
<1>11. NeverTooBusy'
  <2>1. \A i \in 1 .. Len(timers') : ready' <= timers'[i]
    <3> TAKE i \in 1 .. Len(timers')
    <3>1. i \in 1 .. Len(timers) /\ timers'[i] = timers[i] - 1
      BY <1>2, <1>6
    <3>2. timers[i] \in Nat /\ timers[i] > 0 /\ ready <= timers[i]
      BY <1>1, <3>1 DEF IInv, NeverTooBusy
    <3> QED BY <1>7, <3>1, <3>2
  <2> QED BY <1>7, <1>8, <2>1 DEF IInv, NeverTooBusy
<1>12. QueueBounded'
  BY <1>8 DEF IInv, QueueBounded
<1> QED BY <1>9, <1>10, <1>11, <1>12 DEF IInv

-----------------------------------------------------------------------------
(* All steps. *)

LEMMA InitIInv == Init => IInv
<1> SUFFICES ASSUME Init PROVE IInv
  OBVIOUS
<1>1. Types
  BY EmptySeq DEF Init, Types
<1>2. Len(queue) = 0 /\ Len(timers) = 0
  BY EmptySeq DEF Init
<1> QED BY <1>1, <1>2, Thresholds DEF Init, IInv, OneTimer, NeverTooBusy, QueueBounded

LEMMA NextIInv == IInv /\ [Next]_vars => IInv'
<1> SUFFICES ASSUME IInv, [Next]_vars PROVE IInv'
  OBVIOUS
<1>1. CASE UNCHANGED vars
  BY <1>1 DEF vars, IInv, Types, OneTimer, NeverTooBusy, QueueBounded
<1> QED BY <1>1, Application1Keeps, Application2Keeps, LinkReadyKeeps, TickKeeps DEF Next

LEMMA SpecIInv == Spec => []IInv
BY InitIInv, NextIInv, PTL DEF Spec

-----------------------------------------------------------------------------
(***************************************************************************)
(* The account of the load.  Entries are in the order of their age, so     *)
(* that those at the front that are too old are all that are; and the sum  *)
(* of the rest is what is left when the sum of those is subtracted.        *)
(***************************************************************************)

Entry == [age : Nat, size : Nat]

NatLess == OpToRel(<, Nat)

\* A set of natural numbers has a least element.
LEMMA LeastNumber ==
    ASSUME NEW S \in SUBSET Nat, S # {}
    PROVE  \E x \in S : \A y \in S : x <= y
<1>1. IsWellFoundedOn(NatLess, Nat)
  BY NatLessThanWellFounded DEF NatLess
<1>2. PICK x \in S : \A y \in S : ~ (<<y, x>> \in NatLess)
  BY <1>1, WFMin
<1>3. \A y \in S : <<y, x>> \in NatLess <=> y < x
  BY DEF NatLess, OpToRel
<1>4. \A y \in S : ~ (y < x)
  BY <1>2, <1>3
<1> QED BY <1>4

LEMMA EntryIs ==
    ASSUME NEW s \in Seq(Entry), NEW i \in 1 .. Len(s)
    PROVE  s[i] \in Entry /\ s[i].size \in Nat /\ s[i].age \in Nat
<1>1. s[i] \in Entry
  BY ElementOfSeq
<1> QED BY <1>1 DEF Entry

\* f[n] is the sum of the sizes of the first n entries of s, up to m.
Sums(f, s, m) ==
    /\ f \in [0 .. m -> Int]
    /\ f[0] = 0
    /\ \A n \in 1 .. m : f[n] = f[n - 1] + s[n].size

LEMMA SumsExist ==
    ASSUME NEW s \in Seq(Entry)
    PROVE  \A m \in 0 .. Len(s) : \E f : Sums(f, s, m)
<1> DEFINE B == {m \in 0 .. Len(s) : ~ \E f : Sums(f, s, m)}
<1>1. SUFFICES ASSUME B # {} PROVE FALSE
  OBVIOUS
<1>2. PICK m \in B : \A y \in B : m <= y
  <2>1. B \in SUBSET Nat
    OBVIOUS
  <2> HIDE DEF B
  <2> QED BY <1>1, <2>1, LeastNumber
<1>3. m \in 0 .. Len(s) /\ Len(s) \in Nat /\ ~ \E f : Sums(f, s, m)
  BY LenProperties
<1>4. CASE m = 0
  <2>1. Sums([n \in 0 .. 0 |-> 0], s, 0)
    BY DEF Sums
  <2> QED BY <1>3, <1>4, <2>1
<1>5. CASE m # 0
  <2>1. m - 1 \in 0 .. Len(s) /\ m \in 1 .. Len(s) /\ m - 1 \notin B
    BY <1>2, <1>3, <1>5
  <2>2. PICK f : Sums(f, s, m - 1)
    BY <2>1
  <2>3. s[m].size \in Int
    BY <2>1, EntryIs
  <2> DEFINE g == [n \in 0 .. m |-> IF n = m THEN f[m - 1] + s[m].size ELSE f[n]]
  <2>4. f \in [0 .. (m - 1) -> Int] /\ f[0] = 0
        /\ \A n \in 1 .. (m - 1) : f[n] = f[n - 1] + s[n].size
    BY <2>2 DEF Sums
  <2>5. g \in [0 .. m -> Int] /\ g[0] = 0
    BY <2>1, <2>3, <2>4, <1>3, <1>5
  <2>6. ASSUME NEW n \in 1 .. m PROVE g[n] = g[n - 1] + s[n].size
    <3>1. m \in Nat /\ n \in 0 .. m /\ n - 1 \in 0 .. m /\ n - 1 # m
      BY <1>3
    <3>2. g[n - 1] = f[n - 1]
      BY <3>1
    <3>3. CASE n = m
      <4>1. g[n] = f[m - 1] + s[m].size
        BY <3>1, <3>3
      <4> QED BY <3>2, <3>3, <4>1
    <3>4. CASE n # m
      <4>1. n \in 1 .. (m - 1) /\ g[n] = f[n]
        BY <3>1, <3>4
      <4> QED BY <2>4, <3>2, <4>1
    <3> QED BY <3>3, <3>4
  <2>7. Sums(g, s, m)
    <3> HIDE DEF g
    <3> QED BY <2>5, <2>6 DEF Sums
  <2> QED BY <1>3, <2>7
<1> QED BY <1>4, <1>5

LEMMA BitsAre ==
    ASSUME NEW s \in Seq(Entry), NEW f, Sums(f, s, Len(s))
    PROVE  Bits(s) = f[Len(s)] /\ Bits(s) \in Int
<1> DEFINE IsSum(h) == h = [n \in 0 .. Len(s) |-> IF n = 0 THEN 0 ELSE h[n - 1] + s[n].size]
           g == CHOOSE h : IsSum(h)
<1>1. Len(s) \in Nat
  BY LenProperties
<1>2. /\ f \in [0 .. Len(s) -> Int]
      /\ f[0] = 0
      /\ \A n \in 1 .. Len(s) : f[n] = f[n - 1] + s[n].size
  BY DEF Sums
<1>3. IsSum(f)
  <2>1. \A n \in 0 .. Len(s) : f[n] = IF n = 0 THEN 0 ELSE f[n - 1] + s[n].size
    BY SMTT(60), <1>1, <1>2
  <2> QED BY <1>2, <2>1
<1>4. Bits(s) = g[Len(s)]
  BY DEF Bits
<1>5. IsSum(g)
  BY <1>3
<1>6. \A n \in 0 .. Len(s) : g[n] = IF n = 0 THEN 0 ELSE g[n - 1] + s[n].size
  <2> HIDE DEF g
  <2> QED BY <1>5
<1> HIDE DEF g, IsSum
<1> DEFINE B == {n \in 0 .. Len(s) : g[n] # f[n]}
<1>7. B = {}
  <2> SUFFICES ASSUME B # {} PROVE FALSE
    OBVIOUS
  <2>1. PICK n \in B : \A y \in B : n <= y
    <3>1. B \in SUBSET Nat
      BY <1>1
    <3> HIDE DEF B
    <3> QED BY <3>1, LeastNumber
  <2>2. n \in 0 .. Len(s) /\ g[n] # f[n]
    OBVIOUS
  <2>3. n # 0
    BY <1>2, <1>6, <2>2
  <2>4. n - 1 \in 0 .. Len(s) /\ n - 1 \notin B /\ n \in 1 .. Len(s)
    BY <1>1, <2>1, <2>2, <2>3
  <2>5. g[n - 1] = f[n - 1]
    BY <2>4
  <2> HIDE DEF B
  <2> QED BY <1>2, <1>6, <2>2, <2>3, <2>4, <2>5
<1>8. g[Len(s)] = f[Len(s)]
  BY <1>1, <1>7
<1> QED BY <1>1, <1>2, <1>4, <1>8

LEMMA SumsOf ==
    ASSUME NEW s \in Seq(Entry)
    PROVE  \E f : Sums(f, s, Len(s)) /\ Bits(s) = f[Len(s)]
<1>1. Len(s) \in 0 .. Len(s)
  BY LenProperties
<1>2. PICK f : Sums(f, s, Len(s))
  BY <1>1, SumsExist
<1> QED BY <1>2, BitsAre

\* Ages do not count.
LEMMA BitsSame ==
    ASSUME NEW s \in Seq(Entry), NEW t \in Seq(Entry), Len(s) = Len(t),
           \A i \in 1 .. Len(s) : s[i].size = t[i].size
    PROVE  Bits(s) = Bits(t)
<1>1. PICK f : Sums(f, s, Len(s)) /\ Bits(s) = f[Len(s)]
  BY SumsOf
<1>2. Sums(f, t, Len(t))
  BY <1>1 DEF Sums
<1> QED BY <1>1, <1>2, BitsAre

LEMMA BitsAppend ==
    ASSUME NEW s \in Seq(Entry), NEW e \in Entry
    PROVE  Bits(Append(s, e)) = Bits(s) + e.size
<1> DEFINE t == Append(s, e)
<1>1. Len(s) \in Nat /\ e.size \in Int
  BY LenProperties DEF Entry
<1>2. t \in Seq(Entry) /\ Len(t) = Len(s) + 1
      /\ (\A i \in 1 .. Len(s) : t[i] = s[i]) /\ t[Len(s) + 1] = e
  BY AppendProperties
<1>3. PICK f : Sums(f, s, Len(s)) /\ Bits(s) = f[Len(s)]
  BY SumsOf
<1>4. f \in [0 .. Len(s) -> Int] /\ f[0] = 0
      /\ \A n \in 1 .. Len(s) : f[n] = f[n - 1] + s[n].size
  BY <1>3 DEF Sums
<1> HIDE DEF t
<1> DEFINE g == [n \in 0 .. (Len(s) + 1) |->
                   IF n = Len(s) + 1 THEN f[Len(s)] + e.size ELSE f[n]]
<1>5. g \in [0 .. (Len(s) + 1) -> Int] /\ g[0] = 0
  BY SMTT(60), <1>1, <1>4
<1>6. ASSUME NEW n \in 1 .. (Len(s) + 1) PROVE g[n] = g[n - 1] + t[n].size
  <2>1. CASE n = Len(s) + 1
    BY <1>1, <1>2, <2>1
  <2>2. CASE n # Len(s) + 1
    <3>1. n \in 1 .. Len(s)
      BY <1>1, <2>2
    <3> QED BY SMTT(60), <1>1, <1>2, <1>4, <3>1
  <2> QED BY <2>1, <2>2
<1>7. g[Len(s) + 1] = f[Len(s)] + e.size
  BY <1>1
<1> HIDE DEF g
<1>8. Sums(g, t, Len(t))
  BY <1>2, <1>5, <1>6 DEF Sums
<1> QED BY <1>2, <1>3, <1>7, <1>8, BitsAre DEF t

\* A part of a sequence of entries.
LEMMA PartOf ==
    ASSUME NEW s \in Seq(Entry), NEW m \in Nat, NEW n \in Nat, m <= n, n <= Len(s)
    PROVE  /\ SubSeq(s, m + 1, n) \in Seq(Entry)
           /\ Len(SubSeq(s, m + 1, n)) = n - m
           /\ \A i \in 1 .. (n - m) : SubSeq(s, m + 1, n)[i] = s[m + i]
<1>1. Len(s) \in Nat
  BY LenProperties
<1>2. m + 1 \in Int /\ n \in Int /\ n - (m + 1) + 1 = n - m
      /\ \A i \in Int : (m + 1) + i - 1 = m + i
  OBVIOUS
<1>3. \A i \in (m + 1) .. n : s[i] \in Entry
  <2> TAKE i \in (m + 1) .. n
  <2>1. i \in 1 .. Len(s)
    BY <1>1
  <2> QED BY <2>1, ElementOfSeq
<1> HIDE DEF Entry
<1>4. /\ SubSeq(s, m + 1, n) \in Seq(Entry)
      /\ Len(SubSeq(s, m + 1, n)) = IF m + 1 <= n THEN n - (m + 1) + 1 ELSE 0
      /\ \A i \in 1 .. (n - (m + 1) + 1) : SubSeq(s, m + 1, n)[i] = s[(m + 1) + i - 1]
  BY <1>2, <1>3, SubSeqProperties
<1> QED BY <1>2, <1>4

LEMMA BitsSplit ==
    ASSUME NEW s \in Seq(Entry), NEW n \in 0 .. Len(s)
    PROVE  Bits(SubSeq(s, n + 1, Len(s))) = Bits(s) - Bits(SubSeq(s, 1, n))
<1> DEFINE t == SubSeq(s, 1, n)
           u == SubSeq(s, n + 1, Len(s))
<1>1. Len(s) \in Nat /\ n \in Nat /\ n <= Len(s) /\ 0 + 1 = 1 /\ n - 0 = n
      /\ \A i \in Int : 0 + i = i
  BY LenProperties
<1>2. t \in Seq(Entry) /\ Len(t) = n /\ \A i \in 1 .. n : t[i] = s[i]
  <2>1. /\ SubSeq(s, 0 + 1, n) \in Seq(Entry)
        /\ Len(SubSeq(s, 0 + 1, n)) = n - 0
        /\ \A i \in 1 .. (n - 0) : SubSeq(s, 0 + 1, n)[i] = s[0 + i]
    BY <1>1, PartOf
  <2> QED BY <1>1, <2>1
<1>3. u \in Seq(Entry) /\ Len(u) = Len(s) - n /\ \A i \in 1 .. (Len(s) - n) : u[i] = s[n + i]
  BY <1>1, PartOf
<1>4. PICK f : Sums(f, s, Len(s)) /\ Bits(s) = f[Len(s)]
  BY SumsOf
<1>5. f \in [0 .. Len(s) -> Int] /\ f[0] = 0
      /\ \A k \in 1 .. Len(s) : f[k] = f[k - 1] + s[k].size
  BY <1>4 DEF Sums
<1> HIDE DEF t, u
<1> DEFINE g == [k \in 0 .. n |-> f[k]]
           h == [k \in 0 .. (Len(s) - n) |-> f[n + k] - f[n]]
<1>6. g \in [0 .. n -> Int] /\ g[0] = 0 /\ g[n] = f[n]
      /\ \A k \in 1 .. n : g[k] = g[k - 1] + t[k].size
  <2>1. \A k \in 0 .. n : k \in 0 .. Len(s) /\ g[k] = f[k]
    BY <1>1
  <2>2. g \in [0 .. n -> Int] /\ g[0] = 0 /\ g[n] = f[n]
    BY SMTT(60), <1>1, <1>5, <2>1
  <2>3. ASSUME NEW k \in 1 .. n PROVE g[k] = g[k - 1] + t[k].size
    <3>1. k \in 1 .. Len(s) /\ k \in 0 .. n /\ k - 1 \in 0 .. n
      BY <1>1
    <3>2. g[k] = f[k] /\ g[k - 1] = f[k - 1]
      BY <2>1, <3>1
    <3> QED BY <1>2, <1>5, <3>1, <3>2
  <2> QED BY <2>2, <2>3
<1>7. h \in [0 .. (Len(s) - n) -> Int] /\ h[0] = 0 /\ h[Len(s) - n] = f[Len(s)] - f[n]
  BY SMTT(60), <1>1, <1>5
<1>8. ASSUME NEW k \in 1 .. (Len(s) - n) PROVE h[k] = h[k - 1] + u[k].size
  <2>1. n + k \in 1 .. Len(s) /\ (n + k) - 1 = n + (k - 1) /\ k - 1 \in 0 .. (Len(s) - n)
        /\ k \in 0 .. (Len(s) - n) /\ n \in 0 .. Len(s) /\ n + (k - 1) \in 0 .. Len(s)
    BY <1>1
  <2>2. f[n + k] = f[n + (k - 1)] + u[k].size
    BY <1>3, <1>5, <2>1
  <2>3. h[k] = f[n + k] - f[n] /\ h[k - 1] = f[n + (k - 1)] - f[n]
    BY <2>1
  <2>4. f[n] \in Int /\ f[n + k] \in Int /\ f[n + (k - 1)] \in Int
    BY SMTT(60), <1>5, <2>1
  <2>5. s[n + k].size \in Int
    BY <2>1, EntryIs
  <2>6. u[k].size \in Int
    BY <1>3, <2>5
  <2> HIDE DEF h
  <2> QED BY ONLY SMTT(60), <2>2, <2>3, <2>4, <2>6
<1> HIDE DEF g, h
<1>9. Sums(g, t, Len(t)) /\ Sums(h, u, Len(u))
  BY <1>2, <1>3, <1>6, <1>7, <1>8 DEF Sums
<1>10. Bits(t) = f[n] /\ Bits(u) = f[Len(s)] - f[n]
  BY ZenonT(60), <1>2, <1>3, <1>6, <1>7, <1>9, BitsAre
<1>11. f[n] \in Int /\ f[Len(s)] \in Int
  BY SMTT(60), <1>1, <1>5
<1> QED BY <1>4, <1>10, <1>11 DEF t, u

-----------------------------------------------------------------------------
(* What is too old. *)

\* The oldest entries come first.
OldestFirst(s) ==
    \A i, j \in 1 .. Len(s) : i <= j => s[j].age <= s[i].age

\* The first n entries of s are too old, the others are not.
OldUpTo(s, n) ==
    /\ n \in 0 .. Len(s)
    /\ \A i \in 1 .. Len(s) : IsOld(s[i]) <=> i <= n

LEMMA OutdatedIs ==
    ASSUME NEW s \in Seq(Entry)
    PROVE  /\ Outdated(s) \in 0 .. Len(s)
           /\ \A i \in 1 .. Outdated(s) : IsOld(s[i])
           /\ Outdated(s) < Len(s) => ~ IsOld(s[Outdated(s) + 1])
<1> DEFINE P(n) == /\ \A i \in 1 .. n : IsOld(s[i])
                   /\ n < Len(s) => ~ IsOld(s[n + 1])
           C == {n \in 0 .. Len(s) : n < Len(s) => ~ IsOld(s[n + 1])}
<1>1. Len(s) \in Nat
  BY LenProperties
<1>2. C \in SUBSET Nat /\ Len(s) \in C
  BY <1>1
<1>3. PICK n \in C : \A y \in C : n <= y
  <2> HIDE DEF C
  <2> QED BY <1>2, LeastNumber
<1>4. P(n)
  <2>1. ASSUME NEW i \in 1 .. n, ~ IsOld(s[i]) PROVE FALSE
    <3>1. i - 1 \in 0 .. Len(s) /\ (i - 1) + 1 = i /\ i - 1 < n
      BY <1>1
    <3>2. i - 1 \in C
      BY <2>1, <3>1
    <3>3. n <= i - 1
      <4> HIDE DEF C
      <4> QED BY <1>3, <3>2
    <3>4. n \in Nat /\ i \in Nat
      BY <1>1
    <3> QED BY <3>1, <3>3, <3>4
  <2> QED BY <2>1
<1>5. n \in 0 .. Len(s)
  OBVIOUS
<1>6. Outdated(s) = CHOOSE m \in 0 .. Len(s) : P(m)
  BY DEF Outdated
<1> HIDE DEF P
<1>7. Outdated(s) \in 0 .. Len(s) /\ P(Outdated(s))
  BY <1>4, <1>5, <1>6
<1> QED BY <1>7 DEF P

\* In the order of age, the loop of remove_load removes all that is too old.
LEMMA OutdatedIsAll ==
    ASSUME NEW s \in Seq(Entry), OldestFirst(s)
    PROVE  OldUpTo(s, Outdated(s))
<1> DEFINE n == Outdated(s)
<1>1. /\ n \in 0 .. Len(s) /\ Len(s) \in Nat
      /\ \A i \in 1 .. n : IsOld(s[i])
      /\ n < Len(s) => ~ IsOld(s[n + 1])
  BY OutdatedIs, LenProperties
<1> HIDE DEF n
<1>2. ASSUME NEW i \in 1 .. Len(s), ~ (i <= n) PROVE ~ IsOld(s[i])
  <2>1. n + 1 \in 1 .. Len(s) /\ n + 1 <= i /\ n < Len(s)
    BY <1>1, <1>2
  <2>2. s[i].age <= s[n + 1].age
    BY <2>1 DEF OldestFirst
  <2>3. s[i].age \in Nat /\ s[n + 1].age \in Nat /\ INTERVALL_CALCULATE_LOAD \in Nat
    BY <2>1, EntryIs, FlowControlAssumption
  <2>4. ~ IsOld(s[n + 1])
    BY <1>1, <2>1
  <2> QED BY <2>2, <2>3, <2>4 DEF IsOld
<1>3. ASSUME NEW i \in 1 .. Len(s), i <= n PROVE IsOld(s[i])
  BY <1>1, <1>3
<1>4. OldUpTo(s, n)
  BY <1>1, <1>2, <1>3 DEF OldUpTo
<1> QED BY <1>4 DEF n

LEMMA OldUpToUnique ==
    ASSUME NEW s \in Seq(Entry), NEW m, NEW n, OldUpTo(s, m), OldUpTo(s, n)
    PROVE  m = n
<1>1. Len(s) \in Nat /\ m \in 0 .. Len(s) /\ n \in 0 .. Len(s)
  BY LenProperties DEF OldUpTo
<1>2. \A i \in 1 .. Len(s) : i <= m <=> i <= n
  BY DEF OldUpTo
<1>3. CASE m < n
  <2>1. n \in 1 .. Len(s)
    BY <1>1, <1>3
  <2> QED BY <1>1, <1>2, <1>3, <2>1
<1>4. CASE n < m
  <2>1. m \in 1 .. Len(s)
    BY <1>1, <1>4
  <2> QED BY <1>1, <1>2, <1>4, <2>1
<1> QED BY <1>1, <1>3, <1>4

\* The account a is that of what was sent within the interval.
Account(a, sent) ==
    /\ a \in [frameSizeCounter : Seq(Entry), sendBits : Int]
    /\ OldestFirst(a.frameSizeCounter)
    /\ a.sendBits = Bits(a.frameSizeCounter)
    /\ sent = UpToDate(a.frameSizeCounter)

\* What is left of entries in the order of age.
LEMMA UpToDateIs ==
    ASSUME NEW s \in Seq(Entry), OldestFirst(s)
    PROVE  /\ UpToDate(s) \in Seq(Entry)
           /\ Len(UpToDate(s)) = Len(s) - Outdated(s)
           /\ \A i \in 1 .. (Len(s) - Outdated(s)) : UpToDate(s)[i] = s[Outdated(s) + i]
           /\ OldestFirst(UpToDate(s))
           /\ OldUpTo(UpToDate(s), 0)
           /\ UpToDate(UpToDate(s)) = UpToDate(s)
<1> DEFINE n == Outdated(s)
           t == UpToDate(s)
<1>1. OldUpTo(s, n)
  BY OutdatedIsAll
<1>2. n \in Nat /\ Len(s) \in Nat /\ n <= Len(s) /\ Len(s) <= Len(s)
  BY <1>1, LenProperties DEF OldUpTo
<1>3. t \in Seq(Entry) /\ Len(t) = Len(s) - n /\ \A i \in 1 .. (Len(s) - n) : t[i] = s[n + i]
  <2>1. t = SubSeq(s, n + 1, Len(s))
    BY DEF UpToDate
  <2> HIDE DEF n, t
  <2> QED BY <1>2, <2>1, PartOf
<1> HIDE DEF n, t
<1>4. \A i \in 1 .. Len(t) : n + i \in 1 .. Len(s) /\ ~ (n + i <= n)
  BY <1>2, <1>3
<1>5. OldestFirst(t)
  <2> SUFFICES ASSUME NEW i \in 1 .. Len(t), NEW j \in 1 .. Len(t), i <= j
               PROVE  t[j].age <= t[i].age
    BY DEF OldestFirst
  <2>1. n + i \in 1 .. Len(s) /\ n + j \in 1 .. Len(s) /\ n + i <= n + j
    BY <1>2, <1>4
  <2>2. t[i] = s[n + i] /\ t[j] = s[n + j]
    BY <1>3
  <2> QED BY <2>1, <2>2 DEF OldestFirst
<1>6. OldUpTo(t, 0)
  <2>1. \A i \in 1 .. Len(t) : ~ IsOld(t[i]) /\ ~ (i <= 0)
    BY <1>1, <1>3, <1>4 DEF OldUpTo
  <2> QED BY <1>2, <1>3, <2>1 DEF OldUpTo
<1>7. UpToDate(t) = t
  <2>1. Outdated(t) = 0
    BY <1>3, <1>5, <1>6, OutdatedIsAll, OldUpToUnique
  <2>2. UpToDate(t) = SubSeq(t, 1, Len(t))
    BY <2>1 DEF UpToDate
  <2> QED BY <1>3, <2>2, SubSeqFull
<1> QED BY <1>3, <1>5, <1>6, <1>7 DEF n, t

LEMMA RemoveKeeps ==
    ASSUME NEW a, NEW sent, Account(a, sent)
    PROVE  Account(remove_load(a), sent)
<1> DEFINE s == a.frameSizeCounter
           n == Outdated(s)
<1>1. s \in Seq(Entry) /\ OldestFirst(s) /\ a.sendBits = Bits(s) /\ a.sendBits \in Int
      /\ sent = UpToDate(s)
  BY DEF Account
<1>2. n \in 0 .. Len(s)
  BY <1>1, OutdatedIs
<1>3. remove_load(a) = [frameSizeCounter |-> UpToDate(s), sendBits |-> a.sendBits - Bits(SubSeq(s, 1, n))]
  BY DEF remove_load
<1> HIDE DEF s, n
<1>4. a.sendBits - Bits(SubSeq(s, 1, n)) = Bits(SubSeq(s, n + 1, Len(s)))
  BY <1>1, <1>2, BitsSplit
<1>5. UpToDate(s) = SubSeq(s, n + 1, Len(s))
  BY DEF UpToDate, n
<1>6. remove_load(a) = [frameSizeCounter |-> UpToDate(s), sendBits |-> Bits(UpToDate(s))]
  BY <1>3, <1>4, <1>5
<1>7. UpToDate(s) \in Seq(Entry) /\ OldestFirst(UpToDate(s)) /\ UpToDate(UpToDate(s)) = UpToDate(s)
  BY <1>1, UpToDateIs
<1>8. Bits(UpToDate(s)) \in Int
  BY <1>7, SumsOf, BitsAre
<1> QED BY <1>1, <1>6, <1>7, <1>8 DEF Account

LEMMA AddKeeps ==
    ASSUME NEW a, NEW sent, Account(a, sent), NEW size \in Sizes
    PROVE  Account(add_load(a, size), Append(sent, [age |-> 0, size |-> size]))
<1> DEFINE s == a.frameSizeCounter
           e == [age |-> 0, size |-> size]
           t == Append(s, e)
           n == Outdated(s)
           b == [frameSizeCounter |-> t, sendBits |-> a.sendBits + size]
<1>1. s \in Seq(Entry) /\ OldestFirst(s) /\ a.sendBits = Bits(s) /\ a.sendBits \in Int
      /\ sent = UpToDate(s)
  BY DEF Account
<1>2. size \in Nat /\ INTERVALL_CALCULATE_LOAD \in Nat \ {0}
  BY FlowControlAssumption
<1>3. e \in Entry /\ e.age = 0 /\ e.size = size /\ ~ IsOld(e)
  BY <1>2 DEF Entry, IsOld
<1>4. add_load(a, size) = remove_load(b)
  BY DEF add_load
<1> HIDE DEF s, e
<1>5. /\ t \in Seq(Entry) /\ Len(t) = Len(s) + 1 /\ Len(s) \in Nat
      /\ (\A i \in 1 .. Len(s) : t[i] = s[i]) /\ t[Len(s) + 1] = e
  BY <1>1, <1>3, AppendProperties, LenProperties
<1>6. Bits(t) = a.sendBits + size
  BY <1>1, <1>3, BitsAppend
<1> HIDE DEF t
<1>7. OldestFirst(t)
  <2> SUFFICES ASSUME NEW i \in 1 .. Len(t), NEW j \in 1 .. Len(t), i <= j
               PROVE  t[j].age <= t[i].age
    BY DEF OldestFirst
  <2>1. CASE j <= Len(s)
    <3>1. i \in 1 .. Len(s) /\ j \in 1 .. Len(s)
      BY <1>5, <2>1
    <3> QED BY <1>1, <1>5, <3>1 DEF OldestFirst
  <2>2. CASE ~ (j <= Len(s))
    <3>1. j = Len(s) + 1
      BY <1>5, <2>2
    <3>2. t[i].age \in Nat
      BY <1>5, EntryIs
    <3> QED BY <1>3, <1>5, <3>1, <3>2
  <2> QED BY <2>1, <2>2
<1>8. OldUpTo(s, n)
  BY <1>1, OutdatedIsAll
<1>9. n \in Nat /\ n <= Len(s) /\ n \in 0 .. Len(t)
  BY <1>5, <1>8 DEF OldUpTo
<1>10. Outdated(t) = n
  <2>1. ASSUME NEW i \in 1 .. Len(t) PROVE IsOld(t[i]) <=> i <= n
    <3>1. CASE i <= Len(s)
      <4>1. i \in 1 .. Len(s)
        BY <1>5, <3>1
      <4> QED BY <1>5, <1>8, <4>1 DEF OldUpTo
    <3>2. CASE ~ (i <= Len(s))
      <4>1. i = Len(s) + 1 /\ ~ (i <= n)
        BY <1>5, <1>9, <3>2
      <4> QED BY <1>3, <1>5, <4>1
    <3> QED BY <3>1, <3>2
  <2>2. OldUpTo(t, n)
    BY <1>9, <2>1 DEF OldUpTo
  <2> QED BY <1>5, <1>7, <2>2, OutdatedIsAll, OldUpToUnique
<1>11. UpToDate(t) = Append(sent, e)
  <2>1. /\ UpToDate(s) \in Seq(Entry)
        /\ Len(UpToDate(s)) = Len(s) - n
        /\ \A i \in 1 .. (Len(s) - n) : UpToDate(s)[i] = s[n + i]
    BY <1>1, UpToDateIs
  <2>2. /\ UpToDate(t) \in Seq(Entry)
        /\ Len(UpToDate(t)) = Len(t) - n
        /\ \A i \in 1 .. (Len(t) - n) : UpToDate(t)[i] = t[n + i]
    BY <1>5, <1>7, <1>10, UpToDateIs
  <2>3. /\ Append(sent, e) \in Seq(Entry)
        /\ Len(Append(sent, e)) = Len(sent) + 1
        /\ \A i \in 1 .. Len(sent) : Append(sent, e)[i] = sent[i]
        /\ Append(sent, e)[Len(sent) + 1] = e
    BY <1>1, <1>3, <2>1, AppendProperties
  <2>4. Len(UpToDate(t)) = Len(Append(sent, e))
    BY <1>1, <1>5, <1>9, <2>1, <2>2, <2>3
  <2>5. ASSUME NEW i \in 1 .. Len(UpToDate(t)) PROVE UpToDate(t)[i] = Append(sent, e)[i]
    <3>1. i \in 1 .. (Len(t) - n) /\ UpToDate(t)[i] = t[n + i]
      BY <2>2
    <3>2. CASE i <= Len(s) - n
      <4>1. i \in 1 .. Len(sent) /\ i \in 1 .. (Len(s) - n) /\ n + i \in 1 .. Len(s)
        BY <1>1, <1>5, <1>9, <2>1, <3>1, <3>2
      <4> QED BY <1>1, <1>5, <2>1, <2>3, <3>1, <4>1
    <3>3. CASE ~ (i <= Len(s) - n)
      <4>1. i = Len(sent) + 1 /\ n + i = Len(s) + 1
        BY <1>1, <1>5, <1>9, <2>1, <3>1, <3>3
      <4> QED BY <1>5, <2>3, <3>1, <4>1
    <3> QED BY <3>2, <3>3
  <2> QED BY <2>2, <2>3, <2>4, <2>5, SeqEqual
<1>12. b \in [frameSizeCounter : Seq(Entry), sendBits : Int]
  BY <1>1, <1>2, <1>5
<1>13. Account(b, Append(sent, e))
  <2>1. b.frameSizeCounter = t /\ b.sendBits = a.sendBits + size
    OBVIOUS
  <2> HIDE DEF b
  <2> QED BY <1>6, <1>7, <1>11, <1>12, <2>1 DEF Account
<1> QED BY <1>4, <1>13, RemoveKeeps DEF e

\* Entries become older together.
LEMMA AllOlder ==
    ASSUME NEW s \in Seq(Entry), OldestFirst(s), NEW t, t = [i \in 1 .. Len(s) |-> Older(s[i])]
    PROVE  /\ t \in Seq(Entry)
           /\ Len(t) = Len(s)
           /\ \A i \in 1 .. Len(s) : t[i].size = s[i].size /\ (IsOld(s[i]) => IsOld(t[i]))
           /\ OldestFirst(t)
<1>1. Len(s) \in Nat /\ INTERVALL_CALCULATE_LOAD \in Nat
  BY LenProperties, FlowControlAssumption
<1>2. ASSUME NEW i \in 1 .. Len(s)
      PROVE  /\ t[i] \in Entry /\ t[i].size = s[i].size
             /\ t[i].age = IF s[i].age > INTERVALL_CALCULATE_LOAD THEN s[i].age ELSE s[i].age + 1
  <2>1. s[i] \in Entry /\ s[i].age \in Nat /\ s[i].size \in Nat
    BY EntryIs
  <2>2. t[i] = [s[i] EXCEPT !.age = IF s[i].age > INTERVALL_CALCULATE_LOAD
                                    THEN s[i].age ELSE s[i].age + 1]
    BY DEF Older, IsOld
  <2> QED BY <2>1, <2>2 DEF Entry
<1>3. t \in [1 .. Len(s) -> Entry]
  BY <1>2
<1>4. t \in Seq(Entry)
  BY <1>1, <1>3, SeqDef
<1>5. Len(t) = Len(s)
  BY <1>1, <1>3, <1>4, LenProperties
<1>6. OldestFirst(t)
  <2> SUFFICES ASSUME NEW i \in 1 .. Len(s), NEW j \in 1 .. Len(s), i <= j
               PROVE  t[j].age <= t[i].age
    BY <1>5 DEF OldestFirst
  <2>1. s[j].age <= s[i].age /\ s[j].age \in Nat /\ s[i].age \in Nat
    BY EntryIs DEF OldestFirst
  <2> QED BY <1>1, <1>2, <2>1
<1>7. ASSUME NEW i \in 1 .. Len(s), IsOld(s[i]) PROVE IsOld(t[i])
  BY <1>2, <1>7 DEF IsOld
<1> QED BY <1>2, <1>4, <1>5, <1>6, <1>7

LEMMA TimePasses ==
    ASSUME NEW a, NEW sent, Account(a, sent)
    PROVE  Account([a EXCEPT !.frameSizeCounter = [i \in 1 .. Len(@) |-> Older(@[i])]],
                   UpToDate([i \in 1 .. Len(sent) |-> Older(sent[i])]))
<1> DEFINE s == a.frameSizeCounter
           n == Outdated(s)
           t == [i \in 1 .. Len(s) |-> Older(s[i])]
           u == [i \in 1 .. Len(sent) |-> Older(sent[i])]
           b == [a EXCEPT !.frameSizeCounter = t]
<1>1. s \in Seq(Entry) /\ OldestFirst(s) /\ a.sendBits = Bits(s) /\ a.sendBits \in Int
      /\ sent = UpToDate(s) /\ a \in [frameSizeCounter : Seq(Entry), sendBits : Int]
  BY DEF Account
<1> HIDE DEF s
<1>2. /\ sent \in Seq(Entry) /\ Len(sent) = Len(s) - n /\ OldestFirst(sent)
      /\ \A i \in 1 .. (Len(s) - n) : sent[i] = s[n + i]
  BY <1>1, UpToDateIs
<1>3. OldUpTo(s, n) /\ Len(s) \in Nat /\ n \in Nat /\ n <= Len(s)
  BY <1>1, OutdatedIsAll, LenProperties DEF OldUpTo
<1>4. /\ t \in Seq(Entry) /\ Len(t) = Len(s) /\ OldestFirst(t)
      /\ \A i \in 1 .. Len(s) : t[i].size = s[i].size /\ (IsOld(s[i]) => IsOld(t[i]))
  BY <1>1, AllOlder
<1>5. u \in Seq(Entry) /\ Len(u) = Len(s) - n /\ OldestFirst(u)
  BY <1>2, AllOlder
<1>6. \A i \in 1 .. (Len(s) - n) : u[i] = t[n + i]
  <2> TAKE i \in 1 .. (Len(s) - n)
  <2>1. i \in 1 .. Len(sent) /\ n + i \in 1 .. Len(s) /\ sent[i] = s[n + i]
    BY <1>2, <1>3
  <2> QED BY <2>1
<1>7. Bits(t) = a.sendBits
  BY <1>1, <1>4, BitsSame
<1>8. b.frameSizeCounter = t /\ b.sendBits = a.sendBits
      /\ b \in [frameSizeCounter : Seq(Entry), sendBits : Int]
  <2> HIDE DEF t
  <2> QED BY <1>1, <1>4
<1> HIDE DEF t, u
<1> DEFINE m == Outdated(u)
<1>9. OldUpTo(u, m) /\ m \in Nat /\ m <= Len(s) - n
  BY <1>5, OutdatedIsAll DEF OldUpTo
<1>10. Outdated(t) = n + m
  <2>1. n + m \in 0 .. Len(t)
    BY <1>3, <1>4, <1>9
  <2>2. ASSUME NEW i \in 1 .. Len(t) PROVE IsOld(t[i]) <=> i <= n + m
    <3>1. CASE i <= n
      <4>1. i \in 1 .. Len(s) /\ i <= n + m
        BY <1>3, <1>4, <1>9, <3>1
      <4> QED BY <1>3, <1>4, <3>1, <4>1 DEF OldUpTo
    <3>2. CASE ~ (i <= n)
      <4>1. i - n \in 1 .. (Len(s) - n) /\ n + (i - n) = i /\ (i - n <= m <=> i <= n + m)
        BY <1>3, <1>4, <1>9, <3>2
      <4>2. t[i] = u[i - n]
        BY <1>6, <4>1
      <4> QED BY <1>5, <1>9, <4>1, <4>2 DEF OldUpTo
    <3> QED BY <3>1, <3>2
  <2>3. OldUpTo(t, n + m)
    BY <2>1, <2>2 DEF OldUpTo
  <2> QED BY <1>4, <2>3, OutdatedIsAll, OldUpToUnique
<1>11. UpToDate(u) = UpToDate(t)
  <2>1. /\ UpToDate(u) \in Seq(Entry) /\ Len(UpToDate(u)) = Len(u) - m
        /\ \A i \in 1 .. (Len(u) - m) : UpToDate(u)[i] = u[m + i]
    BY <1>5, UpToDateIs
  <2>2. /\ UpToDate(t) \in Seq(Entry) /\ Len(UpToDate(t)) = Len(t) - (n + m)
        /\ \A i \in 1 .. (Len(t) - (n + m)) : UpToDate(t)[i] = t[(n + m) + i]
    BY <1>4, <1>10, UpToDateIs
  <2>3. Len(UpToDate(u)) = Len(UpToDate(t))
    BY <1>3, <1>4, <1>5, <1>9, <2>1, <2>2
  <2>4. ASSUME NEW i \in 1 .. Len(UpToDate(u)) PROVE UpToDate(u)[i] = UpToDate(t)[i]
    <3>1. /\ i \in 1 .. (Len(u) - m) /\ i \in 1 .. (Len(t) - (n + m))
          /\ m + i \in 1 .. (Len(s) - n) /\ n + (m + i) = (n + m) + i
      BY SMTT(60), <1>3, <1>4, <1>5, <1>9, <2>1, <2>2, <2>3
    <3> QED BY <1>6, <2>1, <2>2, <3>1
  <2> QED BY <2>1, <2>2, <2>3, <2>4, SeqEqual
<1>12. Account(b, UpToDate(u))
  <2> HIDE DEF b
  <2> QED BY <1>4, <1>7, <1>8, <1>11 DEF Account
<1> QED BY <1>12 DEF s, t, u

LoadInv == Account(load, sentLately)

LEMMA TransmitFrameAccounts ==
    ASSUME NEW q \in Seq(Sizes), NEW t, NEW e, NEW a, Account(a, sentLately),
           transmit_frame(q, t, e, a)
    PROVE  LoadInv'
<1>1. CASE q # <<>> /\ ready = 0
  <2>1. Head(q) \in Sizes
    BY <1>1, HeadTailProperties
  <2>2. /\ load' = add_load(a, Head(q))
        /\ sentLately' = Append(sentLately, [age |-> 0, size |-> Head(q)])
    BY <1>1 DEF transmit_frame
  <2>3. Account(add_load(a, Head(q)), Append(sentLately, [age |-> 0, size |-> Head(q)]))
    BY <2>1, AddKeeps
  <2> QED BY <2>2, <2>3 DEF LoadInv
<1>2. CASE ~ (q # <<>> /\ ready = 0)
  <2>1. load' = a /\ sentLately' = sentLately
    BY <1>2 DEF transmit_frame
  <2> QED BY <2>1 DEF LoadInv
<1> QED BY <1>1, <1>2

LEMMA NextLoadInv ==
    ASSUME IInv, LoadInv, [Next]_vars
    PROVE  LoadInv'
<1>1. CASE UNCHANGED <<load, sentLately>>
  BY <1>1 DEF LoadInv
<1>2. ASSUME NEW size \in Sizes, application_ready1(size) PROVE LoadInv'
  BY <1>1, <1>2 DEF application_ready1, transmit
<1>3. ASSUME NEW frames \in Messages, application_ready2(frames) PROVE LoadInv'
  <2>1. queue \o frames \in Seq(Sizes)
    BY MessageType, ConcatProperties DEF IInv, Types
  <2>2. Account(remove_load(load), sentLately)
    BY RemoveKeeps DEF LoadInv
  <2>3. CASE Idle
    <3>1. transmit_frame(queue \o frames, timers, ~ Stops(Len(queue \o frames)), remove_load(load))
      BY <1>3, <2>3 DEF application_ready2
    <3> QED BY <2>1, <2>2, <3>1, TransmitFrameAccounts
  <2>4. CASE ~ Idle
    <3>1. load' = remove_load(load) /\ sentLately' = sentLately
      BY <1>3, <2>4 DEF application_ready2
    <3> QED BY <2>2, <3>1 DEF LoadInv
  <2> QED BY <2>3, <2>4
<1>4. ASSUME NEW i \in 1 .. Len(timers), link_ready(i) PROVE LoadInv'
  <2>1. CASE transmit(queue, RemoveAt(timers, i), enabled)
    BY <1>1, <2>1 DEF transmit
  <2>2. CASE transmit_frame(queue, RemoveAt(timers, i), enabled, load)
    <3>1. queue \in Seq(Sizes) /\ Account(load, sentLately)
      BY DEF IInv, Types, LoadInv
    <3> QED BY <2>2, <3>1, TransmitFrameAccounts
  <2> QED BY <1>4, <2>1, <2>2 DEF link_ready
<1>5. CASE Tick
  <2>1. /\ load' = [load EXCEPT !.frameSizeCounter = [i \in 1 .. Len(@) |-> Older(@[i])]]
        /\ sentLately' = UpToDate([i \in 1 .. Len(sentLately) |-> Older(sentLately[i])])
    BY <1>5 DEF Tick
  <2> QED BY <2>1, TimePasses DEF LoadInv
<1> QED BY <1>1, <1>2, <1>3, <1>4, <1>5 DEF Next, vars

LEMMA InitLoadInv == Init => LoadInv
<1> SUFFICES ASSUME Init PROVE LoadInv
  OBVIOUS
<1>1. /\ load = [frameSizeCounter |-> <<>>, sendBits |-> 0] /\ sentLately = <<>>
      /\ <<>> \in Seq(Entry) /\ Len(<<>>) = 0
  BY EmptySeq DEF Init
<1>2. OldestFirst(<<>>)
  BY <1>1 DEF OldestFirst
<1>3. Bits(<<>>) = 0
  <2>1. PICK f : Sums(f, <<>>, 0) /\ Bits(<<>>) = f[0]
    BY <1>1, SumsOf
  <2> QED BY <2>1 DEF Sums
<1>4. UpToDate(<<>>) = <<>>
  <2>1. Len(UpToDate(<<>>)) = 0 - Outdated(<<>>) /\ UpToDate(<<>>) \in Seq(Entry)
    BY <1>1, <1>2, UpToDateIs
  <2>2. Outdated(<<>>) \in 0 .. Len(<<>>)
    BY <1>1, OutdatedIs
  <2>3. Outdated(<<>>) = 0
    BY <1>1, <2>2
  <2> QED BY <2>1, <2>3, EmptySeq
<1> QED BY <1>1, <1>2, <1>3, <1>4 DEF LoadInv, Account

\* The account of link.c is right at every moment.
LEMMA LoadInvHolds == Spec => []LoadInv
<1>1. IInv /\ LoadInv /\ [Next]_vars => LoadInv'
  BY NextLoadInv
<1> QED BY <1>1, InitLoadInv, SpecIInv, PTL DEF Spec

-----------------------------------------------------------------------------
(* The theorems. *)

\* Exactly one timer is pending while frames are sent (timer_started, busy).
THEOREM TimerUnique == Spec => []OneTimer
<1>1. IInv => OneTimer
  BY DEF IInv
<1> QED BY <1>1, SpecIInv, PTL

\* No frame is written to a busy link, whatever the sizes: the CHECK of
\* milestone1.c on CNET_write_physical never fails.
THEOREM WritesWhenReady == Spec => []NeverTooBusy
<1>1. IInv => NeverTooBusy
  BY DEF IInv
<1> QED BY <1>1, SpecIInv, PTL

\* The output queue is bounded by the thresholds at which the application is
\* stopped and enabled.
THEOREM QueueStaysBounded == Spec => []QueueBounded
<1>1. IInv => QueueBounded
  BY DEF IInv
<1> QED BY <1>1, SpecIInv, PTL

\* remove_load and add_load: whatever is sent when, the entries that are not too
\* old are those of the frames sent within the interval, and sendBits, which is
\* kept by adding and subtracting, is the sum of the entries.
THEOREM LoadAlwaysRecent == Spec => []LoadIsRecent
<1>1. LoadInv => LoadIsRecent
  <2> SUFFICES ASSUME LoadInv PROVE LoadIsRecent
    OBVIOUS
  <2> DEFINE s == load.frameSizeCounter
             n == Outdated(s)
  <2>1. s \in Seq(Entry) /\ OldestFirst(s) /\ load.sendBits = Bits(s) /\ sentLately = UpToDate(s)
    BY DEF LoadInv, Account
  <2>2. OldUpTo(s, n)
    BY <2>1, OutdatedIsAll
  <2>3. SubSeq(s, n + 1, Len(s)) = sentLately
    BY <2>1 DEF UpToDate
  <2> HIDE DEF n
  <2>4. \E k \in 0 .. Len(s) : /\ SubSeq(s, k + 1, Len(s)) = sentLately
                               /\ \A i \in 1 .. Len(s) : IsOld(s[i]) <=> i <= k
    BY <2>2, <2>3 DEF OldUpTo
  <2> QED BY <2>1, <2>4 DEF LoadIsRecent
<1> QED BY <1>1, LoadInvHolds, PTL

=============================================================================
