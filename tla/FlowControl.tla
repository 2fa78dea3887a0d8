----------------------------- MODULE FlowControl -----------------------------
(***************************************************************************)
(* The programs of milestones 1 and 2 (milestone1.c; milestone2.c with     *)
(* link.c): a node that stops its application when the output queue of its *)
(* link is long and enables it again when the queue is short, and the      *)
(* account that link.c keeps of the load of the link.                      *)
(*                                                                         *)
(* Time is discrete: the size of a frame is the time it takes to transmit, *)
(* and timers and ages count in the same unit.  A frame is its size; what  *)
(* it contains is the subject of Link.                                     *)
(***************************************************************************)
EXTENDS Integers, SequencesExt

CONSTANTS
    QUEUE_MAX_MSGS,         \* queue length at which the application is stopped
    QUEUE_MIN_MSGS,         \* queue length at which it is enabled
    LINK_DELAY,             \* by how much the timer outlasts the transmission
    INTERVALL_CALCULATE_LOAD,   \* the load is that of so much time
    Sizes,                  \* the sizes of frames
    MaxFrames,              \* frames of the longest message (milestone 2)
    QueueLimit              \* queue length at which link_transmit drops

ASSUME FlowControlAssumption ==
    /\ QUEUE_MIN_MSGS \in Nat
    /\ QUEUE_MAX_MSGS \in Nat
    /\ QUEUE_MIN_MSGS < QUEUE_MAX_MSGS
    /\ LINK_DELAY \in Nat \ {0}
    /\ INTERVALL_CALCULATE_LOAD \in Nat \ {0}
    /\ Sizes \subseteq Nat \ {0}
    /\ MaxFrames \in Nat \ {0}
    /\ QueueLimit \in Nat
    /\ QueueLimit >= QUEUE_MAX_MSGS

VARIABLES
    program,            \* the program that the node runs
    queue,              \* frames that wait for the link
    started,            \* timer_started, the flag busy of link.c
    timers,             \* the time left to each pending timer
    ready,              \* time until the physical link accepts a frame
    enabled,            \* the application is enabled
    failed,             \* a CHECK has failed and ended the node
    load,               \* frameSizeCounter: size and age of the frames sent
                        \* lately; sendBits: the sum of their sizes
    sentLately          \* history: the frames sent within the interval

vars == <<program, queue, started, timers, ready, enabled, failed, load, sentLately>>

Programs == {"milestone1", "milestone2"}

\* reboot_node, with link_init.
Init ==
    /\ program \in Programs
    /\ queue = <<>>
    /\ started = FALSE
    /\ timers = <<>>
    /\ ready = 0
    /\ enabled = TRUE
    /\ failed = FALSE
    /\ load = [frameSizeCounter |-> <<>>, sendBits |-> 0]
    /\ sentLately = <<>>

-----------------------------------------------------------------------------

\* The sum of the sizes of frames.
Bits(frames) ==
    LET sum[n \in 0 .. Len(frames)] ==
            IF n = 0 THEN 0 ELSE sum[n - 1] + frames[n].size
    IN  sum[Len(frames)]

IsOld(e) == e.age > INTERVALL_CALCULATE_LOAD

\* The loop of remove_load: the number of entries at the front that are too old.
Outdated(entries) ==
    CHOOSE n \in 0 .. Len(entries) :
        /\ \A i \in 1 .. n : IsOld(entries[i])
        /\ n < Len(entries) => ~ IsOld(entries[n + 1])

UpToDate(entries) == SubSeq(entries, Outdated(entries) + 1, Len(entries))

\* Mutant of remove_load: what is removed is not subtracted.
remove_load_KeepsBits(a) ==
    [frameSizeCounter |-> UpToDate(a.frameSizeCounter),
     sendBits |-> a.sendBits]

\* remove_load: entries that are too old are removed from the front.
remove_load(a) ==
    [frameSizeCounter |-> UpToDate(a.frameSizeCounter),
     sendBits |-> a.sendBits
                      - Bits(SubSeq(a.frameSizeCounter, 1, Outdated(a.frameSizeCounter)))]

\* add_load, for a frame sent now.
add_load(a, size) ==
    remove_load([frameSizeCounter |->
                    Append(a.frameSizeCounter, [age |-> 0, size |-> size]),
                 sendBits |-> a.sendBits + size])

-----------------------------------------------------------------------------

\* Mutant of Resumes: only an empty queue is short enough.
Resumes_WhenEmpty(n) == n = 0

\* Queue length n is short enough for the application to go on ...
Resumes(n) == n <= QUEUE_MIN_MSGS

\* Mutant of Stops: one message too late.
Stops_Late(n) == n > QUEUE_MAX_MSGS

\* ... and long enough to stop it.
Stops(n) == n >= QUEUE_MAX_MSGS

\* Mutant of Idle: a timer may be pending although the queue is empty.
Idle_NothingQueued == queue = <<>>

\* Whether a new message must start the sending.
Idle == ~ started

\* Mutant of timeout: no longer than the transmission.
timeout_Exact(size) == size

\* The time the timer runs after a frame of that size is written.
timeout(size) == size + LINK_DELAY

\* The first frame of q is written: the physical link is busy for as long as
\* the frame takes, rounded up; the timer is rounded down.
Write(q, t) ==
    /\ queue' = Tail(q)
    /\ timers' = Append(t, timeout(Head(q)))
    /\ \E rounding \in {0, 1} : ready' = Head(q) + rounding

\* transmit (milestone1.c) with queue q, other timers t, and the application
\* enabled or not (e).  A busy link is not waited for: CNET_write_physical
\* returns -1 then, which is not ER_TOOBUSY, and CHECK ends the node.
transmit(q, t, e) ==
    /\ IF q = <<>>
       THEN /\ started' = FALSE
            /\ queue' = q /\ timers' = t /\ enabled' = e
            /\ UNCHANGED <<ready, failed>>
       ELSE /\ enabled' = (e \/ Resumes(Len(q)))
            /\ IF ready = 0
               THEN Write(q, t) /\ started' = TRUE /\ UNCHANGED failed
               ELSE /\ failed' = TRUE
                    /\ queue' = q /\ timers' = t
                    /\ UNCHANGED <<ready, started>>
    /\ UNCHANGED <<load, sentLately>>

\* transmit_frame (link.c) for milestone 2, with the account a.  A busy link is
\* polled after the shortest time.
transmit_frame(q, t, e, a) ==
    /\ started' = (q # <<>>)
    /\ IF q # <<>> /\ ready = 0
       THEN /\ Write(q, t)
            /\ load' = add_load(a, Head(q))
            /\ sentLately' = Append(sentLately, [age |-> 0, size |-> Head(q)])
       ELSE /\ queue' = q
            /\ timers' = IF q = <<>> THEN t ELSE Append(t, 1)
            /\ load' = a
            /\ UNCHANGED <<ready, sentLately>>
    /\ enabled' = (e \/ Resumes(Len(queue')))
    /\ UNCHANGED failed

\* application_ready of milestone1.c.
application_ready1(size) ==
    /\ program = "milestone1"
    /\ ~ failed
    /\ enabled
    /\ LET q == Append(queue, size)
           e == ~ Stops(Len(queue))
       IN  IF Idle
           THEN transmit(q, timers, e)
           ELSE /\ queue' = q
                /\ enabled' = e
                /\ UNCHANGED <<started, timers, ready, failed, load, sentLately>>
    /\ UNCHANGED program

\* application_ready of milestone2.c: link_transmit, for a message of the given
\* frames.  A full queue drops the message.
application_ready2(frames) ==
    /\ program = "milestone2"
    /\ enabled
    /\ Len(queue) < QueueLimit
    /\ LET q == queue \o frames
           e == ~ Stops(Len(q))
           a == remove_load(load)
       IN  IF Idle
           THEN transmit_frame(q, timers, e, a)
           ELSE /\ queue' = q
                /\ enabled' = e
                /\ load' = a
                /\ UNCHANGED <<started, timers, ready, failed, sentLately>>
    /\ UNCHANGED program

\* link_ready: the i-th timer expires.
link_ready(i) ==
    /\ i \in 1 .. Len(timers)
    /\ timers[i] = 0
    /\ ~ failed
    /\ \/ /\ program = "milestone1"
          /\ transmit(queue, RemoveAt(timers, i), enabled)
       \/ /\ program = "milestone2"
          /\ transmit_frame(queue, RemoveAt(timers, i), enabled, load)
    /\ UNCHANGED program

\* An entry is one unit older; ages beyond the interval are not told apart.
Older(e) ==
    [e EXCEPT !.age = IF IsOld(e) THEN e.age ELSE e.age + 1]

\* Time passes unless a timer is due.
Tick ==
    /\ \A i \in 1 .. Len(timers) : timers[i] > 0
    /\ timers' = [i \in 1 .. Len(timers) |-> timers[i] - 1]
    /\ ready' = IF ready > 0 THEN ready - 1 ELSE 0
    /\ load' = [load EXCEPT !.frameSizeCounter =
                    [i \in 1 .. Len(@) |-> Older(@[i])]]
    /\ sentLately' = UpToDate([i \in 1 .. Len(sentLately) |-> Older(sentLately[i])])
    /\ UNCHANGED <<program, queue, started, enabled, failed>>

\* Messages of up to MaxFrames frames: all but the last are of one size.
Messages ==
    {[i \in 1 .. n |-> IF i < n THEN large ELSE last] :
        n \in 1 .. MaxFrames, last \in Sizes, large \in Sizes}

Next ==
    \/ \E size \in Sizes : application_ready1(size)
    \/ \E frames \in Messages : application_ready2(frames)
    \/ \E i \in 1 .. Len(timers) : link_ready(i)
    \/ Tick

Spec == Init /\ [][Next]_vars

\* Time passes, and due timers expire.
Fairness == WF_vars(Tick \/ \E i \in 1 .. Len(timers) : link_ready(i))

FairSpec == Spec /\ Fairness

-----------------------------------------------------------------------------

\* The queue stays bounded: by one message beyond the upper threshold in
\* milestone 1, by the frames of the message that reaches it in milestone 2,
\* where link_transmit therefore never drops a message.
QueueBounded ==
    IF program = "milestone1"
    THEN Len(queue) <= QUEUE_MAX_MSGS + IF enabled THEN 0 ELSE 1
    ELSE /\ Len(queue) < QUEUE_MAX_MSGS + MaxFrames
         /\ enabled => Len(queue) < QUEUE_MAX_MSGS

\* Exactly one timer is pending while frames are being sent; without one nothing
\* waits in the queue.
OneTimer ==
    /\ Len(timers) = IF started THEN 1 ELSE 0
    /\ ~ started => queue = <<>>

\* No frame is written to a busy link: the link is ready when the timer expires,
\* and while none is pending.  The CHECK of milestone 1 therefore never fails.
NeverTooBusy ==
    /\ ~ failed
    /\ ~ started => ready = 0
    /\ \A i \in 1 .. Len(timers) : ready <= timers[i]

\* The account is that of the interval: behind the entries that are too old it
\* holds what was sent within the last INTERVALL_CALCULATE_LOAD, none of that is too
\* old, and sendBits is the sum of what it holds.
LoadIsRecent ==
    program = "milestone2" =>
        /\ LET entries == load.frameSizeCounter
           IN  \E n \in 0 .. Len(entries) :
                   /\ SubSeq(entries, n + 1, Len(entries)) = sentLately
                   /\ \A i \in 1 .. Len(entries) : IsOld(entries[i]) <=> i <= n
        /\ load.sendBits = Bits(load.frameSizeCounter)

\* A stopped application goes on.
AppResumes == ~ enabled ~> enabled

=============================================================================
