------------------------------- MODULE DRing -------------------------------
(***************************************************************************)
(* The double ring (dring.c) over its two sorted queues (squeue.c).  It    *)
(* keeps cyclic sequence numbers in the order of the window that slides    *)
(* over them: s holds the numbers before the wrap, l those after it.       *)
(***************************************************************************)
EXTENDS Integers, SequencesExt

\* squeue_insert: in front of the first entry with larger data.
squeue_insert(q, data) ==
    LET notLarger == {i \in DOMAIN q : q[i] <= data}
    IN  InsertAt(q, Cardinality(notLarger) + 1, data)

squeue_peek(q) == IF q = <<>> THEN -1 ELSE Head(q)

squeue_peek_tail(q) == IF q = <<>> THEN -1 ELSE q[Len(q)]

-----------------------------------------------------------------------------

dring_new(windowSize) ==
    [s |-> <<>>, l |-> <<>>, windowSize |-> windowSize, maxFirstRing |-> -1]

\* Whether data belongs to the first ring.
InFirstRing(d, data) ==
    \/ d.maxFirstRing = -1
    \/ data > d.maxFirstRing
    \/ d.maxFirstRing - data < d.windowSize

dring_insert(d, data) ==
    IF InFirstRing(d, data)
    THEN LET s == squeue_insert(d.s, data)
         IN  [d EXCEPT !.s = s, !.maxFirstRing = squeue_peek_tail(s)]
    ELSE [d EXCEPT !.l = squeue_insert(d.l, data)]

dring_nitems(d) == Len(d.s) + Len(d.l)

\* Mutant of dring_peek: the second queue is forgotten.
dring_peek_FirstOnly(d) == squeue_peek(d.s)

dring_peek(d) == IF d.s # <<>> THEN squeue_peek(d.s) ELSE squeue_peek(d.l)

\* Mutant of dring_pop: the rings are switched, maxFirstRing is not.
dring_pop_KeepsMax(d) ==
    IF d.s # <<>> THEN [d EXCEPT !.s = Tail(d.s)]
    ELSE IF d.l # <<>> THEN [d EXCEPT !.s = Tail(d.l), !.l = <<>>]
    ELSE d

\* The ring dring_pop leaves; the rings are switched when s is empty.
dring_pop(d) ==
    IF d.s # <<>> THEN [d EXCEPT !.s = Tail(d.s)]
    ELSE IF d.l # <<>>
         THEN [d EXCEPT !.s = Tail(d.l), !.l = <<>>,
                        !.maxFirstRing = squeue_peek_tail(d.l)]
         ELSE d

-----------------------------------------------------------------------------

\* The elements in the order in which repeated calls of dring_pop return them.
PopOrder(d) == d.s \o d.l

\* The ring left by n calls of dring_pop, n at most dring_nitems(d).
PopMany(d, n) ==
    IF n <= Len(d.s)
    THEN [d EXCEPT !.s = SubSeq(d.s, n + 1, Len(d.s))]
    ELSE [d EXCEPT !.s = SubSeq(d.l, n - Len(d.s) + 1, Len(d.l)),
                   !.l = <<>>,
                   !.maxFirstRing = squeue_peek_tail(d.l)]

=============================================================================
