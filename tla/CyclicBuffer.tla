---------------------------- MODULE CyclicBuffer ----------------------------
(***************************************************************************)
(* The cyclic receive buffer (buffer.c).  The data array and its validity  *)
(* bitmap are one function, cell: a cell holds INVALID when its bit is     *)
(* clear and the byte stored there when it is set.                         *)
(***************************************************************************)
EXTENDS Integers, FiniteSetsExt

\* Content of a cell whose bit is clear; bytes are natural numbers.
INVALID == -1

buffer_new(len) == [len |-> len, cell |-> [p \in 0 .. (len - 1) |-> INVALID]]

buffer_check(b, pos) == b.cell[pos % b.len] # INVALID

\* The assertion of buffer_validate would fail: valid data is overwritten.
Overwrites(b, pos, size) == \E i \in 0 .. (size - 1) : buffer_check(b, pos + i)

\* data is the sequence of the bytes to store from pos on.
buffer_store(b, pos, data, size) ==
    [b EXCEPT !.cell =
        [p \in DOMAIN b.cell |->
            LET i == (p - pos) % b.len
            IN  IF i < size THEN data[i + 1] ELSE b.cell[p]]]

\* The bytes buffer_load copies out before it invalidates them.
Loaded(b, pos, size) == [i \in 1 .. size |-> b.cell[(pos + i - 1) % b.len]]

\* The first invalid position from pos on, -1 when every cell is valid.
buffer_next_invalid(b, pos) ==
    LET free == {i \in 0 .. (b.len - 1) : ~ buffer_check(b, pos + i)}
    IN  IF free = {} THEN -1 ELSE (pos + Min(free)) % b.len

=============================================================================
