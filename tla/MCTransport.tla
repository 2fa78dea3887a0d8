---------------------------- MODULE MCTransport ----------------------------
(***************************************************************************)
(* Instances of Transport for TLC: the number and the sizes of the         *)
(* messages each node sends, and the shares of the window.                 *)
(***************************************************************************)
EXTENDS Transport

CONSTANTS MessagesOfA, MessagesOfB, SizesOfA, SizesOfB

MCMaxMessages == [n \in Node |-> IF n = A THEN MessagesOfA ELSE MessagesOfB]

MCMessageSizes == [n \in Node |-> IF n = A THEN SizesOfA ELSE SizesOfB]

\* Shares that leave the whole window: that of a node with more connections than
\* the window has segments is negative.
MCWideShares == {-1, MAX_WINDOW_SIZE}

=============================================================================
