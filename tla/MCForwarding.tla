---------------------------- MODULE MCForwarding ----------------------------
(* An instance of Forwarding for TLC: a triangle with one slow link. *)
EXTENDS Forwarding, TLC

CONSTANTS a, b, c

Triangle == {a, b, c}
TriangleLinks == (a :> <<b, c>>) @@ (b :> <<a, c>>) @@ (c :> <<a, b>>)
TriangleBandwidth == (a :> <<4, 1>>) @@ (b :> <<4, 2>>) @@ (c :> <<1, 2>>)

OneFlow == {<<a, c>>}

\* Where the first announcement may be missed: on the links to the destination.
TowardsDestination == {<<a, 2>>, <<b, 2>>}
=============================================================================
