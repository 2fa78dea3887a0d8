------------------------------ MODULE MCRouting ------------------------------
(* Instances of Routing for TLC: a line of three nodes, and a triangle. *)
EXTENDS Routing, TLC

CONSTANTS a, b, c

Line == {a, b, c}
LineLinks == (a :> <<b>>) @@ (b :> <<a, c>>) @@ (c :> <<b>>)
LineBandwidth == (a :> <<4>>) @@ (b :> <<4, 2>>) @@ (c :> <<2>>)

Triangle == {a, b, c}
TriangleLinks == (a :> <<b, c>>) @@ (b :> <<a, c>>) @@ (c :> <<a, b>>)
TriangleBandwidth == (a :> <<4, 1>>) @@ (b :> <<4, 4>>) @@ (c :> <<1, 4>>)
=============================================================================
