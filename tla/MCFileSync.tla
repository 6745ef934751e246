----------------------------- MODULE MCFileSync -----------------------------
(* A directory with a file in it and room for another directory, at the      *)
(* server and, newer, at one of two clients.                                 *)
EXTENDS FileSync, TLC

CONSTANTS a, b, d, e, x

MCAbove == (d :> {}) @@ (x :> {d}) @@ (e :> {d})

Tree(m, v) == (d :> Directory) @@ (x :> [m |-> m, v |-> v]) @@ (e :> Absent)

MCStarts == {(Server :> Tree(2, 1)) @@ (a :> Tree(3, 2)) @@ (b :> [p \in Paths |-> Absent])}
=============================================================================
