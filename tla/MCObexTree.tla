------------------------------ MODULE MCObexTree ------------------------------
(* A small instance of ObexTree for TLC. *)
EXTENDS ObexTree

CONSTANTS a1, a2, v1, v2

A == <<"h", "a">>
B == <<"h", "a", "b">>

PathAB   == {A, B}
All      == {Subtree(<<>>)}
Anywhere == Path \X Path

\* Told of p, a callback changes objects that are not p and not below it.
Elsewhere == {<<p, q>> \in Path \X Path : ~IsPrefix(p, q)}

Symmetry == Permutations(Cb) \cup Permutations(Val)
=============================================================================
