----------------------------- MODULE MCObexCohab -----------------------------
(* A small instance of ObexCohab for TLC. *)
EXTENDS ObexCohab

CONSTANTS a1, u1, u2, v1

A == <<"h", "ax">>
B == <<"h", "ax", "b">>

MCPath      == {A, B}
MCCbPath    == {Subtree(<<>>), Children(A), Node(A)}
MCSubPath   == {Subtree(<<>>), Node(A)}
MCOtherPath == {Children(A)}

\* "/h/*" covers both objects. "/h/a/*" covers neither, but as strings their names
\* begin with "/h/a".
HA == <<"h", "a">>
MCUserPath  == {Subtree(<<"h">>), Subtree(HA)}
MCLonger    == {HA} \X {A, B}

\* Told of p, a callback changes objects that are not p and not below it.
Elsewhere == {<<p, q>> \in Path \X Path : ~IsPrefix(p, q)}

Symmetry == Permutations(User)
=============================================================================
