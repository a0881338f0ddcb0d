----------------------------- MODULE MCObexServer -----------------------------
(* Small instances of ObexServer for TLC. *)
EXTENDS ObexServer

CONSTANTS s1, s2, v1, v2

A == <<"hw", "a">>
B == <<"hw", "b">>

MCSessionPath(s) == <<"proc", "session", s>>
MCUserPath == {A, B}
UserA      == {A}
MCPath     == UserPath \cup {MCSessionPath(s) : s \in Session}

HwOnly   == {Subtree(<<"hw">>)}
AllOnly  == {Subtree(<<>>)}
NodeA    == {Node(A)}
NodeOrHw == {Node(A), Subtree(<<"hw">>)}

Put(v)    == [val |-> v, dod |-> FALSE]
PutDod(v) == [val |-> v, dod |-> TRUE]
Del       == [val |-> NoVal, dod |-> FALSE]
OnA(x)     == [p \in {A} |-> x]
OnAB(x, y) == [p \in {A, B} |-> IF p = A THEN x ELSE y]

NoXact == {}
\* Both objects are put, or one is put and the other deleted.
Xacts  == {OnAB(Put(v), Put(v)) : v \in Val} \cup {OnAB(Put(v), Del) : v \in Val}
\* One object is put with the dod option, or overwritten without it.
DodThenPlain == {OnA(PutDod(v1)), OnA(Put(v2))}

\* Sessions are interchangeable, and values where no transaction names them.
SessionSymmetry == Permutations(Session)
Symmetry        == Permutations(Session) \cup Permutations(Val)
=============================================================================
