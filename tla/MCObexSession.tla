---------------------------- MODULE MCObexSession ----------------------------
(* A small instance of ObexSession for TLC: two objects below /h, a list of *)
(* callback paths for answers, and one for everything below /h as well.     *)
EXTENDS ObexSession

MCUserPath == {<<"h", "a">>, <<"h", "b">>}
MCSubList  == {{Node(Rsp)}, {Node(Rsp), Subtree(<<"h">>)}}
MCRequest  == {[op |-> "cat", path |-> <<"h", "a">>], [op |-> "ls", path |-> <<"h">>]}
=============================================================================
