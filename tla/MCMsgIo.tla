------------------------------- MODULE MCMsgIo --------------------------------
(* Small instances of MsgIo for TLC. *)
EXTENDS MsgIo

Put(len, eqs)    == [type |-> "put", len |-> len, eqs |-> eqs, dontFrag |-> FALSE]
Transaction(len) == [type |-> "transaction", len |-> len, eqs |-> {}, dontFrag |-> FALSE]
Other(len)       == [type |-> "other", len |-> len, eqs |-> {}, dontFrag |-> TRUE]

\* The put is longer than the fifo: its first fragment ends in its data when the
\* fifo is empty, right behind its object info after the shortest message, and
\* within the info after the next longer one.  After the transaction there is no
\* room for a fragment.
Messages == {Put(11, {4, 6, 8}), Transaction(5), Other(2), Other(3)}
=============================================================================
