------------------------------- MODULE MsgQueue -------------------------------
(***************************************************************************)
(* What one direction of a message session promises its users: the         *)
(* messages that were sent are handled at the other end once each, whole   *)
(* and in the order in which they were sent.                               *)
(***************************************************************************)
EXTENDS Naturals, Sequences

CONSTANT Message
VARIABLES in,   \* the messages sent
          out   \* the messages handled

Init == in = <<>> /\ out = <<>>

Send(m) == in' = Append(in, m) /\ UNCHANGED out

Deliver ==
  /\ Len(out) < Len(in)
  /\ out' = Append(out, in[Len(out) + 1])
  /\ UNCHANGED in

Next == Deliver \/ \E m \in Message : Send(m)

Spec == Init /\ [][Next]_<<in, out>>
FairSpec == Spec /\ WF_<<in, out>>(Deliver)
=============================================================================
