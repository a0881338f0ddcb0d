------------------------------ MODULE ObexPaths ------------------------------
(***************************************************************************)
(* Object paths and callback paths of ObjXp (src/include/ObexTree.h,       *)
(* src/src/ObexTree.cpp).                                                  *)
(*                                                                         *)
(* An object path "/hw/cpu/0" is the sequence of its tokens; "/" is the    *)
(* empty sequence.  A callback path is a base path and the part of the     *)
(* tree below it that it names, as ObexTree::parsePath splits it:          *)
(* "/hw" is the node, "/hw/" its children, "/hw/*" its strict descendants. *)
(***************************************************************************)
EXTENDS Naturals, Sequences, FiniteSets, SequencesExt

Node(base)     == [base |-> base, scope |-> "node"]
Children(base) == [base |-> base, scope |-> "children"]
Subtree(base)  == [base |-> base, scope |-> "subtree"]

\* The parent of a path that is not the root.
Parent(p) == SubSeq(p, 1, Len(p) - 1)

\* putObject and delObject walk from the root and collect aCbs_ of every node
\* they leave, iCbs_ of the last node they leave and cCbs_ of the target.
Covers(c, p) ==
  \/ c.scope = "node"     /\ c.base = p
  \/ c.scope = "children" /\ p # <<>> /\ c.base = Parent(p)
  \/ c.scope = "subtree"  /\ IsStrictPrefix(c.base, p)
=============================================================================
