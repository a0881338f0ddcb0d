------------------------------- MODULE ObexTree -------------------------------
(***************************************************************************)
(* The object tree of ObjXp (src/src/ObexTree.cpp, src/include/ObexTree.h):*)
(* nodes that come and go with the objects and callbacks they hold, and    *)
(* calls that notify callbacks, which may call the tree in their turn.     *)
(*                                                                         *)
(* A call of putObject or delObject that notifies somebody is a frame on   *)
(* the stack, from the change of the object to the call's return; what a   *)
(* callback does is done while its call is the top of the stack.           *)
(***************************************************************************)
EXTENDS ObexPaths

CONSTANTS
  Path,      \* the paths of objects
  CbPath,    \* the callback paths
  Cb,        \* the addresses of callback objects
  Val, NoVal, NoCb,
  Reaction,  \* <<p, q>>: a callback told of p may put and delete q
  Reuse,     \* an address may be used again while a map still has it
  MaxDepth   \* bound: calls within calls

ASSUME PathAssumption ==
  /\ Path \subseteq Seq(STRING) \ {<<>>}
  /\ CbPath \subseteq [base : Seq(STRING), scope : {"node", "children", "subtree"}]
ASSUME ValAssumption  == NoVal \notin Val /\ NoCb \notin Cb
ASSUME ReactionAssumption == Reaction \subseteq Path \X Path /\ Reuse \in BOOLEAN /\ MaxDepth \in Nat

VARIABLES
  node,     \* the nodes of ptree_, by path
  obj,      \* oObj_ of each
  cbs,      \* cCbs_, iCbs_ and aCbs_: the addresses registered for a callback path,
  expired,  \* those of them whose object is gone
  alive,    \* the addresses at which there is a callback object
  want,     \* what the object at an address is registered for
  told,     \* the last it has heard of an object it is registered for
  stack,    \* the calls that are notifying
  crashed   \* a node was used after it was erased, or an assert() failed

treeVars == <<node, obj, cbs, expired>>
cbVars   == <<alive, want, told>>
vars     == <<treeVars, cbVars, stack, crashed>>

\* The nodes on the way from the root to p, and its own.
Above(p) == {SubSeq(p, 1, n) : n \in 0 .. Len(p)}

AllNodes == {<<>>} \cup UNION {Above(p) : p \in Path \cup {c.base : c \in CbPath}}

\* a has registered for p, and has not taken it back.
Wants(a, p) == \E c \in want[a] : Covers(c, p)

-----------------------------------------------------------------------------
(* Calls within calls                                                      *)

Top       == stack[Len(stack)]
SetTop(f) == [stack EXCEPT ![Len(stack)] = f]
Frames    == {stack[i] : i \in DOMAIN stack}
Pending   == UNION {f.todo \cup {f.cb} : f \in Frames}

\* A callback runs, or nothing does: the tree may be called.
Callable == ~crashed /\ (stack # <<>> => Top.cb # NoCb)

\* Callbacks may change p in what runs now.
MayChange(p) ==
  /\ Callable /\ Len(stack) < MaxDepth
  /\ \A f \in Frames : <<f.path, p>> \in Reaction

-----------------------------------------------------------------------------
(* putObject, delObject                                                    *)

\* Mutant of Called: immediate-children callbacks are not looked at.
CalledAbove(p) ==
  UNION {cbs[c] \ expired[c] : c \in {d \in CbPath : Covers(d, p) /\ d.scope # "children"}}

\* The callbacks that addToCallbackSet collects on the way to p.
Called(p) == UNION {cbs[c] \ expired[c] : c \in {d \in CbPath : Covers(d, p)}}

\* The entries of destroyed callbacks that it meets go. aCbs_ is looked at on
\* the way, cCbs_ and iCbs_ only when there is something to tell.
Purge(p, changed) ==
  LET met == {c \in CbPath : Covers(c, p) /\ (changed \/ c.scope = "subtree")}
  IN /\ cbs' = [c \in CbPath |-> IF c \in met THEN cbs[c] \ expired[c] ELSE cbs[c]]
     /\ expired' = [c \in CbPath |-> IF c \in met THEN {} ELSE expired[c]]

Change(op, p, v) ==
  /\ obj' = [obj EXCEPT ![p] = v]
  /\ Purge(p, TRUE)
  /\ stack' = Append(stack, [op |-> op, path |-> p, val |-> v, todo |-> Called(p),
                             cb |-> NoCb, gone |-> FALSE])

PutObject(p, v) ==
  /\ MayChange(p)
  /\ node' = node \cup Above(p)
  /\ \/ obj[p] = v /\ Purge(p, FALSE) /\ UNCHANGED <<obj, stack>>
     \/ obj[p] # v /\ Change("put", p, v)
  /\ UNCHANGED <<cbVars, crashed>>

DelObject(p) ==
  /\ MayChange(p)
  /\ \/ obj[p] = NoVal /\ Purge(p, FALSE) /\ UNCHANGED <<obj, stack>>
     \/ obj[p] # NoVal /\ Change("del", p, NoVal)
  /\ UNCHANGED <<node, cbVars, crashed>>

\* The next callback of the set is called, in no particular order.
Notify ==
  /\ ~crashed /\ stack # <<>> /\ Top.cb = NoCb
  /\ \E a \in Top.todo :
       /\ stack' = SetTop([Top EXCEPT !.cb = a, !.todo = @ \ {a}])
       /\ told' = [told EXCEPT ![a][Top.path] = IF Wants(a, Top.path) THEN Top.val ELSE @]
  /\ UNCHANGED <<treeVars, alive, want, crashed>>

\* The callback returns.
Return ==
  /\ ~crashed /\ stack # <<>> /\ Top.cb # NoCb
  /\ stack' = SetTop([Top EXCEPT !.cb = NoCb])
  /\ UNCHANGED <<treeVars, cbVars, crashed>>

\* Mutant of Holds: immediate-children callbacks do not keep their node.
HoldsLess(n) ==
  \/ n \in Path /\ obj[n] # NoVal
  \/ \E c \in CbPath : c.base = n /\ c.scope # "children" /\ cbs[c] # {}

\* A node that is needed for itself; an expired entry counts.
Holds(n) ==
  \/ n \in Path /\ obj[n] # NoVal
  \/ \E c \in CbPath : c.base = n /\ cbs[c] # {}

\* Mutants of CleanUp: nodes with children go; only the object's own node goes.
CleanUpDeep(p) == {q \in Above(p) \ {<<>>} : \A n \in Above(p) : IsPrefix(q, n) => ~Holds(n)}
CleanUpLeaf(p) == {q \in {p} : \A n \in node : IsPrefix(q, n) => n = p /\ ~Holds(n)}

\* The nodes that the clean-up removes, from p's upwards, until one has another
\* child or holds something.
CleanUp(p) ==
  {q \in Above(p) \ {<<>>} : \A n \in node : IsPrefix(q, n) => n \in Above(p) /\ ~Holds(n)}

\* The call ends. delObject cleans up along the pointers it has taken before the
\* callbacks were called; erasing a node, with what is below it, leaves the
\* pointers of others dangling.
EndCall ==
  /\ ~crashed /\ stack # <<>> /\ Top.cb = NoCb /\ Top.todo = {}
  /\ LET removed   == IF Top.op = "del" /\ ~Top.gone THEN CleanUp(Top.path) ELSE {}
         Erased(n) == \E q \in removed : IsPrefix(q, n)
     IN /\ node' = {n \in node : ~Erased(n)}
        /\ stack' = [i \in 1 .. Len(stack) - 1 |->
                      [stack[i] EXCEPT !.gone = @ \/ Erased(stack[i].path)]]
  /\ crashed' = (Top.op = "del" /\ Top.gone)
  /\ UNCHANGED <<obj, cbs, expired, cbVars>>

-----------------------------------------------------------------------------
(* registerCallback, unregisterCallback                                    *)

\* A session registers for each callback path of a list. The caller takes the
\* objects there are from the set it is given. An entry with its address stays
\* what it is.
Register(a, C) ==
  /\ Callable /\ a \in alive
  /\ node' = node \cup UNION {Above(c.base) : c \in C}
  /\ cbs'  = [c \in CbPath |-> IF c \in C THEN cbs[c] \cup {a} ELSE cbs[c]]
  /\ want' = [want EXCEPT ![a] = @ \cup C]
  /\ told' = [told EXCEPT ![a] = [p \in Path |->
               IF \E c \in C : Covers(c, p) THEN obj[p] ELSE @[p]]]
  /\ UNCHANGED <<obj, expired, alive, stack, crashed>>

Unregister(a, C) ==
  /\ Callable /\ a \in alive /\ C \subseteq want[a]
  /\ cbs'     = [c \in CbPath |-> IF c \in C THEN cbs[c] \ {a} ELSE cbs[c]]
  /\ expired' = [c \in CbPath |-> IF c \in C THEN expired[c] \ {a} ELSE expired[c]]
  /\ want'    = [want EXCEPT ![a] = @ \ C]
  /\ told'    = [told EXCEPT ![a] = [p \in Path |->
                  IF \E d \in want'[a] : Covers(d, p) THEN @[p] ELSE NoVal]]
  /\ UNCHANGED <<node, obj, alive, stack, crashed>>

\* The last reference to a callback goes: the maps refer to it weakly, the set
\* of a call that notifies keeps it.
Destroy(a) ==
  /\ Callable /\ a \in alive /\ a \notin Pending
  /\ alive'   = alive \ {a}
  /\ expired' = [c \in CbPath |-> expired[c] \cup (cbs[c] \cap {a})]
  /\ want'    = [want EXCEPT ![a] = {}]
  /\ told'    = [told EXCEPT ![a] = [p \in Path |-> NoVal]]
  /\ UNCHANGED <<node, obj, cbs, stack, crashed>>

\* A callback object is made. Its address may be that of a destroyed one.
New(a) ==
  /\ Callable /\ a \notin alive
  /\ Reuse \/ \A c \in CbPath : a \notin cbs[c]
  /\ alive' = alive \cup {a}
  /\ UNCHANGED <<treeVars, want, told, stack, crashed>>

-----------------------------------------------------------------------------
Init ==
  /\ node = {<<>>}
  /\ obj = [p \in Path |-> NoVal]
  /\ cbs = [c \in CbPath |-> {}]
  /\ expired = [c \in CbPath |-> {}]
  /\ alive = {}
  /\ want = [a \in Cb |-> {}]
  /\ told = [a \in Cb |-> [p \in Path |-> NoVal]]
  /\ stack = <<>>
  /\ crashed = FALSE

Next ==
  \/ \E p \in Path : DelObject(p) \/ \E v \in Val : PutObject(p, v)
  \/ Notify \/ Return \/ EndCall
  \/ \E a \in Cb : \/ New(a) \/ Destroy(a)
                   \/ \E C \in SUBSET CbPath : Register(a, C) \/ Unregister(a, C)

Spec == Init /\ [][Next]_vars

-----------------------------------------------------------------------------
(* Properties                                                              *)

\* Types; a callback that is yet to be called is there, since the set of the
\* call refers to it (ObexTree.cpp:167-168), and only entries expire.
TypeOK ==
  /\ node \subseteq AllNodes /\ <<>> \in node
  /\ obj \in [Path -> Val \cup {NoVal}]
  /\ cbs \in [CbPath -> SUBSET Cb]
  /\ expired \in [CbPath -> SUBSET Cb] /\ \A c \in CbPath : expired[c] \subseteq cbs[c]
  /\ alive \subseteq Cb
  /\ want \in [Cb -> SUBSET CbPath]
  /\ told \in [Cb -> [Path -> Val \cup {NoVal}]]
  /\ stack \in Seq([op : {"put", "del"}, path : Path, val : Val \cup {NoVal},
                    todo : SUBSET alive, cb : alive \cup {NoCb}, gone : BOOLEAN])
  /\ Len(stack) <= MaxDepth
  /\ crashed \in BOOLEAN

\* A callback registered for an object has last been told what the tree holds,
\* or is yet to be called by a call that runs: what a session sends to its
\* client, or a client's callback shows, follows the tree, whatever callbacks
\* are registered, removed or destroyed on the way and whatever other objects
\* they change.
Informed ==
  \A a \in Cb, p \in Path :
    Wants(a, p) => \/ told[a][p] = obj[p]
                   \/ \E f \in Frames : f.path = p /\ a \in f.todo

\* The pointers that delObject takes before it calls callbacks
\* (ObexTree.cpp:278) are good when it cleans up along them (line 319).
NoDanglingNode == ~crashed

\* The clean-up removes no node that an object or a callback needs: each has
\* its node and those above it.
NodesKept ==
  /\ \A p \in Path : obj[p] # NoVal => Above(p) \subseteq node
  /\ \A c \in CbPath : cbs[c] # {} => Above(c.base) \subseteq node

\* When no call runs, a node without children holds an object, or callbacks were
\* registered for it (unregisterCallback leaves the node, ObexTree.cpp:425).
NoLitter ==
  stack = <<>> /\ ~crashed =>
    \A n \in node \ {<<>>} :
      \/ n \in Path /\ obj[n] # NoVal
      \/ \E c \in CbPath : c.base = n
      \/ \E m \in node : IsStrictPrefix(n, m)
=============================================================================
