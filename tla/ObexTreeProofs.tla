---------------------------- MODULE ObexTreeProofs ----------------------------
(* Proofs about ObexTree. *)
EXTENDS ObexTree, TLAPS

-----------------------------------------------------------------------------
(* Paths                                                                     *)

AnyPath == Seq(STRING)

(* The nodes on the way to p are the prefixes of p. *)
LEMMA AbovePrefix ==
  ASSUME NEW p \in AnyPath
  PROVE  \A n : n \in Above(p) <=> n \in AnyPath /\ IsPrefix(n, p)
<1>1. ASSUME NEW n, n \in Above(p)
      PROVE  n \in AnyPath /\ IsPrefix(n, p)
  <2>1. PICK k \in 0 .. Len(p) : n = SubSeq(p, 1, k)
    BY <1>1 DEF Above
  <2>2. n \in AnyPath /\ Len(n) = k /\ \A i \in 1 .. k : n[i] = p[i]
    BY <2>1 DEF AnyPath
  <2>3. SubSeq(n, 1, k) = n
    BY <2>2 DEF AnyPath
  <2> QED BY <2>1, <2>2, <2>3 DEF IsPrefix
<1>2. ASSUME NEW n \in AnyPath, IsPrefix(n, p)
      PROVE  n \in Above(p)
  <2>1. Len(n) \in 0 .. Len(p) /\ SubSeq(n, 1, Len(n)) = SubSeq(p, 1, Len(n))
    BY <1>2 DEF IsPrefix, AnyPath
  <2>2. SubSeq(n, 1, Len(n)) = n
    BY DEF AnyPath
  <2> QED BY <2>1, <2>2 DEF Above
<1> QED BY <1>1, <1>2

(* Being a prefix, element by element. *)
LEMMA PrefixElements ==
  ASSUME NEW p \in AnyPath, NEW q \in AnyPath
  PROVE  IsPrefix(p, q) <=> Len(p) <= Len(q) /\ \A i \in 1 .. Len(p) : p[i] = q[i]
<1>1. SubSeq(p, 1, Len(p)) = p
  BY DEF AnyPath
<1>2. ASSUME Len(p) <= Len(q)
      PROVE  /\ Len(SubSeq(q, 1, Len(p))) = Len(p)
             /\ SubSeq(q, 1, Len(p)) \in AnyPath
             /\ \A i \in 1 .. Len(p) : SubSeq(q, 1, Len(p))[i] = q[i]
  BY <1>2 DEF AnyPath
<1>3. ASSUME Len(p) <= Len(q), \A i \in 1 .. Len(p) : p[i] = q[i]
      PROVE  p = SubSeq(q, 1, Len(p))
  BY <1>2, <1>3 DEF AnyPath
<1> QED BY <1>1, <1>2, <1>3 DEF IsPrefix

(* It is an order with the root below everything. *)
LEMMA PrefixOrder ==
  /\ <<>> \in AnyPath
  /\ \A p \in AnyPath : IsPrefix(p, p) /\ IsPrefix(<<>>, p) /\ (IsPrefix(p, <<>>) => p = <<>>)
  /\ \A p, q, r \in AnyPath : IsPrefix(p, q) /\ IsPrefix(q, r) => IsPrefix(p, r)
<1>1. <<>> \in AnyPath /\ Len(<<>>) = 0
  BY DEF AnyPath
<1>2. ASSUME NEW p \in AnyPath
      PROVE  IsPrefix(p, p) /\ IsPrefix(<<>>, p) /\ (IsPrefix(p, <<>>) => p = <<>>)
  <2>1. IsPrefix(p, p)
    BY DEF IsPrefix, AnyPath
  <2>4. IsPrefix(<<>>, p)
    <3>1. Len(<<>>) <= Len(p) /\ \A i \in 1 .. Len(<<>>) : <<>>[i] = p[i]
      BY <1>1 DEF AnyPath
    <3> QED BY <1>1, <3>1, PrefixElements
  <2>2. IsPrefix(p, <<>>) => Len(p) = 0
    BY <1>1 DEF IsPrefix, AnyPath
  <2>3. Len(p) = 0 => p = <<>>
    BY DEF AnyPath
  <2> QED BY <2>1, <2>2, <2>3, <2>4
<1>3. ASSUME NEW p \in AnyPath, NEW q \in AnyPath, NEW r \in AnyPath,
             IsPrefix(p, q), IsPrefix(q, r)
      PROVE  IsPrefix(p, r)
  <2>1. Len(p) \in Nat /\ Len(q) \in Nat /\ Len(r) \in Nat
    BY DEF AnyPath
  <2>2. Len(p) <= Len(q) /\ \A i \in 1 .. Len(p) : p[i] = q[i]
    BY <1>3, PrefixElements
  <2>3. Len(q) <= Len(r) /\ \A i \in 1 .. Len(q) : q[i] = r[i]
    BY <1>3, PrefixElements
  <2>4. Len(p) <= Len(r) /\ \A i \in 1 .. Len(p) : p[i] = r[i]
    BY <2>1, <2>2, <2>3
  <2> QED BY <2>4, PrefixElements
<1> QED BY <1>1, <1>2, <1>3
-----------------------------------------------------------------------------
(* Types                                                                     *)

(* The calls that may be on the stack when A are the callbacks there are. *)
FrameOf(A) ==
  [op : {"put", "del"}, path : Path, val : Val \cup {NoVal},
   todo : SUBSET A, cb : A \cup {NoCb}, gone : BOOLEAN]

(* A registered callback that is gone has left an expired entry. *)
Living == \A c \in CbPath : cbs[c] \ expired[c] \subseteq alive

Typed == TypeOK /\ Living

LEMMA AboveTypes ==
  /\ \A p \in Path : p \in AnyPath /\ p # <<>> /\ Above(p) \subseteq AllNodes
  /\ \A c \in CbPath : c.base \in AnyPath /\ Above(c.base) \subseteq AllNodes
  /\ AllNodes \subseteq AnyPath
<1>1. \A p \in Path : p \in AnyPath /\ p # <<>>
  BY PathAssumption DEF AnyPath
<1>2. \A c \in CbPath : c.base \in AnyPath
  BY PathAssumption DEF AnyPath
<1>3. AllNodes \subseteq AnyPath
  BY <1>1, <1>2, AbovePrefix, PrefixOrder DEF AllNodes
<1> QED BY <1>1, <1>2, <1>3 DEF AllNodes

(* The callbacks collected for an object are there. *)
LEMMA CalledAlive ==
  ASSUME Typed, NEW p \in Path
  PROVE  Called(p) \subseteq alive
BY DEF Typed, Living, Called

LEMMA PurgeType ==
  ASSUME Typed, NEW p \in Path, NEW changed \in BOOLEAN, Purge(p, changed), UNCHANGED alive
  PROVE  /\ cbs' \in [CbPath -> SUBSET Cb]
         /\ expired' \in [CbPath -> SUBSET Cb]
         /\ \A c \in CbPath : expired'[c] \subseteq cbs'[c] /\ cbs'[c] \ expired'[c] = cbs[c] \ expired[c]
         /\ Living'
<1> DEFINE met == {c \in CbPath : Covers(c, p) /\ (changed \/ c.scope = "subtree")}
<1>1. /\ cbs' = [c \in CbPath |-> IF c \in met THEN cbs[c] \ expired[c] ELSE cbs[c]]
      /\ expired' = [c \in CbPath |-> IF c \in met THEN {} ELSE expired[c]]
  BY DEF Purge
<1> HIDE DEF met
<1>2. cbs \in [CbPath -> SUBSET Cb] /\ expired \in [CbPath -> SUBSET Cb]
      /\ \A c \in CbPath : expired[c] \subseteq cbs[c]
  BY DEF Typed, TypeOK
<1>3. \A c \in CbPath : cbs'[c] \ expired'[c] = cbs[c] \ expired[c]
  BY <1>1, <1>2
<1> QED BY <1>1, <1>2, <1>3 DEF Typed, Living

LEMMA ChangeType ==
  ASSUME Typed, NEW op \in {"put", "del"}, NEW p \in Path, NEW v \in Val \cup {NoVal},
         MayChange(p), Change(op, p, v), UNCHANGED <<cbVars, crashed>>,
         node' \subseteq AllNodes, <<>> \in node'
  PROVE  Typed'
<1> DEFINE f == [op |-> op, path |-> p, val |-> v, todo |-> Called(p), cb |-> NoCb, gone |-> FALSE]
<1>1. f \in FrameOf(alive)
  BY CalledAlive DEF FrameOf
<1>2. stack' = Append(stack, f) /\ obj' = [obj EXCEPT ![p] = v] /\ Purge(p, TRUE)
  BY DEF Change
<1> HIDE DEF f
<1>3. stack \in Seq(FrameOf(alive)) /\ Len(stack) < MaxDepth /\ MaxDepth \in Nat
  BY ReactionAssumption DEF Typed, TypeOK, FrameOf, MayChange
<1>4. stack' \in Seq(FrameOf(alive)) /\ Len(stack') <= MaxDepth
  BY <1>1, <1>2, <1>3
<1>5. UNCHANGED alive
  BY DEF cbVars
<1>6. /\ cbs' \in [CbPath -> SUBSET Cb]
      /\ expired' \in [CbPath -> SUBSET Cb]
      /\ \A c \in CbPath : expired'[c] \subseteq cbs'[c]
      /\ Living'
  BY <1>2, <1>5, PurgeType
<1> QED BY <1>2, <1>4, <1>5, <1>6 DEF Typed, TypeOK, FrameOf, cbVars

(* A call that changes nothing only drops entries of destroyed callbacks. *)
LEMMA NoChangeType ==
  ASSUME Typed, NEW p \in Path, Purge(p, FALSE), UNCHANGED <<obj, stack, cbVars, crashed>>,
         node' \subseteq AllNodes, <<>> \in node'
  PROVE  Typed'
<1>1. UNCHANGED alive
  BY DEF cbVars
<1>2. /\ cbs' \in [CbPath -> SUBSET Cb]
      /\ expired' \in [CbPath -> SUBSET Cb]
      /\ \A c \in CbPath : expired'[c] \subseteq cbs'[c]
      /\ Living'
  BY <1>1, PurgeType
<1> QED BY <1>2 DEF Typed, TypeOK, cbVars

LEMMA PutObjectType ==
  ASSUME Typed, NEW p \in Path, NEW v \in Val, PutObject(p, v)
  PROVE  Typed'
<1>1. node' \subseteq AllNodes /\ <<>> \in node'
  BY AboveTypes DEF PutObject, Typed, TypeOK
<1>2. CASE Purge(p, FALSE) /\ UNCHANGED <<obj, stack>>
  BY <1>1, <1>2, NoChangeType DEF PutObject
<1>3. CASE Change("put", p, v)
  BY <1>1, <1>3, ChangeType DEF PutObject
<1> QED BY <1>2, <1>3 DEF PutObject

LEMMA DelObjectType ==
  ASSUME Typed, NEW p \in Path, DelObject(p)
  PROVE  Typed'
<1>1. node' \subseteq AllNodes /\ <<>> \in node'
  BY DEF DelObject, Typed, TypeOK
<1>2. CASE Purge(p, FALSE) /\ UNCHANGED <<obj, stack>>
  BY <1>1, <1>2, NoChangeType DEF DelObject
<1>3. CASE Change("del", p, NoVal)
  BY <1>1, <1>3, ChangeType DEF DelObject
<1> QED BY <1>2, <1>3 DEF DelObject

(* The call on top of the stack, and another in its place. *)
LEMMA TopType ==
  ASSUME NEW S, stack \in Seq(S), stack # <<>>
  PROVE  /\ Len(stack) \in DOMAIN stack /\ Top \in S /\ Top \in Frames
         /\ \A f \in S : /\ SetTop(f) \in Seq(S) /\ Len(SetTop(f)) = Len(stack)
                         /\ DOMAIN SetTop(f) = DOMAIN stack
                         /\ SetTop(f)[Len(stack)] = f
                         /\ \A i \in DOMAIN stack : i # Len(stack) => SetTop(f)[i] = stack[i]
<1>1. Len(stack) \in 1 .. Len(stack) /\ DOMAIN stack = 1 .. Len(stack)
  OBVIOUS
<1> QED BY <1>1 DEF Top, SetTop, Frames

(* A sequence is over whatever its elements are in. *)
LEMMA SeqOver ==
  ASSUME NEW S, NEW T, NEW s \in Seq(S), \A i \in DOMAIN s : s[i] \in T
  PROVE  s \in Seq(T)
<1>1. s \in [1 .. Len(s) -> T] /\ Len(s) \in Nat
  OBVIOUS
<1> QED BY <1>1

LEMMA StackType ==
  ASSUME Typed
  PROVE  stack \in Seq(FrameOf(alive)) /\ Len(stack) \in Nat
BY DEF Typed, TypeOK, FrameOf

LEMMA NotifyType ==
  ASSUME Typed, Notify
  PROVE  Typed'
<1>1. PICK a \in Top.todo :
        /\ stack' = SetTop([Top EXCEPT !.cb = a, !.todo = @ \ {a}])
        /\ told' = [told EXCEPT ![a][Top.path] = IF Wants(a, Top.path) THEN Top.val ELSE @]
  BY DEF Notify
<1>2. Top \in FrameOf(alive)
  BY StackType, TopType DEF Notify
<1>3. a \in alive /\ [Top EXCEPT !.cb = a, !.todo = @ \ {a}] \in FrameOf(alive)
  BY <1>1, <1>2 DEF FrameOf
<1>4. stack' \in Seq(FrameOf(alive)) /\ Len(stack') = Len(stack)
  BY <1>1, <1>3, StackType, TopType DEF Notify
<1>5. told' \in [Cb -> [Path -> Val \cup {NoVal}]]
  <2>1. Top.path \in Path /\ Top.val \in Val \cup {NoVal} /\ a \in Cb
    BY <1>2, <1>3 DEF FrameOf, Typed, TypeOK
  <2> QED BY <1>1, <2>1 DEF Typed, TypeOK
<1> QED BY <1>4, <1>5 DEF Notify, Typed, TypeOK, Living, FrameOf, treeVars

LEMMA ReturnType ==
  ASSUME Typed, Return
  PROVE  Typed'
<1>1. Top \in FrameOf(alive)
  BY StackType, TopType DEF Return
<1>2. [Top EXCEPT !.cb = NoCb] \in FrameOf(alive)
  BY <1>1 DEF FrameOf
<1>3. stack' \in Seq(FrameOf(alive)) /\ Len(stack') = Len(stack)
  BY <1>2, StackType, TopType DEF Return
<1> QED BY <1>3 DEF Return, Typed, TypeOK, Living, FrameOf, treeVars, cbVars

(* What the end of a call erases from the tree. *)
Removed         == IF Top.op = "del" /\ ~Top.gone THEN CleanUp(Top.path) ELSE {}
Erased(Q, n)    == \E q \in Q : IsPrefix(q, n)
Popped(Q)       == [i \in 1 .. Len(stack) - 1 |->
                     [stack[i] EXCEPT !.gone = @ \/ Erased(Q, stack[i].path)]]

LEMMA EndCallParts ==
  ASSUME EndCall
  PROVE  /\ node' = {n \in node : ~Erased(Removed, n)}
         /\ stack' = Popped(Removed)
BY DEF EndCall, Removed, Erased, Popped

(* The stack without its top. *)
LEMMA PopType ==
  ASSUME NEW A, stack \in Seq(FrameOf(A)), stack # <<>>, NEW Q
  PROVE  /\ Popped(Q) \in Seq(FrameOf(A)) /\ Len(Popped(Q)) = Len(stack) - 1
         /\ DOMAIN Popped(Q) = 1 .. Len(stack) - 1 /\ DOMAIN stack = 1 .. Len(stack)
         /\ \A i \in 1 .. Len(stack) - 1 :
              /\ stack[i] \in FrameOf(A)
              /\ Popped(Q)[i] = [stack[i] EXCEPT !.gone = @ \/ Erased(Q, stack[i].path)]
<1>1. Len(stack) - 1 \in Nat /\ DOMAIN stack = 1 .. Len(stack)
  OBVIOUS
<1>2. ASSUME NEW i \in 1 .. Len(stack) - 1
      PROVE  /\ stack[i] \in FrameOf(A)
             /\ [stack[i] EXCEPT !.gone = @ \/ Erased(Q, stack[i].path)] \in FrameOf(A)
  <2>1. stack[i] \in FrameOf(A)
    BY <1>1
  <2>2. (stack[i].gone \/ Erased(Q, stack[i].path)) \in BOOLEAN
    OBVIOUS
  <2> QED BY <2>1, <2>2 DEF FrameOf
<1> QED BY <1>1, <1>2 DEF Popped

LEMMA EndCallType ==
  ASSUME Typed, EndCall
  PROVE  Typed'
<1>1. stack' \in Seq(FrameOf(alive)) /\ Len(stack') = Len(stack) - 1
  BY EndCallParts, StackType, PopType DEF EndCall
<1>2. Len(stack') <= MaxDepth
  BY <1>1, StackType, ReactionAssumption DEF Typed, TypeOK
<1>3. <<>> \in node'
  <2>1. stack # <<>>
    BY DEF EndCall
  <2>2. Top \in FrameOf(alive)
    BY <2>1, StackType, TopType
  <2>3. Top.path \in AnyPath
    BY <2>2, AboveTypes DEF FrameOf
  <2>4. \A q \in Removed : q \in AnyPath /\ q # <<>>
    BY <2>3, AbovePrefix DEF Removed, CleanUp
  <2>5. ~Erased(Removed, <<>>)
    BY <2>4, PrefixOrder DEF Erased
  <2> QED BY <2>5, EndCallParts DEF Typed, TypeOK
<1>4. node' \subseteq AllNodes
  BY EndCallParts DEF Typed, TypeOK
<1>5. crashed' \in BOOLEAN
  BY DEF EndCall
<1> QED BY <1>1, <1>2, <1>3, <1>4, <1>5 DEF EndCall, Typed, TypeOK, Living, FrameOf, cbVars

LEMMA RegisterType ==
  ASSUME Typed, NEW a \in Cb, NEW C \in SUBSET CbPath, Register(a, C)
  PROVE  Typed'
<1>1. node' \subseteq AllNodes /\ <<>> \in node'
  BY AboveTypes DEF Register, Typed, TypeOK
<1>2. told' \in [Cb -> [Path -> Val \cup {NoVal}]]
  BY DEF Register, Typed, TypeOK
<1>3. want' \in [Cb -> SUBSET CbPath] /\ cbs' \in [CbPath -> SUBSET Cb]
  BY DEF Register, Typed, TypeOK
<1>4. Living' /\ \A c \in CbPath : expired'[c] \subseteq cbs'[c]
  BY DEF Register, Typed, TypeOK, Living
<1> QED BY <1>1, <1>2, <1>3, <1>4 DEF Register, Typed, TypeOK

LEMMA UnregisterType ==
  ASSUME Typed, NEW a \in Cb, NEW C \in SUBSET CbPath, Unregister(a, C)
  PROVE  Typed'
<1>1. told' \in [Cb -> [Path -> Val \cup {NoVal}]]
  BY DEF Unregister, Typed, TypeOK
<1>2. /\ want' \in [Cb -> SUBSET CbPath] /\ cbs' \in [CbPath -> SUBSET Cb]
      /\ expired' \in [CbPath -> SUBSET Cb]
  BY DEF Unregister, Typed, TypeOK
<1>3. Living' /\ \A c \in CbPath : expired'[c] \subseteq cbs'[c]
  BY DEF Unregister, Typed, TypeOK, Living
<1> QED BY <1>1, <1>2, <1>3 DEF Unregister, Typed, TypeOK

(* A callback that a call has yet to notify, or that runs, is not destroyed. *)
LEMMA DestroyType ==
  ASSUME Typed, NEW a \in Cb, Destroy(a)
  PROVE  Typed'
<1>1. stack \in Seq(FrameOf(alive \ {a}))
  <2>1. ASSUME NEW i \in DOMAIN stack
        PROVE  stack[i] \in FrameOf(alive \ {a})
    <3>1. stack[i] \in FrameOf(alive) /\ stack[i] \in Frames
      BY StackType DEF Frames
    <3>2. a \notin stack[i].todo /\ a # stack[i].cb
      BY <3>1 DEF Destroy, Pending
    <3> QED BY <3>1, <3>2 DEF FrameOf
  <2> QED BY <2>1, StackType, SeqOver
<1>2. told' \in [Cb -> [Path -> Val \cup {NoVal}]]
  BY DEF Destroy, Typed, TypeOK
<1>3. want' \in [Cb -> SUBSET CbPath] /\ expired' \in [CbPath -> SUBSET Cb]
  BY DEF Destroy, Typed, TypeOK
<1>4. Living' /\ \A c \in CbPath : expired'[c] \subseteq cbs'[c]
  BY DEF Destroy, Typed, TypeOK, Living
<1>5. alive' = alive \ {a} /\ stack' = stack
  BY DEF Destroy
<1> QED BY <1>1, <1>2, <1>3, <1>4, <1>5 DEF Destroy, Typed, TypeOK, FrameOf

LEMMA NewType ==
  ASSUME Typed, NEW a \in Cb, New(a)
  PROVE  Typed'
<1>1. stack \in Seq(FrameOf(alive \cup {a}))
  <2>1. FrameOf(alive) \subseteq FrameOf(alive \cup {a})
    BY DEF FrameOf
  <2>2. ASSUME NEW i \in DOMAIN stack PROVE stack[i] \in FrameOf(alive \cup {a})
    <3>1. stack[i] \in FrameOf(alive)
      BY StackType
    <3> QED BY <2>1, <3>1
  <2> QED BY <2>2, StackType, SeqOver
<1>2. alive' = alive \cup {a} /\ stack' = stack /\ UNCHANGED <<treeVars, want, told, crashed>>
  BY DEF New
<1> QED BY <1>1, <1>2 DEF Typed, TypeOK, FrameOf, Living, treeVars

LEMMA TypedInit == Init => Typed
<1> SUFFICES ASSUME Init PROVE Typed
  OBVIOUS
<1>1. <<>> \in AllNodes
  BY DEF AllNodes
<1>2. stack \in Seq(FrameOf(alive)) /\ Len(stack) <= MaxDepth
  BY ReactionAssumption DEF Init
<1>3. told \in [Cb -> [Path -> Val \cup {NoVal}]] /\ want \in [Cb -> SUBSET CbPath]
  BY DEF Init
<1>4. /\ cbs \in [CbPath -> SUBSET Cb] /\ expired \in [CbPath -> SUBSET Cb]
      /\ \A c \in CbPath : expired[c] \subseteq cbs[c] /\ cbs[c] \ expired[c] \subseteq alive
  BY DEF Init
<1>5. obj \in [Path -> Val \cup {NoVal}] /\ alive \subseteq Cb /\ crashed \in BOOLEAN
      /\ node \subseteq AllNodes /\ <<>> \in node
  BY <1>1 DEF Init
<1> QED BY <1>2, <1>3, <1>4, <1>5 DEF Typed, TypeOK, Living, FrameOf

LEMMA TypedStep == Typed /\ [Next]_vars => Typed'
<1> SUFFICES ASSUME Typed, [Next]_vars PROVE Typed'
  OBVIOUS
<1>1. ASSUME NEW p \in Path, DelObject(p) PROVE Typed'
  BY <1>1, DelObjectType
<1>2. ASSUME NEW p \in Path, NEW v \in Val, PutObject(p, v) PROVE Typed'
  BY <1>2, PutObjectType
<1>3. CASE Notify
  BY <1>3, NotifyType
<1>4. CASE Return
  BY <1>4, ReturnType
<1>5. CASE EndCall
  BY <1>5, EndCallType
<1>6. ASSUME NEW a \in Cb, New(a) PROVE Typed'
  BY <1>6, NewType
<1>7. ASSUME NEW a \in Cb, Destroy(a) PROVE Typed'
  BY <1>7, DestroyType
<1>8. ASSUME NEW a \in Cb, NEW C \in SUBSET CbPath, Register(a, C) PROVE Typed'
  BY <1>8, RegisterType
<1>9. ASSUME NEW a \in Cb, NEW C \in SUBSET CbPath, Unregister(a, C) PROVE Typed'
  BY <1>9, UnregisterType
<1>10. CASE UNCHANGED vars
  BY <1>10 DEF vars, treeVars, cbVars, Typed, TypeOK, Living
<1> QED BY <1>1, <1>2, <1>3, <1>4, <1>5, <1>6, <1>7, <1>8, <1>9, <1>10 DEF Next

(* The tree keeps its types; what a call has yet to notify is there: a callback *)
(* is not destroyed under a call that has collected it (ObexTree.cpp:167).      *)
THEOREM TreeTypeCorrect == Spec => []TypeOK
<1>1. Init => Typed
  BY TypedInit
<1>2. Typed /\ [Next]_vars => Typed'
  BY TypedStep
<1>3. Typed => TypeOK
  BY DEF Typed
<1> QED BY <1>1, <1>2, <1>3, PTL DEF Spec

-----------------------------------------------------------------------------
(* The clean-up                                                              *)

(* The nodes that objects and callbacks need. *)
ObjNodes == \A p \in Path : obj[p] # NoVal => Above(p) \subseteq node
CbNodes  == \A c \in CbPath : cbs[c] # {} => Above(c.base) \subseteq node

LEMMA NodesKeptParts == (NodesKept <=> ObjNodes /\ CbNodes) /\ (NodesKept' <=> ObjNodes' /\ CbNodes')
BY DEF NodesKept, ObjNodes, CbNodes

(* What the end of a call erases of the tree lies on the way to the object it *)
(* deleted, and neither an object nor a callback is there.                    *)
LEMMA ErasedOnTheWay ==
  ASSUME Typed, stack # <<>>, NEW n \in node, Erased(Removed, n)
  PROVE  Top.op = "del" /\ ~Top.gone /\ n \in Above(Top.path) /\ ~Holds(n)
<1>1. Top.op = "del" /\ ~Top.gone /\ Removed = CleanUp(Top.path)
  BY DEF Removed, Erased
<1>2. PICK q \in CleanUp(Top.path) : IsPrefix(q, n)
  BY <1>1 DEF Erased
<1> QED BY <1>1, <1>2 DEF CleanUp

(* A node stays when a node below it that holds something does. *)
LEMMA HeldStays ==
  ASSUME Typed, stack # <<>>, NEW p \in AnyPath, Above(p) \subseteq node, Holds(p),
         NEW n \in Above(p)
  PROVE  ~Erased(Removed, n)
<1> SUFFICES ASSUME Erased(Removed, n) PROVE FALSE
  OBVIOUS
<1>1. PICK q \in Removed : IsPrefix(q, n)
  BY DEF Erased
<1>2. Top \in FrameOf(alive)
  BY StackType, TopType
<1>3. Top.path \in AnyPath
  BY <1>2, AboveTypes DEF FrameOf
<1>4. q \in AnyPath
  BY <1>3, AbovePrefix DEF Removed, CleanUp
<1>5. n \in AnyPath /\ IsPrefix(n, p)
  BY AbovePrefix
<1>6. IsPrefix(q, p)
  BY <1>1, <1>4, <1>5, PrefixOrder
<1>7. Erased(Removed, p)
  BY <1>6 DEF Erased
<1>8. p \in node
  BY AbovePrefix, PrefixOrder
<1> QED BY <1>7, <1>8, ErasedOnTheWay

LEMMA EndCallNodes ==
  ASSUME Typed, NodesKept, EndCall
  PROVE  NodesKept'
<1>1. stack # <<>> /\ UNCHANGED <<obj, cbs>>
  BY DEF EndCall
<1>2. ASSUME NEW p \in Path, obj[p] # NoVal, NEW n \in Above(p)
      PROVE  n \in node'
  <2>1. p \in AnyPath /\ Holds(p)
    BY <1>2, AboveTypes DEF Holds
  <2>2. Above(p) \subseteq node
    BY <1>2 DEF NodesKept
  <2>3. ~Erased(Removed, n)
    BY <1>1, <2>1, <2>2, HeldStays
  <2> QED BY <2>2, <2>3, EndCallParts
<1>3. ASSUME NEW c \in CbPath, cbs[c] # {}, NEW n \in Above(c.base)
      PROVE  n \in node'
  <2>1. c.base \in AnyPath /\ Holds(c.base)
    BY <1>3, AboveTypes DEF Holds
  <2>2. Above(c.base) \subseteq node
    BY <1>3 DEF NodesKept
  <2>3. ~Erased(Removed, n)
    BY <1>1, <2>1, <2>2, HeldStays
  <2> QED BY <2>2, <2>3, EndCallParts
<1> QED BY <1>1, <1>2, <1>3 DEF NodesKept

(* Purge never makes an empty set of callbacks a nonempty one. *)
LEMMA PurgeShrinks ==
  ASSUME NEW p \in Path, NEW changed \in BOOLEAN, Purge(p, changed)
  PROVE  \A c \in CbPath : cbs'[c] \subseteq cbs[c]
BY DEF Purge

LEMMA NodesKeptStep == Typed /\ NodesKept /\ [Next]_vars => NodesKept'
<1> SUFFICES ASSUME Typed, NodesKept, [Next]_vars PROVE NodesKept'
  OBVIOUS
<1>1. ASSUME NEW p \in Path, DelObject(p) PROVE NodesKept'
  <2>1. (\A c \in CbPath : cbs'[c] \subseteq cbs[c]) /\ node' = node
    BY <1>1, PurgeShrinks DEF DelObject, Change
  <2>2. \A q \in Path : obj'[q] # NoVal => obj[q] # NoVal
    BY <1>1 DEF DelObject, Change, Typed, TypeOK
  <2> QED BY <2>1, <2>2 DEF NodesKept
<1>2. ASSUME NEW p \in Path, NEW v \in Val, PutObject(p, v) PROVE NodesKept'
  <2>1. (\A c \in CbPath : cbs'[c] \subseteq cbs[c]) /\ node' = node \cup Above(p)
    BY <1>2, PurgeShrinks DEF PutObject, Change
  <2>2. \A q \in Path : q # p => obj'[q] = obj[q]
    BY <1>2 DEF PutObject, Change, Typed, TypeOK
  <2> QED BY <2>1, <2>2 DEF NodesKept
<1>3. CASE Notify
  BY <1>3 DEF Notify, NodesKept, treeVars
<1>4. CASE Return
  BY <1>4 DEF Return, NodesKept, treeVars
<1>5. CASE EndCall
  BY <1>5, EndCallNodes
<1>6. ASSUME NEW a \in Cb, New(a) PROVE NodesKept'
  BY <1>6 DEF New, NodesKept, treeVars
<1>7. ASSUME NEW a \in Cb, Destroy(a) PROVE NodesKept'
  BY <1>7 DEF Destroy, NodesKept
<1>8. ASSUME NEW a \in Cb, NEW C \in SUBSET CbPath, Register(a, C) PROVE NodesKept'
  <2>1. /\ node' = node \cup UNION {Above(c.base) : c \in C} /\ UNCHANGED obj
        /\ cbs' = [c \in CbPath |-> IF c \in C THEN cbs[c] \cup {a} ELSE cbs[c]]
    BY <1>8 DEF Register
  <2>2. ObjNodes'
    BY <2>1 DEF NodesKept, ObjNodes
  <2>3. CbNodes'
    BY <2>1 DEF NodesKept, CbNodes
  <2> QED BY <2>2, <2>3, NodesKeptParts
<1>9. ASSUME NEW a \in Cb, NEW C \in SUBSET CbPath, Unregister(a, C) PROVE NodesKept'
  <2>1. UNCHANGED <<node, obj>> /\ \A c \in CbPath : cbs'[c] \subseteq cbs[c]
    BY <1>9 DEF Unregister
  <2> QED BY <2>1 DEF NodesKept
<1>10. CASE UNCHANGED vars
  BY <1>10 DEF vars, treeVars, NodesKept
<1> QED BY <1>1, <1>2, <1>3, <1>4, <1>5, <1>6, <1>7, <1>8, <1>9, <1>10 DEF Next

(* The clean-up of a call removes no node that an object or a callback needs,   *)
(* whatever callbacks have put, registered and deleted since the call was made. *)
THEOREM NodesKeptCorrect == Spec => []NodesKept
<1>1. Init => NodesKept
  BY DEF Init, NodesKept
<1>2. Typed /\ NodesKept /\ [Next]_vars => NodesKept'
  BY NodesKeptStep
<1>3. Init => Typed
  BY TypedInit
<1>4. Typed /\ [Next]_vars => Typed'
  BY TypedStep
<1> QED BY <1>1, <1>2, <1>3, <1>4, PTL DEF Spec

-----------------------------------------------------------------------------
(* Litter                                                                    *)

(* What keeps a node: an object, a callback path, or a node below it. *)
Used(n) ==
  \/ n \in Path /\ obj[n] # NoVal
  \/ \E c \in CbPath : c.base = n
  \/ \E m \in node : IsStrictPrefix(n, m)

(* A node that nothing keeps is on the way of a deletion that has yet to clean *)
(* up. Once the clean-up has gone wrong nothing is known.                      *)
Swept ==
  ~crashed => \A n \in node \ {<<>>} :
    Used(n) \/ \E f \in Frames : f.op = "del" /\ n \in Above(f.path)

(* What is on the way to a node lies above it, but for the node itself. *)
LEMMA AboveStrict ==
  ASSUME NEW p \in AnyPath, NEW n \in Above(p)
  PROVE  n = p \/ IsStrictPrefix(n, p)
<1>1. n \in AnyPath /\ IsPrefix(n, p)
  BY AbovePrefix
<1> QED BY <1>1 DEF IsStrictPrefix

(* The frames of the stack with one more on top ... *)
LEMMA AppendFrames ==
  ASSUME NEW S, stack \in Seq(S), NEW f, stack' = Append(stack, f)
  PROVE  Frames' = Frames \cup {f}
<1>1. DOMAIN stack = 1 .. Len(stack) /\ Len(stack) \in Nat /\ DOMAIN stack' = 1 .. Len(stack) + 1
  OBVIOUS
<1>2. stack'[Len(stack) + 1] = f /\ \A i \in 1 .. Len(stack) : stack'[i] = stack[i]
  OBVIOUS
<1> QED BY <1>1, <1>2 DEF Frames

(* ... with another one on top ... *)
LEMMA SetTopFrames ==
  ASSUME NEW S, stack \in Seq(S), stack # <<>>, NEW f \in S, stack' = SetTop(f)
  PROVE  /\ Frames' \subseteq Frames \cup {f}
         /\ Frames \subseteq Frames' \cup {Top}
         /\ f \in Frames'
BY TopType DEF Frames, Top

(* ... and without the top. *)
LEMMA PopFrames ==
  ASSUME NEW A, stack \in Seq(FrameOf(A)), stack # <<>>, NEW Q, stack' = Popped(Q)
  PROVE  /\ \A f \in Frames : f = Top \/ [f EXCEPT !.gone = @ \/ Erased(Q, f.path)] \in Frames'
         /\ \A g \in Frames' : \E f \in Frames : g = [f EXCEPT !.gone = @ \/ Erased(Q, f.path)]
<1>1. Len(stack) \in Nat \ {0}
  OBVIOUS
<1>2. /\ DOMAIN stack' = 1 .. Len(stack) - 1 /\ DOMAIN stack = 1 .. Len(stack)
      /\ \A i \in 1 .. Len(stack) - 1 : stack'[i] = [stack[i] EXCEPT !.gone = @ \/ Erased(Q, stack[i].path)]
  BY PopType
<1>3. ASSUME NEW i \in 1 .. Len(stack)
      PROVE  i = Len(stack) \/ i \in 1 .. Len(stack) - 1
  BY <1>1
<1>4. ASSUME NEW f \in Frames, f # Top
      PROVE  [f EXCEPT !.gone = @ \/ Erased(Q, f.path)] \in Frames'
  <2>1. PICK i \in 1 .. Len(stack) : f = stack[i]
    BY <1>2 DEF Frames
  <2>2. i \in 1 .. Len(stack) - 1
    BY <1>3, <1>4, <2>1 DEF Top
  <2> QED BY <1>2, <2>1, <2>2 DEF Frames
<1>5. ASSUME NEW g \in Frames'
      PROVE  \E f \in Frames : g = [f EXCEPT !.gone = @ \/ Erased(Q, f.path)]
  <2>1. PICK i \in 1 .. Len(stack) - 1 : g = stack'[i]
    BY <1>2 DEF Frames
  <2>2. stack[i] \in Frames
    BY <1>1, <1>2 DEF Frames
  <2> QED BY <1>2, <2>1, <2>2
<1> QED BY <1>4, <1>5

LEMMA FrameType ==
  ASSUME Typed, NEW f \in Frames
  PROVE  f \in FrameOf(alive) /\ f.path \in Path
<1>1. f \in FrameOf(alive)
  BY StackType DEF Frames
<1> QED BY <1>1 DEF FrameOf

(* A deletion that has yet to clean up has n on its way. *)
OnWay(n) == \E f \in Frames : f.op = "del" /\ n \in Above(f.path)

LEMMA SweptPut ==
  ASSUME Typed, Swept, NEW p \in Path, NEW v \in Val, PutObject(p, v)
  PROVE  Swept'
<1> SUFFICES ASSUME ~crashed', NEW n \in node' \ {<<>>} PROVE Used(n)' \/ OnWay(n)'
  BY DEF Swept, OnWay
<1>1. ~crashed /\ node' = node \cup Above(p) /\ v # NoVal
  BY ValAssumption DEF PutObject
<1>2. obj'[p] = v /\ \A q \in Path : q # p => obj'[q] = obj[q]
  BY DEF PutObject, Change, Typed, TypeOK
<1>3. p \in AnyPath /\ p \in node'
  BY <1>1, AboveTypes, AbovePrefix, PrefixOrder
<1>4. Frames \subseteq Frames'
  <2>1. CASE UNCHANGED stack
    BY <2>1 DEF Frames
  <2>2. CASE Change("put", p, v)
    BY <2>2, StackType, AppendFrames DEF Change
  <2> QED BY <2>1, <2>2 DEF PutObject
<1>5. CASE n \in Above(p)
  <2>1. n = p \/ IsStrictPrefix(n, p)
    BY <1>3, <1>5, AboveStrict
  <2> QED BY <1>1, <1>2, <1>3, <2>1 DEF Used
<1>6. CASE n \notin Above(p)
  <2>1. n \in node \ {<<>>}
    BY <1>1, <1>6
  <2>2. CASE Used(n)
    <3>1. Used(n)'
      BY <1>1, <1>2, <2>2 DEF Used
    <3> QED BY <3>1
  <2>3. CASE OnWay(n)
    BY <1>4, <2>3 DEF OnWay
  <2> QED BY <1>1, <2>1, <2>2, <2>3 DEF Swept, OnWay
<1> QED BY <1>5, <1>6

LEMMA SweptDel ==
  ASSUME Typed, Swept, NEW p \in Path, DelObject(p)
  PROVE  Swept'
<1> SUFFICES ASSUME ~crashed', NEW n \in node' \ {<<>>} PROVE Used(n)' \/ OnWay(n)'
  BY DEF Swept, OnWay
<1>1. ~crashed /\ node' = node
  BY DEF DelObject
<1>2. Used(n) \/ OnWay(n)
  BY <1>1 DEF Swept, OnWay
<1>3. CASE UNCHANGED <<obj, stack>>
  BY <1>1, <1>2, <1>3 DEF Used, OnWay, Frames
<1>4. CASE Change("del", p, NoVal)
  <2> DEFINE f == [op |-> "del", path |-> p, val |-> NoVal, todo |-> Called(p),
                   cb |-> NoCb, gone |-> FALSE]
  <2>1. Frames' = Frames \cup {f}
    BY <1>4, StackType, AppendFrames DEF Change
  <2>2. obj' = [obj EXCEPT ![p] = NoVal]
    BY <1>4 DEF Change
  <2>3. CASE n = p
    <3>1. n \in Above(p)
      BY <2>3, AboveTypes, AbovePrefix, PrefixOrder
    <3>2. f \in Frames' /\ f.op = "del" /\ f.path = p
      BY <2>1
    <3>3. \E g \in Frames' : g.op = "del" /\ n \in Above(g.path)
      BY <3>1, <3>2
    <3> QED BY <3>3 DEF OnWay
  <2>4. CASE n # p
    <3>1. OnWay(n) => OnWay(n)'
      BY <2>1 DEF OnWay
    <3>2. obj'[n] = obj[n] \/ n \notin Path
      BY <2>2, <2>4 DEF Typed, TypeOK
    <3>3. Used(n) => Used(n)'
      BY <1>1, <3>2 DEF Used
    <3> QED BY <1>2, <3>1, <3>3
  <2> QED BY <2>3, <2>4
<1> QED BY <1>3, <1>4 DEF DelObject

(* What the end of a call leaves on its way, something keeps. *)
LEMMA SweptEndCall ==
  ASSUME Typed, Swept, EndCall
  PROVE  Swept'
<1> SUFFICES ASSUME ~crashed', NEW n \in node' \ {<<>>} PROVE Used(n)' \/ OnWay(n)'
  BY DEF Swept, OnWay
<1>1. stack # <<>> /\ ~crashed /\ UNCHANGED <<obj, cbs>> /\ crashed' = (Top.op = "del" /\ Top.gone)
  BY DEF EndCall
<1>2. node' = {m \in node : ~Erased(Removed, m)} /\ stack' = Popped(Removed)
  BY EndCallParts
<1>3. n \in node \ {<<>>} /\ ~Erased(Removed, n)
  BY <1>2
<1>4. Top \in Frames /\ Top \in FrameOf(alive) /\ Top.path \in AnyPath
  <2>1. Top \in Frames /\ Top \in FrameOf(alive)
    BY <1>1, StackType, TopType
  <2> QED BY <2>1, FrameType, AboveTypes
<1>5. CASE Top.op = "del" /\ n \in Above(Top.path)
  <2>1. n \in AnyPath /\ IsPrefix(n, n)
    BY <1>4, <1>5, AbovePrefix, PrefixOrder
  <2>2. Removed = CleanUp(Top.path)
    BY <1>1, <1>5 DEF Removed
  <2>3. n \notin CleanUp(Top.path)
    BY <1>3, <2>1, <2>2 DEF Erased
  <2>4. PICK m \in node : IsPrefix(n, m) /\ (m \notin Above(Top.path) \/ Holds(m))
    BY <1>3, <1>5, <2>3 DEF CleanUp
  <2>5. m \in node'
    BY <1>1, <1>2, <2>4, ErasedOnTheWay
  <2>6. CASE m = n
    <3>1. Holds(n)
      BY <1>5, <2>4, <2>6
    <3>2. Used(n)'
      BY <1>1, <3>1 DEF Holds, Used
    <3> QED BY <3>2
  <2>7. CASE m # n
    BY <2>4, <2>5, <2>7 DEF Used, IsStrictPrefix
  <2> QED BY <2>6, <2>7
<1>6. CASE ~(Top.op = "del" /\ n \in Above(Top.path))
  <2>1. CASE OnWay(n)
    <3>1. PICK f \in Frames : f.op = "del" /\ n \in Above(f.path)
      BY <2>1 DEF OnWay
    <3>2. f # Top
      BY <1>6, <3>1
    <3>3. [f EXCEPT !.gone = @ \/ Erased(Removed, f.path)] \in Frames'
      BY <1>1, <1>2, <3>2, StackType, PopFrames
    <3>4. f \in FrameOf(alive)
      BY FrameType
    <3> QED BY <3>1, <3>3, <3>4 DEF OnWay, FrameOf
  <2>2. CASE \E m \in node : IsStrictPrefix(n, m)
    <3>1. PICK m \in node : IsStrictPrefix(n, m)
      BY <2>2
    <3>2. ASSUME Erased(Removed, m) PROVE FALSE
      <4>1. Top.op = "del" /\ m \in Above(Top.path)
        BY <1>1, <3>2, ErasedOnTheWay
      <4>2. m \in AnyPath /\ IsPrefix(m, Top.path)
        BY <1>4, <4>1, AbovePrefix
      <4>3. n \in AnyPath /\ IsPrefix(n, m)
        BY <1>3, <3>1, AboveTypes DEF IsStrictPrefix, Typed, TypeOK
      <4>4. n \in Above(Top.path)
        BY <1>4, <4>2, <4>3, PrefixOrder, AbovePrefix
      <4> QED BY <1>6, <4>1, <4>4
    <3> QED BY <1>2, <3>1, <3>2 DEF Used
  <2>3. CASE (n \in Path /\ obj[n] # NoVal) \/ \E c \in CbPath : c.base = n
    BY <1>1, <2>3 DEF Used
  <2> QED BY <1>1, <1>3, <2>1, <2>2, <2>3 DEF Swept, Used, OnWay
<1> QED BY <1>5, <1>6

LEMMA SweptRegister ==
  ASSUME Typed, Swept, NEW a \in Cb, NEW C \in SUBSET CbPath, Register(a, C)
  PROVE  Swept'
<1> SUFFICES ASSUME ~crashed', NEW n \in node' \ {<<>>} PROVE Used(n)' \/ OnWay(n)'
  BY DEF Swept, OnWay
<1>1. /\ ~crashed /\ UNCHANGED <<obj, stack>>
      /\ node' = node \cup UNION {Above(c.base) : c \in C}
  BY DEF Register
<1>2. CASE n \in node
  <2>1. Used(n) \/ OnWay(n)
    BY <1>1, <1>2 DEF Swept, OnWay
  <2> QED BY <1>1, <2>1 DEF Used, OnWay, Frames
<1>3. CASE n \notin node
  <2>1. PICK c \in C : n \in Above(c.base)
    BY <1>1, <1>3
  <2>2. c.base \in AnyPath /\ c.base \in Above(c.base)
    BY AboveTypes, AbovePrefix, PrefixOrder
  <2>3. c.base \in node'
    BY <1>1, <2>2
  <2>4. n = c.base \/ IsStrictPrefix(n, c.base)
    BY <2>1, <2>2, AboveStrict
  <2> QED BY <2>3, <2>4 DEF Used
<1> QED BY <1>2, <1>3

(* Another frame for the top, of the same call, changes nothing for the nodes. *)
LEMMA SweptSetTop ==
  ASSUME Typed, Swept, stack # <<>>, NEW f \in FrameOf(Cb), f.op = Top.op, f.path = Top.path,
         stack' = SetTop(f), UNCHANGED <<node, obj, crashed>>
  PROVE  Swept'
<1>1. FrameOf(alive) \subseteq FrameOf(Cb)
  BY DEF FrameOf, Typed, TypeOK
<1>2. stack \in Seq(FrameOf(Cb))
  BY <1>1, StackType, SeqOver
<1>3. Frames \subseteq Frames' \cup {Top} /\ f \in Frames'
  BY <1>2, SetTopFrames
<1>4. ASSUME NEW n, OnWay(n) PROVE OnWay(n)'
  BY <1>3, <1>4 DEF OnWay
<1>5. ASSUME NEW n, Used(n) PROVE Used(n)'
  BY <1>5 DEF Used
<1> QED BY <1>4, <1>5 DEF Swept, OnWay

LEMMA SweptStep == Typed /\ Swept /\ [Next]_vars => Swept'
<1> SUFFICES ASSUME Typed, Swept, [Next]_vars PROVE Swept'
  OBVIOUS
<1>1. ASSUME UNCHANGED <<node, obj, stack, crashed>> PROVE Swept'
  BY <1>1 DEF Swept, Used, Frames
<1>2. ASSUME NEW p \in Path, DelObject(p) PROVE Swept'
  BY <1>2, SweptDel
<1>3. ASSUME NEW p \in Path, NEW v \in Val, PutObject(p, v) PROVE Swept'
  BY <1>3, SweptPut
<1>4. CASE Notify
  <2>1. PICK a \in Top.todo : stack' = SetTop([Top EXCEPT !.cb = a, !.todo = @ \ {a}])
    BY <1>4 DEF Notify
  <2>2. Top \in FrameOf(alive) /\ alive \subseteq Cb /\ stack # <<>>
    BY <1>4, StackType, TopType DEF Notify, Typed, TypeOK
  <2>3. [Top EXCEPT !.cb = a, !.todo = @ \ {a}] \in FrameOf(Cb)
    BY <2>2 DEF FrameOf
  <2> QED BY <1>4, <2>1, <2>2, <2>3, SweptSetTop DEF Notify, treeVars, FrameOf
<1>5. CASE Return
  <2>1. Top \in FrameOf(alive) /\ alive \subseteq Cb /\ stack # <<>>
    BY <1>5, StackType, TopType DEF Return, Typed, TypeOK
  <2>2. [Top EXCEPT !.cb = NoCb] \in FrameOf(Cb)
    BY <2>1 DEF FrameOf
  <2> QED BY <1>5, <2>1, <2>2, SweptSetTop DEF Return, treeVars, FrameOf
<1>6. CASE EndCall
  BY <1>6, SweptEndCall
<1>7. ASSUME NEW a \in Cb, NEW C \in SUBSET CbPath, Register(a, C) PROVE Swept'
  BY <1>7, SweptRegister
<1>8. ASSUME NEW a \in Cb,
             New(a) \/ Destroy(a) \/ \E C \in SUBSET CbPath : Unregister(a, C)
      PROVE Swept'
  BY <1>1, <1>8 DEF New, Destroy, Unregister, treeVars
<1>9. CASE UNCHANGED vars
  BY <1>1, <1>9 DEF vars, treeVars
<1> QED BY <1>2, <1>3, <1>4, <1>5, <1>6, <1>7, <1>8, <1>9 DEF Next

(* Between calls the tree has no litter: the clean-up that a deletion makes when *)
(* its callbacks have returned removes all that nothing keeps (ObexTree.cpp:310). *)
THEOREM NoLitterCorrect == Spec => []NoLitter
<1>1. Init => Swept
  BY DEF Init, Swept
<1>2. Typed /\ Swept /\ [Next]_vars => Swept'
  BY SweptStep
<1>3. Swept => NoLitter
  BY DEF Swept, NoLitter, Used, Frames
<1>4. Init => Typed
  BY TypedInit
<1>5. Typed /\ [Next]_vars => Typed'
  BY TypedStep
<1> QED BY <1>1, <1>2, <1>3, <1>4, <1>5, PTL DEF Spec

-----------------------------------------------------------------------------
(* Dangling pointers                                                         *)

(* No callback that is told of an object changes that object or one below it. *)
NotBelow == \A p, q \in Path : <<p, q>> \in Reaction => ~IsPrefix(p, q)

(* The calls on the stack are each made by callbacks of those below; their      *)
(* nodes are in the tree.                                                       *)
Anchored ==
  /\ ~crashed
  /\ \A i \in DOMAIN stack : ~stack[i].gone /\ stack[i].path \in node
  /\ \A i, j \in DOMAIN stack : i < j => <<stack[i].path, stack[j].path>> \in Reaction

LEMMA AnchoredChange ==
  ASSUME Typed, Anchored, NEW op, NEW p \in Path, NEW v, MayChange(p), Change(op, p, v),
         UNCHANGED crashed, node \subseteq node', p \in node'
  PROVE  Anchored'
<1> DEFINE f == [op |-> op, path |-> p, val |-> v, todo |-> Called(p), cb |-> NoCb, gone |-> FALSE]
<1>1. stack' = Append(stack, f) /\ f.path = p /\ f.gone = FALSE
  BY DEF Change
<1> HIDE DEF f
<1>2. Len(stack) \in Nat /\ DOMAIN stack = 1 .. Len(stack) /\ DOMAIN stack' = 1 .. Len(stack) + 1
  BY <1>1, StackType
<1>3. stack'[Len(stack) + 1] = f /\ \A i \in 1 .. Len(stack) : stack'[i] = stack[i]
  BY <1>1, StackType
<1>4. \A i \in DOMAIN stack : <<stack[i].path, p>> \in Reaction
  BY DEF MayChange, Frames
<1>5. \A i \in DOMAIN stack' : i \in DOMAIN stack \/ i = Len(stack) + 1
  BY <1>2
<1>6. \A i \in DOMAIN stack' : ~stack'[i].gone /\ stack'[i].path \in node'
  BY <1>1, <1>2, <1>3, <1>5 DEF Anchored
<1>7. ASSUME NEW i \in DOMAIN stack', NEW j \in DOMAIN stack', i < j
      PROVE  <<stack'[i].path, stack'[j].path>> \in Reaction
  <2>1. i \in DOMAIN stack
    BY <1>2, <1>7
  <2> QED BY <1>1, <1>2, <1>3, <1>4, <1>5, <1>7, <2>1 DEF Anchored
<1> QED BY <1>6, <1>7 DEF Anchored

(* The clean-up of a call stays off the ways of the calls below it. *)
LEMMA AnchoredEndCall ==
  ASSUME NotBelow, Typed, Anchored, EndCall
  PROVE  Anchored'
<1>1. stack # <<>> /\ crashed' = (Top.op = "del" /\ Top.gone)
  BY DEF EndCall
<1>2. stack' = Popped(Removed) /\ node' = {m \in node : ~Erased(Removed, m)}
  BY EndCallParts
<1>3. Len(stack) \in DOMAIN stack /\ Top = stack[Len(stack)] /\ Len(stack) \in Nat
  BY <1>1, StackType, TopType DEF Top
<1>4. /\ DOMAIN stack' = 1 .. Len(stack) - 1 /\ DOMAIN stack = 1 .. Len(stack)
      /\ \A i \in 1 .. Len(stack) - 1 :
           /\ stack[i] \in FrameOf(alive)
           /\ stack'[i] = [stack[i] EXCEPT !.gone = @ \/ Erased(Removed, stack[i].path)]
  BY <1>1, <1>2, StackType, PopType
<1>5. Top.path \in Path /\ Top.path \in AnyPath
  BY <1>3, FrameType, AboveTypes DEF Frames
<1>6. ASSUME NEW i \in DOMAIN stack'
      PROVE  i \in DOMAIN stack /\ ~Erased(Removed, stack[i].path)
  <2>1. i \in DOMAIN stack /\ i < Len(stack)
    BY <1>3, <1>4
  <2>2. stack[i].path \in Path /\ stack[i].path \in node
    BY <2>1, FrameType DEF Anchored, Frames
  <2>3. ~IsPrefix(stack[i].path, Top.path)
    BY <1>3, <1>5, <2>1, <2>2 DEF Anchored, NotBelow
  <2>4. stack[i].path \notin Above(Top.path)
    BY <1>5, <2>3, AbovePrefix
  <2> QED BY <1>1, <2>1, <2>2, <2>4, ErasedOnTheWay
<1>7. \A i \in DOMAIN stack' : /\ stack'[i].path = stack[i].path
                               /\ stack'[i].gone = stack[i].gone
  BY <1>4, <1>6 DEF FrameOf
<1>8. ~crashed'
  BY <1>1, <1>3 DEF Anchored
<1> QED BY <1>2, <1>6, <1>7, <1>8 DEF Anchored

LEMMA AnchoredSetTop ==
  ASSUME Typed, Anchored, stack # <<>>, NEW f \in FrameOf(Cb), f.path = Top.path, f.gone = Top.gone,
         stack' = SetTop(f), UNCHANGED <<node, crashed>>
  PROVE  Anchored'
<1>1. FrameOf(alive) \subseteq FrameOf(Cb)
  BY DEF FrameOf, Typed, TypeOK
<1>2. stack \in Seq(FrameOf(Cb))
  BY <1>1, StackType, SeqOver
<1>3. /\ DOMAIN stack' = DOMAIN stack /\ stack'[Len(stack)] = f
      /\ \A i \in DOMAIN stack : i # Len(stack) => stack'[i] = stack[i]
  BY <1>2, TopType
<1>4. \A i \in DOMAIN stack : stack'[i].path = stack[i].path /\ stack'[i].gone = stack[i].gone
  BY <1>3 DEF Top
<1> QED BY <1>3, <1>4 DEF Anchored

LEMMA AnchoredStep ==
  ASSUME NotBelow, Typed, NodesKept, Anchored, [Next]_vars
  PROVE  Anchored'
<1>1. ASSUME UNCHANGED <<stack, crashed>>, node \subseteq node' PROVE Anchored'
  BY <1>1 DEF Anchored
<1>2. ASSUME NEW p \in Path, DelObject(p) PROVE Anchored'
  <2>1. CASE UNCHANGED stack
    BY <1>1, <1>2, <2>1 DEF DelObject
  <2>2. CASE obj[p] # NoVal /\ Change("del", p, NoVal)
    <3>1. p \in node
      BY <2>2, AboveTypes, AbovePrefix, PrefixOrder DEF NodesKept
    <3> QED BY <1>2, <2>2, <3>1, AnchoredChange DEF DelObject
  <2> QED BY <1>2, <2>1, <2>2 DEF DelObject
<1>3. ASSUME NEW p \in Path, NEW v \in Val, PutObject(p, v) PROVE Anchored'
  <2>1. node \subseteq node' /\ p \in node'
    BY <1>3, AboveTypes, AbovePrefix, PrefixOrder DEF PutObject
  <2>2. CASE UNCHANGED stack
    BY <1>1, <1>3, <2>1, <2>2 DEF PutObject
  <2>3. CASE Change("put", p, v)
    BY <1>3, <2>1, <2>3, AnchoredChange DEF PutObject
  <2> QED BY <1>3, <2>2, <2>3 DEF PutObject
<1>4. CASE Notify
  <2>1. PICK a \in Top.todo : stack' = SetTop([Top EXCEPT !.cb = a, !.todo = @ \ {a}])
    BY <1>4 DEF Notify
  <2>2. Top \in FrameOf(alive) /\ alive \subseteq Cb /\ stack # <<>>
    BY <1>4, StackType, TopType DEF Notify, Typed, TypeOK
  <2>3. [Top EXCEPT !.cb = a, !.todo = @ \ {a}] \in FrameOf(Cb)
    BY <2>2 DEF FrameOf
  <2> QED BY <1>4, <2>1, <2>2, <2>3, AnchoredSetTop DEF Notify, treeVars, FrameOf
<1>5. CASE Return
  <2>1. Top \in FrameOf(alive) /\ alive \subseteq Cb /\ stack # <<>>
    BY <1>5, StackType, TopType DEF Return, Typed, TypeOK
  <2>2. [Top EXCEPT !.cb = NoCb] \in FrameOf(Cb)
    BY <2>1 DEF FrameOf
  <2> QED BY <1>5, <2>1, <2>2, AnchoredSetTop DEF Return, treeVars, FrameOf
<1>6. CASE EndCall
  BY <1>6, AnchoredEndCall
<1>7. ASSUME NEW a \in Cb,
             New(a) \/ Destroy(a) \/ \E C \in SUBSET CbPath : Register(a, C) \/ Unregister(a, C)
      PROVE Anchored'
  BY <1>1, <1>7 DEF New, Destroy, Register, Unregister, treeVars
<1>8. CASE UNCHANGED vars
  BY <1>1, <1>8 DEF vars, treeVars
<1> QED BY <1>2, <1>3, <1>4, <1>5, <1>6, <1>7, <1>8 DEF Next

(* As long as callbacks leave alone the object that they are told of and what   *)
(* is below it, the pointers that delObject takes before it calls them are good *)
(* when it cleans up (ObexTree.cpp:278, 319).                                    *)
THEOREM NoDanglingCorrect ==
  ASSUME NotBelow
  PROVE  Spec => []NoDanglingNode
<1>1. Init => Anchored
  BY DEF Init, Anchored
<1>2. Typed /\ NodesKept /\ Anchored /\ [Next]_vars => Anchored'
  BY AnchoredStep
<1>3. Anchored => NoDanglingNode
  BY DEF Anchored, NoDanglingNode
<1>4. Init => Typed
  BY TypedInit
<1>5. Typed /\ [Next]_vars => Typed'
  BY TypedStep
<1>6. Spec => []NodesKept
  BY NodesKeptCorrect
<1> QED BY <1>1, <1>2, <1>3, <1>4, <1>5, <1>6, PTL DEF Spec

-----------------------------------------------------------------------------
(* Notification                                                              *)

(* No callback that is told of an object changes it. *)
NotItself == \A p \in Path : <<p, p>> \notin Reaction

(* Whoever has registered is in the maps, with an entry that has not expired; *)
(* no entry of a callback that is there has expired.                          *)
Entered ==
  /\ \A a \in Cb : \A c \in want[a] : a \in cbs[c] \ expired[c]
  /\ \A c \in CbPath : expired[c] \cap alive = {}

(* What a call tells is what the tree holds. *)
Current == \A f \in Frames : f.val = obj[f.path]

Notified == Entered /\ Current /\ Informed

LEMMA EnteredStep ==
  ASSUME ~Reuse, Typed, Entered, [Next]_vars
  PROVE  Entered'
<1>1. ASSUME UNCHANGED <<want, cbs, expired, alive>> PROVE Entered'
  BY <1>1 DEF Entered
<1>2. ASSUME NEW p \in Path, NEW changed \in BOOLEAN, Purge(p, changed), UNCHANGED cbVars
      PROVE Entered'
  <2>1. want' = want /\ alive' = alive
    BY <1>2 DEF cbVars
  <2>2. \A c \in CbPath : expired'[c] \subseteq expired[c] /\ cbs'[c] \ expired'[c] = cbs[c] \ expired[c]
    BY <1>2, <2>1, PurgeType DEF Purge
  <2>3. \A a \in Cb : want[a] \subseteq CbPath
    BY DEF Typed, TypeOK
  <2> QED BY <2>1, <2>2, <2>3 DEF Entered
<1>3. ASSUME NEW p \in Path, DelObject(p) \/ \E v \in Val : PutObject(p, v) PROVE Entered'
  BY <1>2, <1>3 DEF DelObject, PutObject, Change
<1>4. CASE Notify \/ Return \/ EndCall
  BY <1>1, <1>4 DEF Notify, Return, EndCall, treeVars, cbVars
<1>5. ASSUME NEW a \in Cb, New(a) PROVE Entered'
  <2>1. \A c \in CbPath : a \notin cbs[c] /\ expired[c] \subseteq cbs[c]
    BY <1>5 DEF New, Typed, TypeOK
  <2> QED BY <1>5, <2>1 DEF New, Entered, treeVars
<1>6. ASSUME NEW a \in Cb, Destroy(a) PROVE Entered'
  <2>1. /\ alive' = alive \ {a} /\ UNCHANGED cbs
        /\ expired' = [c \in CbPath |-> expired[c] \cup (cbs[c] \cap {a})]
        /\ want' = [want EXCEPT ![a] = {}]
    BY <1>6 DEF Destroy
  <2>2. \A b \in Cb : want'[b] \subseteq CbPath /\ want'[b] = IF b = a THEN {} ELSE want[b]
    BY <2>1 DEF Typed, TypeOK
  <2>3. ASSUME NEW b \in Cb, NEW c \in want'[b] PROVE b \in cbs'[c] \ expired'[c]
    <3>1. b # a /\ c \in want[b] /\ c \in CbPath
      BY <2>2, <2>3
    <3> QED BY <2>1, <3>1 DEF Entered
  <2> QED BY <2>1, <2>3 DEF Entered
<1>7. ASSUME NEW a \in Cb, NEW C \in SUBSET CbPath, Register(a, C) PROVE Entered'
  <2>1. /\ a \in alive /\ UNCHANGED <<expired, alive>>
        /\ cbs' = [c \in CbPath |-> IF c \in C THEN cbs[c] \cup {a} ELSE cbs[c]]
        /\ want' = [want EXCEPT ![a] = @ \cup C]
    BY <1>7 DEF Register
  <2>2. \A b \in Cb : want'[b] = IF b = a THEN want[a] \cup C ELSE want[b]
    BY <2>1 DEF Typed, TypeOK
  <2>3. ASSUME NEW b \in Cb, NEW c \in want'[b] PROVE b \in cbs'[c] \ expired'[c]
    <3>1. CASE c \in want[b]
      BY <2>1, <3>1 DEF Entered, Typed, TypeOK
    <3>2. CASE c \notin want[b]
      BY <2>1, <2>2, <2>3, <3>2 DEF Entered
    <3> QED BY <3>1, <3>2
  <2> QED BY <2>1, <2>3 DEF Entered
<1>8. ASSUME NEW a \in Cb, NEW C \in SUBSET CbPath, Unregister(a, C) PROVE Entered'
  <2>1. /\ UNCHANGED alive
        /\ cbs' = [c \in CbPath |-> IF c \in C THEN cbs[c] \ {a} ELSE cbs[c]]
        /\ expired' = [c \in CbPath |-> IF c \in C THEN expired[c] \ {a} ELSE expired[c]]
        /\ want' = [want EXCEPT ![a] = @ \ C]
    BY <1>8 DEF Unregister
  <2>2. \A b \in Cb : want'[b] = IF b = a THEN want[a] \ C ELSE want[b]
    BY <2>1 DEF Typed, TypeOK
  <2>3. ASSUME NEW b \in Cb, NEW c \in want'[b] PROVE b \in cbs'[c] \ expired'[c]
    <3>1. c \in want[b] /\ c \in CbPath /\ (b = a => c \notin C)
      BY <2>2, <2>3 DEF Typed, TypeOK
    <3> QED BY <2>1, <3>1 DEF Entered
  <2> QED BY <2>1, <2>3 DEF Entered
<1>9. CASE UNCHANGED vars
  BY <1>1, <1>9 DEF vars, treeVars, cbVars
<1> QED BY <1>3, <1>4, <1>5, <1>6, <1>7, <1>8, <1>9 DEF Next

(* A change is told to all that have registered for the object. *)
LEMMA CalledWants ==
  ASSUME Typed, Entered, NEW a \in Cb, NEW p \in Path, Wants(a, p)
  PROVE  a \in Called(p)
<1>1. PICK c \in want[a] : Covers(c, p)
  BY DEF Wants
<1>2. c \in CbPath /\ a \in cbs[c] \ expired[c]
  BY DEF Entered, Typed, TypeOK
<1> QED BY <1>1, <1>2 DEF Called

LEMMA NotifiedChange ==
  ASSUME NotItself, Typed, Entered, Current, Informed, NEW op, NEW p \in Path, NEW v \in Val \cup {NoVal},
         MayChange(p), Change(op, p, v), UNCHANGED cbVars
  PROVE  Current' /\ Informed'
<1> DEFINE f == [op |-> op, path |-> p, val |-> v, todo |-> Called(p), cb |-> NoCb, gone |-> FALSE]
<1>1. stack' = Append(stack, f) /\ f.path = p /\ f.val = v /\ f.todo = Called(p)
  BY DEF Change
<1>2. obj' = [obj EXCEPT ![p] = v] /\ obj \in [Path -> Val \cup {NoVal}]
  BY DEF Change, Typed, TypeOK
<1> HIDE DEF f
<1>3. Frames' = Frames \cup {f}
  BY <1>1, StackType, AppendFrames
<1>4. \A g \in Frames : g.path # p /\ g.path \in Path
  BY FrameType DEF MayChange, NotItself
<1>5. Current'
  BY <1>1, <1>2, <1>3, <1>4 DEF Current
<1>6. ASSUME NEW a \in Cb, NEW q \in Path, Wants(a, q)'
      PROVE  told'[a][q] = obj'[q] \/ \E g \in Frames' : g.path = q /\ a \in g.todo
  <2>1. Wants(a, q) /\ told' = told
    BY <1>6 DEF Wants, cbVars
  <2>2. CASE q = p
    BY <1>1, <1>3, <2>1, <2>2, CalledWants
  <2>3. CASE q # p
    BY <1>2, <1>3, <2>1, <2>3 DEF Informed
  <2> QED BY <2>2, <2>3
<1> QED BY <1>5, <1>6 DEF Informed

LEMMA NotifiedNotify ==
  ASSUME Typed, Current, Informed, Notify
  PROVE  Current' /\ Informed'
<1>1. PICK a \in Top.todo :
        /\ stack' = SetTop([Top EXCEPT !.cb = a, !.todo = @ \ {a}])
        /\ told' = [told EXCEPT ![a][Top.path] = IF Wants(a, Top.path) THEN Top.val ELSE @]
  BY DEF Notify
<1>2. Top \in FrameOf(alive) /\ Top \in Frames /\ alive \subseteq Cb /\ stack # <<>>
  BY StackType, TopType DEF Notify, Typed, TypeOK
<1> DEFINE f == [Top EXCEPT !.cb = a, !.todo = @ \ {a}]
<1>3. /\ f \in FrameOf(Cb) /\ f \in FrameOf(alive)
      /\ f.path = Top.path /\ f.val = Top.val /\ f.todo = Top.todo \ {a}
  BY <1>2 DEF FrameOf
<1>4. stack' = SetTop(f)
  BY <1>1
<1> HIDE DEF f
<1>5. Frames' \subseteq Frames \cup {f} /\ Frames \subseteq Frames' \cup {Top} /\ f \in Frames'
  BY <1>2, <1>3, <1>4, StackType, SetTopFrames
<1>6. UNCHANGED <<obj, want>>
  BY DEF Notify, treeVars
<1>7. Current'
  BY <1>2, <1>3, <1>5, <1>6 DEF Current
<1>8. Top.val = obj[Top.path] /\ Top.path \in Path /\ a \in Cb
  BY <1>2, FrameType DEF Current, FrameOf
<1>9. ASSUME NEW b \in Cb, NEW q \in Path, Wants(b, q)'
      PROVE  told'[b][q] = obj'[q] \/ \E g \in Frames' : g.path = q /\ b \in g.todo
  <2>1. Wants(b, q)
    BY <1>6, <1>9 DEF Wants
  <2>2. CASE b = a /\ q = Top.path
    BY <1>1, <1>6, <1>8, <2>1, <2>2 DEF Typed, TypeOK
  <2>3. CASE ~(b = a /\ q = Top.path)
    <3>1. told'[b][q] = told[b][q]
      BY <1>1, <1>8, <2>3 DEF Typed, TypeOK
    <3>2. CASE told[b][q] = obj[q]
      BY <1>6, <3>1, <3>2
    <3>3. CASE \E g \in Frames : g.path = q /\ b \in g.todo
      BY <1>3, <1>5, <2>3, <3>3
    <3> QED BY <2>1, <3>2, <3>3 DEF Informed
  <2> QED BY <2>2, <2>3
<1> QED BY <1>7, <1>9 DEF Informed

(* Steps of the stack that leave everybody's frames in it, with what they have  *)
(* yet to tell.                                                                 *)
LEMMA NotifiedFrames ==
  ASSUME Current, Informed, UNCHANGED <<obj, want, told>>,
         \A f \in Frames : f.todo = {} \/ \E g \in Frames' : g.path = f.path /\ g.todo = f.todo,
         \A g \in Frames' : \E f \in Frames : g.path = f.path /\ g.val = f.val
  PROVE  Current' /\ Informed'
<1>1. Current'
  BY DEF Current
<1>2. ASSUME NEW a \in Cb, NEW p \in Path, Wants(a, p)'
      PROVE  told'[a][p] = obj'[p] \/ \E g \in Frames' : g.path = p /\ a \in g.todo
  <2>1. Wants(a, p)
    BY <1>2 DEF Wants
  <2> QED BY <2>1 DEF Informed
<1> QED BY <1>1, <1>2 DEF Informed

LEMMA NotifiedReturn ==
  ASSUME Typed, Current, Informed, Return
  PROVE  Current' /\ Informed'
<1>1. Top \in FrameOf(alive) /\ Top \in Frames /\ stack # <<>>
  BY StackType, TopType DEF Return
<1> DEFINE f == [Top EXCEPT !.cb = NoCb]
<1>2. f \in FrameOf(alive) /\ f.path = Top.path /\ f.val = Top.val /\ f.todo = Top.todo
  BY <1>1 DEF FrameOf
<1>3. stack' = SetTop(f)
  BY DEF Return
<1> HIDE DEF f
<1>4. Frames' \subseteq Frames \cup {f} /\ Frames \subseteq Frames' \cup {Top} /\ f \in Frames'
  BY <1>1, <1>2, <1>3, StackType, SetTopFrames
<1> QED BY <1>1, <1>2, <1>4, NotifiedFrames DEF Return, treeVars, cbVars

LEMMA NotifiedEndCall ==
  ASSUME Typed, Current, Informed, EndCall
  PROVE  Current' /\ Informed'
<1>1. stack # <<>> /\ Top.todo = {} /\ stack' = Popped(Removed)
  BY EndCallParts DEF EndCall
<1>2. /\ \A f \in Frames : f = Top \/ [f EXCEPT !.gone = @ \/ Erased(Removed, f.path)] \in Frames'
      /\ \A g \in Frames' : \E f \in Frames : g = [f EXCEPT !.gone = @ \/ Erased(Removed, f.path)]
  BY <1>1, StackType, PopFrames
<1>3. ASSUME NEW f \in Frames
      PROVE  LET g == [f EXCEPT !.gone = @ \/ Erased(Removed, f.path)]
             IN g.path = f.path /\ g.val = f.val /\ g.todo = f.todo
  BY FrameType DEF FrameOf
<1>4. \A f \in Frames : f.todo = {} \/ \E g \in Frames' : g.path = f.path /\ g.todo = f.todo
  BY <1>1, <1>2, <1>3
<1>5. \A g \in Frames' : \E f \in Frames : g.path = f.path /\ g.val = f.val
  BY <1>2, <1>3
<1> QED BY <1>4, <1>5, NotifiedFrames DEF EndCall, cbVars

(* A callback is registered, taken back, destroyed or made. *)
LEMMA NotifiedCallbacks ==
  ASSUME Typed, Current, Informed, NEW a \in Cb,
         \/ New(a) \/ Destroy(a)
         \/ \E C \in SUBSET CbPath : Register(a, C) \/ Unregister(a, C)
  PROVE  Current' /\ Informed'
<1>1. UNCHANGED <<obj, stack>>
  BY DEF New, Destroy, Register, Unregister, treeVars
<1>2. Frames' = Frames
  BY <1>1 DEF Frames
<1>3. Current'
  BY <1>1, <1>2 DEF Current
<1>4. ASSUME NEW b \in Cb, NEW p \in Path, Wants(b, p)'
      PROVE  told'[b][p] = obj[p] \/ (Wants(b, p) /\ told'[b][p] = told[b][p])
  <2>1. CASE New(a)
    BY <1>4, <2>1 DEF New, Wants
  <2>2. CASE Destroy(a)
    BY <1>4, <2>2 DEF Destroy, Wants, Typed, TypeOK
  <2>3. ASSUME NEW C \in SUBSET CbPath, Register(a, C)
        PROVE  told'[b][p] = obj[p] \/ (Wants(b, p) /\ told'[b][p] = told[b][p])
    BY <1>4, <2>3 DEF Register, Wants, Typed, TypeOK
  <2>4. ASSUME NEW C \in SUBSET CbPath, Unregister(a, C)
        PROVE  Wants(b, p) /\ told'[b][p] = told[b][p]
    BY <1>4, <2>4 DEF Unregister, Wants, Typed, TypeOK
  <2> QED BY <2>1, <2>2, <2>3, <2>4
<1> QED BY <1>1, <1>2, <1>3, <1>4 DEF Informed

LEMMA NotifiedStep ==
  ASSUME NotItself, ~Reuse, Typed, Notified, [Next]_vars
  PROVE  Notified'
<1> USE DEF Notified
<1>1. Entered'
  BY EnteredStep
<1>2. ASSUME UNCHANGED <<obj, want, told, stack>> PROVE Current' /\ Informed'
  BY <1>2 DEF Current, Informed, Wants, Frames
<1>3. ASSUME NEW p \in Path, DelObject(p) \/ \E v \in Val : PutObject(p, v)
      PROVE  Current' /\ Informed'
  BY <1>2, <1>3, NotifiedChange DEF DelObject, PutObject, cbVars
<1>4. CASE Notify
  BY <1>1, <1>4, NotifiedNotify
<1>5. CASE Return
  BY <1>1, <1>5, NotifiedReturn
<1>6. CASE EndCall
  BY <1>1, <1>6, NotifiedEndCall
<1>7. ASSUME NEW a \in Cb,
             New(a) \/ Destroy(a) \/ \E C \in SUBSET CbPath : Register(a, C) \/ Unregister(a, C)
      PROVE  Current' /\ Informed'
  BY <1>7, NotifiedCallbacks
<1>8. CASE UNCHANGED vars
  BY <1>1, <1>2, <1>8 DEF vars, treeVars, cbVars
<1> QED BY <1>1, <1>3, <1>4, <1>5, <1>6, <1>7, <1>8 DEF Next

(* As long as callbacks do not change the object that they are told of, and no  *)
(* new callback gets the address of one that a map still refers to, every       *)
(* callback follows the tree, whatever it and others register, take back,       *)
(* destroy and change from within their callbacks (putObject, delObject,        *)
(* addToCallbackSet, registerCallback).                                         *)
THEOREM InformedCorrect ==
  ASSUME NotItself, ~Reuse
  PROVE  Spec => []Informed
<1>1. Init => Notified
  BY DEF Init, Notified, Entered, Current, Informed, Frames, Wants
<1>2. Typed /\ Notified /\ [Next]_vars => Notified'
  BY NotifiedStep
<1>3. Notified => Informed
  BY DEF Notified
<1>4. Init => Typed
  BY TypedInit
<1>5. Typed /\ [Next]_vars => Typed'
  BY TypedStep
<1> QED BY <1>1, <1>2, <1>3, <1>4, <1>5, PTL DEF Spec
=============================================================================
