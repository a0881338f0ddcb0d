---------------------------- MODULE ObexCohabProofs ----------------------------
(* Proofs about ObexCohab. *)
EXTENDS ObexCohab, ObexTreeProofs

-----------------------------------------------------------------------------
(* Activities                                                                *)

(* An activity of the session. *)
Activity ==
  [kind : {"change", "sync"}, at : 0 .. MaxDepth, sync : SUBSET Path,
   path : Path \cup {<<>>}, val : Val \cup {NoVal},
   todo : SUBSET User, cb : User \cup {NoCb}]

(* The activities lie on the stack in the order of their calls, each over a     *)
(* callback that runs, the passing on of a change over one that no other lies   *)
(* over.                                                                        *)
Stand   == \A i \in DOMAIN fwds : /\ fwds[i].at <= Len(stack)
                                  /\ fwds[i].at > 0 => stack[fwds[i].at].cb # NoCb
Ordered == /\ \A i \in DOMAIN fwds : fwds[i].kind = "change" => fwds[i].at > 0
           /\ \A i, j \in DOMAIN fwds : i < j =>
                /\ fwds[i].at <= fwds[j].at
                /\ fwds[j].kind = "change" => fwds[i].at < fwds[j].at

CohabTyped == Typed /\ CohabTypeOK /\ Stand /\ Ordered

LEMMA FwdsType ==
  ASSUME CohabTyped
  PROVE  /\ fwds \in Seq(Activity) /\ Len(fwds) \in Nat /\ DOMAIN fwds = 1 .. Len(fwds)
         /\ \A f \in Activities : f \in Activity
         /\ \A i \in DOMAIN fwds : fwds[i] \in Activity /\ fwds[i].at \in Nat
         /\ Len(stack) \in 0 .. MaxDepth /\ MaxDepth \in Nat
<1>1. fwds \in Seq(Activity)
  BY DEF CohabTyped, CohabTypeOK, Activity
<1>2. stack \in Seq(FrameOf(alive)) /\ Len(stack) <= MaxDepth
  BY DEF CohabTyped, Typed, TypeOK, FrameOf
<1>3. \A i \in DOMAIN fwds : fwds[i] \in Activity
  BY <1>1
<1>4. \A f \in Activity : f.at \in Nat
  BY DEF Activity
<1> QED BY <1>1, <1>2, <1>3, <1>4, ReactionAssumption DEF Activities

(* Another activity as the topmost ... *)
LEMMA SetNowActivities ==
  ASSUME NEW S, fwds \in Seq(S), fwds # <<>>, NEW f \in S, SetNow(f)
  PROVE  /\ fwds' \in Seq(S) /\ Len(fwds') = Len(fwds) /\ DOMAIN fwds' = DOMAIN fwds
         /\ Len(fwds) \in DOMAIN fwds /\ fwds'[Len(fwds)] = f
         /\ \A i \in DOMAIN fwds : i # Len(fwds) => fwds'[i] = fwds[i]
         /\ Now \in S /\ Now \in Activities
         /\ Activities' \subseteq Activities \cup {f}
         /\ Activities \subseteq Activities' \cup {Now}
         /\ f \in Activities'
<1>1. Len(fwds) \in DOMAIN fwds /\ DOMAIN fwds = 1 .. Len(fwds)
  OBVIOUS
<1>2. /\ fwds' \in Seq(S) /\ Len(fwds') = Len(fwds) /\ DOMAIN fwds' = DOMAIN fwds
      /\ fwds'[Len(fwds)] = f
      /\ \A i \in DOMAIN fwds : i # Len(fwds) => fwds'[i] = fwds[i]
  BY <1>1 DEF SetNow
<1> QED BY <1>1, <1>2 DEF Now, Activities

(* ... one more ... *)
LEMMA PushActivities ==
  ASSUME NEW S, fwds \in Seq(S), NEW f \in S, fwds' = Append(fwds, f)
  PROVE  /\ fwds' \in Seq(S) /\ Len(fwds') = Len(fwds) + 1
         /\ DOMAIN fwds = 1 .. Len(fwds) /\ DOMAIN fwds' = 1 .. Len(fwds) + 1
         /\ fwds'[Len(fwds) + 1] = f
         /\ \A i \in DOMAIN fwds : fwds'[i] = fwds[i]
         /\ Activities' = Activities \cup {f}
<1>1. /\ fwds' \in Seq(S) /\ Len(fwds') = Len(fwds) + 1 /\ Len(fwds) \in Nat
      /\ DOMAIN fwds = 1 .. Len(fwds) /\ DOMAIN fwds' = 1 .. Len(fwds) + 1
      /\ fwds'[Len(fwds) + 1] = f
      /\ \A i \in DOMAIN fwds : fwds'[i] = fwds[i]
  OBVIOUS
<1> QED BY <1>1 DEF Activities

(* ... and one less. *)
LEMMA FrontActivities ==
  ASSUME NEW S, fwds \in Seq(S), fwds # <<>>, fwds' = Front(fwds)
  PROVE  /\ fwds' \in Seq(S) /\ Len(fwds') = Len(fwds) - 1 /\ Len(fwds) \in Nat
         /\ DOMAIN fwds = 1 .. Len(fwds) /\ DOMAIN fwds' = 1 .. Len(fwds) - 1
         /\ \A i \in DOMAIN fwds' : fwds'[i] = fwds[i]
         /\ Activities' \subseteq Activities
         /\ Activities \subseteq Activities' \cup {Now}
         /\ Now \in S /\ Now \in Activities
<1>1. /\ fwds' \in Seq(S) /\ Len(fwds') = Len(fwds) - 1 /\ Len(fwds) \in Nat \ {0}
      /\ DOMAIN fwds = 1 .. Len(fwds) /\ DOMAIN fwds' = 1 .. Len(fwds) - 1
      /\ \A i \in DOMAIN fwds' : fwds'[i] = fwds[i]
  <2>1. Len(fwds) \in Nat \ {0} /\ DOMAIN fwds = 1 .. Len(fwds)
    OBVIOUS
  <2>2. fwds' = SubSeq(fwds, 1, Len(fwds) - 1)
    BY DEF Front
  <2>3. \A i \in 1 .. Len(fwds) - 1 : SubSeq(fwds, 1, Len(fwds) - 1)[i] = fwds[i]
    BY <2>1
  <2>4. SubSeq(fwds, 1, Len(fwds) - 1) \in Seq(S) /\ Len(SubSeq(fwds, 1, Len(fwds) - 1)) = Len(fwds) - 1
    BY <2>1
  <2> QED BY <2>1, <2>2, <2>3, <2>4
<1>2. \A i \in DOMAIN fwds : i = Len(fwds) \/ i \in DOMAIN fwds'
  BY <1>1
<1> QED BY <1>1, <1>2 DEF Now, Activities

-----------------------------------------------------------------------------
(* The steps of the tree                                                     *)

(* Whatever the session does is a step of the tree, but for looking up the next *)
(* object of a subscription.                                                    *)
LEMMA TreeStep ==
  ASSUME CohabTyped, [CohabNext]_allVars
  PROVE  [Next]_vars \/ SyncNext
<1>1. Session \in Cb /\ SubPath \subseteq CbPath /\ OtherPath \subseteq CbPath
  BY CohabAssumption
<1>2. subscribedPaths \in SUBSET CbPath
  BY <1>1 DEF CohabTyped, CohabTypeOK
<1>3. ASSUME NEW p \in Path, Del(p) \/ \E v \in Val : Put(p, v) PROVE [Next]_vars
  BY <1>3 DEF Del, Put, Next
<1>4. ASSUME Others PROVE [Next]_vars
  <2>1. PICK a \in Cb : \/ New(a) \/ Destroy(a)
                        \/ \E c \in OtherPath : Register(a, {c}) \/ Unregister(a, {c})
    BY <1>4 DEF Others
  <2>2. \A c \in OtherPath : {c} \in SUBSET CbPath
    BY <1>1
  <2> QED BY <2>1, <2>2 DEF Next
<1>5. ASSUME CallNext \/ ReturnOther \/ EndTreeCall PROVE [Next]_vars
  BY <1>5 DEF CallNext, ReturnOther, EndTreeCall, Next
<1>6. ASSUME CallUser \/ UserReturns \/ EndForward PROVE [Next]_vars
  BY <1>6 DEF CallUser, UserReturns, EndForward, Next
<1>7. ASSUME NEW C \in SUBSET SubPath, Subscribe(C) PROVE [Next]_vars
  BY <1>1, <1>7 DEF Subscribe, Next
<1>8. ASSUME NEW u \in User, NEW c \in UserPath, RegisterUser(u, c) \/ UnregisterUser(u, c)
      PROVE  [Next]_vars
  BY <1>8 DEF RegisterUser, UnregisterUser
<1>9. ASSUME Disconnect \/ DestroySession \/ NewSession PROVE [Next]_vars
  BY <1>1, <1>2, <1>9 DEF Disconnect, DestroySession, NewSession, Next
<1>10. ASSUME UNCHANGED allVars PROVE [Next]_vars
  BY <1>10 DEF allVars
<1> QED BY <1>3, <1>4, <1>5, <1>6, <1>7, <1>8, <1>9, <1>10 DEF CohabNext

(* That step changes nothing of the tree, but that it may fail. *)
LEMMA SyncNextTree ==
  ASSUME CohabTyped, SyncNext
  PROVE  /\ UNCHANGED <<treeVars, cbVars, stack>> /\ crashed' \in BOOLEAN
         /\ Typed' /\ Frames' = Frames
<1>1. UNCHANGED <<treeVars, cbVars, stack>> /\ crashed' \in BOOLEAN
  BY DEF SyncNext
<1> QED BY <1>1 DEF CohabTyped, Typed, TypeOK, Living, treeVars, cbVars, Frames

LEMMA CohabTreeTyped ==
  ASSUME CohabTyped, [CohabNext]_allVars
  PROVE  Typed'
BY TreeStep, SyncNextTree, TypedStep DEF CohabTyped

-----------------------------------------------------------------------------
(* Types                                                                     *)

(* The calls up to the k-th stay, with the callbacks that run in them. *)
Kept(k) == Len(stack') >= k /\ \A i \in 1 .. k : stack'[i].cb = stack[i].cb

LEMMA StackKept ==
  ASSUME CohabTyped
  PROVE  /\ \A p \in Path : DelObject(p) => Kept(Len(stack))
         /\ \A p \in Path, v \in Val : PutObject(p, v) => Kept(Len(stack))
         /\ Notify => Kept(Len(stack) - 1) /\ Len(stack') = Len(stack)
         /\ Return => Kept(Len(stack) - 1)
         /\ EndCall => Kept(Len(stack) - 1)
<1>1. stack \in Seq(FrameOf(alive)) /\ Len(stack) \in Nat
  BY StackType DEF CohabTyped
<1>2. ASSUME NEW f, stack' = Append(stack, f) PROVE Kept(Len(stack))
  BY <1>1, <1>2 DEF Kept
<1>3. ASSUME stack # <<>>, NEW f \in FrameOf(alive), stack' = SetTop(f)
      PROVE  Kept(Len(stack) - 1) /\ Len(stack') = Len(stack)
  BY <1>1, <1>3, TopType DEF Kept
<1>4. ASSUME UNCHANGED stack PROVE Kept(Len(stack))
  BY <1>1, <1>4 DEF Kept
<1>5. ASSUME NEW p \in Path, DelObject(p) PROVE Kept(Len(stack))
  BY <1>2, <1>4, <1>5 DEF DelObject, Change
<1>6. ASSUME NEW p \in Path, NEW v \in Val, PutObject(p, v) PROVE Kept(Len(stack))
  BY <1>2, <1>4, <1>6 DEF PutObject, Change
<1>7. ASSUME Notify PROVE Kept(Len(stack) - 1) /\ Len(stack') = Len(stack)
  <2>1. PICK a \in Top.todo : stack' = SetTop([Top EXCEPT !.cb = a, !.todo = @ \ {a}])
    BY <1>7 DEF Notify
  <2>2. Top \in FrameOf(alive) /\ stack # <<>>
    BY <1>1, <1>7, TopType DEF Notify
  <2>3. [Top EXCEPT !.cb = a, !.todo = @ \ {a}] \in FrameOf(alive)
    BY <2>2 DEF FrameOf
  <2> QED BY <1>3, <2>1, <2>2, <2>3
<1>8. ASSUME Return PROVE Kept(Len(stack) - 1)
  <2>1. Top \in FrameOf(alive) /\ stack # <<>>
    BY <1>1, <1>8, TopType DEF Return
  <2>2. [Top EXCEPT !.cb = NoCb] \in FrameOf(alive)
    BY <2>1 DEF FrameOf
  <2> QED BY <1>3, <1>8, <2>1, <2>2 DEF Return
<1>9. ASSUME EndCall PROVE Kept(Len(stack) - 1)
  <2>1. stack # <<>> /\ \E Q : stack' = Popped(Q)
    BY <1>9, EndCallParts DEF EndCall
  <2>2. PICK Q : stack' = Popped(Q)
    BY <2>1
  <2>3. /\ Len(stack') = Len(stack) - 1
        /\ \A i \in 1 .. Len(stack) - 1 :
             /\ stack[i] \in FrameOf(alive)
             /\ stack'[i] = [stack[i] EXCEPT !.gone = @ \/ Erased(Q, stack[i].path)]
    BY <1>1, <2>1, <2>2, PopType
  <2>4. \A i \in 1 .. Len(stack) - 1 : stack'[i].cb = stack[i].cb
    BY <2>3 DEF FrameOf
  <2> QED BY <1>1, <2>3, <2>4 DEF Kept
<1> QED BY <1>5, <1>6, <1>7, <1>8, <1>9

(* What the session keeps for its callbacks. *)
Tables ==
  /\ subscribedPaths \subseteq SubPath
  /\ want[Session] = subscribedPaths
  /\ cbMap \in [UserPath -> SUBSET User]
  /\ heard \in [User -> [Path -> Val \cup {NoVal}]]

LEMMA CohabTypeParts ==
  /\ CohabTypeOK <=> TypeOK /\ Tables /\ fwds \in Seq(Activity) /\ \A i \in DOMAIN fwds : fwds[i].at <= Len(stack)
  /\ CohabTypeOK' <=> TypeOK' /\ Tables' /\ fwds' \in Seq(Activity) /\ \A i \in DOMAIN fwds' : fwds'[i].at <= Len(stack')
BY DEF CohabTypeOK, Tables, Activity

(* A step of the tree that is not the session's leaves alone what it has        *)
(* registered for.                                                              *)
LEMMA OtherWant ==
  ASSUME CohabTyped,
         \/ \E p \in Path : DelObject(p) \/ \E v \in Val : PutObject(p, v)
         \/ Notify \/ Return \/ EndCall \/ New(Session)
         \/ \E a \in Cb \ {Session} : \/ New(a) \/ Destroy(a)
                                      \/ \E C : Register(a, C) \/ Unregister(a, C)
  PROVE  want'[Session] = want[Session]
<1>1. want \in [Cb -> SUBSET CbPath] /\ Session \in Cb
  BY CohabAssumption DEF CohabTyped, Typed, TypeOK
<1>2. ASSUME UNCHANGED want PROVE want'[Session] = want[Session]
  BY <1>2
<1>3. ASSUME NEW a \in Cb \ {Session}, NEW C, want' = [want EXCEPT ![a] = C]
      PROVE want'[Session] = want[Session]
  BY <1>1, <1>3
<1>4. ASSUME NEW a \in Cb \ {Session}, NEW C, Register(a, C) PROVE want'[Session] = want[Session]
  BY <1>1, <1>4 DEF Register
<1>5. ASSUME NEW a \in Cb \ {Session}, NEW C, Unregister(a, C) PROVE want'[Session] = want[Session]
  BY <1>1, <1>5 DEF Unregister
<1>6. ASSUME NEW a \in Cb \ {Session}, New(a) \/ Destroy(a) PROVE want'[Session] = want[Session]
  BY <1>2, <1>3, <1>6 DEF New, Destroy
<1> QED BY <1>2, <1>4, <1>5, <1>6 DEF DelObject, PutObject, Notify, Return, EndCall, New, cbVars

(* What a callback has heard, one object or all changed. *)
LEMMA HeardType ==
  ASSUME heard \in [User -> [Path -> Val \cup {NoVal}]], NEW u \in User
  PROVE  /\ \A p, v : v \in Val \cup {NoVal} =>
              [heard EXCEPT ![u][p] = v] \in [User -> [Path -> Val \cup {NoVal}]]
         /\ \A h \in [Path -> Val \cup {NoVal}] :
              [heard EXCEPT ![u] = h] \in [User -> [Path -> Val \cup {NoVal}]]
OBVIOUS

LEMMA TablesStep ==
  ASSUME CohabTyped, [CohabNext]_allVars
  PROVE  Tables'
<1>1. Tables /\ want \in [Cb -> SUBSET CbPath] /\ Session \in Cb /\ SubPath \subseteq CbPath
      /\ obj \in [Path -> Val \cup {NoVal}]
  BY CohabTypeParts, CohabAssumption DEF CohabTyped, Typed, TypeOK
<1>2. ASSUME UNCHANGED <<subscribedPaths, cbMap, heard>>, want'[Session] = want[Session] PROVE Tables'
  BY <1>1, <1>2 DEF Tables
<1>3. ASSUME NEW p \in Path, Del(p) \/ \E v \in Val : Put(p, v) PROVE Tables'
  BY <1>2, <1>3, OtherWant DEF Del, Put, cohabVars
<1>4. ASSUME Others PROVE Tables'
  BY <1>2, <1>4, OtherWant DEF Others, cohabVars
<1>5. ASSUME CallNext \/ ReturnOther \/ EndTreeCall PROVE Tables'
  BY <1>2, <1>5, OtherWant DEF CallNext, ReturnOther, EndTreeCall, cohabVars
<1>6. ASSUME CallUser PROVE Tables'
  <2>1. PICK u \in Now.todo :
          heard' = [heard EXCEPT ![u][Now.path] = IF Follows(u, Now.path) THEN Now.val ELSE @]
    BY <1>6 DEF CallUser
  <2>2. Now \in Activity
    BY <1>6, FwdsType DEF CallUser, Active, Now, Activities
  <2>3. u \in User /\ Now.val \in Val \cup {NoVal}
    BY <2>1, <2>2 DEF Activity
  <2>4. heard' \in [User -> [Path -> Val \cup {NoVal}]]
    BY <1>1, <2>1, <2>3 DEF Tables
  <2> QED BY <1>1, <1>6, <2>4 DEF CallUser, Tables, vars, cbVars
<1>7. ASSUME UserReturns PROVE Tables'
  BY <1>2, <1>7 DEF UserReturns, vars, cbVars
<1>8. ASSUME EndForward PROVE Tables'
  BY <1>2, <1>8, OtherWant DEF EndForward, vars, cbVars
<1>9. ASSUME SyncNext PROVE Tables'
  BY <1>2, <1>9 DEF SyncNext, cbVars
<1>10. ASSUME NEW C \in SUBSET SubPath, Subscribe(C) PROVE Tables'
  BY <1>1, <1>10 DEF Subscribe, Register, Tables
<1>11. ASSUME NEW u \in User, NEW c \in UserPath, RegisterUser(u, c) PROVE Tables'
  <2> DEFINE h == [p \in Path |-> IF Covers(c, p) /\ Wants(Session, p) THEN GetObject(p) ELSE heard[u][p]]
  <2>1. \A p \in Path : GetObject(p) \in Val \cup {NoVal}
    BY <1>1 DEF GetObject
  <2>2. h \in [Path -> Val \cup {NoVal}]
    BY <1>1, <2>1 DEF Tables
  <2>3. heard' = [heard EXCEPT ![u] = h]
    BY <1>1, <1>11 DEF RegisterUser, Tables
  <2> HIDE DEF h
  <2>4. heard' \in [User -> [Path -> Val \cup {NoVal}]]
    BY <1>1, <2>2, <2>3, HeardType DEF Tables
  <2> QED BY <1>1, <1>11, <2>4 DEF RegisterUser, Tables, vars, cbVars
<1>12. ASSUME NEW u \in User, NEW c \in UserPath, UnregisterUser(u, c) PROVE Tables'
  <2> DEFINE h == [p \in Path |-> IF \E d \in UserPath : u \in cbMap'[d] /\ Covers(d, p)
                                  THEN heard[u][p] ELSE NoVal]
  <2>2. h \in [Path -> Val \cup {NoVal}]
    BY <1>1 DEF Tables
  <2>3. heard' = [heard EXCEPT ![u] = h]
    BY <1>1, <1>12 DEF UnregisterUser, Tables
  <2> HIDE DEF h
  <2>4. heard' \in [User -> [Path -> Val \cup {NoVal}]]
    BY <1>1, <2>2, <2>3, HeardType DEF Tables
  <2> QED BY <1>1, <1>12, <2>4 DEF UnregisterUser, Tables, vars, cbVars
<1>13. ASSUME Disconnect PROVE Tables'
  BY <1>1, <1>13 DEF Disconnect, Forget, Unregister, Tables
<1>14. ASSUME DestroySession PROVE Tables'
  BY <1>1, <1>14 DEF DestroySession, Forget, Destroy, Tables
<1>15. ASSUME NewSession PROVE Tables'
  BY <1>2, <1>15, OtherWant DEF NewSession, cohabVars
<1>16. ASSUME UNCHANGED allVars PROVE Tables'
  BY <1>2, <1>16 DEF allVars, vars, cbVars, cohabVars
<1> QED BY <1>3, <1>4, <1>5, <1>6, <1>7, <1>8, <1>9, <1>10, <1>11, <1>12, <1>13, <1>14,
           <1>15, <1>16 DEF CohabNext

(* Where the calls under an activity stay, so does the activity. *)
Below(k) == \A i \in DOMAIN fwds : fwds[i].at <= k

Fits == fwds' \in Seq(Activity) /\ Stand' /\ Ordered'

LEMMA KeptFits ==
  ASSUME CohabTyped, NEW k \in Nat, k <= Len(stack), Kept(k), Below(k), UNCHANGED fwds
  PROVE  Fits
<1>1. \A i \in DOMAIN fwds : fwds[i].at \in Nat
  BY FwdsType
<1>2. ASSUME NEW i \in DOMAIN fwds
      PROVE  fwds[i].at <= Len(stack') /\ (fwds[i].at > 0 => stack'[fwds[i].at].cb # NoCb)
  <2>1. fwds[i].at > 0 => fwds[i].at \in 1 .. k
    BY <1>1 DEF Below
  <2> QED BY <1>1, <1>2, <2>1 DEF Kept, Below, CohabTyped, Stand
<1> QED BY <1>2, FwdsType DEF CohabTyped, Fits, Stand, Ordered

(* No activity lies over a call that is about to call its next callback ... *)
LEMMA BelowTop ==
  ASSUME CohabTyped, stack # <<>>, Top.cb = NoCb
  PROVE  Len(stack) - 1 \in Nat /\ Below(Len(stack) - 1)
<1>1. \A i \in DOMAIN fwds : fwds[i].at \in Nat
  BY FwdsType
<1>2. Len(stack) - 1 \in Nat /\ Len(stack) \in Nat
  BY StackType DEF CohabTyped
<1> QED BY <1>1, <1>2 DEF CohabTyped, Stand, Below, Top

(* ... or over one whose callback is about to return, but for that callback's. *)
LEMMA BelowOther ==
  ASSUME CohabTyped, stack # <<>>, ~Active
  PROVE  Len(stack) - 1 \in Nat /\ Below(Len(stack) - 1)
<1>1. \A i \in DOMAIN fwds : fwds[i].at \in Nat
  BY FwdsType
<1>2. Len(stack) - 1 \in Nat /\ Len(stack) \in Nat
  BY StackType DEF CohabTyped
<1>3. ASSUME NEW i \in DOMAIN fwds
      PROVE  fwds[i].at <= Now.at /\ Now.at <= Len(stack) /\ Now.at # Len(stack) /\ Now.at \in Nat
  <2>1. Len(fwds) \in Nat /\ DOMAIN fwds = 1 .. Len(fwds) /\ Len(fwds) \in DOMAIN fwds /\ fwds # <<>>
    BY FwdsType
  <2>2. Now.at <= Len(stack) /\ Now.at \in Nat
    BY <1>1, <2>1 DEF CohabTyped, Stand, Now
  <2>3. i = Len(fwds) \/ i < Len(fwds)
    BY <2>1
  <2>4. fwds[i].at <= Now.at
    BY <1>1, <2>1, <2>3 DEF CohabTyped, Ordered, Now
  <2> QED BY <2>1, <2>2, <2>4 DEF Active
<1> QED BY <1>1, <1>2, <1>3 DEF Below

(* An activity goes on where it is. *)
LEMMA SetNowFits ==
  ASSUME CohabTyped, fwds # <<>>, UNCHANGED stack, NEW f \in Activity, SetNow(f),
         f.at = Now.at, f.kind = Now.kind
  PROVE  Fits
<1>1. /\ fwds' \in Seq(Activity) /\ DOMAIN fwds' = DOMAIN fwds
      /\ \A i \in DOMAIN fwds : fwds'[i].at = fwds[i].at /\ fwds'[i].kind = fwds[i].kind
  BY FwdsType, SetNowActivities DEF Now
<1>2. Stand'
  BY <1>1 DEF CohabTyped, Stand
<1>3. Ordered'
  BY <1>1 DEF CohabTyped, Ordered
<1> QED BY <1>1, <1>2, <1>3 DEF Fits

(* A new one lies over the topmost call. *)
LEMMA PushFits ==
  ASSUME CohabTyped, NEW k \in Nat, k <= Len(stack), Kept(k), Below(k),
         NEW f \in Activity, fwds' = Append(fwds, f), f.at = Len(stack), Len(stack') = Len(stack),
         f.at > 0 => stack'[f.at].cb # NoCb,
         f.kind = "change" => f.at > 0 /\ k < f.at
  PROVE  Fits
<1>1. /\ fwds' \in Seq(Activity) /\ DOMAIN fwds = 1 .. Len(fwds) /\ DOMAIN fwds' = 1 .. Len(fwds) + 1
      /\ fwds'[Len(fwds) + 1] = f /\ \A i \in DOMAIN fwds : fwds'[i] = fwds[i]
      /\ Len(fwds) \in Nat
  BY FwdsType, PushActivities
<1>2. /\ \A i \in DOMAIN fwds : fwds[i].at \in Nat /\ fwds[i].at <= k
      /\ Len(stack) \in Nat
  BY FwdsType DEF Below
<1>3. ASSUME NEW i \in DOMAIN fwds'
      PROVE  i = Len(fwds) + 1 \/ i \in DOMAIN fwds
  BY <1>1
<1>4. ASSUME NEW i \in DOMAIN fwds
      PROVE  fwds[i].at <= Len(stack') /\ (fwds[i].at > 0 => stack'[fwds[i].at].cb # NoCb)
  <2>1. fwds[i].at > 0 => fwds[i].at \in 1 .. k
    BY <1>2
  <2> QED BY <1>2, <1>4, <2>1 DEF Kept, CohabTyped, Stand
<1>5. Stand'
  BY <1>1, <1>2, <1>3, <1>4 DEF Stand
<1>6. ASSUME NEW i \in DOMAIN fwds', NEW j \in DOMAIN fwds', i < j
      PROVE  fwds'[i].at <= fwds'[j].at /\ (fwds'[j].kind = "change" => fwds'[i].at < fwds'[j].at)
  <2>1. i \in DOMAIN fwds
    BY <1>1, <1>6
  <2>2. CASE j = Len(fwds) + 1
    BY <1>1, <1>2, <2>1, <2>2
  <2>3. CASE j \in DOMAIN fwds
    BY <1>1, <1>6, <2>1, <2>3 DEF CohabTyped, Ordered
  <2> QED BY <1>3, <2>2, <2>3
<1>7. \A i \in DOMAIN fwds' : fwds'[i].kind = "change" => fwds'[i].at > 0
  BY <1>1, <1>3 DEF CohabTyped, Ordered
<1> QED BY <1>1, <1>5, <1>6, <1>7 DEF Fits, Ordered

(* The topmost is over: with it the call of a callback that it lies over ends, *)
(* if it was a change.                                                          *)
LEMMA FrontFits ==
  ASSUME CohabTyped, fwds # <<>>, fwds' = Front(fwds), NEW k \in Nat, k <= Len(stack), Kept(k),
         \A i \in 1 .. Len(fwds) - 1 : fwds[i].at <= k
  PROVE  Fits
<1>1. /\ fwds' \in Seq(Activity) /\ DOMAIN fwds = 1 .. Len(fwds) /\ DOMAIN fwds' = 1 .. Len(fwds) - 1
      /\ \A i \in DOMAIN fwds' : fwds'[i] = fwds[i] /\ i \in DOMAIN fwds
  <2>1. fwds \in Seq(Activity)
    BY FwdsType
  <2>2. /\ fwds' \in Seq(Activity) /\ Len(fwds) \in Nat
        /\ DOMAIN fwds = 1 .. Len(fwds) /\ DOMAIN fwds' = 1 .. Len(fwds) - 1
        /\ \A i \in DOMAIN fwds' : fwds'[i] = fwds[i]
    BY <2>1, FrontActivities
  <2> QED BY <2>2
<1>2. \A i \in DOMAIN fwds : fwds[i].at \in Nat
  BY FwdsType
<1>3. ASSUME NEW i \in DOMAIN fwds'
      PROVE  fwds'[i].at <= Len(stack') /\ (fwds'[i].at > 0 => stack'[fwds'[i].at].cb # NoCb)
  <2>1. fwds[i].at > 0 => fwds[i].at \in 1 .. k
    BY <1>1, <1>2
  <2>2. Len(stack') >= k
    BY DEF Kept
  <2> QED BY <1>1, <1>2, <2>1, <2>2 DEF Kept, CohabTyped, Stand
<1>4. Ordered'
  BY <1>1 DEF CohabTyped, Ordered
<1> QED BY <1>1, <1>3, <1>4 DEF Fits, Stand

LEMMA FitsStep ==
  ASSUME CohabTyped, [CohabNext]_allVars
  PROVE  Fits
<1> DEFINE n == Len(stack)
<1>1. n \in Nat /\ Below(n) /\ (UNCHANGED stack => Kept(n)) /\ MaxDepth \in Nat /\ n <= MaxDepth
  BY FwdsType DEF CohabTyped, Stand, Below, Kept
<1>2. stack # <<>> => n - 1 \in Nat /\ n - 1 <= n /\ n > 0
  BY StackType DEF CohabTyped
<1> HIDE DEF n
<1>3. ASSUME UNCHANGED fwds, Kept(n) PROVE Fits
  BY <1>1, <1>3, KeptFits DEF n
<1>4. ASSUME NEW p \in Path, Del(p) \/ \E v \in Val : Put(p, v) PROVE Fits
  BY <1>3, <1>4, StackKept DEF Del, Put, cohabVars, n
<1>5. ASSUME Others PROVE Fits
  BY <1>1, <1>3, <1>5 DEF Others, New, Destroy, Register, Unregister, cohabVars
<1>6. ASSUME CallNext PROVE Fits
  <2>1. stack # <<>> /\ Top.cb = NoCb /\ Kept(n - 1) /\ Len(stack') = n /\ Below(n - 1) /\ n - 1 \in Nat
    BY <1>6, StackKept, BelowTop DEF CallNext, Notify, n
  <2>2. CASE UNCHANGED fwds
    BY <1>2, <2>1, <2>2, KeptFits DEF n
  <2>3. CASE stack'[n].cb = Session
    <3> DEFINE f == [kind |-> "change", at |-> Len(stack'), sync |-> {}, path |-> Top.path,
                     val |-> Top.val, todo |-> CallbackSet(Top.path), cb |-> NoCb]
    <3>1. fwds' = Append(fwds, f)
      BY <1>6, <2>3 DEF CallNext, Push, n
    <3>2. Top.path \in Path /\ Top.val \in Val \cup {NoVal}
      <4>1. Top \in FrameOf(alive)
        BY <2>1, StackType, TopType DEF CohabTyped
      <4> QED BY <4>1 DEF FrameOf
    <3>3. CallbackSet(Top.path) \subseteq User
      BY DEF CallbackSet, CohabTyped, CohabTypeOK
    <3>4. f \in Activity
      BY <1>1, <2>1, <3>2, <3>3 DEF Activity
    <3>5. f.at = n /\ f.kind = "change"
      BY <2>1
    <3>6. stack'[f.at].cb # NoCb
      BY <2>3, <3>5, CohabAssumption, ValAssumption
    <3> HIDE DEF f
    <3> QED BY <1>1, <1>2, <2>1, <3>1, <3>4, <3>5, <3>6, PushFits DEF n
  <2> QED BY <1>6, <2>2, <2>3 DEF CallNext, n
<1>7. ASSUME ReturnOther PROVE Fits
  BY <1>2, <1>7, StackKept, BelowOther, KeptFits DEF ReturnOther, Return, cohabVars, n
<1>8. ASSUME EndTreeCall PROVE Fits
  BY <1>2, <1>8, StackKept, BelowTop, KeptFits DEF EndTreeCall, EndCall, cohabVars, n
<1>9. ASSUME Active PROVE fwds # <<>> /\ Now \in Activity /\ Now.at = n
  BY <1>9, FwdsType DEF Active, Now, n
<1>10. ASSUME CallUser PROVE Fits
  <2>1. PICK u \in Now.todo : SetNow([Now EXCEPT !.cb = u, !.todo = @ \ {u}])
    BY <1>10 DEF CallUser
  <2> DEFINE f == [Now EXCEPT !.cb = u, !.todo = @ \ {u}]
  <2>2. f \in Activity /\ f.at = Now.at /\ f.kind = Now.kind
    BY <1>9, <1>10 DEF CallUser, Activity
  <2> HIDE DEF f
  <2>3. SetNow(f) /\ UNCHANGED stack /\ fwds # <<>>
    BY <1>9, <1>10, <2>1 DEF CallUser, vars, f
  <2> QED BY <2>2, <2>3, SetNowFits
<1>11. ASSUME UserReturns PROVE Fits
  <2> DEFINE f == [Now EXCEPT !.cb = NoCb]
  <2>2. f \in Activity /\ f.at = Now.at /\ f.kind = Now.kind
    BY <1>9, <1>11 DEF UserReturns, Activity
  <2> HIDE DEF f
  <2>3. SetNow(f) /\ UNCHANGED stack /\ fwds # <<>>
    BY <1>9, <1>11 DEF UserReturns, vars, f
  <2> QED BY <2>2, <2>3, SetNowFits
<1>12. ASSUME EndForward PROVE Fits
  <2>1. fwds # <<>> /\ fwds' = Front(fwds) /\ Now.at = n
    BY <1>9, <1>12 DEF EndForward
  <2>2. Len(fwds) \in Nat /\ Len(fwds) \in DOMAIN fwds /\ DOMAIN fwds = 1 .. Len(fwds)
    BY <2>1, FwdsType
  <2>3. CASE Now.kind = "change"
    <3>1. Kept(n - 1) /\ stack # <<>>
      BY <1>12, <2>3, StackKept DEF EndForward, Return, n
    <3>2. ASSUME NEW i \in 1 .. Len(fwds) - 1 PROVE fwds[i].at <= n - 1
      <4>1. i \in DOMAIN fwds /\ i < Len(fwds)
        BY <2>2
      <4>2. fwds[i].at < n
        BY <2>1, <2>2, <2>3, <4>1 DEF CohabTyped, Ordered, Now
      <4> QED BY <1>1, <4>1, <4>2, FwdsType
    <3> QED BY <1>2, <2>1, <3>1, <3>2, FrontFits DEF n
  <2>4. CASE Now.kind # "change"
    <3>1. Kept(n)
      BY <1>1, <1>12, <2>4 DEF EndForward, vars
    <3>2. ASSUME NEW i \in 1 .. Len(fwds) - 1 PROVE fwds[i].at <= n
      BY <1>1, <2>2 DEF Below
    <3> QED BY <1>1, <2>1, <3>1, <3>2, FrontFits DEF n
  <2> QED BY <2>3, <2>4
<1>13. ASSUME SyncNext PROVE Fits
  <2>1. PICK p \in Now.sync :
          SetNow([Now EXCEPT !.sync = @ \ {p}, !.path = p, !.val = obj[p], !.todo = CallbackSet(p)])
    BY <1>13 DEF SyncNext
  <2> DEFINE f == [Now EXCEPT !.sync = @ \ {p}, !.path = p, !.val = obj[p], !.todo = CallbackSet(p)]
  <2>2. Now \in Activity /\ p \in Path
    BY <1>9, <1>13 DEF SyncNext, Activity
  <2>3. obj[p] \in Val \cup {NoVal} /\ CallbackSet(p) \subseteq User
    BY <2>2 DEF CallbackSet, CohabTyped, CohabTypeOK, Typed, TypeOK
  <2>4. f \in Activity /\ f.at = Now.at /\ f.kind = Now.kind
    BY <2>2, <2>3 DEF Activity
  <2> HIDE DEF f
  <2>5. SetNow(f) /\ UNCHANGED stack /\ fwds # <<>>
    BY <1>9, <1>13, <2>1 DEF SyncNext, f
  <2> QED BY <2>4, <2>5, SetNowFits
<1>14. ASSUME NEW C \in SUBSET SubPath, Subscribe(C) PROVE Fits
  <2> DEFINE f == [kind |-> "sync", at |-> Len(stack'), sync |-> ToSync(C), path |-> <<>>,
                   val |-> NoVal, todo |-> {}, cb |-> NoCb]
  <2>1. fwds' = Append(fwds, f) /\ UNCHANGED stack /\ Callable
    BY <1>14 DEF Subscribe, Register, Push
  <2>2. f \in Activity /\ f.at = n /\ f.kind # "change"
    BY <1>1, <2>1 DEF Activity, ToSync, n
  <2>3. n > 0 => stack # <<>> /\ stack[n].cb # NoCb
    BY <2>1, FwdsType DEF Callable, Top, n
  <2> HIDE DEF f
  <2> QED BY <1>1, <2>1, <2>2, <2>3, PushFits DEF n
<1>15. ASSUME NEW u \in User, NEW c \in UserPath, RegisterUser(u, c) \/ UnregisterUser(u, c) PROVE Fits
  BY <1>1, <1>3, <1>15 DEF RegisterUser, UnregisterUser, vars
<1>16. ASSUME Disconnect \/ DestroySession \/ NewSession PROVE Fits
  BY <1>1, <1>3, <1>16 DEF Disconnect, DestroySession, NewSession, Forget, Unregister, Destroy, New, cohabVars
<1>17. ASSUME UNCHANGED allVars PROVE Fits
  BY <1>1, <1>3, <1>17 DEF allVars, vars, cohabVars
<1> QED BY <1>4, <1>5, <1>6, <1>7, <1>8, <1>10, <1>11, <1>12, <1>13, <1>14, <1>15, <1>16, <1>17
        DEF CohabNext

LEMMA CohabTypedInit == CohabInit => CohabTyped
<1> SUFFICES ASSUME CohabInit PROVE CohabTyped
  OBVIOUS
<1>1. Typed
  BY TypedInit DEF CohabInit
<1>2. Tables
  BY CohabAssumption DEF CohabInit, Init, Tables
<1>3. fwds = <<>> /\ fwds \in Seq(Activity) /\ DOMAIN fwds = {}
  BY DEF CohabInit
<1> QED BY <1>1, <1>2, <1>3, CohabTypeParts DEF CohabTyped, Typed, Stand, Ordered

LEMMA CohabTypedStep == CohabTyped /\ [CohabNext]_allVars => CohabTyped'
<1> SUFFICES ASSUME CohabTyped, [CohabNext]_allVars PROVE CohabTyped'
  OBVIOUS
<1>1. Typed' /\ Tables' /\ Fits
  BY CohabTreeTyped, TablesStep, FitsStep
<1>2. CohabTypeOK'
  BY <1>1, CohabTypeParts DEF Typed, Fits, Stand
<1> QED BY <1>1, <1>2 DEF CohabTyped, Fits

(* Whatever is subscribed, registered, disconnected and called, the session is   *)
(* registered with the tree for what it says it subscribed to and for nothing   *)
(* else, and what it passes on lies in order on the stack of calls.             *)
THEOREM CohabTypeCorrect == CohabSpec => []CohabTypeOK
<1>1. CohabInit => CohabTyped
  BY CohabTypedInit
<1>2. CohabTyped /\ [CohabNext]_allVars => CohabTyped'
  BY CohabTypedStep
<1>3. CohabTyped => CohabTypeOK
  BY DEF CohabTyped
<1> QED BY <1>1, <1>2, <1>3, PTL DEF CohabSpec

-----------------------------------------------------------------------------
(* What is being passed on                                                   *)

(* What is being passed on is what the tree holds; objects that are yet to be   *)
(* passed on are there.                                                         *)
PassesCurrent == \A f \in Activities : f.path \in Path => f.val = obj[f.path]
ToPass        == \A f \in Activities : \A p \in f.sync : obj[p] # NoVal

(* Only putObject and delObject change objects. *)
LEMMA ObjSame ==
  ASSUME CohabTyped, [CohabNext]_allVars, ~\E p \in Path : Del(p) \/ \E v \in Val : Put(p, v)
  PROVE  UNCHANGED obj
BY DEF CohabNext, Others, New, Destroy, Register, Unregister, CallNext, Notify, ReturnOther, Return,
       EndTreeCall, EndCall, CallUser, UserReturns, EndForward, SyncNext, Subscribe, RegisterUser,
       UnregisterUser, Disconnect, DestroySession, NewSession, allVars, vars, treeVars

(* What the activities of the next state are: as before; with another one for   *)
(* a change; with one that goes on; with one that comes to its next object;     *)
(* with another one for a subscription.                                         *)
ForChange ==
  /\ CallNext /\ Top \in Frames
  /\ \E f \in Activity : /\ Activities' = Activities \cup {f}
                         /\ f.path = Top.path /\ f.val = Top.val /\ f.sync = {}
GoesOn ==
  \E f \in Activities, g \in Activity :
    /\ Activities' \subseteq Activities \cup {g}
    /\ g.path = f.path /\ g.val = f.val /\ g.sync = f.sync
NextObject ==
  \E f \in Activities, g \in Activity :
    /\ Activities' \subseteq Activities \cup {g}
    /\ g.path \in Path /\ g.val = obj[g.path] /\ g.sync \subseteq f.sync
ForSubscription ==
  \E f \in Activity, C \in SUBSET SubPath :
    Activities' = Activities \cup {f} /\ f.path = <<>> /\ f.sync = ToSync(C)

LEMMA ActivitiesStep ==
  ASSUME CohabTyped, [CohabNext]_allVars
  PROVE  \/ Activities' \subseteq Activities
         \/ ForChange \/ GoesOn \/ NextObject \/ ForSubscription
<1> DEFINE Goal == \/ Activities' \subseteq Activities
                   \/ ForChange \/ GoesOn \/ NextObject \/ ForSubscription
<1>1. ASSUME UNCHANGED fwds PROVE Activities' = Activities
  BY <1>1 DEF Activities
<1>2. ASSUME NEW p \in Path, Del(p) \/ \E v \in Val : Put(p, v) PROVE Goal
  BY <1>1, <1>2 DEF Del, Put, cohabVars
<1>3. ASSUME Others \/ ReturnOther \/ EndTreeCall PROVE Goal
  BY <1>1, <1>3 DEF Others, ReturnOther, EndTreeCall, cohabVars
<1>4. ASSUME Active PROVE fwds # <<>> /\ Now \in Activity /\ Now \in Activities
  BY <1>4, FwdsType DEF Active, Now, Activities
<1>5. ASSUME CallNext PROVE Goal
  <2>1. stack # <<>> /\ Top \in FrameOf(alive) /\ Top \in Frames
    BY <1>5, StackType, TopType DEF CallNext, Notify, CohabTyped
  <2>2. CASE UNCHANGED fwds
    BY <1>1, <2>2
  <2>3. CASE Push("change", {}, Top.path, Top.val, CallbackSet(Top.path))
    <3> DEFINE f == [kind |-> "change", at |-> Len(stack'), sync |-> {}, path |-> Top.path,
                     val |-> Top.val, todo |-> CallbackSet(Top.path), cb |-> NoCb]
    <3>1. fwds' = Append(fwds, f)
      BY <2>3 DEF Push
    <3>2. fwds' \in Seq(Activity)
      BY FitsStep DEF Fits
    <3>3. f.path = Top.path /\ f.val = Top.val /\ f.sync = {}
      OBVIOUS
    <3> HIDE DEF f
    <3>4. f \in Activity
      <4>1. Len(fwds) + 1 \in DOMAIN fwds' /\ fwds'[Len(fwds) + 1] = f
        BY <3>1, FwdsType
      <4> QED BY <3>2, <4>1
    <3>5. Activities' = Activities \cup {f}
      BY <3>1, <3>4, FwdsType, PushActivities
    <3>6. ForChange
      BY <1>5, <2>1, <3>3, <3>4, <3>5 DEF ForChange
    <3> QED BY <3>6
  <2> QED BY <1>5, <2>2, <2>3 DEF CallNext
<1>6. ASSUME CallUser PROVE Goal
  <2>1. PICK u \in Now.todo : SetNow([Now EXCEPT !.cb = u, !.todo = @ \ {u}])
    BY <1>6 DEF CallUser
  <2> DEFINE g == [Now EXCEPT !.cb = u, !.todo = @ \ {u}]
  <2>2. g \in Activity /\ g.path = Now.path /\ g.val = Now.val /\ g.sync = Now.sync
    BY <1>4, <1>6 DEF CallUser, Activity
  <2>3. SetNow(g)
    BY <2>1
  <2> HIDE DEF g
  <2>4. Activities' \subseteq Activities \cup {g}
    BY <1>4, <1>6, <2>2, <2>3, FwdsType, SetNowActivities DEF CallUser
  <2>5. GoesOn
    BY <1>4, <1>6, <2>2, <2>4 DEF CallUser, GoesOn
  <2> QED BY <2>5
<1>7. ASSUME UserReturns PROVE Goal
  <2> DEFINE g == [Now EXCEPT !.cb = NoCb]
  <2>2. g \in Activity /\ g.path = Now.path /\ g.val = Now.val /\ g.sync = Now.sync
    BY <1>4, <1>7 DEF UserReturns, Activity
  <2>3. SetNow(g)
    BY <1>7 DEF UserReturns
  <2> HIDE DEF g
  <2>4. Activities' \subseteq Activities \cup {g}
    BY <1>4, <1>7, <2>2, <2>3, FwdsType, SetNowActivities DEF UserReturns
  <2>5. GoesOn
    BY <1>4, <1>7, <2>2, <2>4 DEF UserReturns, GoesOn
  <2> QED BY <2>5
<1>8. ASSUME EndForward PROVE Goal
  BY <1>4, <1>8, FwdsType, FrontActivities DEF EndForward
<1>9. ASSUME SyncNext PROVE Goal
  <2>1. PICK p \in Now.sync :
          SetNow([Now EXCEPT !.sync = @ \ {p}, !.path = p, !.val = obj[p], !.todo = CallbackSet(p)])
    BY <1>9 DEF SyncNext
  <2> DEFINE g == [Now EXCEPT !.sync = @ \ {p}, !.path = p, !.val = obj[p], !.todo = CallbackSet(p)]
  <2>2. Now \in Activity /\ p \in Path /\ Now \in Activities /\ fwds # <<>>
    BY <1>4, <1>9 DEF SyncNext, Activity
  <2>3. obj[p] \in Val \cup {NoVal} /\ CallbackSet(p) \subseteq User
    BY <2>2 DEF CallbackSet, CohabTyped, CohabTypeOK, Typed, TypeOK
  <2>4. g \in Activity /\ g.path = p /\ g.val = obj[p] /\ g.sync \subseteq Now.sync
    BY <2>2, <2>3 DEF Activity
  <2>5. SetNow(g)
    BY <2>1
  <2> HIDE DEF g
  <2>6. Activities' \subseteq Activities \cup {g}
    BY <2>2, <2>4, <2>5, FwdsType, SetNowActivities
  <2>7. NextObject
    BY <2>2, <2>4, <2>6 DEF NextObject
  <2> QED BY <2>7
<1>10. ASSUME NEW C \in SUBSET SubPath, Subscribe(C) PROVE Goal
  <2> DEFINE f == [kind |-> "sync", at |-> Len(stack'), sync |-> ToSync(C), path |-> <<>>,
                   val |-> NoVal, todo |-> {}, cb |-> NoCb]
  <2>1. fwds' = Append(fwds, f)
    BY <1>10 DEF Subscribe, Push
  <2>2. f.path = <<>> /\ f.sync = ToSync(C)
    OBVIOUS
  <2> HIDE DEF f
  <2>3. f \in Activity
    <3>1. fwds' \in Seq(Activity) /\ Len(fwds) + 1 \in DOMAIN fwds' /\ fwds'[Len(fwds) + 1] = f
      BY <2>1, FwdsType, FitsStep DEF Fits
    <3> QED BY <3>1
  <2>4. ForSubscription
    BY <2>1, <2>2, <2>3, FwdsType, PushActivities DEF ForSubscription
  <2> QED BY <2>4
<1>11. ASSUME NEW u \in User, NEW c \in UserPath, RegisterUser(u, c) \/ UnregisterUser(u, c) PROVE Goal
  BY <1>1, <1>11 DEF RegisterUser, UnregisterUser
<1>12. ASSUME Disconnect \/ DestroySession \/ NewSession \/ UNCHANGED allVars PROVE Goal
  BY <1>1, <1>12 DEF Disconnect, DestroySession, NewSession, Forget, cohabVars, allVars
<1> QED BY <1>2, <1>3, <1>5, <1>6, <1>7, <1>8, <1>9, <1>10, <1>11, <1>12 DEF CohabNext

(* What is passed on is what the tree holds: callbacks leave alone the object   *)
(* that they are told of.                                                       *)
LEMMA PassesCurrentStep ==
  ASSUME NotItself, CohabTyped, Notified, PassesCurrent, [CohabNext]_allVars
  PROVE  PassesCurrent'
<1>1. ASSUME NEW p \in Path, Del(p) \/ \E v \in Val : Put(p, v)
      PROVE  PassesCurrent'
  <2>1. UNCHANGED fwds /\ \A f \in Activities : <<f.path, p>> \in Reaction
    BY <1>1 DEF Del, Put, MayReact, cohabVars
  <2>2. \A q \in Path : q # p => obj'[q] = obj[q]
    BY <1>1 DEF Del, Put, DelObject, PutObject, Change, CohabTyped, Typed, TypeOK
  <2>3. Activities' = Activities
    BY <2>1 DEF Activities
  <2> QED BY <2>1, <2>2, <2>3 DEF PassesCurrent, NotItself
<1>2. ASSUME UNCHANGED obj PROVE PassesCurrent'
  <2>1. CASE Activities' \subseteq Activities
    BY <1>2, <2>1 DEF PassesCurrent
  <2>2. CASE ForChange
    <3>1. PICK f \in Activity : /\ Activities' = Activities \cup {f}
                                /\ f.path = Top.path /\ f.val = Top.val
      BY <2>2 DEF ForChange
    <3>2. Top.val = obj[Top.path]
      BY <2>2 DEF ForChange, Notified, Current
    <3> QED BY <1>2, <3>1, <3>2 DEF PassesCurrent
  <2>3. CASE GoesOn
    BY <1>2, <2>3 DEF PassesCurrent, GoesOn
  <2>4. CASE NextObject
    BY <1>2, <2>4 DEF PassesCurrent, NextObject
  <2>5. CASE ForSubscription
    BY <1>2, <2>5, AboveTypes DEF PassesCurrent, ForSubscription
  <2> QED BY <2>1, <2>2, <2>3, <2>4, <2>5, ActivitiesStep
<1> QED BY <1>1, <1>2, ObjSame

(* What a subscription has yet to pass on is there: callbacks do not delete it. *)
LEMMA ToPassStep ==
  ASSUME ~SyncDeletes, CohabTyped, ToPass, [CohabNext]_allVars
  PROVE  ToPass'
<1>1. ASSUME NEW p \in Path, Del(p) \/ \E v \in Val : Put(p, v)
      PROVE  ToPass'
  <2>1. Activities' = Activities
    BY <1>1 DEF Del, Put, cohabVars, Activities
  <2>2. \A f \in Activities : f.sync \subseteq Path
    BY FwdsType DEF Activity
  <2>3. CASE Del(p)
    <3>1. \A f \in Activities : p \notin f.sync
      BY <2>3 DEF Del
    <3>2. \A q \in Path : q # p => obj'[q] = obj[q]
      BY <2>3 DEF Del, DelObject, Change, CohabTyped, Typed, TypeOK
    <3> QED BY <2>1, <2>2, <3>1, <3>2 DEF ToPass
  <2>4. CASE \E v \in Val : Put(p, v)
    <3>1. \A q \in Path : obj[q] # NoVal => obj'[q] # NoVal
      BY <2>4, ValAssumption DEF Put, PutObject, Change, CohabTyped, Typed, TypeOK
    <3> QED BY <2>1, <2>2, <3>1 DEF ToPass
  <2> QED BY <1>1, <2>3, <2>4
<1>2. ASSUME UNCHANGED obj PROVE ToPass'
  <2>1. CASE Activities' \subseteq Activities
    BY <1>2, <2>1 DEF ToPass
  <2>2. CASE ForChange
    BY <1>2, <2>2 DEF ToPass, ForChange
  <2>3. CASE GoesOn
    BY <1>2, <2>3 DEF ToPass, GoesOn
  <2>4. CASE NextObject
    BY <1>2, <2>4 DEF ToPass, NextObject
  <2>5. CASE ForSubscription
    BY <1>2, <2>5 DEF ToPass, ForSubscription, ToSync
  <2> QED BY <2>1, <2>2, <2>3, <2>4, <2>5, ActivitiesStep
<1> QED BY <1>1, <1>2, ObjSame

-----------------------------------------------------------------------------
(* What the callbacks of the application hear                                *)

(* A callback knows nothing of what it does not follow. *)
HeardFollowed == \A u \in User, p \in Path : ~Follows(u, p) => heard[u][p] = NoVal

(* u is yet to hear of p. *)
Due(u, p) ==
  \/ \E f \in Frames : f.path = p /\ Session \in f.todo
  \/ \E f \in Activities : (f.path = p /\ u \in f.todo) \/ p \in f.sync

Heeded == HeardFollowed /\ SessionInformed

LEMMA HeededParts ==
  /\ SessionInformed <=> \A u \in User, p \in Path : Follows(u, p) => heard[u][p] = obj[p] \/ Due(u, p)
  /\ SessionInformed' <=> \A u \in User, p \in Path : Follows(u, p)' => heard'[u][p] = obj'[p] \/ Due(u, p)'
BY DEF SessionInformed, Due

(* Whoever follows an object is among those called for it. *)
LEMMA FollowersCalled ==
  ASSUME NEW u, NEW p, Follows(u, p)
  PROVE  u \in CallbackSet(p)
BY DEF Follows, CallbackSet, MatchesCbPath, Covers, IsStrictPrefix

(* A step that changes nothing of what callbacks follow and have heard, and     *)
(* takes away no call that is due.                                              *)
LEMMA HeededSame ==
  ASSUME Heeded, UNCHANGED <<obj, cbMap, heard>>, want'[Session] = want[Session],
         \A u \in User, p \in Path : Follows(u, p) /\ Due(u, p) => Due(u, p)'
  PROVE  Heeded'
<1>1. \A u \in User, p \in Path : Follows(u, p)' = Follows(u, p)
  BY DEF Follows, Wants
<1> QED BY <1>1, HeededParts DEF Heeded, HeardFollowed

(* A change is due to all that follow the object. *)
LEMMA HeededChange ==
  ASSUME CohabTyped, Notified, Heeded, NEW p \in Path, Del(p) \/ \E v \in Val : Put(p, v)
  PROVE  Heeded'
<1>1. UNCHANGED <<cbMap, heard, want, fwds>>
  BY DEF Del, Put, DelObject, PutObject, cohabVars, cbVars
<1>2. Activities' = Activities
  BY <1>1 DEF Activities
<1>3. CASE UNCHANGED <<obj, stack>>
  BY <1>1, <1>2, <1>3, HeededSame DEF Due, Frames
<1>4. CASE \E op, v : Change(op, p, v)
  <2>1. PICK op, v : Change(op, p, v)
    BY <1>4
  <2> DEFINE f == [op |-> op, path |-> p, val |-> v, todo |-> Called(p), cb |-> NoCb, gone |-> FALSE]
  <2>2. stack' = Append(stack, f) /\ f.path = p /\ f.todo = Called(p)
    BY <2>1 DEF Change
  <2>3. \A q \in Path : q # p => obj'[q] = obj[q]
    BY <2>1 DEF Change, CohabTyped, Typed, TypeOK
  <2> HIDE DEF f
  <2>4. Frames' = Frames \cup {f}
    BY <2>2, StackType, AppendFrames DEF CohabTyped
  <2>5. \A u \in User, q \in Path : Follows(u, q)' = Follows(u, q)
    BY <1>1 DEF Follows, Wants
  <2>6. ASSUME NEW u \in User, Follows(u, p) PROVE Due(u, p)'
    <3>1. Session \in Called(p)
      BY <2>6, CohabAssumption, CalledWants DEF Follows, Notified, CohabTyped
    <3> QED BY <2>2, <2>4, <3>1 DEF Due
  <2>7. \A u \in User, q \in Path : Due(u, q) => Due(u, q)'
    BY <1>2, <2>4 DEF Due
  <2>8. SessionInformed'
    BY <1>1, <2>3, <2>5, <2>6, <2>7, HeededParts DEF Heeded
  <2> QED BY <1>1, <2>5, <2>8 DEF Heeded, HeardFollowed
<1> QED BY <1>3, <1>4 DEF Del, Put, DelObject, PutObject

(* The session is called: the callbacks to be called are collected. *)
LEMMA HeededCallNext ==
  ASSUME CohabTyped, Heeded, CallNext
  PROVE  Heeded'
<1>1. PICK a \in Top.todo : stack' = SetTop([Top EXCEPT !.cb = a, !.todo = @ \ {a}])
  BY DEF CallNext, Notify
<1> DEFINE g == [Top EXCEPT !.cb = a, !.todo = @ \ {a}]
<1>2. stack # <<>> /\ stack \in Seq(FrameOf(alive)) /\ Top \in FrameOf(alive)
  BY StackType, TopType DEF CallNext, Notify, CohabTyped
<1>3. g \in FrameOf(alive) /\ g.path = Top.path /\ g.todo = Top.todo \ {a} /\ g.cb = a
  BY <1>2 DEF FrameOf
<1>4. stack' = SetTop(g)
  BY <1>1
<1> HIDE DEF g
<1>5. stack'[Len(stack)] = g /\ Frames \subseteq Frames' \cup {Top} /\ g \in Frames'
  BY <1>2, <1>3, <1>4, TopType, SetTopFrames
<1>6. UNCHANGED <<obj, cbMap, heard, want>>
  BY DEF CallNext, Notify, treeVars
<1>7. CASE a # Session
  <2>1. UNCHANGED fwds
    BY <1>3, <1>5, <1>7 DEF CallNext
  <2>2. \A u \in User, p \in Path : Due(u, p) => Due(u, p)'
    BY <1>3, <1>5, <1>7, <2>1 DEF Due, Activities
  <2> QED BY <1>6, <2>2, HeededSame
<1>8. CASE a = Session
  <2>1. Push("change", {}, Top.path, Top.val, CallbackSet(Top.path))
    BY <1>3, <1>5, <1>8 DEF CallNext
  <2> DEFINE f == [kind |-> "change", at |-> Len(stack'), sync |-> {}, path |-> Top.path,
                   val |-> Top.val, todo |-> CallbackSet(Top.path), cb |-> NoCb]
  <2>2. fwds' = Append(fwds, f) /\ f.path = Top.path /\ f.todo = CallbackSet(Top.path)
    BY <2>1 DEF Push
  <2> HIDE DEF f
  <2>3. f \in Activities' /\ Activities \subseteq Activities'
    BY <2>2, FwdsType DEF Activities
  <2>4. ASSUME NEW u \in User, NEW p \in Path, Follows(u, p), Due(u, p)
        PROVE  Due(u, p)'
    <3>1. CASE \E h \in Frames : h.path = p /\ Session \in h.todo
      <4>1. CASE Top.path = p
        BY <2>2, <2>3, <2>4, <4>1, FollowersCalled DEF Due
      <4>2. CASE Top.path # p
        BY <1>5, <3>1, <4>2 DEF Due
      <4> QED BY <4>1, <4>2
    <3>2. CASE \E h \in Activities : (h.path = p /\ u \in h.todo) \/ p \in h.sync
      BY <2>3, <3>2 DEF Due
    <3> QED BY <2>4, <3>1, <3>2 DEF Due
  <2> QED BY <1>6, <2>4, HeededSame
<1> QED BY <1>7, <1>8

(* The return of a callback, and the end of a call, take no callback away. *)
LEMMA HeededReturn ==
  ASSUME CohabTyped, Return \/ EndCall
  PROVE  \A p \in Path : (\E f \in Frames : f.path = p /\ Session \in f.todo) =>
                         (\E f \in Frames' : f.path = p /\ Session \in f.todo)
<1>1. stack # <<>> /\ stack \in Seq(FrameOf(alive)) /\ Top \in FrameOf(alive)
  BY StackType, TopType DEF Return, EndCall, CohabTyped
<1>2. CASE Return
  <2> DEFINE g == [Top EXCEPT !.cb = NoCb]
  <2>1. g \in FrameOf(alive) /\ g.path = Top.path /\ g.todo = Top.todo
    BY <1>1 DEF FrameOf
  <2>2. stack' = SetTop(g)
    BY <1>2 DEF Return
  <2> HIDE DEF g
  <2>3. Frames \subseteq Frames' \cup {Top} /\ g \in Frames'
    BY <1>1, <2>1, <2>2, SetTopFrames
  <2> QED BY <2>1, <2>3
<1>3. CASE EndCall
  <2>1. \A f \in Frames : f = Top \/ [f EXCEPT !.gone = @ \/ Erased(Removed, f.path)] \in Frames'
    BY <1>1, <1>3, EndCallParts, PopFrames
  <2>2. Top.todo = {}
    BY <1>3 DEF EndCall
  <2>3. ASSUME NEW f \in Frames
        PROVE  /\ [f EXCEPT !.gone = @ \/ Erased(Removed, f.path)].path = f.path
               /\ [f EXCEPT !.gone = @ \/ Erased(Removed, f.path)].todo = f.todo
    BY FrameType DEF FrameOf, CohabTyped
  <2> QED BY <2>1, <2>2, <2>3
<1> QED BY <1>2, <1>3

(* A callback of the application is called: it hears what the tree holds. *)
LEMMA HeededCallUser ==
  ASSUME CohabTyped, Heeded, PassesCurrent, CallUser
  PROVE  Heeded'
<1>1. PICK u \in Now.todo :
        /\ SetNow([Now EXCEPT !.cb = u, !.todo = @ \ {u}])
        /\ heard' = [heard EXCEPT ![u][Now.path] = IF Follows(u, Now.path) THEN Now.val ELSE @]
  BY DEF CallUser
<1> DEFINE g == [Now EXCEPT !.cb = u, !.todo = @ \ {u}]
<1>2. fwds # <<>> /\ Now \in Activity /\ Now \in Activities
  BY FwdsType DEF CallUser, Active, Now, Activities
<1>3. g \in Activity /\ g.path = Now.path /\ g.sync = Now.sync /\ g.todo = Now.todo \ {u} /\ u \in User
  BY <1>1, <1>2 DEF Activity
<1>4. SetNow(g)
  BY <1>1
<1> HIDE DEF g
<1>5. Activities \subseteq Activities' \cup {Now} /\ g \in Activities'
  BY <1>2, <1>3, <1>4, FwdsType, SetNowActivities
<1>6. UNCHANGED <<obj, cbMap, want, stack>>
  BY DEF CallUser, vars, treeVars, cbVars
<1>7. \A w \in User, p \in Path : Follows(w, p)' = Follows(w, p)
  BY <1>6 DEF Follows, Wants
<1>8. heard \in [User -> [Path -> Val \cup {NoVal}]]
  BY DEF CohabTyped, CohabTypeOK
<1>9. ASSUME NEW w \in User, NEW p \in Path
      PROVE  /\ w = u /\ p = Now.path /\ Follows(w, p) => heard'[w][p] = obj[p]
             /\ ~(w = u /\ p = Now.path /\ Follows(w, p)) => heard'[w][p] = heard[w][p]
  <2>1. CASE w = u /\ p = Now.path
    <3>1. Now.val = obj[p]
      BY <1>2, <2>1 DEF PassesCurrent
    <3> QED BY <1>1, <1>3, <1>8, <2>1, <3>1
  <2>2. CASE w = u /\ p # Now.path
    BY <1>1, <1>3, <1>8, <2>2
  <2>3. CASE w # u
    BY <1>1, <1>3, <1>8, <2>3
  <2> QED BY <2>1, <2>2, <2>3
<1>10. ASSUME NEW w \in User, NEW p \in Path, Due(w, p), ~(w = u /\ p = Now.path)
       PROVE  Due(w, p)'
  <2>1. CASE \E f \in Frames : f.path = p /\ Session \in f.todo
    BY <1>6, <2>1 DEF Due, Frames
  <2>2. CASE \E f \in Activities : (f.path = p /\ w \in f.todo) \/ p \in f.sync
    BY <1>3, <1>5, <1>10, <2>2 DEF Due
  <2> QED BY <1>10, <2>1, <2>2 DEF Due
<1>11. SessionInformed'
  BY <1>6, <1>7, <1>9, <1>10, HeededParts DEF Heeded
<1>12. HeardFollowed'
  BY <1>7, <1>9 DEF Heeded, HeardFollowed
<1> QED BY <1>11, <1>12 DEF Heeded

LEMMA HeededUserReturns ==
  ASSUME CohabTyped, Heeded, UserReturns
  PROVE  Heeded'
<1> DEFINE g == [Now EXCEPT !.cb = NoCb]
<1>1. fwds # <<>> /\ Now \in Activity
  BY FwdsType DEF UserReturns, Active, Now
<1>2. g \in Activity /\ g.path = Now.path /\ g.sync = Now.sync /\ g.todo = Now.todo
  BY <1>1 DEF Activity
<1>3. SetNow(g)
  BY DEF UserReturns
<1> HIDE DEF g
<1>4. Activities \subseteq Activities' \cup {Now} /\ g \in Activities'
  BY <1>1, <1>2, <1>3, FwdsType, SetNowActivities
<1>5. UNCHANGED <<obj, cbMap, heard, want, stack>>
  BY DEF UserReturns, vars, treeVars, cbVars
<1> QED BY <1>2, <1>4, <1>5, HeededSame DEF Due, Frames

LEMMA HeededEndForward ==
  ASSUME CohabTyped, Heeded, EndForward
  PROVE  Heeded'
<1>1. fwds # <<>> /\ Now.todo = {} /\ Now.sync = {} /\ fwds' = Front(fwds)
  BY DEF EndForward, Active
<1>2. Activities \subseteq Activities' \cup {Now}
  BY <1>1, FwdsType, FrontActivities
<1>3. UNCHANGED <<obj, cbMap, heard, want>>
  BY DEF EndForward, Return, vars, treeVars, cbVars
<1>4. \A p \in Path : (\E f \in Frames : f.path = p /\ Session \in f.todo) =>
                      (\E f \in Frames' : f.path = p /\ Session \in f.todo)
  <2>1. CASE Return
    BY <2>1, HeededReturn
  <2>2. CASE UNCHANGED vars
    BY <2>2 DEF vars, Frames
  <2> QED BY <2>1, <2>2 DEF EndForward
<1> QED BY <1>1, <1>2, <1>3, <1>4, HeededSame DEF Due

(* The next object of a subscription: the callbacks to be called are collected. *)
LEMMA HeededSyncNext ==
  ASSUME CohabTyped, Heeded, SyncNext
  PROVE  Heeded'
<1>1. PICK q \in Now.sync :
        SetNow([Now EXCEPT !.sync = @ \ {q}, !.path = q, !.val = obj[q], !.todo = CallbackSet(q)])
  BY DEF SyncNext
<1> DEFINE g == [Now EXCEPT !.sync = @ \ {q}, !.path = q, !.val = obj[q], !.todo = CallbackSet(q)]
<1>2. fwds # <<>> /\ Now \in Activity /\ Now.todo = {}
  BY FwdsType DEF SyncNext, Active, Now
<1>3. q \in Path /\ obj[q] \in Val \cup {NoVal} /\ CallbackSet(q) \subseteq User
  BY <1>1, <1>2 DEF Activity, CallbackSet, CohabTyped, CohabTypeOK, Typed, TypeOK
<1>4. g \in Activity /\ g.path = q /\ g.sync = Now.sync \ {q} /\ g.todo = CallbackSet(q)
  BY <1>2, <1>3 DEF Activity
<1>5. SetNow(g)
  BY <1>1
<1> HIDE DEF g
<1>6. Activities \subseteq Activities' \cup {Now} /\ g \in Activities'
  BY <1>2, <1>4, <1>5, FwdsType, SetNowActivities
<1>7. UNCHANGED <<obj, cbMap, heard, want, stack>>
  BY DEF SyncNext, treeVars, cbVars
<1>8. ASSUME NEW u \in User, NEW p \in Path, Follows(u, p), Due(u, p)
      PROVE  Due(u, p)'
  <2>1. CASE \E f \in Frames : f.path = p /\ Session \in f.todo
    BY <1>7, <2>1 DEF Due, Frames
  <2>2. CASE \E f \in Activities : (f.path = p /\ u \in f.todo) \/ p \in f.sync
    <3>1. CASE p = q
      BY <1>4, <1>6, <1>8, <3>1, FollowersCalled DEF Due
    <3>2. CASE p # q
      BY <1>2, <1>4, <1>6, <2>2, <3>2 DEF Due
    <3> QED BY <3>1, <3>2
  <2> QED BY <1>8, <2>1, <2>2 DEF Due
<1> QED BY <1>7, <1>8, HeededSame

(* A subscription passes on what is there of the objects that become followed; *)
(* of the others nothing has been heard.                                        *)
LEMMA HeededSubscribe ==
  ASSUME CohabTyped, Heeded, NEW C \in SUBSET SubPath, Subscribe(C)
  PROVE  Heeded'
<1> DEFINE f == [kind |-> "sync", at |-> Len(stack'), sync |-> ToSync(C), path |-> <<>>,
                 val |-> NoVal, todo |-> {}, cb |-> NoCb]
<1>1. fwds' = Append(fwds, f) /\ f.sync = ToSync(C)
  BY DEF Subscribe, Push
<1> HIDE DEF f
<1>2. f \in Activities' /\ Activities \subseteq Activities'
  BY <1>1, FwdsType DEF Activities
<1>3. UNCHANGED <<obj, cbMap, heard, stack>> /\ want'[Session] = want[Session] \cup C
  BY CohabAssumption DEF Subscribe, Register, CohabTyped, Typed, TypeOK
<1>4. ASSUME NEW u \in User, NEW p \in Path
      PROVE  /\ Follows(u, p) => Follows(u, p)'
             /\ Due(u, p) => Due(u, p)'
             /\ Follows(u, p)' /\ ~Follows(u, p) => \E c \in C : Covers(c, p)
  BY <1>2, <1>3 DEF Follows, Wants, Due, Frames
<1>5. HeardFollowed'
  BY <1>3, <1>4 DEF Heeded, HeardFollowed
<1>6. ASSUME NEW u \in User, NEW p \in Path, Follows(u, p)'
      PROVE  heard'[u][p] = obj'[p] \/ Due(u, p)'
  <2>1. CASE Follows(u, p)
    BY <1>3, <1>4, <2>1, HeededParts DEF Heeded
  <2>2. CASE ~Follows(u, p)
    <3>1. heard[u][p] = NoVal /\ \E c \in C : Covers(c, p)
      BY <1>4, <1>6, <2>2 DEF Heeded, HeardFollowed
    <3>2. CASE obj[p] = NoVal
      BY <1>3, <3>1, <3>2
    <3>3. CASE obj[p] # NoVal
      BY <1>1, <1>2, <3>1, <3>3 DEF ToSync, Due
    <3> QED BY <3>2, <3>3
  <2> QED BY <2>1, <2>2
<1> QED BY <1>5, <1>6, HeededParts DEF Heeded

LEMMA HeededRegisterUser ==
  ASSUME CohabTyped, Heeded, NEW w \in User, NEW c \in UserPath, RegisterUser(w, c)
  PROVE  Heeded'
<1> DEFINE h == [p \in Path |-> IF Covers(c, p) /\ Wants(Session, p) THEN GetObject(p) ELSE heard[w][p]]
<1>1. /\ heard \in [User -> [Path -> Val \cup {NoVal}]]
      /\ cbMap \in [UserPath -> SUBSET User]
      /\ want[Session] = subscribedPaths
  BY DEF CohabTyped, CohabTypeOK
<1>2. UNCHANGED <<obj, want, stack, fwds>>
  BY DEF RegisterUser, vars, treeVars, cbVars
<1>3. cbMap' = [cbMap EXCEPT ![c] = @ \cup {w}] /\ heard' = [heard EXCEPT ![w] = h]
  BY <1>1 DEF RegisterUser
<1>4. ASSUME NEW p \in Path, Wants(Session, p) PROVE GetObject(p) = obj[p]
  BY <1>1, <1>4 DEF Wants, GetObject, MatchesCbPath, Covers, IsStrictPrefix
<1>5. ASSUME NEW p \in Path
      PROVE  heard'[w][p] = IF Covers(c, p) /\ Wants(Session, p) THEN obj[p] ELSE heard[w][p]
  BY <1>1, <1>3, <1>4
<1> HIDE DEF h
<1>6. \A u \in User : u # w => heard'[u] = heard[u]
  BY <1>1, <1>3
<1>7. \A p : Wants(Session, p)' = Wants(Session, p)
  BY <1>2 DEF Wants
<1>8. ASSUME NEW u \in User, NEW p \in Path
      PROVE  /\ Follows(u, p) => Follows(u, p)'
             /\ Follows(u, p)' /\ ~Follows(u, p) => u = w /\ Covers(c, p) /\ Wants(Session, p)
             /\ Due(u, p)' = Due(u, p)
  <2>1. \A d \in UserPath : /\ cbMap[d] \subseteq cbMap'[d]
                            /\ u \in cbMap'[d] /\ u \notin cbMap[d] => u = w /\ d = c
    BY <1>1, <1>3
  <2>2. Due(u, p)' = Due(u, p)
    BY <1>2 DEF Due, Frames, Activities
  <2> QED BY <1>7, <2>1, <2>2 DEF Follows
<1>9. HeardFollowed'
  <2>1. ASSUME NEW u \in User, NEW p \in Path, ~Follows(u, p)'
        PROVE  heard'[u][p] = NoVal
    <3>1. ~Follows(u, p) /\ heard[u][p] = NoVal
      BY <1>8, <2>1 DEF Heeded, HeardFollowed
    <3>2. u = w => ~(Covers(c, p) /\ Wants(Session, p))
      BY <1>1, <1>3, <1>7, <2>1 DEF Follows
    <3> QED BY <1>5, <1>6, <3>1, <3>2
  <2> QED BY <2>1 DEF HeardFollowed
<1>10. ASSUME NEW u \in User, NEW p \in Path, Follows(u, p)'
       PROVE  heard'[u][p] = obj'[p] \/ Due(u, p)'
  BY <1>2, <1>5, <1>6, <1>8, <1>10, HeededParts DEF Heeded
<1> QED BY <1>9, <1>10, HeededParts DEF Heeded

LEMMA HeededUnregisterUser ==
  ASSUME CohabTyped, Heeded, NEW w \in User, NEW c \in UserPath, UnregisterUser(w, c)
  PROVE  Heeded'
<1> DEFINE h == [p \in Path |-> IF \E d \in UserPath : w \in cbMap'[d] /\ Covers(d, p)
                                THEN heard[w][p] ELSE NoVal]
<1>1. /\ heard \in [User -> [Path -> Val \cup {NoVal}]]
      /\ cbMap \in [UserPath -> SUBSET User]
  BY DEF CohabTyped, CohabTypeOK
<1>2. UNCHANGED <<obj, want, stack, fwds>>
  BY DEF UnregisterUser, vars, treeVars, cbVars
<1>3. cbMap' = [cbMap EXCEPT ![c] = @ \ {w}] /\ heard' = [heard EXCEPT ![w] = h]
  BY <1>1 DEF UnregisterUser
<1>5. ASSUME NEW p \in Path
      PROVE  heard'[w][p] = IF \E d \in UserPath : w \in cbMap'[d] /\ Covers(d, p)
                            THEN heard[w][p] ELSE NoVal
  BY <1>1, <1>3
<1> HIDE DEF h
<1>6. \A u \in User : u # w => heard'[u] = heard[u]
  BY <1>1, <1>3
<1>7. \A p : Wants(Session, p)' = Wants(Session, p)
  BY <1>2 DEF Wants
<1>8. \A d \in UserPath, u \in User : /\ u \in cbMap'[d] => u \in cbMap[d]
                                      /\ u # w /\ u \in cbMap[d] => u \in cbMap'[d]
  BY <1>1, <1>3
<1>9. ASSUME NEW u \in User, NEW p \in Path
      PROVE  /\ Follows(u, p)' => Follows(u, p) /\ heard'[u][p] = heard[u][p]
             /\ ~Follows(u, p)' => heard'[u][p] = NoVal
             /\ Due(u, p)' = Due(u, p)
  <2>1. Due(u, p)' = Due(u, p)
    BY <1>2 DEF Due, Frames, Activities
  <2>2. Follows(u, p)' => Follows(u, p) /\ heard'[u][p] = heard[u][p]
    BY <1>5, <1>6, <1>7, <1>8 DEF Follows
  <2>3. ~Follows(u, p) => heard[u][p] = NoVal
    BY DEF Heeded, HeardFollowed
  <2>4. ~Follows(u, p)' => heard'[u][p] = NoVal
    BY <1>5, <1>6, <1>7, <1>8, <2>3 DEF Follows
  <2> QED BY <2>1, <2>2, <2>4
<1> QED BY <1>2, <1>9, HeededParts DEF Heeded, HeardFollowed

(* Nobody follows anything when the session is disconnected or destroyed. *)
LEMMA HeededForget ==
  ASSUME Forget
  PROVE  Heeded'
<1>1. \A u \in User, p \in Path : heard'[u][p] = NoVal /\ ~Follows(u, p)'
  BY DEF Forget, Follows
<1> QED BY <1>1, HeededParts DEF Heeded, HeardFollowed

LEMMA HeededStep ==
  ASSUME CohabTyped, Notified, PassesCurrent, Heeded, [CohabNext]_allVars
  PROVE  Heeded'
<1>1. ASSUME UNCHANGED <<obj, cbMap, heard, stack, fwds>>, want'[Session] = want[Session]
      PROVE  Heeded'
  BY <1>1, HeededSame DEF Due, Frames, Activities
<1>2. ASSUME NEW p \in Path, Del(p) \/ \E v \in Val : Put(p, v) PROVE Heeded'
  BY <1>2, HeededChange
<1>3. CASE Others
  <2>1. want'[Session] = want[Session]
    BY <1>3, OtherWant DEF Others
  <2> QED BY <1>1, <1>3, <2>1 DEF Others, New, Destroy, Register, Unregister, cohabVars, treeVars
<1>4. CASE CallNext
  BY <1>4, HeededCallNext
<1>5. CASE ReturnOther \/ EndTreeCall
  <2>1. UNCHANGED <<obj, cbMap, heard, fwds, want>> /\ (Return \/ EndCall)
    BY <1>5 DEF ReturnOther, EndTreeCall, Return, EndCall, cohabVars, treeVars, cbVars
  <2> QED BY <2>1, HeededReturn, HeededSame DEF Due, Activities
<1>6. CASE CallUser
  BY <1>6, HeededCallUser
<1>7. CASE UserReturns
  BY <1>7, HeededUserReturns
<1>8. CASE EndForward
  BY <1>8, HeededEndForward
<1>9. CASE SyncNext
  BY <1>9, HeededSyncNext
<1>10. ASSUME NEW C \in SUBSET SubPath, Subscribe(C) PROVE Heeded'
  BY <1>10, HeededSubscribe
<1>11. ASSUME NEW u \in User, NEW c \in UserPath, RegisterUser(u, c) \/ UnregisterUser(u, c)
       PROVE  Heeded'
  BY <1>11, HeededRegisterUser, HeededUnregisterUser
<1>12. CASE Disconnect \/ DestroySession
  BY <1>12, HeededForget DEF Disconnect, DestroySession
<1>13. CASE NewSession
  BY <1>1, <1>13 DEF NewSession, New, cohabVars, treeVars
<1>14. CASE UNCHANGED allVars
  BY <1>1, <1>14 DEF allVars, vars, treeVars, cbVars, cohabVars
<1> QED BY <1>2, <1>3, <1>4, <1>5, <1>6, <1>7, <1>8, <1>9, <1>10, <1>11, <1>12, <1>13, <1>14 DEF CohabNext

-----------------------------------------------------------------------------
(* What the tree promises, with a session in it                              *)

LEMMA CohabTreeStep ==
  ASSUME CohabTyped, [CohabNext]_allVars
  PROVE  /\ NodesKept => NodesKept'
         /\ Swept => Swept'
         /\ NotItself /\ ~Reuse /\ Notified => Notified'
         /\ NotBelow /\ ~SyncDeletes /\ ToPass /\ NodesKept /\ Anchored => Anchored'
<1>1. CASE [Next]_vars
  BY <1>1, NodesKeptStep, SweptStep, NotifiedStep, AnchoredStep DEF CohabTyped
<1>2. CASE SyncNext
  <2>1. UNCHANGED <<treeVars, cbVars, stack>> /\ Frames' = Frames
    BY <1>2, SyncNextTree
  <2>2. NodesKept => NodesKept'
    BY <2>1 DEF NodesKept, treeVars
  <2>3. crashed \notin {TRUE}
    BY <1>2 DEF SyncNext
  <2>4. Swept => Swept'
    BY <2>1, <2>3 DEF Swept, Used, treeVars
  <2>5. Notified => Notified'
    BY <2>1 DEF Notified, Entered, Current, Informed, Wants, treeVars, cbVars
  <2>6. ToPass => ~crashed'
    <3>1. Now \in Activities
      BY <1>2, FwdsType DEF SyncNext, Active, Now, Activities
    <3> QED BY <1>2, <3>1 DEF SyncNext, ToPass
  <2>7. ToPass /\ Anchored => Anchored'
    BY <2>1, <2>6 DEF Anchored, treeVars
  <2> QED BY <2>2, <2>4, <2>5, <2>7
<1> QED BY <1>1, <1>2, TreeStep

LEMMA CohabOtherInit ==
  ASSUME CohabInit
  PROVE  NodesKept /\ Swept /\ Notified /\ Anchored /\ ToPass /\ PassesCurrent /\ Heeded
<1>1. Init /\ Frames = {} /\ Activities = {}
  BY DEF CohabInit, Init, Frames, Activities
<1>2. NodesKept /\ Swept /\ Anchored
  BY <1>1 DEF Init, NodesKept, Swept, Anchored
<1>3. Notified
  BY <1>1 DEF Init, Notified, Entered, Current, Informed, Wants
<1>4. ToPass /\ PassesCurrent
  BY <1>1 DEF ToPass, PassesCurrent
<1>5. Heeded
  BY DEF CohabInit, Heeded, HeardFollowed, SessionInformed, Follows
<1> QED BY <1>2, <1>3, <1>4, <1>5

(* As long as callbacks do not change the object that they are told of, and no  *)
(* new callback gets the address of one that a map still refers to, each        *)
(* callback of the application follows the objects that it has registered for   *)
(* and the session is subscribed to, whatever is subscribed, registered,        *)
(* changed and disconnected from within callbacks (onUpdated, onDeleted,        *)
(* subscribePath, registerCallback of ObexCohabClientSession).                  *)
THEOREM SessionInformedCorrect ==
  ASSUME NotItself, ~Reuse
  PROVE  CohabSpec => []SessionInformed
<1>1. CohabInit => CohabTyped
  BY CohabTypedInit
<1>2. CohabTyped /\ [CohabNext]_allVars => CohabTyped'
  BY CohabTypedStep
<1>3. CohabInit => Notified /\ PassesCurrent /\ Heeded
  BY CohabOtherInit
<1>4. CohabTyped /\ Notified /\ [CohabNext]_allVars => Notified'
  BY CohabTreeStep
<1>5. CohabTyped /\ Notified /\ PassesCurrent /\ [CohabNext]_allVars => PassesCurrent'
  BY PassesCurrentStep
<1>6. CohabTyped /\ Notified /\ PassesCurrent /\ Heeded /\ [CohabNext]_allVars => Heeded'
  BY HeededStep
<1>7. Heeded => SessionInformed
  BY DEF Heeded
<1> QED BY <1>1, <1>2, <1>3, <1>4, <1>5, <1>6, <1>7, PTL DEF CohabSpec

(* The other callbacks of the tree follow it as before, under the same          *)
(* conditions.                                                                  *)
THEOREM CohabInformedCorrect ==
  ASSUME NotItself, ~Reuse
  PROVE  CohabSpec => []Informed
<1>1. CohabInit => CohabTyped /\ Notified
  BY CohabTypedInit, CohabOtherInit
<1>2. CohabTyped /\ [CohabNext]_allVars => CohabTyped'
  BY CohabTypedStep
<1>3. CohabTyped /\ Notified /\ [CohabNext]_allVars => Notified'
  BY CohabTreeStep
<1>4. Notified => Informed
  BY DEF Notified
<1> QED BY <1>1, <1>2, <1>3, <1>4, PTL DEF CohabSpec

(* As long as callbacks leave alone the object that they are told of and what   *)
(* is below it, and delete nothing that a subscription has yet to pass on, no   *)
(* pointer dangles and the object that a subscription looks up is there         *)
(* (ObexTree.cpp:319, the assert of ObexClient.cpp:243).                        *)
THEOREM CohabNoDanglingCorrect ==
  ASSUME NotBelow, ~SyncDeletes
  PROVE  CohabSpec => []NoDanglingNode
<1>1. CohabInit => CohabTyped /\ NodesKept /\ Anchored /\ ToPass
  BY CohabTypedInit, CohabOtherInit
<1>2. CohabTyped /\ [CohabNext]_allVars => CohabTyped'
  BY CohabTypedStep
<1>3. CohabTyped /\ NodesKept /\ [CohabNext]_allVars => NodesKept'
  BY CohabTreeStep
<1>4. CohabTyped /\ ToPass /\ [CohabNext]_allVars => ToPass'
  BY ToPassStep
<1>5. CohabTyped /\ ToPass /\ NodesKept /\ Anchored /\ [CohabNext]_allVars => Anchored'
  BY CohabTreeStep
<1>6. Anchored => NoDanglingNode
  BY DEF Anchored, NoDanglingNode
<1> QED BY <1>1, <1>2, <1>3, <1>4, <1>5, <1>6, PTL DEF CohabSpec

(* The session adds no way in which the tree loses a node that is needed, or    *)
(* keeps one that nothing needs.                                                *)
THEOREM CohabNodesCorrect == CohabSpec => [](NodesKept /\ NoLitter)
<1>1. CohabInit => CohabTyped /\ NodesKept /\ Swept
  BY CohabTypedInit, CohabOtherInit
<1>2. CohabTyped /\ [CohabNext]_allVars => CohabTyped'
  BY CohabTypedStep
<1>3. CohabTyped /\ NodesKept /\ Swept /\ [CohabNext]_allVars => NodesKept' /\ Swept'
  BY CohabTreeStep
<1>4. NodesKept /\ Swept => NodesKept /\ NoLitter
  BY DEF Swept, NoLitter, Used, Frames
<1> QED BY <1>1, <1>2, <1>3, <1>4, PTL DEF CohabSpec
=============================================================================
