------------------------ MODULE ObexServerHistoryProofs ------------------------
(* Proofs about ObexServer: what clients see over time, sessions' objects in  *)
(* the tree, and objects put with the dod option.                             *)
EXTENDS ObexServerProofs

-----------------------------------------------------------------------------
(* The parts of the invariant.                                               *)

(* Only the session whose handler runs is new; a disconnected one is destroyed *)
(* with its handler or is being destroyed. *)
Attended ==
  \A s \in Session :
    /\ st[s] = "new" => current = s
    /\ st[s] = "zombie" => current = s \/ s \in ToSet(dying)

(* The object of a session is there while it is connected. *)
Shown ==
  \A s \in Session :
    /\ st[s] = "free" => ~Present(SessionPath(s))
    /\ st[s] = "up" => Present(SessionPath(s))

(* Clients use the dod option for their own objects. *)
DodUser ==
  /\ \A s \in Session : DOMAIN dodMap[s] \subseteq UserPath
  /\ \A p \in Path \ UserPath : dodBy[p] = NoSession

PInv == Attended /\ Shown /\ DodUser

(* Numbers of operations. *)
Stamped ==
  /\ \A p \in Path : tree[p].op <= clock /\ (Present(p) => tree[p].op > 0)
  /\ \A s \in Session : st[s] = "new" /\ ~Present(SessionPath(s)) => tree[SessionPath(s)].op < clock

(* What a client has of an object, what is on its way to it, what is held back *)
(* for it and what the tree holds grow newer in this order.                    *)
Ageing(q, r, x, d, p) ==
  /\ Older(r, d)
  /\ \A i \in DOMAIN q : p \in DOMAIN q[i].upd =>
       /\ Older(r, q[i].upd[p]) /\ Older(q[i].upd[p], d)
       /\ \A j \in DOMAIN q : i < j /\ p \in DOMAIN q[j].upd => Older(q[i].upd[p], q[j].upd[p])
  /\ p \in DOMAIN x =>
       /\ Older(r, x[p]) /\ Older(x[p], d)
       /\ \A i \in DOMAIN q : p \in DOMAIN q[i].upd => Older(q[i].upd[p], x[p])

Ordered == \A s \in Session, p \in Path : Ageing(pipe[s], replica[s][p], xaction[s], tree[p], p)

(* What the client knows to be complete after the first k messages. *)
Told(q, n, k) == n \cup UNION {q[i].subs : i \in 1 .. k}

(* Who held r at p holds what is the same as d after the first k messages. *)
Upto(q, k, r, p, d) ==
  LET U == {i \in 1 .. k : p \in DOMAIN q[i].upd}
  IN /\ U = {} => Same(r, d)
     /\ \A i \in U : (\A j \in U : j <= i) => Same(q[i].upd[p], d)

(* After each message the client has of what it knows to be complete a state   *)
(* that the tree has had.                                                      *)
Shows(q, n, r, k, S) ==
  \E h \in S : \A p \in Path : (\E c \in Told(q, n, k) : Covers(c, p)) => Upto(q, k, r[p], p, h[p])

Snapshots ==
  /\ tree \in seen
  /\ \A s \in Session : st[s] # "zombie" =>
       /\ Told(pipe[s], notified[s], Len(pipe[s])) \subseteq cbPaths[s]
       /\ \A k \in 0 .. Len(pipe[s]) : Shows(pipe[s], notified[s], replica[s], k, seen)

(* A dod object that is there is recorded by who put it. *)
Recorded ==
  \A p \in Path : Present(p) /\ dodBy[p] # NoSession =>
    /\ st[dodBy[p]] \in {"up", "zombie"}
    /\ p \in DOMAIN dodMap[dodBy[p]]
    /\ dodMap[dodBy[p]][p] = tree[p].op

(* Object n at p is not what a transaction x or the messages of q hold.       *)
Apart(n, p, x, q) ==
  /\ p \in DOMAIN x /\ x[p].val # NoVal => x[p].op # n
  /\ \A i \in DOMAIN q : q[i].holds /\ p \in DOMAIN q[i].upd =>
       q[i].upd[p].val = NoVal \/ q[i].upd[p].op # n

(* What a session has a record of is its own while it is in the tree, and is   *)
(* held by no transaction.                                                     *)
Plain ==
  \A s \in Session, p \in UserPath : p \in DOMAIN dodMap[s] =>
    /\ dodMap[s][p] <= clock
    /\ dodMap[s][p] = tree[p].op /\ Present(p) => dodBy[p] = s
    /\ \A t \in Session : Apart(dodMap[s][p], p, xaction[t], pipe[t])

-----------------------------------------------------------------------------
(* What a step does to one session.                                          *)

(* It stays as it is but for subscriptions. *)
Stays(s) == st'[s] = st[s] /\ cbPaths[s] \subseteq cbPaths'[s]

(* It is disconnected, and will be destroyed. *)
Falls(s) == st'[s] = "zombie" /\ (s = current' \/ s \in ToSet(dying'))

(* No message is sent to it or received from it. *)
Kept(s) ==
  /\ pipe'[s] = pipe[s] /\ replica'[s] = replica[s] /\ notified'[s] = notified[s]
  /\ \A p \in DOMAIN xaction'[s] :
       \/ p \in DOMAIN xaction[s] /\ xaction'[s][p] = xaction[s][p]
       \/ xaction'[s][p] = tree'[p] /\ tree'[p] # tree[p]

(* It is sent the messages of w, which have what the tree holds. *)
Sent(s, w) ==
  /\ w \in Seq(Msg) /\ pipe'[s] = pipe[s] \o w
  /\ replica'[s] = replica[s] /\ notified'[s] = notified[s]
  /\ DOMAIN xaction[s] = {} /\ DOMAIN xaction'[s] = {}
  /\ Len(w) = 1 \/ tree' = tree
  /\ \A j \in DOMAIN w :
       /\ ~w[j].holds
       /\ \A p \in DOMAIN w[j].upd : w[j].upd[p] = tree'[p]
       /\ st'[s] # "zombie" => w[j].subs \subseteq cbPaths'[s] /\ (j # Len(w) => w[j].subs = {})

(* It is sent what was held back. *)
Flushed(s) ==
  /\ pipe'[s] = Append(pipe[s], TransactionMsg(xaction[s]))
  /\ replica'[s] = replica[s] /\ notified'[s] = notified[s]
  /\ DOMAIN xaction'[s] = {} /\ tree' = tree

(* Its client handles a message. *)
Received(s) ==
  /\ pipe[s] # <<>> /\ pipe'[s] = Tail(pipe[s])
  /\ replica'[s] = Apply(Head(pipe[s]).upd, replica[s])
  /\ notified'[s] = notified[s] \cup Head(pipe[s]).subs
  /\ xaction'[s] = xaction[s] /\ tree' = tree

(* Its slot is left empty. *)
Cleared(s) ==
  /\ st'[s] = "free"
  /\ pipe'[s] = <<>> /\ DOMAIN xaction'[s] = {}
  /\ replica'[s] = [p \in Path |-> Empty] /\ notified'[s] = {}
  /\ tree' = tree

Moves(s) == Kept(s) \/ (\E w : Sent(s, w)) \/ Flushed(s) \/ Received(s) \/ Cleared(s)

LEMMA Falling ==
  ASSUME SendingOK, NEW L \in SUBSET Session, Disconnected(L)
  PROVE  /\ \A s \in L : Falls(s)
         /\ \A s \in Session \ L : st'[s] = st[s] /\ cbPaths'[s] = cbPaths[s]
         /\ ToSet(dying) \subseteq ToSet(dying')
<1>1. PICK order \in SetToSeqs(L \ {current'}) : dying' = order \o dying
  BY DEF Disconnected
<1>2. order \in Seq(Session) /\ ToSet(order) = L \ {current'}
  BY SessionOrder
<1>3. ToSet(order) \cup ToSet(dying) \subseteq ToSet(dying')
  BY <1>1, <1>2, ToSetConcat DEF SendingOK
<1>4. /\ st' = [s \in Session |-> IF s \in L THEN "zombie" ELSE st[s]]
      /\ cbPaths' = [s \in Session |-> IF s \in L THEN {} ELSE cbPaths[s]]
  BY DEF Disconnected
<1>5. \A s \in L : s = current' \/ s \in ToSet(dying')
  BY <1>2, <1>3
<1> QED BY <1>3, <1>4, <1>5 DEF Falls

LEMMA Sending ==
  ASSUME SendingOK, NEW N \in SUBSET Session, NEW m, Enqueue(N, m)
  PROVE  /\ \A s \in Session :
              \/ /\ st'[s] = st[s] /\ cbPaths'[s] = cbPaths[s]
                 /\ pipe'[s] = IF s \in N THEN Append(pipe[s], m[s]) ELSE pipe[s]
              \/ s \in N /\ Falls(s) /\ pipe'[s] = pipe[s]
         /\ ToSet(dying) \subseteq ToSet(dying')
<1> DEFINE late == {s \in N : Overloaded(s)}
           ok   == N \ late
<1>1. /\ pipe' = [s \in Session |-> IF s \in ok THEN Append(pipe[s], m[s]) ELSE pipe[s]]
      /\ Disconnected(late)
  BY DEF Enqueue
<1>2. late \in SUBSET Session /\ late \subseteq N
  OBVIOUS
<1> HIDE DEF late
<1>3. /\ \A s \in late : Falls(s)
      /\ \A s \in Session \ late : st'[s] = st[s] /\ cbPaths'[s] = cbPaths[s]
      /\ ToSet(dying) \subseteq ToSet(dying')
  BY <1>1, <1>2, Falling
<1> QED BY <1>1, <1>2, <1>3

(* The object at p changes: every session is told of it, or not at all. *)
LEMMA ChangeEffect ==
  ASSUME IInv, NEW p \in Path, NEW d \in Data, d # tree[p], Change(p, d),
         UNCHANGED <<replica, notified, xInProgress>>
  PROVE  /\ tree'[p] = d /\ \A q \in Path : q # p => tree'[q] = tree[q]
         /\ seen' = seen \cup {tree'}
         /\ ToSet(dying) \subseteq ToSet(dying')
         /\ \A s \in Session : (Stays(s) \/ Falls(s)) /\ (Kept(s) \/ \E w : Sent(s, w))
<1>0. SendingOK /\ HoldingOK /\ TreeOK /\ Listed
  BY InvUnfold
<1>1. tree' = [tree EXCEPT ![p] = d] /\ seen' = seen \cup {tree'} /\ Announce(p, d)
  BY DEF Change
<1>2. tree'[p] = d /\ \A q \in Path : q # p => tree'[q] = tree[q]
  BY <1>0, <1>1 DEF TreeOK
<1>3. /\ One(p, d) \in Update /\ DOMAIN One(p, d) = {p} /\ One(p, d)[p] = d
      /\ NoUpdate \in Update /\ DOMAIN NoUpdate = {}
      /\ PutMsg(p, d) \in Msg /\ PutMsg(p, d).upd = One(p, d)
      /\ ~PutMsg(p, d).holds /\ PutMsg(p, d).subs = {}
  BY OneType, NoUpdateType, PutMsgType DEF PutMsg
<1>4. CASE xInProgress
  <2> DEFINE u == [s \in Session |-> IF s \in Registered(p) THEN One(p, d) ELSE NoUpdate]
  <2>1. HoldBack(u) /\ UNCHANGED sending
    BY <1>1, <1>4 DEF Announce
  <2>2. ASSUME NEW s \in Session
        PROVE  /\ u[s] \in Update
               /\ \A q \in DOMAIN u[s] : u[s][q] = tree'[q] /\ tree'[q] # tree[q]
    <3>1. CASE s \in Registered(p)
      BY <1>2, <1>3, <3>1
    <3>2. CASE s \notin Registered(p)
      BY <1>3, <3>2
    <3> QED BY <3>1, <3>2
  <2> HIDE DEF u
  <2>3. \A s \in Session :
          /\ DOMAIN xaction'[s] = DOMAIN xaction[s] \cup DOMAIN u[s]
          /\ \A q \in DOMAIN u[s] : xaction'[s][q] = u[s][q]
          /\ \A q \in DOMAIN xaction[s] \ DOMAIN u[s] : xaction'[s][q] = xaction[s][q]
    BY <1>0, <1>4, <2>1, <2>2, HoldBackEffect
  <2>4. ASSUME NEW s \in Session PROVE Stays(s) /\ Kept(s)
    BY <2>1, <2>2, <2>3 DEF sending, Stays, Kept
  <2>5. dying' = dying
    BY <2>1 DEF sending
  <2> QED BY <1>1, <1>2, <2>4, <2>5
<1>5. CASE ~xInProgress
  <2> DEFINE m == [s \in Session |-> PutMsg(p, d)]
  <2>1. Enqueue(Registered(p), m) /\ UNCHANGED holding
    BY <1>1, <1>5 DEF Announce
  <2>2. \A s \in Session : m[s] = PutMsg(p, d)
    OBVIOUS
  <2> HIDE DEF m
  <2>3. Registered(p) \in SUBSET Session
    BY DEF Registered
  <2>4. /\ \A s \in Session :
             \/ /\ st'[s] = st[s] /\ cbPaths'[s] = cbPaths[s]
                /\ pipe'[s] = IF s \in Registered(p) THEN Append(pipe[s], m[s]) ELSE pipe[s]
             \/ s \in Registered(p) /\ Falls(s) /\ pipe'[s] = pipe[s]
        /\ ToSet(dying) \subseteq ToSet(dying')
    BY <1>0, <2>1, <2>3, Sending
  <2>5. ASSUME NEW s \in Session
        PROVE  (Stays(s) \/ Falls(s)) /\ (Kept(s) \/ \E w : Sent(s, w))
    <3>1. xaction'[s] = xaction[s] /\ DOMAIN xaction[s] = {}
      BY <1>0, <1>5, <2>1 DEF holding, Listed
    <3>2. Stays(s) \/ Falls(s)
      BY <2>4 DEF Stays
    <3>3. CASE pipe'[s] = pipe[s]
      BY <3>1, <3>2, <3>3 DEF Kept
    <3>4. CASE pipe'[s] # pipe[s]
      <4> DEFINE w == <<PutMsg(p, d)>>
      <4>1. pipe'[s] = Append(pipe[s], PutMsg(p, d)) /\ pipe[s] \in Seq(Msg)
        BY <1>0, <2>2, <2>4, <3>4 DEF SendingOK
      <4>2. w \in Seq(Msg) /\ Len(w) = 1 /\ DOMAIN w = {1} /\ w[1] = PutMsg(p, d)
        BY <1>3
      <4>3. pipe'[s] = pipe[s] \o w
        BY <1>3, <4>1
      <4>4. Sent(s, w)
        <5> HIDE DEF w
        <5>1. ~w[1].holds /\ w[1].subs = {} /\ DOMAIN w[1].upd = {p} /\ w[1].upd[p] = tree'[p]
          BY <1>2, <1>3, <4>2
        <5> QED BY <3>1, <4>2, <4>3, <5>1 DEF Sent
      <4> QED BY <3>2, <4>4
    <3> QED BY <3>3, <3>4
  <2> QED BY <1>1, <1>2, <2>4, <2>5
<1> QED BY <1>4, <1>5

(* The objects that a step of s may put or delete one of. *)
Own(s) == UserPath \cup IF st[s] \in {"new", "zombie"} THEN {SessionPath(s)} ELSE {}

(* How the tree changes at p: not at all, by a new object, or by its deletion. *)
Puts(p)    == tree'[p].op = clock' /\ tree'[p].val # NoVal /\ tree[p].val # tree'[p].val
Deletes(p) == Present(p) /\ tree'[p] = [tree[p] EXCEPT !.val = NoVal]

LEMMA PutEffect ==
  ASSUME IInv, NEW p \in Path, NEW v \in Val \cup {Online}, NEW n \in 0 .. MaxOps,
         n = clock', TreePut(p, v, n), UNCHANGED <<replica, notified, xInProgress>>
  PROVE  /\ tree'[p].val = v
         /\ tree'[p] = tree[p] \/ Puts(p)
         /\ \A q \in Path : q # p => tree'[q] = tree[q]
         /\ seen' = seen \cup {tree'} \/ UNCHANGED <<tree, seen>>
         /\ ToSet(dying) \subseteq ToSet(dying')
         /\ \A s \in Session : (Stays(s) \/ Falls(s)) /\ (Kept(s) \/ \E w : Sent(s, w))
<1>1. CASE tree[p].val = v
  <2>1. UNCHANGED <<tree, seen, sending, holding>>
    BY <1>1 DEF TreePut
  <2>2. ASSUME NEW s \in Session PROVE Stays(s) /\ Kept(s)
    BY <2>1 DEF sending, holding, Stays, Kept
  <2>3. dying' = dying
    BY <2>1 DEF sending
  <2> QED BY <1>1, <2>1, <2>2, <2>3
<1>2. CASE tree[p].val # v
  <2> DEFINE d == [op |-> n, val |-> v]
  <2>1. d \in Data /\ Change(p, d) /\ d.op = n /\ d.val = v /\ d # tree[p]
    BY <1>2 DEF Data, TreePut
  <2> HIDE DEF d
  <2>2. /\ tree'[p] = d /\ \A q \in Path : q # p => tree'[q] = tree[q]
        /\ seen' = seen \cup {tree'}
        /\ ToSet(dying) \subseteq ToSet(dying')
        /\ \A s \in Session : (Stays(s) \/ Falls(s)) /\ (Kept(s) \/ \E w : Sent(s, w))
    BY <2>1, ChangeEffect
  <2>3. v # NoVal
    BY ValAssumption
  <2>4. Puts(p)
    BY <1>2, <2>1, <2>2, <2>3 DEF Puts
  <2> QED BY <2>1, <2>2, <2>4
<1> QED BY <1>1, <1>2

LEMMA DelEffect ==
  ASSUME IInv, NEW p \in Path, TreeDel(p), Present(p), UNCHANGED <<replica, notified, xInProgress>>
  PROVE  /\ Deletes(p)
         /\ \A q \in Path : q # p => tree'[q] = tree[q]
         /\ seen' = seen \cup {tree'}
         /\ ToSet(dying) \subseteq ToSet(dying')
         /\ \A s \in Session : (Stays(s) \/ Falls(s)) /\ (Kept(s) \/ \E w : Sent(s, w))
<1> DEFINE d == [tree[p] EXCEPT !.val = NoVal]
<1>1. TreeOK
  BY InvUnfold
<1>2. d \in Data /\ Change(p, d)
  BY <1>1, DeletedType DEF TreeDel, TreeOK
<1>4. d # tree[p]
  <2>1. tree[p] \in Data
    BY <1>1 DEF TreeOK
  <2> QED BY <2>1 DEF Present, Data
<1> HIDE DEF d
<1>3. /\ tree'[p] = d /\ \A q \in Path : q # p => tree'[q] = tree[q]
      /\ seen' = seen \cup {tree'}
      /\ ToSet(dying) \subseteq ToSet(dying')
      /\ \A s \in Session : (Stays(s) \/ Falls(s)) /\ (Kept(s) \/ \E w : Sent(s, w))
  BY <1>2, <1>4, ChangeEffect
<1> QED BY <1>3 DEF d, Deletes

(* What a handler or a destructor does that puts or deletes one object. *)
ObjectAction(s) ==
  \/ Greet(s)
  \/ \E p \in UserPath : (\E v \in Val, dod \in DodOpt : HandlePut(s, p, v, dod)) \/ HandleDel(s, p)
  \/ DeleteSessionPath(s)
  \/ DeleteDod(s)

LEMMA ObjectActionEffect ==
  ASSUME IInv, DodUser, NEW s \in Session, ObjectAction(s)
  PROVE  /\ \E p \in Own(s) \cap Path :
              /\ tree'[p] = tree[p] \/ Puts(p) \/ Deletes(p)
              /\ \A q \in Path : q # p => tree'[q] = tree[q]
         /\ seen' = seen \cup {tree'} \/ UNCHANGED <<tree, seen>>
         /\ ToSet(dying) \subseteq ToSet(dying')
         /\ \A t \in Session : (Stays(t) \/ Falls(t)) /\ (Kept(t) \/ \E w : Sent(t, w))
<1>1. UNCHANGED <<replica, notified, xInProgress>>
  BY DEF ObjectAction, Greet, HandlePut, HandleDel, DeleteSessionPath, DeleteDod
<1>2. /\ UserPath \subseteq Own(s) \cap Path
      /\ st[s] \in {"new", "zombie"} => SessionPath(s) \in Own(s) \cap Path
  BY PathAssumption DEF Own
<1>3. ControlOK /\ TreeOK /\ SendingOK /\ Doomed
  BY InvUnfold
<1>4. CASE Greet(s)
  <2>1. TreePut(SessionPath(s), Online, clock) /\ clock \in 0 .. MaxOps /\ clock' = clock
    BY <1>3, <1>4 DEF Greet, ControlOK
  <2>2. st[s] = "new"
    BY <1>4 DEF Greet
  <2> QED BY <1>1, <1>2, <2>1, <2>2, PutEffect
<1>5. ASSUME NEW p \in UserPath, NEW v \in Val, NEW dod \in DodOpt, HandlePut(s, p, v, dod)
      PROVE  /\ tree'[p] = tree[p] \/ Puts(p) \/ Deletes(p)
             /\ \A q \in Path : q # p => tree'[q] = tree[q]
             /\ seen' = seen \cup {tree'} \/ UNCHANGED <<tree, seen>>
             /\ ToSet(dying) \subseteq ToSet(dying')
             /\ \A t \in Session : (Stays(t) \/ Falls(t)) /\ (Kept(t) \/ \E w : Sent(t, w))
  <2>1. TreePut(p, v, clock + 1) /\ clock + 1 \in 0 .. MaxOps /\ clock' = clock + 1
    BY <1>3, <1>5, BeginType DEF HandlePut, Begin
  <2>2. p \in Path
    BY <1>2
  <2> QED BY <1>1, <2>1, <2>2, PutEffect
<1>6. ASSUME NEW p \in Path, TreeDel(p), Present(p)
      PROVE  /\ tree'[p] = tree[p] \/ Puts(p) \/ Deletes(p)
             /\ \A q \in Path : q # p => tree'[q] = tree[q]
             /\ seen' = seen \cup {tree'} \/ UNCHANGED <<tree, seen>>
             /\ ToSet(dying) \subseteq ToSet(dying')
             /\ \A t \in Session : (Stays(t) \/ Falls(t)) /\ (Kept(t) \/ \E w : Sent(t, w))
  BY <1>1, <1>6, DelEffect
<1>7. ASSUME NEW p \in UserPath, HandleDel(s, p)
      PROVE  TreeDel(p) /\ Present(p) /\ p \in Own(s) \cap Path
  BY <1>2, <1>7 DEF HandleDel
<1>8. CASE DeleteSessionPath(s)
  <2>1. dying # <<>> /\ s = Head(dying) /\ dying \in Seq(Session)
    BY <1>3, <1>8 DEF DeleteSessionPath, Destroying, SendingOK
  <2>2. 1 \in DOMAIN dying /\ s = dying[1]
    BY <2>1
  <2>3. st[s] = "zombie"
    BY <1>3, <2>2 DEF Doomed
  <2> QED BY <1>2, <1>6, <1>8, <2>3 DEF DeleteSessionPath
<1>9. CASE DeleteDod(s)
  <2>1. PICK p \in DodPaths(s) : TreeDel(p) /\ Present(p)
    BY <1>9 DEF DeleteDod
  <2>2. p \in UserPath
    BY DEF DodUser, DodPaths
  <2> QED BY <1>2, <1>6, <2>1, <2>2
<1> QED BY <1>2, <1>4, <1>5, <1>6, <1>7, <1>8, <1>9 DEF ObjectAction

(* A subscriber is sent all the messages or, with some of them, disconnected. *)
LEMMA SendingAll ==
  ASSUME SendingOK, NEW s \in Session, NEW msgs \in Seq(Msg), EnqueueAll(s, msgs)
  PROVE  /\ \A t \in Session : t # s => pipe'[t] = pipe[t] /\ st'[t] = st[t]
         /\ \/ st'[s] = st[s] /\ pipe'[s] = pipe[s] \o msgs
            \/ Falls(s) /\ \E k \in Int : k < Len(msgs) /\ pipe'[s] = pipe[s] \o SubSeq(msgs, 1, k)
         /\ ToSet(dying) \subseteq ToSet(dying')
<1>1. PICK n \in 0 .. Len(msgs) :
        IF n = 0 /\ stale[s] /\ Backlog(s) + Len(msgs) - 1 > Threshold
        THEN /\ pipe' = [pipe EXCEPT ![s] = @ \o SubSeq(msgs, 1, Threshold + 1 - Backlog(s))]
             /\ Disconnected({s})
        ELSE /\ pipe' = [pipe EXCEPT ![s] = @ \o msgs]
             /\ UNCHANGED <<st, dying>>
  BY DEF EnqueueAll
<1>2. CASE n = 0 /\ stale[s] /\ Backlog(s) + Len(msgs) - 1 > Threshold
  <2> DEFINE k == Threshold + 1 - Backlog(s)
  <2>1. Backlog(s) \in Int /\ Threshold \in Nat /\ Len(msgs) \in Nat
    BY BoundAssumption DEF Backlog, SendingOK
  <2>2. k \in Int /\ k < Len(msgs)
    BY <1>2, <2>1
  <2>3. Disconnected({s}) /\ {s} \in SUBSET Session
    BY <1>1, <1>2
  <2>4. Falls(s) /\ ToSet(dying) \subseteq ToSet(dying') /\ \A t \in Session : t # s => st'[t] = st[t]
    BY <2>3, Falling
  <2>5. pipe' = [pipe EXCEPT ![s] = @ \o SubSeq(msgs, 1, k)]
    BY <1>1, <1>2
  <2> HIDE DEF k
  <2>6. pipe'[s] = pipe[s] \o SubSeq(msgs, 1, k) /\ \A t \in Session : t # s => pipe'[t] = pipe[t]
    BY <2>5 DEF SendingOK
  <2> QED BY <2>2, <2>4, <2>6
<1>3. CASE ~(n = 0 /\ stale[s] /\ Backlog(s) + Len(msgs) - 1 > Threshold)
  <2>1. pipe' = [pipe EXCEPT ![s] = @ \o msgs] /\ st' = st /\ dying' = dying
    BY <1>1, <1>3
  <2> QED BY <2>1 DEF SendingOK
<1> QED BY <1>2, <1>3

LEMMA SubscribeEffect ==
  ASSUME IInv, NEW s \in Session, NEW c \in CbPath, HandleSubscribe(s, c)
  PROVE  /\ \A t \in Session : (Stays(t) \/ Falls(t)) /\ (Kept(t) \/ \E w : Sent(t, w))
         /\ ToSet(dying) \subseteq ToSet(dying')
<1>0. SendingOK /\ HoldingOK /\ TreeOK /\ Listed /\ OnlyUp
  BY InvUnfold
<1>1. PICK order \in SetToSeqs({p \in Path : Covers(c, p) /\ Present(p)}) :
        EnqueueAll(s, SyncMsgs(c, order))
  BY DEF HandleSubscribe
<1>2. order \in Seq(Path)
  BY OrderType, PathAssumption, FS_Subset
<1> DEFINE msgs == SyncMsgs(c, order)
<1>3. /\ msgs \in Seq(Msg) /\ Len(msgs) = Len(order) + 1
      /\ \A i \in 1 .. Len(order) : msgs[i] = PutMsg(order[i], tree[order[i]])
      /\ msgs[Len(order) + 1] = SubscribedMsg(c)
  BY <1>0, <1>2, SyncMsgsType
<1>4. /\ cbPaths' = [cbPaths EXCEPT ![s] = IF st'[s] = "zombie" THEN {} ELSE cbPaths[s] \cup {c}]
      /\ UNCHANGED <<tree, replica, notified, xaction>> /\ ~xInProgress
  BY DEF HandleSubscribe, holding, Begin, CanHandle
<1>5. Len(order) \in Nat
  BY <1>2
<1>6. ASSUME NEW j \in DOMAIN msgs
      PROVE  /\ ~msgs[j].holds /\ msgs[j].subs \subseteq {c}
             /\ \A p \in DOMAIN msgs[j].upd : msgs[j].upd[p] = tree[p]
             /\ j # Len(msgs) => msgs[j].subs = {}
  <2> HIDE DEF msgs
  <2>1. j \in 1 .. Len(order) \/ j = Len(order) + 1
    BY <1>3, <1>5
  <2>2. CASE j \in 1 .. Len(order)
    <3>1. order[j] \in Path /\ tree[order[j]] \in Data
      BY <1>0, <1>2, <2>2 DEF TreeOK
    <3>2. msgs[j] = PutMsg(order[j], tree[order[j]])
      BY <1>3, <2>2
    <3>3. /\ DOMAIN One(order[j], tree[order[j]]) = {order[j]}
          /\ One(order[j], tree[order[j]])[order[j]] = tree[order[j]]
      BY <3>1, OneType
    <3> QED BY <3>2, <3>3 DEF PutMsg
  <2>3. CASE j = Len(order) + 1
    BY <1>3, <2>3, NoUpdateType DEF SubscribedMsg
  <2> QED BY <2>1, <2>2, <2>3
<1> HIDE DEF msgs
<1>7. /\ \A t \in Session : t # s => pipe'[t] = pipe[t] /\ st'[t] = st[t]
      /\ \/ st'[s] = st[s] /\ pipe'[s] = pipe[s] \o msgs
         \/ Falls(s) /\ \E k \in Int : k < Len(msgs) /\ pipe'[s] = pipe[s] \o SubSeq(msgs, 1, k)
      /\ ToSet(dying) \subseteq ToSet(dying')
  BY <1>0, <1>1, <1>3, SendingAll DEF msgs
<1>8. ASSUME NEW t \in Session, t # s PROVE Stays(t) /\ Kept(t)
  <2>1. cbPaths'[t] = cbPaths[t]
    BY <1>0, <1>4, <1>8 DEF SendingOK
  <2> QED BY <1>4, <1>7, <1>8, <2>1 DEF Stays, Kept
<1>9. Stays(s) \/ Falls(s)
  <2>1. cbPaths'[s] = IF st'[s] = "zombie" THEN {} ELSE cbPaths[s] \cup {c}
    BY <1>0, <1>4 DEF SendingOK
  <2>2. st'[s] = st[s] => Stays(s)
    BY <1>0, <2>1 DEF Stays, OnlyUp
  <2> QED BY <1>7, <2>2
<1>10. DOMAIN xaction[s] = {} /\ DOMAIN xaction'[s] = {}
  BY <1>0, <1>4 DEF Listed
<1>11. CASE st'[s] = st[s] /\ pipe'[s] = pipe[s] \o msgs
  <2>1. st'[s] # "zombie" => c \in cbPaths'[s]
    BY <1>0, <1>4 DEF SendingOK
  <2>2. Sent(s, msgs)
    <3>1. ASSUME NEW j \in DOMAIN msgs
          PROVE  /\ ~msgs[j].holds
                 /\ \A p \in DOMAIN msgs[j].upd : msgs[j].upd[p] = tree'[p]
                 /\ st'[s] # "zombie" =>
                      msgs[j].subs \subseteq cbPaths'[s] /\ (j # Len(msgs) => msgs[j].subs = {})
      BY <1>4, <1>6, <2>1
    <3> QED BY <1>3, <1>4, <1>10, <1>11, <3>1 DEF Sent
  <2> QED BY <1>7, <1>8, <1>9, <2>2
<1>12. ASSUME NEW k \in Int, Falls(s), k < Len(msgs), pipe'[s] = pipe[s] \o SubSeq(msgs, 1, k)
       PROVE  \E w : Sent(s, w)
  <2> DEFINE w == SubSeq(msgs, 1, k)
  <2>1. /\ w \in Seq(Msg)
        /\ \A j \in DOMAIN w : j \in DOMAIN msgs /\ w[j] = msgs[j]
    BY <1>3, <1>5, <1>12
  <2> HIDE DEF w
  <2>2. st'[s] = "zombie"
    BY <1>12 DEF Falls
  <2>3. pipe'[s] = pipe[s] \o w
    BY <1>12 DEF w
  <2>4. Sent(s, w)
    BY <1>4, <1>6, <1>10, <2>1, <2>2, <2>3 DEF Sent
  <2> QED BY <2>4
<1> QED BY <1>7, <1>8, <1>9, <1>11, <1>12

(* The changes of a transaction are held back. *)
LEMMA TransactionEffect ==
  ASSUME IInv, NEW s \in Session, NEW x \in Xact, HandleTransaction(s, x)
  PROVE  /\ \A p \in Path :
              \/ p \notin DOMAIN x /\ tree'[p] = tree[p]
              \/ p \in DOMAIN x /\ x[p].val = tree[p].val /\ tree'[p] = tree[p]
              \/ /\ p \in DOMAIN x /\ p \in UserPath /\ x[p].val # tree[p].val
                 /\ IF x[p].val = NoVal THEN Deletes(p) ELSE Puts(p)
         /\ seen' = seen \cup {tree'}
         /\ dying' = dying
         /\ \A t \in Session : Stays(t) /\ Kept(t)
<1> DEFINE changed == {p \in DOMAIN x : x[p].val # tree[p].val}
           new == [p \in changed |->
                     IF x[p].val = NoVal THEN [tree[p] EXCEPT !.val = NoVal]
                     ELSE [op |-> clock + 1, val |-> x[p].val]]
           u == [t \in Session |-> [p \in {q \in changed : t \in Registered(q)} |-> new[p]]]
<1>0. SendingOK /\ HoldingOK /\ TreeOK /\ ControlOK /\ Listed
  BY InvUnfold
<1>1. /\ Begin(s)
      /\ xInProgress' = TRUE
      /\ tree' = Apply(new, tree)
      /\ seen' = seen \cup {tree'}
      /\ HoldBack(u)
      /\ UNCHANGED <<sending, replica, notified>>
  BY DEF HandleTransaction
<1>2. PICK E \in SUBSET UserPath : x \in [E -> Element]
  BY XactAssumption
<1>3. changed \subseteq UserPath /\ UserPath \subseteq Path
  BY <1>2, PathAssumption
<1>4. clock' = clock + 1 /\ clock < MaxOps
  BY <1>0, <1>1, BeginType DEF Begin
<1>5. \A p \in changed :
        /\ new[p] = IF x[p].val = NoVal THEN [tree[p] EXCEPT !.val = NoVal]
                    ELSE [op |-> clock + 1, val |-> x[p].val]
        /\ new[p] \in Data
  <2>1. ASSUME NEW p \in changed
        PROVE  new[p] \in Data
    <3>1. p \in Path /\ x[p] \in Element /\ tree[p] \in Data
      BY <1>0, <1>2, PathAssumption DEF TreeOK
    <3>2. CASE x[p].val = NoVal
      BY <3>1, <3>2, DeletedType
    <3>3. CASE x[p].val # NoVal
      <4>1. x[p].val \in Val /\ clock + 1 \in 0 .. MaxOps
        BY <1>0, <1>4, <3>1, <3>3, BoundAssumption DEF Element, ControlOK
      <4> QED BY <3>3, <4>1 DEF Data
    <3> QED BY <3>2, <3>3
  <2> QED BY <2>1
<1>6. \A p \in Path : tree'[p] = IF p \in changed THEN new[p] ELSE tree[p]
  <2>1. DOMAIN new = changed
    OBVIOUS
  <2> HIDE DEF new, changed
  <2> QED BY <1>1, <2>1 DEF Apply
<1>7. ASSUME NEW p \in Path
      PROVE  \/ p \notin DOMAIN x /\ tree'[p] = tree[p]
             \/ p \in DOMAIN x /\ x[p].val = tree[p].val /\ tree'[p] = tree[p]
             \/ /\ p \in DOMAIN x /\ p \in UserPath /\ x[p].val # tree[p].val
                /\ IF x[p].val = NoVal THEN Deletes(p) ELSE Puts(p)
  <2>1. CASE p \in changed
    <3>1. tree'[p] = new[p] /\ p \in UserPath /\ p \in DOMAIN x /\ x[p].val # tree[p].val
      BY <1>3, <1>6, <2>1
    <3>2. x[p].val = NoVal => Deletes(p)
      BY <1>5, <2>1, <3>1 DEF Deletes, Present
    <3>3. ASSUME x[p].val # NoVal PROVE Puts(p)
      <4>1. tree'[p] = [op |-> clock + 1, val |-> x[p].val]
        BY <1>5, <2>1, <3>1, <3>3
      <4> QED BY <1>4, <3>1, <3>3, <4>1 DEF Puts
    <3> QED BY <3>1, <3>2, <3>3
  <2>2. CASE p \notin changed
    BY <1>6, <2>2
  <2> QED BY <2>1, <2>2
<1>8. ASSUME NEW t \in Session
      PROVE  /\ DOMAIN u[t] \subseteq changed
             /\ \A q \in DOMAIN u[t] : u[t][q] = new[q]
             /\ u[t] \in Update
  <2> DEFINE mine == {q \in changed : t \in Registered(q)}
  <2>1. u[t] = [p \in mine |-> new[p]] /\ mine \subseteq changed
    OBVIOUS
  <2> HIDE DEF new, u, changed, mine
  <2>2. DOMAIN u[t] = mine /\ \A q \in mine : u[t][q] = new[q]
    BY <2>1
  <2>3. u[t] \in [mine -> Data] /\ mine \subseteq Path
    BY <1>3, <1>5, <2>1
  <2> QED BY <2>1, <2>2, <2>3, UpdateType
<1> HIDE DEF new, u, changed
<1>9. \A t \in Session :
        /\ DOMAIN xaction'[t] = DOMAIN xaction[t] \cup DOMAIN u[t]
        /\ \A q \in DOMAIN u[t] : xaction'[t][q] = u[t][q]
        /\ \A q \in DOMAIN xaction[t] \ DOMAIN u[t] : xaction'[t][q] = xaction[t][q]
  BY <1>0, <1>1, <1>8, HoldBackEffect
<1>10. ASSUME NEW t \in Session PROVE Stays(t) /\ Kept(t)
  <2>1. Stays(t)
    BY <1>1 DEF sending, Stays
  <2>2. ASSUME NEW q \in DOMAIN xaction'[t]
        PROVE  \/ q \in DOMAIN xaction[t] /\ xaction'[t][q] = xaction[t][q]
               \/ xaction'[t][q] = tree'[q] /\ tree'[q] # tree[q]
    <3>1. CASE q \in DOMAIN u[t]
      <4>1. q \in changed /\ q \in Path /\ xaction'[t][q] = tree'[q]
        BY <1>3, <1>6, <1>8, <1>9, <3>1
      <4>2. x[q].val # tree[q].val /\ q \in DOMAIN x
        BY <4>1 DEF changed
      <4>3. IF x[q].val = NoVal THEN Deletes(q) ELSE Puts(q)
        BY <1>7, <4>1, <4>2
      <4>4. tree[q] \in Data
        BY <1>0, <4>1 DEF TreeOK
      <4> QED BY <4>1, <4>3, <4>4 DEF Puts, Deletes, Present, Data
    <3>2. CASE q \notin DOMAIN u[t]
      BY <1>9, <3>2
    <3> QED BY <3>1, <3>2
  <2> QED BY <1>1, <2>1, <2>2 DEF sending, Kept
<1>11. dying' = dying
  BY <1>1 DEF sending
<1> QED BY <1>1, <1>7, <1>10, <1>11

(* A session's transaction is sent, or it is disconnected. *)
LEMMA FlushEffect ==
  ASSUME IInv, FinishTransaction
  PROVE  /\ \A t \in Session : (Stays(t) \/ Falls(t)) /\ (Kept(t) \/ Flushed(t))
         /\ ToSet(dying) \subseteq ToSet(dying')
<1> DEFINE m == [s \in Session |-> TransactionMsg(xaction[s])]
<1>0. SendingOK /\ HoldingOK
  BY InvUnfold
<1>1. xSessionList # <<>> /\ Head(xSessionList) \in Session
  BY <1>0 DEF FinishTransaction, HoldingOK
<1>2. PICK s \in Session :
        /\ xaction' = [xaction EXCEPT ![s] = NoUpdate]
        /\ IF DOMAIN xaction[s] = {} THEN UNCHANGED sending ELSE Enqueue({s}, m)
        /\ UNCHANGED <<tree, replica, notified>>
  BY <1>1 DEF FinishTransaction
<1>3. /\ DOMAIN xaction'[s] = {}
      /\ \A t \in Session : t # s => xaction'[t] = xaction[t]
  BY <1>0, <1>2, NoUpdateType DEF HoldingOK
<1>4. m[s] = TransactionMsg(xaction[s])
  OBVIOUS
<1> HIDE DEF m
<1>5. CASE UNCHANGED sending
  <2>1. \A t \in Session : Stays(t) /\ Kept(t)
    BY <1>2, <1>3, <1>5 DEF sending, Stays, Kept
  <2> QED BY <1>5, <2>1 DEF sending
<1>6. CASE Enqueue({s}, m)
  <2>1. /\ \A t \in Session :
             \/ /\ st'[t] = st[t] /\ cbPaths'[t] = cbPaths[t]
                /\ pipe'[t] = IF t \in {s} THEN Append(pipe[t], m[t]) ELSE pipe[t]
             \/ t \in {s} /\ Falls(t) /\ pipe'[t] = pipe[t]
        /\ ToSet(dying) \subseteq ToSet(dying')
    BY <1>0, <1>6, Sending
  <2>2. ASSUME NEW t \in Session PROVE (Stays(t) \/ Falls(t)) /\ (Kept(t) \/ Flushed(t))
    <3>1. Stays(t) \/ Falls(t)
      BY <2>1 DEF Stays
    <3>2. CASE t # s
      <4>1. pipe'[t] = pipe[t]
        BY <2>1, <3>2
      <4> QED BY <1>2, <1>3, <3>1, <3>2, <4>1 DEF Kept
    <3>3. CASE t = s
      <4>1. pipe'[t] = pipe[t] \/ pipe'[t] = Append(pipe[t], TransactionMsg(xaction[t]))
        BY <1>4, <2>1, <3>3
      <4> QED BY <1>2, <1>3, <3>1, <3>3, <4>1 DEF Kept, Flushed
    <3> QED BY <3>2, <3>3
  <2> QED BY <2>1, <2>2
<1> QED BY <1>2, <1>5, <1>6

LEMMA ReceiveEffect ==
  ASSUME IInv, NEW s \in Session, Receive(s)
  PROVE  \A t \in Session : Stays(t) /\ (Kept(t) \/ Received(t))
<1>0. SendingOK /\ ClientOK
  BY InvUnfold
<1>1. /\ pipe' = [pipe EXCEPT ![s] = Tail(pipe[s])]
      /\ replica' = [replica EXCEPT ![s] = Apply(Head(pipe[s]).upd, replica[s])]
      /\ notified' = [notified EXCEPT ![s] = @ \cup Head(pipe[s]).subs]
      /\ UNCHANGED <<st, cbPaths, tree, xaction>>
  BY DEF Receive, holding
<1>2. pipe[s] # <<>>
  <2>1. pipe[s] \in Seq(Msg) /\ nser[s] \in Nat /\ nser[s] <= Len(pipe[s]) /\ nser[s] > 0
    BY <1>0 DEF Receive, SendingOK
  <2> QED BY <2>1
<1>3. Received(s)
  BY <1>0, <1>1, <1>2 DEF SendingOK, ClientOK, Received
<1>4. \A t \in Session : t # s => Kept(t)
  BY <1>0, <1>1 DEF SendingOK, ClientOK, Kept
<1> QED BY <1>1, <1>3, <1>4 DEF Stays

LEMMA DestroyedEffect ==
  ASSUME IInv, NEW s \in Session, Destroyed(s)
  PROVE  Cleared(s) /\ \A t \in Session : t # s => Stays(t) /\ Kept(t)
<1>0. SendingOK /\ HoldingOK /\ ClientOK
  BY InvUnfold
<1>1. /\ st' = [st EXCEPT ![s] = "free"]
      /\ pipe' = [pipe EXCEPT ![s] = <<>>]
      /\ xaction' = [xaction EXCEPT ![s] = NoUpdate]
      /\ replica' = [replica EXCEPT ![s] = [p \in Path |-> Empty]]
      /\ notified' = [notified EXCEPT ![s] = {}]
      /\ UNCHANGED <<cbPaths, tree>>
  BY DEF Destroyed
<1>2. Cleared(s)
  BY <1>0, <1>1, NoUpdateType DEF SendingOK, HoldingOK, ClientOK, Cleared
<1>3. ASSUME NEW t \in Session, t # s PROVE Stays(t) /\ Kept(t)
  BY <1>0, <1>1, <1>3 DEF SendingOK, HoldingOK, ClientOK, Stays, Kept
<1> QED BY <1>2, <1>3

(* Every step of the server, as one of these. *)
LEMMA StepMoves ==
  ASSUME IInv, DodUser, [Next]_vars
  PROVE  /\ \A t \in Session :
              /\ Moves(t)
              /\ st'[t] # "zombie" =>
                   Cleared(t) \/ (st[t] # "zombie" /\ cbPaths[t] \subseteq cbPaths'[t])
         /\ \A p \in Path : tree'[p] = tree[p] \/ Puts(p) \/ Deletes(p)
         /\ seen' = seen \cup {tree'} \/ UNCHANGED <<tree, seen>>
<1> DEFINE Goal ==
             /\ \A t \in Session :
                  /\ Moves(t)
                  /\ st'[t] # "zombie" =>
                       Cleared(t) \/ (st[t] # "zombie" /\ cbPaths[t] \subseteq cbPaths'[t])
             /\ \A p \in Path : tree'[p] = tree[p] \/ Puts(p) \/ Deletes(p)
             /\ seen' = seen \cup {tree'} \/ UNCHANGED <<tree, seen>>
<1>0. SendingOK /\ OnlyUp /\ Doomed
  BY InvUnfold
<1>a. ASSUME \A t \in Session : (Stays(t) \/ Falls(t)) /\ Moves(t),
             \A p \in Path : tree'[p] = tree[p] \/ Puts(p) \/ Deletes(p),
             seen' = seen \cup {tree'} \/ UNCHANGED <<tree, seen>>
      PROVE  Goal
  BY <1>a DEF Stays, Falls
<1>1. ASSUME FinishTransaction PROVE Goal
  <2>1. UNCHANGED <<tree, seen>>
    BY <1>1 DEF FinishTransaction
  <2>2. \A t \in Session : (Stays(t) \/ Falls(t)) /\ (Kept(t) \/ Flushed(t))
    BY <1>1, FlushEffect
  <2> QED BY <1>a, <2>1, <2>2 DEF Moves
<1>2. ASSUME UNCHANGED <<cbPaths, tree, seen, pipe, replica, notified, xaction>>,
             \A t \in Session : st'[t] # "zombie" => st[t] # "zombie"
      PROVE  Goal
  <2>1. \A t \in Session : Kept(t)
    BY <1>2 DEF Kept
  <2> QED BY <1>2, <2>1 DEF Moves
<1>3. ASSUME EndTransaction \/ UNCHANGED vars PROVE Goal
  BY <1>2, <1>3 DEF EndTransaction, vars, sending, holding
<1>4. ASSUME NEW s \in Session, EndHandler(s) PROVE Goal
  <2>1. \A t \in Session : st'[t] # "zombie" => st[t] # "zombie"
    BY <1>0, <1>4 DEF EndHandler, SendingOK
  <2> QED BY <1>2, <1>4, <2>1 DEF EndHandler, holding
<1>5. ASSUME NEW s \in Session, Destroyed(s) PROVE Goal
  <2>1. Cleared(s) /\ \A t \in Session : t # s => Stays(t) /\ Kept(t)
    BY <1>5, DestroyedEffect
  <2>2. UNCHANGED <<tree, seen>>
    BY <1>5 DEF Destroyed
  <2>3. ASSUME NEW t \in Session
        PROVE  /\ Moves(t)
               /\ st'[t] # "zombie" =>
                    Cleared(t) \/ (st[t] # "zombie" /\ cbPaths[t] \subseteq cbPaths'[t])
    BY <2>1 DEF Moves, Stays
  <2> QED BY <2>2, <2>3
<1>6. ASSUME NEW s \in Session, ObjectAction(s) PROVE Goal
  <2>1. PICK p \in Own(s) \cap Path :
          /\ tree'[p] = tree[p] \/ Puts(p) \/ Deletes(p)
          /\ \A q \in Path : q # p => tree'[q] = tree[q]
    BY <1>6, ObjectActionEffect
  <2>2. seen' = seen \cup {tree'} \/ UNCHANGED <<tree, seen>>
    BY <1>6, ObjectActionEffect
  <2>3. \A t \in Session : (Stays(t) \/ Falls(t)) /\ (Kept(t) \/ \E w : Sent(t, w))
    BY <1>6, ObjectActionEffect
  <2> QED BY <1>a, <2>1, <2>2, <2>3 DEF Moves
<1>7. ASSUME NEW s \in Session, Accept(s) PROVE Goal
  <2>1. \A t \in Session : st'[t] # "zombie" => st[t] # "zombie"
    BY <1>0, <1>7 DEF Accept, SendingOK
  <2> QED BY <1>2, <1>7, <2>1 DEF Accept
<1>8. ASSUME NEW s \in Session, NEW c \in CbPath, HandleSubscribe(s, c) PROVE Goal
  <2>1. UNCHANGED <<tree, seen>>
    BY <1>8 DEF HandleSubscribe
  <2>2. \A t \in Session : (Stays(t) \/ Falls(t)) /\ (Kept(t) \/ \E w : Sent(t, w))
    BY <1>8, SubscribeEffect
  <2> QED BY <1>a, <2>1, <2>2 DEF Moves
<1>9. ASSUME NEW s \in Session, NEW x \in Xact, HandleTransaction(s, x) PROVE Goal
  <2>1. \A t \in Session : Stays(t) /\ Kept(t)
    BY <1>9, TransactionEffect
  <2>2. \A p \in Path : tree'[p] = tree[p] \/ Puts(p) \/ Deletes(p)
    BY <1>9, TransactionEffect
  <2>3. seen' = seen \cup {tree'}
    BY <1>9, TransactionEffect
  <2> QED BY <1>a, <2>1, <2>2, <2>3 DEF Moves
<1>10. ASSUME NEW s \in Session, Disconnect(s) PROVE Goal
  <2>1. Disconnected({s}) /\ UNCHANGED <<tree, seen, pipe, replica, notified, xaction>>
    BY <1>10 DEF Disconnect, holding
  <2>2. {s} \in SUBSET Session
    OBVIOUS
  <2>3. /\ Falls(s)
        /\ \A t \in Session : t # s => st'[t] = st[t] /\ cbPaths'[t] = cbPaths[t]
    BY <1>0, <2>1, <2>2, Falling
  <2>4. \A t \in Session : (Stays(t) \/ Falls(t)) /\ Kept(t)
    BY <2>1, <2>3 DEF Stays, Kept
  <2> QED BY <1>a, <2>1, <2>4 DEF Moves
<1>11. ASSUME NEW s \in Session, HandleTx(s) \/ Tick(s) PROVE Goal
  BY <1>2, <1>11 DEF HandleTx, Tick, holding
<1>12. ASSUME NEW s \in Session, Receive(s) PROVE Goal
  <2>1. UNCHANGED <<tree, seen>>
    BY <1>12 DEF Receive
  <2>2. \A t \in Session : Stays(t) /\ (Kept(t) \/ Received(t))
    BY <1>12, ReceiveEffect
  <2> QED BY <1>a, <2>1, <2>2 DEF Moves
<1> SUFFICES Goal
  OBVIOUS
<1> HIDE DEF Goal
<1>13. CASE UNCHANGED vars
  BY <1>3, <1>13
<1>14. CASE Next
  BY <1>1, <1>3, <1>4, <1>5, <1>6, <1>7, <1>8, <1>9, <1>10, <1>11, <1>12, <1>14
  DEF Next, Finish, Input, ObjectAction
<1> QED BY <1>13, <1>14

-----------------------------------------------------------------------------
(* Sessions and their objects.                                               *)

LEMMA PresenceInit == Init => PInv
<1> SUFFICES ASSUME Init PROVE PInv
  OBVIOUS
<1>1. /\ st = [s \in Session |-> "free"] /\ tree = [p \in Path |-> Empty]
      /\ dodMap = [s \in Session |-> [p \in {} |-> 0]]
      /\ dodBy = [p \in Path |-> NoSession]
  BY DEF Init
<1>2. Attended
  BY <1>1 DEF Attended
<1>3. Shown
  BY <1>1, PathAssumption DEF Shown, Present, Empty
<1>4. DodUser
  BY <1>1 DEF DodUser
<1> QED BY <1>2, <1>3, <1>4 DEF PInv

(* Recorded paths are of clients' objects. *)
LEMMA RecordDodUser ==
  ASSUME RecordsOK, DodUser, NEW s \in Session, NEW P \in SUBSET UserPath, RecordDod(s, P)
  PROVE  \A t \in Session : DOMAIN dodMap'[t] \subseteq UserPath
<1> DEFINE f == Join(dodMap[s], [p \in P |-> clock + 1])
<1>1. PICK alive \in SUBSET DOMAIN f :
        dodMap' = IF P = {} THEN dodMap ELSE [dodMap EXCEPT ![s] = [p \in alive |-> f[p]]]
  <2>1. P \subseteq DOMAIN f
    BY DEF Join
  <2> QED BY <2>1 DEF RecordDod
<1>2. DOMAIN f \subseteq UserPath
  BY DEF DodUser, Join
<1> HIDE DEF f
<1>3. ASSUME NEW t \in Session PROVE DOMAIN dodMap'[t] \subseteq UserPath
  <2>1. CASE P = {}
    BY <1>1, <2>1 DEF DodUser
  <2>2. CASE P # {}
    <3>1. dodMap' = [dodMap EXCEPT ![s] = [p \in alive |-> f[p]]]
      BY <1>1, <2>2
    <3>2. dodMap'[t] = IF t = s THEN [p \in alive |-> f[p]] ELSE dodMap[t]
      BY <3>1 DEF RecordsOK
    <3> QED BY <1>2, <3>2 DEF DodUser
  <2> QED BY <2>1, <2>2
<1> QED BY <1>3

(* Where sessions only stay or fall, and the tree keeps their objects. *)
LEMMA PresenceKept ==
  ASSUME Attended, Shown, ToSet(dying) \subseteq ToSet(dying'),
         \A t \in Session : Stays(t) \/ Falls(t),
         \A t \in Session : current = t => current' = t,
         \A t \in Session : st[t] \in {"free", "up"} => tree'[SessionPath(t)] = tree[SessionPath(t)]
  PROVE  Attended' /\ Shown'
<1>1. ASSUME NEW t \in Session
      PROVE  /\ st'[t] = "new" => current' = t
             /\ st'[t] = "zombie" => current' = t \/ t \in ToSet(dying')
             /\ st'[t] = "free" => ~Present(SessionPath(t))'
             /\ st'[t] = "up" => Present(SessionPath(t))'
  <2>1. CASE Stays(t)
    <3>1. st'[t] = st[t]
      BY <2>1 DEF Stays
    <3> QED BY <3>1 DEF Attended, Shown, Present
  <2>2. CASE Falls(t)
    BY <2>2 DEF Falls
  <2> QED BY <2>1, <2>2
<1> QED BY <1>1 DEF Attended, Shown

LEMMA PresenceObject ==
  ASSUME IInv, PInv, NEW s \in Session, ObjectAction(s)
  PROVE  PInv'
<1>0. SendingOK /\ RecordsOK /\ Attended /\ Shown /\ DodUser
  BY InvUnfold DEF PInv
<1>1. PICK p \in Own(s) \cap Path : \A q \in Path : q # p => tree'[q] = tree[q]
  BY <1>0, ObjectActionEffect
<1>2. /\ ToSet(dying) \subseteq ToSet(dying')
      /\ \A t \in Session : Stays(t) \/ Falls(t)
  BY <1>0, ObjectActionEffect
<1>3. \A t \in Session : current = t => current' = t
  BY SessionAssumption
  DEF ObjectAction, Greet, HandlePut, HandleDel, Begin, CanHandle, DeleteSessionPath, DeleteDod
<1>4. ASSUME NEW t \in Session, st[t] \in {"free", "up"}
      PROVE  tree'[SessionPath(t)] = tree[SessionPath(t)]
  <2>1. SessionPath(t) \in Path \ UserPath
    BY PathAssumption
  <2>2. SessionPath(t) # p
    <3>1. ASSUME SessionPath(t) = p PROVE FALSE
      <4>1. p = SessionPath(s) /\ st[s] \in {"new", "zombie"}
        BY <2>1, <3>1 DEF Own
      <4>2. s = t
        BY <3>1, <4>1, NameAssumption
      <4> QED BY <1>4, <4>1, <4>2
    <3> QED BY <3>1
  <2> QED BY <1>1, <2>1, <2>2
<1>5. Attended' /\ Shown'
  BY <1>0, <1>2, <1>3, <1>4, PresenceKept
<1>6. DodUser'
  <2>1. CASE UNCHANGED <<dodMap, dodBy>>
    BY <1>0, <2>1 DEF DodUser
  <2>2. ASSUME NEW q \in UserPath, NEW v \in Val, NEW dod \in DodOpt, HandlePut(s, q, v, dod)
        PROVE  DodUser'
    <3>1. /\ RecordDod(s, IF dod THEN {q} ELSE {})
          /\ dodBy' = [dodBy EXCEPT ![q] = IF dod THEN s ELSE NoSession]
      BY <2>2 DEF HandlePut
    <3>2. (IF dod THEN {q} ELSE {}) \in SUBSET UserPath
      OBVIOUS
    <3>3. \A t \in Session : DOMAIN dodMap'[t] \subseteq UserPath
      BY <1>0, <3>1, <3>2, RecordDodUser
    <3> QED BY <1>0, <3>1, <3>3 DEF DodUser, RecordsOK
  <2> QED BY <2>1, <2>2 DEF ObjectAction, Greet, HandleDel, DeleteSessionPath, DeleteDod
<1> QED BY <1>5, <1>6 DEF PInv

LEMMA PresenceTransaction ==
  ASSUME IInv, PInv, NEW s \in Session, NEW x \in Xact, HandleTransaction(s, x)
  PROVE  PInv'
<1>0. RecordsOK /\ Attended /\ Shown /\ DodUser
  BY InvUnfold DEF PInv
<1>1. \A t \in Session : Stays(t)
  BY TransactionEffect
<1>2. dying' = dying
  BY TransactionEffect
<1>3. \A p \in Path \ UserPath : tree'[p] = tree[p]
  BY TransactionEffect
<1>4. \A t \in Session : current = t => current' = t
  BY SessionAssumption DEF HandleTransaction, Begin, CanHandle
<1>5. \A t \in Session : SessionPath(t) \in Path \ UserPath
  BY PathAssumption
<1>6. Attended' /\ Shown'
  BY <1>0, <1>1, <1>2, <1>3, <1>4, <1>5, PresenceKept
<1>7. PICK E \in SUBSET UserPath : x \in [E -> Element]
  BY XactAssumption
<1> DEFINE puts == {p \in DOMAIN x : x[p].val # NoVal}
<1>8. puts \subseteq UserPath
  BY <1>7
<1>9. /\ RecordDod(s, {p \in puts : x[p].dod})
      /\ dodBy' = [p \in Path |-> IF p \notin puts THEN dodBy[p]
                                  ELSE IF x[p].dod THEN s ELSE NoSession]
  BY DEF HandleTransaction
<1> HIDE DEF puts
<1>10. {p \in puts : x[p].dod} \in SUBSET UserPath
  BY <1>8
<1>11. \A t \in Session : DOMAIN dodMap'[t] \subseteq UserPath
  BY <1>0, <1>9, <1>10, RecordDodUser
<1>12. DodUser'
  BY <1>0, <1>8, <1>9, <1>11 DEF DodUser
<1> QED BY <1>6, <1>12 DEF PInv

LEMMA PresenceStep == IInv /\ PInv /\ [Next]_vars => PInv'
<1> SUFFICES ASSUME IInv, PInv, [Next]_vars PROVE PInv'
  OBVIOUS
<1>0. SendingOK /\ RecordsOK /\ HoldingOK /\ Attended /\ Shown /\ DodUser /\ Doomed
  BY InvUnfold DEF PInv
<1>a. ASSUME UNCHANGED <<tree, dodMap, dodBy>>, ToSet(dying) \subseteq ToSet(dying'),
             \A t \in Session : Stays(t) \/ Falls(t),
             \A t \in Session : current = t => current' = t
      PROVE  PInv'
  <2>1. DodUser'
    BY <1>0, <1>a DEF DodUser
  <2>2. Attended' /\ Shown'
    BY <1>0, <1>a, PresenceKept
  <2> QED BY <2>1, <2>2 DEF PInv
<1>1. ASSUME UNCHANGED <<st, cbPaths, tree, dodMap, dodBy, dying, current>> PROVE PInv'
  BY <1>a, <1>1 DEF Stays
<1>2. ASSUME FinishTransaction PROVE PInv'
  <2>1. UNCHANGED <<tree, dodMap, dodBy, current>>
    BY <1>2 DEF FinishTransaction
  <2>2. \A t \in Session : Stays(t) \/ Falls(t)
    BY <1>2, FlushEffect
  <2>3. ToSet(dying) \subseteq ToSet(dying')
    BY <1>2, FlushEffect
  <2> QED BY <1>a, <2>1, <2>2, <2>3
<1>3. ASSUME EndTransaction PROVE PInv'
  BY <1>1, <1>3 DEF EndTransaction, sending
<1>4. ASSUME NEW s \in Session, EndHandler(s) PROVE PInv'
  <2>1. /\ current = s /\ current' = NoSession /\ dying = <<>>
        /\ dying' = IF st[s] = "zombie" THEN <<s>> ELSE <<>>
        /\ st' = [st EXCEPT ![s] = IF @ = "new" THEN "up" ELSE @]
        /\ st[s] = "new" => Present(SessionPath(s))
        /\ UNCHANGED <<tree, dodMap, dodBy>>
    BY <1>4 DEF EndHandler, NoneDying
  <2>2. ASSUME NEW t \in Session, st'[t] = "zombie" PROVE t \in ToSet(dying')
    <3>1. st[t] = "zombie" /\ t \notin ToSet(dying)
      BY <1>0, <2>1, <2>2 DEF SendingOK, ToSet
    <3>2. t = s /\ dying' = <<s>>
      BY <1>0, <2>1, <3>1 DEF Attended
    <3> QED BY <3>2 DEF ToSet
  <2>3. ASSUME NEW t \in Session, st'[t] = "new" PROVE FALSE
    <3>1. st[t] = "new" /\ t # s
      BY <1>0, <2>1, <2>3 DEF SendingOK
    <3> QED BY <1>0, <2>1, <3>1 DEF Attended
  <2>4. Shown'
    <3>1. ASSUME NEW t \in Session
          PROVE  /\ st'[t] = "free" => st[t] = "free"
                 /\ st'[t] = "up" => st[t] = "up" \/ Present(SessionPath(t))
      BY <1>0, <2>1 DEF SendingOK
    <3> QED BY <1>0, <2>1, <3>1 DEF Shown, Present
  <2>5. Attended'
    BY <2>2, <2>3 DEF Attended
  <2>6. DodUser'
    BY <1>0, <2>1 DEF DodUser
  <2> QED BY <2>4, <2>5, <2>6 DEF PInv
<1>5. ASSUME NEW s \in Session, Destroyed(s) PROVE PInv'
  <2>1. /\ dying # <<>> /\ s = Head(dying) /\ dying' = Tail(dying)
        /\ st' = [st EXCEPT ![s] = "free"]
        /\ dodMap' = [dodMap EXCEPT ![s] = [p \in {} |-> 0]]
        /\ ~Present(SessionPath(s))
        /\ UNCHANGED <<tree, dodBy, current>>
    BY <1>5 DEF Destroyed, Destroying
  <2>2. ASSUME NEW t \in ToSet(dying), t # s PROVE t \in ToSet(dying')
    <3>1. PICK i \in DOMAIN dying : dying[i] = t
      BY <2>2 DEF ToSet
    <3>2. i # 1 /\ i \in 1 .. Len(dying) /\ Len(dying) \in Nat
      BY <1>0, <2>1, <2>2, <3>1 DEF SendingOK
    <3>3. i - 1 \in DOMAIN Tail(dying) /\ Tail(dying)[i - 1] = dying[i]
      BY <1>0, <2>1, <3>2 DEF SendingOK
    <3> QED BY <2>1, <3>1, <3>3 DEF ToSet
  <2>3. Attended'
    <3>1. \A t \in Session : st'[t] = IF t = s THEN "free" ELSE st[t]
      BY <1>0, <2>1 DEF SendingOK
    <3> QED BY <1>0, <2>1, <2>2, <3>1 DEF Attended
  <2>4. Shown'
    BY <1>0, <2>1 DEF Shown, Present, SendingOK
  <2>5. DodUser'
    BY <1>0, <2>1 DEF DodUser, RecordsOK
  <2> QED BY <2>3, <2>4, <2>5 DEF PInv
<1>6. ASSUME NEW s \in Session, ObjectAction(s) PROVE PInv'
  BY <1>6, PresenceObject
<1>7. ASSUME NEW s \in Session, Accept(s) PROVE PInv'
  <2>1. /\ current = NoSession /\ current' = s /\ dying = <<>>
        /\ st[s] = "free" /\ st' = [st EXCEPT ![s] = "new"]
        /\ UNCHANGED <<tree, dodMap, dodBy, dying>>
    BY <1>7 DEF Accept, Idle, NoneDying
  <2>2. \A t \in Session : st[t] \notin {"new", "zombie"}
    BY <1>0, <2>1, SessionAssumption DEF Attended, ToSet
  <2>3. \A t \in Session : st'[t] = IF t = s THEN "new" ELSE st[t]
    BY <1>0, <2>1 DEF SendingOK
  <2>4. Attended'
    BY <2>1, <2>2, <2>3 DEF Attended
  <2>5. Shown'
    BY <1>0, <2>1, <2>3 DEF Shown, Present
  <2>6. DodUser'
    BY <1>0, <2>1 DEF DodUser
  <2> QED BY <2>4, <2>5, <2>6 DEF PInv
<1>8. ASSUME NEW s \in Session, NEW c \in CbPath, HandleSubscribe(s, c) PROVE PInv'
  <2>1. UNCHANGED <<tree, dodMap, dodBy>>
    BY <1>8 DEF HandleSubscribe
  <2>2. \A t \in Session : Stays(t) \/ Falls(t)
    BY <1>8, SubscribeEffect
  <2>3. ToSet(dying) \subseteq ToSet(dying')
    BY <1>8, SubscribeEffect
  <2>4. \A t \in Session : current = t => current' = t
    BY <1>8, SessionAssumption DEF HandleSubscribe, Begin, CanHandle
  <2> QED BY <1>a, <2>1, <2>2, <2>3, <2>4
<1>9. ASSUME NEW s \in Session, NEW x \in Xact, HandleTransaction(s, x) PROVE PInv'
  BY <1>9, PresenceTransaction
<1>10. ASSUME NEW s \in Session, Disconnect(s) PROVE PInv'
  <2>1. /\ Disconnected({s}) /\ UNCHANGED <<tree, dodMap, dodBy>>
        /\ current = NoSession
    BY <1>10 DEF Disconnect, Idle
  <2>2. {s} \in SUBSET Session
    OBVIOUS
  <2>3. /\ Falls(s)
        /\ \A t \in Session : t # s => st'[t] = st[t] /\ cbPaths'[t] = cbPaths[t]
        /\ ToSet(dying) \subseteq ToSet(dying')
    BY <1>0, <2>1, <2>2, Falling
  <2>4. \A t \in Session : Stays(t) \/ Falls(t)
    BY <2>3 DEF Stays
  <2>5. \A t \in Session : current # t
    BY <2>1, SessionAssumption
  <2> QED BY <1>a, <2>1, <2>3, <2>4, <2>5
<1>11. ASSUME NEW s \in Session, HandleTx(s) \/ Tick(s) \/ Receive(s) PROVE PInv'
  BY <1>1, <1>11 DEF HandleTx, Tick, Receive
<1>12. CASE UNCHANGED vars
  BY <1>1, <1>12 DEF vars
<1>13. CASE Next
  BY <1>2, <1>3, <1>4, <1>5, <1>6, <1>7, <1>8, <1>9, <1>10, <1>11, <1>13
  DEF Next, Finish, Input, ObjectAction
<1> QED BY <1>12, <1>13

(* A session has its object from the time it is greeted to the time it is      *)
(* destroyed, and one that was disconnected is on its way to be destroyed.     *)
THEOREM PresenceInvariant == Spec => [](IInv /\ PInv)
<1>1. Init => PInv
  BY PresenceInit
<1>2. IInv /\ PInv /\ [Next]_vars => PInv'
  BY PresenceStep
<1> QED BY <1>1, <1>2, InvariantCorrect, PTL DEF Spec

(* Between handlers no disconnected session is left, whatever cascade of       *)
(* disconnections one has set off, and the objects in the tree tell who is     *)
(* connected (ObexServer.cpp:14-69).                                           *)
THEOREM PresenceCorrect == Spec => []PresenceAccurate
<1>1. ASSUME IInv, PInv, Idle, NEW s \in Session
      PROVE  /\ st[s] \in {"free", "up"}
             /\ Present(SessionPath(s)) <=> (st[s] = "up")
  <2>1. SendingOK /\ Attended /\ Shown
    BY <1>1, InvUnfold DEF PInv
  <2>2. current # s /\ s \notin ToSet(dying)
    BY <1>1, SessionAssumption DEF Idle, NoneDying, ToSet
  <2>3. st[s] \in {"free", "up"}
    BY <2>1, <2>2 DEF SendingOK, Attended
  <2> QED BY <2>1, <2>3 DEF Shown
<1>2. IInv /\ PInv => PresenceAccurate
  BY <1>1 DEF PresenceAccurate
<1> QED BY <1>2, PresenceInvariant, PTL

-----------------------------------------------------------------------------
(* Objects grow newer.                                                       *)

(* Numbers of operations grow, and a new session's object is put only once. *)
LEMMA ClockEffect ==
  ASSUME IInv, PInv, Stamped, [Next]_vars
  PROVE  /\ clock <= clock'
         /\ \A p \in Path : Puts(p) => tree[p].op < clock'
         /\ \A t \in Session : st'[t] = "new" => st[t] = "new" \/ (clock < clock' /\ tree' = tree)
         /\ \A t \in Session : st[t] = "new" => ~Deletes(SessionPath(t))
<1> DEFINE Goal ==
             /\ clock <= clock'
             /\ \A p \in Path : Puts(p) => tree[p].op < clock'
             /\ \A t \in Session : st'[t] = "new" => st[t] = "new" \/ (clock < clock' /\ tree' = tree)
             /\ \A t \in Session : st[t] = "new" => ~Deletes(SessionPath(t))
<1>0. /\ SendingOK /\ TreeOK /\ ControlOK /\ Doomed /\ Attended /\ Shown /\ DodUser
      /\ \A p \in Path : tree[p] \in Data
  BY InvUnfold DEF PInv, TreeOK
<1>a. clock \in Int /\ \A p \in Path : tree[p].op \in Int /\ tree[p].op <= clock
  BY <1>0, BoundAssumption DEF ControlOK, Data, Stamped
<1>b. ASSUME tree' = tree, clock' = clock \/ clock' = clock + 1,
             \A t \in Session : st'[t] = "new" => st[t] = "new" \/ clock' = clock + 1
      PROVE  Goal
  <2>1. \A p \in Path : ~Puts(p)
    BY <1>b DEF Puts
  <2>2. \A p \in Path : ~Deletes(p)
    BY <1>0, <1>b DEF Deletes, Present, Data
  <2>3. \A t \in Session : SessionPath(t) \in Path
    BY PathAssumption
  <2> QED BY <1>a, <1>b, <2>1, <2>2, <2>3
<1>c. ASSUME NEW s \in Session, Begin(s), \A t \in Session : st'[t] = "new" => st[t] = "new"
      PROVE  Goal
  <2>1. clock' = clock + 1
    BY <1>c DEF Begin
  <2>2. \A t \in Session : st[t] # "new"
    BY <1>0, <1>c, SessionAssumption DEF Begin, CanHandle, Attended
  <2> QED BY <1>a, <1>c, <2>1, <2>2
<1>d. ASSUME NEW s \in Session, Begin(s), \A t \in Session : Stays(t) \/ Falls(t)
      PROVE  Goal
  BY <1>c, <1>d DEF Stays, Falls
<1>e. ASSUME NEW s \in Session, NEW p \in Path, clock' = clock,
             \A q \in Path : q # p => tree'[q] = tree[q],
             Puts(p) => tree[p].op < clock,
             \A t \in Session : st[t] = "new" => SessionPath(t) # p \/ ~Deletes(p),
             \A t \in Session : Stays(t) \/ Falls(t)
      PROVE  Goal
  <2>1. \A q \in Path : Puts(q) \/ Deletes(q) => q = p
    BY <1>0, <1>e DEF Puts, Deletes, Present, Data
  <2>2. \A t \in Session : SessionPath(t) \in Path
    BY PathAssumption
  <2>3. \A t \in Session : st'[t] = "new" => st[t] = "new"
    BY <1>e DEF Stays, Falls
  <2> QED BY <1>a, <1>e, <2>1, <2>2, <2>3
<1>1. ASSUME NEW s \in Session, Greet(s) PROVE Goal
  <2>1. /\ current = s /\ st[s] = "new" /\ ~Present(SessionPath(s)) /\ clock' = clock
        /\ SessionPath(s) \in Path
        /\ TreePut(SessionPath(s), Online, clock) /\ UNCHANGED <<replica, notified, xInProgress>>
    BY <1>1, PathAssumption DEF Greet
  <2>2. clock \in 0 .. MaxOps
    BY <1>0 DEF ControlOK
  <2>3. \A q \in Path : q # SessionPath(s) => tree'[q] = tree[q]
    BY <2>1, <2>2, PutEffect
  <2>4. tree[SessionPath(s)].op < clock
    BY <2>1 DEF Stamped
  <2>5. \A t \in Session : Stays(t) \/ Falls(t)
    BY <2>1, <2>2, PutEffect
  <2>6. ~Deletes(SessionPath(s))
    BY <2>1 DEF Deletes
  <2> QED BY <1>e, <2>1, <2>3, <2>4, <2>5, <2>6
<1>2. ASSUME NEW s \in Session, NEW p \in UserPath,
             (\E v \in Val, dod \in DodOpt : HandlePut(s, p, v, dod)) \/ HandleDel(s, p)
      PROVE  Goal
  <2>1. ObjectAction(s)
    BY <1>2 DEF ObjectAction
  <2>2. \A t \in Session : Stays(t) \/ Falls(t)
    BY <1>0, <2>1, ObjectActionEffect
  <2>3. Begin(s)
    BY <1>2 DEF HandlePut, HandleDel
  <2> QED BY <1>d, <2>2, <2>3
<1>3. ASSUME NEW s \in Session, NEW p \in Path, clock' = clock, TreeDel(p), Present(p),
             p = SessionPath(s) \/ p \in UserPath, st[s] = "zombie",
             UNCHANGED <<replica, notified, xInProgress>>
      PROVE  Goal
  <2>1. \A q \in Path : q # p => tree'[q] = tree[q]
    BY <1>3, DelEffect
  <2>2. Deletes(p) /\ \A t \in Session : Stays(t) \/ Falls(t)
    BY <1>3, DelEffect
  <2>3. ~Puts(p)
    BY <1>0, <2>2 DEF Puts, Deletes, Data
  <2>4. \A t \in Session : st[t] = "new" => SessionPath(t) # p
    BY <1>3, NameAssumption, PathAssumption
  <2> QED BY <1>e, <1>3, <2>1, <2>2, <2>3, <2>4
<1>4. ASSUME NEW s \in Session, Destroying(s) PROVE st[s] = "zombie"
  <2>1. dying # <<>> /\ s = Head(dying) /\ dying \in Seq(Session)
    BY <1>0, <1>4 DEF Destroying, SendingOK
  <2>2. 1 \in DOMAIN dying /\ s = dying[1]
    BY <2>1
  <2> QED BY <1>0, <2>2 DEF Doomed
<1>5. ASSUME NEW s \in Session, DeleteSessionPath(s) PROVE Goal
  <2>1. SessionPath(s) \in Path
    BY PathAssumption
  <2> QED BY <1>3, <1>4, <1>5, <2>1 DEF DeleteSessionPath
<1>6. ASSUME NEW s \in Session, DeleteDod(s) PROVE Goal
  <2>1. PICK p \in DodPaths(s) : Present(p) /\ TreeDel(p)
    BY <1>6 DEF DeleteDod
  <2>2. p \in UserPath /\ p \in Path
    BY <1>0, PathAssumption DEF DodUser, DodPaths
  <2> QED BY <1>3, <1>4, <1>6, <2>1, <2>2 DEF DeleteDod
<1>7. ASSUME FinishTransaction PROVE Goal
  <2>1. UNCHANGED <<tree, clock>>
    BY <1>7 DEF FinishTransaction
  <2>2. \A t \in Session : Stays(t) \/ Falls(t)
    BY <1>7, FlushEffect
  <2> QED BY <1>b, <2>1, <2>2 DEF Stays, Falls
<1>8. ASSUME EndTransaction \/ UNCHANGED vars PROVE Goal
  BY <1>b, <1>8 DEF EndTransaction, vars, sending
<1>9. ASSUME NEW s \in Session, EndHandler(s) \/ Destroyed(s) PROVE Goal
  <2>1. UNCHANGED <<tree, clock>>
    BY <1>9 DEF EndHandler, Destroyed
  <2>2. ASSUME NEW t \in Session, st'[t] = "new" PROVE st[t] = "new"
    BY <1>0, <1>9, <2>2 DEF EndHandler, Destroyed, SendingOK
  <2> QED BY <1>b, <2>1, <2>2
<1>10. ASSUME NEW s \in Session, Accept(s) PROVE Goal
  BY <1>b, <1>10 DEF Accept
<1>11. ASSUME NEW s \in Session, NEW c \in CbPath, HandleSubscribe(s, c) PROVE Goal
  <2>1. \A t \in Session : Stays(t) \/ Falls(t)
    BY <1>11, SubscribeEffect
  <2> QED BY <1>d, <1>11, <2>1 DEF HandleSubscribe
<1>12. ASSUME NEW s \in Session, NEW x \in Xact, HandleTransaction(s, x) PROVE Goal
  <2>1. \A t \in Session : Stays(t)
    BY <1>12, TransactionEffect
  <2> QED BY <1>d, <1>12, <2>1 DEF HandleTransaction
<1>13. ASSUME NEW s \in Session, Disconnect(s) PROVE Goal
  <2>1. Disconnected({s}) /\ UNCHANGED <<tree, clock>>
    BY <1>13 DEF Disconnect
  <2>2. ASSUME NEW t \in Session, st'[t] = "new" PROVE st[t] = "new"
    BY <2>1, <2>2 DEF Disconnected
  <2> QED BY <1>b, <2>1, <2>2
<1>14. ASSUME NEW s \in Session, HandleTx(s) \/ Tick(s) \/ Receive(s) PROVE Goal
  BY <1>b, <1>14 DEF HandleTx, Tick, Receive
<1> SUFFICES Goal
  OBVIOUS
<1> HIDE DEF Goal
<1>15. CASE UNCHANGED vars
  BY <1>8, <1>15
<1>16. CASE Next
  BY <1>1, <1>2, <1>5, <1>6, <1>7, <1>8, <1>9, <1>10, <1>11, <1>12, <1>13, <1>14, <1>16
  DEF Next, Finish, Input
<1> QED BY <1>15, <1>16

LEMMA StampedInit == Init => Stamped
BY PathAssumption DEF Init, Stamped, Empty, Present

LEMMA StampedStep ==
  ASSUME IInv, PInv, Stamped, [Next]_vars
  PROVE  /\ Stamped'
         /\ \A p \in Path : Older(tree[p], tree'[p])
<1>0. /\ TreeOK /\ ControlOK /\ DodUser
      /\ \A p \in Path : tree[p] \in Data
  BY InvUnfold DEF PInv, TreeOK
<1>1. clock \in Int /\ \A p \in Path : tree[p].op \in Int /\ tree[p].op >= 0 /\ tree[p].op <= clock
  BY <1>0, BoundAssumption DEF ControlOK, Data, Stamped
<1>2. clock' \in Int
  <2>1. TypeOK'
    BY TypeStep DEF IInv
  <2> QED BY <2>1, BoundAssumption DEF TypeOK
<1>3. /\ clock <= clock'
      /\ \A p \in Path : Puts(p) => tree[p].op < clock'
  BY ClockEffect
<1>4. \A p \in Path : tree'[p] = tree[p] \/ Puts(p) \/ Deletes(p)
  BY <1>0, StepMoves
<1>5. ASSUME NEW p \in Path
      PROVE  /\ tree'[p].op <= clock' /\ (Present(p)' => tree'[p].op > 0)
             /\ Older(tree[p], tree'[p])
  <2>1. CASE tree'[p] = tree[p]
    BY <1>1, <1>2, <1>3, <2>1 DEF Stamped, Present, Older
  <2>2. CASE Puts(p)
    BY <1>1, <1>2, <1>3, <2>2 DEF Puts, Older
  <2>3. CASE Deletes(p)
    <3>1. tree'[p].op = tree[p].op /\ tree'[p].val = NoVal /\ tree[p].val # NoVal
      BY <1>0, <2>3 DEF Deletes, Present, Data
    <3> QED BY <1>1, <1>2, <1>3, <3>1 DEF Present, Older
  <2> QED BY <1>4, <2>1, <2>2, <2>3
<1>6. ASSUME NEW t \in Session, st'[t] = "new", ~Present(SessionPath(t))'
      PROVE  tree'[SessionPath(t)].op < clock'
  <2>1. SessionPath(t) \in Path
    BY PathAssumption
  <2>2. CASE st[t] = "new"
    <3>1. ~Deletes(SessionPath(t))
      BY <2>2, ClockEffect
    <3>2. ~Puts(SessionPath(t))
      BY <1>6 DEF Puts, Present
    <3>3. tree'[SessionPath(t)] = tree[SessionPath(t)]
      BY <1>4, <2>1, <3>1, <3>2
    <3>4. tree[SessionPath(t)].op < clock
      BY <1>6, <2>2, <3>3 DEF Stamped, Present
    <3> QED BY <1>1, <1>2, <1>3, <2>1, <3>3, <3>4
  <2>3. CASE st[t] # "new"
    <3>1. clock < clock' /\ tree' = tree
      BY <1>6, <2>3, ClockEffect
    <3> QED BY <1>1, <1>2, <2>1, <3>1
  <2> QED BY <2>2, <2>3
<1>7. Stamped'
  BY <1>5, <1>6 DEF Stamped
<1> QED BY <1>5, <1>7

-----------------------------------------------------------------------------
(* What a client has, what is on its way to it and what the tree holds.      *)

LEMMA OlderOrder ==
  ASSUME NEW a \in Data, NEW b \in Data, NEW c \in Data
  PROVE  Older(a, a) /\ (Older(a, b) /\ Older(b, c) => Older(a, c))
<1>1. a.op \in Int /\ b.op \in Int /\ c.op \in Int
  BY BoundAssumption DEF Data
<1> QED BY <1>1 DEF Older

LEMMA UpdateData ==
  ASSUME NEW u \in Update, NEW p \in DOMAIN u
  PROVE  u[p] \in Data /\ p \in Path
BY UpdateType

LEMMA QueueData ==
  ASSUME NEW q \in Seq(Msg), NEW i \in DOMAIN q, NEW p \in DOMAIN q[i].upd
  PROVE  q[i].upd[p] \in Data
<1>1. q[i] \in Msg
  OBVIOUS
<1>2. q[i].upd \in Update
  BY <1>1 DEF Msg
<1> QED BY <1>2, UpdateData

(* The tree changes, and what is held back with it. *)
LEMMA AgeingKept ==
  ASSUME NEW q \in Seq(Msg), NEW r \in Data, NEW x \in Update, NEW y \in Update,
         NEW d \in Data, NEW e \in Data, NEW p,
         Ageing(q, r, x, d, p), Older(d, e),
         p \in DOMAIN y => y[p] = e \/ (p \in DOMAIN x /\ y[p] = x[p])
  PROVE  Ageing(q, r, y, e, p)
<1>1. Older(r, e)
  BY OlderOrder DEF Ageing
<1>2. ASSUME NEW i \in DOMAIN q, p \in DOMAIN q[i].upd
      PROVE  Older(r, q[i].upd[p]) /\ Older(q[i].upd[p], e)
  <2>1. q[i].upd[p] \in Data
    BY <1>2, QueueData
  <2>2. Older(r, q[i].upd[p]) /\ Older(q[i].upd[p], d)
    BY <1>2 DEF Ageing
  <2> QED BY <2>1, <2>2, OlderOrder
<1>3. ASSUME p \in DOMAIN y
      PROVE  /\ Older(r, y[p]) /\ Older(y[p], e)
             /\ \A i \in DOMAIN q : p \in DOMAIN q[i].upd => Older(q[i].upd[p], y[p])
  <2>1. CASE y[p] = e
    BY <1>1, <1>2, <2>1, OlderOrder
  <2>2. CASE p \in DOMAIN x /\ y[p] = x[p]
    <3>1. x[p] \in Data /\ Older(x[p], d)
      BY <2>2, UpdateData DEF Ageing
    <3>2. Older(y[p], e)
      BY <2>2, <3>1, OlderOrder
    <3> QED BY <2>2, <3>2 DEF Ageing
  <2> QED BY <1>3, <2>1, <2>2
<1> QED BY <1>1, <1>2, <1>3 DEF Ageing

(* Messages more, with something as new as the tree. *)
LEMMA AgeingSent ==
  ASSUME NEW q \in Seq(Msg), NEW r \in Data, NEW w \in Seq(Msg), NEW y,
         NEW e \in Data, NEW u \in Data, NEW p, Older(u, e), Older(r, e), Older(r, u),
         \A i \in DOMAIN q : p \in DOMAIN q[i].upd =>
           /\ Older(r, q[i].upd[p]) /\ Older(q[i].upd[p], u)
           /\ \A j \in DOMAIN q : i < j /\ p \in DOMAIN q[j].upd => Older(q[i].upd[p], q[j].upd[p]),
         \A i \in DOMAIN w : p \in DOMAIN w[i].upd => w[i].upd[p] = u,
         DOMAIN y = {}
  PROVE  Ageing(q \o w, r, y, e, p)
<1> DEFINE z == q \o w
<1>1. /\ Len(q) \in Nat /\ Len(w) \in Nat /\ DOMAIN q = 1 .. Len(q) /\ DOMAIN w = 1 .. Len(w)
      /\ DOMAIN z = 1 .. Len(q) + Len(w)
      /\ \A i \in 1 .. Len(q) : z[i] = q[i]
      /\ \A i \in 1 .. Len(q) + Len(w) : i \notin 1 .. Len(q) =>
           i - Len(q) \in 1 .. Len(w) /\ z[i] = w[i - Len(q)]
  OBVIOUS
<1> HIDE DEF z
<1>2. ASSUME NEW i \in DOMAIN z, i \notin DOMAIN q, p \in DOMAIN z[i].upd PROVE z[i].upd[p] = u
  BY <1>1, <1>2
<1>3. \A i \in DOMAIN q : z[i] = q[i]
  BY <1>1
<1>4. ASSUME NEW i \in DOMAIN z, p \in DOMAIN z[i].upd
      PROVE  Older(r, z[i].upd[p]) /\ Older(z[i].upd[p], e)
  <2>1. CASE i \in DOMAIN q
    <3>1. q[i].upd[p] \in Data
      BY <1>3, <1>4, <2>1, QueueData
    <3> QED BY <1>3, <1>4, <2>1, <3>1, OlderOrder
  <2>2. CASE i \notin DOMAIN q
    BY <1>2, <1>4, <2>2
  <2> QED BY <2>1, <2>2
<1>5. ASSUME NEW i \in DOMAIN z, NEW j \in DOMAIN z, i < j,
             p \in DOMAIN z[i].upd, p \in DOMAIN z[j].upd
      PROVE  Older(z[i].upd[p], z[j].upd[p])
  <2>1. CASE j \in DOMAIN q
    <3>1. i \in DOMAIN q
      BY <1>1, <1>5, <2>1
    <3> QED BY <1>3, <1>5, <2>1, <3>1
  <2>2. CASE j \notin DOMAIN q
    <3>1. z[j].upd[p] = u
      BY <1>2, <1>5, <2>2
    <3>2. CASE i \in DOMAIN q
      BY <1>3, <1>5, <3>1, <3>2
    <3>3. CASE i \notin DOMAIN q
      BY <1>2, <1>5, <3>1, <3>3, OlderOrder
    <3> QED BY <3>2, <3>3
  <2> QED BY <2>1, <2>2
<1> QED BY <1>4, <1>5 DEF z, Ageing

(* The first message is received. *)
LEMMA AgeingReceived ==
  ASSUME NEW q \in Seq(Msg), q # <<>>, NEW f \in [Path -> Data], NEW x, NEW d, NEW p \in Path,
         Ageing(q, f[p], x, d, p)
  PROVE  /\ Older(f[p], Apply(Head(q).upd, f)[p])
         /\ Ageing(Tail(q), Apply(Head(q).upd, f)[p], x, d, p)
<1> DEFINE u == Head(q).upd
           z == Tail(q)
           r == Apply(u, f)[p]
<1>1. /\ Len(q) \in Nat /\ DOMAIN q = 1 .. Len(q) /\ 1 \in DOMAIN q /\ u = q[1].upd
      /\ DOMAIN z = 1 .. Len(q) - 1
      /\ \A i \in 1 .. Len(q) - 1 : i + 1 \in DOMAIN q /\ z[i] = q[i + 1]
  OBVIOUS
<1>2. r = IF p \in DOMAIN u THEN u[p] ELSE f[p]
  BY DEF Apply
<1> HIDE DEF u, z, r
<1>3. ASSUME NEW i \in DOMAIN z, p \in DOMAIN z[i].upd
      PROVE  /\ Older(r, z[i].upd[p]) /\ Older(z[i].upd[p], d)
             /\ \A j \in DOMAIN z : i < j /\ p \in DOMAIN z[j].upd => Older(z[i].upd[p], z[j].upd[p])
  <2>1. i + 1 \in DOMAIN q /\ z[i] = q[i + 1] /\ 1 < i + 1
    BY <1>1
  <2>2. \A j \in DOMAIN z : i < j => i + 1 < j + 1 /\ j + 1 \in DOMAIN q /\ z[j] = q[j + 1]
    BY <1>1
  <2>3. Older(r, z[i].upd[p])
    BY <1>1, <1>2, <1>3, <2>1 DEF Ageing
  <2> QED BY <1>3, <2>1, <2>2, <2>3 DEF Ageing
<1>4. Older(r, d)
  BY <1>1, <1>2 DEF Ageing
<1>5. ASSUME p \in DOMAIN x
      PROVE  /\ Older(r, x[p]) /\ Older(x[p], d)
             /\ \A i \in DOMAIN z : p \in DOMAIN z[i].upd => Older(z[i].upd[p], x[p])
  <2>1. Older(r, x[p])
    BY <1>1, <1>2, <1>5 DEF Ageing
  <2> QED BY <1>1, <1>5, <2>1 DEF Ageing
<1>6. Older(f[p], f[p]) /\ (p \in DOMAIN u => Older(f[p], u[p]))
  <2>1. f[p] \in Data
    OBVIOUS
  <2> QED BY <1>1, <2>1, OlderOrder DEF Ageing
<1>7. Older(f[p], r)
  BY <1>2, <1>6
<1>8. Ageing(z, r, x, d, p)
  BY <1>3, <1>4, <1>5 DEF Ageing
<1> QED BY <1>7, <1>8 DEF r, u, z

LEMMA OrderedInit == Init => Ordered
<1> SUFFICES ASSUME Init, NEW s \in Session, NEW p \in Path
             PROVE  Ageing(pipe[s], replica[s][p], xaction[s], tree[p], p)
  BY DEF Ordered
<1>1. /\ pipe[s] = <<>> /\ replica[s][p] = Empty /\ tree[p] = Empty
      /\ xaction[s] = NoUpdate
  BY DEF Init
<1>2. DOMAIN xaction[s] = {}
  BY <1>1, NoUpdateType
<1>3. Older(Empty, Empty)
  BY DEF Older, Empty
<1> QED BY <1>1, <1>2, <1>3 DEF Ageing

LEMMA OrderedStep ==
  ASSUME IInv, PInv, Stamped, Ordered, [Next]_vars
  PROVE  Ordered'
<1> SUFFICES ASSUME NEW s \in Session, NEW p \in Path
             PROVE  Ageing(pipe'[s], replica'[s][p], xaction'[s], tree'[p], p)
  BY DEF Ordered
<1> DEFINE q == pipe[s]
           f == replica[s]
           x == xaction[s]
           d == tree[p]
           y == xaction'[s]
           e == tree'[p]
<1>1. /\ SendingOK /\ HoldingOK /\ TreeOK /\ ClientOK /\ ControlOK /\ DodUser
      /\ q \in Seq(Msg) /\ f \in [Path -> Data] /\ x \in Update /\ d \in Data
  BY InvUnfold DEF PInv, SendingOK, HoldingOK, TreeOK, ClientOK
<1>2. y \in Update /\ e \in Data
  <2>1. TypeOK'
    BY TypeStep DEF IInv
  <2> QED BY <2>1 DEF TypeOK
<1>3. Older(d, e)
  BY StampedStep
<1>4. Moves(s)
  BY <1>1, StepMoves
<1>5. Ageing(q, f[p], x, d, p)
  BY DEF Ordered
<1>6. f[p] \in Data
  BY <1>1
<1>7. ASSUME NEW w \in Seq(Msg), NEW u \in Data, pipe'[s] = q \o w, replica'[s] = f, DOMAIN y = {},
             Older(u, e), Older(f[p], u),
             \A i \in DOMAIN q : p \in DOMAIN q[i].upd => Older(q[i].upd[p], u),
             \A i \in DOMAIN w : p \in DOMAIN w[i].upd => w[i].upd[p] = u
      PROVE  Ageing(pipe'[s], replica'[s][p], y, e, p)
  <2>1. Older(f[p], e)
    BY <1>2, <1>6, <1>7, OlderOrder
  <2>2. \A i \in DOMAIN q : p \in DOMAIN q[i].upd =>
          /\ Older(f[p], q[i].upd[p])
          /\ \A j \in DOMAIN q : i < j /\ p \in DOMAIN q[j].upd => Older(q[i].upd[p], q[j].upd[p])
    BY <1>5 DEF Ageing
  <2> HIDE DEF q, f, y, e
  <2>3. Ageing(q \o w, f[p], y, e, p)
    BY <1>1, <1>2, <1>6, <1>7, <2>1, <2>2, AgeingSent
  <2> QED BY <1>7, <2>3
<1>8. CASE Kept(s)
  <2>1. /\ pipe'[s] = q /\ replica'[s] = f
        /\ p \in DOMAIN y => y[p] = e \/ (p \in DOMAIN x /\ y[p] = x[p])
    BY <1>8 DEF Kept
  <2> HIDE DEF q, f, x, y, d, e
  <2>2. Ageing(q, f[p], y, e, p)
    BY <1>1, <1>2, <1>3, <1>5, <1>6, <2>1, AgeingKept
  <2> QED BY <2>1, <2>2 DEF y, e
<1>9. ASSUME NEW w, Sent(s, w) PROVE Ageing(pipe'[s], replica'[s][p], y, e, p)
  <2>1. /\ w \in Seq(Msg) /\ pipe'[s] = q \o w /\ replica'[s] = f /\ DOMAIN y = {}
        /\ \A i \in DOMAIN w : p \in DOMAIN w[i].upd => w[i].upd[p] = e
    BY <1>9 DEF Sent
  <2>2. Older(e, e) /\ Older(f[p], e)
    BY <1>1, <1>2, <1>3, <1>5, <1>6, OlderOrder DEF Ageing
  <2>3. \A i \in DOMAIN q : p \in DOMAIN q[i].upd => Older(q[i].upd[p], e)
    <3> HIDE DEF q, f, x, y, d, e
    <3>1. ASSUME NEW i \in DOMAIN q, p \in DOMAIN q[i].upd PROVE Older(q[i].upd[p], e)
      <4>1. q[i].upd[p] \in Data
        BY <1>1, <3>1, QueueData
      <4>2. Older(q[i].upd[p], d)
        BY <1>5, <3>1 DEF Ageing
      <4> QED BY <1>1, <1>2, <1>3, <4>1, <4>2, OlderOrder
    <3> QED BY <3>1
  <2> HIDE DEF q, f, x, y, d, e
  <2> QED BY <1>2, <1>7, <2>1, <2>2, <2>3
<1>10. CASE Flushed(s)
  <2> DEFINE m == TransactionMsg(x)
             w == <<m>>
  <2>1. m \in Msg /\ m.upd = x
    BY <1>1, TransactionMsgType DEF TransactionMsg
  <2>2. /\ pipe'[s] = Append(q, m) /\ replica'[s] = f /\ DOMAIN y = {} /\ tree' = tree
    BY <1>10 DEF Flushed
  <2>3. e = d
    BY <2>2
  <2> HIDE DEF q, f, x, y, d, e, m
  <2>4. w \in Seq(Msg) /\ DOMAIN w = {1} /\ w[1] = m /\ Append(q, m) = q \o w
    BY <1>1, <2>1
  <2> HIDE DEF w
  <2>5. ASSUME p \in DOMAIN x PROVE Ageing(pipe'[s], replica'[s][p], y, e, p)
    <3>1. x[p] \in Data
      BY <1>1, <2>5, UpdateData
    <3>2. /\ Older(x[p], e) /\ Older(f[p], x[p])
          /\ \A i \in DOMAIN q : p \in DOMAIN q[i].upd => Older(q[i].upd[p], x[p])
      BY <1>5, <2>3, <2>5 DEF Ageing
    <3>3. \A i \in DOMAIN w : p \in DOMAIN w[i].upd => w[i].upd[p] = x[p]
      BY <2>1, <2>4
    <3>4. pipe'[s] = q \o w
      BY <2>2, <2>4
    <3> QED BY <1>7, <2>2, <2>4, <3>1, <3>2, <3>3, <3>4
  <2>6. ASSUME p \notin DOMAIN x PROVE Ageing(pipe'[s], replica'[s][p], y, e, p)
    <3>1. /\ Older(e, e) /\ Older(f[p], e)
          /\ \A i \in DOMAIN q : p \in DOMAIN q[i].upd => Older(q[i].upd[p], e)
      BY <1>2, <1>5, <2>3, OlderOrder DEF Ageing
    <3>2. \A i \in DOMAIN w : p \in DOMAIN w[i].upd => w[i].upd[p] = e
      BY <2>1, <2>4, <2>6
    <3>3. pipe'[s] = q \o w
      BY <2>2, <2>4
    <3> QED BY <1>2, <1>7, <2>2, <2>4, <3>1, <3>2, <3>3
  <2> QED BY <2>5, <2>6 DEF y, e
<1>11. CASE Received(s)
  <2>1. /\ q # <<>> /\ pipe'[s] = Tail(q) /\ replica'[s] = Apply(Head(q).upd, f)
        /\ y = x /\ e = d
    BY <1>11 DEF Received
  <2> HIDE DEF q, f, x, y, d, e
  <2>2. Ageing(Tail(q), Apply(Head(q).upd, f)[p], x, d, p)
    BY <1>1, <1>5, <2>1, AgeingReceived
  <2> QED BY <2>1, <2>2 DEF y, e
<1>12. CASE Cleared(s)
  <2>1. pipe'[s] = <<>> /\ DOMAIN y = {} /\ replica'[s][p] = Empty /\ e = d
    BY <1>12 DEF Cleared
  <2>2. Older(Empty, e)
    <3>1. d.op \in Int /\ d.op >= 0
      BY <1>1, BoundAssumption DEF Data
    <3>2. d.val # NoVal => d.op > 0
      BY DEF Stamped, Present
    <3> QED BY <2>1, <3>1, <3>2 DEF Older, Empty
  <2> QED BY <2>1, <2>2 DEF Ageing
<1> QED BY <1>4, <1>8, <1>9, <1>10, <1>11, <1>12 DEF Moves

(* A client never sees an object go back to an earlier state: what it holds, is *)
(* being sent, is held back for it and is in the tree grows newer in this order *)
(* (ObexServer.cpp:180-257, MsgIo.cpp:139-170).                                  *)
THEOREM MonotoneCorrect == Spec => MonotoneReplica
<1>1. ASSUME IInv, PInv, Ordered, [Next]_vars, NEW s \in Session, NEW p \in Path,
             st[s] = "up", st'[s] = "up"
      PROVE  Older(replica[s][p], replica'[s][p])
  <2>1. /\ pipe[s] \in Seq(Msg) /\ replica[s] \in [Path -> Data] /\ DodUser
    BY <1>1, InvUnfold DEF PInv, SendingOK, ClientOK
  <2>2. Moves(s)
    BY <1>1, <2>1, StepMoves
  <2>3. ~Cleared(s)
    BY <1>1 DEF Cleared
  <2>4. CASE replica'[s] = replica[s]
    <3>1. replica[s][p] \in Data
      BY <2>1
    <3> QED BY <2>4, <3>1, OlderOrder
  <2>5. CASE Received(s)
    <3>1. Ageing(pipe[s], replica[s][p], xaction[s], tree[p], p)
      BY <1>1 DEF Ordered
    <3>2. pipe[s] # <<>> /\ replica'[s] = Apply(Head(pipe[s]).upd, replica[s])
      BY <2>5 DEF Received
    <3> QED BY <2>1, <3>1, <3>2, AgeingReceived
  <2> QED BY <2>2, <2>3, <2>4, <2>5 DEF Moves, Kept, Sent, Flushed
<1>2. IInv /\ PInv /\ Ordered /\ [Next]_vars =>
        [\A s \in Session : st[s] = "up" /\ st'[s] = "up" =>
           \A p \in Path : Older(replica[s][p], replica'[s][p])]_vars
  BY <1>1
<1>3. Spec => [](Stamped /\ Ordered)
  <2>1. Init => Stamped /\ Ordered
    BY StampedInit, OrderedInit
  <2>2. IInv /\ PInv /\ Stamped /\ Ordered /\ [Next]_vars => Stamped' /\ Ordered'
    BY StampedStep, OrderedStep
  <2> QED BY <2>1, <2>2, PresenceInvariant, PTL DEF Spec
<1> QED BY <1>2, <1>3, PresenceInvariant, PTL DEF Spec, MonotoneReplica

-----------------------------------------------------------------------------
(* What clients know to be complete.                                         *)

LEMMA EndsUpto ==
  ASSUME NEW q \in Seq(Msg), NEW r, NEW p, NEW d, Ends(q, r, p, d)
  PROVE  Upto(q, Len(q), r, p, d)
<1>1. Len(q) \in Nat /\ DOMAIN q = 1 .. Len(q)
  OBVIOUS
<1> DEFINE U == {i \in 1 .. Len(q) : p \in DOMAIN q[i].upd}
<1>2. \/ U = {} /\ Same(r, d)
      \/ \E i \in U : (\A j \in U : j <= i) /\ Same(q[i].upd[p], d)
  BY <1>1 DEF Ends
<1>3. ASSUME NEW i \in U, NEW j \in U, \A k \in U : k <= i, \A k \in U : k <= j PROVE i = j
  BY <1>1, <1>3
<1>4. \A i \in U : (\A j \in U : j <= i) => Same(q[i].upd[p], d)
  <2> HIDE DEF U
  <2> QED BY <1>2, <1>3
<1> QED BY <1>2, <1>4 DEF Upto

(* More messages change nothing for the first k, and the tree's past stays. *)
LEMMA ShowsConcat ==
  ASSUME NEW q \in Seq(Msg), NEW w \in Seq(Msg), NEW n, NEW r, NEW S, NEW T,
         S \subseteq T, NEW k \in 0 .. Len(q), Shows(q, n, r, k, S)
  PROVE  Shows(q \o w, n, r, k, T)
<1> DEFINE z == q \o w
<1>1. /\ \A i \in 1 .. k : z[i] = q[i]
      /\ k \in Nat
  OBVIOUS
<1> HIDE DEF z
<1>2. PICK h \in S : \A p \in Path :
        (\E c \in Told(q, n, k) : Covers(c, p)) => Upto(q, k, r[p], p, h[p])
  BY DEF Shows
<1>3. Told(z, n, k) = Told(q, n, k)
  BY <1>1 DEF Told
<1>4. ASSUME NEW p, NEW d, Upto(q, k, r[p], p, d) PROVE Upto(z, k, r[p], p, d)
  <2>1. {i \in 1 .. k : p \in DOMAIN z[i].upd} = {i \in 1 .. k : p \in DOMAIN q[i].upd}
    BY <1>1
  <2> QED BY <1>1, <1>4, <2>1 DEF Upto
<1> QED BY <1>2, <1>3, <1>4 DEF z, Shows

(* The first messages of w have what is in the tree, and notify nothing. *)
LEMMA ShowsBetween ==
  ASSUME NEW q \in Seq(Msg), NEW w \in Seq(Msg), NEW n, NEW r, NEW T, NEW d \in T,
         NEW k \in Len(q) .. Len(q) + Len(w),
         \A p \in Path : (\E c \in Told(q, n, Len(q)) : Covers(c, p)) => Ends(q, r[p], p, d[p]),
         \A j \in 1 .. k - Len(q) :
           w[j].subs = {} /\ \A p \in DOMAIN w[j].upd : w[j].upd[p] = d[p]
  PROVE  Shows(q \o w, n, r, k, T)
<1> DEFINE z == q \o w
<1>1. /\ Len(q) \in Nat /\ Len(w) \in Nat /\ k \in Nat /\ Len(q) <= k
      /\ \A i \in 1 .. Len(q) : z[i] = q[i] /\ i \in 1 .. k
      /\ \A i \in 1 .. k : i \notin 1 .. Len(q) =>
           i - Len(q) \in 1 .. k - Len(q) /\ z[i] = w[i - Len(q)]
  OBVIOUS
<1> HIDE DEF z
<1>2. Told(z, n, k) \subseteq Told(q, n, Len(q))
  <2>1. ASSUME NEW i \in 1 .. k, NEW c \in z[i].subs PROVE i \in 1 .. Len(q) /\ c \in q[i].subs
    BY <1>1, <2>1
  <2> QED BY <2>1 DEF Told
<1>3. ASSUME NEW p \in Path, Ends(q, r[p], p, d[p]) PROVE Upto(z, k, r[p], p, d[p])
  <2> DEFINE U == {i \in 1 .. k : p \in DOMAIN z[i].upd}
             V == {i \in 1 .. Len(q) : p \in DOMAIN q[i].upd}
  <2>1. /\ V = {} => Same(r[p], d[p])
        /\ \A i \in V : (\A j \in V : j <= i) => Same(q[i].upd[p], d[p])
    BY <1>3, EndsUpto DEF Upto
  <2>2. V \subseteq U /\ \A i \in U : i \in 1 .. Len(q) => i \in V
    BY <1>1
  <2>3. U = {} => Same(r[p], d[p])
    BY <2>1, <2>2
  <2>4. ASSUME NEW i \in U, \A j \in U : j <= i PROVE Same(z[i].upd[p], d[p])
    <3>1. CASE i \in 1 .. Len(q)
      <4>1. z[i] = q[i] /\ i \in V /\ \A j \in V : j <= i
        BY <1>1, <2>2, <2>4, <3>1
      <4> QED BY <2>1, <4>1
    <3>2. CASE i \notin 1 .. Len(q)
      <4>1. z[i] = w[i - Len(q)] /\ i - Len(q) \in 1 .. k - Len(q) /\ p \in DOMAIN z[i].upd
        BY <1>1, <3>2
      <4>2. z[i].upd[p] = d[p]
        BY <4>1
      <4> QED BY <4>2 DEF Same
    <3> QED BY <3>1, <3>2
  <2> QED BY <2>3, <2>4 DEF Upto
<1>4. \A p \in Path : (\E c \in Told(z, n, k) : Covers(c, p)) => Upto(z, k, r[p], p, d[p])
  BY <1>2, <1>3
<1> QED BY <1>4 DEF z, Shows

LEMMA ShowsLast ==
  ASSUME NEW q \in Seq(Msg), NEW n, NEW r, NEW T, NEW d \in T,
         \A p \in Path : (\E c \in Told(q, n, Len(q)) : Covers(c, p)) => Ends(q, r[p], p, d[p])
  PROVE  Shows(q, n, r, Len(q), T)
<1>1. \A p \in Path : (\E c \in Told(q, n, Len(q)) : Covers(c, p)) => Upto(q, Len(q), r[p], p, d[p])
  BY EndsUpto
<1> QED BY <1>1 DEF Shows

(* The first message is received. *)
LEMMA ShowsTail ==
  ASSUME NEW q \in Seq(Msg), q # <<>>, NEW n, NEW f, NEW T,
         NEW k \in 0 .. Len(q) - 1, Shows(q, n, f, k + 1, T)
  PROVE  /\ Told(Tail(q), n \cup Head(q).subs, k) = Told(q, n, k + 1)
         /\ Shows(Tail(q), n \cup Head(q).subs, Apply(Head(q).upd, f), k, T)
<1> DEFINE u == Head(q).upd
           z == Tail(q)
           m == n \cup Head(q).subs
           r == Apply(u, f)
<1>1. /\ Len(q) \in Nat /\ k \in Nat /\ k + 1 \in Nat
      /\ u = q[1].upd /\ m = n \cup q[1].subs /\ 1 \in 1 .. k + 1
      /\ \A i \in 1 .. k : z[i] = q[i + 1] /\ i + 1 \in 1 .. k + 1
      /\ \A i \in 1 .. k + 1 : i # 1 => i - 1 \in 1 .. k /\ (i - 1) + 1 = i
  OBVIOUS
<1>2. \A p \in Path : r[p] = IF p \in DOMAIN u THEN u[p] ELSE f[p]
  BY DEF Apply
<1> HIDE DEF u, z, m, r
<1>3. Told(z, m, k) = Told(q, n, k + 1)
  <2>1. ASSUME NEW c \in Told(z, m, k) PROVE c \in Told(q, n, k + 1)
    <3>1. CASE c \in m
      BY <1>1, <3>1 DEF Told
    <3>2. ASSUME NEW i \in 1 .. k, c \in z[i].subs PROVE c \in Told(q, n, k + 1)
      BY <1>1, <3>2 DEF Told
    <3> QED BY <3>1, <3>2 DEF Told
  <2>2. ASSUME NEW c \in Told(q, n, k + 1) PROVE c \in Told(z, m, k)
    <3>1. CASE c \in n
      BY <1>1, <3>1 DEF Told
    <3>2. ASSUME NEW i \in 1 .. k + 1, c \in q[i].subs PROVE c \in Told(z, m, k)
      <4>1. CASE i = 1
        BY <1>1, <3>2, <4>1 DEF Told
      <4>2. CASE i # 1
        <5>1. i - 1 \in 1 .. k /\ z[i - 1] = q[i]
          BY <1>1, <4>2
        <5> QED BY <3>2, <5>1 DEF Told
      <4> QED BY <4>1, <4>2
    <3> QED BY <3>1, <3>2 DEF Told
  <2> QED BY <2>1, <2>2
<1>4. ASSUME NEW p \in Path, NEW d, Upto(q, k + 1, f[p], p, d) PROVE Upto(z, k, r[p], p, d)
  <2> DEFINE U == {i \in 1 .. k + 1 : p \in DOMAIN q[i].upd}
             V == {i \in 1 .. k : p \in DOMAIN z[i].upd}
  <2>1. /\ U = {} => Same(f[p], d)
        /\ \A i \in U : (\A j \in U : j <= i) => Same(q[i].upd[p], d)
    BY <1>4 DEF Upto
  <2>2. /\ \A i \in V : i + 1 \in U /\ z[i] = q[i + 1]
        /\ \A i \in U : i = 1 \/ i - 1 \in V
        /\ 1 \in U <=> p \in DOMAIN u
    BY <1>1
  <2>3. ASSUME V = {} PROVE Same(r[p], d)
    <3>1. \A i \in U : i = 1
      BY <2>2, <2>3
    <3>2. CASE p \in DOMAIN u
      <4>1. 1 \in U /\ \A j \in U : j <= 1
        BY <2>2, <3>1, <3>2
      <4> QED BY <1>1, <1>2, <2>1, <3>2, <4>1
    <3>3. CASE p \notin DOMAIN u
      <4>1. U = {}
        BY <2>2, <3>1, <3>3
      <4> QED BY <1>2, <2>1, <3>3, <4>1
    <3> QED BY <3>2, <3>3
  <2>4. ASSUME NEW i \in V, \A j \in V : j <= i PROVE Same(z[i].upd[p], d)
    <3>1. i \in 1 .. k /\ i + 1 \in U /\ z[i] = q[i + 1]
      BY <2>2
    <3>2. ASSUME NEW j \in U PROVE j <= i + 1
      <4>1. CASE j = 1
        BY <3>1, <4>1
      <4>2. CASE j - 1 \in V
        <5>1. j - 1 <= i /\ j \in Int
          BY <2>4, <4>2
        <5> QED BY <3>1, <5>1
      <4> QED BY <2>2, <4>1, <4>2
    <3> QED BY <2>1, <3>1, <3>2
  <2> QED BY <2>3, <2>4 DEF Upto
<1>5. Shows(z, m, r, k, T)
  BY <1>3, <1>4 DEF Shows
<1> QED BY <1>3, <1>5 DEF z, m, r, u

LEMMA ShowsNone ==
  ASSUME NEW q, q = <<>>, NEW n, n = {}, NEW r, NEW T, NEW h \in T
  PROVE  /\ Told(q, n, Len(q)) = {}
         /\ \A k \in 0 .. Len(q) : Shows(q, n, r, k, T)
<1>1. Len(q) = 0
  OBVIOUS
<1>2. Told(q, n, 0) = {}
  BY DEF Told
<1>3. Shows(q, n, r, 0, T)
  BY <1>2 DEF Shows
<1> QED BY <1>1, <1>2, <1>3

LEMMA SnapshotsInit == Init => Snapshots
<1> SUFFICES ASSUME Init PROVE Snapshots
  OBVIOUS
<1>1. /\ seen = {tree}
      /\ \A s \in Session : pipe[s] = <<>> /\ notified[s] = {}
  BY DEF Init
<1>2. \A s \in Session :
        /\ Told(pipe[s], notified[s], Len(pipe[s])) = {}
        /\ \A k \in 0 .. Len(pipe[s]) : Shows(pipe[s], notified[s], replica[s], k, seen)
  BY <1>1, ShowsNone
<1> QED BY <1>1, <1>2 DEF Snapshots

(* What a session is in sync with, when nothing is held back for it. *)
LEMMA SyncEnds ==
  ASSUME IInv, NEW s \in Session, st[s] # "zombie", DOMAIN xaction[s] = {}
  PROVE  \A p \in Path : (\E c \in cbPaths[s] : Covers(c, p)) => Ends(pipe[s], replica[s][p], p, tree[p])
<1>1. ASSUME NEW p \in Path, \E c \in cbPaths[s] : Covers(c, p)
      PROVE  Ends(pipe[s], replica[s][p], p, tree[p])
  <2>1. InSyncAt(s, p)
    BY InvUnfold
  <2>2. Settled(s, p)
    BY <1>1, <2>1 DEF InSyncAt, Watches
  <2> QED BY <2>2, SettledEnds
<1> QED BY <1>1

LEMMA SyncEndsNext ==
  ASSUME IInv', NEW s \in Session, st'[s] # "zombie", DOMAIN xaction'[s] = {}
  PROVE  \A p \in Path : (\E c \in cbPaths'[s] : Covers(c, p)) => Ends(pipe'[s], replica'[s][p], p, tree'[p])
<1>1. ASSUME NEW p \in Path, \E c \in cbPaths'[s] : Covers(c, p)
      PROVE  Ends(pipe'[s], replica'[s][p], p, tree'[p])
  <2>1. (s \in Registered(p))'
    BY <1>1 DEF Registered
  <2>2. Settled(s, p)'
    BY <2>1 DEF IInv, InSync
  <2> QED BY <2>2, SettledEndsNext
<1> QED BY <1>1

(* The messages that are appended to what a session is sent. *)
LEMMA SnapshotsSent ==
  ASSUME IInv, IInv', Snapshots, NEW s \in Session, NEW w \in Seq(Msg),
         st[s] # "zombie", st'[s] # "zombie", cbPaths[s] \subseteq cbPaths'[s],
         pipe'[s] = pipe[s] \o w, replica'[s] = replica[s], notified'[s] = notified[s],
         seen \subseteq seen', tree' \in seen',
         DOMAIN xaction'[s] = {},
         Len(w) = 1 \/ (tree' = tree /\ DOMAIN xaction[s] = {}),
         \A j \in DOMAIN w :
           /\ w[j].subs \subseteq cbPaths'[s]
           /\ j # Len(w) => w[j].subs = {} /\ \A p \in DOMAIN w[j].upd : w[j].upd[p] = tree'[p]
  PROVE  /\ Told(pipe'[s], notified'[s], Len(pipe'[s])) \subseteq cbPaths'[s]
         /\ \A k \in 0 .. Len(pipe'[s]) : Shows(pipe'[s], notified'[s], replica'[s], k, seen')
<1> DEFINE q == pipe[s]
           z == pipe'[s]
           n == notified[s]
           r == replica[s]
           d == tree'
           S == seen
           T == seen'
<1>1. /\ q \in Seq(Msg) /\ Len(q) \in Nat /\ Len(w) \in Nat /\ DOMAIN w = 1 .. Len(w)
      /\ z = q \o w /\ Len(z) = Len(q) + Len(w) /\ z \in Seq(Msg)
      /\ \A i \in 1 .. Len(q) : z[i] = q[i]
      /\ \A i \in 1 .. Len(z) : i \notin 1 .. Len(q) =>
           i - Len(q) \in 1 .. Len(w) /\ z[i] = w[i - Len(q)]
  <2>1. q \in Seq(Msg)
    BY InvUnfold DEF SendingOK
  <2> HIDE DEF q
  <2>2. z = q \o w
    BY DEF q
  <2> HIDE DEF z
  <2> QED BY <2>1, <2>2
<1>2. /\ Told(q, n, Len(q)) \subseteq cbPaths[s]
      /\ \A k \in 0 .. Len(q) : Shows(q, n, r, k, S)
  BY DEF Snapshots
<1>3. Told(z, n, Len(z)) \subseteq cbPaths'[s]
  <2>1. ASSUME NEW i \in 1 .. Len(z), NEW c \in z[i].subs PROVE c \in cbPaths'[s]
    <3>1. CASE i \in 1 .. Len(q)
      BY <1>1, <1>2, <2>1, <3>1 DEF Told
    <3>2. CASE i \notin 1 .. Len(q)
      BY <1>1, <2>1, <3>2
    <3> QED BY <3>1, <3>2
  <2> QED BY <1>2, <2>1 DEF Told
<1>4. \A p \in Path : (\E c \in cbPaths'[s] : Covers(c, p)) => Ends(z, r[p], p, d[p])
  BY SyncEndsNext
<1>5. ASSUME NEW k \in 0 .. Len(z) PROVE Shows(z, n, r, k, T)
  <2>1. CASE k = Len(z)
    <3>1. \A p \in Path : (\E c \in Told(z, n, Len(z)) : Covers(c, p)) => Ends(z, r[p], p, d[p])
      BY <1>3, <1>4
    <3> HIDE DEF q, z, n, r, d, T
    <3>2. d \in T
      BY DEF d, T
    <3> QED BY <1>1, <2>1, <3>1, <3>2, ShowsLast
  <2>2. CASE k \in 0 .. Len(q)
    <3>1. S \subseteq T
      OBVIOUS
    <3> HIDE DEF q, z, n, r, d, S, T
    <3> QED BY <1>1, <1>2, <2>2, <3>1, ShowsConcat
  <2>3. CASE k # Len(z) /\ k \notin 0 .. Len(q)
    <3>1. k \in Len(q) .. Len(q) + Len(w) /\ Len(w) # 1
      BY <1>1, <2>3
    <3>2. d = tree /\ DOMAIN xaction[s] = {}
      BY <3>1
    <3>3. \A p \in Path : (\E c \in cbPaths[s] : Covers(c, p)) => Ends(q, r[p], p, d[p])
      BY <3>2, SyncEnds
    <3>4. \A j \in 1 .. k - Len(q) : j \in DOMAIN w /\ j # Len(w)
      <4>1. /\ Len(q) \in Nat /\ Len(w) \in Nat /\ Len(z) = Len(q) + Len(w)
            /\ DOMAIN w = 1 .. Len(w)
            /\ k \in Int /\ Len(q) <= k /\ k <= Len(q) + Len(w) /\ k # Len(q) + Len(w)
        BY <1>1, <2>3, <3>1
      <4>2. ASSUME NEW a \in Nat, NEW b \in Nat, k \in Int, a <= k, k <= a + b, k # a + b,
                   NEW j \in 1 .. k - a
            PROVE  j \in 1 .. b /\ j # b
        BY <4>2
      <4> QED BY <4>1, <4>2
    <3>5. \A j \in 1 .. k - Len(q) :
            w[j].subs = {} /\ \A p \in DOMAIN w[j].upd : w[j].upd[p] = d[p]
      BY <3>4
    <3>6. \A p \in Path : (\E c \in Told(q, n, Len(q)) : Covers(c, p)) => Ends(q, r[p], p, d[p])
      BY <1>2, <3>3
    <3> HIDE DEF q, z, n, r, d, T
    <3>7. d \in T
      BY DEF d, T
    <3> QED BY <1>1, <3>1, <3>5, <3>6, <3>7, ShowsBetween
  <2> QED BY <2>1, <2>2, <2>3
<1> QED BY <1>3, <1>5

LEMMA SnapshotsStep ==
  ASSUME IInv, PInv, Snapshots, [Next]_vars
  PROVE  Snapshots'
<1>1. /\ SendingOK /\ HoldingOK /\ DodUser /\ IInv'
  BY InvUnfold, InvStep DEF PInv
<1>2. seen \subseteq seen' /\ tree' \in seen'
  <2>1. seen' = seen \cup {tree'} \/ UNCHANGED <<tree, seen>>
    BY <1>1, StepMoves
  <2> QED BY <2>1 DEF Snapshots
<1>3. ASSUME NEW s \in Session, st'[s] # "zombie"
      PROVE  /\ Told(pipe'[s], notified'[s], Len(pipe'[s])) \subseteq cbPaths'[s]
             /\ \A k \in 0 .. Len(pipe'[s]) : Shows(pipe'[s], notified'[s], replica'[s], k, seen')
  <2> DEFINE Goal ==
               /\ Told(pipe'[s], notified'[s], Len(pipe'[s])) \subseteq cbPaths'[s]
               /\ \A k \in 0 .. Len(pipe'[s]) : Shows(pipe'[s], notified'[s], replica'[s], k, seen')
  <2>1. Moves(s) /\ (Cleared(s) \/ (st[s] # "zombie" /\ cbPaths[s] \subseteq cbPaths'[s]))
    BY <1>1, <1>3, StepMoves
  <2>2. pipe[s] \in Seq(Msg) /\ xaction[s] \in Update
    BY <1>1 DEF SendingOK, HoldingOK
  <2>3. CASE Cleared(s)
    <3>1. pipe'[s] = <<>> /\ notified'[s] = {}
      BY <2>3 DEF Cleared
    <3> QED BY <1>2, <3>1, ShowsNone
  <2> SUFFICES ASSUME ~Cleared(s) PROVE Goal
    BY <2>3
  <2>a. st[s] # "zombie" /\ cbPaths[s] \subseteq cbPaths'[s]
    BY <2>1
  <2>b. /\ Told(pipe[s], notified[s], Len(pipe[s])) \subseteq cbPaths[s]
        /\ \A k \in 0 .. Len(pipe[s]) : Shows(pipe[s], notified[s], replica[s], k, seen)
    BY <2>a DEF Snapshots
  <2>4. CASE Kept(s)
    <3>1. pipe'[s] = pipe[s] /\ replica'[s] = replica[s] /\ notified'[s] = notified[s]
      BY <2>4 DEF Kept
    <3> QED BY <1>2, <2>a, <2>b, <3>1 DEF Shows
  <2>5. ASSUME NEW w, Sent(s, w) PROVE Goal
    <3>1. /\ w \in Seq(Msg) /\ pipe'[s] = pipe[s] \o w
          /\ replica'[s] = replica[s] /\ notified'[s] = notified[s]
          /\ DOMAIN xaction[s] = {} /\ DOMAIN xaction'[s] = {}
          /\ Len(w) = 1 \/ tree' = tree
          /\ \A j \in DOMAIN w :
               /\ \A p \in DOMAIN w[j].upd : w[j].upd[p] = tree'[p]
               /\ w[j].subs \subseteq cbPaths'[s] /\ (j # Len(w) => w[j].subs = {})
      BY <1>3, <2>5 DEF Sent
    <3> QED BY <1>1, <1>2, <1>3, <2>a, <3>1, SnapshotsSent
  <2>6. CASE Flushed(s)
    <3> DEFINE m == TransactionMsg(xaction[s])
               w == <<m>>
    <3>1. m \in Msg /\ m.subs = {}
      BY <2>2, TransactionMsgType DEF TransactionMsg
    <3>2. /\ pipe'[s] = Append(pipe[s], m)
          /\ replica'[s] = replica[s] /\ notified'[s] = notified[s]
          /\ DOMAIN xaction'[s] = {}
      BY <2>6 DEF Flushed
    <3> HIDE DEF m
    <3>3. w \in Seq(Msg) /\ Len(w) = 1 /\ DOMAIN w = {1} /\ w[1] = m
          /\ pipe'[s] = pipe[s] \o w
      BY <2>2, <3>1, <3>2
    <3> HIDE DEF w
    <3>4. \A j \in DOMAIN w : w[j].subs \subseteq cbPaths'[s] /\ j = Len(w)
      BY <3>1, <3>3
    <3> QED BY <1>1, <1>2, <1>3, <2>a, <3>2, <3>3, <3>4, SnapshotsSent
  <2>7. CASE Received(s)
    <3> DEFINE q == pipe[s]
               n == notified[s]
               f == replica[s]
    <3>1. /\ q # <<>> /\ pipe'[s] = Tail(q)
          /\ replica'[s] = Apply(Head(q).upd, f)
          /\ notified'[s] = n \cup Head(q).subs
      BY <2>7 DEF Received
    <3>2. q \in Seq(Msg) /\ \A k \in 0 .. Len(q) : Shows(q, n, f, k, seen)
      BY <2>2, <2>b
    <3> HIDE DEF q
    <3>3. /\ Len(q) \in Nat /\ Len(q) > 0 /\ Len(Tail(q)) = Len(q) - 1
          /\ \A k \in 0 .. Len(q) - 1 : k + 1 \in 0 .. Len(q)
          /\ Len(q) - 1 \in 0 .. Len(q) - 1 /\ (Len(q) - 1) + 1 = Len(q)
      BY <3>1, <3>2
    <3> HIDE DEF n, f
    <3>4. \A k \in 0 .. Len(q) - 1 :
            /\ Told(Tail(q), n \cup Head(q).subs, k) = Told(q, n, k + 1)
            /\ Shows(Tail(q), n \cup Head(q).subs, Apply(Head(q).upd, f), k, seen)
      BY <3>1, <3>2, <3>3, ShowsTail
    <3>5. Told(Tail(q), n \cup Head(q).subs, Len(q) - 1) = Told(q, n, Len(q))
      BY <3>3, <3>4
    <3>6. Told(q, n, Len(q)) \subseteq cbPaths'[s]
      BY <2>a, <2>b DEF q, n
    <3>7. \A k \in 0 .. Len(q) - 1 :
            Shows(Tail(q), n \cup Head(q).subs, Apply(Head(q).upd, f), k, seen')
      BY <1>2, <3>4 DEF Shows
    <3> QED BY <3>1, <3>3, <3>5, <3>6, <3>7
  <2> HIDE DEF Goal
  <2> QED BY <2>1, <2>4, <2>5, <2>6, <2>7 DEF Moves
<1> QED BY <1>2, <1>3 DEF Snapshots

(* The objects a client knows to be complete are, all together, what the tree    *)
(* held at one moment: transactions are not torn apart, objects do not overtake  *)
(* each other, and a subscription's end comes after its objects                  *)
(* (ObexServer.cpp:89-178, 250-257 and 316-328).                                 *)
THEOREM SnapshotCorrect == Spec => []SnapshotConsistent
<1>1. Init => Snapshots
  BY SnapshotsInit
<1>2. IInv /\ PInv /\ Snapshots /\ [Next]_vars => Snapshots'
  BY SnapshotsStep
<1>3. ASSUME IInv, Snapshots, NEW s \in Session, st[s] = "up"
      PROVE  \E h \in seen : \A p \in Path :
               (\E c \in notified[s] : Covers(c, p)) => Same(replica[s][p], h[p])
  <2>1. pipe[s] \in Seq(Msg)
    BY <1>3, InvUnfold DEF SendingOK
  <2>2. 0 \in 0 .. Len(pipe[s])
    BY <2>1
  <2>3. Shows(pipe[s], notified[s], replica[s], 0, seen)
    BY <1>3, <2>2 DEF Snapshots
  <2>4. Told(pipe[s], notified[s], 0) = notified[s]
    BY DEF Told
  <2>5. \A p \in Path : \A d : Upto(pipe[s], 0, replica[s][p], p, d) => Same(replica[s][p], d)
    BY DEF Upto
  <2> QED BY <2>3, <2>4, <2>5 DEF Shows
<1>4. IInv /\ Snapshots => SnapshotConsistent
  BY <1>3 DEF SnapshotConsistent
<1> QED BY <1>1, <1>2, <1>4, PresenceInvariant, PTL DEF Spec

-----------------------------------------------------------------------------
(* Objects put with the dod option, when clients put no value that is there. *)

LEMMA RecordDodEffect ==
  ASSUME RecordsOK, NEW s \in Session, NEW P \in SUBSET Path, RecordDod(s, P)
  PROVE  /\ \A q \in P : Present(q)' /\ tree'[q].op = clock + 1 =>
              q \in DOMAIN dodMap'[s] /\ dodMap'[s][q] = clock + 1
         /\ \A t \in Session, q \in Path :
              /\ q \notin P /\ q \in DOMAIN dodMap[t] /\ Present(q)' /\ tree'[q].op = dodMap[t][q] =>
                   q \in DOMAIN dodMap'[t]
              /\ q \in DOMAIN dodMap'[t] =>
                   \/ t = s /\ q \in P /\ dodMap'[t][q] = clock + 1
                   \/ /\ t = s => q \notin P
                      /\ q \in DOMAIN dodMap[t] /\ dodMap'[t][q] = dodMap[t][q]
<1> DEFINE g == [p \in P |-> clock + 1]
           f == Join(dodMap[s], g)
           alive == P \cup {p \in DOMAIN f : \E n \in {f[p]} : Held(p, n)'}
<1>1. CASE P = {}
  <2>1. dodMap' = dodMap
    BY <1>1 DEF RecordDod
  <2> QED BY <1>1, <2>1
<1>2. CASE P # {}
  <2>1. dodMap' = [dodMap EXCEPT ![s] = [p \in alive |-> f[p]]]
    BY <1>2 DEF RecordDod
  <2>2. /\ DOMAIN f = DOMAIN dodMap[s] \cup P
        /\ \A p \in P : f[p] = clock + 1
        /\ \A p \in DOMAIN dodMap[s] \ P : f[p] = dodMap[s][p]
    BY DEF Join
  <2>3. \A p \in DOMAIN f : Present(p)' /\ tree'[p].op = f[p] => p \in alive
    BY DEF Held, Present
  <2>4. alive \subseteq DOMAIN f
    BY <2>2
  <2> HIDE DEF f, alive
  <2>5. \A t \in Session : dodMap'[t] = IF t = s THEN [p \in alive |-> f[p]] ELSE dodMap[t]
    BY <2>1 DEF RecordsOK
  <2>6. DOMAIN dodMap'[s] = alive /\ \A p \in alive : dodMap'[s][p] = f[p]
    BY <2>5
  <2> QED BY <2>2, <2>3, <2>4, <2>5, <2>6
<1> QED BY <1>1, <1>2

(* Objects are put at Q, and of these at P with the option. *)
LEMMA RecordedPut ==
  ASSUME RecordsOK, Recorded, NEW s \in Session, NEW P \in SUBSET Path, NEW Q \in SUBSET Path,
         P \subseteq Q, RecordDod(s, P), st[s] \in {"up", "zombie"},
         \A p \in Path : dodBy'[p] = IF p \notin Q THEN dodBy[p] ELSE IF p \in P THEN s ELSE NoSession,
         \A p \in P : tree'[p].op = clock + 1,
         \A p \in Path \ Q : tree'[p] = tree[p] \/ ~Present(p)',
         \A t \in Session : Stays(t) \/ Falls(t)
  PROVE  Recorded'
<1>1. \A t \in Session : st[t] \in {"up", "zombie"} => st'[t] \in {"up", "zombie"}
  BY DEF Stays, Falls
<1>2. ASSUME NEW p \in Path, Present(p)', dodBy'[p] # NoSession
      PROVE  /\ st'[dodBy'[p]] \in {"up", "zombie"}
             /\ p \in DOMAIN dodMap'[dodBy'[p]]
             /\ dodMap'[dodBy'[p]][p] = tree'[p].op
  <2>1. CASE p \in Q
    <3>1. p \in P /\ dodBy'[p] = s
      BY <1>2, <2>1
    <3>2. p \in DOMAIN dodMap'[s] /\ dodMap'[s][p] = clock + 1
      BY <1>2, <3>1, RecordDodEffect
    <3> QED BY <1>1, <3>1, <3>2
  <2>2. CASE p \notin Q
    <3>1. tree'[p] = tree[p] /\ dodBy'[p] = dodBy[p] /\ Present(p) /\ p \notin P
      BY <1>2, <2>2 DEF Present
    <3>2. /\ st[dodBy[p]] \in {"up", "zombie"} /\ dodBy[p] \in Session
          /\ p \in DOMAIN dodMap[dodBy[p]] /\ dodMap[dodBy[p]][p] = tree[p].op
      BY <1>2, <3>1 DEF Recorded, RecordsOK
    <3>3. p \in DOMAIN dodMap'[dodBy[p]] /\ dodMap'[dodBy[p]][p] = dodMap[dodBy[p]][p]
      BY <1>2, <3>1, <3>2, RecordDodEffect
    <3> QED BY <1>1, <3>1, <3>2, <3>3
  <2> QED BY <2>1, <2>2
<1> QED BY <1>2 DEF Recorded

LEMMA RecordedInit == Init => Recorded
BY DEF Init, Recorded, Present, Empty

LEMMA RecordedStep ==
  ASSUME ~EqualPuts, IInv, PInv, Recorded, [Next]_vars
  PROVE  Recorded'
<1>0. SendingOK /\ RecordsOK /\ TreeOK /\ ControlOK /\ DodUser /\ OnlyUp /\ Doomed
  BY InvUnfold DEF PInv
<1>a. ASSUME UNCHANGED <<dodMap, dodBy>>,
             \A p \in UserPath : tree'[p] = tree[p] \/ ~Present(p)',
             \A t \in Session : st[t] \in {"up", "zombie"} => st'[t] \in {"up", "zombie"}
      PROVE  Recorded'
  <2>1. ASSUME NEW p \in Path, Present(p)', dodBy'[p] # NoSession
        PROVE  /\ st'[dodBy'[p]] \in {"up", "zombie"}
               /\ p \in DOMAIN dodMap'[dodBy'[p]]
               /\ dodMap'[dodBy'[p]][p] = tree'[p].op
    <3>1. p \in UserPath /\ dodBy[p] \in Session
      BY <1>0, <1>a, <2>1 DEF DodUser, RecordsOK
    <3>2. tree'[p] = tree[p] /\ Present(p)
      BY <1>a, <2>1, <3>1 DEF Present
    <3> QED BY <1>a, <2>1, <3>1, <3>2 DEF Recorded
  <2> QED BY <2>1 DEF Recorded
<1>b. ASSUME UNCHANGED <<dodMap, dodBy, tree>>, \A t \in Session : Stays(t) \/ Falls(t)
      PROVE  Recorded'
  BY <1>a, <1>b DEF Stays, Falls
<1>1. ASSUME UNCHANGED <<st, tree, dodMap, dodBy>> PROVE Recorded'
  BY <1>a, <1>1
<1>2. ASSUME FinishTransaction PROVE Recorded'
  <2>1. \A t \in Session : Stays(t) \/ Falls(t)
    BY <1>2, FlushEffect
  <2> QED BY <1>b, <1>2, <2>1 DEF FinishTransaction
<1>3. ASSUME EndTransaction PROVE Recorded'
  BY <1>1, <1>3 DEF EndTransaction, sending
<1>4. ASSUME NEW s \in Session, EndHandler(s) PROVE Recorded'
  <2>1. \A t \in Session : st[t] \in {"up", "zombie"} => st'[t] \in {"up", "zombie"}
    BY <1>0, <1>4 DEF EndHandler, SendingOK
  <2> QED BY <1>a, <1>4, <2>1 DEF EndHandler
<1>5. ASSUME NEW s \in Session, Destroyed(s) PROVE Recorded'
  <2>1. /\ \A p \in DodPaths(s) : ~Present(p)
        /\ UNCHANGED <<tree, dodBy>>
        /\ \A t \in Session : t # s => st'[t] = st[t] /\ dodMap'[t] = dodMap[t]
    BY <1>0, <1>5 DEF Destroyed, SendingOK, RecordsOK
  <2>2. ASSUME NEW p \in Path, Present(p), dodBy[p] = s PROVE FALSE
    <3>1. p \in DOMAIN dodMap[s] /\ dodMap[s][p] = tree[p].op
      BY <2>2, SessionAssumption DEF Recorded
    <3>2. p \in DodPaths(s)
      BY <2>2, <3>1 DEF DodPaths, Held
    <3> QED BY <2>1, <2>2, <3>2
  <2>3. ASSUME NEW p \in Path, Present(p)', dodBy'[p] # NoSession
        PROVE  /\ st'[dodBy'[p]] \in {"up", "zombie"}
               /\ p \in DOMAIN dodMap'[dodBy'[p]]
               /\ dodMap'[dodBy'[p]][p] = tree'[p].op
    <3>1. Present(p) /\ dodBy'[p] = dodBy[p] /\ tree'[p] = tree[p] /\ dodBy[p] \in Session
      BY <1>0, <2>1, <2>3 DEF Present, RecordsOK
    <3>2. dodBy[p] # s
      BY <2>2, <3>1
    <3> QED BY <2>1, <2>3, <3>1, <3>2 DEF Recorded
  <2> QED BY <2>3 DEF Recorded
<1>6. ASSUME NEW s \in Session, Greet(s) \/ DeleteSessionPath(s) \/ DeleteDod(s)
              \/ \E p \in UserPath : HandleDel(s, p)
      PROVE Recorded'
  <2>1. ObjectAction(s)
    BY <1>6 DEF ObjectAction
  <2>2. UNCHANGED <<dodMap, dodBy>>
    BY <1>6 DEF Greet, DeleteSessionPath, DeleteDod, HandleDel
  <2>3. \A t \in Session : Stays(t) \/ Falls(t)
    BY <1>0, <2>1, ObjectActionEffect
  <2>4. ASSUME NEW p \in UserPath PROVE tree'[p] = tree[p] \/ ~Present(p)'
    <3>0. UNCHANGED <<replica, notified, xInProgress>>
      BY <1>6 DEF Greet, DeleteSessionPath, DeleteDod, HandleDel
    <3>1. p \in Path /\ SessionPath(s) \in Path \ UserPath /\ UserPath \subseteq Path
      BY PathAssumption
    <3>2. ASSUME NEW q \in Path, TreeDel(q), Present(q) PROVE tree'[p] = tree[p] \/ ~Present(p)'
      <4>1. Deletes(q) /\ \A r \in Path : r # q => tree'[r] = tree[r]
        BY <3>0, <3>2, DelEffect
      <4>2. tree[q] \in Data
        BY <1>0 DEF TreeOK
      <4> QED BY <3>1, <4>1, <4>2 DEF Deletes, Present, Data
    <3>3. CASE Greet(s)
      <4>1. TreePut(SessionPath(s), Online, clock) /\ clock \in 0 .. MaxOps /\ clock' = clock
        BY <1>0, <3>3 DEF Greet, ControlOK
      <4>2. \A q \in Path : q # SessionPath(s) => tree'[q] = tree[q]
        BY <3>0, <3>1, <4>1, PutEffect
      <4> QED BY <3>1, <4>2
    <3>4. CASE DeleteSessionPath(s)
      BY <3>1, <3>2, <3>4 DEF DeleteSessionPath
    <3>5. CASE DeleteDod(s)
      <4>1. PICK q \in DodPaths(s) : Present(q) /\ TreeDel(q)
        BY <3>5 DEF DeleteDod
      <4>2. q \in Path
        BY <1>0, <3>1 DEF DodUser, DodPaths
      <4> QED BY <3>2, <4>1, <4>2
    <3>6. CASE \E q \in UserPath : HandleDel(s, q)
      BY <3>1, <3>2, <3>6 DEF HandleDel
    <3> QED BY <1>6, <3>3, <3>4, <3>5, <3>6
  <2> QED BY <1>a, <2>2, <2>3, <2>4 DEF Stays, Falls
<1>7. ASSUME NEW s \in Session, NEW p \in UserPath, NEW v \in Val, NEW dod \in DodOpt,
             HandlePut(s, p, v, dod)
      PROVE  Recorded'
  <2> DEFINE P == IF dod THEN {p} ELSE {}
             Q == {p}
  <2>1. /\ TreePut(p, v, clock + 1) /\ tree[p].val # v /\ RecordDod(s, P)
        /\ dodBy' = [dodBy EXCEPT ![p] = IF dod THEN s ELSE NoSession]
        /\ clock' = clock + 1 /\ st[s] \in {"up", "zombie"}
        /\ UNCHANGED <<replica, notified, xInProgress>>
    BY <1>7 DEF HandlePut, Begin, CanHandle
  <2>2. clock + 1 \in 0 .. MaxOps /\ p \in Path
    BY <1>0, <1>7, BeginType, PathAssumption DEF HandlePut, Begin
  <2>3. /\ tree'[p].val = v /\ (tree'[p] = tree[p] \/ Puts(p))
        /\ \A q \in Path : q # p => tree'[q] = tree[q]
        /\ \A t \in Session : Stays(t) \/ Falls(t)
    BY <2>1, <2>2, PutEffect
  <2>4. tree'[p].op = clock + 1
    BY <2>1, <2>3 DEF Puts
  <2>5. P \in SUBSET Path /\ Q \in SUBSET Path /\ P \subseteq Q /\ (p \in P <=> dod)
    BY <2>2
  <2>6. \A q \in Path : dodBy'[q] = IF q \notin Q THEN dodBy[q] ELSE IF q \in P THEN s ELSE NoSession
    BY <1>0, <2>1, <2>5 DEF RecordsOK
  <2>7. /\ \A q \in P : tree'[q].op = clock + 1
        /\ \A q \in Path \ Q : tree'[q] = tree[q]
    BY <2>3, <2>4
  <2> HIDE DEF P, Q
  <2> QED BY <1>0, <2>1, <2>3, <2>5, <2>6, <2>7, RecordedPut
<1>8. ASSUME NEW s \in Session, NEW x \in Xact, HandleTransaction(s, x) PROVE Recorded'
  <2> DEFINE puts == {p \in DOMAIN x : x[p].val # NoVal}
             P == {p \in puts : x[p].dod}
  <2>1. /\ RecordDod(s, P)
        /\ dodBy' = [p \in Path |-> IF p \notin puts THEN dodBy[p] ELSE IF x[p].dod THEN s ELSE NoSession]
        /\ clock' = clock + 1 /\ st[s] \in {"up", "zombie"}
        /\ \A p \in puts : x[p].val # tree[p].val
    BY <1>8 DEF HandleTransaction, Begin, CanHandle
  <2>2. puts \in SUBSET Path
    <3>1. PICK E \in SUBSET UserPath : x \in [E -> Element]
      BY XactAssumption
    <3> QED BY <3>1, PathAssumption
  <2>3. ASSUME NEW p \in Path
        PROVE  /\ p \in puts => tree'[p].op = clock + 1
               /\ p \notin puts => tree'[p] = tree[p] \/ ~Present(p)'
    <3>1. \/ p \notin DOMAIN x /\ tree'[p] = tree[p]
          \/ p \in DOMAIN x /\ x[p].val = tree[p].val /\ tree'[p] = tree[p]
          \/ /\ p \in DOMAIN x /\ p \in UserPath /\ x[p].val # tree[p].val
             /\ IF x[p].val = NoVal THEN Deletes(p) ELSE Puts(p)
      BY <1>8, TransactionEffect
    <3>2. tree[p] \in Data
      BY <1>0 DEF TreeOK
    <3> QED BY <2>1, <3>1, <3>2 DEF Puts, Deletes, Present, Data
  <2>4. \A t \in Session : Stays(t)
    BY <1>8, TransactionEffect
  <2>5. P \subseteq puts /\ \A p \in puts : p \in P <=> x[p].dod
    OBVIOUS
  <2> HIDE DEF puts, P
  <2>6. P \in SUBSET Path
    BY <2>2, <2>5
  <2>7. \A p \in Path : dodBy'[p] = IF p \notin puts THEN dodBy[p] ELSE IF p \in P THEN s ELSE NoSession
    BY <2>1, <2>5
  <2>8. \A p \in P : tree'[p].op = clock + 1
    BY <2>2, <2>3, <2>5
  <2> QED BY <1>0, <2>1, <2>2, <2>3, <2>4, <2>5, <2>6, <2>7, <2>8, RecordedPut
<1>9. ASSUME NEW s \in Session, Accept(s) PROVE Recorded'
  <2>1. \A t \in Session : st[t] \in {"up", "zombie"} => st'[t] \in {"up", "zombie"}
    BY <1>0, <1>9 DEF Accept, SendingOK
  <2> QED BY <1>a, <1>9, <2>1 DEF Accept
<1>10. ASSUME NEW s \in Session, NEW c \in CbPath, HandleSubscribe(s, c) PROVE Recorded'
  <2>1. \A t \in Session : Stays(t) \/ Falls(t)
    BY <1>10, SubscribeEffect
  <2> QED BY <1>b, <1>10, <2>1 DEF HandleSubscribe
<1>11. ASSUME NEW s \in Session, Disconnect(s) PROVE Recorded'
  <2>1. Disconnected({s}) /\ UNCHANGED <<tree, dodMap, dodBy>>
    BY <1>11 DEF Disconnect
  <2>2. \A t \in Session : st[t] \in {"up", "zombie"} => st'[t] \in {"up", "zombie"}
    BY <2>1 DEF Disconnected
  <2> QED BY <1>a, <2>1, <2>2
<1>12. ASSUME NEW s \in Session, HandleTx(s) \/ Tick(s) \/ Receive(s) PROVE Recorded'
  BY <1>1, <1>12 DEF HandleTx, Tick, Receive
<1>13. CASE UNCHANGED vars
  BY <1>1, <1>13 DEF vars
<1>14. CASE Next
  BY <1>2, <1>3, <1>4, <1>5, <1>6, <1>7, <1>8, <1>9, <1>10, <1>11, <1>12, <1>14
  DEF Next, Finish, Input
<1> QED BY <1>13, <1>14

(* An object put with the dod option goes with the session that put it, as long   *)
(* as no client puts a value that the tree already holds: then it keeps the old   *)
(* object, and the record of the new one expires (ObexServer.cpp:120-148,         *)
(* ObexTree.cpp:218-221).                                                         *)
THEOREM NoOrphanCorrect ==
  ASSUME ~EqualPuts
  PROVE  Spec => []NoOrphanDod
<1>1. Init => Recorded
  BY RecordedInit
<1>2. IInv /\ PInv /\ Recorded /\ [Next]_vars => Recorded'
  BY RecordedStep
<1>3. Recorded => NoOrphanDod
  BY DEF Recorded, NoOrphanDod
<1> QED BY <1>1, <1>2, <1>3, PresenceInvariant, PTL DEF Spec

-----------------------------------------------------------------------------
(* Objects deleted with a session, when transactions put none with the option. *)

PlainXacts == \A x \in Xact : \A p \in DOMAIN x : ~x[p].dod

(* A put with the option makes a record; no other step does, and a client's *)
(* object that it puts is one of a new operation.                           *)
Unrecorded ==
  /\ \A t \in Session, p \in Path : p \in DOMAIN dodMap'[t] =>
       p \in DOMAIN dodMap[t] /\ dodMap'[t][p] = dodMap[t][p]
  /\ \A p \in UserPath : Puts(p) => clock' = clock + 1
  /\ \A p \in Path : dodBy'[p] = dodBy[p] \/ Puts(p)

LEMMA DodStep ==
  ASSUME ~EqualPuts, PlainXacts, IInv, PInv, [Next]_vars
  PROVE  \/ Unrecorded
         \/ \E s \in Session, p \in UserPath, v \in Val, dod \in DodOpt : HandlePut(s, p, v, dod)
<1>0. RecordsOK /\ TreeOK /\ ControlOK /\ DodUser /\ Doomed
  BY InvUnfold DEF PInv
<1>a. ASSUME UNCHANGED <<dodMap, dodBy>>, \A p \in UserPath : ~Puts(p) PROVE Unrecorded
  BY <1>a DEF Unrecorded
<1>b. ASSUME UNCHANGED <<dodMap, dodBy, tree>> PROVE Unrecorded
  BY <1>a, <1>b DEF Puts
<1>1. ASSUME FinishTransaction \/ EndTransaction PROVE Unrecorded
  BY <1>b, <1>1 DEF FinishTransaction, EndTransaction
<1>2. ASSUME NEW s \in Session,
             EndHandler(s) \/ Accept(s) \/ HandleTx(s) \/ Tick(s) \/ Receive(s) \/ Disconnect(s)
      PROVE  Unrecorded
  BY <1>b, <1>2 DEF EndHandler, Accept, HandleTx, Tick, Receive, Disconnect
<1>3. ASSUME NEW s \in Session, Destroyed(s) PROVE Unrecorded
  <2>1. /\ dodMap' = [dodMap EXCEPT ![s] = [p \in {} |-> 0]]
        /\ UNCHANGED <<tree, dodBy>>
    BY <1>3 DEF Destroyed
  <2>2. \A t \in Session : IF t = s THEN DOMAIN dodMap'[t] = {} ELSE dodMap'[t] = dodMap[t]
    BY <1>0, <2>1 DEF RecordsOK
  <2>3. \A p \in Path : ~Puts(p)
    BY <2>1 DEF Puts
  <2>4. UserPath \subseteq Path
    BY PathAssumption
  <2> QED BY <2>1, <2>2, <2>3, <2>4 DEF Unrecorded
<1>4. ASSUME NEW s \in Session, Greet(s) PROVE Unrecorded
  <2>1. /\ TreePut(SessionPath(s), Online, clock) /\ clock \in 0 .. MaxOps /\ clock' = clock
        /\ UNCHANGED <<dodMap, dodBy, replica, notified, xInProgress>>
    BY <1>0, <1>4 DEF Greet, ControlOK
  <2>2. SessionPath(s) \in Path \ UserPath /\ UserPath \subseteq Path
    BY PathAssumption
  <2>3. \A q \in Path : q # SessionPath(s) => tree'[q] = tree[q]
    BY <2>1, <2>2, PutEffect
  <2>4. \A q \in UserPath : ~Puts(q)
    BY <2>2, <2>3 DEF Puts
  <2> QED BY <1>a, <2>1, <2>4
<1>5. ASSUME NEW p \in Path, Present(p), TreeDel(p),
             UNCHANGED <<dodMap, dodBy, replica, notified, xInProgress>>
      PROVE  Unrecorded
  <2>1. Deletes(p) /\ \A q \in Path : q # p => tree'[q] = tree[q]
    BY <1>5, DelEffect
  <2>2. tree[p] \in Data /\ UserPath \subseteq Path
    BY <1>0, PathAssumption DEF TreeOK
  <2>3. \A q \in UserPath : ~Puts(q)
    BY <2>1, <2>2 DEF Puts, Deletes, Data
  <2> QED BY <1>5, <1>a, <2>3
<1>6. ASSUME NEW s \in Session, DeleteSessionPath(s) PROVE Unrecorded
  BY <1>5, <1>6, PathAssumption DEF DeleteSessionPath
<1>7. ASSUME NEW s \in Session, DeleteDod(s) PROVE Unrecorded
  <2>1. PICK p \in DodPaths(s) : Present(p) /\ TreeDel(p)
    BY <1>7 DEF DeleteDod
  <2>2. p \in Path
    BY <1>0, PathAssumption DEF DodUser, DodPaths
  <2> QED BY <1>5, <1>7, <2>1, <2>2 DEF DeleteDod
<1>8. ASSUME NEW s \in Session, NEW p \in UserPath, HandleDel(s, p) PROVE Unrecorded
  BY <1>5, <1>8, PathAssumption DEF HandleDel
<1>9. ASSUME NEW s \in Session, NEW c \in CbPath, HandleSubscribe(s, c) PROVE Unrecorded
  BY <1>b, <1>9 DEF HandleSubscribe
<1>10. ASSUME NEW s \in Session, NEW x \in Xact, HandleTransaction(s, x) PROVE Unrecorded
  <2> DEFINE puts == {p \in DOMAIN x : x[p].val # NoVal}
  <2>1. /\ RecordDod(s, {p \in puts : x[p].dod})
        /\ dodBy' = [p \in Path |-> IF p \notin puts THEN dodBy[p] ELSE IF x[p].dod THEN s ELSE NoSession]
        /\ clock' = clock + 1 /\ \A p \in puts : x[p].val # tree[p].val
    BY <1>10 DEF HandleTransaction, Begin
  <2>2. {p \in puts : x[p].dod} = {}
    BY DEF PlainXacts
  <2>3. dodMap' = dodMap
    BY <2>1, <2>2 DEF RecordDod
  <2>4. ASSUME NEW p \in Path, p \in puts PROVE Puts(p)
    <3>1. p \in DOMAIN x /\ x[p].val # NoVal /\ x[p].val # tree[p].val
      BY <2>1, <2>4
    <3> QED BY <1>10, <3>1, TransactionEffect
  <2>5. \A p \in Path : dodBy'[p] = dodBy[p] \/ Puts(p)
    BY <2>1, <2>4
  <2> QED BY <2>1, <2>3, <2>5 DEF Unrecorded
<1>11. CASE UNCHANGED vars
  BY <1>b, <1>11 DEF vars
<1>12. CASE Next
  BY <1>1, <1>2, <1>3, <1>4, <1>6, <1>7, <1>8, <1>9, <1>10, <1>12 DEF Next, Finish, Input
<1> QED BY <1>11, <1>12

(* What is sent to a client, or received by it, is apart if what was is. *)
LEMMA ApartMoves ==
  ASSUME IInv, NEW t \in Session, Moves(t), NEW n, NEW p \in Path,
         Apart(n, p, xaction[t], pipe[t]),
         tree'[p] # tree[p] /\ tree'[p].val # NoVal /\ DOMAIN xaction'[t] # {} => tree'[p].op # n
  PROVE  Apart(n, p, xaction'[t], pipe'[t])
<1> DEFINE q == pipe[t]
           z == pipe'[t]
           x == xaction[t]
<1>1. q \in Seq(Msg) /\ x \in Update
  BY InvUnfold DEF SendingOK, HoldingOK
<1>2. ASSUME NEW w \in Seq(Msg), z = q \o w, DOMAIN xaction'[t] = {},
             \A i \in DOMAIN w : w[i].holds /\ p \in DOMAIN w[i].upd =>
               w[i].upd[p].val = NoVal \/ w[i].upd[p].op # n
      PROVE  Apart(n, p, xaction'[t], z)
  <2>1. /\ DOMAIN q = 1 .. Len(q) /\ DOMAIN w = 1 .. Len(w)
        /\ DOMAIN (q \o w) = 1 .. Len(q) + Len(w) /\ Len(q) \in Nat /\ Len(w) \in Nat
        /\ \A i \in 1 .. Len(q) : (q \o w)[i] = q[i]
        /\ \A i \in 1 .. Len(q) + Len(w) : i \notin 1 .. Len(q) =>
             i - Len(q) \in 1 .. Len(w) /\ (q \o w)[i] = w[i - Len(q)]
    <3> HIDE DEF q
    <3> QED BY <1>1
  <2>2. \A i \in DOMAIN z : (i \in DOMAIN q /\ z[i] = q[i]) \/ \E j \in DOMAIN w : z[i] = w[j]
    <3> HIDE DEF q, z
    <3> QED BY <1>2, <2>1
  <2> QED BY <1>2, <2>2 DEF Apart
<1>3. CASE Kept(t)
  BY <1>3 DEF Kept, Apart
<1>4. ASSUME NEW w, Sent(t, w) PROVE Apart(n, p, xaction'[t], z)
  <2>1. /\ w \in Seq(Msg) /\ z = q \o w /\ DOMAIN xaction'[t] = {}
        /\ \A i \in DOMAIN w : ~w[i].holds
    BY <1>4 DEF Sent
  <2> QED BY <1>2, <2>1
<1>5. CASE Flushed(t)
  <2> DEFINE m == TransactionMsg(x)
             w == <<m>>
  <2>1. m \in Msg /\ m.upd = x
    BY <1>1, TransactionMsgType DEF TransactionMsg
  <2>2. z = Append(q, m) /\ DOMAIN xaction'[t] = {}
    BY <1>5 DEF Flushed
  <2> HIDE DEF q, x, m, z
  <2>3. w \in Seq(Msg) /\ DOMAIN w = {1} /\ w[1] = m /\ z = q \o w
    BY <1>1, <2>1, <2>2
  <2> HIDE DEF w
  <2>4. p \in DOMAIN x => x[p].val = NoVal \/ x[p].op # n
    BY DEF Apart, x
  <2>5. \A i \in DOMAIN w : w[i].holds /\ p \in DOMAIN w[i].upd =>
          w[i].upd[p].val = NoVal \/ w[i].upd[p].op # n
    BY <2>1, <2>3, <2>4
  <2>6. Apart(n, p, xaction'[t], z)
    BY <1>2, <2>2, <2>3, <2>5
  <2> QED BY <2>6 DEF z
<1>6. CASE Received(t)
  <2>1. q # <<>> /\ z = Tail(q) /\ xaction'[t] = x
    BY <1>6 DEF Received
  <2>2. \A i \in DOMAIN Tail(q) : i + 1 \in DOMAIN q /\ Tail(q)[i] = q[i + 1]
    <3>1. q # <<>>
      BY <2>1
    <3> HIDE DEF q
    <3> QED BY <1>1, <3>1
  <2> QED BY <2>1, <2>2 DEF Apart
<1>7. CASE Cleared(t)
  BY <1>7 DEF Cleared, Apart
<1> QED BY <1>3, <1>4, <1>5, <1>6, <1>7 DEF Moves

LEMMA PlainInit == Init => Plain
<1> SUFFICES ASSUME Init, NEW s \in Session PROVE DOMAIN dodMap[s] = {}
  BY DEF Plain
<1> QED BY DEF Init

LEMMA PlainPut ==
  ASSUME ~EqualPuts, IInv, PInv, Stamped, Ordered, Plain, [Next]_vars,
         NEW r \in Session, NEW o \in UserPath, NEW v \in Val, NEW dod \in DodOpt,
         HandlePut(r, o, v, dod)
  PROVE  Plain'
<1> DEFINE P == IF dod THEN {o} ELSE {}
<1>0. /\ SendingOK /\ HoldingOK /\ TreeOK /\ RecordsOK /\ ControlOK /\ DodUser /\ Listed
      /\ UserPath \subseteq Path /\ o \in Path /\ P \in SUBSET Path
  BY InvUnfold, PathAssumption DEF PInv
<1>1. /\ TreePut(o, v, clock + 1) /\ tree[o].val # v /\ RecordDod(r, P)
      /\ dodBy' = [dodBy EXCEPT ![o] = IF dod THEN r ELSE NoSession]
      /\ clock' = clock + 1 /\ ~xInProgress
      /\ UNCHANGED <<replica, notified, xInProgress>>
  BY DEF HandlePut, Begin, CanHandle
<1>2. clock + 1 \in 0 .. MaxOps /\ clock \in Int
  BY <1>0, BeginType, BoundAssumption DEF HandlePut, ControlOK
<1>3. /\ tree'[o].val = v /\ (tree'[o] = tree[o] \/ Puts(o))
      /\ \A q \in Path : q # o => tree'[q] = tree[q]
  BY <1>0, <1>1, <1>2, PutEffect
<1>4. tree'[o].op = clock + 1
  BY <1>1, <1>3 DEF Puts
<1>5. \A t \in Session : DOMAIN xaction[t] = {} /\ DOMAIN xaction'[t] = {} /\ Moves(t)
  <2>1. Listed'
    BY InvStep DEF IInv
  <2> QED BY <1>0, <1>1, <2>1, StepMoves DEF Listed
<1>6. ASSUME NEW t \in Session, NEW p \in Path, NEW n, Apart(n, p, xaction[t], pipe[t])
      PROVE  Apart(n, p, xaction'[t], pipe'[t])
  BY <1>5, <1>6, ApartMoves
<1>7. ASSUME NEW t \in Session, NEW p \in Path PROVE Apart(clock + 1, p, xaction[t], pipe[t])
  <2>1. ASSUME NEW i \in DOMAIN pipe[t], p \in DOMAIN pipe[t][i].upd
        PROVE  pipe[t][i].upd[p].op # clock + 1
    <3>1. Ageing(pipe[t], replica[t][p], xaction[t], tree[p], p)
      BY DEF Ordered
    <3>2. Older(pipe[t][i].upd[p], tree[p])
      BY <2>1, <3>1 DEF Ageing
    <3>3. pipe[t] \in Seq(Msg) /\ tree[p] \in Data
      BY <1>0 DEF SendingOK, TreeOK
    <3>4. pipe[t][i].upd[p] \in Data
      BY <2>1, <3>3, QueueData
    <3>5. pipe[t][i].upd[p].op \in Int /\ tree[p].op \in Int
      BY <3>3, <3>4, BoundAssumption DEF Data
    <3>6. tree[p].op <= clock
      BY DEF Stamped
    <3> QED BY <1>2, <3>2, <3>5, <3>6 DEF Older
  <2> QED BY <1>5, <2>1 DEF Apart
<1>8. ASSUME NEW s \in Session, NEW p \in UserPath, p \in DOMAIN dodMap'[s]
      PROVE  /\ dodMap'[s][p] <= clock'
             /\ dodMap'[s][p] = tree'[p].op /\ Present(p)' => dodBy'[p] = s
             /\ \A t \in Session : Apart(dodMap'[s][p], p, xaction'[t], pipe'[t])
  <2>1. p \in Path
    BY <1>0
  <2>2. CASE s = r /\ p \in P /\ dodMap'[s][p] = clock + 1
    <3>1. dodBy'[p] = s
      BY <1>0, <1>1, <2>2 DEF RecordsOK
    <3>2. dodMap'[s][p] <= clock'
      BY <1>1, <1>2, <2>2
    <3>3. \A t \in Session : Apart(clock + 1, p, xaction'[t], pipe'[t])
      BY <1>6, <1>7, <2>1
    <3> QED BY <2>2, <3>1, <3>2, <3>3
  <2>3. CASE /\ s = r => p \notin P
             /\ p \in DOMAIN dodMap[s] /\ dodMap'[s][p] = dodMap[s][p]
    <3>1. /\ dodMap[s][p] <= clock
          /\ dodMap[s][p] = tree[p].op /\ Present(p) => dodBy[p] = s
          /\ \A t \in Session : Apart(dodMap[s][p], p, xaction[t], pipe[t])
      BY <2>3 DEF Plain
    <3>2. dodMap[s][p] \in Int
      <4>1. dodMap[s] \in Batch(1 .. MaxOps)
        BY <1>0 DEF RecordsOK
      <4> QED BY <2>3, <4>1, BoundAssumption DEF Batch
    <3>3. p = o => dodMap[s][p] # tree'[p].op
      BY <1>2, <1>4, <3>1, <3>2
    <3>4. p # o => tree'[p] = tree[p] /\ dodBy'[p] = dodBy[p]
      BY <1>0, <1>1, <1>3, <2>1 DEF RecordsOK
    <3>5. dodMap'[s][p] <= clock'
      BY <1>1, <1>2, <2>3, <3>1, <3>2
    <3>6. dodMap'[s][p] = tree'[p].op /\ Present(p)' => dodBy'[p] = s
      BY <2>3, <3>1, <3>3, <3>4 DEF Present
    <3>7. \A t \in Session : Apart(dodMap'[s][p], p, xaction'[t], pipe'[t])
      BY <1>6, <2>1, <2>3, <3>1
    <3> QED BY <3>5, <3>6, <3>7
  <2> QED BY <1>0, <1>1, <1>8, <2>1, <2>2, <2>3, RecordDodEffect
<1> QED BY <1>8 DEF Plain

LEMMA PlainStep ==
  ASSUME ~EqualPuts, PlainXacts, IInv, PInv, Stamped, Ordered, Plain, [Next]_vars
  PROVE  Plain'
<1>1. CASE Unrecorded
  <2>0. /\ TreeOK /\ RecordsOK /\ ControlOK /\ DodUser /\ UserPath \subseteq Path
    BY InvUnfold, PathAssumption DEF PInv
  <2>1. ASSUME NEW s \in Session, NEW p \in UserPath, p \in DOMAIN dodMap'[s]
        PROVE  /\ dodMap'[s][p] <= clock'
               /\ dodMap'[s][p] = tree'[p].op /\ Present(p)' => dodBy'[p] = s
               /\ \A t \in Session : Apart(dodMap'[s][p], p, xaction'[t], pipe'[t])
    <3> DEFINE n == dodMap[s][p]
    <3>1. p \in Path /\ p \in DOMAIN dodMap[s] /\ dodMap'[s][p] = n
      BY <1>1, <2>0, <2>1 DEF Unrecorded
    <3>2. /\ n <= clock
          /\ n = tree[p].op /\ Present(p) => dodBy[p] = s
          /\ \A t \in Session : Apart(n, p, xaction[t], pipe[t])
      BY <3>1 DEF Plain
    <3>3. n \in Int /\ clock \in Int /\ clock' \in Int /\ clock <= clock'
      <4>1. dodMap[s] \in Batch(1 .. MaxOps)
        BY <2>0 DEF RecordsOK
      <4>2. TypeOK'
        BY TypeStep DEF IInv
      <4>3. clock <= clock'
        BY ClockEffect
      <4>4. clock \in 0 .. MaxOps /\ clock' \in 0 .. MaxOps
        BY <2>0, <4>2 DEF ControlOK, TypeOK
      <4> QED BY <3>1, <4>1, <4>3, <4>4, BoundAssumption DEF Batch
    <3>4. tree'[p] = tree[p] \/ Puts(p) \/ Deletes(p)
      BY <2>0, <3>1, StepMoves
    <3> HIDE DEF n
    <3>5. Puts(p) => tree'[p].op = clock + 1 /\ clock + 1 # n
      BY <1>1, <3>2, <3>3 DEF Unrecorded, Puts
    <3>6. Deletes(p) => tree'[p].val = NoVal
      <4>1. tree[p] \in Data
        BY <2>0, <3>1 DEF TreeOK
      <4> QED BY <4>1 DEF Deletes, Data
    <3>7. n <= clock'
      BY <3>2, <3>3
    <3>8. n = tree'[p].op /\ Present(p)' => dodBy'[p] = s
      <4>1. SUFFICES ASSUME n = tree'[p].op, Present(p)' PROVE dodBy'[p] = s
        OBVIOUS
      <4>2. tree'[p] = tree[p]
        BY <3>4, <3>5, <3>6, <4>1 DEF Present
      <4>3. dodBy'[p] = dodBy[p]
        BY <1>1, <3>1, <4>2 DEF Unrecorded, Puts
      <4> QED BY <3>2, <4>1, <4>2, <4>3 DEF Present
    <3>9. ASSUME NEW t \in Session PROVE Apart(n, p, xaction'[t], pipe'[t])
      <4>1. tree'[p] # tree[p] /\ tree'[p].val # NoVal => tree'[p].op # n
        BY <3>4, <3>5, <3>6
      <4>2. Moves(t) /\ Apart(n, p, xaction[t], pipe[t])
        BY <2>0, <3>2, StepMoves
      <4> QED BY <3>1, <4>1, <4>2, ApartMoves
    <3> QED BY <3>1, <3>7, <3>8, <3>9
  <2> QED BY <2>1 DEF Plain
<1>2. CASE \E s \in Session, p \in UserPath, v \in Val, dod \in DodOpt : HandlePut(s, p, v, dod)
  BY <1>2, PlainPut
<1> QED BY <1>1, <1>2, DodStep

(* What a record names exists in the tree only as what its session put there. *)
LEMMA HeldOwn ==
  ASSUME IInv, DodUser, Plain, NEW s \in Session, NEW p \in DodPaths(s), Present(p)
  PROVE  dodBy[p] = s
<1>1. SendingOK /\ HoldingOK
  BY InvUnfold
<1>2. p \in DOMAIN dodMap[s] /\ p \in UserPath /\ Held(p, dodMap[s][p])
  BY DEF DodPaths, DodUser
<1>3. /\ dodMap[s][p] = tree[p].op /\ Present(p) => dodBy[p] = s
      /\ \A t \in Session : Apart(dodMap[s][p], p, xaction[t], pipe[t])
  BY <1>2 DEF Plain
<1>4. ASSUME NEW t \in Session, NEW i \in nser[t] + 1 .. Len(pipe[t]) PROVE i \in DOMAIN pipe[t]
  <2>1. pipe[t] \in Seq(Msg) /\ nser[t] \in Nat
    BY <1>1 DEF SendingOK
  <2> QED BY <2>1
<1> QED BY <1>2, <1>3, <1>4 DEF Held, Apart

(* Destroying a session deletes no object that was put since without the option *)
(* or by another session, as long as no client puts a value that is there and   *)
(* transactions do not use the option: the message of one that does keeps an    *)
(* overwritten object alive (ObexServer.cpp:47-55, MsgIo.h:111-121).            *)
THEOREM DodOnlyOwnCorrect ==
  ASSUME ~EqualPuts, PlainXacts
  PROVE  Spec => DodOnlyOwn
<1>1. ASSUME IInv, PInv, Plain, Next, NEW p \in UserPath,
             dying # <<>>, Present(p), tree'[p].val = NoVal
      PROVE  dodBy[p] = Head(dying)
  <2>1. DodUser /\ TreeOK /\ UserPath \subseteq Path /\ p \in Path
    BY <1>1, InvUnfold, PathAssumption DEF PInv
  <2>2. tree' # tree
    BY <1>1 DEF Present
  <2>3. PICK s \in Session : DeleteSessionPath(s) \/ DeleteDod(s)
    <3>1. ASSUME FinishTransaction \/ EndTransaction PROVE tree' = tree
      BY <3>1 DEF FinishTransaction, EndTransaction
    <3>2. ASSUME NEW s \in Session,
                 EndHandler(s) \/ Destroyed(s) \/ Disconnect(s) \/ HandleTx(s) \/ Tick(s) \/ Receive(s)
          PROVE  tree' = tree
      BY <3>2 DEF EndHandler, Destroyed, Disconnect, HandleTx, Tick, Receive
    <3>3. ASSUME NEW s \in Session, Greet(s) \/ Accept(s) \/ Begin(s) PROVE dying = <<>>
      BY <3>3 DEF Greet, Accept, Begin, CanHandle, Idle, NoneDying
    <3>4. ASSUME NEW s \in Session, NEW q \in UserPath,
                 (\E v \in Val, dod \in DodOpt : HandlePut(s, q, v, dod)) \/ HandleDel(s, q)
          PROVE  Begin(s)
      BY <3>4 DEF HandlePut, HandleDel
    <3>5. ASSUME NEW s \in Session, \/ \E c \in CbPath : HandleSubscribe(s, c)
                                    \/ \E x \in Xact : HandleTransaction(s, x)
          PROVE  Begin(s)
      BY <3>5 DEF HandleSubscribe, HandleTransaction
    <3> QED BY <1>1, <2>2, <3>1, <3>2, <3>3, <3>4, <3>5 DEF Next, Finish, Input
  <2>4. s = Head(dying) /\ UNCHANGED <<replica, notified, xInProgress>>
    BY <2>3 DEF DeleteSessionPath, DeleteDod, Destroying
  <2>5. CASE DeleteSessionPath(s)
    <3>1. SessionPath(s) \in Path \ UserPath
      BY PathAssumption
    <3>2. \A q \in Path : q # SessionPath(s) => tree'[q] = tree[q]
      BY <1>1, <2>4, <2>5, <3>1, DelEffect DEF DeleteSessionPath
    <3> QED BY <1>1, <2>1, <3>1, <3>2 DEF Present
  <2>6. CASE DeleteDod(s)
    <3>1. PICK q \in DodPaths(s) : Present(q) /\ TreeDel(q)
      BY <2>6 DEF DeleteDod
    <3>2. q \in Path
      BY <2>1 DEF DodUser, DodPaths
    <3>3. \A r \in Path : r # q => tree'[r] = tree[r]
      BY <1>1, <2>4, <3>1, <3>2, DelEffect
    <3>4. p = q
      BY <1>1, <2>1, <3>3 DEF Present
    <3> QED BY <1>1, <2>1, <2>4, <3>1, <3>4, HeldOwn
  <2> QED BY <2>3, <2>5, <2>6
<1>2. IInv /\ PInv /\ Plain /\ [Next]_vars =>
        [\A p \in UserPath : dying # <<>> /\ Present(p) /\ tree'[p].val = NoVal
           => dodBy[p] = Head(dying)]_vars
  BY <1>1
<1>3. Spec => [](Stamped /\ Ordered /\ Plain)
  <2>1. Init => Stamped /\ Ordered /\ Plain
    BY StampedInit, OrderedInit, PlainInit
  <2>2. IInv /\ PInv /\ Stamped /\ Ordered /\ Plain /\ [Next]_vars => Stamped' /\ Ordered' /\ Plain'
    BY StampedStep, OrderedStep, PlainStep
  <2> QED BY <2>1, <2>2, PresenceInvariant, PTL DEF Spec
<1> QED BY <1>2, <1>3, PresenceInvariant, PTL DEF Spec, DodOnlyOwn

=============================================================================
