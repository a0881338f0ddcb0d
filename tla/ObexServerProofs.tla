--------------------------- MODULE ObexServerProofs ---------------------------
(* Proofs about ObexServer. *)
EXTENDS ObexServer, FiniteSetTheorems, TLAPS

(* The sequences of a finite set are over the set, leave no element out and  *)
(* repeat none.                                                              *)
LEMMA OrderType ==
  ASSUME NEW L, IsFiniteSet(L), NEW order \in SetToSeqs(L)
  PROVE  /\ order \in Seq(L)
         /\ ToSet(order) = L
         /\ \A i, j \in DOMAIN order : order[i] = order[j] => i = j
<1> DEFINE D == 1 .. Cardinality(L)
<1>1. Cardinality(L) \in Nat
  BY FS_CardinalityType
<1>2. order \in [D -> L] /\ \A i, j \in D : i # j => order[i] # order[j]
  BY DEF SetToSeqs
<1>3. order \in Seq(L) /\ DOMAIN order = D
  BY <1>1, <1>2
<1>4. ASSUME NEW x \in L, \A i \in D : order[i] # x
      PROVE  FALSE
  <2>1. IsFiniteSet(L \ {x}) /\ Cardinality(L \ {x}) = Cardinality(L) - 1
    BY <1>4, FS_RemoveElement
  <2>2. IsFiniteSet(D) /\ Cardinality(D) = Cardinality(L)
    BY <1>1, FS_Interval
  <2>3. order \in [D -> L \ {x}]
    BY <1>2, <1>4
  <2>4. \E i, j \in D : i # j /\ order[i] = order[j]
    BY <1>1, <2>1, <2>2, <2>3, FS_PigeonHole
  <2> QED BY <1>2, <2>4
<1>5. ToSet(order) = {order[i] : i \in D}
  BY <1>3 DEF ToSet
<1> QED BY <1>2, <1>3, <1>4, <1>5

(* What an update is, and the updates the server sends. *)
LEMMA UpdateType ==
  ASSUME NEW u
  PROVE  u \in Update <=> u \in [DOMAIN u -> Data] /\ DOMAIN u \subseteq Path
BY DEF Update

LEMMA NoUpdateType == NoUpdate \in Update /\ DOMAIN NoUpdate = {}
BY DEF Update, NoUpdate

LEMMA OneType ==
  ASSUME NEW p \in Path, NEW d \in Data
  PROVE  One(p, d) \in Update /\ DOMAIN One(p, d) = {p} /\ One(p, d)[p] = d
<1>1. One(p, d) \in [{p} -> Data] /\ DOMAIN One(p, d) = {p} /\ One(p, d)[p] = d
  BY DEF One
<1> QED BY <1>1, UpdateType

LEMMA JoinType ==
  ASSUME NEW f \in Update, NEW g \in Update
  PROVE  /\ Join(f, g) \in Update
         /\ DOMAIN Join(f, g) = DOMAIN f \cup DOMAIN g
         /\ \A p \in DOMAIN g : Join(f, g)[p] = g[p]
         /\ \A p \in DOMAIN f \ DOMAIN g : Join(f, g)[p] = f[p]
<1>1. f \in [DOMAIN f -> Data] /\ DOMAIN f \subseteq Path
  BY UpdateType
<1>2. g \in [DOMAIN g -> Data] /\ DOMAIN g \subseteq Path
  BY UpdateType
<1>3. Join(f, g) \in [DOMAIN f \cup DOMAIN g -> Data]
  BY <1>1, <1>2 DEF Join
<1>4. DOMAIN f \cup DOMAIN g \in SUBSET Path
  BY <1>1, <1>2
<1> QED BY <1>3, <1>4 DEF Update, Join

LEMMA ApplyType ==
  ASSUME NEW u \in Update, NEW f \in [Path -> Data]
  PROVE  Apply(u, f) \in [Path -> Data]
<1>1. u \in [DOMAIN u -> Data] /\ DOMAIN u \subseteq Path
  BY UpdateType
<1> QED BY <1>1 DEF Apply

LEMMA PutMsgType ==
  ASSUME NEW p \in Path, NEW d \in Data
  PROVE  PutMsg(p, d) \in Msg
BY OneType DEF PutMsg, Msg

LEMMA TransactionMsgType ==
  ASSUME NEW u \in Update
  PROVE  TransactionMsg(u) \in Msg
BY DEF TransactionMsg, Msg

-----------------------------------------------------------------------------
(* Type correctness, in the parts that the operators of the server change    *)
(* together.                                                                 *)

SendingOK ==
  /\ st \in [Session -> {"free", "new", "up", "zombie"}]
  /\ cbPaths \in [Session -> SUBSET CbPath]
  /\ pipe \in [Session -> Seq(Msg)]
  /\ nser \in [Session -> Nat]
  /\ \A s \in Session : nser[s] <= Len(pipe[s])
  /\ stale \in [Session -> BOOLEAN]
  /\ dying \in Seq(Session)

HoldingOK ==
  /\ xaction \in [Session -> Update]
  /\ xSessionList \in Seq(Session)
  /\ crashed \in BOOLEAN

TreeOK ==
  /\ tree \in [Path -> Data]
  /\ seen \subseteq [Path -> Data]

RecordsOK ==
  /\ dodMap \in [Session -> Batch(1 .. MaxOps)]
  /\ dodBy \in [Path -> Session \cup {NoSession}]

ControlOK ==
  /\ xInProgress \in BOOLEAN
  /\ current \in Session \cup {NoSession}
  /\ clock \in 0 .. MaxOps

ClientOK ==
  /\ replica \in [Session -> [Path -> Data]]
  /\ notified \in [Session -> SUBSET CbPath]

LEMMA TypeParts ==
  TypeOK <=> SendingOK /\ HoldingOK /\ TreeOK /\ RecordsOK /\ ControlOK /\ ClientOK
BY DEF TypeOK, SendingOK, HoldingOK, TreeOK, RecordsOK, ControlOK, ClientOK

LEMMA TypePartsNext ==
  SendingOK' /\ HoldingOK' /\ TreeOK' /\ RecordsOK' /\ ControlOK' /\ ClientOK' => TypeOK'
BY DEF TypeOK, SendingOK, HoldingOK, TreeOK, RecordsOK, ControlOK, ClientOK

(* A handler takes one operation of the bound. *)
LEMMA BeginType ==
  ASSUME ControlOK, NEW s \in Session, Begin(s)
  PROVE  /\ clock < MaxOps
         /\ current' \in Session \cup {NoSession}
         /\ clock' \in 0 .. MaxOps
BY BoundAssumption DEF Begin, CanHandle, ControlOK

(* Every subset of Session has an order. *)
LEMMA SessionOrder ==
  ASSUME NEW L \in SUBSET Session, NEW order \in SetToSeqs(L)
  PROVE  /\ order \in Seq(Session)
         /\ ToSet(order) = L
         /\ \A i, j \in DOMAIN order : order[i] = order[j] => i = j
<1>1. IsFiniteSet(L)
  BY SessionAssumption, FS_Subset
<1>2. /\ order \in Seq(L)
      /\ ToSet(order) = L
      /\ \A i, j \in DOMAIN order : order[i] = order[j] => i = j
  BY <1>1, OrderType
<1> QED BY <1>2

(* Disconnecting sessions keeps the types. *)
LEMMA DisconnectedType ==
  ASSUME SendingOK, NEW L \in SUBSET Session, Disconnected(L)
  PROVE  /\ st' \in [Session -> {"free", "new", "up", "zombie"}]
         /\ cbPaths' \in [Session -> SUBSET CbPath]
         /\ dying' \in Seq(Session)
<1>1. PICK order \in SetToSeqs(L \ {current'}) : dying' = order \o dying
  BY DEF Disconnected
<1>2. order \in Seq(Session)
  BY SessionOrder
<1> QED BY <1>1, <1>2 DEF Disconnected, SendingOK

(* So does sending each session of N its message. *)
LEMMA EnqueueType ==
  ASSUME SendingOK, NEW N \in SUBSET Session, NEW m,
         \A s \in N : m[s] \in Msg, Enqueue(N, m)
  PROVE  SendingOK'
<1> DEFINE late == {s \in N : Overloaded(s)}
           ok   == N \ late
<1>1. PICK wait \in SUBSET ok :
         /\ pipe' = [s \in Session |-> IF s \in ok THEN Append(pipe[s], m[s]) ELSE pipe[s]]
         /\ nser' = [s \in Session |-> IF s \in ok \ wait THEN Len(pipe[s]) + 1 ELSE nser[s]]
         /\ stale' = [s \in Session |-> stale[s] /\ s \notin ok \ wait]
         /\ Disconnected(late)
  BY DEF Enqueue
<1>2. /\ st' \in [Session -> {"free", "new", "up", "zombie"}]
      /\ cbPaths' \in [Session -> SUBSET CbPath]
      /\ dying' \in Seq(Session)
  BY <1>1, DisconnectedType
<1>3. stale' \in [Session -> BOOLEAN]
  BY <1>1
<1>4. ASSUME NEW s \in Session
      PROVE  /\ pipe'[s] \in Seq(Msg)
             /\ nser'[s] \in Nat
             /\ nser'[s] <= Len(pipe'[s])
  <2>1. CASE s \in ok
    BY <1>1, <2>1 DEF SendingOK
  <2>2. CASE s \notin ok
    BY <1>1, <2>2 DEF SendingOK
  <2> QED BY <2>1, <2>2
<1>5. pipe' \in [Session -> Seq(Msg)] /\ nser' \in [Session -> Nat]
  BY <1>1, <1>4
<1> QED BY <1>2, <1>3, <1>4, <1>5 DEF SendingOK

(* So does holding back the changes of a transaction. *)
LEMMA HoldBackType ==
  ASSUME HoldingOK, NEW u, \A s \in Session : u[s] \in Update, HoldBack(u)
  PROVE  HoldingOK'
<1>1. xaction' \in [Session -> Update]
  BY JoinType DEF HoldBack, HoldingOK
<1>2. PICK order \in SetToSeqs({s \in Session : DOMAIN xaction[s] = {} /\ DOMAIN u[s] # {}}) :
        xSessionList' = xSessionList \o order
  BY DEF HoldBack
<1>3. order \in Seq(Session)
  BY SessionOrder
<1>4. crashed' \in BOOLEAN
  BY DEF HoldBack
<1> QED BY <1>1, <1>2, <1>3, <1>4 DEF HoldingOK

(* A put or a delete in the tree keeps the types of what it changes. *)
LEMMA ChangeType ==
  ASSUME SendingOK, HoldingOK, TreeOK, NEW p \in Path, NEW d \in Data, Change(p, d)
  PROVE  SendingOK' /\ HoldingOK' /\ TreeOK'
<1>1. TreeOK'
  BY DEF Change, TreeOK
<1>2. Announce(p, d)
  BY DEF Change
<1>3. One(p, d) \in Update /\ NoUpdate \in Update /\ PutMsg(p, d) \in Msg
  BY OneType, NoUpdateType, PutMsgType
<1>4. CASE xInProgress
  <2> DEFINE u == [s \in Session |-> IF s \in Registered(p) THEN One(p, d) ELSE NoUpdate]
  <2>1. HoldBack(u) /\ UNCHANGED sending
    BY <1>2, <1>4 DEF Announce
  <2>2. HoldingOK'
    <3>1. \A s \in Session : u[s] \in Update
      BY <1>3
    <3> HIDE DEF u
    <3> QED BY <2>1, <3>1, HoldBackType
  <2>3. SendingOK'
    BY <2>1 DEF sending, SendingOK
  <2> QED BY <1>1, <2>2, <2>3
<1>5. CASE ~xInProgress
  <2> DEFINE m == [s \in Session |-> PutMsg(p, d)]
  <2>1. Enqueue(Registered(p), m) /\ UNCHANGED holding
    BY <1>2, <1>5 DEF Announce
  <2>2. SendingOK'
    <3>1. Registered(p) \in SUBSET Session
      BY DEF Registered
    <3>2. \A s \in Registered(p) : m[s] \in Msg
      BY <1>3, <3>1
    <3> HIDE DEF m
    <3> QED BY <2>1, <3>1, <3>2, EnqueueType
  <2>3. HoldingOK'
    BY <2>1 DEF holding, HoldingOK
  <2> QED BY <1>1, <2>2, <2>3
<1> QED BY <1>4, <1>5

LEMMA TreePutType ==
  ASSUME SendingOK, HoldingOK, TreeOK, NEW p \in Path, NEW v \in Val \cup {Online},
         NEW n \in 0 .. MaxOps, TreePut(p, v, n)
  PROVE  SendingOK' /\ HoldingOK' /\ TreeOK'
<1>1. CASE tree[p].val = v
  BY <1>1 DEF TreePut, sending, holding, SendingOK, HoldingOK, TreeOK
<1>2. CASE tree[p].val # v
  <2>1. [op |-> n, val |-> v] \in Data
    BY DEF Data
  <2> QED BY <1>2, <2>1, ChangeType DEF TreePut
<1> QED BY <1>1, <1>2

LEMMA DeletedType ==
  ASSUME NEW d \in Data
  PROVE  [d EXCEPT !.val = NoVal] \in Data
BY DEF Data

LEMMA TreeDelType ==
  ASSUME SendingOK, HoldingOK, TreeOK, NEW p \in Path, TreeDel(p)
  PROVE  SendingOK' /\ HoldingOK' /\ TreeOK'
<1>1. CASE ~Present(p)
  BY <1>1 DEF TreeDel, sending, holding, SendingOK, HoldingOK, TreeOK
<1>2. CASE Present(p)
  <2>1. [tree[p] EXCEPT !.val = NoVal] \in Data
    BY DeletedType DEF TreeOK
  <2> QED BY <1>2, <2>1, ChangeType DEF TreeDel
<1> QED BY <1>1, <1>2

LEMMA RecordDodType ==
  ASSUME RecordsOK, clock \in 0 .. MaxOps, clock < MaxOps,
         NEW s \in Session, NEW P \in SUBSET Path, RecordDod(s, P)
  PROVE  dodMap' \in [Session -> Batch(1 .. MaxOps)]
<1>1. CASE P = {}
  BY <1>1 DEF RecordDod, RecordsOK
<1>2. CASE P # {}
  <2> DEFINE f == Join(dodMap[s], [p \in P |-> clock + 1])
  <2>1. PICK alive \in SUBSET (DOMAIN f) : dodMap' = [dodMap EXCEPT ![s] = [p \in alive |-> f[p]]]
    <3>1. P \subseteq DOMAIN f
      BY DEF Join
    <3> QED BY <1>2, <3>1 DEF RecordDod
  <2>2. PICK E \in SUBSET Path : dodMap[s] \in [E -> 1 .. MaxOps]
    BY DEF RecordsOK, Batch
  <2>3. clock + 1 \in 1 .. MaxOps
    BY BoundAssumption
  <2>4. f \in [E \cup P -> 1 .. MaxOps]
    BY <2>2, <2>3 DEF Join
  <2> HIDE DEF f
  <2>5. [p \in alive |-> f[p]] \in [alive -> 1 .. MaxOps]
    BY <2>1, <2>4
  <2>6. alive \in SUBSET Path
    BY <2>1, <2>2, <2>4
  <2>7. [p \in alive |-> f[p]] \in Batch(1 .. MaxOps)
    BY <2>5, <2>6 DEF Batch
  <2> QED BY <2>1, <2>7 DEF RecordsOK
<1> QED BY <1>1, <1>2

(* The messages of a subscription. *)
LEMMA SyncMsgsType ==
  ASSUME TreeOK, NEW c \in CbPath, NEW order \in Seq(Path)
  PROVE  /\ SyncMsgs(c, order) \in Seq(Msg)
         /\ Len(SyncMsgs(c, order)) = Len(order) + 1
         /\ \A i \in 1 .. Len(order) : SyncMsgs(c, order)[i] = PutMsg(order[i], tree[order[i]])
         /\ SyncMsgs(c, order)[Len(order) + 1] = SubscribedMsg(c)
<1> DEFINE puts == [i \in 1 .. Len(order) |-> PutMsg(order[i], tree[order[i]])]
<1>1. \A i \in 1 .. Len(order) : PutMsg(order[i], tree[order[i]]) \in Msg
  BY PutMsgType DEF TreeOK
<1>2. Len(order) \in Nat
  OBVIOUS
<1>3. puts \in Seq(Msg) /\ Len(puts) = Len(order)
  <2>1. puts \in [1 .. Len(order) -> Msg]
    BY <1>1
  <2> HIDE DEF puts
  <2> QED BY <1>2, <2>1
<1>4. SubscribedMsg(c) \in Msg
  BY NoUpdateType DEF SubscribedMsg, Msg
<1>5. SyncMsgs(c, order) = Append(puts, SubscribedMsg(c))
  BY DEF SyncMsgs
<1>6. \A i \in 1 .. Len(order) : puts[i] = PutMsg(order[i], tree[order[i]])
  OBVIOUS
<1> HIDE DEF puts
<1> QED BY <1>2, <1>3, <1>4, <1>5, <1>6

LEMMA EnqueueAllType ==
  ASSUME SendingOK, NEW s \in Session, NEW msgs \in Seq(Msg), EnqueueAll(s, msgs)
  PROVE  /\ st' \in [Session -> {"free", "new", "up", "zombie"}]
         /\ pipe' \in [Session -> Seq(Msg)]
         /\ nser' \in [Session -> Nat]
         /\ \A t \in Session : nser'[t] <= Len(pipe'[t])
         /\ stale' \in [Session -> BOOLEAN]
         /\ dying' \in Seq(Session)
<1>1. PICK n \in 0 .. Len(msgs) :
        /\ MustWait(s) => n = 0
        /\ IF n = 0 /\ stale[s] /\ Backlog(s) + Len(msgs) - 1 > Threshold
           THEN /\ pipe' = [pipe EXCEPT ![s] = @ \o SubSeq(msgs, 1, Threshold + 1 - Backlog(s))]
                /\ Disconnected({s})
                /\ UNCHANGED <<nser, stale>>
           ELSE /\ pipe' = [pipe EXCEPT ![s] = @ \o msgs]
                /\ nser' = [nser EXCEPT ![s] = IF n = 0 THEN @ ELSE Len(pipe[s]) + n]
                /\ stale' = [stale EXCEPT ![s] = @ /\ n = 0]
                /\ UNCHANGED <<st, dying>>
  BY DEF EnqueueAll
<1>2. CASE n = 0 /\ stale[s] /\ Backlog(s) + Len(msgs) - 1 > Threshold
  <2> DEFINE sent == SubSeq(msgs, 1, Threshold + 1 - Backlog(s))
  <2>1. Backlog(s) \in Int /\ Threshold \in Nat /\ Len(msgs) \in Nat
    BY BoundAssumption DEF Backlog, SendingOK
  <2>2. Threshold + 1 - Backlog(s) < Len(msgs) + 1
    BY <1>2, <2>1
  <2>3. sent \in Seq(Msg)
    BY <2>1, <2>2
  <2> HIDE DEF sent
  <2>4. pipe' = [pipe EXCEPT ![s] = @ \o sent]
    BY <1>1, <1>2 DEF sent
  <2>5. pipe' \in [Session -> Seq(Msg)] /\ \A t \in Session : Len(pipe[t]) <= Len(pipe'[t])
    BY <2>3, <2>4 DEF SendingOK
  <2>6. st' \in [Session -> {"free", "new", "up", "zombie"}] /\ dying' \in Seq(Session)
    BY <1>1, <1>2, DisconnectedType
  <2>7. UNCHANGED <<nser, stale>>
    BY <1>1, <1>2
  <2> QED BY <2>5, <2>6, <2>7 DEF SendingOK
<1>3. CASE ~(n = 0 /\ stale[s] /\ Backlog(s) + Len(msgs) - 1 > Threshold)
  <2>1. /\ pipe' = [pipe EXCEPT ![s] = @ \o msgs]
        /\ nser' = [nser EXCEPT ![s] = IF n = 0 THEN @ ELSE Len(pipe[s]) + n]
        /\ stale' = [stale EXCEPT ![s] = @ /\ n = 0]
        /\ UNCHANGED <<st, dying>>
    BY <1>1, <1>3
  <2>2. n \in Nat /\ n <= Len(msgs)
    OBVIOUS
  <2>3. pipe' \in [Session -> Seq(Msg)] /\ nser' \in [Session -> Nat]
    BY <2>1, <2>2 DEF SendingOK
  <2>4. \A t \in Session : nser'[t] <= Len(pipe'[t])
    BY <2>1, <2>2 DEF SendingOK
  <2>5. stale' \in [Session -> BOOLEAN]
    BY <2>1 DEF SendingOK
  <2> QED BY <2>1, <2>3, <2>4, <2>5 DEF SendingOK
<1> QED BY <1>2, <1>3

(* What a handler does to the tree, with what it leaves of the rest. *)
LEMMA HandleTransactionType ==
  ASSUME TypeOK, NEW s \in Session, NEW x \in Xact, HandleTransaction(s, x)
  PROVE  TypeOK'
<1> DEFINE changed == {p \in DOMAIN x : x[p].val # tree[p].val}
           new == [p \in changed |->
                     IF x[p].val = NoVal THEN [tree[p] EXCEPT !.val = NoVal]
                     ELSE [op |-> clock + 1, val |-> x[p].val]]
           puts == {p \in DOMAIN x : x[p].val # NoVal}
           u == [t \in Session |-> [p \in {q \in changed : t \in Registered(q)} |-> new[p]]]
<1>0. SendingOK /\ HoldingOK /\ TreeOK /\ RecordsOK /\ ControlOK /\ ClientOK
  BY TypeParts
<1>1. /\ Begin(s)
      /\ xInProgress' = TRUE
      /\ tree' = Apply(new, tree)
      /\ seen' = seen \cup {tree'}
      /\ HoldBack(u)
      /\ UNCHANGED sending
      /\ RecordDod(s, {p \in puts : x[p].dod})
      /\ dodBy' = [p \in Path |-> IF p \notin puts THEN dodBy[p]
                                  ELSE IF x[p].dod THEN s ELSE NoSession]
      /\ UNCHANGED <<replica, notified>>
  BY DEF HandleTransaction
<1>2. PICK E \in SUBSET UserPath : x \in [E -> Element]
  BY XactAssumption
<1>3. ControlOK' /\ clock \in 0 .. MaxOps /\ clock < MaxOps
  BY <1>0, <1>1, BeginType DEF ControlOK
<1>4. changed \in SUBSET Path /\ puts \in SUBSET Path
  BY <1>2, PathAssumption
<1>5. new \in Update /\ DOMAIN new = changed
  <2>1. ASSUME NEW p \in changed
        PROVE  new[p] \in Data
    <3>1. p \in Path /\ x[p] \in Element /\ tree[p] \in Data
      BY <1>0, <1>2, PathAssumption DEF TreeOK
    <3>2. CASE x[p].val = NoVal
      BY <3>1, <3>2, DeletedType
    <3>3. CASE x[p].val # NoVal
      <4>1. x[p].val \in Val /\ clock + 1 \in 0 .. MaxOps
        BY <1>3, <3>1, <3>3, BoundAssumption DEF Element
      <4> QED BY <3>3, <4>1 DEF Data
    <3> QED BY <3>2, <3>3
  <2> QED BY <1>4, <2>1, UpdateType
<1>6. TreeOK'
  <2> HIDE DEF new
  <2> QED BY <1>0, <1>1, <1>5, ApplyType DEF TreeOK
<1>7. HoldingOK'
  <2>1. ASSUME NEW t \in Session
        PROVE  u[t] \in Update
    <3> DEFINE mine == {q \in changed : t \in Registered(q)}
    <3>1. u[t] = [p \in mine |-> new[p]] /\ mine \subseteq Path
      BY <1>4
    <3>2. new \in [changed -> Data]
      BY <1>5, UpdateType
    <3> HIDE DEF new, u
    <3>3. u[t] \in [mine -> Data] /\ DOMAIN u[t] = mine
      BY <3>1, <3>2
    <3> QED BY <3>1, <3>3, UpdateType
  <2> HIDE DEF u
  <2> QED BY <1>0, <1>1, <2>1, HoldBackType
<1>8. RecordsOK'
  <2>1. {p \in puts : x[p].dod} \in SUBSET Path
    BY <1>4
  <2>2. dodMap' \in [Session -> Batch(1 .. MaxOps)]
    BY <1>0, <1>1, <1>3, <2>1, RecordDodType
  <2>3. dodBy' \in [Path -> Session \cup {NoSession}]
    BY <1>0, <1>1 DEF RecordsOK
  <2> QED BY <2>2, <2>3 DEF RecordsOK
<1>9. SendingOK' /\ ClientOK'
  BY <1>0, <1>1 DEF sending, SendingOK, ClientOK
<1> QED BY <1>3, <1>6, <1>7, <1>8, <1>9, TypePartsNext

LEMMA HandleSubscribeType ==
  ASSUME TypeOK, NEW s \in Session, NEW c \in CbPath, HandleSubscribe(s, c)
  PROVE  TypeOK'
<1>0. SendingOK /\ HoldingOK /\ TreeOK /\ RecordsOK /\ ControlOK /\ ClientOK
  BY TypeParts
<1>1. PICK order \in SetToSeqs({p \in Path : Covers(c, p) /\ Present(p)}) :
        EnqueueAll(s, SyncMsgs(c, order))
  BY DEF HandleSubscribe
<1>2. order \in Seq(Path)
  BY OrderType, PathAssumption, FS_Subset
<1>3. SyncMsgs(c, order) \in Seq(Msg)
  BY <1>0, <1>2, SyncMsgsType
<1>4. cbPaths' \in [Session -> SUBSET CbPath]
  BY <1>0 DEF HandleSubscribe, SendingOK
<1>5. SendingOK'
  BY <1>0, <1>1, <1>3, <1>4, EnqueueAllType DEF SendingOK
<1>6. ControlOK'
  BY <1>0, BeginType DEF HandleSubscribe, ControlOK
<1>7. HoldingOK' /\ TreeOK' /\ RecordsOK' /\ ClientOK'
  BY <1>0 DEF HandleSubscribe, holding, HoldingOK, TreeOK, RecordsOK, ClientOK
<1> QED BY <1>5, <1>6, <1>7, TypePartsNext

LEMMA DestroyedType ==
  ASSUME TypeOK, NEW s \in Session, Destroyed(s)
  PROVE  TypeOK'
<1>0. SendingOK /\ HoldingOK /\ TreeOK /\ RecordsOK /\ ControlOK /\ ClientOK
  BY TypeParts
<1>1. dying # <<>> /\ dying' = Tail(dying)
  BY DEF Destroyed, Destroying
<1>2. dying' \in Seq(Session)
  BY <1>0, <1>1 DEF SendingOK
<1>3. SendingOK'
  <2>1. /\ st' \in [Session -> {"free", "new", "up", "zombie"}]
        /\ cbPaths' \in [Session -> SUBSET CbPath]
        /\ stale' \in [Session -> BOOLEAN]
    BY <1>0 DEF Destroyed, SendingOK
  <2>2. pipe' = [pipe EXCEPT ![s] = <<>>] /\ nser' = [nser EXCEPT ![s] = 0]
    BY DEF Destroyed
  <2>3. /\ pipe' \in [Session -> Seq(Msg)]
        /\ nser' \in [Session -> Nat]
        /\ \A t \in Session : nser'[t] <= Len(pipe'[t])
    BY <1>0, <2>2 DEF SendingOK
  <2> QED BY <1>2, <2>1, <2>3 DEF SendingOK
<1>4. HoldingOK'
  BY <1>0, NoUpdateType DEF Destroyed, HoldingOK
<1>5. RecordsOK'
  <2>1. [p \in {} |-> 0] \in Batch(1 .. MaxOps)
    BY DEF Batch
  <2> QED BY <1>0, <2>1 DEF Destroyed, RecordsOK
<1>6. ClientOK'
  <2>1. Empty \in Data
    BY BoundAssumption DEF Empty, Data
  <2> QED BY <1>0, <2>1 DEF Destroyed, ClientOK
<1>7. TreeOK' /\ ControlOK'
  BY <1>0 DEF Destroyed, TreeOK, ControlOK
<1> QED BY <1>3, <1>4, <1>5, <1>6, <1>7, TypePartsNext

LEMMA FinishTransactionType ==
  ASSUME TypeOK, FinishTransaction
  PROVE  TypeOK'
<1>0. SendingOK /\ HoldingOK /\ TreeOK /\ RecordsOK /\ ControlOK /\ ClientOK
  BY TypeParts
<1> DEFINE t == Head(xSessionList)
           m == [s \in Session |-> TransactionMsg(xaction[s])]
<1>1. t \in Session /\ Tail(xSessionList) \in Seq(Session)
  BY <1>0 DEF FinishTransaction, HoldingOK
<1>2. SendingOK'
  <2>1. CASE DOMAIN xaction[t] = {}
    BY <1>0, <2>1 DEF FinishTransaction, sending, SendingOK
  <2>2. CASE DOMAIN xaction[t] # {}
    <3>1. Enqueue({t}, m)
      BY <2>2 DEF FinishTransaction
    <3>2. \A s \in {t} : m[s] \in Msg
      BY <1>0, <1>1, TransactionMsgType DEF HoldingOK
    <3>3. {t} \in SUBSET Session
      BY <1>1
    <3> HIDE DEF t, m
    <3> QED BY <1>0, <3>1, <3>2, <3>3, EnqueueType
  <2> QED BY <2>1, <2>2
<1>3. HoldingOK'
  BY <1>0, <1>1, NoUpdateType DEF FinishTransaction, HoldingOK
<1>4. TreeOK' /\ RecordsOK' /\ ControlOK' /\ ClientOK'
  BY <1>0 DEF FinishTransaction, TreeOK, RecordsOK, ControlOK, ClientOK
<1> QED BY <1>2, <1>3, <1>4, TypePartsNext

LEMMA ReceiveType ==
  ASSUME TypeOK, NEW s \in Session, Receive(s)
  PROVE  TypeOK'
<1>0. SendingOK /\ HoldingOK /\ TreeOK /\ RecordsOK /\ ControlOK /\ ClientOK
  BY TypeParts
<1>1. pipe[s] \in Seq(Msg) /\ nser[s] \in Nat /\ nser[s] <= Len(pipe[s]) /\ nser[s] > 0
  BY <1>0 DEF Receive, SendingOK
<1>2. /\ pipe[s] # <<>>
      /\ Head(pipe[s]) \in Msg
      /\ Tail(pipe[s]) \in Seq(Msg)
      /\ Len(Tail(pipe[s])) = Len(pipe[s]) - 1
  BY <1>1
<1>3. SendingOK'
  <2>1. pipe' = [pipe EXCEPT ![s] = Tail(pipe[s])] /\ nser' = [nser EXCEPT ![s] = nser[s] - 1]
    BY DEF Receive
  <2>2. /\ pipe' \in [Session -> Seq(Msg)]
        /\ nser' \in [Session -> Nat]
        /\ \A t \in Session : nser'[t] <= Len(pipe'[t])
    BY <1>0, <1>1, <1>2, <2>1 DEF SendingOK
  <2> QED BY <1>0, <2>2 DEF Receive, SendingOK
<1>4. ClientOK'
  <2>1. Head(pipe[s]).upd \in Update /\ Head(pipe[s]).subs \in SUBSET CbPath
    BY <1>2 DEF Msg
  <2>2. Apply(Head(pipe[s]).upd, replica[s]) \in [Path -> Data]
    BY <1>0, <2>1, ApplyType DEF ClientOK
  <2> QED BY <1>0, <2>1, <2>2 DEF Receive, ClientOK
<1>5. HoldingOK' /\ TreeOK' /\ RecordsOK' /\ ControlOK'
  BY <1>0 DEF Receive, holding, HoldingOK, TreeOK, RecordsOK, ControlOK
<1> QED BY <1>3, <1>4, <1>5, TypePartsNext

(* The handlers that put or delete one object. *)
LEMMA ObjectActionType ==
  ASSUME TypeOK, NEW s \in Session,
         \/ Greet(s)
         \/ \E p \in UserPath : \/ \E v \in Val, dod \in DodOpt : HandlePut(s, p, v, dod)
                               \/ HandleDel(s, p)
         \/ DeleteSessionPath(s)
         \/ DeleteDod(s)
  PROVE  TypeOK'
<1>0. SendingOK /\ HoldingOK /\ TreeOK /\ RecordsOK /\ ControlOK /\ ClientOK
  BY TypeParts
<1>1. SessionPath(s) \in Path /\ UserPath \subseteq Path
  BY PathAssumption
<1>2. CASE Greet(s)
  <2>1. TreePut(SessionPath(s), Online, clock) /\ clock \in 0 .. MaxOps
    BY <1>0, <1>2 DEF Greet, ControlOK
  <2>2. SendingOK' /\ HoldingOK' /\ TreeOK'
    BY <1>0, <1>1, <2>1, TreePutType
  <2>3. RecordsOK' /\ ControlOK' /\ ClientOK'
    BY <1>0, <1>2 DEF Greet, RecordsOK, ControlOK, ClientOK
  <2> QED BY <2>2, <2>3, TypePartsNext
<1>3. ASSUME NEW p \in UserPath, NEW v \in Val, NEW dod \in DodOpt, HandlePut(s, p, v, dod)
      PROVE  TypeOK'
  <2>1. Begin(s) /\ TreePut(p, v, clock + 1) /\ RecordDod(s, IF dod THEN {p} ELSE {})
    BY <1>3 DEF HandlePut
  <2>2. clock + 1 \in 0 .. MaxOps
    BY <1>0, <2>1, BeginType DEF Begin
  <2>3. SendingOK' /\ HoldingOK' /\ TreeOK'
    BY <1>0, <1>1, <2>1, <2>2, TreePutType
  <2>4. (IF dod THEN {p} ELSE {}) \in SUBSET Path
    BY <1>1
  <2>5. dodMap' \in [Session -> Batch(1 .. MaxOps)]
    BY <1>0, <2>1, <2>4, BeginType, RecordDodType DEF ControlOK
  <2>6. dodBy' \in [Path -> Session \cup {NoSession}]
    BY <1>0, <1>3 DEF HandlePut, RecordsOK
  <2>7. ControlOK' /\ ClientOK'
    BY <1>0, <1>3, <2>1, BeginType DEF HandlePut, ControlOK, ClientOK
  <2> QED BY <2>3, <2>5, <2>6, <2>7, TypePartsNext DEF RecordsOK
<1>4. ASSUME NEW p \in UserPath, HandleDel(s, p)
      PROVE  TypeOK'
  <2>1. SendingOK' /\ HoldingOK' /\ TreeOK'
    BY <1>0, <1>1, <1>4, TreeDelType DEF HandleDel
  <2>2. RecordsOK' /\ ControlOK' /\ ClientOK'
    BY <1>0, <1>4, BeginType DEF HandleDel, RecordsOK, ControlOK, ClientOK
  <2> QED BY <2>1, <2>2, TypePartsNext
<1>5. CASE DeleteSessionPath(s)
  <2>1. SendingOK' /\ HoldingOK' /\ TreeOK'
    BY <1>0, <1>1, <1>5, TreeDelType DEF DeleteSessionPath
  <2>2. RecordsOK' /\ ControlOK' /\ ClientOK'
    BY <1>0, <1>5 DEF DeleteSessionPath, RecordsOK, ControlOK, ClientOK
  <2> QED BY <2>1, <2>2, TypePartsNext
<1>6. CASE DeleteDod(s)
  <2>1. PICK p \in DodPaths(s) : TreeDel(p)
    BY <1>6 DEF DeleteDod
  <2>2. p \in Path
    BY <1>0 DEF DodPaths, RecordsOK, Batch
  <2>3. SendingOK' /\ HoldingOK' /\ TreeOK'
    BY <1>0, <2>1, <2>2, TreeDelType
  <2>4. RecordsOK' /\ ControlOK' /\ ClientOK'
    BY <1>0, <1>6 DEF DeleteDod, RecordsOK, ControlOK, ClientOK
  <2> QED BY <2>3, <2>4, TypePartsNext
<1> QED BY <1>2, <1>3, <1>4, <1>5, <1>6

LEMMA TypeInit == Init => TypeOK
<1> SUFFICES ASSUME Init PROVE TypeOK
  OBVIOUS
<1>1. Empty \in Data
  BY BoundAssumption DEF Empty, Data
<1>2. [p \in {} |-> 0] \in Batch(1 .. MaxOps)
  BY DEF Batch
<1>3. SendingOK
  BY DEF Init, SendingOK
<1>4. HoldingOK
  <2>1. xaction = [s \in Session |-> NoUpdate] /\ xSessionList = <<>>
    BY DEF Init
  <2>2. crashed \in BOOLEAN
    BY Zenon DEF Init
  <2> QED BY <2>1, <2>2, NoUpdateType DEF HoldingOK
<1>5. TreeOK
  BY <1>1 DEF Init, TreeOK
<1>6. RecordsOK
  BY <1>2 DEF Init, RecordsOK
<1>7. ControlOK
  <2>1. current = NoSession /\ clock = 0
    BY DEF Init
  <2>2. xInProgress \in BOOLEAN
    BY Zenon DEF Init
  <2> QED BY <2>1, <2>2, BoundAssumption DEF ControlOK
<1>8. ClientOK
  BY <1>1 DEF Init, ClientOK
<1> QED BY <1>3, <1>4, <1>5, <1>6, <1>7, <1>8, TypeParts

LEMMA TypeStep == TypeOK /\ [Next]_vars => TypeOK'
<1> SUFFICES ASSUME TypeOK, [Next]_vars PROVE TypeOK'
  OBVIOUS
<1>0. SendingOK /\ HoldingOK /\ TreeOK /\ RecordsOK /\ ControlOK /\ ClientOK
  BY TypeParts
<1>1. ASSUME FinishTransaction PROVE TypeOK'
  BY <1>1, FinishTransactionType
<1>2. ASSUME EndTransaction PROVE TypeOK'
  BY <1>2 DEF EndTransaction, TypeOK, sending, holding
<1>3. ASSUME NEW s \in Session, EndHandler(s) PROVE TypeOK'
  <2>1. SendingOK'
    BY <1>0, <1>3 DEF EndHandler, SendingOK
  <2>2. HoldingOK' /\ TreeOK' /\ RecordsOK' /\ ControlOK' /\ ClientOK'
    BY <1>0, <1>3 DEF EndHandler, holding, HoldingOK, TreeOK, RecordsOK, ControlOK, ClientOK
  <2> QED BY <2>1, <2>2, TypePartsNext
<1>4. ASSUME NEW s \in Session, Destroyed(s) PROVE TypeOK'
  BY <1>4, DestroyedType
<1>5. ASSUME NEW s \in Session, Greet(s) \/ DeleteSessionPath(s) \/ DeleteDod(s) PROVE TypeOK'
  BY <1>5, ObjectActionType
<1>6. ASSUME NEW s \in Session, NEW p \in UserPath,
             (\E v \in Val, dod \in DodOpt : HandlePut(s, p, v, dod)) \/ HandleDel(s, p)
      PROVE  TypeOK'
  BY <1>6, ObjectActionType
<1>7. ASSUME NEW s \in Session, Accept(s) PROVE TypeOK'
  <2>1. SendingOK' /\ ControlOK'
    BY <1>0, <1>7, BoundAssumption DEF Accept, SendingOK, ControlOK
  <2>2. HoldingOK' /\ TreeOK' /\ RecordsOK' /\ ClientOK'
    BY <1>0, <1>7 DEF Accept, HoldingOK, TreeOK, RecordsOK, ClientOK
  <2> QED BY <2>1, <2>2, TypePartsNext
<1>8. ASSUME NEW s \in Session, NEW c \in CbPath, HandleSubscribe(s, c) PROVE TypeOK'
  BY <1>8, HandleSubscribeType
<1>9. ASSUME NEW s \in Session, NEW x \in Xact, HandleTransaction(s, x) PROVE TypeOK'
  BY <1>9, HandleTransactionType
<1>10. ASSUME NEW s \in Session, Disconnect(s) PROVE TypeOK'
  <2>1. SendingOK'
    BY <1>0, <1>10, DisconnectedType DEF Disconnect, SendingOK
  <2>2. HoldingOK' /\ TreeOK' /\ RecordsOK' /\ ControlOK' /\ ClientOK'
    BY <1>0, <1>10 DEF Disconnect, holding, HoldingOK, TreeOK, RecordsOK, ControlOK, ClientOK
  <2> QED BY <2>1, <2>2, TypePartsNext
<1>11. ASSUME NEW s \in Session, HandleTx(s) PROVE TypeOK'
  <2>1. SendingOK'
    BY <1>0, <1>11 DEF HandleTx, SendingOK
  <2>2. HoldingOK' /\ TreeOK' /\ RecordsOK' /\ ControlOK' /\ ClientOK'
    BY <1>0, <1>11 DEF HandleTx, holding, HoldingOK, TreeOK, RecordsOK, ControlOK, ClientOK
  <2> QED BY <2>1, <2>2, TypePartsNext
<1>12. ASSUME NEW s \in Session, Tick(s) PROVE TypeOK'
  BY <1>12 DEF Tick, TypeOK, holding
<1>13. ASSUME NEW s \in Session, Receive(s) PROVE TypeOK'
  BY <1>13, ReceiveType
<1>14. CASE UNCHANGED vars
  BY <1>14 DEF vars, TypeOK
<1> QED
  BY <1>1, <1>2, <1>3, <1>4, <1>5, <1>6, <1>7, <1>8, <1>9, <1>10, <1>11, <1>12, <1>13, <1>14
  DEF Next, Finish, Input

(* The server keeps its types, and counts no message as serialized that it   *)
(* has not queued: the first step to every other result.                     *)
THEOREM TypeCorrect == Spec => []TypeOK
<1>1. Init => TypeOK
  BY TypeInit
<1>2. TypeOK /\ [Next]_vars => TypeOK'
  BY TypeStep
<1> QED BY <1>1, <1>2, PTL DEF Spec

-----------------------------------------------------------------------------
(* What the messages on their way to a client amount to.                     *)

Ends(q, r, p, d) ==
  LET U == {i \in DOMAIN q : p \in DOMAIN q[i].upd}
  IN \/ U = {} /\ Same(r, d)
     \/ \E i \in U : (\A j \in U : j <= i) /\ Same(q[i].upd[p], d)

Untouched(q, p) == \A i \in DOMAIN q : p \notin DOMAIN q[i].upd

LEMMA SettledEnds ==
  ASSUME NEW s \in Session, NEW p \in Path
  PROVE  Settled(s, p) <=> IF p \in DOMAIN xaction[s] THEN Same(xaction[s][p], tree[p])
                           ELSE Ends(pipe[s], replica[s][p], p, tree[p])
BY DEF Settled, Ends

LEMMA SettledEndsNext ==
  ASSUME NEW s \in Session, NEW p \in Path
  PROVE  Settled(s, p)' <=> IF p \in DOMAIN xaction'[s] THEN Same(xaction'[s][p], tree'[p])
                            ELSE Ends(pipe'[s], replica'[s][p], p, tree'[p])
BY DEF Settled, Ends, Same

(* A message more: its update of p is the last, or nothing changes for p. *)
LEMMA EndsAppend ==
  ASSUME NEW q \in Seq(Msg), NEW m \in Msg, NEW r, NEW p, NEW d
  PROVE  /\ p \in DOMAIN m.upd /\ Same(m.upd[p], d) => Ends(Append(q, m), r, p, d)
         /\ p \notin DOMAIN m.upd /\ Ends(q, r, p, d) => Ends(Append(q, m), r, p, d)
         /\ p \notin DOMAIN m.upd /\ Untouched(q, p) => Untouched(Append(q, m), p)
<1> DEFINE q2 == Append(q, m)
           U  == {i \in DOMAIN q : p \in DOMAIN q[i].upd}
           U2 == {i \in DOMAIN q2 : p \in DOMAIN q2[i].upd}
<1>1. /\ DOMAIN q = 1 .. Len(q) /\ Len(q) \in Nat
      /\ DOMAIN q2 = 1 .. Len(q) + 1
      /\ \A i \in 1 .. Len(q) : q2[i] = q[i]
      /\ q2[Len(q) + 1] = m
  OBVIOUS
<1> HIDE DEF q2
<1>2. ASSUME p \in DOMAIN m.upd, Same(m.upd[p], d)
      PROVE  Ends(q2, r, p, d)
  <2>1. Len(q) + 1 \in U2 /\ \A j \in U2 : j <= Len(q) + 1
    BY <1>1, <1>2
  <2>2. Same(q2[Len(q) + 1].upd[p], d)
    BY <1>1, <1>2
  <2> QED BY <2>1, <2>2 DEF Ends
<1>3. ASSUME p \notin DOMAIN m.upd
      PROVE  U2 = U /\ \A i \in U : q2[i] = q[i]
  BY <1>1, <1>3
<1>4. ASSUME p \notin DOMAIN m.upd, Ends(q, r, p, d)
      PROVE  Ends(q2, r, p, d)
  BY <1>3, <1>4 DEF Ends
<1>5. ASSUME p \notin DOMAIN m.upd, Untouched(q, p)
      PROVE  Untouched(q2, p)
  BY <1>1, <1>5 DEF Untouched
<1> QED BY <1>2, <1>4, <1>5 DEF q2

(* Messages more, at most one of which updates p. *)
LEMMA EndsConcat ==
  ASSUME NEW q \in Seq(Msg), NEW w \in Seq(Msg), NEW r, NEW p, NEW d
  PROVE  /\ Untouched(w, p) /\ Ends(q, r, p, d) => Ends(q \o w, r, p, d)
         /\ Untouched(w, p) /\ Untouched(q, p) => Untouched(q \o w, p)
         /\ \A k \in DOMAIN w :
              /\ p \in DOMAIN w[k].upd
              /\ \A j \in DOMAIN w : p \in DOMAIN w[j].upd => j = k
              /\ Same(w[k].upd[p], d)
              => Ends(q \o w, r, p, d)
<1> DEFINE q2 == q \o w
           U  == {i \in DOMAIN q : p \in DOMAIN q[i].upd}
           U2 == {i \in DOMAIN q2 : p \in DOMAIN q2[i].upd}
<1>1. /\ DOMAIN q = 1 .. Len(q) /\ Len(q) \in Nat
      /\ DOMAIN w = 1 .. Len(w) /\ Len(w) \in Nat
      /\ DOMAIN q2 = 1 .. Len(q) + Len(w)
      /\ \A i \in 1 .. Len(q) : q2[i] = q[i]
      /\ \A i \in 1 .. Len(w) : q2[Len(q) + i] = w[i]
  OBVIOUS
<1>2. \A i \in DOMAIN q2 : i \in DOMAIN q \/ \E k \in DOMAIN w : i = Len(q) + k
  <2>1. ASSUME NEW i \in 1 .. Len(q) + Len(w), i \notin 1 .. Len(q)
        PROVE  i - Len(q) \in 1 .. Len(w) /\ i = Len(q) + (i - Len(q))
    BY <1>1, <2>1
  <2> HIDE DEF q2
  <2> QED BY <1>1, <2>1
<1> HIDE DEF q2
<1>3. ASSUME Untouched(w, p)
      PROVE  U2 = U /\ \A i \in U : q2[i] = q[i]
  BY <1>1, <1>2, <1>3 DEF Untouched
<1>4. ASSUME Untouched(w, p), Ends(q, r, p, d)
      PROVE  Ends(q2, r, p, d)
  BY <1>3, <1>4 DEF Ends
<1>5. ASSUME Untouched(w, p), Untouched(q, p)
      PROVE  Untouched(q2, p)
  BY <1>1, <1>2, <1>5 DEF Untouched
<1>6. ASSUME NEW k \in DOMAIN w, p \in DOMAIN w[k].upd, Same(w[k].upd[p], d),
             \A j \in DOMAIN w : p \in DOMAIN w[j].upd => j = k
      PROVE  Ends(q2, r, p, d)
  <2>1. Len(q) + k \in U2 /\ q2[Len(q) + k] = w[k]
    BY <1>1, <1>6
  <2>2. \A j \in U2 : j <= Len(q) + k
    BY <1>1, <1>2, <1>6
  <2> QED BY <1>6, <2>1, <2>2 DEF Ends
<1> QED BY <1>4, <1>5, <1>6 DEF q2

(* The client handles the oldest message. *)
LEMMA EndsTail ==
  ASSUME NEW q \in Seq(Msg), q # <<>>, NEW f \in [Path -> Data], NEW p \in Path, NEW d
  PROVE  /\ Ends(q, f[p], p, d) => Ends(Tail(q), Apply(Head(q).upd, f)[p], p, d)
         /\ Untouched(q, p) => Untouched(Tail(q), p) /\ Apply(Head(q).upd, f)[p] = f[p]
<1> DEFINE q2 == Tail(q)
           u  == Head(q).upd
           U  == {i \in DOMAIN q : p \in DOMAIN q[i].upd}
           U2 == {i \in DOMAIN q2 : p \in DOMAIN q2[i].upd}
<1>1. /\ DOMAIN q = 1 .. Len(q) /\ Len(q) \in Nat \ {0}
      /\ DOMAIN q2 = 1 .. Len(q) - 1
      /\ \A i \in 1 .. Len(q) - 1 : q2[i] = q[i + 1]
      /\ u = q[1].upd
  OBVIOUS
<1>2. Apply(u, f)[p] = IF p \in DOMAIN u THEN u[p] ELSE f[p]
  BY DEF Apply
<1> HIDE DEF q2, u
<1>3. \A i : i \in U2 <=> i + 1 \in U /\ i \in 1 .. Len(q) - 1
  BY <1>1
<1>4. ASSUME Ends(q, f[p], p, d)
      PROVE  Ends(q2, Apply(u, f)[p], p, d)
  <2>1. CASE U = {}
    <3>1. U2 = {} /\ p \notin DOMAIN u
      BY <1>1, <1>3, <2>1
    <3>2. Same(f[p], d)
      BY <1>4, <2>1 DEF Ends
    <3> QED BY <1>2, <3>1, <3>2 DEF Ends
  <2>2. CASE U # {}
    <3>1. PICK i \in U : (\A j \in U : j <= i) /\ Same(q[i].upd[p], d)
      BY <1>4, <2>2 DEF Ends
    <3>2. CASE i = 1
      <4>1. U2 = {}
        <5>1. \A j \in U2 : j + 1 <= 1 /\ j >= 1
          BY <1>3, <3>1, <3>2
        <5>2. \A j \in U2 : j \in Nat
          BY <1>1
        <5> QED BY <5>1, <5>2
      <4>2. p \in DOMAIN u /\ Same(u[p], d)
        BY <1>1, <3>1, <3>2
      <4> QED BY <1>2, <4>1, <4>2 DEF Ends
    <3>3. CASE i # 1
      <4>1. i - 1 \in 1 .. Len(q) - 1 /\ (i - 1) + 1 = i
        BY <1>1, <3>1, <3>3
      <4>2. i - 1 \in U2 /\ q2[i - 1] = q[i]
        BY <1>1, <1>3, <3>1, <4>1
      <4>3. \A j \in U2 : j <= i - 1
        BY <1>1, <1>3, <3>1
      <4> QED BY <3>1, <4>2, <4>3 DEF Ends
    <3> QED BY <3>2, <3>3
  <2> QED BY <2>1, <2>2
<1>5. ASSUME Untouched(q, p)
      PROVE  Untouched(q2, p) /\ Apply(u, f)[p] = f[p]
  <2>1. p \notin DOMAIN u
    BY <1>1, <1>5 DEF Untouched
  <2>2. \A i \in 1 .. Len(q) - 1 : i + 1 \in 1 .. Len(q)
    BY <1>1
  <2> QED BY <1>1, <1>2, <1>5, <2>1, <2>2 DEF Untouched
<1> QED BY <1>4, <1>5 DEF q2, u

-----------------------------------------------------------------------------
(* The inductive invariant, for one session and path.                        *)

Watches(s, p)  == \E c \in cbPaths[s] : Covers(c, p)
InSyncAt(s, p) == st[s] # "zombie" => IF Watches(s, p) THEN Settled(s, p) ELSE Quiet(s, p)

Control == Listed /\ OnlyUp /\ Doomed

LEMMA InSyncParts == InSync <=> \A s \in Session, p \in Path : InSyncAt(s, p)
BY DEF InSync, InSyncAt, Watches, Registered

LEMMA InSyncPartsNext == (\A s \in Session, p \in Path : InSyncAt(s, p)') => InSync'
BY DEF InSync, InSyncAt, Watches, Registered

LEMMA QuietDef ==
  ASSUME NEW s \in Session, NEW p \in Path
  PROVE  /\ Quiet(s, p) <=> /\ p \notin DOMAIN xaction[s]
                           /\ Untouched(pipe[s], p)
                           /\ replica[s][p].val = NoVal
         /\ Quiet(s, p)' <=> /\ p \notin DOMAIN xaction'[s]
                            /\ Untouched(pipe'[s], p)
                            /\ replica'[s][p].val = NoVal
BY DEF Quiet, Untouched

(* A step that leaves a session and what the tree holds at p alone. *)
LEMMA KeepInSync ==
  ASSUME NEW s \in Session, NEW p \in Path, InSyncAt(s, p),
         st'[s] # "zombie" => st[s] # "zombie" /\ cbPaths'[s] = cbPaths[s],
         p \in DOMAIN xaction'[s] <=> p \in DOMAIN xaction[s],
         p \in DOMAIN xaction[s] => xaction'[s][p] = xaction[s][p],
         pipe'[s] = pipe[s], replica'[s] = replica[s], tree'[p] = tree[p]
  PROVE  InSyncAt(s, p)'
<1> SUFFICES ASSUME st'[s] # "zombie"
             PROVE  IF Watches(s, p)' THEN Settled(s, p)' ELSE Quiet(s, p)'
  BY DEF InSyncAt
<1>1. Watches(s, p)' <=> Watches(s, p)
  BY DEF Watches
<1>2. Settled(s, p) => Settled(s, p)'
  BY SettledEnds, SettledEndsNext
<1>3. Quiet(s, p) => Quiet(s, p)'
  BY QuietDef
<1> QED BY <1>1, <1>2, <1>3 DEF InSyncAt

(* Sessions that are not being destroyed yet are disconnected. *)
LEMMA DisconnectedEffect ==
  ASSUME SendingOK, OnlyUp, Doomed,
         NEW L \in SUBSET Session, L \cap ToSet(dying) = {}, Disconnected(L)
  PROVE  /\ \A s \in L : st'[s] = "zombie"
         /\ \A s \in Session \ L : st'[s] = st[s] /\ cbPaths'[s] = cbPaths[s]
         /\ OnlyUp'
         /\ Doomed'
<1>1. PICK order \in SetToSeqs(L \ {current'}) : dying' = order \o dying
  BY DEF Disconnected
<1>2. /\ st' = [s \in Session |-> IF s \in L THEN "zombie" ELSE st[s]]
      /\ cbPaths' = [s \in Session |-> IF s \in L THEN {} ELSE cbPaths[s]]
  BY DEF Disconnected
<1>3. OnlyUp'
  BY <1>2 DEF OnlyUp
<1>4. /\ order \in Seq(Session)
      /\ ToSet(order) = L \ {current'}
      /\ \A i, j \in DOMAIN order : order[i] = order[j] => i = j
  BY SessionOrder
<1>5. dying \in Seq(Session)
  BY DEF SendingOK
<1> DEFINE n == Len(order)
<1>6. /\ n \in Nat /\ Len(dying) \in Nat
      /\ DOMAIN order = 1 .. n
      /\ DOMAIN dying = 1 .. Len(dying)
      /\ DOMAIN dying' = 1 .. n + Len(dying)
      /\ \A i \in 1 .. n : dying'[i] = order[i]
      /\ \A i \in 1 .. n + Len(dying) : i \notin 1 .. n =>
           i - n \in 1 .. Len(dying) /\ dying'[i] = dying[i - n]
  BY <1>1, <1>4, <1>5
<1>7. \A i \in 1 .. n : order[i] \in L
  BY <1>4, <1>6 DEF ToSet
<1>8. \A i \in 1 .. Len(dying) : dying[i] \in Session \ L /\ st[dying[i]] = "zombie"
  BY <1>5, <1>6 DEF ToSet, Doomed
<1>9. ASSUME NEW i \in DOMAIN dying'
      PROVE  st'[dying'[i]] = "zombie"
  BY <1>2, <1>6, <1>7, <1>8, <1>9
<1>10. ASSUME NEW i \in DOMAIN dying', NEW j \in DOMAIN dying', dying'[i] = dying'[j]
       PROVE  i = j
  <2>1. CASE i \in 1 .. n /\ j \in 1 .. n
    BY <1>4, <1>6, <1>10, <2>1
  <2>2. CASE i \in 1 .. n /\ j \notin 1 .. n
    BY <1>6, <1>7, <1>8, <1>10, <2>2
  <2>3. CASE i \notin 1 .. n /\ j \in 1 .. n
    BY <1>6, <1>7, <1>8, <1>10, <2>3
  <2>4. CASE i \notin 1 .. n /\ j \notin 1 .. n
    <3>1. i - n = j - n
      BY <1>6, <1>10, <2>4 DEF Doomed
    <3> QED BY <1>6, <1>10, <3>1
  <2> QED BY <2>1, <2>2, <2>3, <2>4
<1>11. Doomed'
  BY <1>9, <1>10 DEF Doomed
<1> QED BY <1>2, <1>3, <1>11

(* A session has its message at the end of its queue, or is disconnected. *)
LEMMA EnqueueEffect ==
  ASSUME SendingOK, OnlyUp, Doomed,
         NEW N \in SUBSET Session, NEW m, N \cap ToSet(dying) = {}, Enqueue(N, m)
  PROVE  /\ \A s \in Session :
              \/ st'[s] = "zombie" /\ s \in N
              \/ /\ st'[s] = st[s] /\ cbPaths'[s] = cbPaths[s]
                 /\ pipe'[s] = IF s \in N THEN Append(pipe[s], m[s]) ELSE pipe[s]
         /\ OnlyUp'
         /\ Doomed'
<1> DEFINE late == {s \in N : Overloaded(s)}
           ok   == N \ late
<1>1. /\ pipe' = [s \in Session |-> IF s \in ok THEN Append(pipe[s], m[s]) ELSE pipe[s]]
      /\ Disconnected(late)
  BY DEF Enqueue
<1>2. late \cap ToSet(dying) = {} /\ late \in SUBSET Session /\ late \subseteq N
  OBVIOUS
<1>3. /\ \A s \in late : st'[s] = "zombie"
      /\ \A s \in Session \ late : st'[s] = st[s] /\ cbPaths'[s] = cbPaths[s]
      /\ OnlyUp'
      /\ Doomed'
  <2> HIDE DEF late
  <2> QED BY <1>1, <1>2, DisconnectedEffect
<1> HIDE DEF late
<1> QED BY <1>1, <1>2, <1>3

LEMMA ToSetConcat ==
  ASSUME NEW S, NEW a \in Seq(S), NEW b \in Seq(S)
  PROVE  ToSet(a) \cup ToSet(b) \subseteq ToSet(a \o b)
<1>1. /\ Len(a) \in Nat /\ Len(b) \in Nat
      /\ DOMAIN (a \o b) = 1 .. Len(a) + Len(b)
      /\ \A i \in 1 .. Len(a) : (a \o b)[i] = a[i]
      /\ \A i \in 1 .. Len(b) : Len(a) + i \in 1 .. Len(a) + Len(b) /\ (a \o b)[Len(a) + i] = b[i]
  OBVIOUS
<1>2. 1 .. Len(a) \subseteq 1 .. Len(a) + Len(b)
  BY <1>1
<1>3. DOMAIN a = 1 .. Len(a) /\ DOMAIN b = 1 .. Len(b)
  OBVIOUS
<1> QED BY <1>1, <1>2, <1>3, Zenon DEF ToSet

(* What is held back is in the session's xaction_, and the session is listed. *)
LEMMA HoldBackEffect ==
  ASSUME HoldingOK, Listed, NEW u, \A s \in Session : u[s] \in Update,
         HoldBack(u), xInProgress'
  PROVE  /\ \A s \in Session :
              /\ DOMAIN xaction'[s] = DOMAIN xaction[s] \cup DOMAIN u[s]
              /\ \A p \in DOMAIN u[s] : xaction'[s][p] = u[s][p]
              /\ \A p \in DOMAIN xaction[s] \ DOMAIN u[s] : xaction'[s][p] = xaction[s][p]
         /\ Listed'
<1>1. xaction' = [s \in Session |-> Join(xaction[s], u[s])]
  BY DEF HoldBack
<1>2. ASSUME NEW s \in Session
      PROVE  /\ DOMAIN xaction'[s] = DOMAIN xaction[s] \cup DOMAIN u[s]
             /\ \A p \in DOMAIN u[s] : xaction'[s][p] = u[s][p]
             /\ \A p \in DOMAIN xaction[s] \ DOMAIN u[s] : xaction'[s][p] = xaction[s][p]
  <2>1. xaction[s] \in Update /\ u[s] \in Update /\ xaction'[s] = Join(xaction[s], u[s])
    BY <1>1 DEF HoldingOK
  <2>2. /\ DOMAIN Join(xaction[s], u[s]) = DOMAIN xaction[s] \cup DOMAIN u[s]
        /\ \A p \in DOMAIN u[s] : Join(xaction[s], u[s])[p] = u[s][p]
        /\ \A p \in DOMAIN xaction[s] \ DOMAIN u[s] : Join(xaction[s], u[s])[p] = xaction[s][p]
    BY <2>1, JoinType
  <2> QED BY <2>1, <2>2, Zenon
<1> DEFINE added == {s \in Session : DOMAIN xaction[s] = {} /\ DOMAIN u[s] # {}}
<1>3. PICK order \in SetToSeqs(added) : xSessionList' = xSessionList \o order
  BY DEF HoldBack
<1>4. order \in Seq(Session) /\ ToSet(order) = added
  BY SessionOrder
<1>5. ToSet(xSessionList) \cup added \subseteq ToSet(xSessionList')
  BY <1>3, <1>4, ToSetConcat DEF HoldingOK
<1>6. ASSUME NEW s \in Session, DOMAIN xaction'[s] # {}
      PROVE  s \in ToSet(xSessionList')
  BY <1>2, <1>5, <1>6 DEF Listed
<1>7. Listed'
  BY <1>6 DEF Listed, ToSet
<1> QED BY <1>2, <1>7

(* A registered session is connected, so it is not being destroyed. *)
LEMMA RegisteredUp ==
  ASSUME SendingOK, OnlyUp, Doomed, NEW p
  PROVE  /\ Registered(p) \in SUBSET Session
         /\ Registered(p) \cap ToSet(dying) = {}
         /\ \A s \in Session : s \in Registered(p) <=> Watches(s, p)
<1>1. \A s \in Session : s \in Registered(p) <=> Watches(s, p)
  BY DEF Registered, Watches
<1>2. Registered(p) \in SUBSET Session
  BY DEF Registered
<1>3. ASSUME NEW s \in Registered(p), s \in ToSet(dying)
      PROVE  FALSE
  <2>1. st[s] = "up"
    BY <1>1, <1>2, <1>3 DEF OnlyUp, Watches
  <2>2. PICK i \in DOMAIN dying : dying[i] = s
    BY <1>3 DEF ToSet
  <2> QED BY <2>1, <2>2 DEF Doomed
<1> QED BY <1>1, <1>2, <1>3

(* An object is put or deleted: every session registered for it holds back or *)
(* is sent its new state, and no other session is told.                       *)
LEMMA ChangeInv ==
  ASSUME IInv, NEW p \in Path, NEW d \in Data, Change(p, d),
         UNCHANGED <<replica, xInProgress>>
  PROVE  Listed' /\ OnlyUp' /\ Doomed' /\ InSync'
<1>0. /\ SendingOK /\ HoldingOK /\ TreeOK
      /\ Listed /\ OnlyUp /\ Doomed
      /\ \A s \in Session, q \in Path : InSyncAt(s, q)
  BY TypeParts, InSyncParts DEF IInv
<1>1. tree' = [tree EXCEPT ![p] = d] /\ Announce(p, d)
  BY DEF Change
<1>2. tree'[p] = d /\ \A q \in Path : q # p => tree'[q] = tree[q]
  BY <1>0, <1>1 DEF TreeOK
<1>3. /\ One(p, d) \in Update /\ DOMAIN One(p, d) = {p} /\ One(p, d)[p] = d
      /\ NoUpdate \in Update /\ DOMAIN NoUpdate = {}
      /\ PutMsg(p, d) \in Msg /\ PutMsg(p, d).upd = One(p, d)
  BY OneType, NoUpdateType, PutMsgType DEF PutMsg
<1>4. Same(d, d)
  BY DEF Same
<1>5. /\ Registered(p) \in SUBSET Session
      /\ Registered(p) \cap ToSet(dying) = {}
      /\ \A s \in Session : s \in Registered(p) <=> Watches(s, p)
  BY <1>0, RegisteredUp
<1>6. CASE xInProgress
  <2> DEFINE u == [s \in Session |-> IF s \in Registered(p) THEN One(p, d) ELSE NoUpdate]
  <2>1. HoldBack(u) /\ UNCHANGED sending
    BY <1>1, <1>6 DEF Announce
  <2>2. ASSUME NEW s \in Session
        PROVE  /\ u[s] \in Update
               /\ s \in Registered(p) => DOMAIN u[s] = {p} /\ u[s][p] = d
               /\ s \notin Registered(p) => DOMAIN u[s] = {}
    <3>1. CASE s \in Registered(p)
      BY <1>3, <3>1
    <3>2. CASE s \notin Registered(p)
      BY <1>3, <3>2
    <3> QED BY <3>1, <3>2
  <2> HIDE DEF u
  <2>3. /\ \A s \in Session :
             /\ DOMAIN xaction'[s] = DOMAIN xaction[s] \cup DOMAIN u[s]
             /\ \A q \in DOMAIN u[s] : xaction'[s][q] = u[s][q]
             /\ \A q \in DOMAIN xaction[s] \ DOMAIN u[s] : xaction'[s][q] = xaction[s][q]
        /\ Listed'
    BY <1>0, <1>6, <2>1, <2>2, HoldBackEffect
  <2>4. OnlyUp' /\ Doomed'
    BY <1>0, <2>1 DEF sending, OnlyUp, Doomed
  <2>5. ASSUME NEW s \in Session, NEW q \in Path
        PROVE  InSyncAt(s, q)'
    <3>1. CASE q = p /\ Watches(s, p)
      <4>1. p \in DOMAIN xaction'[s] /\ xaction'[s][p] = d
        BY <1>5, <2>2, <2>3, <3>1
      <4>2. Settled(s, p)'
        BY <1>2, <1>4, <4>1, SettledEndsNext
      <4>3. Watches(s, p)'
        BY <2>1, <3>1 DEF sending, Watches
      <4> QED BY <3>1, <4>2, <4>3 DEF InSyncAt
    <3>2. CASE q = p /\ ~Watches(s, p)
      <4>1. DOMAIN xaction'[s] = DOMAIN xaction[s]
        BY <1>5, <2>2, <2>3, <3>2
      <4>2. Quiet(s, p) => Quiet(s, p)'
        BY <2>1, <4>1, QuietDef DEF sending
      <4>3. ~Watches(s, p)'
        BY <2>1, <3>2 DEF sending, Watches
      <4> QED BY <1>0, <2>1, <3>2, <4>2, <4>3 DEF sending, InSyncAt
    <3>3. CASE q # p
      <4>1. InSyncAt(s, q) /\ tree'[q] = tree[q]
        BY <1>0, <1>2, <3>3
      <4>2. /\ q \in DOMAIN xaction'[s] <=> q \in DOMAIN xaction[s]
            /\ q \in DOMAIN xaction[s] => xaction'[s][q] = xaction[s][q]
        BY <2>2, <2>3, <3>3
      <4>3. /\ st'[s] = st[s] /\ cbPaths'[s] = cbPaths[s]
            /\ pipe'[s] = pipe[s] /\ replica'[s] = replica[s]
        BY <2>1 DEF sending
      <4> QED BY <4>1, <4>2, <4>3, KeepInSync
    <3> QED BY <3>1, <3>2, <3>3
  <2> QED BY <2>3, <2>4, <2>5, InSyncPartsNext
<1>7. CASE ~xInProgress
  <2> DEFINE m == [s \in Session |-> PutMsg(p, d)]
  <2>1. Enqueue(Registered(p), m) /\ UNCHANGED holding
    BY <1>1, <1>7 DEF Announce
  <2>2. \A s \in Session : m[s] = PutMsg(p, d)
    OBVIOUS
  <2> HIDE DEF m
  <2>3. /\ \A s \in Session :
             \/ st'[s] = "zombie" /\ s \in Registered(p)
             \/ /\ st'[s] = st[s] /\ cbPaths'[s] = cbPaths[s]
                /\ pipe'[s] = IF s \in Registered(p) THEN Append(pipe[s], m[s]) ELSE pipe[s]
        /\ OnlyUp'
        /\ Doomed'
    BY <1>0, <1>5, <2>1, EnqueueEffect
  <2>4. /\ \A s \in Session : DOMAIN xaction[s] = {}
        /\ xaction' = xaction
    BY <1>0, <1>7, <2>1 DEF Listed, holding
  <2>5. Listed'
    BY <2>4 DEF Listed
  <2>6. ASSUME NEW s \in Session, NEW q \in Path
        PROVE  InSyncAt(s, q)'
    <3> SUFFICES ASSUME st'[s] # "zombie" PROVE InSyncAt(s, q)'
      BY DEF InSyncAt
    <3>1. /\ st'[s] = st[s] /\ cbPaths'[s] = cbPaths[s]
          /\ pipe'[s] = IF s \in Registered(p) THEN Append(pipe[s], PutMsg(p, d)) ELSE pipe[s]
      BY <2>2, <2>3
    <3>2. CASE s \notin Registered(p)
      <4>1. CASE q # p
        BY <1>0, <1>2, <2>4, <3>1, <3>2, <4>1, KeepInSync
      <4>2. CASE q = p
        <5>1. ~Watches(s, p) /\ ~Watches(s, p)'
          BY <1>5, <3>1, <3>2 DEF Watches
        <5>2. Quiet(s, p) => Quiet(s, p)'
          BY <2>4, <3>1, <3>2, QuietDef
        <5> QED BY <1>0, <3>1, <4>2, <5>1, <5>2 DEF InSyncAt
      <4> QED BY <4>1, <4>2
    <3>3. CASE s \in Registered(p)
      <4>1. /\ pipe[s] \in Seq(Msg)
            /\ pipe'[s] = Append(pipe[s], PutMsg(p, d))
            /\ replica'[s] = replica[s]
        BY <1>0, <3>1, <3>3 DEF SendingOK
      <4>2. CASE q = p
        <5>1. Ends(pipe'[s], replica'[s][p], p, tree'[p])
          BY <1>2, <1>3, <1>4, <4>1, EndsAppend
        <5>2. Settled(s, p)'
          BY <2>4, <5>1, SettledEndsNext
        <5>3. Watches(s, p)'
          BY <1>5, <3>1, <3>3 DEF Watches
        <5> QED BY <4>2, <5>2, <5>3 DEF InSyncAt
      <4>3. CASE q # p
        <5>1. /\ Ends(pipe[s], replica[s][q], q, tree[q])
                   => Ends(pipe'[s], replica'[s][q], q, tree'[q])
              /\ Untouched(pipe[s], q) => Untouched(pipe'[s], q)
          BY <1>2, <1>3, <4>1, <4>3, EndsAppend
        <5>2. Settled(s, q) => Settled(s, q)'
          BY <2>4, <5>1, SettledEnds, SettledEndsNext
        <5>3. Quiet(s, q) => Quiet(s, q)'
          BY <2>4, <4>1, <5>1, QuietDef
        <5>4. Watches(s, q)' <=> Watches(s, q)
          BY <3>1 DEF Watches
        <5> QED BY <1>0, <3>1, <5>2, <5>3, <5>4 DEF InSyncAt
      <4> QED BY <4>2, <4>3
    <3> QED BY <3>2, <3>3
  <2> QED BY <2>3, <2>5, <2>6, InSyncPartsNext
<1> QED BY <1>6, <1>7

LEMMA InvUnfold ==
  ASSUME IInv
  PROVE  /\ SendingOK /\ HoldingOK /\ TreeOK /\ RecordsOK /\ ControlOK /\ ClientOK
         /\ Listed /\ OnlyUp /\ Doomed
         /\ \A s \in Session, p \in Path : InSyncAt(s, p)
BY TypeParts, InSyncParts DEF IInv

(* A put or delete that changes nothing, or is a change as above. *)
LEMMA ObjectActionInv ==
  ASSUME IInv, NEW s \in Session,
         \/ Greet(s)
         \/ \E p \in UserPath : \/ \E v \in Val, dod \in DodOpt : HandlePut(s, p, v, dod)
                               \/ HandleDel(s, p)
         \/ DeleteSessionPath(s)
         \/ DeleteDod(s)
  PROVE  Listed' /\ OnlyUp' /\ Doomed' /\ InSync'
<1>0. /\ SendingOK /\ HoldingOK /\ TreeOK /\ RecordsOK /\ ControlOK
      /\ Listed /\ OnlyUp /\ Doomed
      /\ \A t \in Session, q \in Path : InSyncAt(t, q)
  BY InvUnfold
<1>1. UNCHANGED <<replica, xInProgress>>
  BY DEF Greet, HandlePut, HandleDel, DeleteSessionPath, DeleteDod
<1>2. ASSUME UNCHANGED <<tree, seen, sending, holding>>
      PROVE  Listed' /\ OnlyUp' /\ Doomed' /\ InSync'
  <2>1. /\ Listed' /\ OnlyUp' /\ Doomed'
    BY <1>0, <1>1, <1>2 DEF sending, holding, Listed, OnlyUp, Doomed
  <2>2. \A t \in Session, q \in Path : InSyncAt(t, q)'
    BY <1>0, <1>1, <1>2, KeepInSync DEF sending, holding
  <2> QED BY <2>1, <2>2, InSyncPartsNext
<1>3. ASSUME NEW p \in Path, NEW v \in Val \cup {Online}, NEW n \in 0 .. MaxOps, TreePut(p, v, n)
      PROVE  Listed' /\ OnlyUp' /\ Doomed' /\ InSync'
  <2>1. [op |-> n, val |-> v] \in Data
    BY DEF Data
  <2> QED BY <1>1, <1>2, <1>3, <2>1, ChangeInv DEF TreePut
<1>4. ASSUME NEW p \in Path, TreeDel(p)
      PROVE  Listed' /\ OnlyUp' /\ Doomed' /\ InSync'
  <2>1. [tree[p] EXCEPT !.val = NoVal] \in Data
    BY <1>0, DeletedType DEF TreeOK
  <2> QED BY <1>1, <1>2, <1>4, <2>1, ChangeInv DEF TreeDel
<1>5. SessionPath(s) \in Path /\ UserPath \subseteq Path
  BY PathAssumption
<1>6. CASE Greet(s)
  BY <1>0, <1>3, <1>5, <1>6 DEF Greet, ControlOK
<1>7. ASSUME NEW p \in UserPath, NEW v \in Val, NEW dod \in DodOpt, HandlePut(s, p, v, dod)
      PROVE  Listed' /\ OnlyUp' /\ Doomed' /\ InSync'
  <2>1. TreePut(p, v, clock + 1) /\ clock + 1 \in 0 .. MaxOps
    BY <1>0, <1>7, BeginType DEF HandlePut, Begin
  <2> QED BY <1>3, <1>5, <2>1
<1>8. ASSUME NEW p \in UserPath, HandleDel(s, p)
      PROVE  Listed' /\ OnlyUp' /\ Doomed' /\ InSync'
  BY <1>4, <1>5, <1>8 DEF HandleDel
<1>9. CASE DeleteSessionPath(s)
  BY <1>4, <1>5, <1>9 DEF DeleteSessionPath
<1>10. CASE DeleteDod(s)
  <2>1. PICK p \in DodPaths(s) : TreeDel(p)
    BY <1>10 DEF DeleteDod
  <2>2. p \in Path
    BY <1>0 DEF DodPaths, RecordsOK, Batch
  <2> QED BY <1>4, <2>1, <2>2
<1> QED BY <1>6, <1>7, <1>8, <1>9, <1>10

(* The elements of a transaction are all held back for the sessions that     *)
(* watch them.                                                               *)
LEMMA HandleTransactionInv ==
  ASSUME IInv, NEW s \in Session, NEW x \in Xact, HandleTransaction(s, x)
  PROVE  Listed' /\ OnlyUp' /\ Doomed' /\ InSync'
<1> DEFINE changed == {p \in DOMAIN x : x[p].val # tree[p].val}
           new == [p \in changed |->
                     IF x[p].val = NoVal THEN [tree[p] EXCEPT !.val = NoVal]
                     ELSE [op |-> clock + 1, val |-> x[p].val]]
           u == [t \in Session |-> [p \in {q \in changed : t \in Registered(q)} |-> new[p]]]
<1>0. /\ SendingOK /\ HoldingOK /\ TreeOK /\ ControlOK
      /\ Listed /\ OnlyUp /\ Doomed
      /\ \A t \in Session, q \in Path : InSyncAt(t, q)
  BY InvUnfold
<1>1. /\ Begin(s)
      /\ xInProgress' = TRUE
      /\ tree' = Apply(new, tree)
      /\ HoldBack(u)
      /\ UNCHANGED <<sending, replica>>
  BY DEF HandleTransaction
<1>2. ~xInProgress /\ \A t \in Session : DOMAIN xaction[t] = {}
  BY <1>0, <1>1 DEF Begin, CanHandle, Listed
<1>3. PICK E \in SUBSET UserPath : x \in [E -> Element]
  BY XactAssumption
<1>4. changed \in SUBSET Path
  BY <1>3, PathAssumption
<1>5. \A p \in changed : new[p] \in Data
  <2>1. ASSUME NEW p \in changed
        PROVE  new[p] \in Data
    <3>1. p \in Path /\ x[p] \in Element /\ tree[p] \in Data
      BY <1>0, <1>3, PathAssumption DEF TreeOK
    <3>2. CASE x[p].val = NoVal
      BY <3>1, <3>2, DeletedType
    <3>3. CASE x[p].val # NoVal
      <4>1. x[p].val \in Val /\ clock + 1 \in 0 .. MaxOps
        BY <1>0, <1>1, <3>1, <3>3, BeginType DEF Element, Begin
      <4> QED BY <3>3, <4>1 DEF Data
    <3> QED BY <3>2, <3>3
  <2> QED BY <2>1
<1>6. /\ DOMAIN new = changed
      /\ \A p \in Path : tree'[p] = IF p \in changed THEN new[p] ELSE tree[p]
  <2>1. DOMAIN new = changed
    OBVIOUS
  <2> HIDE DEF new, changed
  <2> QED BY <1>1, <2>1 DEF Apply
<1>7. ASSUME NEW t \in Session
      PROVE  /\ DOMAIN u[t] = {q \in changed : t \in Registered(q)}
             /\ \A q \in DOMAIN u[t] : u[t][q] = new[q]
             /\ u[t] \in Update
  <2> DEFINE mine == {q \in changed : t \in Registered(q)}
  <2>1. u[t] = [p \in mine |-> new[p]] /\ mine \subseteq changed
    OBVIOUS
  <2> HIDE DEF new, u, changed, mine
  <2>2. DOMAIN u[t] = mine /\ \A q \in mine : u[t][q] = new[q]
    BY <2>1
  <2>3. u[t] \in [mine -> Data] /\ mine \subseteq Path
    BY <1>4, <1>5, <2>1
  <2> QED BY <2>2, <2>3, UpdateType DEF mine
<1> HIDE DEF new, u, changed
<1>8. /\ \A t \in Session :
           /\ DOMAIN xaction'[t] = DOMAIN xaction[t] \cup DOMAIN u[t]
           /\ \A q \in DOMAIN u[t] : xaction'[t][q] = u[t][q]
           /\ \A q \in DOMAIN xaction[t] \ DOMAIN u[t] : xaction'[t][q] = xaction[t][q]
      /\ Listed'
  BY <1>0, <1>1, <1>7, HoldBackEffect
<1>9. OnlyUp' /\ Doomed'
  BY <1>0, <1>1 DEF sending, OnlyUp, Doomed
<1>10. ASSUME NEW t \in Session, NEW q \in Path
       PROVE  InSyncAt(t, q)'
  <2>1. /\ st'[t] = st[t] /\ cbPaths'[t] = cbPaths[t]
        /\ pipe'[t] = pipe[t] /\ replica'[t] = replica[t]
    BY <1>1 DEF sending
  <2>2. (t \in Registered(q) <=> Watches(t, q)) /\ (Watches(t, q)' <=> Watches(t, q))
    BY <2>1 DEF Registered, Watches
  <2>3. q \in DOMAIN xaction'[t] <=> q \in changed /\ Watches(t, q)
    BY <1>2, <1>7, <1>8, <2>2
  <2>4. CASE q \in changed /\ Watches(t, q)
    <3>1. xaction'[t][q] = tree'[q]
      BY <1>6, <1>7, <1>8, <2>2, <2>4
    <3>2. Settled(t, q)'
      BY <2>3, <2>4, <3>1, SettledEndsNext DEF Same
    <3> QED BY <2>2, <2>4, <3>2 DEF InSyncAt
  <2>5. CASE q \in changed /\ ~Watches(t, q)
    <3>1. Quiet(t, q) => Quiet(t, q)'
      BY <2>1, <2>3, <2>5, QuietDef
    <3> QED BY <1>0, <2>1, <2>2, <2>5, <3>1 DEF InSyncAt
  <2>6. CASE q \notin changed
    BY <1>0, <1>2, <1>6, <2>1, <2>3, <2>6, KeepInSync
  <2> QED BY <2>4, <2>5, <2>6
<1> QED BY <1>8, <1>9, <1>10, InSyncPartsNext

(* A session's held-back changes become one message, the last of its queue. *)
LEMMA FinishTransactionInv ==
  ASSUME IInv, FinishTransaction
  PROVE  Listed' /\ OnlyUp' /\ Doomed' /\ InSync'
<1> DEFINE m == [s \in Session |-> TransactionMsg(xaction[s])]
<1>0. /\ SendingOK /\ HoldingOK
      /\ Listed /\ OnlyUp /\ Doomed
      /\ \A s \in Session, q \in Path : InSyncAt(s, q)
  BY InvUnfold
<1>1. xSessionList # <<>> /\ Head(xSessionList) \in Session
  BY <1>0 DEF FinishTransaction, HoldingOK
<1>2. PICK t \in Session :
        /\ t = Head(xSessionList) /\ xSessionList' = Tail(xSessionList)
        /\ dying = <<>>
        /\ xaction' = [xaction EXCEPT ![t] = NoUpdate]
        /\ IF DOMAIN xaction[t] = {} THEN UNCHANGED sending ELSE Enqueue({t}, m)
        /\ UNCHANGED <<tree, replica, xInProgress>>
  BY <1>1 DEF FinishTransaction, NoneDying
<1>3. ToSet(xSessionList) \subseteq {t} \cup ToSet(Tail(xSessionList))
  <2>1. /\ DOMAIN xSessionList = 1 .. Len(xSessionList) /\ Len(xSessionList) \in Nat
        /\ DOMAIN Tail(xSessionList) = 1 .. Len(xSessionList) - 1
        /\ \A i \in 1 .. Len(xSessionList) - 1 : Tail(xSessionList)[i] = xSessionList[i + 1]
        /\ t = xSessionList[1]
    BY <1>0, <1>1, <1>2 DEF HoldingOK
  <2>2. ASSUME NEW i \in DOMAIN xSessionList
        PROVE  xSessionList[i] \in {t} \cup ToSet(Tail(xSessionList))
    <3>1. CASE i = 1
      BY <2>1, <3>1
    <3>2. CASE i # 1
      <4>1. i - 1 \in 1 .. Len(xSessionList) - 1 /\ (i - 1) + 1 = i
        BY <2>1, <3>2
      <4>2. xSessionList[i] = Tail(xSessionList)[i - 1]
        BY <2>1, <4>1
      <4> QED BY <2>1, <4>1, <4>2 DEF ToSet
    <3> QED BY <3>1, <3>2
  <2> QED BY <2>2 DEF ToSet
<1>4. /\ xaction'[t] = NoUpdate
      /\ \A s \in Session : s # t => xaction'[s] = xaction[s]
  BY <1>0, <1>2 DEF HoldingOK
<1>5. m[t] = TransactionMsg(xaction[t])
  BY <1>2
<1> HIDE DEF m
<1>6. Listed'
  <2>1. \A s \in Session : DOMAIN xaction'[s] # {} =>
          xInProgress' /\ s \in ToSet(Tail(xSessionList))
    BY <1>0, <1>2, <1>3, <1>4, NoUpdateType DEF Listed
  <2> QED BY <1>2, <2>1 DEF Listed, ToSet
<1>7. CASE DOMAIN xaction[t] = {}
  <2>1. OnlyUp' /\ Doomed'
    BY <1>0, <1>2, <1>7 DEF sending, OnlyUp, Doomed
  <2>2. ASSUME NEW s \in Session, NEW q \in Path
        PROVE  InSyncAt(s, q)'
    <3>1. /\ q \in DOMAIN xaction'[s] <=> q \in DOMAIN xaction[s]
          /\ q \in DOMAIN xaction[s] => xaction'[s][q] = xaction[s][q]
      BY <1>4, <1>7, NoUpdateType
    <3>2. /\ st'[s] = st[s] /\ cbPaths'[s] = cbPaths[s] /\ pipe'[s] = pipe[s]
          /\ replica'[s] = replica[s] /\ tree'[q] = tree[q]
      BY <1>2, <1>7 DEF sending
    <3> QED BY <1>0, <3>1, <3>2, KeepInSync
  <2> QED BY <1>6, <2>1, <2>2, InSyncPartsNext
<1>8. CASE DOMAIN xaction[t] # {}
  <2>1. /\ \A s \in Session :
             \/ st'[s] = "zombie" /\ s \in {t}
             \/ /\ st'[s] = st[s] /\ cbPaths'[s] = cbPaths[s]
                /\ pipe'[s] = IF s \in {t} THEN Append(pipe[s], m[s]) ELSE pipe[s]
        /\ OnlyUp'
        /\ Doomed'
    <3>1. {t} \in SUBSET Session /\ {t} \cap ToSet(dying) = {}
      BY <1>2 DEF ToSet
    <3> QED BY <1>0, <1>2, <1>8, <3>1, EnqueueEffect
  <2>2. ASSUME NEW s \in Session, NEW q \in Path
        PROVE  InSyncAt(s, q)'
    <3> SUFFICES ASSUME st'[s] # "zombie" PROVE InSyncAt(s, q)'
      BY DEF InSyncAt
    <3>1. CASE s # t
      BY <1>0, <1>2, <1>4, <2>1, <3>1, KeepInSync
    <3>2. CASE s = t
      <4>1. /\ pipe[t] \in Seq(Msg) /\ TransactionMsg(xaction[t]) \in Msg
            /\ TransactionMsg(xaction[t]).upd = xaction[t]
            /\ pipe'[t] = Append(pipe[t], TransactionMsg(xaction[t]))
            /\ st'[t] = st[t] /\ cbPaths'[t] = cbPaths[t]
        BY <1>0, <1>2, <1>5, <2>1, <3>2, TransactionMsgType
        DEF SendingOK, HoldingOK, TransactionMsg
      <4>2. /\ q \in DOMAIN xaction[t] /\ Same(xaction[t][q], tree[q])
                 => Ends(pipe'[t], replica[t][q], q, tree[q])
            /\ q \notin DOMAIN xaction[t] /\ Ends(pipe[t], replica[t][q], q, tree[q])
                 => Ends(pipe'[t], replica[t][q], q, tree[q])
            /\ q \notin DOMAIN xaction[t] /\ Untouched(pipe[t], q) => Untouched(pipe'[t], q)
        BY <4>1, EndsAppend
      <4>3. /\ q \notin DOMAIN xaction'[t]
            /\ replica'[t] = replica[t] /\ tree'[q] = tree[q]
        BY <1>2, <1>4, NoUpdateType
      <4>5. Settled(t, q) => Settled(t, q)'
        BY <4>2, <4>3, SettledEnds, SettledEndsNext
      <4>6. Quiet(t, q) => Quiet(t, q)'
        BY <4>2, <4>3, QuietDef
      <4>4. Watches(t, q)' <=> Watches(t, q)
        BY <4>1 DEF Watches
      <4> QED BY <1>0, <3>2, <4>1, <4>4, <4>5, <4>6 DEF InSyncAt
    <3> QED BY <3>1, <3>2
  <2> QED BY <1>6, <2>1, <2>2, InSyncPartsNext
<1> QED BY <1>7, <1>8

(* The client handles a message: what it has catches up with what it is sent. *)
LEMMA ReceiveInv ==
  ASSUME IInv, NEW s \in Session, Receive(s)
  PROVE  Listed' /\ OnlyUp' /\ Doomed' /\ InSync'
<1>0. /\ SendingOK /\ ClientOK
      /\ Listed /\ OnlyUp /\ Doomed
      /\ \A t \in Session, q \in Path : InSyncAt(t, q)
  BY InvUnfold
<1>1. /\ pipe' = [pipe EXCEPT ![s] = Tail(pipe[s])]
      /\ replica' = [replica EXCEPT ![s] = Apply(Head(pipe[s]).upd, replica[s])]
      /\ UNCHANGED <<st, cbPaths, tree, xInProgress, dying, xaction, xSessionList>>
  BY DEF Receive, holding
<1>2. pipe[s] \in Seq(Msg) /\ pipe[s] # <<>> /\ replica[s] \in [Path -> Data]
  <2>1. pipe[s] \in Seq(Msg) /\ nser[s] \in Nat /\ nser[s] <= Len(pipe[s]) /\ nser[s] > 0
    BY <1>0 DEF Receive, SendingOK
  <2> QED BY <1>0, <2>1 DEF ClientOK
<1>3. Listed' /\ OnlyUp' /\ Doomed'
  BY <1>0, <1>1 DEF Listed, OnlyUp, Doomed
<1>4. ASSUME NEW t \in Session, NEW q \in Path
      PROVE  InSyncAt(t, q)'
  <2>1. CASE t # s
    BY <1>0, <1>1, <2>1, KeepInSync DEF SendingOK, ClientOK
  <2>2. CASE t = s
    <3>1. /\ pipe'[s] = Tail(pipe[s])
          /\ replica'[s] = Apply(Head(pipe[s]).upd, replica[s])
      BY <1>0, <1>1 DEF SendingOK, ClientOK
    <3>2. /\ Ends(pipe[s], replica[s][q], q, tree[q])
               => Ends(pipe'[s], replica'[s][q], q, tree'[q])
          /\ Untouched(pipe[s], q) => Untouched(pipe'[s], q) /\ replica'[s][q] = replica[s][q]
      <4>1. /\ Ends(pipe[s], replica[s][q], q, tree[q])
                 => Ends(Tail(pipe[s]), Apply(Head(pipe[s]).upd, replica[s])[q], q, tree[q])
            /\ Untouched(pipe[s], q)
                 => /\ Untouched(Tail(pipe[s]), q)
                    /\ Apply(Head(pipe[s]).upd, replica[s])[q] = replica[s][q]
        BY <1>2, EndsTail
      <4> QED BY <1>1, <3>1, <4>1
    <3>3. Settled(s, q) => Settled(s, q)'
      BY <1>1, <3>2, SettledEnds, SettledEndsNext
    <3>4. Quiet(s, q) => Quiet(s, q)'
      BY <1>1, <3>2, QuietDef
    <3>5. Watches(s, q)' <=> Watches(s, q)
      BY <1>1 DEF Watches
    <3> QED BY <1>0, <1>1, <2>2, <3>3, <3>4, <3>5 DEF InSyncAt
  <2> QED BY <2>1, <2>2
<1> QED BY <1>3, <1>4, InSyncPartsNext

(* The slot of a destroyed session starts from nothing. *)
LEMMA DestroyedInv ==
  ASSUME IInv, NEW s \in Session, Destroyed(s)
  PROVE  Listed' /\ OnlyUp' /\ Doomed' /\ InSync'
<1>0. /\ SendingOK /\ HoldingOK /\ ClientOK
      /\ Listed /\ OnlyUp /\ Doomed
      /\ \A t \in Session, q \in Path : InSyncAt(t, q)
  BY InvUnfold
<1>1. /\ dying # <<>> /\ Head(dying) = s /\ dying' = Tail(dying)
      /\ st' = [st EXCEPT ![s] = "free"]
      /\ pipe' = [pipe EXCEPT ![s] = <<>>]
      /\ xaction' = [xaction EXCEPT ![s] = NoUpdate]
      /\ replica' = [replica EXCEPT ![s] = [p \in Path |-> Empty]]
      /\ UNCHANGED <<cbPaths, tree, xSessionList, xInProgress>>
  BY DEF Destroyed, Destroying
<1>2. /\ DOMAIN dying = 1 .. Len(dying) /\ Len(dying) \in Nat \ {0}
      /\ DOMAIN dying' = 1 .. Len(dying) - 1
      /\ \A i \in 1 .. Len(dying) - 1 : dying'[i] = dying[i + 1] /\ i + 1 \in 1 .. Len(dying)
      /\ s = dying[1] /\ 1 \in 1 .. Len(dying)
  BY <1>0, <1>1 DEF SendingOK
<1>3. st[s] = "zombie" /\ cbPaths[s] = {}
  BY <1>0, <1>2 DEF Doomed, OnlyUp
<1>4. /\ st'[s] = "free" /\ \A t \in Session : t # s => st'[t] = st[t]
      /\ xaction'[s] = NoUpdate /\ \A t \in Session : t # s => xaction'[t] = xaction[t]
      /\ pipe'[s] = <<>> /\ \A t \in Session : t # s => pipe'[t] = pipe[t]
      /\ replica'[s] = [p \in Path |-> Empty] /\ \A t \in Session : t # s => replica'[t] = replica[t]
  BY <1>0, <1>1 DEF SendingOK, HoldingOK, ClientOK
<1>5. Listed'
  BY <1>0, <1>1, <1>4, NoUpdateType DEF Listed
<1>6. OnlyUp'
  BY <1>0, <1>1, <1>3, <1>4 DEF OnlyUp
<1>7. Doomed'
  <2>1. ASSUME NEW i \in 1 .. Len(dying) - 1
        PROVE  dying[i + 1] \in Session /\ dying[i + 1] # s
    <3>1. i + 1 # 1 /\ i + 1 \in DOMAIN dying /\ 1 \in DOMAIN dying
      BY <1>2
    <3>2. dying[i + 1] \in Session
      BY <1>0, <3>1 DEF SendingOK
    <3>3. dying[i + 1] # dying[1]
      BY <1>0, <3>1 DEF Doomed
    <3> QED BY <1>2, <3>2, <3>3
  <2>2. \A i \in 1 .. Len(dying) - 1 : st'[dying'[i]] = "zombie"
    BY <1>0, <1>2, <1>4, <2>1 DEF Doomed
  <2>3. ASSUME NEW i \in 1 .. Len(dying) - 1, NEW j \in 1 .. Len(dying) - 1, dying'[i] = dying'[j]
        PROVE  i = j
    <3>1. i + 1 = j + 1
      BY <1>0, <1>2, <2>3 DEF Doomed
    <3> QED BY <1>2, <3>1
  <2> QED BY <1>2, <2>2, <2>3 DEF Doomed
<1>8. ASSUME NEW t \in Session, NEW q \in Path
      PROVE  InSyncAt(t, q)'
  <2>1. CASE t # s
    BY <1>0, <1>1, <1>4, <2>1, KeepInSync
  <2>2. CASE t = s
    <3>1. ~Watches(s, q)'
      BY <1>1, <1>3 DEF Watches
    <3>2. Quiet(s, q)'
      <4>1. Untouched(pipe'[s], q)
        BY <1>4 DEF Untouched
      <4>2. replica'[s][q].val = NoVal
        BY <1>4 DEF Empty
      <4> QED BY <1>4, <4>1, <4>2, NoUpdateType, QuietDef
    <3> QED BY <2>2, <3>1, <3>2 DEF InSyncAt
  <2> QED BY <2>1, <2>2
<1> QED BY <1>5, <1>6, <1>7, <1>8, InSyncPartsNext

(* The session has all the messages, or is disconnected. *)
LEMMA EnqueueAllEffect ==
  ASSUME SendingOK, OnlyUp, Doomed, dying = <<>>,
         NEW s \in Session, NEW msgs, EnqueueAll(s, msgs)
  PROVE  /\ \A t \in Session : t # s => pipe'[t] = pipe[t] /\ st'[t] = st[t]
         /\ st'[s] = "zombie" \/ (st'[s] = st[s] /\ pipe'[s] = pipe[s] \o msgs)
         /\ Doomed'
<1>1. PICK n \in 0 .. Len(msgs) :
        IF n = 0 /\ stale[s] /\ Backlog(s) + Len(msgs) - 1 > Threshold
        THEN /\ pipe' = [pipe EXCEPT ![s] = @ \o SubSeq(msgs, 1, Threshold + 1 - Backlog(s))]
             /\ Disconnected({s})
        ELSE /\ pipe' = [pipe EXCEPT ![s] = @ \o msgs]
             /\ UNCHANGED <<st, dying>>
  BY DEF EnqueueAll
<1>2. CASE n = 0 /\ stale[s] /\ Backlog(s) + Len(msgs) - 1 > Threshold
  <2>1. {s} \cap ToSet(dying) = {} /\ {s} \in SUBSET Session
    BY DEF ToSet
  <2>2. Disconnected({s})
    BY <1>1, <1>2
  <2>3. st'[s] = "zombie" /\ Doomed' /\ \A t \in Session : t # s => st'[t] = st[t]
    BY <2>1, <2>2, DisconnectedEffect
  <2>4. \A t \in Session : t # s => pipe'[t] = pipe[t]
    BY <1>1, <1>2 DEF SendingOK
  <2> QED BY <2>3, <2>4
<1>3. CASE ~(n = 0 /\ stale[s] /\ Backlog(s) + Len(msgs) - 1 > Threshold)
  <2>1. pipe' = [pipe EXCEPT ![s] = @ \o msgs] /\ st' = st /\ dying' = dying
    BY <1>1, <1>3
  <2> QED BY <2>1 DEF SendingOK, Doomed
<1> QED BY <1>2, <1>3

(* A subscriber is sent every object below its path that is in the tree, so  *)
(* that from then on it is in sync with all of them.                         *)
LEMMA HandleSubscribeInv ==
  ASSUME IInv, NEW s \in Session, NEW c \in CbPath, HandleSubscribe(s, c)
  PROVE  Listed' /\ OnlyUp' /\ Doomed' /\ InSync'
<1>0. /\ SendingOK /\ HoldingOK /\ TreeOK
      /\ Listed /\ OnlyUp /\ Doomed
      /\ \A t \in Session, q \in Path : InSyncAt(t, q)
  BY InvUnfold
<1> DEFINE found == {p \in Path : Covers(c, p) /\ Present(p)}
<1>1. PICK order \in SetToSeqs(found) : EnqueueAll(s, SyncMsgs(c, order))
  BY DEF HandleSubscribe
<1>2. /\ cbPaths' = [cbPaths EXCEPT ![s] = IF st'[s] = "zombie" THEN {} ELSE cbPaths[s] \cup {c}]
      /\ UNCHANGED <<tree, xInProgress, replica, xaction, xSessionList>>
  BY DEF HandleSubscribe, holding
<1>3. /\ ~xInProgress /\ dying = <<>>
      /\ st[s] \in {"up", "zombie"}
      /\ \A t \in Session : DOMAIN xaction[t] = {}
  BY <1>0 DEF HandleSubscribe, Begin, CanHandle, NoneDying, Listed
<1>4. /\ order \in Seq(Path) /\ ToSet(order) = found
      /\ \A i, j \in DOMAIN order : order[i] = order[j] => i = j
  BY OrderType, PathAssumption, FS_Subset
<1> DEFINE w == SyncMsgs(c, order)
<1>5. /\ w \in Seq(Msg)
      /\ Len(w) = Len(order) + 1
      /\ \A i \in 1 .. Len(order) : w[i] = PutMsg(order[i], tree[order[i]])
      /\ w[Len(order) + 1] = SubscribedMsg(c)
  BY <1>0, <1>4, SyncMsgsType
<1>6. /\ DOMAIN order = 1 .. Len(order) /\ Len(order) \in Nat
      /\ DOMAIN w = 1 .. Len(order) + 1
  BY <1>4, <1>5
<1> HIDE DEF w
<1>7. /\ \A t \in Session : t # s => pipe'[t] = pipe[t] /\ st'[t] = st[t]
      /\ st'[s] = "zombie" \/ (st'[s] = st[s] /\ pipe'[s] = pipe[s] \o w)
      /\ Doomed'
  BY <1>0, <1>1, <1>3, EnqueueAllEffect DEF w
<1>8. /\ cbPaths'[s] = IF st'[s] = "zombie" THEN {} ELSE cbPaths[s] \cup {c}
      /\ \A t \in Session : t # s => cbPaths'[t] = cbPaths[t]
  BY <1>0, <1>2 DEF SendingOK
<1>9. Listed'
  BY <1>0, <1>2 DEF Listed
<1>10. OnlyUp'
  BY <1>0, <1>3, <1>7, <1>8 DEF OnlyUp
<1>11. \A i \in 1 .. Len(order) :
         /\ order[i] \in Path
         /\ DOMAIN w[i].upd = {order[i]} /\ w[i].upd[order[i]] = tree[order[i]]
  <2>1. ASSUME NEW i \in 1 .. Len(order)
        PROVE  /\ order[i] \in Path
               /\ DOMAIN w[i].upd = {order[i]} /\ w[i].upd[order[i]] = tree[order[i]]
    <3>1. order[i] \in Path /\ tree[order[i]] \in Data
      BY <1>0, <1>4, <1>6 DEF TreeOK
    <3>2. w[i] = PutMsg(order[i], tree[order[i]])
      BY <1>5
    <3>3. w[i].upd = One(order[i], tree[order[i]])
      BY <3>2 DEF PutMsg
    <3>4. /\ DOMAIN One(order[i], tree[order[i]]) = {order[i]}
          /\ One(order[i], tree[order[i]])[order[i]] = tree[order[i]]
      BY <3>1, OneType
    <3> QED BY <3>1, <3>3, <3>4
  <2> QED BY <2>1
<1>12. DOMAIN w[Len(order) + 1].upd = {}
  BY <1>5, NoUpdateType DEF SubscribedMsg
<1>13. ASSUME NEW q \in Path
       PROVE  InSyncAt(s, q)'
  <2> SUFFICES ASSUME st'[s] # "zombie" PROVE InSyncAt(s, q)'
    BY DEF InSyncAt
  <2>1. /\ st'[s] = st[s] /\ st[s] # "zombie" /\ pipe'[s] = pipe[s] \o w
        /\ cbPaths'[s] = cbPaths[s] \cup {c} /\ pipe[s] \in Seq(Msg)
    BY <1>0, <1>7, <1>8 DEF SendingOK
  <2>2. /\ replica'[s] = replica[s] /\ tree'[q] = tree[q]
        /\ q \notin DOMAIN xaction[s] /\ q \notin DOMAIN xaction'[s]
    BY <1>2, <1>3
  <2>3. Watches(s, q)' <=> Watches(s, q) \/ Covers(c, q)
    BY <2>1 DEF Watches
  <2>4. CASE q \in found
    <3>1. PICK k \in 1 .. Len(order) : order[k] = q
      BY <1>4, <1>6, <2>4 DEF ToSet
    <3>2. /\ k \in DOMAIN w
          /\ q \in DOMAIN w[k].upd /\ Same(w[k].upd[q], tree[q])
      BY <1>6, <1>11, <3>1 DEF Same
    <3>3. \A j \in DOMAIN w : q \in DOMAIN w[j].upd => j = k
      <4>1. ASSUME NEW j \in DOMAIN w, q \in DOMAIN w[j].upd
            PROVE  j = k
        <5>1. j \in 1 .. Len(order) \/ j = Len(order) + 1
          BY <1>6
        <5>2. j \in 1 .. Len(order) /\ order[j] = q
          BY <1>11, <1>12, <4>1, <5>1
        <5> QED BY <1>4, <1>6, <3>1, <5>2
      <4> QED BY <4>1
    <3>4. Ends(pipe[s] \o w, replica[s][q], q, tree[q])
      BY <1>5, <2>1, <3>2, <3>3, EndsConcat
    <3>5. Settled(s, q)'
      BY <2>1, <2>2, <3>4, SettledEndsNext
    <3> QED BY <2>3, <2>4, <3>5 DEF InSyncAt
  <2>5. CASE q \notin found
    <3>1. Untouched(w, q)
      <4>1. ASSUME NEW j \in DOMAIN w
            PROVE  q \notin DOMAIN w[j].upd
        <5>1. j \in 1 .. Len(order) \/ j = Len(order) + 1
          BY <1>6
        <5>2. j \in 1 .. Len(order) => order[j] \in found
          BY <1>4, <1>6 DEF ToSet
        <5> QED BY <1>11, <1>12, <2>5, <5>1, <5>2
      <4> QED BY <4>1 DEF Untouched
    <3>2. /\ Ends(pipe[s], replica[s][q], q, tree[q])
               => Ends(pipe[s] \o w, replica[s][q], q, tree[q])
          /\ Untouched(pipe[s], q) => Untouched(pipe[s] \o w, q)
      BY <1>5, <2>1, <3>1, EndsConcat
    <3>3. Settled(s, q) => Settled(s, q)'
      BY <2>1, <2>2, <3>2, SettledEnds, SettledEndsNext
    <3>4. Quiet(s, q) => Quiet(s, q)'
      BY <2>1, <2>2, <3>2, QuietDef
    <3>5. Covers(c, q) => tree[q].val = NoVal
      BY <2>5 DEF Present
    <3>6. Quiet(s, q) /\ Covers(c, q) => Settled(s, q)
      BY <3>5 DEF Quiet, Settled, Same
    <3> QED BY <1>0, <2>1, <2>3, <3>3, <3>4, <3>6 DEF InSyncAt
  <2> QED BY <2>4, <2>5
<1>14. ASSUME NEW t \in Session, t # s, NEW q \in Path
       PROVE  InSyncAt(t, q)'
  BY <1>0, <1>2, <1>7, <1>8, <1>14, KeepInSync
<1> QED BY <1>7, <1>9, <1>10, <1>13, <1>14, InSyncPartsNext

LEMMA InvInit == Init => IInv
<1> SUFFICES ASSUME Init PROVE IInv
  OBVIOUS
<1>1. TypeOK
  BY TypeInit
<1>2. /\ st = [s \in Session |-> "free"] /\ cbPaths = [s \in Session |-> {}]
      /\ pipe = [s \in Session |-> <<>>] /\ dying = <<>>
      /\ xaction = [s \in Session |-> NoUpdate]
      /\ replica = [s \in Session |-> [p \in Path |-> Empty]]
  BY DEF Init
<1>3. Listed /\ OnlyUp /\ Doomed
  BY <1>2, NoUpdateType DEF Listed, OnlyUp, Doomed
<1>4. ASSUME NEW s \in Session, NEW p \in Path
      PROVE  InSyncAt(s, p)
  <2>1. ~Watches(s, p)
    BY <1>2 DEF Watches
  <2>2. Quiet(s, p)
    BY <1>2, NoUpdateType DEF Quiet, Empty
  <2> QED BY <2>1, <2>2 DEF InSyncAt
<1> QED BY <1>1, <1>3, <1>4, InSyncParts DEF IInv

LEMMA InvStep == IInv /\ [Next]_vars => IInv'
<1> SUFFICES ASSUME IInv, [Next]_vars PROVE Listed' /\ OnlyUp' /\ Doomed' /\ InSync'
  BY TypeStep DEF IInv
<1>0. /\ SendingOK /\ HoldingOK
      /\ Listed /\ OnlyUp /\ Doomed
      /\ \A s \in Session, q \in Path : InSyncAt(s, q)
  BY InvUnfold
<1> DEFINE Goal == Listed' /\ OnlyUp' /\ Doomed' /\ InSync'
<1>1. ASSUME FinishTransaction PROVE Goal
  BY <1>1, FinishTransactionInv
<1>2. ASSUME EndTransaction PROVE Goal
  <2>1. /\ UNCHANGED <<tree, replica, sending, xaction, xSessionList>>
        /\ xSessionList = <<>>
    BY <1>2 DEF EndTransaction, holding
  <2>2. \A s \in Session : DOMAIN xaction[s] = {}
    BY <1>0, <2>1 DEF Listed, ToSet
  <2>3. Listed' /\ OnlyUp' /\ Doomed'
    BY <1>0, <2>1, <2>2 DEF Listed, OnlyUp, Doomed, sending
  <2>4. \A s \in Session, q \in Path : InSyncAt(s, q)'
    BY <1>0, <2>1, KeepInSync DEF sending
  <2> QED BY <2>3, <2>4, InSyncPartsNext
<1>3. ASSUME NEW s \in Session, EndHandler(s) PROVE Goal
  <2>1. /\ st' = [st EXCEPT ![s] = IF @ = "new" THEN "up" ELSE @]
        /\ dying = <<>>
        /\ dying' = IF st[s] = "zombie" THEN <<s>> ELSE <<>>
        /\ UNCHANGED <<cbPaths, tree, pipe, xInProgress, replica, xaction, xSessionList>>
    BY <1>3 DEF EndHandler, NoneDying, holding
  <2>2. \A t \in Session : /\ st'[t] = "zombie" <=> st[t] = "zombie"
                          /\ st'[t] # "up" => st[t] # "up"
    BY <1>0, <2>1 DEF SendingOK
  <2>3. Listed' /\ OnlyUp' /\ Doomed'
    BY <1>0, <2>1, <2>2 DEF Listed, OnlyUp, Doomed
  <2>4. \A t \in Session, q \in Path : InSyncAt(t, q)'
    BY <1>0, <2>1, <2>2, KeepInSync
  <2> QED BY <2>3, <2>4, InSyncPartsNext
<1>4. ASSUME NEW s \in Session, Destroyed(s) PROVE Goal
  BY <1>4, DestroyedInv
<1>5. ASSUME NEW s \in Session, Greet(s) \/ DeleteSessionPath(s) \/ DeleteDod(s) PROVE Goal
  BY <1>5, ObjectActionInv
<1>6. ASSUME NEW s \in Session, NEW p \in UserPath,
             (\E v \in Val, dod \in DodOpt : HandlePut(s, p, v, dod)) \/ HandleDel(s, p)
      PROVE  Goal
  BY <1>6, ObjectActionInv
<1>7. ASSUME NEW s \in Session, Accept(s) PROVE Goal
  <2>1. /\ st[s] = "free" /\ st' = [st EXCEPT ![s] = "new"]
        /\ UNCHANGED <<cbPaths, tree, pipe, xInProgress, replica, xaction, xSessionList, dying>>
    BY <1>7 DEF Accept
  <2>2. \A t \in Session : /\ st'[t] = "zombie" <=> st[t] = "zombie"
                          /\ st'[t] # "up" => st[t] # "up"
    BY <1>0, <2>1 DEF SendingOK
  <2>3. \A i \in DOMAIN dying : dying[i] \in Session
    BY <1>0 DEF SendingOK
  <2>4. Listed' /\ OnlyUp' /\ Doomed'
    BY <1>0, <2>1, <2>2, <2>3 DEF Listed, OnlyUp, Doomed
  <2>5. \A t \in Session, q \in Path : InSyncAt(t, q)'
    BY <1>0, <2>1, <2>2, KeepInSync
  <2> QED BY <2>4, <2>5, InSyncPartsNext
<1>8. ASSUME NEW s \in Session, NEW c \in CbPath, HandleSubscribe(s, c) PROVE Goal
  BY <1>8, HandleSubscribeInv
<1>9. ASSUME NEW s \in Session, NEW x \in Xact, HandleTransaction(s, x) PROVE Goal
  BY <1>9, HandleTransactionInv
<1>10. ASSUME NEW s \in Session, Disconnect(s) PROVE Goal
  <2>1. /\ Disconnected({s}) /\ dying = <<>>
        /\ UNCHANGED <<tree, pipe, xInProgress, replica, xaction, xSessionList>>
    BY <1>10 DEF Disconnect, Idle, NoneDying, holding
  <2>2. {s} \cap ToSet(dying) = {} /\ {s} \in SUBSET Session
    BY <2>1 DEF ToSet
  <2>3. /\ st'[s] = "zombie"
        /\ \A t \in Session : t # s => st'[t] = st[t] /\ cbPaths'[t] = cbPaths[t]
        /\ OnlyUp' /\ Doomed'
    BY <1>0, <2>1, <2>2, DisconnectedEffect
  <2>4. Listed'
    BY <1>0, <2>1 DEF Listed
  <2>5. \A t \in Session, q \in Path : InSyncAt(t, q)'
    BY <1>0, <2>1, <2>3, KeepInSync
  <2> QED BY <2>3, <2>4, <2>5, InSyncPartsNext
<1>11. ASSUME UNCHANGED <<st, cbPaths, tree, pipe, xInProgress, dying, replica, xaction, xSessionList>>
       PROVE  Goal
  <2>1. Listed' /\ OnlyUp' /\ Doomed'
    BY <1>0, <1>11 DEF Listed, OnlyUp, Doomed
  <2>2. \A t \in Session, q \in Path : InSyncAt(t, q)'
    BY <1>0, <1>11, KeepInSync
  <2> QED BY <2>1, <2>2, InSyncPartsNext
<1>12. ASSUME NEW s \in Session, HandleTx(s) \/ Tick(s) PROVE Goal
  BY <1>11, <1>12 DEF HandleTx, Tick, holding
<1>13. ASSUME NEW s \in Session, Receive(s) PROVE Goal
  BY <1>13, ReceiveInv
<1>14. CASE UNCHANGED vars
  BY <1>11, <1>14 DEF vars
<1> QED
  BY <1>1, <1>2, <1>3, <1>4, <1>5, <1>6, <1>7, <1>8, <1>9, <1>10, <1>12, <1>13, <1>14
  DEF Next, Finish, Input

(* The inductive invariant: beside Convergence, the pending transactions are   *)
(* listed for the end of the transaction, a session that is not connected is   *)
(* called back no more, and every disconnected session is destroyed once.      *)
THEOREM InvariantCorrect == Spec => []IInv
<1>1. Init => IInv
  BY InvInit
<1>2. IInv /\ [Next]_vars => IInv'
  BY InvStep
<1> QED BY <1>1, <1>2, PTL DEF Spec

(* No connected client misses the last change of an object it subscribed to,  *)
(* however many clients, objects, subscriptions and transactions there are and *)
(* whatever limit disconnects the slow ones.                                   *)
THEOREM ConvergenceCorrect == Spec => []Convergence
<1>1. IInv => Convergence
  BY DEF IInv, InSync, Convergence
<1> QED BY <1>1, InvariantCorrect, PTL
=============================================================================
