------------------------------ MODULE ObexServer ------------------------------
(***************************************************************************)
(* The ObjXp object-exchange server (src/src/ObexServer.cpp with the parts *)
(* of MsgIo.cpp and ObexTree.cpp it drives): one thread that handles the   *)
(* messages of its client sessions one at a time, keeps the shared object  *)
(* tree and forwards every change to the sessions that subscribed to it.   *)
(*                                                                         *)
(* A handler is one action as long as the server does nothing else in      *)
(* between.  Two parts of the code run nested in a handler and are steps   *)
(* of their own: destroying a session that was disconnected (its           *)
(* destructor deletes objects, which notifies others, which may disconnect *)
(* them), and flushing the per-session transactions at the end of a        *)
(* transaction.  No other handler starts while one of them is under way.   *)
(***************************************************************************)
EXTENDS ObexPaths

CONSTANTS
  Session,      \* connection slots (file descriptors)
  Path,         \* object paths
  UserPath,     \* the paths clients write
  SessionPath(_), \* the path /proc/session/SID of a slot
  CbPath,       \* callback paths clients subscribe to
  Val,          \* the object values of clients
  Online,       \* the value of the object at SessionPath
  NoVal,        \* no object
  NoSession,
  DodOpt,       \* the values of the del-on-disconnect option clients use
  Xact,         \* the transactions clients send
  EqualPuts,    \* whether clients put a value equal to the one in the tree
  Threshold,    \* msgListThreshold_
  MaxOps        \* bound: connections accepted plus messages handled

ASSUME SessionAssumption ==
  /\ IsFiniteSet(Session)
  /\ NoSession \notin Session
ASSUME PathAssumption ==
  /\ IsFiniteSet(Path)
  /\ UserPath \subseteq Path
  /\ \A s \in Session : SessionPath(s) \in Path \ UserPath
\* A session's name is its own.
ASSUME NameAssumption == \A s, t \in Session : SessionPath(s) = SessionPath(t) => s = t
ASSUME ValAssumption  == NoVal \notin Val \cup {Online}
ASSUME BoundAssumption ==
  /\ Threshold \in Nat
  /\ MaxOps \in Nat
  /\ EqualPuts \in BOOLEAN
  /\ DodOpt \subseteq BOOLEAN

\* What a path holds: the value, and the number of the operation that put it
\* there.  The number and the path identify the C++ object; a deleted path
\* keeps the number of the object it held.
Data  == [op : 0 .. MaxOps, val : Val \cup {Online, NoVal}]
Empty == [op |-> 0, val |-> NoVal]

\* An update of some paths: the payload of a message or of a transaction.
Update   == UNION {[D -> Data] : D \in SUBSET Path}
NoUpdate == [p \in {} |-> Empty]

\* holds: the message is an ObexTransaction, which refers to its objects until
\* it is serialized; subs: the subscriptions whose end it notifies.
Msg == [upd : Update, holds : BOOLEAN, subs : SUBSET CbPath]

\* The elements of a transaction: a value with the dod option, or a delete.
Element == [val : Val \cup {NoVal}, dod : BOOLEAN]
ASSUME XactAssumption == Xact \subseteq UNION {[D -> Element] : D \in SUBSET UserPath}

VARIABLES
  st,            \* "free", "new", "up", "zombie" (disconnected, not destroyed)
  cbPaths,       \* cbPaths_, the callback paths registered with the tree
  tree,          \* the objects of the ObexTree
  dodMap,        \* dodMap_: path -> operation number of the object put with dod
  pipe,          \* messages to the client, oldest first, not yet received
  nser,          \* how many of them are serialized; the rest is txMsgList_
  stale,         \* msgTimeout_ has passed since lastDeq_
  xaction,       \* xaction_, the changes held back while a transaction runs
  xSessionList,  \* the sessions with a transaction to flush
  xInProgress,   \* xactionInProgress_
  current,       \* the session whose message is being handled
  dying,         \* the sessions being destroyed, the innermost first
  crashed,       \* an assert() of the server failed
  clock,         \* operations so far
  replica,       \* the object tree of each client
  notified,      \* subscriptions each client was told to be complete
  seen,          \* every state the tree has had between two operations
  dodBy          \* who made the last put on a path with the dod option

vars == <<st, cbPaths, tree, dodMap, pipe, nser, stale, xaction, xSessionList,
          xInProgress, current, dying, crashed, clock, replica, notified,
          seen, dodBy>>

Present(p) == tree[p].val # NoVal
One(p, d)  == [q \in {p} |-> d]
Apply(u, f) == [p \in Path |-> IF p \in DOMAIN u THEN u[p] ELSE f[p]]
Join(f, g) == [p \in DOMAIN f \cup DOMAIN g |->
                 IF p \in DOMAIN g THEN g[p] ELSE f[p]]

PutMsg(p, d)      == [upd |-> One(p, d), holds |-> FALSE, subs |-> {}]
TransactionMsg(u) == [upd |-> u, holds |-> TRUE, subs |-> {}]
SubscribedMsg(c)  == [upd |-> NoUpdate, holds |-> FALSE, subs |-> {c}]

\* The sessions the tree calls back when the object at p changes.
Registered(p) == {s \in Session : \E c \in cbPaths[s] : Covers(c, p)}

Backlog(s)    == Len(pipe[s]) - nser[s]
Overloaded(s) == stale[s] /\ Backlog(s) > Threshold

-----------------------------------------------------------------------------
(* Sending                                                                 *)

\* Mutant of Disconnected: the sessions already being destroyed are forgotten.
DisconnectedForgetting(L) ==
  /\ st' = [s \in Session |-> IF s \in L THEN "zombie" ELSE st[s]]
  /\ cbPaths' = [s \in Session |-> IF s \in L THEN {} ELSE cbPaths[s]]
  /\ IF L = {} THEN UNCHANGED dying ELSE dying' \in SetToSeqs(L \ {current'})

\* disconnectSession: the callbacks go and the connection is closed.  A session
\* is destroyed once the last reference to it goes: at the end of the call that
\* disconnected it, or with its own handler when that is running.
Disconnected(L) ==
  /\ st' = [s \in Session |-> IF s \in L THEN "zombie" ELSE st[s]]
  /\ cbPaths' = [s \in Session |-> IF s \in L THEN {} ELSE cbPaths[s]]
  /\ \E order \in SetToSeqs(L \ {current'}) : dying' = order \o dying

\* A message that is not blocked behind another one is serialized at once; it
\* may find the one before it still on its way to the fifo.
MustWait(s) == Backlog(s) > 0
MayWait(s)  == pipe[s] # <<>>

\* Mutant of Enqueue: the message of a session over the limit is dropped, but the
\* session stays connected.
EnqueueDropping(N, m) ==
  LET ok == {s \in N : ~Overloaded(s)}
  IN \E wait \in SUBSET ok :
       /\ \A s \in ok : (MustWait(s) => s \in wait) /\ (s \in wait => MayWait(s))
       /\ pipe' = [s \in Session |-> IF s \in ok THEN Append(pipe[s], m[s]) ELSE pipe[s]]
       /\ nser' = [s \in Session |-> IF s \in ok \ wait THEN Len(pipe[s]) + 1 ELSE nser[s]]
       /\ stale' = [s \in Session |-> stale[s] /\ s \notin ok \ wait]
       /\ Disconnected({})

\* Mutant of Enqueue: a dropped message is counted as sent.
EnqueueCounting(N, m) ==
  LET late == {s \in N : Overloaded(s)}
      ok   == N \ late
  IN \E wait \in SUBSET ok :
       /\ \A s \in ok : (MustWait(s) => s \in wait) /\ (s \in wait => MayWait(s))
       /\ pipe' = [s \in Session |-> IF s \in ok THEN Append(pipe[s], m[s]) ELSE pipe[s]]
       /\ nser' = [s \in Session |-> IF s \in N \ wait THEN Len(pipe[s]) + 1 ELSE nser[s]]
       /\ stale' = [s \in Session |-> stale[s] /\ s \notin ok \ wait]
       /\ Disconnected(late)

\* enqMsg of m[s] to every session s of N: a session over the limit is
\* disconnected instead.
Enqueue(N, m) ==
  LET late == {s \in N : Overloaded(s)}
      ok   == N \ late
  IN \E wait \in SUBSET ok :
       /\ \A s \in ok : (MustWait(s) => s \in wait) /\ (s \in wait => MayWait(s))
       /\ pipe' = [s \in Session |-> IF s \in ok THEN Append(pipe[s], m[s]) ELSE pipe[s]]
       /\ nser' = [s \in Session |-> IF s \in ok \ wait THEN Len(pipe[s]) + 1 ELSE nser[s]]
       /\ stale' = [s \in Session |-> stale[s] /\ s \notin ok \ wait]
       /\ Disconnected(late)

\* Mutant of HoldBack: a session is not listed for the end of the transaction.
HoldBackUnlisted(u) ==
  /\ xaction' = [s \in Session |-> Join(xaction[s], u[s])]
  /\ crashed' = \E s \in Session : DOMAIN xaction[s] \cap DOMAIN u[s] # {}
  /\ UNCHANGED xSessionList

\* A change of a subscribed object while a transaction is in progress: it joins
\* the session's xaction_, where every path may occur only once (assert).
HoldBack(u) ==
  /\ xaction' = [s \in Session |-> Join(xaction[s], u[s])]
  /\ crashed' = \E s \in Session : DOMAIN xaction[s] \cap DOMAIN u[s] # {}
  /\ \E order \in SetToSeqs({s \in Session : DOMAIN xaction[s] = {} /\ DOMAIN u[s] # {}}) :
       xSessionList' = xSessionList \o order

sending == <<st, cbPaths, pipe, nser, stale, dying>>
holding == <<xaction, xSessionList, crashed>>

\* onUpdated and onDeleted of every callback for p, in any order.
Announce(p, d) ==
  IF xInProgress
  THEN /\ HoldBack([s \in Session |-> IF s \in Registered(p) THEN One(p, d) ELSE NoUpdate])
       /\ UNCHANGED sending
  ELSE /\ Enqueue(Registered(p), [s \in Session |-> PutMsg(p, d)])
       /\ UNCHANGED holding

Change(p, d) ==
  /\ tree' = [tree EXCEPT ![p] = d]
  /\ seen' = seen \cup {tree'}
  /\ Announce(p, d)

\* ObexTree::putObject keeps the old object when the new one is equal.
TreePut(p, v, n) ==
  IF tree[p].val = v
  THEN UNCHANGED <<tree, seen, sending, holding>>
  ELSE Change(p, [op |-> n, val |-> v])

TreeDel(p) ==
  IF Present(p)
  THEN Change(p, [tree[p] EXCEPT !.val = NoVal])
  ELSE UNCHANGED <<tree, seen, sending, holding>>

-----------------------------------------------------------------------------
(* The handlers of a session                                               *)

\* No destructor is running.  A failed assert() aborts the server.
NoneDying == dying = <<>> /\ ~crashed

Idle == current = NoSession /\ NoneDying /\ ~xInProgress

\* A session goes on handling the messages it has read, even when one of them
\* got it disconnected.
CanHandle(s) ==
  /\ NoneDying /\ ~xInProgress
  /\ current = s \/ current = NoSession
  /\ st[s] = "up" \/ (st[s] = "zombie" /\ current = s)
  /\ clock < MaxOps

Begin(s) ==
  /\ CanHandle(s)
  /\ current' = s
  /\ clock' = clock + 1

\* The connection is accepted and the session exists.  Its first message, the
\* peer info, concerns no object and meets an empty fifo: it is left out.
Accept(s) ==
  /\ Idle /\ clock < MaxOps
  /\ st[s] = "free"
  /\ st' = [st EXCEPT ![s] = "new"]
  /\ current' = s
  /\ clock' = clock + 1
  /\ UNCHANGED <<cbPaths, tree, dodMap, pipe, nser, stale, xaction, xSessionList,
                 xInProgress, dying, crashed, replica, notified, seen, dodBy>>

\* ... and its object is put, before it enters sessions_.
Greet(s) ==
  /\ current = s /\ NoneDying
  /\ st[s] = "new" /\ ~Present(SessionPath(s))
  /\ current' = current
  /\ TreePut(SessionPath(s), Online, clock)
  /\ UNCHANGED <<dodMap, xInProgress, clock, replica, notified, dodBy>>

\* The C++ object that operation n put at p outlives the handler that runs: the
\* tree, a pending transaction or an unserialized transaction message refers to it.
Held(p, n) ==
  \/ tree[p].op = n /\ Present(p)
  \/ \E s \in Session :
       \/ /\ p \in DOMAIN xaction[s]
          /\ xaction[s][p].op = n /\ xaction[s][p].val # NoVal
       \/ \E i \in nser[s] + 1 .. Len(pipe[s]) :
            /\ pipe[s][i].holds /\ p \in DOMAIN pipe[s][i].upd
            /\ pipe[s][i].upd[p].op = n /\ pipe[s][i].upd[p].val # NoVal

\* Mutant of RecordDod: the entry of a path is not erased before the insert, which
\* then keeps the old one.
RecordDodKeeping(s, P) ==
  LET f == Join([p \in P |-> clock + 1], dodMap[s])
      alive == {p \in DOMAIN f : \E n \in {f[p]} : Held(p, n)'}
  IN dodMap' = IF P = {} THEN dodMap
               ELSE [dodMap EXCEPT ![s] = [p \in alive |-> f[p]]]

\* handlePutObject with the dod option replaces the entries of the paths P by
\* weak references to the new objects, then drops the expired entries. The new
\* ones are not: the handler still has their objects, also one that the tree has
\* refused, whose entry expires when the handler returns.
RecordDod(s, P) ==
  LET f == Join(dodMap[s], [p \in P |-> clock + 1])
      alive == P \cup {p \in DOMAIN f : \E n \in {f[p]} : Held(p, n)'}
  IN dodMap' = IF P = {} THEN dodMap
               ELSE [dodMap EXCEPT ![s] = [p \in alive |-> f[p]]]

HandlePut(s, p, v, dod) ==
  /\ Begin(s)
  /\ EqualPuts \/ tree[p].val # v
  /\ TreePut(p, v, clock + 1)
  /\ RecordDod(s, IF dod THEN {p} ELSE {})
  /\ dodBy' = [dodBy EXCEPT ![p] = IF dod THEN s ELSE NoSession]
  /\ UNCHANGED <<xInProgress, replica, notified>>

HandleDel(s, p) ==
  /\ Begin(s)
  /\ Present(p)
  /\ TreeDel(p)
  /\ UNCHANGED <<dodMap, xInProgress, replica, notified, dodBy>>

\* Mutant of SyncMsgs: the end of the subscription is notified first.
SyncMsgsLate(c, order) ==
  <<SubscribedMsg(c)>> \o [i \in 1 .. Len(order) |-> PutMsg(order[i], tree[order[i]])]

\* The messages that bring a subscriber up to date, and the end notification.
SyncMsgs(c, order) ==
  Append([i \in 1 .. Len(order) |-> PutMsg(order[i], tree[order[i]])], SubscribedMsg(c))

\* Mutant of EnqueueAll: the sync messages overtake those still in txMsgList_.
EnqueueAllFirst(s, msgs) ==
  LET sent == SubSeq(pipe[s], 1, nser[s])
      rest == SubSeq(pipe[s], nser[s] + 1, Len(pipe[s]))
  IN /\ pipe' = [pipe EXCEPT ![s] = sent \o msgs \o rest]
     /\ UNCHANGED <<nser, stale, st, dying>>

\* enqMsg of msgs one after the other to s, n of them serialized at once; the
\* last ones are lost when the limit is hit on the way.
EnqueueAll(s, msgs) ==
  \E n \in 0 .. Len(msgs) :
    /\ MustWait(s) => n = 0
    /\ n = 0 => MayWait(s)
    /\ IF n = 0 /\ stale[s] /\ Backlog(s) + Len(msgs) - 1 > Threshold
       THEN /\ pipe' = [pipe EXCEPT ![s] = @ \o SubSeq(msgs, 1, Threshold + 1 - Backlog(s))]
            /\ Disconnected({s})
            /\ UNCHANGED <<nser, stale>>
       ELSE /\ pipe' = [pipe EXCEPT ![s] = @ \o msgs]
            /\ nser' = [nser EXCEPT ![s] = IF n = 0 THEN @ ELSE Len(pipe[s]) + n]
            /\ stale' = [stale EXCEPT ![s] = @ /\ n = 0]
            /\ UNCHANGED <<st, dying>>

HandleSubscribe(s, c) ==
  /\ Begin(s)
  /\ \E order \in SetToSeqs({p \in Path : Covers(c, p) /\ Present(p)}) :
       EnqueueAll(s, SyncMsgs(c, order))
  /\ cbPaths' = [cbPaths EXCEPT ![s] = IF st'[s] = "zombie" THEN {} ELSE @ \cup {c}]
  /\ UNCHANGED <<tree, dodMap, xInProgress, replica, notified, seen, dodBy, holding>>

\* beginTransaction and the elements of x: the changes are held back, so the
\* server does nothing else until endTransaction.
HandleTransaction(s, x) ==
  LET changed == {p \in DOMAIN x : x[p].val # tree[p].val}
      new == [p \in changed |->
                IF x[p].val = NoVal THEN [tree[p] EXCEPT !.val = NoVal]
                ELSE [op |-> clock + 1, val |-> x[p].val]]
      puts == {p \in DOMAIN x : x[p].val # NoVal}
  IN /\ Begin(s)
     /\ EqualPuts \/ puts \subseteq changed
     /\ xInProgress' = TRUE
     /\ tree' = Apply(new, tree)
     /\ seen' = seen \cup {tree'}
     /\ HoldBack([t \in Session |-> [p \in {q \in changed : t \in Registered(q)} |-> new[p]]])
     /\ UNCHANGED sending
     /\ RecordDod(s, {p \in puts : x[p].dod})
     /\ dodBy' = [p \in Path |-> IF p \notin puts THEN dodBy[p]
                                 ELSE IF x[p].dod THEN s ELSE NoSession]
     /\ UNCHANGED <<replica, notified>>

\* Mutant of FinishTransaction: every change is a message of its own.
FinishTransactionSplit ==
  /\ xInProgress /\ NoneDying /\ xSessionList # <<>>
  /\ current' = current
  /\ LET t == Head(xSessionList)
     IN \/ /\ DOMAIN xaction[t] = {}
           /\ xSessionList' = Tail(xSessionList)
           /\ UNCHANGED <<sending, xaction>>
        \/ \E p \in DOMAIN xaction[t] :
             /\ Enqueue({t}, [s \in Session |-> PutMsg(p, xaction[t][p])])
             /\ xaction' = [xaction EXCEPT ![t] = [q \in DOMAIN @ \ {p} |-> @[q]]]
             /\ UNCHANGED xSessionList
  /\ UNCHANGED <<tree, dodMap, xInProgress, crashed, clock, replica, notified, seen, dodBy>>

\* endTransaction sends each listed session its transaction.  A session that was
\* destroyed in the meantime (an expired weak_ptr) has none.
FinishTransaction ==
  /\ xInProgress /\ NoneDying /\ xSessionList # <<>>
  /\ current' = current
  /\ LET t == Head(xSessionList)
     IN /\ IF DOMAIN xaction[t] = {}
           THEN UNCHANGED sending
           ELSE Enqueue({t}, [s \in Session |-> TransactionMsg(xaction[s])])
        /\ xaction' = [xaction EXCEPT ![t] = NoUpdate]
  /\ xSessionList' = Tail(xSessionList)
  /\ UNCHANGED <<tree, dodMap, xInProgress, crashed, clock, replica, notified, seen, dodBy>>

\* Mutant of EndTransaction: xactionInProgress_ is not reset.
EndTransactionStuck ==
  /\ xInProgress /\ NoneDying /\ xSessionList = <<>>
  /\ UNCHANGED vars

EndTransaction ==
  /\ xInProgress /\ NoneDying /\ xSessionList = <<>>
  /\ xInProgress' = FALSE
  /\ UNCHANGED <<tree, dodMap, current, clock, replica, notified, seen, dodBy, sending, holding>>

\* The reference of the select loop to the session goes.
EndHandler(s) ==
  /\ current = s /\ NoneDying /\ ~xInProgress
  /\ st[s] = "new" => Present(SessionPath(s))
  /\ current' = NoSession
  /\ st' = [st EXCEPT ![s] = IF @ = "new" THEN "up" ELSE @]
  /\ dying' = IF st[s] = "zombie" THEN <<s>> ELSE <<>>
  /\ UNCHANGED <<cbPaths, tree, dodMap, pipe, nser, stale, xInProgress, clock,
                 replica, notified, seen, dodBy, holding>>

\* The client closes the connection, or breaks the framing.
Disconnect(s) ==
  /\ Idle /\ st[s] = "up"
  /\ current' = NoSession
  /\ Disconnected({s})
  /\ UNCHANGED <<tree, dodMap, pipe, nser, stale, xInProgress, clock, replica,
                 notified, seen, dodBy, holding>>

-----------------------------------------------------------------------------
(* Destroying a session                                                    *)

Destroying(s) == ~crashed /\ dying # <<>> /\ Head(dying) = s

DeleteSessionPath(s) ==
  /\ Destroying(s)
  /\ Present(SessionPath(s))
  /\ current' = current
  /\ TreeDel(SessionPath(s))
  /\ UNCHANGED <<dodMap, xInProgress, clock, replica, notified, dodBy>>

\* Mutant of DodPaths: every recorded path, whatever became of its object.
DodPathsAll(s) == DOMAIN dodMap[s]

\* The paths of dodMap_ that the destructor deletes: those whose object exists.
DodPaths(s) == {p \in DOMAIN dodMap[s] : Held(p, dodMap[s][p])}

DeleteDod(s) ==
  /\ Destroying(s)
  /\ ~Present(SessionPath(s))
  /\ current' = current
  /\ \E p \in DodPaths(s) : Present(p) /\ TreeDel(p)
  /\ UNCHANGED <<dodMap, xInProgress, clock, replica, notified, dodBy>>

\* The slot is left as the next session finds it.
Destroyed(s) ==
  /\ Destroying(s)
  /\ ~Present(SessionPath(s))
  /\ \A p \in DodPaths(s) : ~Present(p)
  /\ dying' = Tail(dying)
  /\ st' = [st EXCEPT ![s] = "free"]
  /\ dodMap' = [dodMap EXCEPT ![s] = [p \in {} |-> 0]]
  /\ pipe' = [pipe EXCEPT ![s] = <<>>]
  /\ nser' = [nser EXCEPT ![s] = 0]
  /\ stale' = [stale EXCEPT ![s] = FALSE]
  /\ xaction' = [xaction EXCEPT ![s] = NoUpdate]
  /\ replica' = [replica EXCEPT ![s] = [p \in Path |-> Empty]]
  /\ notified' = [notified EXCEPT ![s] = {}]
  /\ UNCHANGED <<cbPaths, tree, xSessionList, xInProgress, current, crashed, clock, seen, dodBy>>

-----------------------------------------------------------------------------
(* The connection, the clock and the client                                *)

\* Mutant of HandleTx: the fifo is not refilled.
HandleTxNoRefill(s) ==
  /\ Idle /\ st[s] = "up"
  /\ stale' = [stale EXCEPT ![s] = FALSE]
  /\ UNCHANGED <<st, cbPaths, tree, dodMap, pipe, nser, xInProgress, current, dying, clock,
                 replica, notified, seen, dodBy, holding>>

\* handleTx: the fifo drains and more of txMsgList_ is serialized.
HandleTx(s) ==
  /\ Idle /\ st[s] = "up"
  /\ \E n \in nser[s] + 1 .. Len(pipe[s]) : nser' = [nser EXCEPT ![s] = n]
  /\ stale' = [stale EXCEPT ![s] = FALSE]
  /\ UNCHANGED <<st, cbPaths, tree, dodMap, pipe, xInProgress, current, dying, clock,
                 replica, notified, seen, dodBy, holding>>

\* msgTimeout_ passes without a deqMsg.
Tick(s) ==
  /\ ~crashed /\ st[s] = "up" /\ pipe[s] # <<>> /\ ~stale[s]
  /\ stale' = [stale EXCEPT ![s] = TRUE]
  /\ UNCHANGED <<st, cbPaths, tree, dodMap, pipe, nser, xInProgress, current, dying,
                 clock, replica, notified, seen, dodBy, holding>>

\* The client handles the next message.  The last serialized one is not complete
\* while others wait behind it.
Receive(s) ==
  /\ ~crashed /\ st[s] = "up"
  /\ nser[s] > 1 \/ (nser[s] = 1 /\ Len(pipe[s]) = 1)
  /\ replica' = [replica EXCEPT ![s] = Apply(Head(pipe[s]).upd, @)]
  /\ notified' = [notified EXCEPT ![s] = @ \cup Head(pipe[s]).subs]
  /\ pipe' = [pipe EXCEPT ![s] = Tail(@)]
  /\ nser' = [nser EXCEPT ![s] = @ - 1]
  /\ UNCHANGED <<st, cbPaths, tree, dodMap, stale, xInProgress, current, dying, clock,
                 seen, dodBy, holding>>

-----------------------------------------------------------------------------
Init ==
  /\ st = [s \in Session |-> "free"]
  /\ cbPaths = [s \in Session |-> {}]
  /\ tree = [p \in Path |-> Empty]
  /\ dodMap = [s \in Session |-> [p \in {} |-> 0]]
  /\ pipe = [s \in Session |-> <<>>]
  /\ nser = [s \in Session |-> 0]
  /\ stale = [s \in Session |-> FALSE]
  /\ xaction = [s \in Session |-> NoUpdate]
  /\ xSessionList = <<>>
  /\ xInProgress = FALSE
  /\ current = NoSession
  /\ dying = <<>>
  /\ crashed = FALSE
  /\ clock = 0
  /\ replica = [s \in Session |-> [p \in Path |-> Empty]]
  /\ notified = [s \in Session |-> {}]
  /\ seen = {tree}
  /\ dodBy = [p \in Path |-> NoSession]

\* What a client makes the server do.
Input(s) ==
  \/ Accept(s)
  \/ \E p \in UserPath : (\E v \in Val, dod \in DodOpt : HandlePut(s, p, v, dod)) \/ HandleDel(s, p)
  \/ \E c \in CbPath : HandleSubscribe(s, c)
  \/ \E x \in Xact : HandleTransaction(s, x)
  \/ Disconnect(s)

\* What the server does of its own to finish a handler.
Finish ==
  \/ FinishTransaction
  \/ EndTransaction
  \/ \E s \in Session : Greet(s) \/ EndHandler(s)
  \/ \E s \in Session : DeleteSessionPath(s) \/ DeleteDod(s) \/ Destroyed(s)

Next == Finish \/ \E s \in Session : Input(s) \/ HandleTx(s) \/ Tick(s) \/ Receive(s)

Spec == Init /\ [][Next]_vars

\* The event loop runs, every client reads what it is sent and the kernel then
\* reports its connection writable.  Nothing makes a client send anything.
Fairness ==
  /\ WF_vars(Finish)
  /\ \A s \in Session : WF_vars(HandleTx(s)) /\ WF_vars(Receive(s))

FairSpec == Spec /\ Fairness

-----------------------------------------------------------------------------
(* Properties                                                              *)

Batch(D) == UNION {[E -> D] : E \in SUBSET Path}

TypeOK ==
  /\ st \in [Session -> {"free", "new", "up", "zombie"}]
  /\ cbPaths \in [Session -> SUBSET CbPath]
  /\ tree \in [Path -> Data]
  /\ dodMap \in [Session -> Batch(1 .. MaxOps)]
  /\ pipe \in [Session -> Seq(Msg)]
  /\ nser \in [Session -> Nat] /\ \A s \in Session : nser[s] <= Len(pipe[s])
  /\ stale \in [Session -> BOOLEAN]
  /\ xaction \in [Session -> Update]
  /\ xSessionList \in Seq(Session)
  /\ xInProgress \in BOOLEAN
  /\ current \in Session \cup {NoSession}
  /\ dying \in Seq(Session)
  /\ crashed \in BOOLEAN
  /\ clock \in 0 .. MaxOps
  /\ replica \in [Session -> [Path -> Data]]
  /\ notified \in [Session -> SUBSET CbPath]
  /\ seen \subseteq [Path -> Data]
  /\ dodBy \in [Path -> Session \cup {NoSession}]

\* Two paths' contents a client cannot tell apart.
Same(d, e) == d = e \/ (d.val = NoVal /\ e.val = NoVal)

\* The last of the updates of p on their way to s is what the tree holds; when
\* there is none, the client already has it.
Settled(s, p) ==
  IF p \in DOMAIN xaction[s] THEN Same(xaction[s][p], tree[p])
  ELSE LET U == {i \in DOMAIN pipe[s] : p \in DOMAIN pipe[s][i].upd}
       IN \/ U = {} /\ Same(replica[s][p], tree[p])
          \/ \E i \in U : (\A j \in U : j <= i) /\ Same(pipe[s][i].upd[p], tree[p])

\* No update of p is on its way to s, and the client has no object there.
Quiet(s, p) ==
  /\ p \notin DOMAIN xaction[s]
  /\ \A i \in DOMAIN pipe[s] : p \notin DOMAIN pipe[s][i].upd
  /\ replica[s][p].val = NoVal

\* A connected client never misses the last change of an object it subscribed
\* to: whatever the order of puts, deletes, subscriptions, transactions and
\* disconnections, what it has or is being sent ends in what the tree holds
\* (onUpdated, onDeleted, handleSubscribeMsg, finishTransaction).
Convergence ==
  \A s \in Session, p \in Path : st[s] = "up" /\ s \in Registered(p) => Settled(s, p)

\* What makes Convergence inductive: what is held back is listed for the end of
\* the transaction, only connected sessions are registered, a session is destroyed
\* once and only when it was disconnected, and it is sent nothing it did not
\* subscribe to.
Listed == \A s \in Session : DOMAIN xaction[s] # {} => xInProgress /\ s \in ToSet(xSessionList)
OnlyUp == \A s \in Session : st[s] # "up" => cbPaths[s] = {}
Doomed ==
  \A i \in DOMAIN dying :
    /\ st[dying[i]] = "zombie"
    /\ \A j \in DOMAIN dying : dying[i] = dying[j] => i = j
InSync ==
  \A s \in Session, p \in Path :
    st[s] # "zombie" => IF s \in Registered(p) THEN Settled(s, p) ELSE Quiet(s, p)
IInv == TypeOK /\ Listed /\ OnlyUp /\ Doomed /\ InSync

\* The objects under the subscriptions a client was told to be complete are, all
\* together, what the server's tree held at one moment: no half of a
\* transaction, no reordering between objects, no notification before the
\* objects (handleSubscribeMsg, handleTransaction, endTransaction).
SnapshotConsistent ==
  \A s \in Session : st[s] = "up" =>
    \E h \in seen : \A p \in Path :
      (\E c \in notified[s] : Covers(c, p)) => Same(replica[s][p], h[p])

Older(d, e) == d.op < e.op \/ (d.op = e.op /\ (d.val = NoVal => e.val = NoVal))

\* A client never sees an object go back to an earlier state.
MonotoneReplica ==
  [][\A s \in Session : st[s] = "up" /\ st'[s] = "up" =>
       \A p \in Path : Older(replica[s][p], replica'[s][p])]_vars

\* Between handlers every session that was disconnected is destroyed, however
\* many went down with one another, and a session has its object in the tree
\* exactly while it is connected.
PresenceAccurate ==
  Idle => \A s \in Session :
            /\ st[s] \in {"free", "up"}
            /\ Present(SessionPath(s)) <=> (st[s] = "up")

\* An object whose last put carried the dod option is gone once the session that
\* made the put is gone (test/ObexDoDTest.py, test_1).
NoOrphanDod ==
  \A p \in Path : Present(p) /\ dodBy[p] # NoSession => st[dodBy[p]] # "free"

\* Destroying a session deletes no object that was put since without the dod
\* option or by another session (test/ObexDoDTest.py, test_2).
DodOnlyOwn ==
  [][\A p \in UserPath : dying # <<>> /\ Present(p) /\ tree'[p].val = NoVal
       => dodBy[p] = Head(dying)]_vars

\* The assertion of ObexTransaction holds on the server: no session's pending
\* transaction is told of the same path twice.
NoAssertFailure == ~crashed

\* A handler ends, however many sessions its cascade of disconnections and
\* deletions destroys and however long the list of transactions grows.
HandlerEnds == ~Idle ~> Idle \/ crashed

\* Once clients stop, every connected client has the objects it subscribed to.
EventuallyInSync ==
  <>[](crashed \/ \A s \in Session, p \in Path :
         st[s] = "up" /\ s \in Registered(p) => Same(replica[s][p], tree[p]))
=============================================================================
