----------------------------- MODULE ObexSession -----------------------------
(***************************************************************************)
(* A remote client session (ObexRemoteClientSession in                     *)
(* src/src/ObexClient.cpp) with the server session at its other end        *)
(* (src/src/ObexServer.cpp) and the provider that answers its commands     *)
(* (src/src/ObexInfoProvider.cpp): subscriptions and their completion,     *)
(* the client's transaction, commands and answers, over one connection     *)
(* after the other on the same descriptor, hence with the same names.      *)
(*                                                                         *)
(* Messages arrive once and in order (MsgQueue), until the connection goes *)
(* down with those on their way. The two ends are processes; what one of   *)
(* them does with a message is one action.                                 *)
(***************************************************************************)
EXTENDS ObexPaths

CONSTANTS
  UserPath,  \* the objects of applications
  Val, Online, NoVal, Unknown,
  SubList,   \* the lists of callback paths that the client subscribes to
  Callback,  \* its subscription callbacks
  NoCb,
  Request,   \* [op, path]: what it has the provider look up
  Overlap,   \* it subscribes while it waits for the end of a subscription
  Repeat,    \* it subscribes to, or asks, the same again
  MaxConns,  \* bound: connections
  MaxOps     \* bound: what the client and others do

SID == <<"proc", "session", "SID">>
Cmd == Append(SID, "cmd")
Rsp == Append(SID, "rsp")
LocalSubscription == <<"proc", "local", "subscription">>
LogTransaction    == <<"proc", "log", "transaction">>

Path      == UserPath \cup {SID, Cmd, Rsp}
LocalPath == Path \cup {LocalSubscription}

\* Commands do not ask about commands and answers themselves.
ASSUME SessionAssumption ==
  /\ IsFiniteSet(UserPath) /\ UserPath \subseteq Seq(STRING)
  /\ UserPath \cap {SID, Cmd, Rsp, LocalSubscription} = {}
  /\ NoVal \notin Val \cup {Online} \cup SubList /\ Unknown \notin Val \cup {NoVal} /\ NoCb \notin Callback
  /\ \A r \in Request : r.op \in {"ls", "cat"} /\ ~IsPrefix(r.path, Rsp) /\ r.path # Cmd
  /\ Overlap \in BOOLEAN /\ Repeat \in BOOLEAN /\ MaxConns \in Nat /\ MaxOps \in Nat

VARIABLES
  up, down,   \* the messages to the server, and to the client
  \* the server
  tree,       \* the objects of its tree
  node,       \* the nodes of its tree
  serving,    \* there is a session for the connection
  cbPaths,    \* cbPaths_ of it
  \* the client
  connected,  \* there is a session
  peerName,   \* peerName_ is known
  local,      \* the objects of its tree
  subscriptionCallback, \* subscriptionCallback_, NoCb while it listens to none
  xaction,    \* xaction_: whether there is one, and its elements
  \* history
  ops, conns,
  lastSub,    \* the list it last subscribed to
  asked,      \* the subscriptions and commands it waits for
  cmds,       \* its commands
  mine        \* what it last did to an object, Unknown if others have changed it since

server  == <<tree, node, serving, cbPaths>>
client  == <<connected, peerName, local, subscriptionCallback, xaction>>
history == <<ops, conns, lastSub, asked, cmds, mine>>
vars    == <<up, down, server, client, history>>

One(p, v)   == [q \in {p} |-> v]
Apply(u, f) == [p \in DOMAIN f |-> IF p \in DOMAIN u THEN u[p] ELSE f[p]]
With(u, p, v) == [q \in DOMAIN u \cup {p} |-> IF q = p THEN v ELSE u[q]]
Below(f, C) == [p \in {q \in DOMAIN f : \E c \in C : Covers(c, q)} |-> f[p]]
NoXaction   == [on |-> FALSE, upd |-> [p \in {} |-> NoVal]]

\* The last field is for the end of a subscription: what the tree held for it.
Empty           == [p \in {} |-> NoVal]
Msg(kind, u, C) == [kind |-> kind, upd |-> u, paths |-> C, sent |-> Empty]
PeerInfoMsg     == Msg("peer", Empty, {})
ChangeMsg(u)    == Msg("change", u, {})
SubscribeMsg(C) == Msg("subscribe", Empty, C)
NotiMsg(C)      == [Msg("noti", One(LocalSubscription, C), C) EXCEPT !.sent = Below(tree, C)]

Open(C, k)  == [paths |-> C, to |-> k, id |-> 0]
OpenCmd(id) == [paths |-> {}, to |-> NoCb, id |-> id]

-----------------------------------------------------------------------------
(* The server's tree                                                       *)

Above(p) == {SubSeq(p, 1, n) : n \in 0 .. Len(p)}

\* The nodes there may be. No list of names is taken for ENOENT.
Nodes == UNION {Above(p) : p \in Path \cup {Front(SID), LogTransaction} \cup {c.base : c \in UNION SubList}}
ASSUME NamesAssumption == \A names \in SUBSET {Last(n) : n \in Nodes \ {<<>>}} : names # NoVal

\* The nodes the tree has when the objects are f and those of u have been put or
\* deleted: a deletion cleans up the nodes that nothing needs. C are the callback
\* paths of the session.
NodesWith(f, u, C) ==
  LET dels == {p \in DOMAIN u : u[p] = NoVal /\ tree[p] # NoVal}
      all  == node \cup UNION {Above(p) : p \in {q \in DOMAIN u : u[q] # NoVal}}
      way  == UNION {Above(p) : p \in dels} \ {<<>>}
      Needed(n) == (n \in Path /\ f[n] # NoVal) \/ n = Front(SID) \/ \E c \in C : c.base = n
  IN {n \in all : ~\E q \in way : IsPrefix(q, n) /\
                    \A m \in all : IsPrefix(q, m) => m \in way /\ ~Needed(m)}

\* What ls and cat find among the objects f and the nodes n; NoVal is ENOENT.
Found(f, n, r) ==
  CASE r.op = "cat" -> IF r.path \in Path THEN f[r.path] ELSE NoVal
    [] r.op = "ls"  -> IF r.path \in n THEN {Last(q) : q \in {m \in n \ {<<>>} : Parent(m) = r.path}}
                       ELSE NoVal

\* Mutant of Answer: the object is looked up under the name of the last command.
AnswerOld(c) == [id |-> c.id, rsp |-> Found(tree, node, IF tree[Cmd] = NoVal THEN c ELSE tree[Cmd])]

\* handleLsCommand, handleCatCommand.
Answer(c) == [id |-> c.id, rsp |-> Found(tree, node, c)]

\* Mutant of WithAnswer: a command with the id of the last one is taken for a repetition.
WithAnswerOnce(u) ==
  IF Cmd \in DOMAIN u /\ tree[Cmd] = NoVal /\ u[Cmd] # NoVal
  THEN With(u, Rsp, Answer(u[Cmd]))
  ELSE u

\* onUpdated of the provider, called when the object at cmd changes: it puts
\* the answer.
WithAnswer(u) ==
  IF Cmd \in DOMAIN u /\ u[Cmd] # tree[Cmd] /\ u[Cmd] # NoVal
  THEN With(u, Rsp, Answer(u[Cmd]))
  ELSE u

\* Messages to a client that is gone are lost.
Tell(ms) == down' = IF connected THEN down \o ms ELSE down

\* onUpdated and onDeleted of the server session for what u changes, in any
\* order, or in one transaction.
Announce(u, whole) ==
  LET P == {p \in DOMAIN u : u[p] # tree[p] /\ \E c \in cbPaths : Covers(c, p)}
  IN IF whole
     THEN Tell(IF P = {} THEN <<>> ELSE <<ChangeMsg([p \in P |-> u[p]])>>)
     ELSE \E order \in SetToSeqs(P) :
            Tell([i \in DOMAIN order |-> ChangeMsg(One(order[i], u[order[i]]))])

Change(u, whole) ==
  LET w == WithAnswer(u)
  IN /\ tree' = Apply(w, tree)
     /\ node' = NodesWith(tree', w, cbPaths)
     /\ Announce(w, whole)

-----------------------------------------------------------------------------
(* The server session                                                      *)

HandleChange ==
  /\ serving /\ up # <<>> /\ Head(up).kind = "change"
  /\ up' = Tail(up)
  /\ Change(Head(up).upd, Cardinality(DOMAIN Head(up).upd) > 1)
  /\ UNCHANGED <<serving, cbPaths, client, history>>

\* Mutant of Sync: the notification does not wait for the objects.
SyncLate(C, order) ==
  <<NotiMsg(C)>> \o [i \in DOMAIN order |-> ChangeMsg(One(order[i], tree[order[i]]))]

\* The objects there are, and the end of the subscription.
Sync(C, order) ==
  Append([i \in DOMAIN order |-> ChangeMsg(One(order[i], tree[order[i]]))], NotiMsg(C))

HandleSubscribe ==
  /\ serving /\ up # <<>> /\ Head(up).kind = "subscribe"
  /\ LET C == Head(up).paths
     IN /\ cbPaths' = cbPaths \cup C
        /\ node' = node \cup UNION {Above(c.base) : c \in C}
        /\ \E order \in SetToSeqs({p \in Path : tree[p] # NoVal /\ \E c \in C : Covers(c, p)}) :
             Tell(Sync(C, order))
  /\ up' = Tail(up)
  /\ UNCHANGED <<tree, serving, client, history>>

\* Mutant of Gone: the last answer is left behind.
GoneAnswered == [p \in {SID, Cmd} |-> NoVal]
\* Mutant of Gone: the last command is left behind.
GoneAsked == [p \in {SID, Rsp} |-> NoVal]

\* What the destructor of the session deletes.
Gone == [p \in {SID, Cmd, Rsp} |-> NoVal]

\* The connection is closed, by either side; messages that were not read are
\* lost.
Close ==
  /\ serving
  /\ serving' = FALSE
  /\ cbPaths' = {}
  /\ up' = <<>>
  /\ tree' = Apply(Gone, tree)
  /\ node' = NodesWith(tree', Gone, {})
  /\ UNCHANGED <<down, client, history>>

\* Another client puts or deletes.
OtherChange(p, v) ==
  /\ ops < MaxOps /\ ops' = ops + 1
  /\ v # tree[p]
  /\ Change(One(p, v), FALSE)
  /\ mine' = [mine EXCEPT ![p] = IF \E m \in Range(up) : p \in DOMAIN m.upd THEN @ ELSE Unknown]
  /\ UNCHANGED <<up, serving, cbPaths, client, conns, lastSub, asked, cmds>>

-----------------------------------------------------------------------------
(* The client session                                                      *)

\* A message to a server that is gone is lost.
Send(m) == up' = IF serving THEN Append(up, m) ELSE up

Acts == connected /\ ops < MaxOps /\ ops' = ops + 1

\* The two ends are made, and the server says who it is: the name under which
\* the client finds its own session's objects.
Connect ==
  /\ ~connected /\ ~serving /\ conns < MaxConns
  /\ conns' = conns + 1
  /\ connected' = TRUE /\ serving' = TRUE
  /\ tree' = [tree EXCEPT ![SID] = Online]
  /\ node' = node \cup Above(SID)
  /\ down' = <<PeerInfoMsg>> /\ up' = <<>>
  /\ local' = [p \in LocalPath |-> NoVal]
  /\ mine' = [p \in UserPath |-> Unknown]
  /\ UNCHANGED <<cbPaths, peerName, subscriptionCallback, xaction, ops, lastSub, asked, cmds>>

\* The session object goes, with its transaction and its tree.
ClientGone ==
  /\ connected' = FALSE /\ peerName' = FALSE
  /\ local' = [p \in LocalPath |-> NoVal]
  /\ subscriptionCallback' = NoCb
  /\ xaction' = NoXaction
  /\ down' = <<>>
  /\ lastSub' = {} /\ asked' = {} /\ cmds' = <<>>
  /\ UNCHANGED <<up, server, ops, conns, mine>>

Disconnect == connected /\ ClientGone

\* The client finds the connection closed.
Lost == connected /\ ~serving /\ ClientGone

\* subscribe: k is NoCb for a subscription without a callback, which leaves the
\* one there is in place.
Subscribe(C, k) ==
  /\ Acts
  /\ Overlap \/ \A a \in asked : a.paths = {}
  /\ Repeat \/ C # lastSub
  /\ Send(SubscribeMsg(C))
  /\ lastSub' = C
  /\ IF k = NoCb THEN UNCHANGED <<subscriptionCallback, asked>>
     ELSE subscriptionCallback' = k /\ asked' = asked \cup {Open(C, k)}
  /\ UNCHANGED <<down, server, connected, peerName, local, xaction, conns, cmds, mine>>

\* putObject and delObject (v is NoVal) while there is no transaction ...
Write(p, v) ==
  /\ Acts /\ ~xaction.on
  /\ Send(ChangeMsg(One(p, v)))
  /\ mine' = [mine EXCEPT ![p] = v]
  /\ UNCHANGED <<down, server, client, conns, lastSub, asked, cmds>>

\* ... and while there is one, which takes a path once (assert).
WriteLater(p, v) ==
  /\ Acts /\ xaction.on /\ p \notin DOMAIN xaction.upd
  /\ xaction' = [xaction EXCEPT !.upd = With(@, p, v)]
  /\ UNCHANGED <<up, down, server, connected, peerName, local, subscriptionCallback,
                 conns, lastSub, asked, cmds, mine>>

BeginTransaction ==
  /\ Acts /\ ~xaction.on
  /\ xaction' = [NoXaction EXCEPT !.on = TRUE]
  /\ UNCHANGED <<up, down, server, connected, peerName, local, subscriptionCallback,
                 conns, lastSub, asked, cmds, mine>>

Ended(u) ==
  /\ mine' = Apply(u, mine)
  /\ xaction' = NoXaction
  /\ UNCHANGED <<down, server, connected, peerName, local, subscriptionCallback, ops, conns, lastSub, asked, cmds>>

\* Mutant of EndTransaction: the transaction overtakes what was sent before it.
EndTransactionFirst ==
  /\ connected /\ xaction.on
  /\ up' = IF serving THEN <<ChangeMsg(xaction.upd)>> \o up ELSE up
  /\ Ended(xaction.upd)

\* An empty transaction is not sent.
EndTransaction ==
  /\ connected /\ xaction.on
  /\ IF DOMAIN xaction.upd = {} THEN UNCHANGED up ELSE Send(ChangeMsg(xaction.upd))
  /\ Ended(xaction.upd)

AbortTransaction ==
  /\ connected /\ xaction.on
  /\ UNCHANGED up
  /\ Ended(Empty)

\* A client that follows the object at rsp puts a command at cmd, under an id of
\* its choice.
Command(r) ==
  /\ Acts /\ peerName /\ ~xaction.on
  /\ \E c \in lastSub : Covers(c, Rsp)
  /\ LET id == IF Repeat THEN 1 ELSE Len(cmds) + 1
     IN /\ Send(ChangeMsg(One(Cmd, [id |-> id, op |-> r.op, path |-> r.path])))
        /\ asked' = asked \cup {OpenCmd(id)}
  /\ cmds' = Append(cmds, r)
  /\ UNCHANGED <<down, server, client, conns, lastSub, mine>>

\* handlePutObject, handleDelObject, handleTransaction, and what the callbacks
\* that the client has on its tree hear of it: only what changes. The end of a
\* subscription is put like any object; onUpdated tells the one callback.
Receive ==
  /\ connected /\ down # <<>>
  /\ LET m    == Head(down)
         new  == Apply(m.upd, local)
         k    == subscriptionCallback
         Ends == IF new[LocalSubscription] # local[LocalSubscription] THEN {Open(m.paths, k)} ELSE {}
         Answers == IF new[Rsp] \notin {local[Rsp], NoVal} THEN {OpenCmd(new[Rsp].id)} ELSE {}
     IN /\ peerName' = (peerName \/ m.kind = "peer")
        /\ local' = new
        /\ asked' = asked \ (Ends \cup Answers)
  /\ down' = Tail(down)
  /\ UNCHANGED <<up, server, connected, subscriptionCallback, xaction, ops, conns, lastSub, cmds, mine>>

-----------------------------------------------------------------------------
Init ==
  /\ up = <<>> /\ down = <<>>
  /\ tree = [p \in Path |-> NoVal]
  /\ node = Above(Front(SID)) \cup Above(LogTransaction)
  /\ serving = FALSE /\ cbPaths = {}
  /\ connected = FALSE /\ peerName = FALSE
  /\ local = [p \in LocalPath |-> NoVal]
  /\ subscriptionCallback = NoCb
  /\ xaction = NoXaction
  /\ ops = 0 /\ conns = 0
  /\ lastSub = {} /\ asked = {} /\ cmds = <<>>
  /\ mine = [p \in UserPath |-> Unknown]

Next ==
  \/ HandleChange \/ HandleSubscribe \/ Close
  \/ \E p \in UserPath, v \in Val \cup {NoVal} : OtherChange(p, v) \/ Write(p, v) \/ WriteLater(p, v)
  \/ Connect \/ Disconnect \/ Lost \/ Receive
  \/ \E C \in SubList, k \in Callback \cup {NoCb} : Subscribe(C, k)
  \/ BeginTransaction \/ EndTransaction \/ AbortTransaction
  \/ \E r \in Request : Command(r)

\* Both ends read what there is to read, and the client finds out that the
\* connection is closed. Nothing says that it is ever closed, or that the
\* application or other clients do anything.
Fairness ==
  /\ WF_vars(HandleChange) /\ WF_vars(HandleSubscribe)
  /\ WF_vars(Receive) /\ WF_vars(Lost)

Spec == Init /\ [][Next]_vars /\ Fairness

-----------------------------------------------------------------------------
(* Properties                                                              *)

\* Types; what the server keeps for a connection is there only while it lasts
\* (ObexServer.cpp:38-56), and so is what the client waits for.
TypeOK ==
  /\ serving \in BOOLEAN /\ connected \in BOOLEAN /\ peerName \in BOOLEAN
  /\ \A p \in UserPath : {tree[p], local[p]} \subseteq Val \cup {NoVal} /\ mine[p] \in Val \cup {NoVal, Unknown}
  /\ tree[SID] = IF serving THEN Online ELSE NoVal
  /\ ~serving => up = <<>> /\ cbPaths = {} /\ tree[Cmd] = NoVal /\ tree[Rsp] = NoVal
  /\ ~connected => down = <<>> /\ asked = {} /\ ~xaction.on
  /\ cbPaths \subseteq UNION SubList
  /\ {p \in Path : tree[p] # NoVal} \subseteq node
  /\ subscriptionCallback \in Callback \cup {NoCb}
  /\ DOMAIN xaction.upd \subseteq UserPath
  /\ \A a \in asked : a.paths \in SubList \cup {{}} /\ (a.to = NoCb => a.id \in DOMAIN cmds)

\* When the client is told that a subscription is complete, its tree holds what
\* the server's held when it handled the subscription, for every object of the
\* list: what is there has been put, what is not has been deleted, and nothing
\* that changed later has come before.
SyncComplete ==
  [][connected /\ local'[LocalSubscription] # local[LocalSubscription] /\ connected'
     => LET m == Head(down) IN Below([p \in Path |-> local'[p]], m.paths) = m.sent]_vars

\* What the client finds at rsp answers a command that it gave on this
\* connection, although the objects at cmd and rsp have the names they had for
\* the connection before (ObexServer.cpp:42-45).
AnswersOwn == local[Rsp] # NoVal => local[Rsp].id \in DOMAIN cmds

\* An answer says of what the client is subscribed to what the client's own tree
\* says when the answer arrives: it is put in the server's tree among the other
\* changes, and comes to the client among them. (ls lists nodes that hold no
\* objects, too.)
AnswersCurrent ==
  [][connected' /\ local'[Rsp] \notin {local[Rsp], NoVal}
     => LET r    == cmds[local'[Rsp].id]
            C    == IF local[LocalSubscription] = NoVal THEN {} ELSE local[LocalSubscription]
            held == {p \in UserPath : local'[p] # NoVal /\ \E c \in C : Covers(c, p)}
            has  == Found(local', UNION {Above(p) : p \in held}, r)
        IN /\ r.op = "cat" /\ (\E c \in C : Covers(c, r.path)) => local'[Rsp].rsp = has
           /\ r.op = "ls" /\ has # NoVal => local'[Rsp].rsp # NoVal /\ has \subseteq local'[Rsp].rsp]_vars

\* What the client did last to an object, by itself or in a transaction that it
\* ended, stands unless another client changed the object since: nothing that
\* the client sent overtakes anything else, and what it aborted is not sent.
OrderKept ==
  serving => \A p \in UserPath :
    \/ mine[p] \in {Unknown, tree[p]}
    \/ \E m \in Range(up) : p \in DOMAIN m.upd

\* Once the application stops asking, every subscription with a callback has been
\* reported complete to that callback, and every command answered, or the
\* connection is gone.
EveryAnswer == []<>(asked = {})
=============================================================================
