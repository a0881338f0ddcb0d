# ObjXp: TLA+ models and proofs

ObjXp ("Object eXpress") keeps a tree of objects in a server and copies of parts
of it in clients. A client puts and deletes objects by path, subscribes to parts
of the tree, groups changes into transactions, and may ask that an object be
deleted when the client disconnects ("dod"). The program is single-threaded per
process: a `select()` loop (`BasicIoService`) calls handlers, and handlers call
each other back. What makes it hard is what happens *inside* one handler:
notifying a session may disconnect it, destroying a session deletes objects,
which notifies others. Between handlers it is queues that fill, clients that do
not read, and messages that are split.

This directory models the server with its sessions, the object tree with its
callbacks, the clients' connections and sessions, remote and in the server's
process, the provider that answers commands, the message transport and the
event loop below them. It checks the models with TLC on small instances and
proves most of their safety properties with TLAPS for instances of any size.

## 1. Inventory

| Component (source) | State | Operations | Talks to |
|---|---|---|---|
| Server and sessions (`ObexServer.cpp`) | `sessions_`, `cbPaths_`, `dodMap_`, `xaction_`, `xSessionList_`, `xactionInProgress_`, `lastDeq_` | accept, put, del, subscribe, transaction, onUpdated/onDeleted, enqMsg with its limit, disconnect, destructor | tree (calls and callbacks), message session (base class), event loop |
| Object tree (`ObexTree.cpp`) | nodes with object and three callback maps | putObject, delObject (with clean-up), register/unregisterCallback, getObject, find | calls back sessions, info provider, client callbacks |
| Message session (`MsgIo.cpp`) | `txMsgList_`, `sMsg_`, `txFifo_`, `rxFifo_`, `objInfo_`, `ss_` | enqMsg, sendData, handleTx, handleRx, reassembly | socket, the session classes derived from it |
| Transaction (`ObexTransaction`) | list and map of elements | putObject, delObject (a path once) | client and server sessions |
| Client (`ObexClient.cpp`) | sessions, connectors; each remote session has a tree of its own and a transaction | connect, put, del, subscribe, begin/end/abortTransaction, disconnect | server by messages; user callbacks |
| Cohabitant client session (`ObexClient.cpp`) | `cbMap_`, `subscribedPaths_` | as the client, on the server's tree | tree |
| Connectors (`SocketConnector.cpp`) | `connState_`, `retryCount_` | timer-driven attempts | client, timers |
| Acceptors | listening socket | accept | server |
| Event loop, timers (`BasicIoService.cpp`, `IoObject.cpp`, `TimerObject.cpp`) | registered descriptors, timer list | run, (un)registerRx/Tx/Timer | everything |
| Info provider (`ObexInfoProvider.cpp`) | - | a callback that answers the command put at `/proc/session/SID/cmd` (`ls`, `cat`) with an object at `/proc/session/SID/rsp` | tree |
| Object types, path processor, Yail framework, console, bindings | - | serialization, formatting, reference counts | - |

What makes each correct:

* **Server**: a subscriber never misses the last change of an object; what it
  has been told is complete is one state of the tree; it never sees an object
  go back; `/proc/session` tells who is connected; dod objects go with their
  session and no other object does; handlers end; transactions arrive whole.
* **Tree**: the callbacks called for a change are those registered for it; the
  clean-up removes only nodes that hold nothing; no pointer outlives its node.
* **Message session**: messages arrive once, whole, in order; the fifos are
  never overrun; a queue never stands still while the client reads.
* **Client**: its tree follows the server's; a subscription's completion is
  reported, and when it is the objects are there; a transaction is sent once or
  not at all, in its place among the client's other changes.
* **Cohabitant session**: the application's callbacks are told what the tree
  holds; a disconnected session is registered nowhere.
* **Info provider**: every command is answered, with an answer of its own
  connection that agrees with the changes that come with it.
* **Connector**: at most `retryLimit` attempts; exactly one outcome is reported.
* **Event loop**: a handler is called only for a descriptor that is ready and
  still registered; timers expire in order and once.

`PROJECT.json` lists, as hazards, the lines where these are at risk and the
properties that cover them.

## 2. The modules

| Module | Models |
|---|---|
| `ObexPaths` | object paths, the three kinds of callback path, which objects each covers |
| `ObexServer` | the server, its sessions, the tree as a map, and the clients as receivers |
| `ObexServerProofs` | proofs about the server: types, the inductive invariant, convergence |
| `ObexServerHistoryProofs` | proofs about the server: what clients see over time, the sessions' objects, the dod option |
| `MsgQueue` | what one direction of a message session promises (abstract) |
| `MsgIo` | one direction of a message session, down to bytes; implements `MsgQueue` |
| `ObexTree` | the nodes of the tree, its callback maps, and calls within calls |
| `BasicIoService` | the event loop: rounds of `select()`, descriptors, timers |
| `ObexClient` | a client's sessions and connectors, and what the application is told |
| `ObexCohab` | a client session in the server's process, on top of `ObexTree` |
| `ObexSession` | a remote client session, the server session at its other end, and the info provider |
| `MsgIoProofs` | proofs about a message session, among them that it implements `MsgQueue` |
| `ObexTreeProofs` | proofs about the tree's nodes, callbacks and nested calls |
| `ObexCohabProofs` | proofs about the cohabitant session, on those about the tree |
| `ObexClientProofs` | proofs about the client's sessions and connectors |
| `BasicIoServiceProofs` | proofs about the loop's tables and its list of timers |
| `ObexSessionProofs` | proofs about a remote session: what is on its way between the two ends |
| `MCObexServer`, `MCMsgIo`, `MCObexTree`, `MCBasicIoService`, `MCObexClient`, `MCObexCohab`, `MCObexSession` | small instances for TLC |

`ObexServer` rests on the others by what they establish: it takes the tree as a
map with subscribers that are told of each change (`Informed` of `ObexTree`), a
session as a queue (`MsgQueue`), and the loop as one handler at a time.

### ObexServer

One `ObexServerSession` per slot `s` (a descriptor; a slot is reused).

| Variable | Code |
|---|---|
| `st[s]` | lifetime: `free`; `new` (constructor runs); `up`; `zombie` (disconnected, references remain) |
| `cbPaths[s]` | `cbPaths_`, and the session's entries in the tree's callback maps |
| `tree` | the objects of `obexTree_`; each with the number of the operation that put it, which with the path stands for the C++ object's identity |
| `dodMap[s]` | `dodMap_`, weak references by that number; `Held` is "the weak reference locks" (once the handler has returned) |
| `pipe[s]`, `nser[s]` | messages not yet received, the first `nser[s]` serialized, the rest in `txMsgList_` |
| `stale[s]` | `msgTimeout_` seconds since `lastDeq_` |
| `xaction[s]`, `xSessionList`, `xInProgress` | the variables of those names |
| `current`, `dying` | the running handler; the destructors on the stack |
| `replica`, `notified` | the client's tree, and the subscriptions it knows complete |
| `clock`, `seen`, `dodBy`, `crashed` | history: operations, states of the tree, who used the dod option last, a failed assertion |

Handlers and their actions: `onConnected` is `Accept` and `Greet`;
`handlePutObject` is `HandlePut`, `delObject` `HandleDel`, `handleSubscribeMsg`
`HandleSubscribe`, `handleTransaction` `HandleTransaction` (up to
`endTransaction`, whose loop is `FinishTransaction`, one session a step, and
`EndTransaction`); a closed connection is `Disconnect`; the destructor is
`DeleteSessionPath`, `DeleteDod` and `Destroyed`; the return to the loop is
`EndHandler`; `handleTx` is `HandleTx`; `Tick` is time; `Receive` the client.
While `dying` or `xInProgress` says so, only the actions of the running handler
are enabled: the nesting is the code's call stack, not a choice of the model.

A disconnected session is destroyed when its last reference goes. If its own
handler runs, that is when the handler ends, and until then it goes on with the
messages it has read (`CanHandle` admits a zombie). Otherwise it is at the end
of the call that disconnected it, in any order if these were several.

`enqMsg` to several sessions (`Enqueue`) decides for each whether the message is
serialized at once. What the fifo decides there is a choice of the model between
two facts that `MsgIo` explains: a message behind a waiting one waits, and one
that finds everything written does not.

### MsgIo

One direction: the sending end with `txMsgList_` (the messages of `sent` after
the first `nDeq`), `sMsg_`, `txFifo_` and its three indices, the connection
(`conn`), and the receiving end with `rxFifo_` and the reassembly (`objInfo_`,
`ss_`). Bytes are elements of sequences: a data byte says which message and
position it is and whether it is a `=`; the first byte of a header stands for
the five. `txTail_` and `rxTail_` are the lengths of the sequences. The loops of
`sendData` and `handleRx` are steps (`Dequeue`, `SendPart`, `SendDone`;
`MsgReceived`, `ParseDone`), because the two ends are two processes. A write or
read takes any number of bytes. `txTrackers` keeps the end of each message in
`txFifo_` where the code keeps lengths. `sendMsg` may refuse (EBUSY) and, as in
the code, its result is not looked at.

`MsgIo` implements `MsgQueue` under `in <- sent` and `out <-` the messages that
`handled` decodes to; anything but an exact copy decodes to a value that is no
message.

### ObexTree

| Variable | Code |
|---|---|
| `node` | the nodes of `ptree_`, by path |
| `obj` | `oObj_` of each |
| `cbs[c]`, `expired[c]` | the addresses in the callback map that the callback path `c` names (`cCbs_`, `iCbs_` or `aCbs_` of its node), and those whose object is gone |
| `alive` | the addresses with a callback object |
| `want`, `told` | what each is registered for, and the last it heard of each object |
| `stack` | the calls of `putObject` and `delObject` that are notifying |
| `crashed` | `delObject` used a node after it was erased, or an `assert()` failed |

`PutObject` and `DelObject` do what the functions do up to the loop over the
callbacks, `Notify` and `Return` are the iterations of the loop, `EndCall` is
what is left, for `delObject` the clean-up. While a callback runs, it may call
anything: the frames of `stack` are the C++ stack. `Reaction` says which objects
a callback may change that is told of one; `Elsewhere`, every object that is
neither the one it is told of nor below it.

The pointers that `delObject` keeps over its callbacks are the flag `gone`: an
ancestor's node can only be erased with the object's own node, since a node with
children is never erased; so the flag says whether the object's node has been.
`Register` and `Unregister` take a set of callback paths: a session registers
all of a list in one call.

`Reuse` lets a new callback have the address of a destroyed one that a map still
holds. The maps then keep the dead entry, and the new callback hears nothing
(finding 5, `MCObexTree_tree_reuse.cfg`); the runs exclude it.

### BasicIoService

One `run()` of the loop with the acceptor, the sessions and the timers it
serves. The registrations, the descriptors' objects (weak references), the ready
sets of the last `select()`, and the list of timers are variables; a round is
`NextTimer` or `NoTimer` until no timer is due, `Select`, one `Dispatch` per
ready descriptor, and `EndRound`. A handler that runs may close sessions, have a
new one open on a freed descriptor, ask for writing, and set, clear or delete
timers; `Return` is its end. `Arrive` and `Tick` are the world outside.

A round goes on with its ready sets although a descriptor may have been closed,
or closed and opened again. `run()` erases both registrations of a ready
descriptor whose object is not found, which would hit a new session's. It does
not: a new session asks for writing at once, for its peer information, and its
object is registered for reading and for writing from its constructor on.
A deleted timer stays in the list as a dead weak reference until it is met, and
an expired one stays `registered_`, so that registering it again looks for it in
the list first. A delay of 0 is left out: the clock has moved on when it is
added.

### ObexClient

`sessions` and `connectors` are `sessions_` and `connectors_`; `object` holds the
session objects there are, `held` those the application refers to. `Settle` is
what happens when references change: objects without one are destroyed, and the
destructor of a cohabitant session disconnects it by name and deletes its object
in `/proc/session`. `OnTimerExpired` is the connector's timer with its three
results; `OnConnected` and `OnConnectionFailed` call the application, as does
`DisconnectRemote`, and while the callback runs (a frame of `stack`) the
application may connect, disconnect and drop sessions; `Return` is the rest of
the function, for `onDisconnected` the `erase`. `told`, `asked` and `wanted` are
history: the last report, the connections asked for without an outcome, the
cohabitant sessions that should be there.

### ObexCohab

It extends `ObexTree` with the session as one of the tree's callbacks: the call
stack of the thread is `stack`, the tree's calls, with `fwds`, what the session
is doing on top of them. An element of `fwds` is a loop of
`forwardUpdateCallback` or `forwardDeleteCallback` over the callbacks it has
collected (`todo`), for a change (`kind` "change", pushed by `CallNext` when the
tree calls the session) or for a subscription that still has the objects `sync`
to pass on ("sync", pushed by `Subscribe`). `at` is the depth of `stack` below
it, which says who runs: the session if the innermost activity has
`at = Len(stack)` (`Active`), else the tree. `CallUser` and `UserReturns` are
an iteration; `SyncNext` goes to the next object, and `EndForward` returns to
the tree or ends the subscription. While a callback of the application runs,
everything else may happen inside it: puts, deletes, subscriptions, registering,
disconnecting, other callbacks of the tree coming and going (`Others`).

`subscribedPaths` and `cbMap` have the names of the code; `heard` is what each
callback has last heard, and starts with what `getObject` gives when it
registers. `MatchesCbPath` is `objPathMatchesCbPath`, which compares strings and
matches more than the callback path covers; `Longer` lists pairs of names of
which one begins with the other, as "/h/a" and "/h/ax".

`SessionInformed` is the promise of `ObexTree`'s `Informed` one level up: the
tree's call still has the session to call, or the session still has the callback
to call, or a subscription has yet to come to the object, or else the callback
has heard what the tree holds. It needs the reactions to leave the object itself
alone, like `Informed`. With `SyncDeletes` a callback may delete an object that
a subscription has yet to pass on; `assert(obj)` then fails (finding 7).
`OnlyCovered` says that the session calls nobody who has not registered; with names in `Longer` it does, and with an object at the base of
a callback path (finding 8).

### ObexSession

| Variable | Code |
|---|---|
| `up`, `down` | the messages on their way (a `MsgQueue` each way) |
| `tree`, `node` | the objects and nodes of the server's tree: what the two commands look at |
| `serving`, `cbPaths` | there is an `ObexServerSession` for the connection; its `cbPaths_` |
| `connected`, `peerName`, `local` | there is an `ObexRemoteClientSession`; `peerName_` is known; the objects of its tree |
| `subscriptionCallback`, `xaction` | the variables of those names |
| `lastSub`, `asked`, `cmds`, `mine`, `ops`, `conns` | history: the last list subscribed to, what the client waits for, its commands, what it last did to each object, counts |

What one end does with a message is an action: `HandleChange` (a put, a delete
or a transaction, with the answer of the provider when it changes `cmd`, and the
messages to the client in any order the set of callbacks may have),
`HandleSubscribe`, `Receive`. `Close` is the end of the server's session with
its destructor; the client notices (`Lost`) or closes (`Disconnect`) at any
time, and what is on its way is lost. The next connection has the same
descriptor and so the same names: an earlier connection's command and answer
must not be mistaken for its own. A client finds out its name from the server's
`PeerInfoMsg` and gives commands only then. `Overlap` lets it subscribe while an
earlier subscription is under way, `Repeat` subscribe or ask the same again, the
latter under the same id: findings 9 and 10 use them.

A message that ends a subscription carries, as history, what the server's tree
held for it (`sent`), which `SyncComplete` compares with the client's tree when
the completion is reported. `AnswersCurrent` compares an answer with the client's
tree: both come through one queue, so a client that follows an object and asks
for it gets the same from both.

## 3. The runs

| Run | Checks | Shows |
|---|---|---|
| `sync` | `TypeOK`, `Convergence`, `MonotoneReplica`, `NoOrphanDod`, `DodOnlyOwn` | puts, with and without dod, deletes and subscriptions against queues and slow clients |
| `live` | `SnapshotConsistent`, `PresenceAccurate`, `IInv`, `HandlerEnds`, `EventuallyInSync` | transactions of two objects are seen whole, while every session watches everything, so that connections and disconnections disconnect others; the invariant of the proofs; handlers end; clients catch up |
| `dod_repeat` | `NoOrphanDod` violated | finding 1 |
| `dod_overwrite` | `DodOnlyOwn` violated | finding 2 |
| `assert` | `NoAssertFailure` violated | finding 3 |
| `messages` | `TypeOK`, `NoStall`, `StaysOpen`, `Delivery`, `FairDelivery` | messages arrive once, whole, in order, and all of them |
| `rounds` | `TypeOK`, `Agreement`, `Served` | sessions closed and reopened in the middle of a round |
| `timers` | `TimersInOrder`, `TimersFire`, `RunEnds` | timers set, cleared and deleted by callbacks |
| `cohab` | `CohabTypeOK`, `SessionInformed`, `Informed`, `NoDanglingNode`, `NodesKept`, `NoLitter` | a session and another callback on the tree, callbacks that change the tree, register and disconnect |
| `tree_order` | `Informed` violated | finding 4 |
| `client` | `TypeOK`, `Truthful`, `Answered`, `GivesUp`, `StaysConnected`, `ProcAccurate`, `Outcome` | connections made, lost, retried, used and dropped, also in callbacks |
| `session` | `TypeOK`, `AnswersOwn`, `OrderKept`, `SyncComplete`, `AnswersCurrent`, `EveryAnswer` | subscriptions, transactions and commands over connections that break |

**Bounds.** Server: two sessions (a writer and one affected by it; both may be
either, and both may go down together), one or two objects with one or two
values, `Threshold` 0, so that the limit is met by the second waiting message,
and `MaxOps` connections and messages, 4 to 6
(disconnections are not counted): connect both, subscribe, change,
change again, reconnect. With more than one object under a subscription the
sync itself can exceed the limit. Each hazard needs at most one message of each
kind on two sessions, which these allow; every mutant is found within them.
Sessions are symmetric; values are where no transaction names them.
`EqualPuts`, `DodOpt` and `Xact` choose which inputs a run has; `sync`, which
checks the dod properties, leaves out equal puts and transactions because of
findings 1 and 2; `live` has both, and so have the runs of the findings.

Transport: header 2, payload 8, thresholds 2 (a quarter, as in the code), three
messages: a put of 11 bytes with several `=`, which is cut in its data, in its
info or just behind it, depending on what is before it; a transaction after
which no fragment fits; two short messages. The connection holds 4 bytes, less
than any message with its header that matters, so that headers are cut too.

Tree and cohabitant session: `/h/ax` and `/h/ax/b` below it, so that the clean-up
meets nodes with a child, with an object, and with only callbacks; the callback
path `/h/*`, which covers them, and `/h/a/*`, which covers neither and matches
both as a string; the session, another callback of the tree, and two callbacks
of the application, so that at each level one acts while the other is yet to be
called; two calls of the tree within each other, and one subscription at work
(with three calls there is no error either, in a multiple of the time). One
value does: an object changes by going and coming.

Session: two objects, one value, a list for answers and a longer one, one `cat`
and one `ls`, two connections and four operations of the client and others: put,
subscribe, ask twice, or subscribe and ask on both connections, or a transaction
of two objects behind a put. One subscription callback: with two, and an
operation less, there is no error either.

Event loop: `rounds` has three descriptors, the acceptor's and two sessions',
with one timer next to that of `run()`; a session that is closed while its
descriptor is ready and another one opened on it take two. `timers` has three
timers, delays of one or two ticks, and three ticks, so that two timers are due
at once and one is set again behind another.

Client: two remote keys, so that a callback for one acts on the other, a
cohabitant one, three session objects, and all three kinds of retry: none, two,
without end. The passing run leaves out to connect again from `onDisconnected`
(`AtOnce`, finding 6) and to connect a cohabitant key while an object for it
exists (`KeepOld`, section 4).

Findings 4 to 10 come from small instances of their module with the one constant
changed that lets the case happen: `Reaction`, `Reuse`, `AtOnce`, `SyncDeletes`,
`Repeat` and `Overlap`; finding 8 needs no more than the instance of `cohab`, with
`OnlyCovered` as the property. That of finding 4 is the run `tree_order`. The
other six are not among the regular runs; each has a configuration of its own, named with the finding in section 4, with
which TLC finds the property violated in seconds
(`tlc -config MCObexTree_tree_reuse.cfg MCObexTree`). The counterexamples take 15
steps at most; those of the tree need one callback path, those of the session
one connection and two subscriptions.

**Deadlock** is checked for the tree with the cohabitant session and for the
client, where an application may always go on. The server, the remote session
and the transport rest once the bound on operations or messages
is used up and everything is delivered; the loop, when it is left.

**Fairness.** Server: `Finish` (a handler that runs goes on: one thread, no
blocking call), `HandleTx` for a connected session (the loop calls it while it
is registered for writing and the kernel has room, which follows from a client
that reads) and `Receive` (a client that reads). None for clients' requests,
for time, or for disconnections. Transport: both event loops run and the
connection carries bytes. Event loop: the thread goes on, handlers return, and
time passes; nothing makes data arrive or an application call `run()`. Client:
callbacks return, and a timer that is set expires even if others are set again
and again (strong fairness, since the loop's list is in the order of times,
`TimersInOrder`); an attempt in progress ends because the kernel's does. Session: both ends handle
what has arrived, and the client finds a closed connection closed; nothing makes
a connection close or anybody ask.

`crashed` stops the server model (an `assert` aborts the process; the build does
not define `NDEBUG`); the liveness properties say so.

## 4. Findings

1. **dod, equal put** (`ObexServer.cpp:133`). A put with the dod option replaces
   the weak reference in `dodMap_` by one to the new object, even if the tree
   kept the old one because it is equal. The reference expires when the handler
   returns, the destructor finds nothing to delete, and the object stays after
   the session. `ObexDoDTest.py` expects it
   gone (it does not repeat the put). Run `dod_repeat`.
2. **dod, overwritten object** (`ObexServer.cpp:49`). The destructor deletes a
   path if the weak reference locks. A transaction message that waits for a slow
   client refers to its objects, so an object that was overwritten still locks,
   and the one that replaced it is deleted. Run `dod_overwrite`.
3. **Assertion on a path that occurs twice** (`MsgIo.cpp:481`). Flushing the
   transactions may disconnect a session; its destructor deletes dod objects
   while `xactionInProgress_` is still set, so a session whose pending
   transaction has the path already fails the assertion. Run `assert`.

4. **Order of notifications** (`ObexTree.cpp:240`). A callback that changes the
   object it is told of, as `examples/tutorial/AbcSales.cpp:80` does, has the
   callbacks after it in the set told of its change first and of the one before
   it last. A server session among them leaves its client with a state that is
   gone, for good. Run `tree_order`.

5. **An address used again** (`ObexTree.cpp:371`). The maps of callbacks are keyed
   by address, and `insert()` keeps an entry that is there: the dead one of a
   destroyed callback. The callback made at its address since is never called.
   `CreateObject` uses `new`, so a weak reference does not keep the address
   (`Yail.h:93`). TLC: `MCObexTree_tree_reuse.cfg`.
6. **Connecting again** (`ObexClient.cpp:89`). A `connect()` with the key of the
   session that `onDisconnected` reports does nothing, since the session is still
   listed (`:73-79`), and the session is erased afterwards: the application waits
   for an outcome that never comes. TLC: `MCObexClient_client_again.cfg`.
7. **A deleted object in a cohabitant subscription** (`ObexClient.cpp:243`).
   `assert(obj)` fails when a callback deletes an object that is yet to be passed
   on; the server's session skips such objects (`ObexServer.cpp:106`). TLC:
   `MCObexCohab_cohab_assert.cfg`.
8. **Names that begin alike** (`ObexTree.cpp:147`). `/h/a/*` is matched by `/h/ax`
   and by `/h/a`: a cohabitant session calls callbacks for objects that they have
   not registered for, unlike the tree. TLC: `MCObexCohab_cohab_match.cfg`.
9. **The same subscription again** (`ObexClient.cpp:516`). Its completion is an
   object equal to the last one's, which the client's tree refuses: the callback
   is not called. A command equal to the last is refused by the server's tree in
   the same way, and not answered. TLC: `MCObexSession_session_repeat.cfg`.
10. **Two subscriptions at a time** (`ObexClient.cpp:471`). The second replaces the
    callback of the first, and is told of both. TLC: `MCObexSession_session_overlap.cfg`.

Not findings, since nothing in the repository says otherwise, but hypotheses of
the runs and the theorems, without which TLC finds the property violated:

* A cohabitant session is ended by the destructor of an earlier one with its key
  (`ObexClient.cpp:195`; `KeepOld`, `StaysConnected` fails).
* With callbacks that delete objects below the one they are told of,
  `NoDanglingNode` fails: the tree's clean-up goes on with a node that a
  callback's `delObject` has erased (`ObexTree.cpp:310`; `Reaction`).

## 5. What is proved

Each theorem is about the specification of its module, for every value of the
constants that satisfies the named assumptions of the module: any finite sets of
sessions, paths, callbacks, keys, descriptors and timers, any messages and sizes,
any threshold. No bound matters (`MaxOps`, `MaxDepth`, `MaxTime`... are any
numbers). A proof has the same shape everywhere: what the property is silent
about is stated as an invariant of named parts, `Init` establishes it, one lemma
per action or group of actions preserves it, and temporal logic does the rest.
TLC checked each part on the runs before it was proved.

### The server (`ObexServerProofs`)

`TypeCorrect`, `InvariantCorrect` (`IInv`) and `ConvergenceCorrect`.

`Convergence` says that for every connected session and every object it is
subscribed to, the last update on its way to the client (in the pending
transaction, else the last in the queue), or else the client's own copy, is what
the tree holds. It is not inductive: it says nothing of a session before its
subscription, of a pending transaction that nobody would flush, or of a slot
that is used again. `IInv` adds what is missing:

* `Listed`: a pending transaction belongs to a running one and its session is in
  `xSessionList`, so the flush will reach it;
* `OnlyUp`: only a connected session is called back;
* `Doomed`: a session being destroyed was disconnected, and is destroyed once;
* `InSync`: sessions are settled for what they subscribed to, and *quiet* for
  everything else: nothing on its way and nothing in the client's tree. That is
  why a new subscription may start from what the tree holds.

The proof follows the calls of the code. Lemmas about the building blocks
(`EnqueueEffect`, `HoldBackEffect`, `DisconnectedEffect`, `EnqueueAllEffect`)
say what they do to the end of a session's stream; `ChangeInv` combines them into
"a change of one object preserves the invariant", which puts, deletes, the
greeting and the destructors cite (`ObjectActionInv`); transactions,
subscriptions, the flush, reception and destruction have a lemma each; `InvStep`
has a case per action. `SettledEnds` replaces "the last update in the queue" by
a form that appending, concatenating and removing the head can be proved about.

### What clients see over time (`ObexServerHistoryProofs`)

`PresenceCorrect`, `MonotoneCorrect` (an action property) and `SnapshotCorrect`
without a hypothesis; `NoOrphanCorrect` for `~EqualPuts`, and `DodOnlyOwnCorrect`
(an action property) for `~EqualPuts` and `PlainXacts` (no element of a
transaction has the dod option). The hypotheses exclude just what findings 1 and
2 of section 4 use, where TLC finds the two properties violated.

What an action does to one session is one of five things (`Moves`, `StepMoves`):
its queue stays (`Kept`), it is sent messages with what the tree holds (`Sent`), or
its pending transaction (`Flushed`), its client handles a message (`Received`), or its
slot is left empty (`Cleared`). What it does to one object is to put one of the
current operation or to delete it (`Puts`, `Deletes`). The invariants are about
these, so none of them looks at the 17 actions again except for what they say
about `clock`, `current`, `dying` and `dodMap`. Each comes on top of `IInv`:

* `Attended`, `Shown`, `DodUser`, for `PresenceAccurate`: only the session whose
  handler runs is new; one that was disconnected is in `dying` or has its handler
  running; its object is in the tree from the greeting to the destructor.
* `Stamped`, `Ordered`, for `MonotoneReplica`: what a client has of an object,
  each update in its queue, the one in its pending transaction and the tree grow
  newer in this order (`Ageing`). A put has a number greater than the object it
  replaces; for a session's own object that rests on the slot having taken an
  operation since (`ClockEffect`).
* `Snapshots`: not only what the client has now, but what it will have after each
  message of its queue is, for what it will then know to be complete, a state in
  `seen` (`Shows`). With what was put in the queue last it is what the tree holds
  now, by `InSync`; the messages of a subscription in between add only what the
  tree holds, to somebody who already had it; and reception only shifts the
  positions.
* `Recorded`, for `NoOrphanDod`: an object put with the option has an entry in
  `dodMap` of who put it, with its number. The clean-up keeps the entry, since the
  tree refers to the object (`Held`), and a session is not gone before its
  destructor has deleted it.
* `Plain`, for `DodOnlyOwn`: no pending transaction or unserialized message refers
  to what an entry names (`Apart`), so an entry counts only while the tree has the
  object, and then it is the last put's.

`NameAssumption` says that two sessions have two objects: the path contains the
SID.

### A message session (`MsgIoProofs`)

`NoStallCorrect`, `StaysOpenCorrect`, `SessionTypeCorrect`, and
`DeliveryCorrect`: a session implements `MsgQueue`, step by step (`DeliveryStep`:
what hands a message on is `MsgQueue`'s reception, everything else but `EnqMsg`
stutters).

* `SenderOK` and `Flowing` are about the sender alone: where its indices are,
  that the trackers are the ends of the messages in the fifo, and that
  `handleTx` is registered while there is something to write. `NoStall` follows.
* `Buffers`: the receiver's fifo has room whenever it reads.
* `Streamed`: what is in the two fifos and the connection together (`Stream`)
  consists of whole fragments, each of which continues where the one before it
  ends (`Carries`): the first is what the receiver expects, and the last ends
  where the sender will go on.
* `Assembly`: the messages handled are the first ones sent, and `objInfo` and
  `ss` hold just what has arrived of the next.

The stream is the key: where a `write` or `read` cuts it does not change it, so
the two ends need to know nothing of each other. That the reassembled message
is the one sent rests on the first `=` being where the info ends (`HandlesPut`).

### The tree (`ObexTreeProofs`)

* `TreeTypeCorrect`, `NodesKeptCorrect` and `NoLitterCorrect` hold whatever
  callbacks do. For the last, `Swept`: a node that nothing keeps is on the way of
  a deletion on the stack, which has yet to clean up.
* `NoDanglingCorrect` for callbacks that change neither the object they are told
  of nor one below it (`NotBelow`). `Anchored`: the calls on the stack are
  related by `Reaction`, and their nodes are there.
* `InformedCorrect` for callbacks that do not change the object they are told of
  (`NotItself`), and addresses that are not used again (`~Reuse`). `Notified`:
  who registered is in the maps with an entry that has not expired (`Entered`),
  and what a call on the stack tells is what the tree holds (`Current`).

The hypotheses are needed: without them TLC finds violations (run `tree_order`
and section 4). They are about what applications do, and leave the callbacks
free to register, take back, destroy, and change other objects, to any depth.

### The cohabitant session (`ObexCohabProofs`)

A step of `CohabNext` is, for the tree, a step of `ObexTree`, or goes to the next
object of a subscription (`TreeStep`), which keeps the tree's invariants too
(`CohabTreeStep`), so those carry over: `CohabNodesCorrect`, `CohabInformedCorrect`,
`CohabNoDanglingCorrect`. The last has its assertion in addition and needs
`~SyncDeletes`: what is yet to be passed on is there (`ToPass`).

`SessionInformedCorrect` needs `CohabTyped` (activities lie on the stack in
order, each over a running callback), `PassesCurrent` (what is being passed on
is what the tree holds) and `HeardFollowed` (a callback has heard nothing of what it
does not follow), with the tree's `Notified`. `CohabTypeCorrect` contains that
the tree's maps and the session's own agree.

### The client (`ObexClientProofs`)

`ClientTypeCorrect`, which contains that no reference dangles and that no object
is left without one, and `GivesUpCorrect` (an action property) without a
hypothesis, `StaysConnectedCorrect` and `ProcAccurateCorrect` for `~KeepOld`,
`TruthfulCorrect` for `OneKind`, `AnsweredCorrect` for `OneKind` and `~AtOnce`.

`Settle`, which destroys what nobody refers to, takes a table, references and a
stack that differ in every action, so its lemmas (`SettleSound`, `SettleNamed`,
`SettleRetains`, `SettleReferred`) are about any: `Referred` (every object is
listed, held by the application or in the hand of a callback that runs), `Standing` (who refers to an object refers to one
that is there, and is listed by its own key; one that is being reported as
disconnected is closed, listed and reported once), `Named` (one cohabitant object
of a name). `Agreed` relates sessions, connectors and what the application was
told; `Pending` says that what was asked for has a connector.

`~KeepOld` and `~AtOnce` exclude what section 4 names, where TLC finds the
properties violated. `OneKind` says that no key is used both for a remote and
for a cohabitant session: the application chooses the keys, and one key for both
would be two sessions in one entry of `sessions_`.

### The event loop (`BasicIoServiceProofs`)

`AgreementCorrect`, `TimersInOrderCorrect`, `TypeCorrect`, without hypotheses.
`Tables`: each table lists just the open objects that believe they are listed,
and no two open objects share a descriptor; `Rounds`: an object that has a
descriptor left in the round's write set waits for writing, which is why a new
session on a closed descriptor is not taken out of the table. `Waiting`: the
timers that are alive are in order, each once, wherever dead ones are between
them, and a live one that is not registered is not in the list. Lemmas about
`Live`, `Insert` and `Unlist` say what the list is afterwards.

### The remote session (`ObexSessionProofs`)

`SessionTypeCorrect`, `SessionAnswersOwnCorrect`, `SessionOrderKeptCorrect`,
`SessionSyncCompleteCorrect` (an action property) without a hypothesis, and
`SessionAnswersCurrentCorrect` (another) for `~Repeat`: every command has an id
of its own. With equal ids an answer does not tell which command it answers.

`Ends(s, n, b, p, v)` says that who held `b` at `p` holds `v` there after the
first `n` messages of `s`. It takes the place of a fold over the messages, which
would need induction; lemmas say what it is after a message more (`EndsMore`),
when the first is received (`EndsTail`), for fewer, and that it determines `v`.
Every action is one of a few kinds of step (`Steps`), by what it does to the two
queues and the two trees. The invariant has the parts

* `ServerShape`, `ClientShape`: what messages of either direction consist of;
* `Own`: commands and answers anywhere have the number of a command of this
  connection, since what a session leaves at its names is deleted with it;
* `Said`: the updates on their way to the server end in what the client did
  last, for what nobody else has changed since;
* `Follows`: the updates on their way to the client end in what the server's tree
  holds, for what the session covers, and in nothing for anything else;
* `Synced`: whoever receives what is in front of the end of a subscription holds
  what the server held for it (`sent`) when it was put there;
* `Noded`, `Listed`, `Subscribed`, `Numbered`, `Agreeing`, for `AnswersCurrent`:
  the tree's nodes are among those there may be (`Nodes`); the list in the client's
  tree is one that the session covers, and so is the object at `rsp` before a
  command is handled; ids are positions in `cmds`; and an answer on its way agrees
  with what the client will hold when it arrives.

`SessionAssumption` keeps commands from asking about commands and answers, and
`NamesAssumption` says that a list of names is never taken for ENOENT.

### How induction is avoided

The provers cannot instantiate an induction rule. Where a proof needs the first
or the last of some positions, `LeastNumber` gives it, which follows from
`WFMin` and `NatLessThanWellFounded` of the library for any set of numbers.
Definitions are by comprehension for the same reason (`Live` of
`BasicIoService`).

### Only model-checked

* What happens eventually: `HandlerEnds`, `EventuallyInSync`, `FairDelivery`,
  `Served`, `TimersFire`, `RunEnds`, `Outcome`, `EveryAnswer`. They need fairness,
  hence `ENABLED`, which the provers do not support.
* The violations of section 4, which are counterexamples.

Every invariant and every action property of the passing runs is stated by a
theorem.

## 6. Not modelled

* Object values, JSON, path syntax: atoms and sequences of tokens. Every object
  type serializes to JSON, hence to at least one byte (`MessageAssumption`): a
  put with empty data would never be handled (`MsgIo.cpp:312`).
* A message that may not be fragmented and does not fit into an empty fifo (a
  path of 64 KB) would stop its session for good; assumed away.
* Errors of `read` and `write` other than a closed connection.
* In `ObexServer`, the objects at `/proc/session/SID/cmd` and `rsp`, and callback
  clients of the tree other than sessions; `ObexSession` has the former,
  `ObexTree` callbacks of any kind.
* In `ObexSession`, the dod option and the limit of the queue, which `ObexServer`
  has, and what the provider does with a command that has too few arguments or
  is none of its own: nothing. Its `rm` does nothing either, and the switch for
  the transaction log concerns only logging.
* Callbacks of the application that are destroyed without being unregistered
  from a cohabitant session: they hear nothing any more, like those of the tree
  (`USE_WPTR`).
* `find` and printing, which change nothing.
* `pauseRx` and `pauseTx`, which nothing calls; a failed `accept()`, which exits;
  an interrupted `select()`; the counters.
* Console, Python and C bindings, tests, examples.

## 7. Plan

In order:

1. `NoAssertFailure` of `ObexServer` as a theorem for clients that do not use the
   dod option: only a destructor changes a client's object while transactions are
   flushed.
2. `EventuallyInSync` by way of a safety theorem: when nothing is left to send,
   receive or destroy, every client has what the tree holds.
3. An application's callbacks with a life of their own in `ObexCohab`.
