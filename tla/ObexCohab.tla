------------------------------ MODULE ObexCohab ------------------------------
(***************************************************************************)
(* The client session of a process that has the server in itself           *)
(* (ObexCohabClientSession in src/src/ObexClient.cpp): a callback of the   *)
(* server's tree that passes what it is told on to the callbacks of the    *)
(* application, as far as these have registered for it.                    *)
(*                                                                         *)
(* Passing on one change, or one object of a new subscription, is an       *)
(* activity on a stack of its own; with the tree's stack of notifying      *)
(* calls it makes up the call stack of the thread.                         *)
(***************************************************************************)
EXTENDS ObexTree

CONSTANTS
  Session,     \* the address of the session's callback
  User,        \* callbacks of the application, registered with the session
  SubPath,     \* the callback paths it subscribes to
  OtherPath,   \* the callback paths that other callbacks of the tree register for
  UserPath,    \* the callback paths it registers them for
  Longer,      \* <<b, p>>: the name of p begins with that of b, in its last token
  SyncDeletes, \* callbacks may delete objects that a subscription has yet to pass on
  MaxSync      \* bound: subscriptions at work at the same time

ASSUME CohabAssumption ==
  /\ Session \in Cb /\ NoCb \notin User
  /\ SubPath \subseteq CbPath /\ OtherPath \subseteq CbPath
  /\ SyncDeletes \in BOOLEAN /\ MaxSync \in Nat
\* The length()-2 of objPathMatchesCbPath wraps for the callback path "/".
ASSUME NotRootChildren == Children(<<>>) \notin SubPath \cup UserPath

VARIABLES
  subscribedPaths, \* subscribedPaths_
  cbMap,           \* cbMap_: the callbacks registered for a callback path
  heard,           \* the last each has heard of an object it is registered for
  fwds             \* the activities

cohabVars == <<subscribedPaths, cbMap, heard, fwds>>
allVars   == <<vars, cohabVars>>

\* objPathMatchesCbPath compares strings: "/h/*" is matched by "/h" itself, and
\* by "/hx".
MatchesCbPath(c, p) ==
  IF c.scope = "subtree" THEN IsPrefix(c.base, p) \/ <<c.base, p>> \in Longer ELSE Covers(c, p)

GetObject(p) ==
  IF \E c \in subscribedPaths : MatchesCbPath(c, p) THEN obj[p] ELSE NoVal

\* Mutant of CallbackSet: only the longest callback path that matches counts.
CallbackSetLongest(p) ==
  LET M == {d \in UserPath : MatchesCbPath(d, p) /\ cbMap[d] # {}}
  IN UNION {cbMap[c] : c \in {d \in M : \A e \in M : Len(e.base) <= Len(d.base)}}

\* getCallbackSet: the callbacks to be called for p.
CallbackSet(p) == UNION {cbMap[c] : c \in {d \in UserPath : MatchesCbPath(d, p)}}

\* u has registered for p, and the session is subscribed to it.
Follows(u, p) == Wants(Session, p) /\ \E c \in UserPath : u \in cbMap[c] /\ Covers(c, p)

-----------------------------------------------------------------------------
(* The call stack                                                          *)

Now        == fwds[Len(fwds)]
SetNow(f)  == fwds' = [fwds EXCEPT ![Len(fwds)] = f]
Activities == {fwds[i] : i \in DOMAIN fwds}
Push(kind, sync, p, v, todo) ==
  fwds' = Append(fwds, [kind |-> kind, at |-> Len(stack'), sync |-> sync, path |-> p,
                        val |-> v, todo |-> todo, cb |-> NoCb])

\* The session is at work on top of the calls of the tree.
Active == fwds # <<>> /\ Now.at = Len(stack)

\* The application runs: in a callback, or because nothing else does.
AppRuns == Callable /\ (Active => Now.cb # NoCb)

\* Callbacks told of an object by a subscription change what Reaction says.
MayReact(p) == AppRuns /\ \A f \in Activities : <<f.path, p>> \in Reaction

Put(p, v) ==
  /\ MayReact(p)
  /\ PutObject(p, v)
  /\ UNCHANGED cohabVars

Del(p) ==
  /\ MayReact(p)
  /\ SyncDeletes \/ \A f \in Activities : p \notin f.sync
  /\ DelObject(p)
  /\ UNCHANGED cohabVars

\* What other callbacks of the tree do.
Others ==
  /\ AppRuns
  /\ \E a \in Cb \ {Session} :
       \/ New(a) \/ Destroy(a)
       \/ \E c \in OtherPath : Register(a, {c}) \/ Unregister(a, {c})
  /\ UNCHANGED cohabVars

-----------------------------------------------------------------------------
(* The session as a callback                                               *)

\* onUpdated, onDeleted of the session: the callbacks are collected first ...
CallNext ==
  /\ Notify
  /\ IF stack'[Len(stack)].cb = Session
     THEN Push("change", {}, Top.path, Top.val, CallbackSet(Top.path))
     ELSE UNCHANGED fwds
  /\ UNCHANGED <<subscribedPaths, cbMap, heard>>

\* Another callback of the tree returns.
ReturnOther ==
  /\ ~Active
  /\ Return
  /\ UNCHANGED cohabVars

EndTreeCall ==
  /\ EndCall
  /\ UNCHANGED cohabVars

\* ... and called in no particular order.
CallUser ==
  /\ ~crashed /\ Active /\ Now.cb = NoCb
  /\ \E u \in Now.todo :
       /\ SetNow([Now EXCEPT !.cb = u, !.todo = @ \ {u}])
       /\ heard' = [heard EXCEPT ![u][Now.path] = IF Follows(u, Now.path) THEN Now.val ELSE @]
  /\ UNCHANGED <<vars, subscribedPaths, cbMap>>

UserReturns ==
  /\ ~crashed /\ Active /\ Now.cb # NoCb
  /\ SetNow([Now EXCEPT !.cb = NoCb])
  /\ UNCHANGED <<vars, subscribedPaths, cbMap, heard>>

\* The last callback has been called: the session returns to the tree, or the
\* subscription is complete.
EndForward ==
  /\ ~crashed /\ Active /\ Now.cb = NoCb /\ Now.todo = {} /\ Now.sync = {}
  /\ fwds' = Front(fwds)
  /\ IF Now.kind = "change" THEN Return ELSE UNCHANGED vars
  /\ UNCHANGED <<subscribedPaths, cbMap, heard>>

-----------------------------------------------------------------------------
(* What the application asks of the session                                *)

\* registerCallbackAndGetObjSet for every callback path of the list.
ToSync(C) == {p \in Path : obj[p] # NoVal /\ \E c \in C : Covers(c, p)}

Subscribe(C) ==
  /\ AppRuns
  /\ Cardinality({i \in DOMAIN fwds : fwds[i].kind = "sync"}) < MaxSync
  /\ Register(Session, C)
  /\ subscribedPaths' = subscribedPaths \cup C
  /\ Push("sync", ToSync(C), <<>>, NoVal, {})
  /\ UNCHANGED <<cbMap, heard>>

\* The next object of the subscription is looked up and passed on. It must be
\* there (assert).
SyncNext ==
  /\ ~crashed /\ Active /\ Now.cb = NoCb /\ Now.todo = {}
  /\ \E p \in Now.sync :
       /\ crashed' = (obj[p] = NoVal)
       /\ SetNow([Now EXCEPT !.sync = @ \ {p}, !.path = p, !.val = obj[p], !.todo = CallbackSet(p)])
  /\ UNCHANGED <<treeVars, cbVars, stack, subscribedPaths, cbMap, heard>>

\* The application reads what there is when it registers a callback.
RegisterUser(u, c) ==
  /\ AppRuns /\ Session \in alive
  /\ cbMap' = [cbMap EXCEPT ![c] = @ \cup {u}]
  /\ heard' = [heard EXCEPT ![u] = [p \in Path |->
                IF Covers(c, p) /\ Wants(Session, p) THEN GetObject(p) ELSE @[p]]]
  /\ UNCHANGED <<vars, subscribedPaths, fwds>>

UnregisterUser(u, c) ==
  /\ AppRuns /\ u \in cbMap[c]
  /\ cbMap' = [cbMap EXCEPT ![c] = @ \ {u}]
  /\ heard' = [heard EXCEPT ![u] = [p \in Path |->
                IF \E d \in UserPath : u \in cbMap'[d] /\ Covers(d, p) THEN @[p] ELSE NoVal]]
  /\ UNCHANGED <<vars, subscribedPaths, fwds>>

Forget ==
  /\ subscribedPaths' = {}
  /\ cbMap' = [c \in UserPath |-> {}]
  /\ heard' = [u \in User |-> [p \in Path |-> NoVal]]
  /\ UNCHANGED fwds

\* Mutant of Disconnect: the list is cleared before the callbacks are unregistered.
DisconnectCleared ==
  /\ AppRuns
  /\ Unregister(Session, {})
  /\ Forget

\* The session may be used again. One that is already running goes on with the
\* callbacks it has collected.
Disconnect ==
  /\ AppRuns
  /\ Unregister(Session, subscribedPaths)
  /\ Forget

\* The destructor disconnects too, but a callback that is being destroyed cannot
\* unregister itself: getThisPtr() is null.
DestroySession ==
  /\ AppRuns /\ fwds = <<>>
  /\ Destroy(Session)
  /\ Forget

NewSession ==
  /\ AppRuns
  /\ New(Session)
  /\ UNCHANGED cohabVars

-----------------------------------------------------------------------------
CohabInit ==
  /\ Init
  /\ subscribedPaths = {}
  /\ cbMap = [c \in UserPath |-> {}]
  /\ heard = [u \in User |-> [p \in Path |-> NoVal]]
  /\ fwds = <<>>

CohabNext ==
  \/ \E p \in Path : Del(p) \/ \E v \in Val : Put(p, v)
  \/ Others \/ CallNext \/ ReturnOther \/ EndTreeCall
  \/ CallUser \/ UserReturns \/ EndForward \/ SyncNext
  \/ \E C \in SUBSET SubPath \ {{}} : Subscribe(C)
  \/ \E u \in User, c \in UserPath : RegisterUser(u, c) \/ UnregisterUser(u, c)
  \/ Disconnect \/ DestroySession \/ NewSession

CohabSpec == CohabInit /\ [][CohabNext]_allVars

-----------------------------------------------------------------------------
(* Properties                                                              *)

\* Types; the session is registered with the tree for what it says it subscribed
\* to, and for nothing else, so that disconnect() leaves nothing behind
\* (ObexClient.cpp:331-351).
CohabTypeOK ==
  /\ TypeOK
  /\ subscribedPaths \subseteq SubPath
  /\ want[Session] = subscribedPaths
  /\ cbMap \in [UserPath -> SUBSET User]
  /\ heard \in [User -> [Path -> Val \cup {NoVal}]]
  /\ fwds \in Seq([kind : {"change", "sync"}, at : 0 .. MaxDepth, sync : SUBSET Path,
                   path : Path \cup {<<>>}, val : Val \cup {NoVal},
                   todo : SUBSET User, cb : User \cup {NoCb}])
  /\ \A i \in DOMAIN fwds : fwds[i].at <= Len(stack)

\* A callback of the application that is registered for an object the session is
\* subscribed to has last heard what the tree holds, or is yet to: by a call of
\* the tree that has the session to call, by the session passing it on, or by a
\* subscription that has yet to come to it. That holds whatever is subscribed,
\* registered, changed or disconnected from within such calls, and in whichever
\* order the session and other callbacks are called.
SessionInformed ==
  \A u \in User, p \in Path :
    Follows(u, p) =>
      \/ heard[u][p] = obj[p]
      \/ \E f \in Frames : f.path = p /\ Session \in f.todo
      \/ \E f \in Activities : (f.path = p /\ u \in f.todo) \/ p \in f.sync

\* The callbacks that the session collects for an object have registered for it:
\* with "/h/a/*" for what is below /h/a, as with the tree, whose registerCallback
\* the session's has the name of (getCallbackSet and objPathMatchesCbPath).
OnlyCovered ==
  [][\A i \in DOMAIN fwds' :
       i \notin DOMAIN fwds \/ ~(fwds'[i].todo \subseteq fwds[i].todo) =>
         \A u \in fwds'[i].todo :
           \E c \in UserPath : u \in cbMap[c] /\ Covers(c, fwds'[i].path)]_allVars
=============================================================================
