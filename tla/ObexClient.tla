------------------------------ MODULE ObexClient ------------------------------
(***************************************************************************)
(* The sessions of an ObexClient (src/src/ObexClient.cpp) and the          *)
(* connectors that make them (src/src/SocketConnector.cpp).                *)
(*                                                                         *)
(* A session is known by its key. A remote one is made by a connector, and *)
(* the application is told of every outcome and of the session's end; a    *)
(* cohabitant one shares the tree of a server in the same process. What    *)
(* the application's callback does is done while its frame is the top of   *)
(* the stack.                                                              *)
(***************************************************************************)
EXTENDS Naturals, Sequences, FiniteSets, SequencesExt, Functions

CONSTANTS
  RemoteKey, CohabKey, \* the keys that are used for each kind of session
  Retry,    \* the retryPeriod and retryLimit that connect() is called with
  Session,  \* bound: the session objects there can be at a time
  NoSession,
  AtOnce,   \* whether onDisconnected may connect again with the same key
  KeepOld   \* whether a cohabitant session may be made while there is another
            \* object for its key

ASSUME RetryAssumption == Retry \subseteq [period : Nat, limit : Nat]
ASSUME SessionAssumption == NoSession \notin Session
ASSUME UseAssumption == AtOnce \in BOOLEAN /\ KeepOld \in BOOLEAN

Key == RemoteKey \cup CohabKey

VARIABLES
  sessions,   \* sessions_: the object listed for a key
  connectors, \* connectors_: the attempt in progress for a key
  object,     \* the session objects: kind, key, and whether fd() >= 0 (remote)
  held,       \* those the application has a reference to
  proc,       \* the keys of cohabitant sessions with an object in /proc/session
  stack,      \* the callbacks of the application that run
  told,       \* what they were last told of a key
  asked,      \* the keys asked to be connected, with no outcome since
  wanted      \* the keys of cohabitant sessions made and not disconnected

vars == <<sessions, connectors, object, held, proc, stack, told, asked, wanted>>

With(f, k, v) == [x \in DOMAIN f \cup {k} |-> IF x = k THEN v ELSE f[x]]
Without(f, k) == Restrict(f, DOMAIN f \ {k})

Listed(k) == k \in DOMAIN sessions
Objects   == DOMAIN object

\* A session that is connected: a remote one has its descriptor.
Connected(k) == Listed(k) /\ object[sessions[k]].open

-----------------------------------------------------------------------------
(* References                                                              *)

\* Mutant of Settle: a cohabitant session that goes leaves its object in /proc.
SettleLeaving(s, h, f, objs, p) ==
  LET kept == Range(s) \cup h \cup {f[i].obj : i \in DOMAIN f}
  IN /\ sessions' = s /\ held' = h /\ stack' = f /\ proc' = p
     /\ object' = Restrict(objs, DOMAIN objs \cap kept)

\* Mutant of Settle: sessions_ refers to its sessions weakly.
SettleWeak(s, h, f, objs, p) ==
  LET kept == h \cup {f[i].obj : i \in DOMAIN f}
      gone == {objs[o].key : o \in {x \in DOMAIN objs \ kept : objs[x].kind = "cohab"}}
  IN /\ sessions' = Restrict(s, {k \in DOMAIN s : k \notin gone})
     /\ held' = h /\ stack' = f /\ proc' = p \ gone
     /\ object' = Restrict(objs, DOMAIN objs \cap kept)

\* The references are s, h and those of the frames f; objects without one go. The
\* destructor of a cohabitant session disconnects it once more, by its name, and
\* deletes its object in /proc/session; a session that has the same name by then
\* goes with it.
Settle(s, h, f, objs, p) ==
  LET kept(t) == Range(t) \cup h \cup {f[i].obj : i \in DOMAIN f}
      gone    == {objs[o].key : o \in {x \in DOMAIN objs \ kept(s) : objs[x].kind = "cohab"}}
      rest    == Restrict(s, {k \in DOMAIN s : k \notin gone \/ objs[s[k]].kind # "cohab"})
  IN /\ sessions' = rest /\ held' = h /\ stack' = f /\ proc' = p \ gone
     /\ object' = Restrict(objs, DOMAIN objs \cap kept(rest))

Frame(call, k, o) == [call |-> call, key |-> k, obj |-> o]
Top == stack[Len(stack)]

\* An application callback is called.
Tell(call, k, o) ==
  /\ told' = [told EXCEPT ![k] = call]
  /\ asked' = asked \ {k}

-----------------------------------------------------------------------------
(* What the application does, in a callback or otherwise                   *)

MayConnect(k) ==
  AtOnce \/ \A i \in DOMAIN stack : stack[i].call = "disconnected" => stack[i].key # k

Connect(k, r) ==
  /\ k \in RemoteKey /\ MayConnect(k)
  /\ asked' = IF Connected(k) THEN asked ELSE asked \cup {k}
  /\ connectors' = IF k \in DOMAIN connectors \/ Listed(k) THEN connectors
                   ELSE With(connectors, k, [state |-> "idle", retry |-> r, count |-> 0])
  /\ UNCHANGED <<sessions, object, held, proc, stack, told, wanted>>

\* insert() keeps what is listed for the key; the new session is destroyed then.
ConnectCohab(k) ==
  /\ k \in CohabKey
  /\ KeepOld \/ \A o \in Objects : object[o].key # k
  /\ \E o \in Session \ Objects :
       Settle(IF Listed(k) THEN sessions ELSE With(sessions, k, o), held, stack,
              With(object, o, [kind |-> "cohab", key |-> k, open |-> TRUE]), proc \cup {k})
  /\ wanted' = wanted \cup {k}
  /\ UNCHANGED <<connectors, told, asked>>

GetSession(k) ==
  /\ Listed(k)
  /\ held' = held \cup {sessions[k]}
  /\ UNCHANGED <<sessions, connectors, object, proc, stack, told, asked, wanted>>

\* The application lets go of a session object.
Drop(o) ==
  /\ o \in held
  /\ Settle(sessions, held \ {o}, stack, object, proc)
  /\ UNCHANGED <<connectors, told, asked, wanted>>

\* Mutant of DisconnectRemote: the session goes and nobody is told.
DisconnectSilent(o) ==
  /\ object[o].kind = "remote" /\ object[o].open
  /\ Settle(Without(sessions, object[o].key), held, stack,
            [object EXCEPT ![o].open = FALSE], proc)
  /\ UNCHANGED <<connectors, told, asked, wanted>>

\* MsgIoSession::disconnectSession, and ObexClient::onDisconnected up to the
\* application's callback.
DisconnectRemote(o) ==
  LET k == object[o].key
  IN /\ object[o].kind = "remote" /\ object[o].open
     /\ object' = [object EXCEPT ![o].open = FALSE]
     /\ IF Listed(k) /\ sessions[k] = o
        THEN /\ stack' = Append(stack, Frame("disconnected", k, o))
             /\ Tell("disconnected", k, o)
        ELSE UNCHANGED <<stack, told, asked>>
     /\ UNCHANGED <<sessions, connectors, held, proc, wanted>>

\* The session listed under the name goes, whichever it is; nobody is told.
DisconnectCohab(o) ==
  LET k == object[o].key
  IN /\ object[o].kind = "cohab"
     /\ Settle(IF Listed(k) /\ object[sessions[k]].kind = "cohab" THEN Without(sessions, k)
               ELSE sessions, held, stack, object, proc)
     /\ wanted' = IF Listed(k) /\ sessions[k] = o THEN wanted \ {k} ELSE wanted
     /\ UNCHANGED <<connectors, told, asked>>

\* ObexClient::disconnect, or disconnect() of a session the application holds.
Disconnect(o) ==
  /\ o \in Range(sessions) \cup held
  /\ DisconnectRemote(o) \/ DisconnectCohab(o)

-----------------------------------------------------------------------------
(* What the event loop calls                                               *)

\* The session is listed, the connector goes, the application is told.
OnConnected(k) ==
  \E o \in Session \ Objects :
    /\ sessions' = IF Listed(k) THEN sessions ELSE With(sessions, k, o)
    /\ object' = With(object, o, [kind |-> "remote", key |-> k, open |-> TRUE])
    /\ connectors' = Without(connectors, k)
    /\ stack' = Append(stack, Frame("connected", k, o))
    /\ Tell("connected", k, o)

OnConnectionFailed(k) ==
  /\ connectors' = Without(connectors, k)
  /\ stack' = Append(stack, Frame("failed", k, NoSession))
  /\ Tell("failed", k, NoSession)
  /\ UNCHANGED <<sessions, object>>

\* Mutant of MayRetry: one retry too many.
MayRetryOnce(c) == c.retry.period > 0 /\ (c.retry.limit = 0 \/ c.retry.limit >= c.count)

\* A period of 0 is no retry, a limit of 0 no limit.
MayRetry(c) == c.retry.period > 0 /\ (c.retry.limit = 0 \/ c.retry.limit > c.count)

\* Mutant of Failed: retryCount_ is not counted up.
FailedUncounted(k) ==
  IF MayRetry(connectors[k])
  THEN /\ connectors' = [connectors EXCEPT ![k].state = "idle"]
       /\ UNCHANGED <<sessions, object, stack, told, asked>>
  ELSE OnConnectionFailed(k)

\* An attempt has failed. retryCount_ matters only if there is a limit.
Failed(k) ==
  LET c == connectors[k]
  IN IF MayRetry(c)
     THEN /\ connectors' = [connectors EXCEPT ![k].state = "idle",
                              ![k].count = IF c.retry.limit > 0 THEN @ + 1 ELSE @]
          /\ UNCHANGED <<sessions, object, stack, told, asked>>
     ELSE OnConnectionFailed(k)

\* The connector's timer expires: an attempt is made, or the one in progress has
\* come to an end. (One that has not is looked at again, which changes nothing.)
OnTimerExpired(k) ==
  /\ stack = <<>> /\ k \in DOMAIN connectors
  /\ \/ OnConnected(k)
     \/ Failed(k)
     \/ /\ connectors[k].state = "idle"
        /\ connectors' = [connectors EXCEPT ![k].state = "progress"]
        /\ UNCHANGED <<sessions, object, stack, told, asked>>
  /\ UNCHANGED <<held, proc, wanted>>

\* The peer has closed the connection.
HandleRx(o) ==
  /\ stack = <<>> /\ o \in Objects
  /\ DisconnectRemote(o)

\* Mutant of Return: the session stays listed.
ReturnListed ==
  /\ stack # <<>>
  /\ Settle(sessions, held, Front(stack), object, proc)
  /\ UNCHANGED <<connectors, told, asked, wanted>>

\* The application's callback returns; that of onDisconnected before the session
\* is taken off the list.
Return ==
  /\ stack # <<>>
  /\ Settle(IF Top.call = "disconnected" THEN Without(sessions, Top.key) ELSE sessions,
            held, Front(stack), object, proc)
  /\ UNCHANGED <<connectors, told, asked, wanted>>

-----------------------------------------------------------------------------
Init ==
  /\ sessions = <<>> /\ connectors = <<>> /\ object = <<>>
  /\ held = {} /\ proc = {} /\ stack = <<>>
  /\ told = [k \in Key |-> "nothing"]
  /\ asked = {} /\ wanted = {}

Application ==
  \/ \E k \in Key : ConnectCohab(k) \/ GetSession(k) \/ \E r \in Retry : Connect(k, r)
  \/ \E o \in Objects : Disconnect(o) \/ Drop(o)

Next == Application \/ Return \/ (\E k \in Key : OnTimerExpired(k)) \/ \E o \in Objects : HandleRx(o)

Spec == Init /\ [][Next]_vars

\* Callbacks return. Timers expire in the order of their times, so that one is
\* not overtaken for ever by others that are set again, and an attempt in
\* progress comes to an end (the kernel's time-out).
Fairness == WF_vars(Return) /\ \A k \in Key : SF_vars(OnTimerExpired(k))

FairSpec == Spec /\ Fairness

-----------------------------------------------------------------------------
(* Properties                                                              *)

\* Each variable has its type. Whoever refers to a session object refers to one
\* that is there, and one that nobody refers to any more is not left: the list
\* of sessions, the application and the callbacks that run are all there are to
\* refer to it (sessions_ and the session pointers of ObexClient.cpp).
TypeOK ==
  /\ DOMAIN sessions \subseteq Key /\ Range(sessions) \subseteq Objects
  /\ DOMAIN connectors \subseteq RemoteKey
  /\ \A k \in DOMAIN connectors :
       connectors[k] \in [state : {"idle", "progress"}, retry : Retry, count : Nat]
  /\ Objects \subseteq Session
  /\ \A o \in Objects : object[o] \in [kind : {"remote", "cohab"}, key : Key, open : BOOLEAN]
  /\ held \subseteq Objects /\ proc \subseteq CohabKey
  /\ stack \in Seq([call : {"connected", "failed", "disconnected"}, key : Key,
                    obj : Objects \cup {NoSession}])
  /\ told \in [Key -> {"nothing", "connected", "failed", "disconnected"}]
  /\ asked \subseteq RemoteKey /\ wanted \subseteq CohabKey
  /\ Objects \subseteq Range(sessions) \cup held \cup {stack[i].obj : i \in DOMAIN stack}

\* Outside callbacks, what the application was last told of a remote session is
\* so: it may use the session if and only if it was told that it is connected,
\* and no connection is open that it has no way to end (ObexClient::onConnected,
\* onDisconnected).
Truthful ==
  stack = <<>> =>
    /\ \A k \in RemoteKey : told[k] = "connected" <=> Connected(k)
    /\ \A o \in Objects : object[o].kind = "remote" /\ object[o].open =>
         o \in Range(sessions)

\* Outside callbacks, an application that asked for a connection and has not been
\* told of an outcome has a connector at work (ObexClient::connect).
Answered == stack = <<>> => asked \subseteq DOMAIN connectors

\* A connector gives up when it has made all its retries, not before and not
\* after (SocketConnector::onTimerExpired).
GivesUp ==
  [][\A k \in DOMAIN connectors :
       LET c == connectors[k]
       IN /\ c.retry.limit > 0 => c.count <= c.retry.limit
          /\ k \notin DOMAIN connectors' /\ told'[k] = "failed" =>
               c.retry.period = 0 \/ (c.retry.limit > 0 /\ c.count = c.retry.limit)]_vars

\* A cohabitant session lasts until the application disconnects it
\* (ObexCohabClientSession::disconnect, and its destructor).
StaysConnected == wanted \subseteq {k \in DOMAIN sessions : object[sessions[k]].kind = "cohab"}

\* /proc/session has an object for a cohabitant session as long as there is one.
ProcAccurate == proc = {object[o].key : o \in {x \in Objects : object[x].kind = "cohab"}}

\* An attempt with a limit has an outcome.
Outcome ==
  \A k \in RemoteKey :
    k \in DOMAIN connectors /\ (connectors[k].retry.period = 0 \/ connectors[k].retry.limit > 0)
      ~> k \notin DOMAIN connectors
=============================================================================
