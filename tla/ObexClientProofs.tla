--------------------------- MODULE ObexClientProofs ---------------------------
(***************************************************************************)
(* Proofs about a client's sessions and connectors: what the application   *)
(* is told is so, what it asked for is being done, a connector makes the   *)
(* attempts it was asked for, and a cohabitant session lasts until it is   *)
(* disconnected.                                                           *)
(*                                                                         *)
(* References are what makes it hard: an object that nobody refers to any  *)
(* more is destroyed in the middle of whatever let go of it, and takes     *)
(* others of its name with it.  The lemmas about Settle say what that      *)
(* leaves, for any table of sessions and any stack of callbacks; each      *)
(* action then only has to say what it hands to Settle.                    *)
(***************************************************************************)
EXTENDS ObexClient, SequenceTheorems, TLAPS

Call == {"connected", "failed", "disconnected"}

-----------------------------------------------------------------------------
(* The sessions, whatever the table, the references and the stack are      *)

\* Each variable has its type, and whoever refers to a session object refers to
\* one that is there.
Placed(s, h, f, objs, p) ==
  /\ DOMAIN s \subseteq Key /\ \A k \in DOMAIN s : s[k] \in DOMAIN objs
  /\ DOMAIN objs \subseteq Session
  /\ \A o \in DOMAIN objs : objs[o] \in [kind : {"remote", "cohab"}, key : Key, open : BOOLEAN]
  /\ h \subseteq DOMAIN objs /\ p \subseteq CohabKey
  /\ f \in Seq([call : Call, key : Key, obj : Session \cup {NoSession}])
  /\ \A i \in DOMAIN f : f[i].obj \in DOMAIN objs \cup {NoSession}

\* A session is listed for its own key, which is one of its kind.
Keyed(s, objs) ==
  /\ \A k \in DOMAIN s : objs[s[k]].key = k
  /\ \A o \in DOMAIN objs : \/ objs[o].kind = "remote" /\ objs[o].key \in RemoteKey
                            \/ objs[o].kind = "cohab" /\ objs[o].key \in CohabKey

\* While the application is told that a session is disconnected, the session is
\* closed and still listed; it is told of each session once.
Ending(s, f, objs) ==
  /\ \A i \in DOMAIN f : f[i].call = "disconnected" =>
       /\ f[i].key \in DOMAIN s /\ s[f[i].key] = f[i].obj
       /\ objs[f[i].obj].kind = "remote" /\ ~objs[f[i].obj].open
  /\ \A i, j \in DOMAIN f :
       f[i].call = "disconnected" /\ f[j].call = "disconnected" /\ f[i].key = f[j].key => i = j

Sound(s, h, f, objs, p) == Placed(s, h, f, objs, p) /\ Keyed(s, objs) /\ Ending(s, f, objs)

\* There is one cohabitant session of a name, and /proc/session tells which names
\* have one.
Named(objs, p) ==
  /\ \A o, x \in DOMAIN objs :
       objs[o].kind = "cohab" /\ objs[x].kind = "cohab" /\ objs[o].key = objs[x].key => o = x
  /\ p = {objs[o].key : o \in {x \in DOMAIN objs : objs[x].kind = "cohab"}}

-----------------------------------------------------------------------------
(* What Settle leaves                                                      *)

LEMMA SettleEffect ==
  ASSUME NEW s, NEW h, NEW f, NEW objs, NEW p, Settle(s, h, f, objs, p),
         \A k \in DOMAIN s : s[k] \in DOMAIN objs
  PROVE  /\ held' = h /\ stack' = f /\ proc' \subseteq p
         /\ DOMAIN sessions' \subseteq DOMAIN s
         /\ \A k \in DOMAIN sessions' : sessions'[k] = s[k] /\ s[k] \in DOMAIN object'
         /\ \A k \in DOMAIN s : objs[s[k]].kind # "cohab" => k \in DOMAIN sessions'
         /\ DOMAIN object' \subseteq DOMAIN objs
         /\ \A o \in DOMAIN object' : object'[o] = objs[o]
         /\ \A o \in h : o \in DOMAIN objs => o \in DOMAIN object'
         /\ \A i \in DOMAIN f : f[i].obj \in DOMAIN objs => f[i].obj \in DOMAIN object'
<1> DEFINE kept(t) == Range(t) \cup h \cup {f[i].obj : i \in DOMAIN f}
           gone == {objs[o].key : o \in {x \in DOMAIN objs \ kept(s) : objs[x].kind = "cohab"}}
           left == {k \in DOMAIN s : k \notin gone \/ objs[s[k]].kind # "cohab"}
           rest == Restrict(s, left)
<1>1. /\ sessions' = rest /\ held' = h /\ stack' = f /\ proc' = p \ gone
      /\ object' = Restrict(objs, DOMAIN objs \cap kept(rest))
  BY DEF Settle
<1>2. DOMAIN rest = left /\ \A k \in left : rest[k] = s[k]
  BY DEF Restrict
<1>3. DOMAIN object' = DOMAIN objs \cap kept(rest) /\ \A o \in DOMAIN object' : object'[o] = objs[o]
  BY <1>1 DEF Restrict
<1>4. \A k \in left : s[k] \in kept(rest)
  BY <1>2 DEF Range
<1>5. \A o \in h : o \in kept(rest)
  OBVIOUS
<1>6. \A i \in DOMAIN f : f[i].obj \in kept(rest)
  OBVIOUS
<1>7. left \subseteq DOMAIN s /\ \A k \in DOMAIN s : objs[s[k]].kind # "cohab" => k \in left
  OBVIOUS
<1> HIDE DEF kept, gone, left, rest
<1> QED BY <1>1, <1>2, <1>3, <1>4, <1>5, <1>6, <1>7

LEMMA SettleSound ==
  ASSUME NEW s, NEW h, NEW f, NEW objs, NEW p, Settle(s, h, f, objs, p), Sound(s, h, f, objs, p)
  PROVE  Sound(sessions, held, stack, object, proc)'
<1>1. /\ held' = h /\ stack' = f /\ proc' \subseteq p
      /\ DOMAIN sessions' \subseteq DOMAIN s
      /\ \A k \in DOMAIN sessions' : sessions'[k] = s[k] /\ s[k] \in DOMAIN object'
      /\ \A k \in DOMAIN s : objs[s[k]].kind # "cohab" => k \in DOMAIN sessions'
      /\ DOMAIN object' \subseteq DOMAIN objs
      /\ \A o \in DOMAIN object' : object'[o] = objs[o]
      /\ \A o \in h : o \in DOMAIN objs => o \in DOMAIN object'
      /\ \A i \in DOMAIN f : f[i].obj \in DOMAIN objs => f[i].obj \in DOMAIN object'
  BY SettleEffect DEF Sound, Placed
<1>2. Placed(sessions, held, stack, object, proc)'
  BY <1>1 DEF Sound, Placed
<1>3. Keyed(sessions, object)'
  BY <1>1 DEF Sound, Keyed
<1>4. Ending(sessions, stack, object)'
  <2>1. ASSUME NEW i \in DOMAIN f, f[i].call = "disconnected"
        PROVE  /\ f[i].key \in DOMAIN sessions' /\ sessions'[f[i].key] = f[i].obj
               /\ object'[f[i].obj].kind = "remote" /\ ~object'[f[i].obj].open
    <3>1. /\ f[i].key \in DOMAIN s /\ s[f[i].key] = f[i].obj
          /\ objs[f[i].obj].kind = "remote" /\ ~objs[f[i].obj].open
      BY <2>1 DEF Sound, Ending
    <3> QED BY <1>1, <3>1
  <2> QED BY <1>1, <2>1 DEF Sound, Ending
<1> QED BY <1>2, <1>3, <1>4 DEF Sound

\* Without a second session of a name, Settle takes nothing off the list, and
\* /proc/session stays accurate.
LEMMA SettleNamed ==
  ASSUME NEW s, NEW h, NEW f, NEW objs, NEW p, Settle(s, h, f, objs, p),
         \A k \in DOMAIN s : s[k] \in DOMAIN objs /\ objs[s[k]].key = k, Named(objs, p)
  PROVE  Named(object, proc)' /\ DOMAIN sessions' = DOMAIN s
<1> DEFINE kept(t) == Range(t) \cup h \cup {f[i].obj : i \in DOMAIN f}
           lost == {x \in DOMAIN objs \ kept(s) : objs[x].kind = "cohab"}
           gone == {objs[o].key : o \in lost}
           left == {k \in DOMAIN s : k \notin gone \/ objs[s[k]].kind # "cohab"}
           rest == Restrict(s, left)
<1>1. /\ sessions' = rest /\ proc' = p \ gone
      /\ object' = Restrict(objs, DOMAIN objs \cap kept(rest))
  BY DEF Settle
<1>2. left = DOMAIN s
  <2>1. SUFFICES ASSUME NEW k \in DOMAIN s, k \in gone, objs[s[k]].kind = "cohab"
                 PROVE  FALSE
    OBVIOUS
  <2>2. PICK o \in lost : objs[o].key = k
    BY <2>1
  <2>3. o = s[k]
    BY <2>1, <2>2 DEF Named
  <2>4. s[k] \in kept(s)
    BY DEF Range
  <2> QED BY <2>2, <2>3, <2>4
<1>3. DOMAIN rest = DOMAIN s /\ \A k \in DOMAIN s : rest[k] = s[k]
  BY <1>2 DEF Restrict
<1>4. kept(rest) = kept(s)
  <2>1. Range(rest) = Range(s)
    <3> HIDE DEF rest
    <3> QED BY <1>3 DEF Range
  <2> HIDE DEF rest
  <2> QED BY <2>1
<1>5. DOMAIN object' = DOMAIN objs \cap kept(s) /\ \A o \in DOMAIN object' : object'[o] = objs[o]
  BY <1>1, <1>4 DEF Restrict
<1>6. \A k : k \in proc' <=> \E o \in DOMAIN object' : object'[o].kind = "cohab" /\ object'[o].key = k
  <2>1. ASSUME NEW k, k \in p, k \notin gone
        PROVE  \E o \in DOMAIN object' : object'[o].kind = "cohab" /\ object'[o].key = k
    <3>1. PICK o \in DOMAIN objs : objs[o].kind = "cohab" /\ objs[o].key = k
      BY <2>1 DEF Named
    <3>2. o \in kept(s)
      BY <2>1, <3>1
    <3> HIDE DEF kept
    <3> QED BY <1>5, <3>1, <3>2
  <2>2. ASSUME NEW o \in DOMAIN object', object'[o].kind = "cohab"
        PROVE  object'[o].key \in p /\ object'[o].key \notin gone
    <3>1. o \in DOMAIN objs /\ o \in kept(s) /\ objs[o].kind = "cohab" /\ object'[o] = objs[o]
      BY <1>5, <2>2
    <3>2. objs[o].key \in p
      BY <3>1 DEF Named
    <3>3. ASSUME NEW x \in lost, objs[x].key = objs[o].key PROVE FALSE
      <4>1. x \in DOMAIN objs /\ objs[x].kind = "cohab" /\ x \notin kept(s)
        OBVIOUS
      <4> HIDE DEF kept, lost
      <4> QED BY <3>1, <3>3, <4>1 DEF Named
    <3> HIDE DEF kept, lost
    <3> QED BY <3>1, <3>2, <3>3
  <2> HIDE DEF kept, lost, gone, left, rest
  <2> QED BY <1>1, <2>1, <2>2
<1>7. ASSUME NEW o \in DOMAIN object', NEW x \in DOMAIN object', object'[o].kind = "cohab",
             object'[x].kind = "cohab", object'[o].key = object'[x].key
      PROVE  o = x
  <2> HIDE DEF kept
  <2> QED BY <1>5, <1>7 DEF Named
<1>8. proc' = {object'[o].key : o \in {x \in DOMAIN object' : object'[x].kind = "cohab"}}
  BY <1>6
<1> HIDE DEF kept, lost, gone, left, rest
<1> QED BY <1>1, <1>3, <1>7, <1>8 DEF Named

-----------------------------------------------------------------------------
(* Types                                                                   *)

LEMMA SeqOver ==
  ASSUME NEW S, NEW T, NEW s \in Seq(S), \A k \in DOMAIN s : s[k] \in T
  PROVE  s \in Seq(T)
<1>1. s \in [1 .. Len(s) -> T] /\ Len(s) \in Nat
  OBVIOUS
<1> QED BY <1>1

\* What the top callback leaves when it returns.
LEMMA FrontEffect ==
  ASSUME NEW S, NEW s \in Seq(S), s # <<>>
  PROVE  /\ Front(s) \in Seq(S) /\ DOMAIN Front(s) = DOMAIN s \ {Len(s)}
         /\ \A i \in DOMAIN Front(s) : Front(s)[i] = s[i]
         /\ Len(s) \in DOMAIN s
<1>1. Len(s) \in Nat \ {0}
  OBVIOUS
<1> QED BY <1>1 DEF Front

\* What the rest of the state is, beside the sessions.
Reported ==
  /\ DOMAIN connectors \subseteq RemoteKey
  /\ \A k \in DOMAIN connectors :
       /\ connectors[k] \in [state : {"idle", "progress"}, retry : Retry, count : Nat]
       /\ connectors[k].retry.limit > 0 => connectors[k].count <= connectors[k].retry.limit
  /\ told \in [Key -> {"nothing", "connected", "failed", "disconnected"}]
  /\ asked \subseteq RemoteKey /\ wanted \subseteq CohabKey

Standing == Sound(sessions, held, stack, object, proc)

LEMMA StandingInit == Init => Standing /\ Reported
<1> SUFFICES ASSUME Init PROVE Standing /\ Reported
  OBVIOUS
<1>1. DOMAIN <<>> = {} /\ <<>> \in Seq([call : Call, key : Key, obj : Session \cup {NoSession}])
  OBVIOUS
<1> QED BY <1>1 DEF Init, Standing, Sound, Placed, Keyed, Ending, Reported

LEMMA DisconnectRemoteSound ==
  ASSUME Standing, NEW o \in Objects, DisconnectRemote(o)
  PROVE  Standing'
<1> DEFINE k == object[o].key
           F == Frame("disconnected", k, o)
           Frames == [call : Call, key : Key, obj : Session \cup {NoSession}]
<1>1. /\ object[o].kind = "remote" /\ object[o].open /\ object' = [object EXCEPT ![o].open = FALSE]
      /\ UNCHANGED <<sessions, held, proc>>
      /\ \/ Listed(k) /\ sessions[k] = o /\ stack' = Append(stack, F)
         \/ stack' = stack
  BY DEF DisconnectRemote
<1>2. Placed(sessions, held, stack, object, proc) /\ Keyed(sessions, object)
      /\ Ending(sessions, stack, object)
  BY DEF Standing, Sound
<1>3. /\ DOMAIN object' = DOMAIN object
      /\ \A x \in DOMAIN object : /\ object'[x].kind = object[x].kind /\ object'[x].key = object[x].key
                                  /\ object'[x] \in [kind : {"remote", "cohab"}, key : Key, open : BOOLEAN]
                                  /\ ~object[x].open => ~object'[x].open
      /\ ~object'[o].open
  BY <1>1, <1>2 DEF Placed, Objects
<1>4. F \in Frames /\ F.call = "disconnected" /\ F.key = k /\ F.obj = o
  BY <1>2 DEF Placed, Objects, Frame, Call
<1>5. CASE stack' = stack
  <2>1. Placed(sessions, held, stack, object, proc)'
    BY <1>1, <1>2, <1>3, <1>5 DEF Placed
  <2>2. Keyed(sessions, object)'
    BY <1>1, <1>2, <1>3, <1>5 DEF Keyed, Placed
  <2>3. \A i \in DOMAIN stack : stack[i].call = "disconnected" => stack[i].obj \in DOMAIN object
    BY <1>2 DEF Placed, Ending
  <2>4. Ending(sessions, stack, object)'
    BY <1>1, <1>2, <1>3, <1>5, <2>3 DEF Ending
  <2> QED BY <2>1, <2>2, <2>4 DEF Standing, Sound
<1>6. CASE Listed(k) /\ sessions[k] = o /\ stack' = Append(stack, F)
  <2>1. stack \in Seq(Frames)
    BY <1>2 DEF Placed
  <2>2. /\ stack' \in Seq(Frames) /\ DOMAIN stack' = DOMAIN stack \cup {Len(stack) + 1}
        /\ \A i \in DOMAIN stack : stack'[i] = stack[i]
        /\ stack'[Len(stack) + 1] = F
    <3> HIDE DEF F, Frames
    <3> QED BY <1>4, <1>6, <2>1
  <2>3. Placed(sessions, held, stack, object, proc)'
    <3>1. \A i \in DOMAIN stack' : stack'[i].obj \in DOMAIN object' \cup {NoSession}
      <4> HIDE DEF k, F, Frames
      <4> QED BY <1>2, <1>3, <1>4, <2>2 DEF Placed, Objects
    <3> HIDE DEF k, F
    <3> QED BY <1>1, <1>2, <1>3, <2>2, <3>1 DEF Placed
  <2>4. Keyed(sessions, object)'
    BY <1>1, <1>2, <1>3 DEF Keyed, Placed
  <2>5. Ending(sessions, stack, object)'
    <3>1. ASSUME NEW i \in DOMAIN stack, stack[i].call = "disconnected"
          PROVE  /\ stack[i].key # k
                 /\ stack[i].key \in DOMAIN sessions /\ sessions[stack[i].key] = stack[i].obj
                 /\ stack[i].obj \in DOMAIN object
                 /\ object[stack[i].obj].kind = "remote" /\ ~object[stack[i].obj].open
      <4>1. /\ stack[i].key \in DOMAIN sessions /\ sessions[stack[i].key] = stack[i].obj
            /\ object[stack[i].obj].kind = "remote" /\ ~object[stack[i].obj].open
        BY <1>2, <3>1 DEF Ending
      <4>2. stack[i].obj \in DOMAIN object
        BY <1>2, <4>1 DEF Placed
      <4> QED BY <1>1, <1>6, <4>1, <4>2
    <3> HIDE DEF k, F, Frames
    <3>2. \A i \in DOMAIN stack' : stack'[i].call = "disconnected" =>
            /\ stack'[i].key \in DOMAIN sessions' /\ sessions'[stack'[i].key] = stack'[i].obj
            /\ object'[stack'[i].obj].kind = "remote" /\ ~object'[stack'[i].obj].open
      BY <1>1, <1>3, <1>4, <1>6, <2>2, <3>1 DEF Listed
    <3>3. \A i, j \in DOMAIN stack' :
            stack'[i].call = "disconnected" /\ stack'[j].call = "disconnected"
              /\ stack'[i].key = stack'[j].key => i = j
      BY <1>2, <1>4, <2>2, <3>1 DEF Ending
    <3> QED BY <3>2, <3>3 DEF Ending
  <2> QED BY <2>3, <2>4, <2>5 DEF Standing, Sound
<1> QED BY <1>1, <1>5, <1>6

LEMMA OnTimerExpiredSound ==
  ASSUME Standing, Reported, NEW k \in Key, OnTimerExpired(k)
  PROVE  Standing' /\ Reported'
<1> DEFINE c == connectors[k]
           Frames == [call : Call, key : Key, obj : Session \cup {NoSession}]
<1>1. /\ stack = <<>> /\ k \in DOMAIN connectors /\ UNCHANGED <<held, proc, wanted>>
      /\ OnConnected(k) \/ Failed(k)
           \/ /\ connectors' = [connectors EXCEPT ![k].state = "progress"]
              /\ UNCHANGED <<sessions, object, stack, told, asked>>
  BY DEF OnTimerExpired
<1>2. Placed(sessions, held, stack, object, proc) /\ Keyed(sessions, object)
  BY DEF Standing, Sound
<1>3. k \in RemoteKey /\ c \in [state : {"idle", "progress"}, retry : Retry, count : Nat]
  BY <1>1 DEF Reported
<1>4. \A F \in Frames : /\ <<F>> \in Seq(Frames) /\ Append(<<>>, F) = <<F>>
                        /\ DOMAIN <<F>> = {1} /\ <<F>>[1] = F
  <2> HIDE DEF Frames
  <2> QED OBVIOUS
<1>5. CASE OnConnected(k)
  <2>1. PICK o \in Session \ Objects :
          /\ sessions' = IF Listed(k) THEN sessions ELSE With(sessions, k, o)
          /\ object' = With(object, o, [kind |-> "remote", key |-> k, open |-> TRUE])
          /\ connectors' = Without(connectors, k)
          /\ stack' = Append(stack, Frame("connected", k, o))
          /\ Tell("connected", k, o)
    BY <1>5 DEF OnConnected
  <2>2. /\ DOMAIN object' = DOMAIN object \cup {o} /\ o \notin DOMAIN object
        /\ \A x \in DOMAIN object : object'[x] = object[x]
        /\ object'[o] = [kind |-> "remote", key |-> k, open |-> TRUE]
    BY <2>1 DEF With, Objects
  <2>3. /\ DOMAIN sessions' \subseteq DOMAIN sessions \cup {k}
        /\ \A j \in DOMAIN sessions' : \/ j \in DOMAIN sessions /\ sessions'[j] = sessions[j]
                                       \/ j = k /\ sessions'[j] = o
    BY <2>1 DEF With, Listed
  <2>4. /\ Frame("connected", k, o) \in Frames /\ Frame("connected", k, o).call = "connected"
        /\ Frame("connected", k, o).obj = o
    BY <2>1 DEF Frame, Call
  <2>5. /\ stack' \in Seq(Frames) /\ DOMAIN stack' = {1} /\ stack'[1].obj = o
        /\ stack'[1].call = "connected"
    <3> HIDE DEF Frames
    <3> QED BY <1>1, <1>4, <2>1, <2>4
  <2>6. Placed(sessions, held, stack, object, proc)'
    <3>1. UNCHANGED <<held, proc>>
      BY <1>1
    <3>2. \A i \in DOMAIN stack' : stack'[i].obj \in DOMAIN object'
      BY <2>2, <2>5
    <3>3. object'[o] \in [kind : {"remote", "cohab"}, key : Key, open : BOOLEAN]
      BY <2>2
    <3> QED BY <1>2, <2>1, <2>2, <2>3, <2>5, <3>1, <3>2, <3>3 DEF Placed
  <2>7. Keyed(sessions, object)'
    BY <1>2, <1>3, <2>2, <2>3 DEF Placed, Keyed
  <2>8. Ending(sessions, stack, object)'
    BY <2>5 DEF Ending
  <2>9. Reported'
    BY <1>1, <1>3, <2>1 DEF Reported, Without, Restrict, Tell
  <2> QED BY <2>6, <2>7, <2>8, <2>9 DEF Standing, Sound
<1>6. CASE OnConnectionFailed(k)
  <2>1. /\ connectors' = Without(connectors, k) /\ Tell("failed", k, NoSession)
        /\ stack' = Append(stack, Frame("failed", k, NoSession)) /\ UNCHANGED <<sessions, object>>
    BY <1>6 DEF OnConnectionFailed
  <2>2. /\ Frame("failed", k, NoSession) \in Frames /\ Frame("failed", k, NoSession).call = "failed"
        /\ Frame("failed", k, NoSession).obj = NoSession
    BY DEF Frame, Call
  <2>3. /\ stack' \in Seq(Frames) /\ DOMAIN stack' = {1} /\ stack'[1].obj = NoSession
        /\ stack'[1].call = "failed"
    <3> HIDE DEF Frames
    <3> QED BY <1>1, <1>4, <2>1, <2>2
  <2>4. Placed(sessions, held, stack, object, proc)'
    BY <1>1, <1>2, <2>1, <2>3 DEF Placed
  <2>5. Keyed(sessions, object)' /\ Ending(sessions, stack, object)'
    BY <1>2, <2>1, <2>3 DEF Keyed, Ending
  <2>6. Reported'
    BY <1>1, <1>3, <2>1 DEF Reported, Without, Restrict, Tell
  <2> QED BY <2>4, <2>5, <2>6 DEF Standing, Sound
<1>7. ASSUME \/ /\ MayRetry(c)
                /\ connectors' = [connectors EXCEPT ![k].state = "idle",
                                    ![k].count = IF c.retry.limit > 0 THEN @ + 1 ELSE @]
             \/ connectors' = [connectors EXCEPT ![k].state = "progress"],
             UNCHANGED <<sessions, object, stack, told, asked>>
      PROVE  Standing' /\ Reported'
  <2>1. Standing'
    BY <1>1, <1>7 DEF Standing, Sound, Placed, Keyed, Ending
  <2>2. /\ DOMAIN connectors' = DOMAIN connectors
        /\ \A j \in DOMAIN connectors : j # k => connectors'[j] = connectors[j]
    BY <1>7
  <2>3. c.retry.limit \in Nat /\ c.count \in Nat /\ (c.retry.limit > 0 => c.count <= c.retry.limit)
    BY <1>1, <1>3, RetryAssumption DEF Reported
  <2>4. /\ connectors'[k] \in [state : {"idle", "progress"}, retry : Retry, count : Nat]
        /\ connectors'[k].retry.limit > 0 => connectors'[k].count <= connectors'[k].retry.limit
    <3>1. CASE connectors' = [connectors EXCEPT ![k].state = "progress"]
      BY <1>1, <1>3, <2>3, <3>1
    <3>2. CASE /\ MayRetry(c)
               /\ connectors' = [connectors EXCEPT ![k].state = "idle",
                                    ![k].count = IF c.retry.limit > 0 THEN @ + 1 ELSE @]
      <4>1. connectors'[k] = [c EXCEPT !.state = "idle", !.count = IF c.retry.limit > 0 THEN @ + 1 ELSE @]
        BY <1>1, <3>2
      <4>2. PICK n \in Nat : n = IF c.retry.limit > 0 THEN c.count + 1 ELSE c.count
        BY <2>3
      <4>3. connectors'[k] = [c EXCEPT !.state = "idle", !.count = n]
        BY <4>1, <4>2
      <4>4. /\ connectors'[k].retry = c.retry /\ connectors'[k].count = n
            /\ connectors'[k] \in [state : {"idle", "progress"}, retry : Retry, count : Nat]
        <5> HIDE DEF c
        <5> QED BY <1>3, <4>3
      <4>5. c.retry.limit > 0 => c.count + 1 <= c.retry.limit
        BY <2>3, <3>2 DEF MayRetry
      <4> HIDE DEF c
      <4> QED BY <2>3, <4>2, <4>4, <4>5
    <3> QED BY <1>7, <3>1, <3>2
  <2>5. Reported'
    BY <1>1, <1>7, <2>2, <2>4 DEF Reported
  <2> QED BY <2>1, <2>5
<1>8. CASE Failed(k)
  BY <1>6, <1>7, <1>8 DEF Failed
<1> QED BY <1>1, <1>5, <1>7, <1>8

LEMMA StandingStep ==
  ASSUME Standing, Reported, [Next]_vars
  PROVE  Standing' /\ Reported'
<1> DEFINE Rest == UNCHANGED <<connectors, told, asked, wanted>>
<1>1. ASSUME NEW k \in Key, NEW r \in Retry, Connect(k, r) PROVE Standing' /\ Reported'
  <2>1. Standing'
    BY <1>1 DEF Connect, Standing, Sound, Placed, Keyed, Ending
  <2>2. /\ k \in RemoteKey /\ asked' \subseteq asked \cup {k} /\ UNCHANGED <<told, wanted>>
        /\ \/ connectors' = connectors
           \/ connectors' = With(connectors, k, [state |-> "idle", retry |-> r, count |-> 0])
    BY <1>1 DEF Connect
  <2>3. r.limit \in Nat
    BY RetryAssumption
  <2> QED BY <2>1, <2>2, <2>3 DEF Reported, With
<1>2. ASSUME NEW k \in Key, ConnectCohab(k) PROVE Standing' /\ Reported'
  <2> DEFINE Kept(o) == IF Listed(k) THEN sessions ELSE With(sessions, k, o)
             Made(o) == With(object, o, [kind |-> "cohab", key |-> k, open |-> TRUE])
  <2>1. PICK o \in Session \ Objects : Settle(Kept(o), held, stack, Made(o), proc \cup {k})
    BY <1>2 DEF ConnectCohab
  <2>2. k \in CohabKey /\ wanted' = wanted \cup {k} /\ UNCHANGED <<connectors, told, asked>>
    BY <1>2 DEF ConnectCohab
  <2>3. /\ DOMAIN Made(o) = DOMAIN object \cup {o} /\ o \notin DOMAIN object
        /\ \A x \in DOMAIN object : Made(o)[x] = object[x]
        /\ Made(o)[o] = [kind |-> "cohab", key |-> k, open |-> TRUE]
    BY <2>1 DEF With, Objects
  <2>4. /\ DOMAIN Kept(o) = DOMAIN sessions \cup {k}
        /\ \A j \in DOMAIN sessions : Kept(o)[j] = sessions[j]
        /\ \A j \in DOMAIN Kept(o) : \/ j \in DOMAIN sessions /\ Kept(o)[j] = sessions[j]
                                     \/ j = k /\ Kept(o)[j] = o
    BY DEF With, Listed
  <2> HIDE DEF Kept, Made
  <2>5. Placed(Kept(o), held, stack, Made(o), proc \cup {k})
    <3>1. Placed(sessions, held, stack, object, proc) /\ k \in Key /\ o \in Session
      BY <2>1 DEF Standing, Sound
    <3>2. Made(o)[o] \in [kind : {"remote", "cohab"}, key : Key, open : BOOLEAN]
      BY <2>3
    <3>3. \A i \in DOMAIN stack : stack[i].obj \in DOMAIN Made(o) \cup {NoSession}
      BY <2>3, <3>1 DEF Placed
    <3>4. /\ DOMAIN Kept(o) \subseteq Key /\ \A j \in DOMAIN Kept(o) : Kept(o)[j] \in DOMAIN Made(o)
      BY <2>3, <2>4, <3>1 DEF Placed
    <3> QED BY <2>2, <2>3, <3>1, <3>2, <3>3, <3>4 DEF Placed
  <2>6. Keyed(Kept(o), Made(o))
    BY <2>2, <2>3, <2>4 DEF Standing, Sound, Placed, Keyed
  <2>7. Ending(Kept(o), stack, Made(o))
    <3>1. \A i \in DOMAIN stack : stack[i].call = "disconnected" =>
            stack[i].obj \in DOMAIN object /\ stack[i].key \in DOMAIN sessions
      BY DEF Standing, Sound, Placed, Ending
    <3> QED BY <2>3, <2>4, <3>1 DEF Standing, Sound, Ending
  <2>8. Sound(Kept(o), held, stack, Made(o), proc \cup {k})
    BY <2>5, <2>6, <2>7 DEF Sound
  <2> QED BY <2>1, <2>2, <2>8, SettleSound DEF Standing, Reported
<1>3. ASSUME NEW k \in Key, GetSession(k) PROVE Standing' /\ Reported'
  BY <1>3 DEF GetSession, Listed, Standing, Sound, Placed, Keyed, Ending, Reported
<1>4. ASSUME NEW o \in Objects, Drop(o) PROVE Standing' /\ Reported'
  <2>1. Settle(sessions, held \ {o}, stack, object, proc) /\ Rest
    BY <1>4 DEF Drop
  <2>2. Sound(sessions, held \ {o}, stack, object, proc)
    BY DEF Standing, Sound, Placed
  <2> QED BY <2>1, <2>2, SettleSound DEF Standing, Reported
<1>5. ASSUME NEW o \in Objects, DisconnectRemote(o) PROVE Standing' /\ Reported'
  <2>1. Standing'
    BY <1>5, DisconnectRemoteSound
  <2>2. /\ UNCHANGED <<connectors, wanted>> /\ object[o].key \in Key
        /\ Tell("disconnected", object[o].key, o) \/ UNCHANGED <<told, asked>>
    BY <1>5 DEF DisconnectRemote, Standing, Sound, Placed, Objects
  <2> QED BY <2>1, <2>2 DEF Tell, Reported
<1>6. ASSUME NEW o \in Objects, DisconnectCohab(o) PROVE Standing' /\ Reported'
  <2> DEFINE k == object[o].key
             Left == IF Listed(k) /\ object[sessions[k]].kind = "cohab" THEN Without(sessions, k)
                     ELSE sessions
  <2>1. Settle(Left, held, stack, object, proc) /\ wanted' \subseteq wanted
        /\ UNCHANGED <<connectors, told, asked>>
    BY <1>6 DEF DisconnectCohab
  <2>2. /\ DOMAIN Left \subseteq DOMAIN sessions /\ \A j \in DOMAIN Left : Left[j] = sessions[j]
        /\ \A j \in DOMAIN sessions : object[sessions[j]].kind = "remote" => j \in DOMAIN Left
    BY DEF Without, Restrict, Listed
  <2> HIDE DEF Left
  <2>3. Placed(Left, held, stack, object, proc) /\ Keyed(Left, object)
    BY <2>2 DEF Standing, Sound, Placed, Keyed
  <2>4. Ending(Left, stack, object)
    BY <2>2 DEF Standing, Sound, Ending
  <2>5. Sound(Left, held, stack, object, proc)
    BY <2>3, <2>4 DEF Sound
  <2> QED BY <2>1, <2>5, SettleSound DEF Standing, Reported
<1>7. CASE Return
  <2> DEFINE Left == IF Top.call = "disconnected" THEN Without(sessions, Top.key) ELSE sessions
             F == Front(stack)
  <2>1. stack # <<>> /\ Settle(Left, held, F, object, proc) /\ Rest
    BY <1>7 DEF Return
  <2>2. /\ F \in Seq([call : Call, key : Key, obj : Session \cup {NoSession}])
        /\ DOMAIN F = DOMAIN stack \ {Len(stack)} /\ \A i \in DOMAIN F : F[i] = stack[i]
        /\ Len(stack) \in DOMAIN stack
    <3> DEFINE Frames == [call : Call, key : Key, obj : Session \cup {NoSession}]
    <3>1. stack \in Seq(Frames)
      BY DEF Standing, Sound, Placed
    <3> HIDE DEF Frames
    <3>2. /\ F \in Seq(Frames)
          /\ DOMAIN F = DOMAIN stack \ {Len(stack)} /\ \A i \in DOMAIN F : F[i] = stack[i]
          /\ Len(stack) \in DOMAIN stack
      BY <2>1, <3>1, FrontEffect
    <3> QED BY <3>2 DEF Frames
  <2>3. /\ DOMAIN Left \subseteq DOMAIN sessions /\ \A j \in DOMAIN Left : Left[j] = sessions[j]
        /\ \A j \in DOMAIN sessions : 
             j \notin DOMAIN Left => Top.call = "disconnected" /\ j = Top.key
    BY DEF Without, Restrict
  <2> HIDE DEF Left, F
  <2>4. Placed(Left, held, F, object, proc)
    BY <2>2, <2>3 DEF Standing, Sound, Placed
  <2>5. Keyed(Left, object)
    BY <2>3 DEF Standing, Sound, Keyed
  <2>6. Ending(Left, F, object)
    BY <2>2, <2>3 DEF Standing, Sound, Ending, Top
  <2>7. Sound(Left, held, F, object, proc)
    BY <2>4, <2>5, <2>6 DEF Sound
  <2> QED BY <2>1, <2>7, SettleSound DEF Standing, Reported
<1>8. CASE UNCHANGED vars
  BY <1>8 DEF vars, Standing, Sound, Placed, Keyed, Ending, Reported
<1> QED BY <1>1, <1>2, <1>3, <1>4, <1>5, <1>6, <1>7, <1>8, OnTimerExpiredSound
        DEF Next, Application, Disconnect, HandleRx

\* No session object is left that nobody refers to.
Referred ==
  Objects \subseteq Range(sessions) \cup held \cup {stack[i].obj : i \in DOMAIN stack}

\* Settle destroys what it leaves without a reference, whatever it is handed.
LEMMA SettleReferred ==
  ASSUME NEW s, NEW h, NEW f, NEW objs, NEW p, Settle(s, h, f, objs, p)
  PROVE  Referred'
<1> DEFINE kept(t) == Range(t) \cup h \cup {f[i].obj : i \in DOMAIN f}
           gone == {objs[o].key : o \in {x \in DOMAIN objs \ kept(s) : objs[x].kind = "cohab"}}
           rest == Restrict(s, {k \in DOMAIN s : k \notin gone \/ objs[s[k]].kind # "cohab"})
<1>1. /\ sessions' = rest /\ held' = h /\ stack' = f
      /\ object' = Restrict(objs, DOMAIN objs \cap kept(rest))
  BY DEF Settle
<1>2. DOMAIN object' \subseteq kept(rest)
  BY <1>1 DEF Restrict
<1> HIDE DEF gone, rest
<1> QED BY <1>1, <1>2 DEF Referred, Objects

LEMMA ReferredInit == Init => Referred
BY DEF Init, Referred, Objects

\* A new session is handed to the callback that is told of it; nothing else but
\* Settle takes a reference away.
LEMMA ReferredStep ==
  ASSUME Standing, Reported, Referred, [Next]_vars
  PROVE  Referred'
<1> DEFINE Frames == [call : Call, key : Key, obj : Session \cup {NoSession}]
<1>1. ASSUME NEW k \in Key, NEW r \in Retry, Connect(k, r) PROVE Referred'
  BY <1>1 DEF Connect, Referred, Objects
<1>2. ASSUME NEW k \in Key, ConnectCohab(k) PROVE Referred'
  BY <1>2, SettleReferred DEF ConnectCohab
<1>3. ASSUME NEW k \in Key, GetSession(k) PROVE Referred'
  BY <1>3 DEF GetSession, Referred, Objects
<1>4. ASSUME NEW o \in Objects, Drop(o) PROVE Referred'
  BY <1>4, SettleReferred DEF Drop
<1>5. ASSUME NEW o \in Objects, DisconnectRemote(o) PROVE Referred'
  <2> DEFINE F == Frame("disconnected", object[o].key, o)
  <2>1. UNCHANGED <<sessions, held>> /\ DOMAIN object' = DOMAIN object
        /\ (stack' = stack \/ stack' = Append(stack, F))
    BY <1>5 DEF DisconnectRemote
  <2>2. stack \in Seq(Frames)
    BY DEF Standing, Sound, Placed
  <2>3. \A i \in DOMAIN stack : i \in DOMAIN stack' /\ stack'[i] = stack[i]
    <3> HIDE DEF F, Frames
    <3> QED BY <2>1, <2>2
  <2> QED BY <2>1, <2>3 DEF Referred, Objects
<1>6. ASSUME NEW o \in Objects, DisconnectCohab(o) PROVE Referred'
  BY <1>6, SettleReferred DEF DisconnectCohab
<1>7. CASE Return
  BY <1>7, SettleReferred DEF Return
<1>8. CASE UNCHANGED vars
  BY <1>8 DEF vars, Referred, Objects
<1>9. ASSUME NEW k \in Key, OnTimerExpired(k) PROVE Referred'
  <2>1. stack = <<>> /\ held' = held
    BY <1>9 DEF OnTimerExpired
  <2>2. Objects \subseteq Range(sessions) \cup held
    BY <2>1 DEF Referred
  <2>3. CASE OnConnected(k)
    <3>1. PICK o \in Session \ Objects :
            /\ sessions' = IF Listed(k) THEN sessions ELSE With(sessions, k, o)
            /\ object' = With(object, o, [kind |-> "remote", key |-> k, open |-> TRUE])
            /\ stack' = Append(stack, Frame("connected", k, o))
      BY <2>3 DEF OnConnected
    <3>2. DOMAIN object' = DOMAIN object \cup {o}
      BY <3>1 DEF With
    <3>3. 1 \in DOMAIN stack' /\ stack'[1].obj = o
      <4> DEFINE F == Frame("connected", k, o)
      <4>1. F.obj = o
        BY DEF Frame
      <4> HIDE DEF F
      <4>2. stack' = <<F>>
        BY <2>1, <3>1 DEF F
      <4> QED BY <4>1, <4>2
    <3>4. \A j \in DOMAIN sessions : j \in DOMAIN sessions' /\ sessions'[j] = sessions[j]
      BY <3>1 DEF With, Listed
    <3>5. Range(sessions) \subseteq Range(sessions')
      BY <3>4 DEF Range
    <3> QED BY <2>1, <2>2, <3>2, <3>3, <3>5 DEF Referred, Objects
  <2>4. CASE UNCHANGED <<sessions, object>>
    BY <2>1, <2>2, <2>4 DEF Referred, Objects
  <2> QED BY <1>9, <2>3, <2>4 DEF OnTimerExpired, Failed, OnConnectionFailed
<1> QED BY <1>1, <1>2, <1>3, <1>4, <1>5, <1>6, <1>7, <1>8, <1>9
        DEF Next, Application, Disconnect, HandleRx

(* Nobody refers to a session object that is not there, and none is left that   *)
(* nobody refers to; each table has what its keys say, whatever callbacks       *)
(* connect, disconnect and drop (ObexClient::onConnected, onDisconnected,       *)
(* disconnect and the destructors of sessions).                                 *)
THEOREM ClientTypeCorrect == Spec => []TypeOK
<1>1. Standing /\ Reported /\ Referred => TypeOK
  <2> SUFFICES ASSUME Standing, Reported, Referred PROVE TypeOK
    OBVIOUS
  <2>1. Placed(sessions, held, stack, object, proc)
    BY DEF Standing, Sound
  <2>2. stack \in Seq([call : Call, key : Key, obj : Objects \cup {NoSession}])
    <3> DEFINE Frames == [call : Call, key : Key, obj : Session \cup {NoSession}]
               Live == [call : Call, key : Key, obj : Objects \cup {NoSession}]
    <3>1. stack \in Seq(Frames) /\ \A i \in DOMAIN stack : stack[i].obj \in Objects \cup {NoSession}
      BY <2>1 DEF Placed, Objects
    <3>2. \A F \in Frames : F.obj \in Objects \cup {NoSession} => F \in Live
      OBVIOUS
    <3>3. \A i \in DOMAIN stack : stack[i] \in Frames
      <4> HIDE DEF Frames
      <4> QED BY <3>1
    <3>4. \A i \in DOMAIN stack : stack[i] \in Live
      <4> HIDE DEF Frames, Live
      <4> QED BY <3>1, <3>2, <3>3
    <3>5. stack \in Seq(Live)
      <4> HIDE DEF Frames, Live
      <4> QED BY <3>1, <3>4, SeqOver
    <3> QED BY <3>5
  <2>3. Range(sessions) \subseteq Objects
    BY <2>1 DEF Placed, Range, Objects
  <2> QED BY <2>1, <2>2, <2>3 DEF Placed, Reported, Referred, TypeOK, Call, Objects
<1>2. Standing /\ Reported /\ Referred /\ [Next]_vars => (Standing /\ Reported /\ Referred)'
  BY StandingStep, ReferredStep
<1> QED BY <1>1, <1>2, StandingInit, ReferredInit, PTL DEF Spec

LEMMA StandingCorrect == Spec => [](Standing /\ Reported)
<1>1. Standing /\ Reported /\ [Next]_vars => (Standing /\ Reported)'
  BY StandingStep
<1> QED BY <1>1, StandingInit, PTL DEF Spec

-----------------------------------------------------------------------------
(* Retries                                                                 *)

(* A connector makes the retries it was asked for, no fewer and no more, before *)
(* it reports that the connection failed (SocketConnector::onTimerExpired).     *)
THEOREM GivesUpCorrect == Spec => GivesUp
<1> DEFINE Step == \A k \in DOMAIN connectors :
                     LET c == connectors[k]
                     IN /\ c.retry.limit > 0 => c.count <= c.retry.limit
                        /\ k \notin DOMAIN connectors' /\ told'[k] = "failed" =>
                             c.retry.period = 0 \/ (c.retry.limit > 0 /\ c.count = c.retry.limit)
<1>1. ASSUME Reported, Next, NEW k \in DOMAIN connectors,
             k \notin DOMAIN connectors', told'[k] = "failed"
      PROVE  \/ connectors[k].retry.period = 0
             \/ connectors[k].retry.limit > 0 /\ connectors[k].count = connectors[k].retry.limit
  <2> DEFINE c == connectors[k]
  <2>1. /\ c.retry \in [period : Nat, limit : Nat] /\ c.count \in Nat
        /\ c.retry.limit > 0 => c.count <= c.retry.limit
    BY <1>1, RetryAssumption DEF Reported
  <2>2. PICK j \in Key : OnTimerExpired(j)
    BY <1>1 DEF Next, Application, Connect, ConnectCohab, GetSession, Disconnect, DisconnectRemote,
                DisconnectCohab, Drop, Return, HandleRx, With
  <2>3. OnConnected(j) \/ Failed(j) \/ DOMAIN connectors' = DOMAIN connectors
    BY <2>2 DEF OnTimerExpired
  <2>4. ~OnConnected(j)
    <3>1. ASSUME OnConnected(j) PROVE FALSE
      <4>1. connectors' = Without(connectors, j) /\ told' = [told EXCEPT ![j] = "connected"]
        BY <3>1 DEF OnConnected, Tell
      <4>2. j = k
        BY <1>1, <4>1 DEF Without, Restrict
      <4> QED BY <1>1, <2>2, <4>1, <4>2 DEF Reported
    <3> QED BY <3>1
  <2>5. ~MayRetry(connectors[j]) /\ connectors' = Without(connectors, j)
    BY <1>1, <2>3, <2>4 DEF Failed, OnConnectionFailed
  <2>6. j = k
    BY <1>1, <2>5 DEF Without, Restrict
  <2>7. ~(c.retry.period > 0 /\ (c.retry.limit = 0 \/ c.retry.limit > c.count))
    BY <2>5, <2>6 DEF MayRetry
  <2>8. c.retry.period \in Nat /\ c.retry.limit \in Nat
    BY <2>1
  <2> HIDE DEF c
  <2>9. c.retry.period = 0 \/ (c.retry.limit > 0 /\ c.count = c.retry.limit)
    BY <2>1, <2>7, <2>8
  <2> QED BY <2>9 DEF c
<1>2. Reported /\ [Next]_vars => [Step]_vars
  <2>1. Reported => \A k \in DOMAIN connectors :
          connectors[k].retry.limit > 0 => connectors[k].count <= connectors[k].retry.limit
    BY DEF Reported
  <2> QED BY <1>1, <2>1
<1> HIDE DEF Step
<1>3. Spec => [][Step]_vars
  BY <1>2, StandingCorrect, PTL DEF Spec
<1> QED BY <1>3 DEF GivesUp, Step

-----------------------------------------------------------------------------
(* Cohabitant sessions                                                     *)

LEMMA NamedStep ==
  ASSUME ~KeepOld, Standing, Named(object, proc), StaysConnected, [Next]_vars
  PROVE  Named(object, proc)' /\ StaysConnected'
<1>1. /\ Placed(sessions, held, stack, object, proc) /\ Keyed(sessions, object)
      /\ Ending(sessions, stack, object)
  BY DEF Standing, Sound
<1>2. ASSUME NEW s, NEW h, NEW f, NEW objs, NEW p, Settle(s, h, f, objs, p),
             \A k \in DOMAIN s : s[k] \in DOMAIN objs /\ objs[s[k]].key = k, Named(objs, p),
             wanted' \subseteq {k \in DOMAIN s : objs[s[k]].kind = "cohab"}
      PROVE  Named(object, proc)' /\ StaysConnected'
  <2>1. Named(object, proc)' /\ DOMAIN sessions' = DOMAIN s
    BY <1>2, SettleNamed
  <2>2. /\ \A k \in DOMAIN sessions' : sessions'[k] = s[k] /\ s[k] \in DOMAIN object'
        /\ \A o \in DOMAIN object' : object'[o] = objs[o]
    BY <1>2, SettleEffect
  <2>3. wanted' \subseteq {k \in DOMAIN sessions' : object'[sessions'[k]].kind = "cohab"}
    BY <1>2, <2>1, <2>2
  <2> QED BY <2>1, <2>3 DEF StaysConnected
<1>3. ASSUME NEW k \in Key, NEW r \in Retry, Connect(k, r)
      PROVE  Named(object, proc)' /\ StaysConnected'
  BY <1>3 DEF Connect, Named, StaysConnected
<1>4. ASSUME NEW k \in Key, ConnectCohab(k) PROVE Named(object, proc)' /\ StaysConnected'
  <2> DEFINE Kept(o) == IF Listed(k) THEN sessions ELSE With(sessions, k, o)
             Made(o) == With(object, o, [kind |-> "cohab", key |-> k, open |-> TRUE])
  <2>1. PICK o \in Session \ Objects : Settle(Kept(o), held, stack, Made(o), proc \cup {k})
    BY <1>4 DEF ConnectCohab
  <2>2. \A x \in DOMAIN object : object[x].key # k
    BY <1>4 DEF ConnectCohab, Objects
  <2>3. k \notin DOMAIN sessions
    BY <1>1, <2>2 DEF Placed, Keyed
  <2>4. /\ DOMAIN Made(o) = DOMAIN object \cup {o} /\ o \notin DOMAIN object
        /\ \A x \in DOMAIN object : Made(o)[x] = object[x]
        /\ Made(o)[o] = [kind |-> "cohab", key |-> k, open |-> TRUE]
    BY <2>1 DEF With, Objects
  <2>5. /\ DOMAIN Kept(o) = DOMAIN sessions \cup {k}
        /\ \A j \in DOMAIN sessions : Kept(o)[j] = sessions[j]
        /\ Kept(o)[k] = o
    BY <2>3 DEF With, Listed
  <2> HIDE DEF Kept, Made
  <2>6. \A j \in DOMAIN Kept(o) : Kept(o)[j] \in DOMAIN Made(o) /\ Made(o)[Kept(o)[j]].key = j
    BY <1>1, <2>4, <2>5 DEF Placed, Keyed
  <2>7. Named(Made(o), proc \cup {k})
    <3>1. \A j : j \in proc <=> \E x \in DOMAIN object : object[x].kind = "cohab" /\ object[x].key = j
      BY DEF Named
    <3>2. \A j : j \in proc \cup {k} <=>
            \E x \in DOMAIN Made(o) : Made(o)[x].kind = "cohab" /\ Made(o)[x].key = j
      BY <2>4, <3>1
    <3>3. proc \cup {k} = {Made(o)[y].key : y \in {x \in DOMAIN Made(o) : Made(o)[x].kind = "cohab"}}
      BY <3>2
    <3>4. \A y, x \in DOMAIN Made(o) :
            Made(o)[y].kind = "cohab" /\ Made(o)[x].kind = "cohab" /\ Made(o)[y].key = Made(o)[x].key
              => y = x
      BY <2>2, <2>4 DEF Named
    <3> QED BY <3>3, <3>4 DEF Named
  <2>8. wanted' \subseteq {j \in DOMAIN Kept(o) : Made(o)[Kept(o)[j]].kind = "cohab"}
    <3>1. wanted' = wanted \cup {k}
      BY <1>4 DEF ConnectCohab
    <3> QED BY <1>1, <2>4, <2>5, <3>1 DEF StaysConnected, Placed
  <2> QED BY <1>2, <2>1, <2>6, <2>7, <2>8
<1>5. ASSUME NEW k \in Key, GetSession(k) PROVE Named(object, proc)' /\ StaysConnected'
  BY <1>5 DEF GetSession, Named, StaysConnected
<1>6. ASSUME NEW o \in Objects, Drop(o) PROVE Named(object, proc)' /\ StaysConnected'
  <2>1. Settle(sessions, held \ {o}, stack, object, proc) /\ wanted' = wanted
    BY <1>6 DEF Drop
  <2> QED BY <1>1, <1>2, <2>1 DEF Placed, Keyed, StaysConnected
<1>7. ASSUME NEW o \in Objects, DisconnectRemote(o) PROVE Named(object, proc)' /\ StaysConnected'
  <2>1. /\ object' = [object EXCEPT ![o].open = FALSE] /\ UNCHANGED <<sessions, proc, wanted>>
    BY <1>7 DEF DisconnectRemote
  <2>2. /\ DOMAIN object' = DOMAIN object
        /\ \A x \in DOMAIN object : object'[x].kind = object[x].kind /\ object'[x].key = object[x].key
    BY <1>1, <2>1 DEF Placed
  <2>3. {object'[x].key : x \in {y \in DOMAIN object' : object'[y].kind = "cohab"}}
          = {object[x].key : x \in {y \in DOMAIN object : object[y].kind = "cohab"}}
    BY <2>2
  <2>4. Named(object, proc)'
    BY <2>1, <2>2, <2>3 DEF Named
  <2>5. StaysConnected'
    BY <1>1, <2>1, <2>2 DEF StaysConnected, Placed
  <2> QED BY <2>4, <2>5
<1>8. ASSUME NEW o \in Objects, DisconnectCohab(o) PROVE Named(object, proc)' /\ StaysConnected'
  <2> DEFINE k == object[o].key
             Left == IF Listed(k) /\ object[sessions[k]].kind = "cohab" THEN Without(sessions, k)
                     ELSE sessions
  <2>1. Settle(Left, held, stack, object, proc) /\ object[o].kind = "cohab"
    BY <1>8 DEF DisconnectCohab
  <2>2. wanted' = IF Listed(k) /\ sessions[k] = o THEN wanted \ {k} ELSE wanted
    BY <1>8 DEF DisconnectCohab
  <2>3. /\ DOMAIN Left \subseteq DOMAIN sessions /\ \A j \in DOMAIN Left : Left[j] = sessions[j]
        /\ \A j \in DOMAIN sessions : j \notin DOMAIN Left =>
             j = k /\ Listed(k) /\ object[sessions[k]].kind = "cohab"
    BY DEF Without, Restrict
  <2>4. Listed(k) /\ object[sessions[k]].kind = "cohab" => sessions[k] = o /\ k \notin DOMAIN Left
    <3>1. Listed(k) => sessions[k] \in DOMAIN object /\ object[sessions[k]].key = k
      BY <1>1 DEF Placed, Keyed, Listed
    <3>2. Listed(k) /\ object[sessions[k]].kind = "cohab" => sessions[k] = o
      BY <2>1, <3>1 DEF Named, Objects
    <3>3. Listed(k) /\ object[sessions[k]].kind = "cohab" => k \notin DOMAIN Left
      BY DEF Without, Restrict
    <3> QED BY <3>2, <3>3
  <2> HIDE DEF Left, k
  <2>5. \A j \in DOMAIN Left : Left[j] \in DOMAIN object /\ object[Left[j]].key = j
    BY <1>1, <2>3 DEF Placed, Keyed
  <2>6. wanted' \subseteq {j \in DOMAIN Left : object[Left[j]].kind = "cohab"}
    BY <2>2, <2>3, <2>4 DEF StaysConnected
  <2> QED BY <1>2, <2>1, <2>5, <2>6
<1>9. CASE Return
  <2> DEFINE Left == IF Top.call = "disconnected" THEN Without(sessions, Top.key) ELSE sessions
  <2>1. stack # <<>> /\ Settle(Left, held, Front(stack), object, proc) /\ wanted' = wanted
    BY <1>9 DEF Return
  <2>2. Len(stack) \in DOMAIN stack
    <3> DEFINE Frames == [call : Call, key : Key, obj : Session \cup {NoSession}]
    <3>1. stack \in Seq(Frames)
      BY <1>1 DEF Placed
    <3> HIDE DEF Frames
    <3> QED BY <2>1, <3>1
  <2>3. Top.call = "disconnected" => object[sessions[Top.key]].kind = "remote"
    BY <1>1, <2>2 DEF Ending, Top
  <2>4. /\ DOMAIN Left \subseteq DOMAIN sessions /\ \A j \in DOMAIN Left : Left[j] = sessions[j]
        /\ \A j \in DOMAIN sessions : j \notin DOMAIN Left => Top.call = "disconnected" /\ j = Top.key
    BY DEF Without, Restrict
  <2> HIDE DEF Left
  <2>5. \A j \in DOMAIN Left : Left[j] \in DOMAIN object /\ object[Left[j]].key = j
    BY <1>1, <2>4 DEF Placed, Keyed
  <2>6. wanted' \subseteq {j \in DOMAIN Left : object[Left[j]].kind = "cohab"}
    BY <2>1, <2>3, <2>4 DEF StaysConnected
  <2> QED BY <1>2, <2>1, <2>5, <2>6
<1>10. ASSUME NEW k \in Key, OnTimerExpired(k) PROVE Named(object, proc)' /\ StaysConnected'
  <2>1. UNCHANGED <<proc, wanted>>
    BY <1>10 DEF OnTimerExpired
  <2>2. CASE UNCHANGED <<sessions, object>>
    BY <2>1, <2>2 DEF Named, StaysConnected
  <2>3. CASE OnConnected(k)
    <3>1. PICK o \in Session \ Objects :
            /\ sessions' = IF Listed(k) THEN sessions ELSE With(sessions, k, o)
            /\ object' = With(object, o, [kind |-> "remote", key |-> k, open |-> TRUE])
      BY <2>3 DEF OnConnected
    <3>2. /\ DOMAIN object' = DOMAIN object \cup {o} /\ o \notin DOMAIN object
          /\ \A x \in DOMAIN object : object'[x] = object[x]
          /\ object'[o].kind = "remote"
      BY <3>1 DEF With, Objects
    <3>3. /\ DOMAIN sessions \subseteq DOMAIN sessions'
          /\ \A j \in DOMAIN sessions : sessions'[j] = sessions[j]
      BY <3>1 DEF With, Listed
    <3>4. {object'[x].key : x \in {y \in DOMAIN object' : object'[y].kind = "cohab"}}
            = {object[x].key : x \in {y \in DOMAIN object : object[y].kind = "cohab"}}
      BY <3>2
    <3>5. Named(object, proc)'
      BY <2>1, <3>2, <3>4 DEF Named
    <3>6. StaysConnected'
      BY <1>1, <2>1, <3>2, <3>3 DEF StaysConnected, Placed
    <3> QED BY <3>5, <3>6
  <2> QED BY <1>10, <2>2, <2>3 DEF OnTimerExpired, Failed, OnConnectionFailed
<1>11. CASE UNCHANGED vars
  BY <1>11 DEF vars, Named, StaysConnected
<1> QED BY <1>3, <1>4, <1>5, <1>6, <1>7, <1>8, <1>9, <1>10, <1>11
        DEF Next, Application, Disconnect, HandleRx

LEMMA NamedCorrect ==
  ASSUME ~KeepOld
  PROVE  Spec => [](Named(object, proc) /\ StaysConnected)
<1>1. Init => Named(object, proc) /\ StaysConnected
  <2>1. DOMAIN <<>> = {}
    OBVIOUS
  <2> QED BY <2>1 DEF Init, Named, StaysConnected
<1>2. /\ Standing /\ Named(object, proc) /\ StaysConnected /\ [Next]_vars
      => (Named(object, proc) /\ StaysConnected)'
  BY NamedStep
<1> QED BY <1>1, <1>2, StandingCorrect, PTL DEF Spec

(* A cohabitant session lasts until the application disconnects it: no other    *)
(* session's end takes it off the list, as long as a session of a name is made  *)
(* only when the last one of that name is gone (ObexCohabClientSession's        *)
(* destructor, which disconnects by name).                                      *)
THEOREM StaysConnectedCorrect ==
  ASSUME ~KeepOld
  PROVE  Spec => []StaysConnected
BY NamedCorrect, PTL

(* Under the same condition /proc/session has an object for exactly the names   *)
(* of the cohabitant sessions there are, listed or only held.                   *)
THEOREM ProcAccurateCorrect ==
  ASSUME ~KeepOld
  PROVE  Spec => []ProcAccurate
<1>1. Named(object, proc) => ProcAccurate
  BY DEF Named, ProcAccurate, Objects
<1> QED BY <1>1, NamedCorrect, PTL

-----------------------------------------------------------------------------
(* Remote sessions, when a key is used for one kind of session             *)

OneKind == RemoteKey \cap CohabKey = {}

\* A connection that is open is listed, a key is not both connected and being
\* connected, and the application was told which.
Agreed ==
  /\ DOMAIN connectors \cap DOMAIN sessions = {}
  /\ \A o \in DOMAIN object : object[o].kind = "remote" /\ object[o].open =>
       object[o].key \in DOMAIN sessions /\ sessions[object[o].key] = o
  /\ \A k \in RemoteKey :
       told[k] = "connected" <=> k \in DOMAIN sessions /\ object[sessions[k]].open

\* A closed session is listed only until the callback that tells of it returns;
\* what was asked for without an outcome is being done.
Pending ==
  /\ \A k \in RemoteKey \cap DOMAIN sessions :
       object[sessions[k]].open
         \/ \E i \in DOMAIN stack : stack[i].call = "disconnected" /\ stack[i].key = k
  /\ asked \subseteq DOMAIN connectors

\* What becomes of remote sessions where references change: nothing, but for
\* those in gone, whose disconnection the application has been told of.
Retained(gone) ==
  /\ UNCHANGED <<connectors, told, asked>>
  /\ \A k \in RemoteKey :
       /\ k \in DOMAIN sessions' <=> (k \in DOMAIN sessions /\ k \notin gone)
       /\ k \in DOMAIN sessions' =>
            sessions'[k] = sessions[k] /\ object'[sessions[k]] = object[sessions[k]]
       /\ k \in gone => ~object[sessions[k]].open
  /\ \A o \in DOMAIN object' : object'[o].kind = "remote" =>
       o \in DOMAIN object /\ object'[o] = object[o]
  /\ \A i \in DOMAIN stack : stack[i].call = "disconnected" /\ stack[i].key \notin gone =>
       i \in DOMAIN stack' /\ stack'[i] = stack[i]

LEMMA RetainedStep ==
  ASSUME OneKind, Standing, Reported, NEW gone, Retained(gone)
  PROVE  (Agreed => Agreed') /\ (Pending => Pending')
<1>1. ASSUME NEW k \in RemoteKey
      PROVE  /\ k \in DOMAIN sessions' <=> (k \in DOMAIN sessions /\ k \notin gone)
             /\ k \in DOMAIN sessions' =>
                  sessions'[k] = sessions[k] /\ object'[sessions[k]] = object[sessions[k]]
             /\ k \in gone => ~object[sessions[k]].open
  BY DEF Retained
<1>2. UNCHANGED <<connectors, told, asked>> /\ DOMAIN connectors \subseteq RemoteKey
  BY DEF Retained, Reported
<1>3. ASSUME Agreed PROVE Agreed'
  <2>1. DOMAIN connectors' \cap DOMAIN sessions' = {}
    BY <1>1, <1>2, <1>3 DEF Agreed
  <2>2. ASSUME NEW o \in DOMAIN object', object'[o].kind = "remote", object'[o].open
        PROVE  object'[o].key \in DOMAIN sessions' /\ sessions'[object'[o].key] = o
    <3>1. o \in DOMAIN object /\ object'[o] = object[o]
      BY <2>2 DEF Retained
    <3>2. object[o].key \in DOMAIN sessions /\ sessions[object[o].key] = o
      BY <1>3, <2>2, <3>1 DEF Agreed
    <3>3. object[o].key \in RemoteKey
      BY <2>2, <3>1 DEF Standing, Sound, Keyed
    <3> QED BY <1>1, <2>2, <3>1, <3>2, <3>3
  <2>3. \A k \in RemoteKey :
          told'[k] = "connected" <=> (k \in DOMAIN sessions' /\ object'[sessions'[k]].open)
    BY <1>1, <1>2, <1>3 DEF Agreed
  <2> QED BY <2>1, <2>2, <2>3 DEF Agreed
<1>4. ASSUME Pending PROVE Pending'
  <2>1. ASSUME NEW k \in RemoteKey \cap DOMAIN sessions', ~object'[sessions'[k]].open
        PROVE  \E i \in DOMAIN stack' : stack'[i].call = "disconnected" /\ stack'[i].key = k
    <3>1. k \in DOMAIN sessions /\ k \notin gone /\ ~object[sessions[k]].open
      BY <1>1, <2>1
    <3>2. PICK i \in DOMAIN stack : stack[i].call = "disconnected" /\ stack[i].key = k
      BY <1>4, <2>1, <3>1 DEF Pending
    <3>3. i \in DOMAIN stack' /\ stack'[i] = stack[i]
      BY <3>1, <3>2 DEF Retained
    <3> QED BY <3>2, <3>3
  <2>2. asked' \subseteq DOMAIN connectors'
    BY <1>2, <1>4 DEF Pending
  <2> QED BY <2>1, <2>2 DEF Pending
<1> QED BY <1>3, <1>4

\* The table s lists the remote sessions as before, but for those in gone.
Lists(s, gone) ==
  \A k \in RemoteKey : /\ k \in DOMAIN s <=> (k \in DOMAIN sessions /\ k \notin gone)
                       /\ k \in DOMAIN s => s[k] = sessions[k]
                       /\ k \in gone => ~object[sessions[k]].open

LEMMA SettleRetains ==
  ASSUME OneKind, Standing, NEW s, NEW f, NEW h, NEW objs, NEW p, NEW gone,
         Settle(s, h, f, objs, p), \A k \in DOMAIN s : s[k] \in DOMAIN objs,
         UNCHANGED <<connectors, told, asked>>,
         Lists(s, gone),
         \A o \in DOMAIN objs : objs[o].kind = "remote" => o \in DOMAIN object /\ objs[o] = object[o],
         \A o \in DOMAIN object : o \in DOMAIN objs /\ objs[o] = object[o],
         \A i \in DOMAIN stack : stack[i].call = "disconnected" /\ stack[i].key \notin gone =>
           i \in DOMAIN f /\ f[i] = stack[i]
  PROVE  Retained(gone)
<1>1. /\ stack' = f /\ DOMAIN sessions' \subseteq DOMAIN s
      /\ \A k \in DOMAIN sessions' : sessions'[k] = s[k] /\ s[k] \in DOMAIN object'
      /\ \A k \in DOMAIN s : objs[s[k]].kind # "cohab" => k \in DOMAIN sessions'
      /\ DOMAIN object' \subseteq DOMAIN objs
      /\ \A o \in DOMAIN object' : object'[o] = objs[o]
  BY SettleEffect
<1>2. \A k \in RemoteKey : k \in DOMAIN sessions =>
        sessions[k] \in DOMAIN object /\ object[sessions[k]].kind = "remote"
  BY DEF Standing, Sound, Placed, Keyed, OneKind
<1>3. ASSUME NEW k \in RemoteKey
      PROVE  /\ k \in DOMAIN sessions' <=> (k \in DOMAIN sessions /\ k \notin gone)
             /\ k \in DOMAIN sessions' =>
                  sessions'[k] = sessions[k] /\ object'[sessions[k]] = object[sessions[k]]
             /\ k \in gone => ~object[sessions[k]].open
  <2>1. /\ k \in DOMAIN s <=> (k \in DOMAIN sessions /\ k \notin gone)
        /\ k \in DOMAIN s => s[k] = sessions[k]
        /\ k \in gone => ~object[sessions[k]].open
    BY DEF Lists
  <2>2. ASSUME k \in DOMAIN s
        PROVE  /\ k \in DOMAIN sessions' /\ sessions'[k] = sessions[k]
               /\ object'[sessions[k]] = object[sessions[k]]
    <3>1. s[k] = sessions[k] /\ k \in DOMAIN sessions
      BY <2>1, <2>2
    <3>2. objs[s[k]] = object[s[k]] /\ objs[s[k]].kind = "remote"
      BY <1>2, <3>1
    <3> QED BY <1>1, <2>2, <3>1, <3>2
  <2>3. k \in DOMAIN sessions' => k \in DOMAIN s
    BY <1>1
  <2> QED BY <2>1, <2>2, <2>3
<1>4. \A o \in DOMAIN object' : object'[o].kind = "remote" =>
        o \in DOMAIN object /\ object'[o] = object[o]
  BY <1>1
<1> QED BY <1>1, <1>3, <1>4 DEF Retained

LEMMA RemoteStep ==
  ASSUME OneKind, Standing, Reported, Agreed, [Next]_vars
  PROVE  Agreed' /\ (~AtOnce /\ Pending => Pending')
<1> DEFINE Goal == Agreed' /\ (~AtOnce /\ Pending => Pending')
           Frames == [call : Call, key : Key, obj : Session \cup {NoSession}]
<1>1. /\ Placed(sessions, held, stack, object, proc) /\ Keyed(sessions, object)
      /\ Ending(sessions, stack, object)
  BY DEF Standing, Sound
<1>2. stack \in Seq(Frames)
  BY <1>1 DEF Placed
<1>3. \A k \in DOMAIN sessions : sessions[k] \in DOMAIN object /\ object[sessions[k]].key = k
  BY <1>1 DEF Placed, Keyed
<1>4. ASSUME NEW k \in Key, NEW r \in Retry, Connect(k, r) PROVE Goal
  <2>1. /\ k \in RemoteKey /\ MayConnect(k)
        /\ asked' = IF Connected(k) THEN asked ELSE asked \cup {k}
        /\ connectors' = IF k \in DOMAIN connectors \/ Listed(k) THEN connectors
                         ELSE With(connectors, k, [state |-> "idle", retry |-> r, count |-> 0])
        /\ UNCHANGED <<sessions, object, stack, told>>
    BY <1>4 DEF Connect
  <2>2. /\ DOMAIN connectors' \subseteq DOMAIN connectors \cup {k}
        /\ DOMAIN connectors \subseteq DOMAIN connectors'
        /\ k \in DOMAIN sessions => DOMAIN connectors' = DOMAIN connectors
        /\ k \notin DOMAIN sessions => k \in DOMAIN connectors'
    BY <2>1 DEF With, Listed
  <2>3. Agreed'
    BY <2>1, <2>2 DEF Agreed
  <2>4. ASSUME ~AtOnce, Pending PROVE Pending'
    <3>1. k \in asked' => k \in asked \/ k \notin DOMAIN sessions
      <4>1. SUFFICES ASSUME k \in DOMAIN sessions, ~object[sessions[k]].open PROVE FALSE
        BY <2>1 DEF Connected, Listed
      <4>2. PICK i \in DOMAIN stack : stack[i].call = "disconnected" /\ stack[i].key = k
        BY <2>1, <2>4, <4>1 DEF Pending
      <4> QED BY <2>1, <2>4, <4>2 DEF MayConnect
    <3>2. asked' \subseteq DOMAIN connectors'
      BY <2>1, <2>2, <2>4, <3>1 DEF Pending
    <3> QED BY <2>1, <2>4, <3>2 DEF Pending
  <2> QED BY <2>3, <2>4
<1>5. ASSUME NEW k \in Key, ConnectCohab(k) PROVE Goal
  <2> DEFINE Kept(o) == IF Listed(k) THEN sessions ELSE With(sessions, k, o)
             Made(o) == With(object, o, [kind |-> "cohab", key |-> k, open |-> TRUE])
  <2>1. PICK o \in Session \ Objects : Settle(Kept(o), held, stack, Made(o), proc \cup {k})
    BY <1>5 DEF ConnectCohab
  <2>2. k \in CohabKey /\ UNCHANGED <<connectors, told, asked>>
    BY <1>5 DEF ConnectCohab
  <2>3. /\ DOMAIN Made(o) = DOMAIN object \cup {o} /\ o \notin DOMAIN object
        /\ \A x \in DOMAIN object : Made(o)[x] = object[x]
        /\ Made(o)[o] = [kind |-> "cohab", key |-> k, open |-> TRUE]
    BY <2>1 DEF With, Objects
  <2>4. /\ DOMAIN Kept(o) = DOMAIN sessions \cup {k}
        /\ \A j \in DOMAIN sessions : Kept(o)[j] = sessions[j]
        /\ \A j \in DOMAIN Kept(o) : \/ j \in DOMAIN sessions /\ Kept(o)[j] = sessions[j]
                                     \/ j = k /\ Kept(o)[j] = o
    BY DEF With, Listed
  <2> HIDE DEF Kept, Made
  <2>5. \A j \in DOMAIN Kept(o) : Kept(o)[j] \in DOMAIN Made(o)
    BY <1>3, <2>3, <2>4
  <2>6. \A x \in DOMAIN Made(o) : Made(o)[x].kind = "remote" => x \in DOMAIN object /\ Made(o)[x] = object[x]
    BY <2>3
  <2>7. Lists(Kept(o), {})
    BY <2>2, <2>4 DEF OneKind, Lists
  <2>8. \A x \in DOMAIN object : x \in DOMAIN Made(o) /\ Made(o)[x] = object[x]
    BY <2>3
  <2> HIDE DEF Goal
  <2>9. Retained({})
    BY <2>1, <2>2, <2>5, <2>6, <2>7, <2>8, SettleRetains
  <2> QED BY <2>9, RetainedStep DEF Goal
<1>6. ASSUME NEW k \in Key, GetSession(k) PROVE Goal
  BY <1>6 DEF GetSession, Agreed, Pending
<1>7. ASSUME NEW o \in Objects, Drop(o) PROVE Goal
  <2>1. Settle(sessions, held \ {o}, stack, object, proc) /\ UNCHANGED <<connectors, told, asked>>
    BY <1>7 DEF Drop
  <2> HIDE DEF Goal
  <2>2. Lists(sessions, {})
    BY DEF Lists
  <2>3. Retained({})
    BY <1>3, <2>1, <2>2, SettleRetains
  <2> QED BY <2>3, RetainedStep DEF Goal
<1>8. ASSUME NEW o \in Objects, DisconnectRemote(o) PROVE Goal
  <2> DEFINE k == object[o].key
             F == Frame("disconnected", k, o)
  <2>1. /\ object[o].kind = "remote" /\ object[o].open /\ object' = [object EXCEPT ![o].open = FALSE]
        /\ UNCHANGED <<sessions, connectors>> /\ o \in DOMAIN object
    BY <1>8 DEF DisconnectRemote, Objects
  <2>2. k \in RemoteKey /\ k \in DOMAIN sessions /\ sessions[k] = o /\ k \in Key
    BY <1>1, <2>1 DEF Agreed, Keyed, Key
  <2>3. stack' = Append(stack, F) /\ told' = [told EXCEPT ![k] = "disconnected"] /\ asked' = asked \ {k}
    BY <1>8, <2>2 DEF DisconnectRemote, Listed, Tell
  <2>4. /\ DOMAIN object' = DOMAIN object /\ ~object'[o].open
        /\ \A x \in DOMAIN object : /\ object'[x].kind = object[x].kind /\ object'[x].key = object[x].key
                                    /\ x # o => object'[x] = object[x]
    BY <1>1, <2>1 DEF Placed
  <2>5. F.call = "disconnected" /\ F.key = k /\ F \in Frames
    BY <2>1, <2>2, <1>1 DEF Frame, Call, Placed
  <2>6. /\ DOMAIN stack' = DOMAIN stack \cup {Len(stack) + 1}
        /\ \A i \in DOMAIN stack : stack'[i] = stack[i]
        /\ stack'[Len(stack) + 1] = F
    <3> HIDE DEF F, Frames
    <3> QED BY <1>2, <2>3, <2>5
  <2>7. \A j \in DOMAIN sessions : j # k => sessions[j] # o
    BY <1>3
  <2>8. told'[k] = "disconnected" /\ \A j \in RemoteKey : j # k => told'[j] = told[j]
    BY <2>2, <2>3 DEF Reported, Key
  <2> HIDE DEF k, F, Frames
  <2>9. Agreed'
    <3>1. \A x \in DOMAIN object' : object'[x].kind = "remote" /\ object'[x].open =>
            object'[x].key \in DOMAIN sessions' /\ sessions'[object'[x].key] = x
      BY <2>1, <2>4 DEF Agreed
    <3>2. \A j \in RemoteKey :
            told'[j] = "connected" <=> j \in DOMAIN sessions' /\ object'[sessions'[j]].open
      BY <1>3, <2>1, <2>2, <2>4, <2>7, <2>8 DEF Agreed
    <3> QED BY <2>1, <3>1, <3>2 DEF Agreed
  <2>10. ASSUME Pending PROVE Pending'
    <3>1. \A j \in RemoteKey \cap DOMAIN sessions' :
            object'[sessions'[j]].open
              \/ \E i \in DOMAIN stack' : stack'[i].call = "disconnected" /\ stack'[i].key = j
      <4>1. SUFFICES ASSUME NEW j \in RemoteKey \cap DOMAIN sessions, ~object'[sessions[j]].open
                     PROVE  \E i \in DOMAIN stack' : stack'[i].call = "disconnected" /\ stack'[i].key = j
        BY <2>1
      <4>2. CASE j = k
        BY <2>5, <2>6, <4>2
      <4>3. CASE j # k
        <5>1. ~object[sessions[j]].open
          BY <1>3, <2>4, <2>7, <4>1, <4>3
        <5>2. PICK i \in DOMAIN stack : stack[i].call = "disconnected" /\ stack[i].key = j
          BY <2>10, <4>1, <5>1 DEF Pending
        <5> QED BY <2>6, <5>2
      <4> QED BY <4>2, <4>3
    <3> QED BY <2>1, <2>3, <2>10, <3>1 DEF Pending
  <2> QED BY <2>9, <2>10
<1>9. ASSUME NEW o \in Objects, DisconnectCohab(o) PROVE Goal
  <2> DEFINE k == object[o].key
             Left == IF Listed(k) /\ object[sessions[k]].kind = "cohab" THEN Without(sessions, k)
                     ELSE sessions
  <2>1. /\ Settle(Left, held, stack, object, proc) /\ object[o].kind = "cohab" /\ o \in DOMAIN object
        /\ UNCHANGED <<connectors, told, asked>>
    BY <1>9 DEF DisconnectCohab, Objects
  <2>2. k \in CohabKey
    BY <1>1, <2>1 DEF Keyed
  <2>3. /\ \A j \in DOMAIN Left : j \in DOMAIN sessions /\ Left[j] = sessions[j]
        /\ \A j \in DOMAIN sessions : j = k \/ j \in DOMAIN Left
    BY DEF Without, Restrict
  <2> HIDE DEF Left, k, Goal
  <2>4. Lists(Left, {})
    BY <2>2, <2>3 DEF OneKind, Lists
  <2>5. \A j \in DOMAIN Left : Left[j] \in DOMAIN object
    BY <1>3, <2>3
  <2>6. Retained({})
    BY <2>1, <2>4, <2>5, SettleRetains
  <2> QED BY <2>6, RetainedStep DEF Goal
<1>10. ASSUME Return PROVE Goal
  <2> DEFINE Left == IF Top.call = "disconnected" THEN Without(sessions, Top.key) ELSE sessions
             gone == IF Top.call = "disconnected" THEN {Top.key} ELSE {}
             F == Front(stack)
  <2>1. /\ stack # <<>> /\ Settle(Left, held, F, object, proc)
        /\ UNCHANGED <<connectors, told, asked>>
    BY <1>10 DEF Return
  <2>2. /\ F \in Seq(Frames)
        /\ DOMAIN F = DOMAIN stack \ {Len(stack)} /\ \A i \in DOMAIN F : F[i] = stack[i]
        /\ Len(stack) \in DOMAIN stack
    <3> HIDE DEF Frames
    <3> QED BY <1>2, <2>1, FrontEffect
  <2>3. Top.call = "disconnected" =>
          /\ Top.key \in DOMAIN sessions
          /\ object[sessions[Top.key]].kind = "remote" /\ ~object[sessions[Top.key]].open
    BY <1>1, <2>2 DEF Ending, Top
  <2>4. Top.call = "disconnected" => Top.key \in RemoteKey
    BY <1>1, <1>3, <2>3 DEF Keyed
  <2>5. /\ \A j : j \in DOMAIN Left <=> (j \in DOMAIN sessions /\ j \notin gone)
        /\ \A j \in DOMAIN Left : Left[j] = sessions[j]
    BY DEF Without, Restrict
  <2>6. Lists(Left, gone)
    BY <2>3, <2>5 DEF Lists
  <2>7. \A i \in DOMAIN stack : stack[i].call = "disconnected" /\ stack[i].key \notin gone =>
          i \in DOMAIN F /\ F[i] = stack[i]
    <3> HIDE DEF F
    <3> QED BY <2>2 DEF Top
  <2> HIDE DEF Left, gone, F, Goal
  <2>8. \A j \in DOMAIN Left : Left[j] \in DOMAIN object
    BY <1>3, <2>5
  <2>9. Retained(gone)
    BY <2>1, <2>5, <2>6, <2>7, <2>8, SettleRetains
  <2> QED BY <2>9, RetainedStep DEF Goal
<1>11. ASSUME NEW k \in Key, OnTimerExpired(k) PROVE Goal
  <2>1. stack = <<>> /\ k \in DOMAIN connectors
    BY <1>11 DEF OnTimerExpired
  <2>2. k \in RemoteKey /\ k \notin DOMAIN sessions
    BY <2>1 DEF Reported, Agreed
  <2>3. DOMAIN stack = {}
    BY <2>1
  <2>4. CASE /\ DOMAIN connectors' = DOMAIN connectors
             /\ UNCHANGED <<sessions, object, stack, told, asked>>
    BY <2>4 DEF Agreed, Pending
  <2>5. CASE OnConnected(k)
    <3>1. PICK o \in Session \ Objects :
            /\ sessions' = IF Listed(k) THEN sessions ELSE With(sessions, k, o)
            /\ object' = With(object, o, [kind |-> "remote", key |-> k, open |-> TRUE])
            /\ connectors' = Without(connectors, k)
            /\ told' = [told EXCEPT ![k] = "connected"] /\ asked' = asked \ {k}
      BY <2>5 DEF OnConnected, Tell
    <3>2. /\ DOMAIN object' = DOMAIN object \cup {o} /\ o \notin DOMAIN object
          /\ \A x \in DOMAIN object : object'[x] = object[x]
          /\ object'[o].kind = "remote" /\ object'[o].key = k /\ object'[o].open
      BY <3>1 DEF With, Objects
    <3>3. /\ DOMAIN sessions' = DOMAIN sessions \cup {k}
          /\ \A j \in DOMAIN sessions : sessions'[j] = sessions[j] /\ j # k
          /\ sessions'[k] = o
      BY <2>2, <3>1 DEF With, Listed
    <3>4. DOMAIN connectors' = DOMAIN connectors \ {k}
      BY <3>1 DEF Without, Restrict
    <3>5. told'[k] = "connected" /\ \A j \in RemoteKey : j # k => told'[j] = told[j]
      BY <2>2, <3>1 DEF Reported, Key
    <3>6. \A x \in DOMAIN object' : object'[x].kind = "remote" /\ object'[x].open =>
            object'[x].key \in DOMAIN sessions' /\ sessions'[object'[x].key] = x
      BY <3>2, <3>3 DEF Agreed
    <3>7. \A j \in RemoteKey :
            told'[j] = "connected" <=> j \in DOMAIN sessions' /\ object'[sessions'[j]].open
      BY <1>3, <3>2, <3>3, <3>5 DEF Agreed
    <3>8. Agreed'
      BY <3>3, <3>4, <3>6, <3>7 DEF Agreed
    <3>9. ASSUME Pending PROVE Pending'
      <4>1. \A j \in RemoteKey \cap DOMAIN sessions' : object'[sessions'[j]].open
        BY <1>3, <2>3, <3>2, <3>3, <3>9 DEF Pending
      <4>2. asked' \subseteq DOMAIN connectors'
        BY <3>1, <3>4, <3>9 DEF Pending
      <4> QED BY <4>1, <4>2 DEF Pending
    <3> QED BY <3>8, <3>9
  <2>6. CASE OnConnectionFailed(k)
    <3>1. /\ UNCHANGED <<sessions, object>> /\ connectors' = Without(connectors, k)
          /\ told' = [told EXCEPT ![k] = "failed"] /\ asked' = asked \ {k}
      BY <2>6 DEF OnConnectionFailed, Tell
    <3>2. DOMAIN connectors' = DOMAIN connectors \ {k}
      BY <3>1 DEF Without, Restrict
    <3>3. told'[k] = "failed" /\ \A j \in RemoteKey : j # k => told'[j] = told[j]
      BY <2>2, <3>1 DEF Reported, Key
    <3>4. Agreed'
      BY <2>2, <3>1, <3>2, <3>3 DEF Agreed
    <3>5. Pending => Pending'
      BY <2>3, <3>1, <3>2 DEF Pending
    <3> QED BY <3>4, <3>5
  <2>7. Failed(k) => \/ OnConnectionFailed(k)
                     \/ /\ DOMAIN connectors' = DOMAIN connectors
                        /\ UNCHANGED <<sessions, object, stack, told, asked>>
    BY DEF Failed
  <2>8. \/ OnConnected(k) \/ Failed(k)
        \/ /\ DOMAIN connectors' = DOMAIN connectors
           /\ UNCHANGED <<sessions, object, stack, told, asked>>
    BY <1>11 DEF OnTimerExpired
  <2> QED BY <2>4, <2>5, <2>6, <2>7, <2>8
<1>12. ASSUME UNCHANGED vars PROVE Goal
  BY <1>12 DEF vars, Agreed, Pending
<1> HIDE DEF Goal
<1>13. ASSUME Application PROVE Goal
  BY <1>4, <1>5, <1>6, <1>7, <1>8, <1>9, <1>13 DEF Application, Disconnect
<1>14. ASSUME NEW o \in Objects, HandleRx(o) PROVE Goal
  BY <1>8, <1>14 DEF HandleRx
<1>15. Goal
  BY <1>10, <1>11, <1>12, <1>13, <1>14 DEF Next
<1> QED BY <1>15 DEF Goal

LEMMA RemoteInit == Init => Agreed /\ Pending
<1>1. DOMAIN <<>> = {}
  OBVIOUS
<1> QED BY <1>1 DEF Init, Agreed, Pending, Key

(* What the application was last told of a key is so, and it can end every      *)
(* connection that is open, whatever its callbacks connect, disconnect and drop *)
(* - as long as a key is used for remote or for cohabitant sessions, not for    *)
(* both (ObexClient::onConnected, onDisconnected).                              *)
THEOREM TruthfulCorrect ==
  ASSUME OneKind
  PROVE  Spec => []Truthful
<1>1. Standing /\ Reported /\ Agreed /\ [Next]_vars => Agreed'
  BY RemoteStep
<1>2. Agreed => Truthful
  BY DEF Agreed, Truthful, Connected, Listed, Objects, Range
<1> QED BY <1>1, <1>2, RemoteInit, StandingCorrect, PTL DEF Spec

(* As long as onDisconnected does not connect the same key again, a connection  *)
(* that was asked for and has no outcome has a connector at work (connect).     *)
THEOREM AnsweredCorrect ==
  ASSUME OneKind, ~AtOnce
  PROVE  Spec => []Answered
<1>1. /\ Standing /\ Reported /\ Agreed /\ Pending /\ [Next]_vars => Agreed' /\ Pending'
  BY RemoteStep
<1>2. Pending => Answered
  BY DEF Pending, Answered
<1> QED BY <1>1, <1>2, RemoteInit, StandingCorrect, PTL DEF Spec
=============================================================================
