---------------------------- MODULE BasicIoService ----------------------------
(***************************************************************************)
(* The event loop of ObjXp (src/src/BasicIoService.cpp, IoObject.cpp,      *)
(* TimerObject.cpp): run() fires the expired timers, waits in select() and *)
(* calls the handlers of the descriptors that are ready, lowest first.     *)
(*                                                                         *)
(* A handler may close any session, its own or another one, and ask to     *)
(* write to any; the acceptor's takes a new connection, which gets the     *)
(* lowest free descriptor.  The ready sets of a round stay as select()     *)
(* left them, so that they may name a descriptor that has since been       *)
(* closed, or closed and opened again.                                     *)
(***************************************************************************)
EXTENDS Naturals, Sequences, FiniteSets, SequencesExt, FiniteSetsExt

CONSTANTS
  Fd,          \* descriptors
  AcceptorFd,  \* the one the acceptor listens at
  Acceptor,
  Session,     \* session objects; a closed one is a new one when it is next opened
  NoObj,
  Timer,       \* timer objects
  RunTimer,    \* timerObject_, the one of run() itself
  Delay,       \* the delays timers are registered with; 0 is not one, for the clock
               \* has gone on when a delay of 0 is added to it
  MaxTime      \* bound: the clock, and what it has to reach for a timer

ASSUME FdAssumption == IsFiniteSet(Fd) /\ Fd \subseteq Nat /\ AcceptorFd \in Fd
ASSUME ObjAssumption == Acceptor \notin Session /\ NoObj \notin Session \cup {Acceptor}
ASSUME TimeAssumption == RunTimer \in Timer /\ Delay \subseteq Nat \ {0} /\ MaxTime \in Nat

Obj == Session \cup {Acceptor}

VARIABLES
  fdOf,        \* the descriptors of the open objects
  rxOn, txOn,  \* what an object believes is registered (~rxPaused_, ~txReady_)
  rdObjs, wrObjs, \* rdObjs_ with rdBits_, wrObjs_ with wrBits_
  data,        \* the objects with something to read
  pc,          \* where the thread is: "out" of run(), or in its "timers" loop, a
               \* timer's "callback", "select", its "dispatch" loop or a "handler"
  rfds, wfds,  \* the ready descriptors of this round not yet looked at
  current,     \* the object whose handler runs
  mayIdle,     \* the handler was called to write
  crashed,     \* an assert() failed
  timerList,   \* timerList_; dead timers stay until they are met
  alive, registered, expiry, \* of each timer
  time, now,   \* the clock, and what run() last read of it
  until        \* when run() ends, or 0

ioVars    == <<fdOf, rxOn, txOn, rdObjs, wrObjs, data, crashed>>
roundVars == <<rfds, wfds, current, mayIdle>>
timerVars == <<timerList, alive, registered, expiry>>
vars      == <<ioVars, roundVars, timerVars, pc, time, now, until>>

-----------------------------------------------------------------------------
(* Descriptors                                                             *)

Open      == DOMAIN fdOf
FreeFds   == Fd \ {fdOf[o] : o \in Open}
Without(f, x) == [y \in DOMAIN f \ {x} |-> f[y]]
With(f, x, v) == [y \in DOMAIN f \cup {x} |-> IF y = x THEN v ELSE f[y]]

\* Mutant of OpenSession: the new session has nothing to send.
OpenSessionSilent(o, fd) ==
  /\ fdOf' = With(fdOf, o, fd)
  /\ rdObjs' = With(rdObjs, fd, o)
  /\ rxOn' = [rxOn EXCEPT ![o] = TRUE]
  /\ crashed' = (fd \in DOMAIN rdObjs)
  /\ UNCHANGED <<wrObjs, txOn>>

\* Mutant of OpenSession: nothing is ever read from it.
OpenSessionDeaf(o, fd) ==
  /\ fdOf' = With(fdOf, o, fd)
  /\ wrObjs' = With(wrObjs, fd, o)
  /\ txOn' = [txOn EXCEPT ![o] = TRUE]
  /\ crashed' = (fd \in DOMAIN wrObjs)
  /\ UNCHANGED <<rdObjs, rxOn>>

\* IoObject::init, and the peer info that every session sends first.
OpenSession(o, fd) ==
  /\ fdOf' = With(fdOf, o, fd)
  /\ rdObjs' = With(rdObjs, fd, o)
  /\ wrObjs' = With(wrObjs, fd, o)
  /\ rxOn' = [rxOn EXCEPT ![o] = TRUE]
  /\ txOn' = [txOn EXCEPT ![o] = TRUE]
  /\ crashed' = (fd \in DOMAIN rdObjs \/ fd \in DOMAIN wrObjs)

\* Mutant of Close: what arrived for the object outlives it.
CloseUnread(o) ==
  /\ fdOf' = Without(fdOf, o)
  /\ rdObjs' = Without(rdObjs, fdOf[o])
  /\ wrObjs' = Without(wrObjs, fdOf[o])
  /\ rxOn' = [rxOn EXCEPT ![o] = FALSE]
  /\ txOn' = [txOn EXCEPT ![o] = FALSE]
  /\ UNCHANGED <<crashed, data>>

\* IoObject::deinit with the assertions of unregisterRx and unregisterTx.
Close(o) ==
  /\ fdOf' = Without(fdOf, o)
  /\ rdObjs' = IF rxOn[o] THEN Without(rdObjs, fdOf[o]) ELSE rdObjs
  /\ wrObjs' = IF txOn[o] THEN Without(wrObjs, fdOf[o]) ELSE wrObjs
  /\ crashed' = \/ rxOn[o] /\ fdOf[o] \notin DOMAIN rdObjs
                \/ txOn[o] /\ fdOf[o] \notin DOMAIN wrObjs
  /\ rxOn' = [rxOn EXCEPT ![o] = FALSE]
  /\ txOn' = [txOn EXCEPT ![o] = FALSE]
  /\ data' = data \ {o}

RequestTx(o) ==
  IF txOn[o] THEN UNCHANGED <<txOn, wrObjs, crashed>>
  ELSE /\ txOn' = [txOn EXCEPT ![o] = TRUE]
       /\ wrObjs' = With(wrObjs, fdOf[o], o)
       /\ crashed' = (fdOf[o] \in DOMAIN wrObjs)

IdleTx(o) ==
  IF ~txOn[o] THEN UNCHANGED <<txOn, wrObjs, crashed>>
  ELSE /\ txOn' = [txOn EXCEPT ![o] = FALSE]
       /\ wrObjs' = Without(wrObjs, fdOf[o])
       /\ crashed' = (fdOf[o] \notin DOMAIN wrObjs)

-----------------------------------------------------------------------------
(* Timers                                                                  *)

\* The timers of a list that are alive, in their order; the rest is dropped.
Live(list) ==
  LET at == {i \in DOMAIN list : list[i] \in alive}
      nth(k) == CHOOSE i \in at : Cardinality({j \in at : j <= i}) = k
  IN [k \in 1 .. Cardinality(at) |-> list[nth(k)]]

\* Mutant of Insert: the timer is put at the end of the list.
InsertLast(list, t, e) == Append(list, t)

\* registerTimer puts t before the first timer that expires later, and drops
\* the dead ones it meets on the way.
Insert(list, t, e) ==
  LET later == {i \in DOMAIN list : list[i] \in alive /\ e < expiry[list[i]]}
      pos   == IF later = {} THEN Len(list) + 1 ELSE Min(later)
  IN Append(Live(SubSeq(list, 1, pos - 1)), t) \o SubSeq(list, pos, Len(list))

\* unregisterTimer looks for t in the same way.
Unlist(list, t) ==
  LET found == {i \in DOMAIN list : list[i] = t}
      pos   == IF found = {} THEN Len(list) + 1 ELSE Min(found)
  IN Live(SubSeq(list, 1, pos - 1)) \o SubSeq(list, pos + 1, Len(list))

RegisterTimer(t, d) ==
  /\ t \in alive /\ time + d <= MaxTime
  /\ timerList' = Insert(IF registered[t] THEN Unlist(timerList, t) ELSE timerList, t, time + d)
  /\ expiry' = [expiry EXCEPT ![t] = time + d]
  /\ registered' = [registered EXCEPT ![t] = TRUE]
  /\ UNCHANGED alive

\* A timer stays registered_ when it has expired.
UnregisterTimer(t) ==
  /\ t \in alive /\ registered[t]
  /\ timerList' = Unlist(timerList, t)
  /\ registered' = [registered EXCEPT ![t] = FALSE]
  /\ UNCHANGED <<alive, expiry>>

-----------------------------------------------------------------------------
(* What code that run() calls, or that calls run(), does                   *)

Working == pc \in {"handler", "callback", "out"} /\ ~crashed

CloseSession ==
  /\ Working
  /\ \E o \in Open \cap Session : Close(o)
  /\ UNCHANGED <<roundVars, timerVars, pc, time, now, until>>

Put ==
  /\ Working
  /\ \E o \in Open \cap Session : ~txOn[o] /\ RequestTx(o)
  /\ UNCHANGED <<fdOf, rxOn, rdObjs, data, roundVars, timerVars, pc, time, now, until>>

SetTimer ==
  /\ Working
  /\ \E t \in Timer \ {RunTimer} : UnregisterTimer(t) \/ \E d \in Delay : RegisterTimer(t, d)
  /\ UNCHANGED <<ioVars, roundVars, pc, time, now, until>>

\* The last reference to a timer goes; its place in timerList_ is a weak one.
DeleteTimer ==
  /\ Working
  /\ \E t \in alive \ {RunTimer} : alive' = alive \ {t}
  /\ UNCHANGED <<ioVars, roundVars, timerList, registered, expiry, pc, time, now, until>>

\* A connector's timer finds its connection made, on a socket that connect()
\* got some time ago.
Connected ==
  /\ pc = "callback" /\ ~crashed
  /\ \E o \in Session \ Open, fd \in FreeFds : OpenSession(o, fd)
  /\ UNCHANGED <<data, roundVars, timerVars, pc, time, now, until>>

\* handleTx calls idleTx if it has written everything.
Return ==
  /\ pc \in {"handler", "callback"} /\ ~crashed
  /\ pc' = IF pc = "handler" THEN "dispatch" ELSE "timers"
  /\ IF mayIdle /\ current \in Open
     THEN UNCHANGED <<txOn, wrObjs, crashed>> \/ IdleTx(current)
     ELSE UNCHANGED <<txOn, wrObjs, crashed>>
  /\ current' = NoObj /\ mayIdle' = FALSE
  /\ UNCHANGED <<fdOf, rxOn, rdObjs, data, rfds, wfds, timerVars, time, now, until>>

-----------------------------------------------------------------------------
(* run()                                                                   *)

\* Mutant of Run: it does not set its timer.
RunUntimed ==
  /\ pc = "out" /\ ~crashed
  /\ pc' = "timers" /\ now' = time
  /\ until' \in {0} \cup {time + d : d \in Delay} /\ until' <= MaxTime
  /\ UNCHANGED timerVars
  /\ UNCHANGED <<ioVars, roundVars, time>>

Run ==
  /\ pc = "out" /\ ~crashed
  /\ pc' = "timers" /\ now' = time
  /\ \/ until' = 0 /\ UNCHANGED timerVars
     \/ \E d \in Delay : until' = time + d /\ RegisterTimer(RunTimer, d)
  /\ UNCHANGED <<ioVars, roundVars, time>>

Due == timerList # <<>> /\ timerList[1] \in alive /\ expiry[timerList[1]] <= now

\* The first timer is dead, or it expired and its callback is called; that of
\* timerObject_ does nothing.
NextTimer ==
  /\ pc = "timers" /\ ~crashed /\ timerList # <<>>
  /\ timerList[1] \notin alive \/ Due
  /\ timerList' = Tail(timerList)
  /\ pc' = IF Due /\ timerList[1] # RunTimer THEN "callback" ELSE pc
  /\ UNCHANGED <<ioVars, roundVars, alive, registered, expiry, time, now, until>>

NoTimer ==
  /\ pc = "timers" /\ ~crashed
  /\ timerList # <<>> => timerList[1] \in alive /\ ~Due
  /\ pc' = "select"
  /\ UNCHANGED <<ioVars, roundVars, timerVars, time, now, until>>

\* select() returns what is ready, or nothing when the first timer expires.
Select ==
  /\ pc = "select"
  /\ rfds' = {fd \in DOMAIN rdObjs : rdObjs[fd] \in data}
  /\ wfds' \in SUBSET DOMAIN wrObjs
  /\ \/ rfds' \cup wfds' # {}
     \/ timerList # <<>> /\ expiry[timerList[1]] <= time
  /\ pc' = "dispatch"
  /\ UNCHANGED <<ioVars, current, mayIdle, timerVars, time, now, until>>

Ready == rfds \cup wfds

\* The object at the lowest ready descriptor is called; the acceptor's handler
\* is the whole of this step, within the bounds on descriptors and sessions.  A
\* descriptor with no object is forgotten.
Dispatch ==
  /\ pc = "dispatch" /\ ~crashed /\ Ready # {}
  /\ LET fd == Min(Ready)
         objs == IF fd \in rfds THEN rdObjs ELSE wrObjs
     IN /\ rfds' = rfds \ {fd} /\ wfds' = wfds \ {fd}
        /\ IF fd \notin DOMAIN objs
           THEN /\ rdObjs' = Without(rdObjs, fd) /\ wrObjs' = Without(wrObjs, fd)
                /\ UNCHANGED <<fdOf, rxOn, txOn, data, crashed, pc, current, mayIdle>>
           ELSE IF objs[fd] = Acceptor
           THEN /\ \/ \E o \in Session \ Open : FreeFds # {} /\ OpenSession(o, Min(FreeFds))
                   \/ (FreeFds = {} \/ Session \subseteq Open) /\ UNCHANGED <<fdOf, rxOn, txOn, rdObjs, wrObjs, crashed>>
                /\ data' = data \ {Acceptor}
                /\ UNCHANGED <<pc, current, mayIdle>>
           ELSE /\ current' = objs[fd] /\ mayIdle' = (fd \in wfds)
                /\ data' = IF fd \in rfds THEN data \ {objs[fd]} ELSE data
                /\ pc' = "handler"
                /\ UNCHANGED <<fdOf, rxOn, txOn, rdObjs, wrObjs, crashed>>
  /\ UNCHANGED <<timerVars, time, now, until>>

\* Mutant of EndRound: the time is not read again.
EndRoundStale ==
  /\ pc = "dispatch" /\ ~crashed /\ Ready = {}
  /\ pc' = "timers"
  /\ UNCHANGED <<ioVars, roundVars, timerVars, time, now, until>>

\* run() goes on until its time is over or its pollCount used up.
EndRound ==
  /\ pc = "dispatch" /\ ~crashed /\ Ready = {}
  /\ \/ /\ pc' = "out" /\ UNCHANGED now
        /\ IF registered[RunTimer] THEN UnregisterTimer(RunTimer) ELSE UNCHANGED timerVars
     \/ /\ pc' = IF until # 0 /\ until <= time THEN "out" ELSE "timers"
        /\ now' = time
        /\ UNCHANGED timerVars
  /\ UNCHANGED <<ioVars, roundVars, time, until>>

-----------------------------------------------------------------------------
\* Something arrives for an object: data, or a connection for the acceptor.
Arrive ==
  /\ \E o \in Open \ data : data' = data \cup {o}
  /\ UNCHANGED <<fdOf, rxOn, txOn, rdObjs, wrObjs, crashed, roundVars, timerVars, pc, time, now, until>>

Tick ==
  /\ time < MaxTime
  /\ time' = time + 1
  /\ UNCHANGED <<ioVars, roundVars, timerVars, pc, now, until>>

Init ==
  /\ fdOf = [o \in {Acceptor} |-> AcceptorFd]
  /\ rxOn = [o \in Obj |-> o = Acceptor]
  /\ txOn = [o \in Obj |-> FALSE]
  /\ rdObjs = [fd \in {AcceptorFd} |-> Acceptor]
  /\ wrObjs = [fd \in {} |-> NoObj]
  /\ data = {}
  /\ pc = "out"
  /\ rfds = {} /\ wfds = {} /\ current = NoObj /\ mayIdle = FALSE
  /\ crashed = FALSE
  /\ timerList = <<>> /\ alive = Timer
  /\ registered = [t \in Timer |-> FALSE]
  /\ expiry = [t \in Timer |-> 0]
  /\ time = 0 /\ now = 0 /\ until = 0

Loop == NextTimer \/ NoTimer \/ Select \/ Dispatch \/ EndRound
Work == CloseSession \/ Put \/ SetTimer \/ DeleteTimer \/ Connected

Next == Work \/ Return \/ Run \/ Loop \/ Arrive \/ Tick

Spec == Init /\ [][Next]_vars

\* The thread goes on, handlers and callbacks return, time passes.  Nothing makes
\* the application call run(), or anything arrive.
Fairness == WF_vars(Loop) /\ WF_vars(Return) /\ WF_vars(Tick)

FairSpec == Spec /\ Fairness

-----------------------------------------------------------------------------
(* Properties                                                              *)

TypeOK ==
  /\ Open \subseteq Obj /\ Acceptor \in Open /\ \A o \in Open : fdOf[o] \in Fd
  /\ rxOn \in [Obj -> BOOLEAN] /\ txOn \in [Obj -> BOOLEAN]
  /\ DOMAIN rdObjs \cup DOMAIN wrObjs \cup Ready \subseteq Fd
  /\ data \subseteq Open
  /\ pc \in {"out", "timers", "callback", "select", "dispatch", "handler"}
  /\ current \in Session \cup {NoObj} /\ mayIdle \in BOOLEAN /\ crashed \in BOOLEAN
  /\ timerList \in Seq(Timer) /\ alive \subseteq Timer
  /\ registered \in [Timer -> BOOLEAN] /\ expiry \in [Timer -> Nat]
  /\ now \in 0 .. time /\ time \in 0 .. MaxTime /\ until \in 0 .. MaxTime

\* What an object believes of its registrations is what the loop waits for: a
\* stale ready set never makes the loop forget a descriptor that has been
\* opened again (run, registerRx, IoObject::deinit). That is also why the
\* assertions of registerRx, registerTx, unregisterRx and unregisterTx hold,
\* whatever handlers do to sessions in the middle of a round.
Agreement ==
  /\ ~crashed
  /\ rdObjs = [fd \in {fdOf[o] : o \in {x \in Open : rxOn[x]}} |-> CHOOSE o \in Open : fdOf[o] = fd]
  /\ wrObjs = [fd \in {fdOf[o] : o \in {x \in Open : txOn[x]}} |-> CHOOSE o \in Open : fdOf[o] = fd]

\* The timers wait in the order in which they expire, each once, whatever was
\* registered again, unregistered or deleted.
TimersInOrder ==
  \A i, j \in DOMAIN timerList :
    i < j /\ {timerList[i], timerList[j]} \subseteq alive =>
      /\ timerList[i] # timerList[j]
      /\ expiry[timerList[i]] <= expiry[timerList[j]]

\* While run() is active, a timer does not wait for ever,
TimersFire ==
  \A t \in Timer : t \in ToSet(timerList) /\ t \in alive ~>
                     t \notin ToSet(timerList) \/ t \notin alive \/ pc = "out" \/ crashed
\* nor does an object with something to read,
Served == \A o \in Obj : o \in data ~> o \notin data \/ pc = "out" \/ crashed
\* and run() with a duration returns.
RunEnds == until # 0 /\ pc # "out" ~> pc = "out" \/ crashed
=============================================================================
