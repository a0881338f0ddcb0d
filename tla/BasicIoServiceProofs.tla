------------------------- MODULE BasicIoServiceProofs -------------------------
(***************************************************************************)
(* Proofs about the event loop: its tables of descriptors agree with the   *)
(* objects whatever handlers close and open in the middle of a round, and  *)
(* its timers stay in order whatever callbacks do to them.                 *)
(***************************************************************************)
EXTENDS BasicIoService, FiniteSetTheorems, SequenceTheorems, TLAPS

-----------------------------------------------------------------------------
(* Natural numbers                                                         *)

LEMMA LeastNumber ==
  ASSUME NEW S, S \subseteq Nat, S # {}
  PROVE  Min(S) \in S /\ \A y \in S : Min(S) <= y
<1> DEFINE R == OpToRel(<, Nat)
<1>1. IsWellFoundedOn(R, Nat)
  BY NatLessThanWellFounded
<1>2. \A x, y \in Nat : <<x, y>> \in R <=> x < y
  BY DEF OpToRel
<1> HIDE DEF R
<1>3. PICK x \in S : \A y \in S : <<y, x>> \notin R
  BY <1>1, WFMin
<1>4. \A y \in S : x <= y
  <2> SUFFICES ASSUME NEW y \in S PROVE x <= y
    OBVIOUS
  <2>1. x \in Nat /\ y \in Nat /\ ~(y < x)
    BY <1>2, <1>3
  <2> QED BY <2>1
<1> QED BY <1>3, <1>4 DEF Min

-----------------------------------------------------------------------------
(* Descriptors                                                             *)

\* A table of the loop lists just the open objects that believe they are listed.
Lists(objs, on) ==
  /\ objs = [fd \in DOMAIN objs |-> objs[fd]]
  /\ DOMAIN objs = {fdOf[o] : o \in {x \in Open : on[x]}}
  /\ \A o \in Open : on[o] => objs[fdOf[o]] = o

\* No two open objects have a descriptor in common. All are listed for reading;
\* those for writing are among them, and the acceptor is not.
Tables ==
  /\ Open \subseteq Obj /\ Acceptor \in Open
  /\ \A o \in Open : fdOf[o] \in Fd
  /\ \A o, x \in Open : fdOf[o] = fdOf[x] => o = x
  /\ rxOn \in [Obj -> BOOLEAN] /\ txOn \in [Obj -> BOOLEAN]
  /\ \A o \in Obj : rxOn[o] <=> o \in Open
  /\ \A o \in Obj : txOn[o] => o \in Open \ {Acceptor}
  /\ Lists(rdObjs, rxOn) /\ Lists(wrObjs, txOn)
  /\ data \subseteq Open /\ crashed = FALSE

\* Of the descriptors that are ready for writing, those that are open wait for
\* it, also if they have been opened since; the one whose handler runs has been
\* taken out.
Rounds ==
  /\ rfds \subseteq Fd /\ wfds \subseteq Fd
  /\ \A o \in Open : fdOf[o] \in wfds => txOn[o]
  /\ pc \in {"out", "timers", "callback", "select", "dispatch", "handler"}
  /\ current \in Session \cup {NoObj} /\ mayIdle \in BOOLEAN
  /\ mayIdle => pc = "handler"
  /\ pc = "handler" /\ current \in Open => fdOf[current] \notin wfds

LEMMA TablesAgree == Tables => Agreement
<1> SUFFICES ASSUME Tables PROVE Agreement
  OBVIOUS
<1>1. ASSUME NEW objs, NEW on, Lists(objs, on)
      PROVE  objs = [fd \in {fdOf[o] : o \in {x \in Open : on[x]}} |-> CHOOSE o \in Open : fdOf[o] = fd]
  <2>1. ASSUME NEW fd \in DOMAIN objs PROVE objs[fd] = CHOOSE o \in Open : fdOf[o] = fd
    <3>1. PICK o \in Open : on[o] /\ fdOf[o] = fd
      BY <1>1, <2>1 DEF Lists
    <3>2. \A x \in Open : fdOf[x] = fd => x = o
      BY <3>1 DEF Tables
    <3>3. objs[fd] = o
      BY <1>1, <3>1 DEF Lists
    <3> QED BY <3>1, <3>2, <3>3
  <2>2. objs = [fd \in DOMAIN objs |-> objs[fd]] /\ DOMAIN objs = {fdOf[o] : o \in {x \in Open : on[x]}}
    BY <1>1 DEF Lists
  <2>3. [fd \in DOMAIN objs |-> objs[fd]] = [fd \in DOMAIN objs |-> CHOOSE o \in Open : fdOf[o] = fd]
    BY <2>1
  <2> QED BY <2>2, <2>3
<1> QED BY <1>1 DEF Tables, Agreement

LEMMA TablesInit == Init => Tables /\ Rounds
<1> SUFFICES ASSUME Init PROVE Tables /\ Rounds
  OBVIOUS
<1>1. /\ DOMAIN fdOf = {Acceptor} /\ fdOf[Acceptor] = AcceptorFd
      /\ DOMAIN rdObjs = {AcceptorFd} /\ rdObjs[AcceptorFd] = Acceptor
      /\ DOMAIN wrObjs = {}
      /\ rdObjs = [fd \in DOMAIN rdObjs |-> rdObjs[fd]] /\ wrObjs = [fd \in DOMAIN wrObjs |-> wrObjs[fd]]
  BY DEF Init
<1>2. /\ \A o \in Obj : rxOn[o] <=> o = Acceptor
      /\ \A o \in Obj : ~txOn[o]
      /\ rxOn \in [Obj -> BOOLEAN] /\ txOn \in [Obj -> BOOLEAN]
  BY DEF Init
<1>3. Lists(rdObjs, rxOn)
  BY <1>1, <1>2 DEF Lists, Open, Obj
<1>4. Lists(wrObjs, txOn)
  BY <1>1, <1>2 DEF Lists, Open, Obj
<1>5. Tables
  BY <1>1, <1>2, <1>3, <1>4, FdAssumption DEF Init, Tables, Open, Obj
<1> QED BY <1>1, <1>5 DEF Init, Rounds, Open

\* What opening, closing and writing do to a table of the loop.
LEMMA ListsMore ==
  ASSUME NEW objs, NEW on, NEW o, NEW fd, NEW on2, Lists(objs, on), o \notin Open,
         \A x \in Open : fdOf[x] # fd, fdOf' = With(fdOf, o, fd),
         \A x \in Open : on2[x] <=> on[x], on2[o]
  PROVE  /\ fd \notin DOMAIN objs
         /\ With(objs, fd, o) = [y \in DOMAIN With(objs, fd, o) |-> With(objs, fd, o)[y]]
         /\ DOMAIN With(objs, fd, o) = {fdOf'[x] : x \in {y \in Open' : on2[y]}}
         /\ \A x \in Open' : on2[x] => With(objs, fd, o)[fdOf'[x]] = x
<1> DEFINE W == With(objs, fd, o)
<1>1. /\ W = [y \in DOMAIN W |-> W[y]] /\ DOMAIN W = DOMAIN objs \cup {fd}
      /\ W[fd] = o /\ \A y \in DOMAIN objs : y # fd => W[y] = objs[y]
  BY DEF With
<1>2. /\ Open' = Open \cup {o} /\ fdOf'[o] = fd /\ \A x \in Open : fdOf'[x] = fdOf[x]
  BY DEF With, Open
<1>3. /\ DOMAIN objs = {fdOf[x] : x \in {y \in Open : on[y]}}
      /\ \A x \in Open : on[x] => objs[fdOf[x]] = x
  BY DEF Lists
<1> HIDE DEF W
<1>4. fd \notin DOMAIN objs
  BY <1>3
<1>5. DOMAIN W = {fdOf'[x] : x \in {y \in Open' : on2[y]}}
  BY <1>1, <1>2, <1>3
<1>6. \A x \in Open' : on2[x] => W[fdOf'[x]] = x
  BY <1>1, <1>2, <1>3
<1> QED BY <1>1, <1>4, <1>5, <1>6 DEF W

LEMMA OpenSessionTables ==
  ASSUME Tables, Rounds, NEW o \in Session \ Open, NEW fd \in FreeFds, OpenSession(o, fd),
         data' \subseteq data
  PROVE  /\ Tables' /\ Open' = Open \cup {o} /\ fdOf'[o] = fd /\ txOn'[o]
         /\ \A x \in Open : fdOf'[x] = fdOf[x] /\ txOn'[x] = txOn[x]
<1>1. /\ fdOf' = With(fdOf, o, fd) /\ rdObjs' = With(rdObjs, fd, o) /\ wrObjs' = With(wrObjs, fd, o)
      /\ rxOn' = [rxOn EXCEPT ![o] = TRUE] /\ txOn' = [txOn EXCEPT ![o] = TRUE]
      /\ crashed' = (fd \in DOMAIN rdObjs \/ fd \in DOMAIN wrObjs)
  BY DEF OpenSession
<1>2. /\ fd \in Fd /\ \A x \in Open : fdOf[x] # fd
      /\ o \in Obj /\ o # Acceptor /\ o \notin Open
  BY ObjAssumption DEF FreeFds, Obj
<1>3. /\ rxOn' \in [Obj -> BOOLEAN] /\ txOn' \in [Obj -> BOOLEAN] /\ rxOn'[o] /\ txOn'[o]
      /\ \A x \in Obj : x # o => rxOn'[x] = rxOn[x] /\ txOn'[x] = txOn[x]
  BY <1>1, <1>2 DEF Tables
<1>4. Open' = Open \cup {o} /\ fdOf'[o] = fd /\ \A x \in Open : fdOf'[x] = fdOf[x]
  BY <1>1, <1>2 DEF With, Open
<1>5. \A x \in Open : x \in Obj /\ x # o
  BY <1>2 DEF Tables
<1>6. fd \notin DOMAIN rdObjs /\ Lists(rdObjs, rxOn)'
  <2>1. Lists(rdObjs, rxOn)
    BY DEF Tables
  <2>2. \A x \in Open : rxOn'[x] <=> rxOn[x]
    BY <1>3, <1>5
  <2>3. /\ fd \notin DOMAIN rdObjs
        /\ With(rdObjs, fd, o) = [y \in DOMAIN With(rdObjs, fd, o) |-> With(rdObjs, fd, o)[y]]
        /\ DOMAIN With(rdObjs, fd, o) = {fdOf'[x] : x \in {y \in Open' : rxOn'[y]}}
        /\ \A x \in Open' : rxOn'[x] => With(rdObjs, fd, o)[fdOf'[x]] = x
    <3>1. fdOf' = With(fdOf, o, fd) /\ o \notin Open /\ (\A x \in Open : fdOf[x] # fd) /\ rxOn'[o]
      BY <1>1, <1>2, <1>3
    <3> DEFINE on2 == rxOn'
    <3>2. on2[o] /\ \A x \in Open : on2[x] <=> rxOn[x]
      BY <2>2, <3>1
    <3> HIDE DEF on2
    <3>3. /\ fd \notin DOMAIN rdObjs
          /\ With(rdObjs, fd, o) = [y \in DOMAIN With(rdObjs, fd, o) |-> With(rdObjs, fd, o)[y]]
          /\ DOMAIN With(rdObjs, fd, o) = {fdOf'[x] : x \in {y \in Open' : on2[y]}}
          /\ \A x \in Open' : on2[x] => With(rdObjs, fd, o)[fdOf'[x]] = x
      BY <2>1, <3>1, <3>2, ListsMore
    <3> QED BY <3>3 DEF on2
  <2> QED BY <1>1, <2>3 DEF Lists
<1>7. fd \notin DOMAIN wrObjs /\ Lists(wrObjs, txOn)'
  <2>1. Lists(wrObjs, txOn)
    BY DEF Tables
  <2>2. \A x \in Open : txOn'[x] <=> txOn[x]
    BY <1>3, <1>5
  <2>3. /\ fd \notin DOMAIN wrObjs
        /\ With(wrObjs, fd, o) = [y \in DOMAIN With(wrObjs, fd, o) |-> With(wrObjs, fd, o)[y]]
        /\ DOMAIN With(wrObjs, fd, o) = {fdOf'[x] : x \in {y \in Open' : txOn'[y]}}
        /\ \A x \in Open' : txOn'[x] => With(wrObjs, fd, o)[fdOf'[x]] = x
    <3>1. fdOf' = With(fdOf, o, fd) /\ o \notin Open /\ (\A x \in Open : fdOf[x] # fd) /\ txOn'[o]
      BY <1>1, <1>2, <1>3
    <3> DEFINE on2 == txOn'
    <3>2. on2[o] /\ \A x \in Open : on2[x] <=> txOn[x]
      BY <2>2, <3>1
    <3> HIDE DEF on2
    <3>3. /\ fd \notin DOMAIN wrObjs
          /\ With(wrObjs, fd, o) = [y \in DOMAIN With(wrObjs, fd, o) |-> With(wrObjs, fd, o)[y]]
          /\ DOMAIN With(wrObjs, fd, o) = {fdOf'[x] : x \in {y \in Open' : on2[y]}}
          /\ \A x \in Open' : on2[x] => With(wrObjs, fd, o)[fdOf'[x]] = x
      BY <2>1, <3>1, <3>2, ListsMore
    <3> QED BY <3>3 DEF on2
  <2> QED BY <1>1, <2>3 DEF Lists
<1>8. Tables'
  <2>1. \A x, y \in Open' : fdOf'[x] = fdOf'[y] => x = y
    BY <1>2, <1>4 DEF Tables
  <2>2. /\ \A x \in Obj : rxOn'[x] <=> x \in Open'
        /\ \A x \in Obj : txOn'[x] => x \in Open' \ {Acceptor}
    BY <1>2, <1>3, <1>4 DEF Tables
  <2>3. ~crashed'
    BY <1>1, <1>6, <1>7
  <2> QED BY <1>2, <1>3, <1>4, <1>6, <1>7, <2>1, <2>2, <2>3 DEF Tables
<1> QED BY <1>3, <1>4, <1>5, <1>8

LEMMA ListsLess ==
  ASSUME NEW objs, NEW on, NEW o \in Open, NEW on2, Lists(objs, on), on[o],
         \A x, y \in Open : fdOf[x] = fdOf[y] => x = y,
         fdOf' = Without(fdOf, o) \/ (fdOf' = fdOf /\ ~on2[o]),
         \A x \in Open : x # o => (on2[x] <=> on[x])
  PROVE  /\ fdOf[o] \in DOMAIN objs
         /\ LET W == Without(objs, fdOf[o])
            IN /\ W = [y \in DOMAIN W |-> W[y]]
               /\ DOMAIN W = {fdOf'[x] : x \in {y \in Open' : on2[y]}}
               /\ \A x \in Open' : on2[x] => W[fdOf'[x]] = x
<1> DEFINE W == Without(objs, fdOf[o])
<1>1. /\ W = [y \in DOMAIN W |-> W[y]] /\ DOMAIN W = DOMAIN objs \ {fdOf[o]}
      /\ \A y \in DOMAIN W : W[y] = objs[y]
  BY DEF Without
<1>2. /\ \A x : (x \in Open' /\ on2[x]) <=> (x \in Open /\ on[x] /\ x # o)
      /\ \A x \in Open' : fdOf'[x] = fdOf[x]
  BY DEF Without, Open
<1>3. /\ DOMAIN objs = {fdOf[x] : x \in {y \in Open : on[y]}}
      /\ \A x \in Open : on[x] => objs[fdOf[x]] = x
  BY DEF Lists
<1> HIDE DEF W
<1>4. fdOf[o] \in DOMAIN objs
  BY <1>3
<1>5. DOMAIN W = {fdOf'[x] : x \in {y \in Open' : on2[y]}}
  <2>1. ASSUME NEW fd \in DOMAIN W PROVE \E x \in Open' : on2[x] /\ fdOf'[x] = fd
    <3>1. PICK x \in Open : on[x] /\ fdOf[x] = fd
      BY <1>1, <1>3
    <3>2. x # o
      BY <1>1, <3>1
    <3> QED BY <1>2, <3>1, <3>2
  <2>2. ASSUME NEW x \in Open', on2[x] PROVE fdOf'[x] \in DOMAIN W
    <3>1. x \in Open /\ on[x] /\ x # o /\ fdOf'[x] = fdOf[x]
      BY <1>2, <2>2
    <3> QED BY <1>1, <1>3, <3>1
  <2> QED BY <2>1, <2>2
<1>6. \A x \in Open' : on2[x] => W[fdOf'[x]] = x
  <2> SUFFICES ASSUME NEW x \in Open', on2[x] PROVE W[fdOf'[x]] = x
    OBVIOUS
  <2>1. x \in Open /\ on[x] /\ fdOf'[x] = fdOf[x] /\ fdOf'[x] \in DOMAIN W
    BY <1>2, <1>5
  <2> QED BY <1>1, <1>3, <2>1
<1> QED BY <1>1, <1>4, <1>5, <1>6 DEF W

LEMMA CloseTables ==
  ASSUME Tables, Rounds, NEW o \in Open \cap Session, Close(o)
  PROVE  /\ Tables' /\ Open' = Open \ {o}
         /\ \A x \in Open' : fdOf'[x] = fdOf[x] /\ txOn'[x] = txOn[x]
<1>1. /\ fdOf' = Without(fdOf, o)
      /\ rdObjs' = IF rxOn[o] THEN Without(rdObjs, fdOf[o]) ELSE rdObjs
      /\ wrObjs' = IF txOn[o] THEN Without(wrObjs, fdOf[o]) ELSE wrObjs
      /\ crashed' = ((rxOn[o] /\ fdOf[o] \notin DOMAIN rdObjs) \/ (txOn[o] /\ fdOf[o] \notin DOMAIN wrObjs))
      /\ rxOn' = [rxOn EXCEPT ![o] = FALSE] /\ txOn' = [txOn EXCEPT ![o] = FALSE]
      /\ data' = data \ {o}
  BY DEF Close
<1>2. o \in Obj /\ o # Acceptor /\ rxOn[o]
  BY ObjAssumption DEF Tables
<1>3. Open' = Open \ {o} /\ \A x \in Open' : fdOf'[x] = fdOf[x]
  BY <1>1 DEF Without, Open
<1>4. /\ rxOn' \in [Obj -> BOOLEAN] /\ txOn' \in [Obj -> BOOLEAN] /\ ~rxOn'[o] /\ ~txOn'[o]
      /\ \A x \in Obj : x # o => rxOn'[x] = rxOn[x] /\ txOn'[x] = txOn[x]
  BY <1>1, <1>2 DEF Tables
<1>5. \A x \in Open : x \in Obj
  BY DEF Tables
<1>6. fdOf[o] \in DOMAIN rdObjs /\ Lists(rdObjs, rxOn)'
  <2>1. rdObjs' = Without(rdObjs, fdOf[o])
    BY <1>1, <1>2
  <2>2. fdOf[o] \in DOMAIN rdObjs /\ Lists(rdObjs, rxOn)'
    <3> DEFINE on2 == rxOn'
    <3>1. Lists(rdObjs, rxOn) /\ rxOn[o] /\ ~on2[o] /\ \A x \in Open : x # o => (on2[x] <=> rxOn[x])
      BY <1>2, <1>4, <1>5 DEF Tables
    <3>2. (fdOf' = Without(fdOf, o) \/ (fdOf' = fdOf /\ ~on2[o])) /\ \A x, y \in Open : fdOf[x] = fdOf[y] => x = y
      BY <1>1, <3>1 DEF Tables
    <3> HIDE DEF on2
    <3>3. /\ fdOf[o] \in DOMAIN rdObjs
          /\ LET W == Without(rdObjs, fdOf[o])
             IN /\ W = [y \in DOMAIN W |-> W[y]]
                /\ DOMAIN W = {fdOf'[x] : x \in {y \in Open' : on2[y]}}
                /\ \A x \in Open' : on2[x] => W[fdOf'[x]] = x
      BY <3>1, <3>2, ListsLess
    <3> QED BY <2>1, <3>3 DEF Lists, on2
  <2> QED BY <2>2
<1>7. (txOn[o] => fdOf[o] \in DOMAIN wrObjs) /\ Lists(wrObjs, txOn)'
  <2>1. CASE txOn[o]
    <3>0. wrObjs' = Without(wrObjs, fdOf[o])
      BY <1>1, <2>1
    <3> DEFINE on2 == txOn'
    <3>1. Lists(wrObjs, txOn) /\ txOn[o] /\ ~on2[o] /\ \A x \in Open : x # o => (on2[x] <=> txOn[x])
      BY <1>4, <1>5, <2>1 DEF Tables
    <3>2. (fdOf' = Without(fdOf, o) \/ (fdOf' = fdOf /\ ~on2[o])) /\ \A x, y \in Open : fdOf[x] = fdOf[y] => x = y
      BY <1>1, <3>1 DEF Tables
    <3> HIDE DEF on2
    <3>3. /\ fdOf[o] \in DOMAIN wrObjs
          /\ LET W == Without(wrObjs, fdOf[o])
             IN /\ W = [y \in DOMAIN W |-> W[y]]
                /\ DOMAIN W = {fdOf'[x] : x \in {y \in Open' : on2[y]}}
                /\ \A x \in Open' : on2[x] => W[fdOf'[x]] = x
      BY <3>1, <3>2, ListsLess
    <3> QED BY <3>0, <3>3 DEF Lists, on2
  <2>2. CASE ~txOn[o]
    <3>1. wrObjs' = wrObjs /\ Lists(wrObjs, txOn)
      BY <1>1, <2>2 DEF Tables
    <3>2. \A x : (x \in Open' /\ txOn'[x]) <=> (x \in Open /\ txOn[x])
      BY <1>3, <1>4, <1>5, <2>2
    <3>3. {fdOf'[x] : x \in {y \in Open' : txOn'[y]}} = {fdOf[x] : x \in {y \in Open : txOn[y]}}
      BY <1>3, <3>2
    <3>4. \A x \in Open' : txOn'[x] => wrObjs'[fdOf'[x]] = x
      BY <1>3, <3>1, <3>2 DEF Lists
    <3> QED BY <2>2, <3>1, <3>3, <3>4 DEF Lists
  <2> QED BY <2>1, <2>2
<1>8. Tables'
  <2>1. ~crashed'
    BY <1>1, <1>6, <1>7
  <2>2. /\ \A x \in Obj : rxOn'[x] <=> x \in Open'
        /\ \A x \in Obj : txOn'[x] => x \in Open' \ {Acceptor}
    BY <1>2, <1>3, <1>4 DEF Tables
  <2>3. data' \subseteq Open'
    BY <1>1, <1>3 DEF Tables
  <2>4. /\ Open' \subseteq Obj /\ Acceptor \in Open' /\ \A x \in Open' : fdOf'[x] \in Fd
        /\ \A x, y \in Open' : fdOf'[x] = fdOf'[y] => x = y
    BY <1>2, <1>3 DEF Tables
  <2> QED BY <1>4, <1>6, <1>7, <2>1, <2>2, <2>3, <2>4 DEF Tables
<1> QED BY <1>3, <1>4, <1>5, <1>8

LEMMA RequestTxTables ==
  ASSUME Tables, Rounds, NEW o \in Open \cap Session, ~txOn[o], RequestTx(o),
         UNCHANGED <<fdOf, rxOn, rdObjs, data>>
  PROVE  Tables' /\ \A x \in Open : txOn[x] => txOn'[x]
<1>1. /\ txOn' = [txOn EXCEPT ![o] = TRUE] /\ wrObjs' = With(wrObjs, fdOf[o], o)
      /\ crashed' = (fdOf[o] \in DOMAIN wrObjs)
  BY DEF RequestTx
<1>2. o \in Obj /\ o # Acceptor
  BY ObjAssumption DEF Tables
<1>3. /\ txOn' \in [Obj -> BOOLEAN] /\ txOn'[o]
      /\ \A x \in Obj : x # o => txOn'[x] = txOn[x]
  BY <1>1, <1>2 DEF Tables
<1>4. Open' = Open /\ \A x \in Open : x \in Obj
  BY DEF Open, Tables
<1>5. fdOf[o] \notin DOMAIN wrObjs
  BY DEF Tables, Lists
<1>6. /\ wrObjs' = [y \in DOMAIN wrObjs' |-> wrObjs'[y]] /\ DOMAIN wrObjs' = DOMAIN wrObjs \cup {fdOf[o]}
      /\ wrObjs'[fdOf[o]] = o /\ \A y \in DOMAIN wrObjs : wrObjs'[y] = wrObjs[y]
  BY <1>1, <1>5 DEF With
<1>7. /\ DOMAIN wrObjs = {fdOf[x] : x \in {y \in Open : txOn[y]}}
      /\ \A x \in Open : txOn[x] => wrObjs[fdOf[x]] = x
  BY DEF Tables, Lists
<1>8. \A x : (x \in Open /\ txOn'[x]) <=> ((x \in Open /\ txOn[x]) \/ x = o)
  BY <1>3, <1>4
<1>9. Lists(wrObjs, txOn)'
  <2>1. DOMAIN wrObjs' = {fdOf'[x] : x \in {y \in Open' : txOn'[y]}}
    BY <1>4, <1>6, <1>7, <1>8
  <2>2. \A x \in Open' : txOn'[x] => wrObjs'[fdOf'[x]] = x
    BY <1>4, <1>6, <1>7, <1>8
  <2> QED BY <1>6, <2>1, <2>2 DEF Lists
<1>10. Lists(rdObjs, rxOn)'
  BY <1>4 DEF Tables, Lists
<1>11. \A x \in Obj : txOn'[x] => x \in Open \ {Acceptor}
  BY <1>2, <1>3 DEF Tables
<1> QED BY <1>1, <1>3, <1>4, <1>5, <1>9, <1>10, <1>11 DEF Tables

LEMMA IdleTxTables ==
  ASSUME Tables, Rounds, NEW o \in Open \cap Session, IdleTx(o),
         UNCHANGED <<fdOf, rxOn, rdObjs, data>>
  PROVE  Tables' /\ \A x \in Open : x # o => txOn'[x] = txOn[x]
<1>1. o \in Obj /\ o # Acceptor
  BY ObjAssumption DEF Tables
<1>2. Open' = Open /\ \A x \in Open : x \in Obj
  BY DEF Open, Tables
<1>3. CASE ~txOn[o]
  BY <1>2, <1>3 DEF IdleTx, Tables, Lists
<1>4. CASE txOn[o]
  <2>1. /\ txOn' = [txOn EXCEPT ![o] = FALSE] /\ wrObjs' = Without(wrObjs, fdOf[o])
        /\ crashed' = (fdOf[o] \notin DOMAIN wrObjs)
    BY <1>4 DEF IdleTx
  <2>2. /\ txOn' \in [Obj -> BOOLEAN] /\ ~txOn'[o] /\ \A x \in Obj : x # o => txOn'[x] = txOn[x]
    BY <1>1, <2>1 DEF Tables
  <2>3. fdOf[o] \in DOMAIN wrObjs /\ Lists(wrObjs, txOn)'
    <3> DEFINE on2 == txOn'
    <3>1. Lists(wrObjs, txOn) /\ txOn[o] /\ ~on2[o] /\ \A x \in Open : x # o => (on2[x] <=> txOn[x])
      BY <1>2, <1>4, <2>2 DEF Tables
    <3>2. (fdOf' = Without(fdOf, o) \/ (fdOf' = fdOf /\ ~on2[o])) /\ \A x, y \in Open : fdOf[x] = fdOf[y] => x = y
      BY <3>1 DEF Tables
    <3> HIDE DEF on2
    <3>3. /\ fdOf[o] \in DOMAIN wrObjs
          /\ LET W == Without(wrObjs, fdOf[o])
             IN /\ W = [y \in DOMAIN W |-> W[y]]
                /\ DOMAIN W = {fdOf'[x] : x \in {y \in Open' : on2[y]}}
                /\ \A x \in Open' : on2[x] => W[fdOf'[x]] = x
      BY <3>1, <3>2, ListsLess
    <3> QED BY <2>1, <3>3 DEF Lists, on2
  <2>4. Lists(rdObjs, rxOn)'
    BY <1>2 DEF Tables, Lists
  <2>5. \A x \in Obj : txOn'[x] => x \in Open \ {Acceptor}
    BY <1>1, <2>2 DEF Tables
  <2>6. Tables'
    BY <1>2, <2>1, <2>2, <2>3, <2>4, <2>5 DEF Tables
  <2> QED BY <1>2, <2>2, <2>6
<1> QED BY <1>3, <1>4

-----------------------------------------------------------------------------
(* The steps                                                               *)

LEMMA DispatchTables ==
  ASSUME Tables, Rounds, Dispatch
  PROVE  Tables' /\ Rounds'
<1> DEFINE fd == Min(Ready)
           objs == IF fd \in rfds THEN rdObjs ELSE wrObjs
<1>1. /\ pc = "dispatch" /\ Ready # {}
      /\ rfds' = rfds \ {fd} /\ wfds' = wfds \ {fd}
      /\ \/ /\ fd \notin DOMAIN objs
            /\ rdObjs' = Without(rdObjs, fd) /\ wrObjs' = Without(wrObjs, fd)
            /\ UNCHANGED <<fdOf, rxOn, txOn, data, crashed, pc, current, mayIdle>>
         \/ /\ fd \in DOMAIN objs /\ objs[fd] = Acceptor
            /\ \/ \E o \in Session \ Open : FreeFds # {} /\ OpenSession(o, Min(FreeFds))
               \/ UNCHANGED <<fdOf, rxOn, txOn, rdObjs, wrObjs, crashed>>
            /\ data' = data \ {Acceptor}
            /\ UNCHANGED <<pc, current, mayIdle>>
         \/ /\ fd \in DOMAIN objs /\ objs[fd] # Acceptor
            /\ current' = objs[fd] /\ mayIdle' = (fd \in wfds)
            /\ data' = IF fd \in rfds THEN data \ {objs[fd]} ELSE data
            /\ pc' = "handler"
            /\ UNCHANGED <<fdOf, rxOn, txOn, rdObjs, wrObjs, crashed>>
  BY DEF Dispatch
<1>2. fd \in Ready
  <2>1. Ready \subseteq Nat
    BY FdAssumption DEF Rounds, Ready
  <2> QED BY <1>1, <2>1, LeastNumber
<1>3. rfds' \subseteq Fd /\ wfds' \subseteq Fd /\ wfds' \subseteq wfds /\ fd \notin wfds'
  BY <1>1 DEF Rounds
<1>4. Lists(rdObjs, rxOn) /\ Lists(wrObjs, txOn)
  BY DEF Tables
<1>5. ASSUME fd \in DOMAIN objs
      PROVE  objs[fd] \in Open /\ fdOf[objs[fd]] = fd
  <2>1. CASE fd \in rfds
    BY <1>4, <1>5, <2>1 DEF Lists
  <2>2. CASE fd \notin rfds
    BY <1>4, <1>5, <2>2 DEF Lists
  <2> QED BY <2>1, <2>2
<1> HIDE DEF objs
<1>6. CASE /\ fd \notin DOMAIN objs
           /\ rdObjs' = Without(rdObjs, fd) /\ wrObjs' = Without(wrObjs, fd)
           /\ UNCHANGED <<fdOf, rxOn, txOn, data, crashed, pc, current, mayIdle>>
  <2>1. \A o \in Open : fdOf[o] # fd
    <3>1. SUFFICES ASSUME NEW o \in Open, fdOf[o] = fd PROVE FALSE
      OBVIOUS
    <3>2. rxOn[o]
      BY DEF Tables
    <3>3. fd \in DOMAIN rdObjs
      BY <1>4, <3>1, <3>2 DEF Lists
    <3>4. fd \notin rfds /\ fd \in wfds /\ fd \notin DOMAIN wrObjs
      BY <1>2, <1>6, <3>3 DEF Ready, objs
    <3>5. txOn[o]
      BY <3>1, <3>4 DEF Rounds
    <3> QED BY <1>4, <3>1, <3>4, <3>5 DEF Lists
  <2>2. fd \notin DOMAIN rdObjs /\ fd \notin DOMAIN wrObjs
    BY <1>4, <2>1 DEF Lists
  <2>3. rdObjs' = rdObjs /\ wrObjs' = wrObjs
    <3>1. DOMAIN rdObjs \ {fd} = DOMAIN rdObjs /\ DOMAIN wrObjs \ {fd} = DOMAIN wrObjs
      BY <2>2
    <3>2. rdObjs' = [y \in DOMAIN rdObjs |-> rdObjs[y]] /\ wrObjs' = [y \in DOMAIN wrObjs |-> wrObjs[y]]
      BY <1>6, <3>1 DEF Without
    <3> QED BY <1>4, <3>2 DEF Lists
  <2>4. Tables'
    BY <1>6, <2>3 DEF Tables, Lists, Open
  <2> QED BY <1>3, <1>6, <2>4 DEF Rounds, Open
<1>7. CASE /\ fd \in DOMAIN objs /\ objs[fd] = Acceptor
           /\ \/ \E o \in Session \ Open : FreeFds # {} /\ OpenSession(o, Min(FreeFds))
              \/ UNCHANGED <<fdOf, rxOn, txOn, rdObjs, wrObjs, crashed>>
           /\ data' = data \ {Acceptor}
           /\ UNCHANGED <<pc, current, mayIdle>>
  <2>1. CASE UNCHANGED <<fdOf, rxOn, txOn, rdObjs, wrObjs, crashed>>
    BY <1>3, <1>7, <2>1 DEF Tables, Rounds, Lists, Open
  <2>2. ASSUME NEW o \in Session \ Open, FreeFds # {}, OpenSession(o, Min(FreeFds))
        PROVE  Tables' /\ Rounds'
    <3>1. Min(FreeFds) \in FreeFds
      <4>1. FreeFds \subseteq Nat
        BY FdAssumption DEF FreeFds
      <4> QED BY <2>2, <4>1, LeastNumber
    <3>2. /\ Tables' /\ Open' = Open \cup {o} /\ txOn'[o]
          /\ \A x \in Open : fdOf'[x] = fdOf[x] /\ txOn'[x] = txOn[x]
      <4> DEFINE m == Min(FreeFds)
      <4>1. data' \subseteq data /\ m \in FreeFds /\ OpenSession(o, m)
        BY <1>7, <2>2, <3>1
      <4> HIDE DEF m
      <4> QED BY <4>1, OpenSessionTables
    <3>3. pc' = "dispatch" /\ UNCHANGED <<current, mayIdle>>
      BY <1>1, <1>7
    <3> QED BY <1>1, <1>3, <3>2, <3>3 DEF Rounds
  <2> QED BY <1>7, <2>1, <2>2
<1>8. CASE /\ fd \in DOMAIN objs /\ objs[fd] # Acceptor
           /\ current' = objs[fd] /\ mayIdle' = (fd \in wfds)
           /\ data' = IF fd \in rfds THEN data \ {objs[fd]} ELSE data
           /\ pc' = "handler"
           /\ UNCHANGED <<fdOf, rxOn, txOn, rdObjs, wrObjs, crashed>>
  <2>1. current' \in Session /\ fdOf[current'] = fd
    BY <1>5, <1>8 DEF Tables, Obj
  <2>2. data' \subseteq data
    BY <1>8
  <2>3. Tables'
    BY <1>8, <2>2 DEF Tables, Lists, Open
  <2>4. mayIdle' \in BOOLEAN /\ pc' = "handler" /\ UNCHANGED <<fdOf, txOn>>
    BY <1>8
  <2>5. Rounds'
    BY <1>3, <2>1, <2>4 DEF Rounds, Open
  <2> QED BY <2>3, <2>5
<1> QED BY <1>1, <1>6, <1>7, <1>8

LEMMA TablesStep ==
  ASSUME Tables, Rounds, [Next]_vars
  PROVE  Tables' /\ Rounds'
<1>2. CASE CloseSession
  <2>1. PICK o \in Open \cap Session : Close(o)
    BY <1>2 DEF CloseSession
  <2>2. Tables' /\ Open' = Open \ {o} /\ \A x \in Open' : fdOf'[x] = fdOf[x] /\ txOn'[x] = txOn[x]
    BY <2>1, CloseTables
  <2>3. UNCHANGED <<rfds, wfds, current, mayIdle, pc>>
    BY <1>2 DEF CloseSession, roundVars
  <2> QED BY <2>2, <2>3 DEF Rounds
<1>3. CASE Put
  <2>1. PICK o \in Open \cap Session : ~txOn[o] /\ RequestTx(o)
    BY <1>3 DEF Put
  <2>2. UNCHANGED <<fdOf, rxOn, rdObjs, data, rfds, wfds, current, mayIdle, pc>>
    BY <1>3 DEF Put, roundVars
  <2>3. Tables' /\ \A x \in Open : txOn[x] => txOn'[x]
    BY <2>1, <2>2, RequestTxTables
  <2> QED BY <2>2, <2>3 DEF Rounds, Open
<1>4. CASE Connected
  <2>1. PICK o \in Session \ Open, fd \in FreeFds : OpenSession(o, fd)
    BY <1>4 DEF Connected
  <2>2. pc = "callback" /\ UNCHANGED <<data, rfds, wfds, current, mayIdle, pc>>
    BY <1>4 DEF Connected, roundVars
  <2>3. /\ Tables' /\ Open' = Open \cup {o} /\ txOn'[o]
        /\ \A x \in Open : fdOf'[x] = fdOf[x] /\ txOn'[x] = txOn[x]
    BY <2>1, <2>2, OpenSessionTables
  <2> QED BY <2>2, <2>3 DEF Rounds
<1>5. CASE SetTimer \/ DeleteTimer
  <2>1. UNCHANGED <<ioVars, roundVars, pc>>
    BY <1>5 DEF SetTimer, DeleteTimer
  <2> QED BY <2>1 DEF ioVars, roundVars, Tables, Rounds, Lists, Open
<1>6. CASE Return
  <2>1. /\ pc \in {"handler", "callback"} /\ pc' \in {"dispatch", "timers"}
        /\ current' = NoObj /\ mayIdle' = FALSE
        /\ UNCHANGED <<fdOf, rxOn, rdObjs, data, rfds, wfds>>
    BY <1>6 DEF Return
  <2>2. CASE UNCHANGED <<txOn, wrObjs, crashed>>
    <3>1. Tables'
      BY <2>1, <2>2 DEF Tables, Lists, Open
    <3>2. Rounds'
      BY <2>1, <2>2 DEF Rounds, Open
    <3> QED BY <3>1, <3>2
  <2>3. CASE mayIdle /\ current \in Open /\ IdleTx(current)
    <3>1. current \in Open \cap Session /\ fdOf[current] \notin wfds
      BY <2>3, ObjAssumption DEF Rounds, Tables, Obj
    <3>2. Tables' /\ \A x \in Open : x # current => txOn'[x] = txOn[x]
      BY <2>1, <2>3, <3>1, IdleTxTables
    <3> QED BY <2>1, <3>1, <3>2 DEF Rounds, Open
  <2> QED BY <1>6, <2>2, <2>3 DEF Return
<1>7. CASE Run \/ NoTimer \/ EndRound
  <2>1. /\ UNCHANGED ioVars /\ UNCHANGED roundVars /\ pc \in {"out", "timers", "dispatch"}
        /\ pc' \in {"timers", "select", "out"}
    BY <1>7 DEF Run, NoTimer, EndRound
  <2> QED BY <2>1 DEF ioVars, roundVars, Tables, Rounds, Lists, Open
<1>8. CASE NextTimer
  <2>1. /\ UNCHANGED ioVars /\ UNCHANGED roundVars /\ pc = "timers"
        /\ pc' \in {"callback", "timers"}
    BY <1>8 DEF NextTimer
  <2> QED BY <2>1 DEF ioVars, roundVars, Tables, Rounds, Lists, Open
<1>9. CASE Select
  <2>1. /\ UNCHANGED ioVars /\ UNCHANGED <<current, mayIdle>> /\ pc = "select" /\ pc' = "dispatch"
        /\ rfds' \subseteq DOMAIN rdObjs /\ wfds' \subseteq DOMAIN wrObjs
    BY <1>9 DEF Select
  <2>2. Tables'
    BY <2>1 DEF ioVars, Tables, Lists, Open
  <2>3. DOMAIN rdObjs \subseteq Fd /\ DOMAIN wrObjs \subseteq Fd
    BY DEF Tables, Lists
  <2>4. \A o \in Open : fdOf[o] \in wfds' => txOn[o]
    BY <2>1 DEF Tables, Lists
  <2>5. Rounds'
    BY <2>1, <2>3, <2>4 DEF ioVars, Rounds, Open
  <2> QED BY <2>2, <2>5
<1>10. CASE Dispatch
  BY <1>10, DispatchTables
<1>11. CASE Arrive
  <2>1. /\ data' \subseteq Open /\ UNCHANGED <<fdOf, rxOn, txOn, rdObjs, wrObjs, crashed, pc>>
        /\ UNCHANGED roundVars
    BY <1>11 DEF Arrive, Tables
  <2> QED BY <2>1 DEF roundVars, Tables, Rounds, Lists, Open
<1>12. CASE Tick \/ UNCHANGED vars
  <2>1. UNCHANGED ioVars /\ UNCHANGED roundVars /\ UNCHANGED pc
    BY <1>12 DEF Tick, vars
  <2> QED BY <2>1 DEF ioVars, roundVars, Tables, Rounds, Lists, Open
<1> QED BY <1>2, <1>3, <1>4, <1>5, <1>6, <1>7, <1>8, <1>9, <1>10, <1>11, <1>12 DEF Next, Loop, Work

LEMMA TablesCorrect == Spec => [](Tables /\ Rounds)
<1>1. Tables /\ Rounds /\ [Next]_vars => (Tables /\ Rounds)'
  BY TablesStep
<1> QED BY <1>1, TablesInit, PTL DEF Spec

(* What an object believes of its registrations is what the loop waits for,     *)
(* whatever handlers close and open in the middle of a round: a ready set that  *)
(* is out of date never makes the loop forget a descriptor that has been opened *)
(* again, and no assertion of registerRx, registerTx, unregisterRx and          *)
(* unregisterTx fails (BasicIoService::run, IoObject::deinit).                  *)
THEOREM AgreementCorrect == Spec => []Agreement
BY TablesCorrect, TablesAgree, PTL

-----------------------------------------------------------------------------
(* Sequences                                                               *)

\* A part of a sequence, element by element.
LEMMA Slice ==
  ASSUME NEW S, NEW s \in Seq(S), NEW a \in Nat, NEW b \in Nat, a <= b, b <= Len(s)
  PROVE  /\ SubSeq(s, a + 1, b) \in Seq(S)
         /\ Len(SubSeq(s, a + 1, b)) = b - a
         /\ \A i \in 1 .. b - a : SubSeq(s, a + 1, b)[i] = s[a + i]
<1>1. Len(s) \in Nat
  OBVIOUS
<1>2. \A i \in a + 1 .. b : s[i] \in S
  OBVIOUS
<1> QED BY <1>1, <1>2

\* m says which element of the list each element of r is.
Picks(r, list, m) ==
  /\ m \in [1 .. Len(r) -> 1 .. Len(list)]
  /\ \A k \in 1 .. Len(r) : r[k] = list[m[k]]
  /\ \A k, l \in 1 .. Len(r) : k < l => m[k] < m[l]

\* The k-th of a set of positions: there is one that has k - 1 before it.
LEMMA Ranked ==
  ASSUME NEW n \in Nat, NEW at \in SUBSET (1 .. n), NEW k \in 1 .. Cardinality(at)
  PROVE  \E i \in at : Cardinality({j \in at : j <= i}) = k
<1> DEFINE upTo(x) == {j \in at : j <= x}
           T == {x \in 1 .. n : k <= Cardinality(upTo(x))}
<1>0. /\ \A j \in at : j \in Nat /\ 1 <= j /\ j <= n
      /\ \A y, j : j \in upTo(y) <=> j \in at /\ j <= y
  OBVIOUS
<1>1. IsFiniteSet(at) /\ Cardinality(at) \in Nat /\ k \in Nat \ {0}
  <2>1. IsFiniteSet(1 .. n)
    BY FS_Interval
  <2>2. IsFiniteSet(at)
    BY <2>1, FS_Subset
  <2>3. Cardinality(at) \in Nat
    BY <2>2, FS_CardinalityType
  <2> QED BY <2>2, <2>3
<1>2. \A x : IsFiniteSet(upTo(x)) /\ Cardinality(upTo(x)) \in Nat
  <2> TAKE x
  <2>1. upTo(x) \in SUBSET at
    OBVIOUS
  <2> HIDE DEF upTo
  <2> QED BY <1>1, <2>1, FS_Subset, FS_CardinalityType
<1>3. n \in T
  <2>1. at # {}
    BY <1>1, FS_EmptySet
  <2>2. upTo(n) = at /\ n \in 1 .. n
    <3>1. PICK j \in at : TRUE
      BY <2>1
    <3>2. n \in 1 .. n
      BY <1>0, <3>1
    <3>3. \A i : i \in upTo(n) <=> i \in at
      <4> HIDE DEF upTo
      <4> QED BY <1>0
    <3> HIDE DEF upTo
    <3> QED BY <3>2, <3>3
  <2>3. k <= Cardinality(at)
    BY <1>1
  <2> HIDE DEF upTo
  <2> QED BY <2>2, <2>3
<1>4. T \subseteq Nat /\ T # {}
  <2>1. T \subseteq 1 .. n
    OBVIOUS
  <2> HIDE DEF T
  <2> QED BY <1>3, <2>1
<1> DEFINE x == Min(T)
<1>5. x \in T /\ \A y \in T : x <= y
  <2> HIDE DEF T
  <2> QED BY <1>4, LeastNumber
<1>6. x \in 1 .. n /\ k <= Cardinality(upTo(x))
  <2> HIDE DEF x, upTo
  <2> QED BY <1>5
<1> HIDE DEF x
<1>7. Cardinality(upTo(x - 1)) < k
  <2>1. CASE x = 1
    <3>1. upTo(x - 1) = {}
      <4>1. \A j \in at : ~(j <= x - 1)
        BY <1>0, <2>1
      <4> HIDE DEF upTo
      <4> QED BY <1>0, <4>1
    <3> HIDE DEF upTo
    <3> QED BY <1>1, <3>1, FS_EmptySet
  <2>2. CASE x # 1
    <3>1. x - 1 \in 1 .. n /\ ~(x <= x - 1)
      BY <1>6, <2>2
    <3>2. x - 1 \notin T
      BY <1>5, <3>1
    <3>3. Cardinality(upTo(x - 1)) \in Nat
      BY <1>2
    <3> HIDE DEF upTo
    <3> QED BY <1>1, <3>1, <3>2, <3>3
  <2> QED BY <2>1, <2>2
<1>8. x \in at
  <2>1. SUFFICES ASSUME x \notin at PROVE FALSE
    OBVIOUS
  <2>2. upTo(x) = upTo(x - 1)
    <3>1. \A j \in at : j <= x <=> j <= x - 1
      BY <1>0, <1>6, <2>1
    <3> HIDE DEF upTo
    <3>2. \A j : j \in upTo(x) <=> j \in upTo(x - 1)
      BY <1>0, <3>1
    <3>3. upTo(x) \subseteq at /\ upTo(x - 1) \subseteq at
      BY <1>0
    <3> QED BY <3>2, <3>3
  <2>3. Cardinality(upTo(x)) \in Nat
    BY <1>2
  <2> HIDE DEF upTo
  <2> QED BY <1>1, <1>6, <1>7, <2>2, <2>3
<1>9. upTo(x) = upTo(x - 1) \cup {x} /\ x \notin upTo(x - 1)
  <2>1. (\A j \in at : j <= x <=> (j <= x - 1 \/ j = x)) /\ ~(x <= x - 1) /\ x <= x
    BY <1>0, <1>6
  <2> HIDE DEF upTo
  <2>2. \A j : j \in upTo(x) <=> j \in upTo(x - 1) \cup {x}
    BY <1>0, <1>8, <2>1
  <2> QED BY <1>0, <2>1, <2>2
<1>10. Cardinality(upTo(x)) = Cardinality(upTo(x - 1)) + 1
  <2> HIDE DEF upTo
  <2> QED BY <1>2, <1>9, FS_AddElement
<1>11. Cardinality(upTo(x)) = k
  <2>1. Cardinality(upTo(x)) \in Nat /\ Cardinality(upTo(x - 1)) \in Nat
    BY <1>2
  <2> HIDE DEF upTo
  <2> QED BY <1>1, <1>6, <1>7, <1>10, <2>1
<1> QED BY <1>8, <1>11

-----------------------------------------------------------------------------
(* Timers                                                                  *)

\* What is left of a list without its dead timers.
LEMMA LiveEffect ==
  ASSUME NEW list \in Seq(Timer)
  PROVE  /\ Live(list) \in Seq(Timer)
         /\ \A k \in 1 .. Len(Live(list)) : Live(list)[k] \in alive
         /\ \E m : Picks(Live(list), list, m)
<1> DEFINE at == {i \in DOMAIN list : list[i] \in alive}
           upTo(i) == {j \in at : j <= i}
           N == Cardinality(at)
           nth(k) == CHOOSE i \in at : Cardinality(upTo(i)) = k
           m == [k \in 1 .. N |-> nth(k)]
<1>1. Len(list) \in Nat /\ DOMAIN list = 1 .. Len(list) /\ at \in SUBSET (1 .. Len(list))
      /\ \A i \in at : list[i] \in alive /\ list[i] \in Timer
  OBVIOUS
<1>2. IsFiniteSet(at) /\ N \in Nat
  <2>1. IsFiniteSet(1 .. Len(list))
    BY <1>1, FS_Interval
  <2> HIDE DEF at
  <2> QED BY <1>1, <2>1, FS_Subset, FS_CardinalityType
<1>3. Live(list) = [k \in 1 .. N |-> list[nth(k)]]
  BY DEF Live
<1>4. \A k \in 1 .. N : m[k] \in at /\ Cardinality(upTo(m[k])) = k
  <2> SUFFICES ASSUME NEW k \in 1 .. N PROVE m[k] \in at /\ Cardinality(upTo(m[k])) = k
    OBVIOUS
  <2>1. \E i \in at : Cardinality(upTo(i)) = k
    <3> HIDE DEF at
    <3> QED BY <1>1, Ranked
  <2>2. nth(k) \in at /\ Cardinality(upTo(nth(k))) = k
    <3> HIDE DEF at, upTo
    <3> QED BY <2>1
  <2> HIDE DEF nth, at, upTo
  <2> QED BY <2>2
<1>5. \A k, l \in 1 .. N : k < l => m[k] < m[l]
  <2> SUFFICES ASSUME NEW k \in 1 .. N, NEW l \in 1 .. N, k < l, ~(m[k] < m[l]) PROVE FALSE
    OBVIOUS
  <2>1. m[k] \in at /\ m[l] \in at /\ Cardinality(upTo(m[k])) = k /\ Cardinality(upTo(m[l])) = l
    BY <1>4
  <2> HIDE DEF m
  <2>2. m[k] \in Nat /\ m[l] \in Nat /\ m[l] <= m[k]
    <3>1. m[k] \in 1 .. Len(list) /\ m[l] \in 1 .. Len(list)
      <4> HIDE DEF at, upTo
      <4> QED BY <1>1, <2>1
    <3> HIDE DEF at, upTo
    <3> QED BY <1>1, <3>1
  <2>3. upTo(m[l]) \in SUBSET upTo(m[k])
    <3>1. at \subseteq Nat
      <4> HIDE DEF at
      <4> QED BY <1>1
    <3>2. \A j \in at : j <= m[l] => j <= m[k]
      <4> HIDE DEF at
      <4> QED BY <2>2, <3>1
    <3> QED BY <3>2
  <2>4. IsFiniteSet(upTo(m[k]))
    <3>1. upTo(m[k]) \in SUBSET at
      OBVIOUS
    <3> HIDE DEF at, upTo
    <3> QED BY <1>2, <3>1, FS_Subset
  <2>5. Cardinality(upTo(m[l])) <= Cardinality(upTo(m[k]))
    <3> HIDE DEF at, upTo
    <3> QED BY <2>3, <2>4, FS_Subset
  <2> HIDE DEF at, upTo
  <2> QED BY <1>2, <2>1, <2>5
<1>6. Live(list) = [k \in 1 .. N |-> list[m[k]]]
  <2> HIDE DEF N, nth
  <2> QED BY <1>3
<1> HIDE DEF N, m, upTo
<1>7. /\ Live(list) \in [1 .. N -> Timer] /\ \A k \in 1 .. N : Live(list)[k] = list[m[k]]
      /\ \A k \in 1 .. N : m[k] \in 1 .. Len(list) /\ list[m[k]] \in alive
  <2> HIDE DEF at
  <2> QED BY <1>1, <1>4, <1>6
<1>8. Live(list) \in Seq(Timer) /\ Len(Live(list)) = N
  BY <1>2, <1>7
<1>9. m \in [1 .. N -> 1 .. Len(list)]
  BY <1>7 DEF m
<1>10. Picks(Live(list), list, m)
  <2> HIDE DEF at
  <2> QED BY <1>5, <1>7, <1>8, <1>9 DEF Picks
<1> QED BY <1>7, <1>8, <1>10

\* As TimersInOrder, of any list and times.
InOrder(list, times) ==
  \A i, j \in 1 .. Len(list) :
    i < j /\ list[i] \in alive /\ list[j] \in alive =>
      list[i] # list[j] /\ times[list[i]] <= times[list[j]]

\* r consists of elements of the list before a position, in their order.
Before(r, list, pos) ==
  /\ r \in Seq(Timer)
  /\ \E h : \A k \in 1 .. Len(r) : /\ h[k] \in 1 .. pos - 1 /\ r[k] = list[h[k]]
                                   /\ \A l \in 1 .. Len(r) : k < l => h[k] < h[l]

\* What is left of a list before a position.
LEMMA LiveBefore ==
  ASSUME NEW list \in Seq(Timer), NEW pos \in 1 .. Len(list) + 1
  PROVE  Before(Live(SubSeq(list, 1, pos - 1)), list, pos)
<1> DEFINE F == SubSeq(list, 1, pos - 1)
           A == Live(F)
<1>1. Len(list) \in Nat /\ pos \in Nat /\ 1 <= pos /\ pos <= Len(list) + 1
  OBVIOUS
<1>2. F \in Seq(Timer) /\ Len(F) = pos - 1 /\ \A k \in 1 .. pos - 1 : F[k] = list[k]
  <2> DEFINE a == 0
             b == pos - 1
  <2>1. a \in Nat /\ b \in Nat /\ a <= b /\ b <= Len(list) /\ a + 1 = 1 /\ b - a = pos - 1
    BY <1>1
  <2>2. \A k \in 1 .. b - a : a + k = k
    BY <2>1
  <2> HIDE DEF a, b
  <2>3. /\ SubSeq(list, a + 1, b) \in Seq(Timer) /\ Len(SubSeq(list, a + 1, b)) = b - a
        /\ \A k \in 1 .. b - a : SubSeq(list, a + 1, b)[k] = list[a + k]
    BY <2>1, Slice
  <2>4. SubSeq(list, a + 1, b) = F
    BY <2>1 DEF b
  <2> HIDE DEF F
  <2> QED BY <2>1, <2>2, <2>3, <2>4
<1> HIDE DEF F
<1>3. A \in Seq(Timer) /\ \E m : Picks(A, F, m)
  BY <1>2, LiveEffect
<1>4. PICK h : Picks(A, F, h)
  BY <1>3
<1> HIDE DEF A
<1>5. \A k \in 1 .. Len(A) : /\ h[k] \in 1 .. pos - 1 /\ A[k] = list[h[k]]
                             /\ \A l \in 1 .. Len(A) : k < l => h[k] < h[l]
  BY <1>2, <1>4 DEF Picks
<1>6. Before(A, list, pos)
  BY <1>3, <1>5 DEF Before
<1> QED BY <1>6 DEF A, F

\* What comes after a position.
LEMMA RestAfter ==
  ASSUME NEW list \in Seq(Timer), NEW pos \in 0 .. Len(list) + 1
  PROVE  LET B == SubSeq(list, pos + 1, Len(list))
         IN /\ B \in Seq(Timer)
            /\ \A k \in 1 .. Len(B) : pos + k \in 1 .. Len(list) /\ B[k] = list[pos + k]
<1> DEFINE B == SubSeq(list, pos + 1, Len(list))
<1>1. Len(list) \in Nat /\ pos \in Nat /\ pos <= Len(list) + 1
  OBVIOUS
<1>2. /\ B \in Seq(Timer)
      /\ \A k \in 1 .. Len(B) : pos + k \in 1 .. Len(list) /\ B[k] = list[pos + k]
  <2>1. CASE pos = Len(list) + 1
    <3>1. B = <<>>
      BY <1>1, <2>1
    <3> HIDE DEF B
    <3> QED BY <3>1
  <2>2. CASE pos <= Len(list)
    <3>1. /\ B \in Seq(Timer) /\ Len(B) = Len(list) - pos
          /\ \A k \in 1 .. Len(list) - pos : B[k] = list[pos + k]
      <4> DEFINE b == Len(list)
      <4>1. pos \in Nat /\ b \in Nat /\ pos <= b /\ b <= Len(list)
        BY <1>1, <2>2
      <4> HIDE DEF b
      <4>2. /\ SubSeq(list, pos + 1, b) \in Seq(Timer) /\ Len(SubSeq(list, pos + 1, b)) = b - pos
            /\ \A k \in 1 .. b - pos : SubSeq(list, pos + 1, b)[k] = list[pos + k]
        BY <4>1, Slice
      <4> QED BY <4>2 DEF b
    <3>2. \A k \in 1 .. Len(list) - pos : pos + k \in 1 .. Len(list)
      BY <1>1
    <3> HIDE DEF B
    <3> QED BY <3>1, <3>2
  <2> QED BY <1>1, <2>1, <2>2
<1> QED BY <1>2

\* The two halves of a list around a position, put together again without it.
LEMMA Cut ==
  ASSUME NEW list \in Seq(Timer), NEW pos \in 1 .. Len(list) + 1
  PROVE  LET A == Live(SubSeq(list, 1, pos - 1))
             B == SubSeq(list, pos + 1, Len(list))
         IN /\ A \o B \in Seq(Timer)
            /\ \E m : Picks(A \o B, list, m) /\ \A k \in 1 .. Len(A \o B) : m[k] # pos
<1> DEFINE A == Live(SubSeq(list, 1, pos - 1))
           B == SubSeq(list, pos + 1, Len(list))
           n == Len(A)
<1>1. Len(list) \in Nat /\ pos \in Nat /\ 1 <= pos /\ pos <= Len(list) + 1
      /\ pos \in 0 .. Len(list) + 1
  OBVIOUS
<1>2. Before(A, list, pos)
  BY LiveBefore
<1>3. /\ B \in Seq(Timer)
      /\ \A k \in 1 .. Len(B) : pos + k \in 1 .. Len(list) /\ B[k] = list[pos + k]
  BY <1>1, RestAfter
<1> HIDE DEF A, B
<1>6. n \in Nat /\ Len(B) \in Nat /\ A \o B \in Seq(Timer) /\ Len(A \o B) = n + Len(B)
      /\ (\A k \in 1 .. n : (A \o B)[k] = A[k])
      /\ \A k \in n + 1 .. n + Len(B) : (A \o B)[k] = B[k - n]
  BY <1>2, <1>3 DEF Before
<1>7. PICK h : \A k \in 1 .. n : /\ h[k] \in 1 .. pos - 1 /\ A[k] = list[h[k]]
                                   /\ \A l \in 1 .. n : k < l => h[k] < h[l]
  BY <1>2 DEF Before
<1> DEFINE R == A \o B
           m == [k \in 1 .. Len(R) |-> IF k <= n THEN h[k] ELSE pos + (k - n)]
<1>8. \A k \in 1 .. Len(R) : \/ k \in 1 .. n /\ k <= n /\ m[k] = h[k] /\ R[k] = A[k]
                             \/ /\ k - n \in 1 .. Len(B) /\ ~(k <= n) /\ m[k] = pos + (k - n)
                                /\ R[k] = B[k - n]
  <2> SUFFICES ASSUME NEW k \in 1 .. Len(R)
               PROVE  \/ k \in 1 .. n /\ k <= n /\ m[k] = h[k] /\ R[k] = A[k]
                      \/ /\ k - n \in 1 .. Len(B) /\ ~(k <= n) /\ m[k] = pos + (k - n)
                         /\ R[k] = B[k - n]
    OBVIOUS
  <2>1. m[k] = IF k <= n THEN h[k] ELSE pos + (k - n)
    OBVIOUS
  <2>2. \/ k \in 1 .. n /\ k <= n
        \/ k - n \in 1 .. Len(B) /\ ~(k <= n) /\ k \in n + 1 .. n + Len(B)
    <3>1. k \in 1 .. n + Len(B)
      BY <1>6
    <3> HIDE DEF n, m
    <3> QED BY <1>6, <3>1
  <2> HIDE DEF m, n
  <2> QED BY <1>6, <2>1, <2>2
<1>9. m \in [1 .. Len(R) -> 1 .. Len(list)]
  <2>1. \A k \in 1 .. Len(R) : m[k] \in 1 .. Len(list)
    <3> SUFFICES ASSUME NEW k \in 1 .. Len(R) PROVE m[k] \in 1 .. Len(list)
      OBVIOUS
    <3>1. CASE k \in 1 .. n /\ k <= n /\ m[k] = h[k] /\ R[k] = A[k]
      <4> HIDE DEF m, R, n
      <4>1. h[k] \in 1 .. pos - 1
        BY <1>7, <3>1
      <4>2. 1 .. pos - 1 \subseteq 1 .. Len(list)
        BY <1>1
      <4> QED BY <3>1, <4>1, <4>2
    <3>2. CASE k - n \in 1 .. Len(B) /\ ~(k <= n) /\ m[k] = pos + (k - n) /\ R[k] = B[k - n]
      <4> HIDE DEF m, R, n
      <4> QED BY <1>3, <3>2
    <3> HIDE DEF m, R, n
    <3> QED BY <1>8, <3>1, <3>2
  <2>2. m = [k \in 1 .. Len(R) |-> m[k]]
    OBVIOUS
  <2> HIDE DEF m, R
  <2> QED BY <2>1, <2>2
<1>10. \A k \in 1 .. Len(R) : R[k] = list[m[k]] /\ m[k] # pos
  <2> SUFFICES ASSUME NEW k \in 1 .. Len(R) PROVE R[k] = list[m[k]] /\ m[k] # pos
    OBVIOUS
  <2>1. CASE k \in 1 .. n /\ k <= n /\ m[k] = h[k] /\ R[k] = A[k]
    <3> HIDE DEF m, R, n
    <3> QED BY <1>1, <1>7, <2>1
  <2>2. CASE k - n \in 1 .. Len(B) /\ ~(k <= n) /\ m[k] = pos + (k - n) /\ R[k] = B[k - n]
    <3> HIDE DEF m, R, n
    <3> QED BY <1>1, <1>3, <2>2
  <2> HIDE DEF m, R, n
  <2> QED BY <1>8, <2>1, <2>2
<1>11. \A k, l \in 1 .. Len(R) : k < l => m[k] < m[l]
  <2> SUFFICES ASSUME NEW k \in 1 .. Len(R), NEW l \in 1 .. Len(R), k < l PROVE m[k] < m[l]
    OBVIOUS
  <2>0. k \in Nat /\ l \in Nat /\ n \in Nat
    <3> HIDE DEF R, n
    <3> QED BY <1>6
  <2>1. CASE l \in 1 .. n /\ l <= n /\ m[l] = h[l]
    <3>1. k \in 1 .. n /\ m[k] = h[k]
      <4> HIDE DEF m, R, n
      <4> QED BY <1>8, <2>0, <2>1
    <3> HIDE DEF m, R, n
    <3> QED BY <1>7, <2>1, <3>1
  <2>2. CASE l - n \in 1 .. Len(B) /\ ~(l <= n) /\ m[l] = pos + (l - n)
    <3> HIDE DEF m, R, n
    <3>1. (k \in 1 .. n /\ m[k] = h[k]) \/ m[k] = pos + (k - n)
      BY <1>8
    <3>2. CASE k \in 1 .. n /\ m[k] = h[k]
      BY <1>1, <1>7, <2>0, <2>2, <3>2
    <3>3. CASE m[k] = pos + (k - n)
      BY <1>1, <2>0, <2>2, <3>3
    <3> QED BY <3>1, <3>2, <3>3
  <2> HIDE DEF m, R, n
  <2> QED BY <1>8, <2>1, <2>2
<1> HIDE DEF m
<1>12. Picks(R, list, m)
  BY <1>9, <1>10, <1>11 DEF Picks
<1> HIDE DEF R
<1>13. \E w : Picks(R, list, w) /\ \A k \in 1 .. Len(R) : w[k] # pos
  BY <1>10, <1>12
<1> QED BY <1>6, <1>13 DEF A, B, R

\* What is picked from a list that is in order is in order.
LEMMA PicksInOrder ==
  ASSUME NEW list \in Seq(Timer), NEW r \in Seq(Timer), NEW m, Picks(r, list, m),
         NEW times, InOrder(list, times)
  PROVE  InOrder(r, times)
<1>1. \A i \in 1 .. Len(r) : m[i] \in 1 .. Len(list) /\ r[i] = list[m[i]]
  BY DEF Picks
<1>2. \A i, j \in 1 .. Len(r) : i < j => m[i] < m[j]
  BY DEF Picks
<1>3. SUFFICES ASSUME NEW i \in 1 .. Len(r), NEW j \in 1 .. Len(r),
                      i < j, r[i] \in alive, r[j] \in alive
               PROVE  r[i] # r[j] /\ times[r[i]] <= times[r[j]]
  BY DEF InOrder
<1> QED BY <1>1, <1>2, <1>3 DEF InOrder

\* What unregisterTimer leaves is in order, without the timer.
LEMMA UnlistEffect ==
  ASSUME NEW list \in Seq(Timer), NEW t \in alive, NEW times, InOrder(list, times)
  PROVE  /\ Unlist(list, t) \in Seq(Timer)
         /\ InOrder(Unlist(list, t), times)
         /\ \A k \in 1 .. Len(Unlist(list, t)) :
              Unlist(list, t)[k] # t /\ \E i \in 1 .. Len(list) : Unlist(list, t)[k] = list[i]
<1> DEFINE found == {i \in DOMAIN list : list[i] = t}
           pos == IF found = {} THEN Len(list) + 1 ELSE Min(found)
           R == Live(SubSeq(list, 1, pos - 1)) \o SubSeq(list, pos + 1, Len(list))
<1>1. Len(list) \in Nat /\ DOMAIN list = 1 .. Len(list)
  OBVIOUS
<1>2. pos \in 1 .. Len(list) + 1 /\ (found # {} => pos \in found)
  <2>1. CASE found = {}
    <3> HIDE DEF found
    <3> QED BY <1>1, <2>1
  <2>2. CASE found # {}
    <3>1. found \subseteq 1 .. Len(list)
      BY <1>1
    <3>2. 1 .. Len(list) \subseteq 1 .. Len(list) + 1 /\ 1 .. Len(list) \subseteq Nat
      BY <1>1
    <3> HIDE DEF found
    <3>3. Min(found) \in found
      BY <2>2, <3>1, <3>2, LeastNumber
    <3> QED BY <2>2, <3>1, <3>2, <3>3
  <2> HIDE DEF found, pos
  <2> QED BY <2>1, <2>2
<1>3. Unlist(list, t) = R
  BY DEF Unlist
<1> HIDE DEF pos
<1>4. R \in Seq(Timer) /\ \E m : Picks(R, list, m) /\ \A k \in 1 .. Len(R) : m[k] # pos
  BY <1>2, Cut
<1> HIDE DEF R
<1>5. PICK m : Picks(R, list, m) /\ \A k \in 1 .. Len(R) : m[k] # pos
  BY <1>4
<1>6. InOrder(R, times)
  BY <1>4, <1>5, PicksInOrder
<1>7. ASSUME NEW k \in 1 .. Len(R), R[k] = t PROVE FALSE
  <2>1. m[k] \in 1 .. Len(list) /\ list[m[k]] = t /\ m[k] # pos
    BY <1>5, <1>7 DEF Picks
  <2>2. m[k] \in found
    BY <1>1, <2>1
  <2>3. pos \in 1 .. Len(list) /\ list[pos] = t
    BY <1>1, <1>2, <2>2
  <2>4. m[k] < pos \/ pos < m[k]
    <3> HIDE DEF found
    <3> QED BY <2>1, <2>3
  <2> HIDE DEF found
  <2> QED BY <2>1, <2>3, <2>4 DEF InOrder
<1>8. \A k \in 1 .. Len(R) : \E i \in 1 .. Len(list) : R[k] = list[i]
  BY <1>5 DEF Picks
<1> QED BY <1>3, <1>4, <1>6, <1>7, <1>8

\* registerTimer puts the timer where it keeps the list in order.
LEMMA InsertEffect ==
  ASSUME NEW list \in Seq(Timer), alive \subseteq Timer, NEW t \in alive, NEW e \in Nat,
         expiry \in [Timer -> Nat], InOrder(list, expiry), \A k \in 1 .. Len(list) : list[k] # t
  PROVE  /\ Insert(list, t, e) \in Seq(Timer)
         /\ InOrder(Insert(list, t, e), [expiry EXCEPT ![t] = e])
         /\ \A k \in 1 .. Len(Insert(list, t, e)) :
              \/ Insert(list, t, e)[k] = t
              \/ \E i \in 1 .. Len(list) : Insert(list, t, e)[k] = list[i]
<1> DEFINE later == {i \in DOMAIN list : list[i] \in alive /\ e < expiry[list[i]]}
           pos == IF later = {} THEN Len(list) + 1 ELSE Min(later)
           A == Live(SubSeq(list, 1, pos - 1))
           B == SubSeq(list, pos, Len(list))
           n == Len(A)
           times == [expiry EXCEPT ![t] = e]
<1>1. Len(list) \in Nat /\ DOMAIN list = 1 .. Len(list) /\ t \in Timer
      /\ \A i \in 1 .. Len(list) : list[i] \in Timer /\ list[i] # t
  OBVIOUS
<1>2. /\ pos \in 1 .. Len(list) + 1
      /\ \A i \in 1 .. Len(list) :
           /\ list[i] \in alive /\ i < pos => ~(e < expiry[list[i]])
           /\ list[i] \in alive /\ pos <= i => e < expiry[list[i]]
  <2>1. later \subseteq 1 .. Len(list)
    BY <1>1
  <2>2. 1 .. Len(list) \subseteq 1 .. Len(list) + 1 /\ 1 .. Len(list) \subseteq Nat
    BY <1>1
  <2>3. \A i \in 1 .. Len(list) : list[i] \in alive => (i \in later <=> e < expiry[list[i]])
    BY <1>1
  <2>4. CASE later = {}
    <3>1. pos = Len(list) + 1
      BY <2>4
    <3> HIDE DEF later, pos
    <3> QED BY <1>1, <2>3, <2>4, <3>1
  <2>5. CASE later # {}
    <3>1. pos = Min(later)
      BY <2>5
    <3>2. \A i \in later : list[i] \in alive /\ e < expiry[list[i]]
      OBVIOUS
    <3> HIDE DEF later, pos
    <3>3. pos \in later /\ \A i \in later : pos <= i
      BY <2>1, <2>2, <2>5, <3>1, LeastNumber
    <3>4. pos \in 1 .. Len(list)
      BY <2>1, <3>3
    <3>5. list[pos] \in alive /\ e < expiry[list[pos]] /\ expiry[list[pos]] \in Nat
      BY <1>1, <3>2, <3>3, <3>4
    <3>6. ASSUME NEW i \in 1 .. Len(list), list[i] \in alive, i < pos PROVE ~(e < expiry[list[i]])
      <4>1. i \notin later
        BY <3>3, <3>4, <3>6
      <4> QED BY <2>3, <3>6, <4>1
    <3>7. ASSUME NEW i \in 1 .. Len(list), list[i] \in alive, pos <= i PROVE e < expiry[list[i]]
      <4>1. CASE i = pos
        BY <3>5, <4>1
      <4>2. CASE pos < i
        <5>1. expiry[list[pos]] <= expiry[list[i]]
          BY <3>4, <3>5, <3>7, <4>2 DEF InOrder
        <5>2. expiry[list[i]] \in Nat
          BY <1>1
        <5> DEFINE a == expiry[list[pos]]
                   b == expiry[list[i]]
        <5>3. e < a /\ a <= b /\ a \in Nat /\ b \in Nat
          BY <3>5, <5>1, <5>2
        <5> HIDE DEF a, b
        <5>4. e < b
          BY <5>3
        <5> QED BY <5>4 DEF b
      <4> QED BY <3>4, <3>7, <4>1, <4>2
    <3> QED BY <2>2, <3>4, <3>6, <3>7
  <2> HIDE DEF later, pos
  <2> QED BY <2>4, <2>5
<1>3. Insert(list, t, e) = Append(A, t) \o B
  BY DEF Insert
<1> HIDE DEF pos
<1>4. Before(A, list, pos)
  BY <1>2, LiveBefore
<1>5. /\ B \in Seq(Timer)
      /\ \A k \in 1 .. Len(B) : pos + k - 1 \in 1 .. Len(list) /\ B[k] = list[pos + k - 1]
  <2> DEFINE q == pos - 1
  <2>1. q \in 0 .. Len(list) + 1 /\ q + 1 = pos /\ pos \in Nat /\ q = pos - 1
    BY <1>1, <1>2
  <2> HIDE DEF q
  <2>2. /\ SubSeq(list, q + 1, Len(list)) \in Seq(Timer)
        /\ \A k \in 1 .. Len(SubSeq(list, q + 1, Len(list))) :
             q + k \in 1 .. Len(list) /\ SubSeq(list, q + 1, Len(list))[k] = list[q + k]
    BY <2>1, RestAfter
  <2>3. SubSeq(list, q + 1, Len(list)) = B
    BY <2>1
  <2> HIDE DEF B
  <2>4. ASSUME NEW k \in 1 .. Len(B)
        PROVE  pos + k - 1 \in 1 .. Len(list) /\ B[k] = list[pos + k - 1]
    <3>1. q + k = pos + k - 1
      BY <2>1, <2>2, <2>3
    <3>2. q + k \in 1 .. Len(list) /\ B[k] = list[q + k]
      BY <2>2, <2>3
    <3> QED BY <3>1, <3>2
  <2> QED BY <2>2, <2>3, <2>4
<1> HIDE DEF A, B
<1> DEFINE R == Append(A, t) \o B
<1>6. /\ n \in Nat /\ Len(B) \in Nat /\ R \in Seq(Timer) /\ Len(R) = n + 1 + Len(B)
      /\ \A k \in 1 .. n : R[k] = A[k]
      /\ R[n + 1] = t
      /\ \A k \in 1 .. Len(B) : R[n + 1 + k] = B[k]
  BY <1>1, <1>4, <1>5 DEF Before
<1>7. PICK h : \A k \in 1 .. n : /\ h[k] \in 1 .. pos - 1 /\ A[k] = list[h[k]]
                                 /\ \A l \in 1 .. n : k < l => h[k] < h[l]
  BY <1>4 DEF Before
<1> DEFINE g == [k \in 1 .. Len(R) |-> IF k <= n THEN h[k] ELSE pos + (k - n - 1) - 1]
<1>8. \A k \in 1 .. Len(R) :
        \/ k \in 1 .. n /\ g[k] = h[k] /\ R[k] = A[k]
        \/ k = n + 1 /\ R[k] = t
        \/ k - n - 1 \in 1 .. Len(B) /\ g[k] = pos + (k - n - 1) - 1 /\ R[k] = B[k - n - 1]
  <2> SUFFICES ASSUME NEW k \in 1 .. Len(R)
               PROVE  \/ k \in 1 .. n /\ g[k] = h[k] /\ R[k] = A[k]
                      \/ k = n + 1 /\ R[k] = t
                      \/ /\ k - n - 1 \in 1 .. Len(B) /\ g[k] = pos + (k - n - 1) - 1
                         /\ R[k] = B[k - n - 1]
    OBVIOUS
  <2>1. g[k] = IF k <= n THEN h[k] ELSE pos + (k - n - 1) - 1
    OBVIOUS
  <2> HIDE DEF g, n, R
  <2>2. \/ k \in 1 .. n /\ k <= n
        \/ k = n + 1
        \/ k - n - 1 \in 1 .. Len(B) /\ ~(k <= n) /\ n + 1 + (k - n - 1) = k
    BY <1>6
  <2> QED BY <1>6, <2>1, <2>2
<1> HIDE DEF g, R, n
<1>9. ASSUME NEW k \in 1 .. Len(R), k # n + 1
      PROVE  /\ g[k] \in 1 .. Len(list) /\ R[k] = list[g[k]]
             /\ k < n + 1 => g[k] < pos
             /\ k > n + 1 => g[k] >= pos
  <2>1. CASE k \in 1 .. n /\ g[k] = h[k] /\ R[k] = A[k]
    <3>1. h[k] \in 1 .. pos - 1 /\ A[k] = list[h[k]]
      BY <1>7, <2>1
    <3>2. h[k] \in 1 .. Len(list) /\ h[k] < pos /\ ~(k > n + 1)
      BY <1>1, <1>2, <1>6, <2>1, <3>1
    <3> QED BY <2>1, <3>1, <3>2
  <2>2. CASE k - n - 1 \in 1 .. Len(B) /\ g[k] = pos + (k - n - 1) - 1 /\ R[k] = B[k - n - 1]
    <3>1. g[k] \in 1 .. Len(list) /\ B[k - n - 1] = list[g[k]]
      BY <1>5, <2>2
    <3>2. k \in Nat /\ n \in Nat /\ pos \in Nat /\ Len(B) \in Nat
      BY <1>1, <1>2, <1>6
    <3> DEFINE y == g[k]
    <3>3. k - n - 1 \in 1 .. Len(B) /\ y = pos + (k - n - 1) - 1
      BY <2>2
    <3> HIDE DEF y
    <3>4. 1 <= k - n - 1 /\ k - n - 1 \in Nat
      BY <3>2, <3>3
    <3>5. y >= pos /\ ~(k < n + 1)
      BY <3>2, <3>3, <3>4
    <3> QED BY <2>2, <3>1, <3>5 DEF y
  <2> QED BY <1>8, <1>9, <2>1, <2>2
<1>10. ASSUME NEW k \in 1 .. Len(R), NEW l \in 1 .. Len(R), k < l, k # n + 1, l # n + 1
       PROVE  g[k] < g[l]
  <2>0. k \in Nat /\ l \in Nat /\ g[k] \in Nat /\ g[l] \in Nat /\ pos \in Nat
    <3>1. g[k] \in 1 .. Len(list) /\ g[l] \in 1 .. Len(list)
      BY <1>9, <1>10
    <3>2. 1 .. Len(list) \subseteq Nat /\ pos \in Nat /\ k \in Nat /\ l \in Nat
      BY <1>1, <1>2, <1>6
    <3> QED BY <3>1, <3>2
  <2>1. CASE l < n + 1
    <3>1. k \in 1 .. n /\ l \in 1 .. n
      BY <1>6, <1>10, <2>0, <2>1
    <3>2. g[k] = h[k] /\ g[l] = h[l]
      BY <1>6, <1>8, <3>1
    <3> QED BY <1>7, <1>10, <3>1, <3>2
  <2>2. CASE k < n + 1 /\ n + 1 < l
    <3>1. g[k] < pos /\ g[l] >= pos
      BY <1>9, <1>10, <2>2
    <3> QED BY <2>0, <3>1
  <2>3. CASE n + 1 < k
    <3>1. g[k] = pos + (k - n - 1) - 1 /\ g[l] = pos + (l - n - 1) - 1
      BY <1>6, <1>8, <1>10, <2>0, <2>3
    <3> QED BY <1>6, <1>10, <2>0, <3>1
  <2> QED BY <1>6, <1>10, <2>0, <2>1, <2>2, <2>3
<1>11. /\ times[t] = e
       /\ \A x \in Timer \ {t} : times[x] = expiry[x] /\ expiry[x] \in Nat
  BY <1>1
<1> HIDE DEF times
<1>12. InOrder(R, times)
  <2> SUFFICES ASSUME NEW i \in 1 .. Len(R), NEW j \in 1 .. Len(R),
                      i < j, R[i] \in alive, R[j] \in alive
               PROVE  R[i] # R[j] /\ times[R[i]] <= times[R[j]]
    BY DEF InOrder
  <2>0. i \in Nat /\ j \in Nat
    BY <1>6
  <2>1. CASE i = n + 1
    <3>1. j > n + 1 /\ j # n + 1
      BY <1>6, <2>0, <2>1
    <3>2. g[j] \in 1 .. Len(list) /\ R[j] = list[g[j]] /\ g[j] >= pos
      BY <1>9, <3>1
    <3>3. R[j] \in Timer \ {t} /\ e < expiry[R[j]]
      BY <1>1, <1>2, <3>2
    <3>4. R[i] = t
      BY <1>6, <2>1
    <3> QED BY <1>11, <3>3, <3>4
  <2>2. CASE j = n + 1
    <3>1. i < n + 1 /\ i # n + 1
      BY <1>6, <2>0, <2>2
    <3>2. g[i] \in 1 .. Len(list) /\ R[i] = list[g[i]] /\ g[i] < pos
      BY <1>9, <3>1
    <3>3. R[i] \in Timer \ {t} /\ ~(e < expiry[R[i]])
      BY <1>1, <1>2, <3>2
    <3>4. R[j] = t
      BY <1>6, <2>2
    <3> QED BY <1>11, <3>3, <3>4
  <2>3. CASE i # n + 1 /\ j # n + 1
    <3>1. g[i] < g[j]
      BY <1>10, <2>3
    <3>2. /\ g[i] \in 1 .. Len(list) /\ R[i] = list[g[i]]
          /\ g[j] \in 1 .. Len(list) /\ R[j] = list[g[j]]
      BY <1>9, <2>3
    <3>3. R[i] # R[j] /\ expiry[R[i]] <= expiry[R[j]]
      BY <3>1, <3>2 DEF InOrder
    <3>4. R[i] \in Timer \ {t} /\ R[j] \in Timer \ {t}
      BY <1>1, <3>2
    <3> QED BY <1>11, <3>3, <3>4
  <2> QED BY <2>1, <2>2, <2>3
<1>13. \A k \in 1 .. Len(R) : R[k] = t \/ \E i \in 1 .. Len(list) : R[k] = list[i]
  BY <1>6, <1>9
<1> QED BY <1>3, <1>6, <1>12, <1>13 DEF R, times

\* The timers wait in order, and none that is not registered does.
Waiting ==
  /\ timerList \in Seq(Timer) /\ alive \subseteq Timer
  /\ registered \in [Timer -> BOOLEAN] /\ expiry \in [Timer -> Nat]
  /\ InOrder(timerList, expiry)
  /\ \A t \in alive : ~registered[t] => \A k \in 1 .. Len(timerList) : timerList[k] # t

Clock == now \in 0 .. time /\ time \in 0 .. MaxTime /\ until \in 0 .. MaxTime

\* As registerTimer leaves it.
LEMMA RegisterTimerWaiting ==
  ASSUME Waiting, Clock, NEW t \in Timer, NEW d \in Delay, RegisterTimer(t, d)
  PROVE  Waiting'
<1> DEFINE old == IF registered[t] THEN Unlist(timerList, t) ELSE timerList
           e == time + d
           new == Insert(old, t, e)
<1>1. /\ t \in alive /\ alive' = alive /\ alive \subseteq Timer
      /\ timerList' = new
      /\ expiry' = [expiry EXCEPT ![t] = e] /\ expiry \in [Timer -> Nat]
      /\ registered' = [registered EXCEPT ![t] = TRUE] /\ registered \in [Timer -> BOOLEAN]
  BY DEF RegisterTimer, Waiting
<1>2. e \in Nat
  BY TimeAssumption DEF Clock
<1> HIDE DEF e, new
<1>3. /\ old \in Seq(Timer) /\ InOrder(old, expiry)
      /\ \A k \in 1 .. Len(old) : old[k] # t /\ \E i \in 1 .. Len(timerList) : old[k] = timerList[i]
  <2>1. CASE registered[t]
    <3>1. old = Unlist(timerList, t)
      BY <2>1
    <3> HIDE DEF old
    <3> QED BY <1>1, <3>1, UnlistEffect DEF Waiting
  <2>2. CASE ~registered[t]
    <3>1. old = timerList
      BY <2>2
    <3> HIDE DEF old
    <3> QED BY <1>1, <2>2, <3>1 DEF Waiting
  <2> QED BY <2>1, <2>2
<1> HIDE DEF old
<1>4. /\ new \in Seq(Timer) /\ InOrder(new, [expiry EXCEPT ![t] = e])
      /\ \A k \in 1 .. Len(new) : new[k] = t \/ \E i \in 1 .. Len(old) : new[k] = old[i]
  BY <1>1, <1>2, <1>3, InsertEffect DEF new
<1>5. expiry' \in [Timer -> Nat] /\ registered' \in [Timer -> BOOLEAN]
  BY <1>1, <1>2
<1>6. InOrder(timerList, expiry)'
  BY <1>1, <1>4 DEF InOrder
<1>7. ASSUME NEW x \in alive', ~registered'[x], NEW k \in 1 .. Len(timerList')
      PROVE  timerList'[k] # x
  <2>1. x \in alive /\ x # t /\ ~registered[x]
    BY <1>1, <1>7
  <2>2. \A i \in 1 .. Len(timerList) : timerList[i] # x
    BY <2>1 DEF Waiting
  <2> QED BY <1>1, <1>3, <1>4, <1>7, <2>1, <2>2
<1> QED BY <1>1, <1>4, <1>5, <1>6, <1>7 DEF Waiting

\* As unregisterTimer leaves it.
LEMMA UnregisterTimerWaiting ==
  ASSUME Waiting, NEW t \in Timer, UnregisterTimer(t)
  PROVE  Waiting'
<1> DEFINE new == Unlist(timerList, t)
<1>1. /\ t \in alive /\ alive' = alive /\ alive \subseteq Timer /\ expiry' = expiry
      /\ timerList' = new /\ timerList \in Seq(Timer)
      /\ registered' = [registered EXCEPT ![t] = FALSE] /\ registered \in [Timer -> BOOLEAN]
  BY DEF UnregisterTimer, Waiting
<1>2. /\ new \in Seq(Timer) /\ InOrder(new, expiry)
      /\ \A k \in 1 .. Len(new) : new[k] # t /\ \E i \in 1 .. Len(timerList) : new[k] = timerList[i]
  BY <1>1, UnlistEffect DEF Waiting
<1> HIDE DEF new
<1>3. InOrder(timerList, expiry)'
  BY <1>1, <1>2 DEF InOrder
<1>4. registered' \in [Timer -> BOOLEAN]
  BY <1>1
<1>5. ASSUME NEW x \in alive', ~registered'[x], NEW k \in 1 .. Len(timerList')
      PROVE  timerList'[k] # x
  <2>1. x = t \/ ~registered[x]
    BY <1>1, <1>5
  <2> QED BY <1>1, <1>2, <1>5, <2>1 DEF Waiting
<1> QED BY <1>1, <1>2, <1>3, <1>4, <1>5 DEF Waiting

LEMMA WaitingInit == Init => Waiting /\ Clock
<1> SUFFICES ASSUME Init PROVE Waiting /\ Clock
  OBVIOUS
<1>1. Len(timerList) = 0 /\ timerList \in Seq(Timer)
  BY DEF Init
<1>2. \A k : k \notin 1 .. Len(timerList)
  BY <1>1
<1>3. alive \subseteq Timer /\ registered \in [Timer -> BOOLEAN] /\ expiry \in [Timer -> Nat]
  BY DEF Init
<1>4. Clock
  BY TimeAssumption DEF Init, Clock
<1> QED BY <1>1, <1>2, <1>3, <1>4 DEF Waiting, InOrder

LEMMA WaitingStep ==
  ASSUME Waiting, Clock, [Next]_vars
  PROVE  Waiting' /\ Clock'
<1>1. ASSUME UNCHANGED timerVars PROVE Waiting'
  BY <1>1 DEF timerVars, Waiting, InOrder
<1>2. ASSUME UNCHANGED <<time, now, until>> PROVE Clock'
  BY <1>2 DEF Clock
<1>3. ASSUME NEW t \in Timer, NEW d \in Delay, RegisterTimer(t, d) PROVE time + d \in 0 .. MaxTime
  BY <1>3, TimeAssumption DEF RegisterTimer, Clock
<1>4. CASE CloseSession \/ Put \/ Connected \/ Return \/ NoTimer \/ Select \/ Dispatch \/ Arrive
  <2>1. UNCHANGED timerVars /\ UNCHANGED <<time, now, until>>
    BY <1>4 DEF CloseSession, Put, Connected, Return, NoTimer, Select, Dispatch, Arrive
  <2> QED BY <1>1, <1>2, <2>1
<1>5. CASE SetTimer
  <2>1. UNCHANGED <<time, now, until>>
    BY <1>5 DEF SetTimer
  <2>2. PICK t \in Timer : UnregisterTimer(t) \/ \E d \in Delay : RegisterTimer(t, d)
    BY <1>5 DEF SetTimer
  <2> QED BY <1>2, <2>1, <2>2, UnregisterTimerWaiting, RegisterTimerWaiting
<1>6. CASE DeleteTimer
  <2>1. alive' \subseteq alive /\ UNCHANGED <<timerList, registered, expiry, time, now, until>>
    BY <1>6 DEF DeleteTimer
  <2> QED BY <1>2, <2>1 DEF Waiting, InOrder
<1>7. CASE Run
  <2>1. now' = time /\ time' = time
    BY <1>7 DEF Run
  <2>2. CASE until' = 0 /\ UNCHANGED timerVars
    <3>1. until' \in 0 .. MaxTime /\ now' \in 0 .. time' /\ time' \in 0 .. MaxTime
      BY <2>1, <2>2, TimeAssumption DEF Clock
    <3>2. Clock'
      BY <3>1 DEF Clock
    <3> QED BY <1>1, <2>2, <3>2
  <2>3. ASSUME NEW d \in Delay, until' = time + d, RegisterTimer(RunTimer, d)
        PROVE  Waiting' /\ Clock'
    <3>1. Waiting'
      BY <2>3, RegisterTimerWaiting, TimeAssumption
    <3>2. until' \in 0 .. MaxTime
      BY <1>3, <2>3, TimeAssumption
    <3> QED BY <2>1, <3>1, <3>2 DEF Clock
  <2> QED BY <1>7, <2>2, <2>3 DEF Run
<1>8. CASE NextTimer
  <2>1. /\ timerList # <<>> /\ timerList' = Tail(timerList)
        /\ UNCHANGED <<alive, registered, expiry, time, now, until>>
    BY <1>8 DEF NextTimer
  <2> DEFINE tl == Tail(timerList)
  <2>2. /\ timerList \in Seq(Timer) /\ tl \in Seq(Timer) /\ Len(timerList) \in Nat /\ Len(tl) \in Nat
        /\ Len(tl) = Len(timerList) - 1
        /\ \A k \in 1 .. Len(tl) : tl[k] = timerList[k + 1]
    BY <2>1 DEF Waiting
  <2> HIDE DEF tl
  <2>3. \A k \in 1 .. Len(tl) : k + 1 \in 1 .. Len(timerList)
    BY <2>2
  <2>4. InOrder(tl, expiry)
    <3>1. SUFFICES ASSUME NEW i \in 1 .. Len(tl), NEW j \in 1 .. Len(tl),
                          i < j, tl[i] \in alive, tl[j] \in alive
                   PROVE  tl[i] # tl[j] /\ expiry[tl[i]] <= expiry[tl[j]]
      BY DEF InOrder
    <3> DEFINE a == i + 1
               b == j + 1
    <3>2. a \in 1 .. Len(timerList) /\ b \in 1 .. Len(timerList) /\ a < b
      BY <2>2, <2>3, <3>1
    <3>3. tl[i] = timerList[a] /\ tl[j] = timerList[b]
      BY <2>2
    <3> HIDE DEF a, b
    <3> QED BY <3>1, <3>2, <3>3 DEF Waiting, InOrder
  <2>5. InOrder(timerList, expiry)'
    BY <2>1, <2>4 DEF InOrder, tl
  <2>6. \A t \in alive : ~registered[t] => \A k \in 1 .. Len(tl) : tl[k] # t
    BY <2>2, <2>3 DEF Waiting
  <2>7. Waiting'
    BY <2>1, <2>2, <2>5, <2>6 DEF Waiting, tl
  <2> QED BY <1>2, <2>1, <2>7
<1>9. CASE EndRound
  <2>1. time' = time /\ until' = until /\ (now' = now \/ now' = time)
    BY <1>9 DEF EndRound
  <2>2. Clock'
    BY <2>1 DEF Clock
  <2>3. UNCHANGED timerVars \/ UnregisterTimer(RunTimer)
    BY <1>9 DEF EndRound
  <2> QED BY <1>1, <2>2, <2>3, UnregisterTimerWaiting, TimeAssumption
<1>10. CASE Tick
  <2>1. UNCHANGED timerVars /\ time < MaxTime /\ time' = time + 1 /\ UNCHANGED <<now, until>>
    BY <1>10 DEF Tick
  <2>2. Clock'
    BY <2>1, TimeAssumption DEF Clock
  <2> QED BY <1>1, <2>1, <2>2
<1>11. CASE UNCHANGED vars
  <2>1. UNCHANGED timerVars /\ UNCHANGED <<time, now, until>>
    BY <1>11 DEF vars
  <2> QED BY <1>1, <1>2, <2>1
<1> QED BY <1>4, <1>5, <1>6, <1>7, <1>8, <1>9, <1>10, <1>11 DEF Next, Work, Loop

LEMMA WaitingCorrect == Spec => [](Waiting /\ Clock)
<1>1. Waiting /\ Clock /\ [Next]_vars => (Waiting /\ Clock)'
  BY WaitingStep
<1> QED BY <1>1, WaitingInit, PTL DEF Spec

(* The timers wait in the order in which they expire, each once, whatever       *)
(* callbacks and handlers register again, unregister or delete: registerTimer   *)
(* and unregisterTimer (BasicIoService.cpp) search a list that may hold dead    *)
(* timers anywhere, and drop only those that they meet.                         *)
THEOREM TimersInOrderCorrect == Spec => []TimersInOrder
<1>1. Waiting => TimersInOrder
  <2> SUFFICES ASSUME Waiting PROVE TimersInOrder
    OBVIOUS
  <2>1. DOMAIN timerList = 1 .. Len(timerList)
    BY DEF Waiting
  <2> QED BY <2>1 DEF Waiting, InOrder, TimersInOrder
<1> QED BY <1>1, WaitingCorrect, PTL

(* The event loop keeps its tables, ready sets, timers and clock in their types *)
(* whatever the handlers and callbacks do (BasicIoService.h, TimerObject.h).    *)
THEOREM TypeCorrect == Spec => []TypeOK
<1>1. Tables /\ Rounds /\ Waiting /\ Clock => TypeOK
  <2> SUFFICES ASSUME Tables, Rounds, Waiting, Clock PROVE TypeOK
    OBVIOUS
  <2>1. DOMAIN rdObjs \cup DOMAIN wrObjs \cup Ready \subseteq Fd
    BY DEF Tables, Lists, Rounds, Ready
  <2>2. crashed \in BOOLEAN
    BY DEF Tables
  <2> QED BY <2>1, <2>2 DEF Tables, Rounds, Waiting, Clock, TypeOK
<1> QED BY <1>1, TablesCorrect, WaitingCorrect, PTL
=============================================================================
