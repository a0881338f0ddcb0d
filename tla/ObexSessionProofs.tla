-------------------------- MODULE ObexSessionProofs --------------------------
(***************************************************************************)
(* Proofs about a remote session and the server session at its other end:  *)
(* what the client is told of the tree, in the order in which it is told.  *)
(*                                                                         *)
(* What matters of a queue of messages is what a receiver holds after the  *)
(* first n of them, whatever it held before: Ends. Appending messages does *)
(* not change that for the n there are, and receiving one moves it into    *)
(* what the receiver holds.                                                *)
(***************************************************************************)
EXTENDS ObexSession, FiniteSetTheorems, TLAPS

Value      == Val \cup {NoVal}
UserUpdate == UNION {[D -> Value] : D \in SUBSET UserPath}
Commands   == [id : Nat, op : {"ls", "cat"}, path : {r.path : r \in Request}]
CmdUpdate  == [{Cmd} -> Commands]

\* What the client sends.
UpMsg ==
  [kind : {"change"}, upd : UserUpdate \cup CmdUpdate, paths : {{}}, sent : {Empty}]
    \cup [kind : {"subscribe"}, upd : {Empty}, paths : SubList, sent : {Empty}]

\* What the server sends: the end of a subscription is put at an object of its own.
DownMsg(m) ==
  /\ \A p \in DOMAIN m.upd : p \in UserPath => m.upd[p] \in Value
  /\ IF m.kind = "noti" THEN m.upd = One(LocalSubscription, m.paths) ELSE DOMAIN m.upd \subseteq Path

Sequence(s) == s \in Seq(Range(s))

Covered(p, C) == \E c \in C : Covers(c, p)

\* Whoever holds b at p holds v there after the first n messages of s.
Ends(s, n, b, p, v) ==
  \/ b = v /\ \A i \in 1 .. n : p \notin DOMAIN s[i].upd
  \/ \E i \in 1 .. n : /\ p \in DOMAIN s[i].upd /\ s[i].upd[p] = v
                       /\ \A j \in i + 1 .. n : p \notin DOMAIN s[j].upd

\* The server's end, with what is sent to it.
ServerShape ==
  /\ serving \in BOOLEAN
  /\ tree = [p \in Path |-> tree[p]] /\ \A p \in UserPath : tree[p] \in Value
  /\ tree[SID] = IF serving THEN Online ELSE NoVal
  /\ ~serving => up = <<>> /\ cbPaths = {} /\ tree[Cmd] = NoVal /\ tree[Rsp] = NoVal
  /\ \A p \in Path : tree[p] # NoVal => Above(p) \subseteq node
  /\ up \in Seq(UpMsg)
  /\ cbPaths \subseteq UNION SubList

\* The client's end, with what is sent to it.
ClientShape ==
  /\ connected \in BOOLEAN /\ peerName \in BOOLEAN
  /\ local = [p \in LocalPath |-> local[p]] /\ \A p \in UserPath : local[p] \in Value
  /\ subscriptionCallback \in Callback \cup {NoCb}
  /\ xaction \in [on : BOOLEAN, upd : UserUpdate]
  /\ mine \in [UserPath -> Value \cup {Unknown}]
  /\ cmds \in Seq(Request)
  /\ \A a \in asked : a.paths \in SubList \cup {{}} /\ (a.to = NoCb => a.id \in DOMAIN cmds)
  /\ ~connected => /\ down = <<>> /\ asked = {} /\ ~xaction.on
                   /\ \A p \in LocalPath : local[p] = NoVal
  /\ Sequence(down) /\ \A i \in DOMAIN down : DownMsg(down[i])

Shape == ServerShape /\ ClientShape

\* Answers have the number of a command of this connection.
OwnAnswer(a) == a # NoVal => a.id \in DOMAIN cmds
Own ==
  connected =>
    /\ OwnAnswer(local[Rsp])
    /\ \A i \in DOMAIN down : Rsp \in DOMAIN down[i].upd => OwnAnswer(down[i].upd[Rsp])
    /\ serving => /\ OwnAnswer(tree[Rsp])
                  /\ \A i \in DOMAIN up : Cmd \in DOMAIN up[i].upd => up[i].upd[Cmd].id \in DOMAIN cmds

\* What the client did last to an object is what the server will hold.
Said ==
  serving => \A p \in UserPath :
    \/ mine[p] = Unknown /\ \A i \in DOMAIN up : p \notin DOMAIN up[i].upd
    \/ Ends(up, Len(up), tree[p], p, mine[p])

\* What the client is sent of an object ends in what the tree holds, if it has
\* subscribed to it; of others it is sent nothing.
Follows ==
  connected /\ serving => \A p \in Path :
    Ends(down, Len(down), local[p], p, IF Covered(p, cbPaths) THEN tree[p] ELSE NoVal)

\* The end of a subscription finds in the client's tree what the server's held.
Synced ==
  \A k \in DOMAIN down : down[k].kind = "noti" =>
    LET C == down[k].paths
    IN /\ down[k].sent = [p \in {q \in Path : Covered(q, C)} |-> down[k].sent[p]]
       /\ \A p \in Path : Covered(p, C) => Ends(down, k, local[p], p, down[k].sent[p])

\* The nodes are those there may be.
Noded == node \subseteq Nodes

\* The client is told of the end of what it may subscribe to.
Listed ==
  /\ local[LocalSubscription] \in SubList \cup {NoVal}
  /\ \A k \in DOMAIN down : down[k].kind = "noti" => down[k].paths \in SubList

\* The client is subscribed where it asks, when the server handles it.
Subscribed ==
  /\ ~connected => lastSub = {}
  /\ connected /\ serving =>
    /\ \A C \in SubList : Ends(down, Len(down), local[LocalSubscription], LocalSubscription, C)
                            => C \subseteq cbPaths
    /\ tree[Rsp] # NoVal => Covered(Rsp, cbPaths)
    /\ \A i \in DOMAIN up : Cmd \in DOMAIN up[i].upd =>
         Covered(Rsp, cbPaths) \/ \E j \in 1 .. i : Covered(Rsp, up[j].paths)
    /\ Covered(Rsp, lastSub) =>
         Covered(Rsp, cbPaths) \/ \E j \in DOMAIN up : Covered(Rsp, up[j].paths)

\* A command is the one that has its number.
Numbered ==
  connected /\ serving => \A i \in DOMAIN up : Cmd \in DOMAIN up[i].upd =>
    LET c == up[i].upd[Cmd] IN c.op = cmds[c.id].op /\ c.path = cmds[c.id].path

\* a answers r, for a client that holds v at p, which it follows.
Agrees(a, r, p, v) ==
  /\ r.op = "cat" /\ p = r.path => a.rsp = v
  /\ r.op = "ls" /\ v # NoVal /\ r.path \in Above(p) =>
       a.rsp # NoVal /\ \A n \in Above(p) \ {<<>>} : Parent(n) = r.path => Last(n) \in a.rsp

\* An answer that changes the one before it agrees with what the client holds of
\* what it follows when the answer arrives.
Agreed(k) ==
  LET a == down[k].upd[Rsp]
  IN \/ a = NoVal
     \/ Ends(down, k - 1, local[Rsp], Rsp, a)
     \/ /\ cmds[a.id].op = "cat" /\ cmds[a.id].path \notin Path => a.rsp = NoVal
        /\ \A C \in SubList, p \in UserPath, v \in Value :
             /\ Ends(down, k, local[LocalSubscription], LocalSubscription, C)
             /\ Covered(p, C)
             /\ Ends(down, k, local[p], p, v)
             => Agrees(a, cmds[a.id], p, v)
Agreeing == connected => \A k \in DOMAIN down : Rsp \in DOMAIN down[k].upd => Agreed(k)


-----------------------------------------------------------------------------
(* Paths and updates                                                       *)

LEMMA AppendElement ==
  ASSUME NEW S, NEW s \in Seq(S), NEW e \in S
  PROVE  Append(s, e) \in Seq(S) /\ Len(Append(s, e)) = Len(s) + 1 /\ Append(s, e)[Len(s) + 1] = e
OBVIOUS

LEMMA PathFacts ==
  /\ SID # Cmd /\ SID # Rsp /\ Cmd # Rsp
  /\ SID \notin UserPath /\ Cmd \notin UserPath /\ Rsp \notin UserPath
  /\ LocalSubscription \notin Path
  /\ SID \in Path /\ Cmd \in Path /\ Rsp \in Path /\ UserPath \subseteq Path
  /\ LocalPath = Path \cup {LocalSubscription}
<1> DEFINE S == {"proc", "session", "SID", "cmd", "rsp"}
<1>1. SID \in Seq(S) /\ "cmd" \in S /\ "rsp" \in S
  BY DEF SID
<1>2. Len(SID) = 3 /\ SID[2] = "session"
  BY DEF SID
<1>3. Len(LocalSubscription) = 3 /\ LocalSubscription[2] = "local"
  BY DEF LocalSubscription
<1> HIDE DEF S
<1>4. Len(Cmd) = Len(SID) + 1 /\ Cmd[Len(SID) + 1] = "cmd"
  BY <1>1, AppendElement DEF Cmd
<1>5. Len(Rsp) = Len(SID) + 1 /\ Rsp[Len(SID) + 1] = "rsp"
  BY <1>1, AppendElement DEF Rsp
<1>6. Len(Cmd) = 4 /\ Len(Rsp) = 4
  BY <1>2, <1>4, <1>5
<1>7. SID # Cmd /\ SID # Rsp
  BY <1>2, <1>6
<1>8. Cmd # Rsp
  <2>1. Cmd[Len(SID) + 1] # Rsp[Len(SID) + 1]
    BY <1>4, <1>5
  <2> QED BY <2>1
<1>9. LocalSubscription # SID
  <2>1. LocalSubscription[2] # SID[2]
    BY <1>2, <1>3
  <2> QED BY <2>1
<1>10. LocalSubscription # Cmd /\ LocalSubscription # Rsp
  BY <1>3, <1>6
<1> QED BY <1>7, <1>8, <1>9, <1>10, SessionAssumption DEF Path, LocalPath

LEMMA UpdateFacts ==
  ASSUME NEW u \in UserUpdate \cup CmdUpdate
  PROVE  /\ u = [p \in DOMAIN u |-> u[p]]
         /\ DOMAIN u \subseteq UserPath \cup {Cmd} /\ IsFiniteSet(DOMAIN u)
         /\ \A p \in DOMAIN u : p \in UserPath => u[p] \in Value
         /\ Cmd \in DOMAIN u => DOMAIN u = {Cmd} /\ u[Cmd] \in Commands
<1>1. CASE u \in UserUpdate
  <2>1. PICK D \in SUBSET UserPath : u \in [D -> Value]
    BY <1>1 DEF UserUpdate
  <2>2. IsFiniteSet(D)
    BY SessionAssumption, FS_Subset
  <2> QED BY <2>1, <2>2, PathFacts
<1>2. CASE u \in CmdUpdate
  <2>1. u \in [{Cmd} -> Commands] /\ IsFiniteSet({Cmd})
    BY <1>2, FS_Singleton DEF CmdUpdate
  <2> QED BY <2>1, PathFacts
<1> QED BY <1>1, <1>2

LEMMA OneUpdate ==
  /\ \A p, v : One(p, v) = [q \in {p} |-> v] /\ DOMAIN One(p, v) = {p} /\ One(p, v)[p] = v
  /\ \A p \in UserPath, v \in Value : One(p, v) \in UserUpdate
  /\ \A c \in Commands : One(Cmd, c) \in CmdUpdate
  /\ Empty \in UserUpdate /\ DOMAIN Empty = {}
<1>1. \A p, v : One(p, v) = [q \in {p} |-> v] /\ DOMAIN One(p, v) = {p} /\ One(p, v)[p] = v
  BY DEF One
<1>2. ASSUME NEW p \in UserPath, NEW v \in Value PROVE One(p, v) \in UserUpdate
  <2>1. {p} \in SUBSET UserPath /\ One(p, v) \in [{p} -> Value]
    BY <1>1
  <2> QED BY <2>1 DEF UserUpdate
<1>3. \A c \in Commands : One(Cmd, c) \in CmdUpdate
  BY <1>1 DEF CmdUpdate
<1>4. Empty \in UserUpdate /\ DOMAIN Empty = {}
  <2>1. Empty \in [{} -> Value] /\ {} \in SUBSET UserPath /\ DOMAIN Empty = {}
    BY DEF Empty
  <2> QED BY <2>1 DEF UserUpdate
<1> QED BY <1>1, <1>2, <1>3, <1>4

LEMMA UpMsgFacts ==
  /\ \A u \in UserUpdate \cup CmdUpdate : ChangeMsg(u) \in UpMsg /\ ChangeMsg(u).kind = "change"
                                          /\ ChangeMsg(u).upd = u /\ ChangeMsg(u).paths = {}
  /\ \A C \in SubList : SubscribeMsg(C) \in UpMsg /\ SubscribeMsg(C).kind = "subscribe"
                        /\ SubscribeMsg(C).upd = Empty /\ SubscribeMsg(C).paths = C
  /\ \A m \in UpMsg : /\ m.upd \in UserUpdate \cup CmdUpdate
                      /\ m.kind = "subscribe" => m.paths \in SubList /\ DOMAIN m.upd = {}
                      /\ m.kind = "change" => m.paths = {}
<1>1. Empty \in UserUpdate /\ DOMAIN Empty = {}
  BY OneUpdate
<1> QED BY <1>1 DEF UpMsg, ChangeMsg, SubscribeMsg, Msg

(* The sequences of a finite set are over the set and leave no element out.   *)
LEMMA OrderType ==
  ASSUME NEW L, IsFiniteSet(L), NEW order \in SetToSeqs(L)
  PROVE  /\ order \in Seq(L) /\ Len(order) \in Nat /\ DOMAIN order = 1 .. Len(order)
         /\ \A x \in L : \E i \in DOMAIN order : order[i] = x
<1> DEFINE D == 1 .. Cardinality(L)
<1>1. Cardinality(L) \in Nat
  BY FS_CardinalityType
<1>2. order \in [D -> L] /\ \A i, j \in D : i # j => order[i] # order[j]
  BY DEF SetToSeqs
<1>3. order \in Seq(L) /\ DOMAIN order = D
  BY <1>1, <1>2
<1>4. ASSUME NEW x \in L, \A i \in D : order[i] # x
      PROVE  FALSE
  <2>1. IsFiniteSet(L \ {x}) /\ Cardinality(L \ {x}) = Cardinality(L) - 1
    BY <1>4, FS_RemoveElement
  <2>2. IsFiniteSet(D) /\ Cardinality(D) = Cardinality(L)
    BY <1>1, FS_Interval
  <2>3. order \in [D -> L \ {x}]
    BY <1>2, <1>4
  <2>4. \E i, j \in D : i # j /\ order[i] = order[j]
    BY <1>1, <2>1, <2>2, <2>3, FS_PigeonHole
  <2> QED BY <1>2, <2>4
<1> QED BY <1>1, <1>2, <1>3, <1>4

LEMMA PathFinite == \A P \in SUBSET Path : IsFiniteSet(P)
<1>1. IsFiniteSet({SID, Cmd, Rsp})
  <2>1. IsFiniteSet({SID}) /\ IsFiniteSet({Cmd}) /\ IsFiniteSet({Rsp})
    BY FS_Singleton
  <2>2. IsFiniteSet(({SID} \cup {Cmd}) \cup {Rsp})
    BY <2>1, FS_Union
  <2> QED BY <2>2
<1>2. IsFiniteSet(Path)
  BY <1>1, SessionAssumption, FS_Union DEF Path
<1> QED BY <1>2, FS_Subset

-----------------------------------------------------------------------------
(* Sequences of messages                                                   *)

LEMMA SequenceFacts ==
  /\ \A S : \A s \in Seq(S) : Sequence(s) /\ Len(s) \in Nat /\ DOMAIN s = 1 .. Len(s)
  /\ \A s : Sequence(s) => Len(s) \in Nat /\ DOMAIN s = 1 .. Len(s)
<1>1. ASSUME NEW S, NEW s \in Seq(S) PROVE Sequence(s)
  <2>1. Len(s) \in Nat /\ s \in [1 .. Len(s) -> Range(s)]
    BY DEF Range
  <2> QED BY <2>1 DEF Sequence
<1> QED BY <1>1 DEF Sequence

LEMMA SequenceAppend ==
  ASSUME NEW s, Sequence(s), NEW m
  PROVE  /\ Sequence(Append(s, m)) /\ Len(Append(s, m)) = Len(s) + 1
         /\ \A i \in 1 .. Len(s) : Append(s, m)[i] = s[i]
         /\ Append(s, m)[Len(s) + 1] = m
<1> DEFINE S == Range(s) \cup {m}
<1>1. s \in Seq(S) /\ m \in S
  BY DEF Sequence
<1> HIDE DEF S
<1>2. Append(s, m) \in Seq(S)
  BY <1>1
<1>3. Sequence(Append(s, m))
  BY <1>2, SequenceFacts
<1> QED BY <1>1, <1>3

LEMMA SequenceConcat ==
  ASSUME NEW s, Sequence(s), NEW t, Sequence(t)
  PROVE  /\ Sequence(s \o t) /\ Len(s \o t) = Len(s) + Len(t)
         /\ \A i \in 1 .. Len(s) : (s \o t)[i] = s[i]
         /\ \A i \in 1 .. Len(t) : (s \o t)[Len(s) + i] = t[i]
<1> DEFINE S == Range(s) \cup Range(t)
<1>1. s \in Seq(S) /\ t \in Seq(S)
  BY DEF Sequence
<1> HIDE DEF S
<1>2. s \o t \in Seq(S)
  BY <1>1
<1>3. Sequence(s \o t)
  BY <1>2, SequenceFacts
<1> QED BY <1>1, <1>3

LEMMA SequenceTail ==
  ASSUME NEW s, Sequence(s), s # <<>>
  PROVE  /\ Sequence(Tail(s)) /\ Len(s) >= 1 /\ Len(Tail(s)) = Len(s) - 1 /\ Head(s) = s[1]
         /\ \A i \in 1 .. Len(s) - 1 : Tail(s)[i] = s[i + 1]
<1>1. PICK S : s \in Seq(S)
  BY DEF Sequence
<1>2. Tail(s) \in Seq(S)
  BY <1>1
<1>3. Sequence(Tail(s))
  BY <1>2, SequenceFacts
<1> QED BY <1>1, <1>3

\* The least-number principle, for sets: what stands in for induction.
LEMMA LeastNumber ==
  ASSUME NEW T, T \subseteq Nat, T # {}
  PROVE  \E x \in T : \A y \in T : x <= y
<1> DEFINE R == OpToRel(<, Nat)
<1>1. IsWellFoundedOn(R, Nat)
  BY NatLessThanWellFounded
<1>2. \A x, y \in Nat : <<x, y>> \in R <=> x < y
  BY DEF OpToRel
<1> HIDE DEF R
<1>3. PICK x \in T : \A y \in T : <<y, x>> \notin R
  BY <1>1, WFMin
<1>4. ASSUME NEW y \in T PROVE x <= y
  <2>1. x \in Nat /\ y \in Nat /\ ~(y < x)
    BY <1>2, <1>3, <1>4
  <2> QED BY <2>1
<1> QED BY <1>3, <1>4

-----------------------------------------------------------------------------
(* What a receiver ends with                                               *)

LEMMA EndsNone ==
  ASSUME NEW s, NEW b, NEW p
  PROVE  \A v : Ends(s, 0, b, p, v) <=> b = v
BY DEF Ends

\* It ends with one value.
LEMMA EndsUnique ==
  ASSUME NEW s, NEW n \in Nat, NEW b, NEW p, NEW v, NEW w, Ends(s, n, b, p, v), Ends(s, n, b, p, w)
  PROVE  v = w
<1>1. CASE \A i \in 1 .. n : p \notin DOMAIN s[i].upd
  BY <1>1 DEF Ends
<1>2. CASE \E i \in 1 .. n : p \in DOMAIN s[i].upd
  <2>1. PICK i \in 1 .. n : /\ p \in DOMAIN s[i].upd /\ s[i].upd[p] = v
                            /\ \A j \in i + 1 .. n : p \notin DOMAIN s[j].upd
    BY <1>2 DEF Ends
  <2>2. PICK k \in 1 .. n : /\ p \in DOMAIN s[k].upd /\ s[k].upd[p] = w
                            /\ \A j \in k + 1 .. n : p \notin DOMAIN s[j].upd
    BY <1>2 DEF Ends
  <2>3. ~(i < k) /\ ~(k < i)
    BY <2>1, <2>2
  <2>4. i = k
    BY <2>3
  <2> QED BY <2>1, <2>2, <2>4
<1> QED BY <1>1, <1>2

\* Only the first n messages matter.
LEMMA EndsSame ==
  ASSUME NEW s, NEW t, NEW n \in Nat, NEW b, NEW p, NEW v,
         \A i \in 1 .. n : t[i] = s[i]
  PROVE  Ends(s, n, b, p, v) <=> Ends(t, n, b, p, v)
<1>1. \A i \in 1 .. n : \A j \in i + 1 .. n : j \in 1 .. n
  OBVIOUS
<1> QED BY <1>1 DEF Ends

\* More messages, none of which has p, or all that have it v.
LEMMA EndsMore ==
  ASSUME NEW s, NEW n \in Nat, NEW m \in Nat, n <= m, NEW b, NEW p, NEW v,
         \/ /\ Ends(s, n, b, p, v)
            /\ \A i \in n + 1 .. m : p \in DOMAIN s[i].upd => s[i].upd[p] = v
         \/ /\ \E i \in n + 1 .. m : p \in DOMAIN s[i].upd
            /\ \A i \in n + 1 .. m : p \in DOMAIN s[i].upd => s[i].upd[p] = v
  PROVE  Ends(s, m, b, p, v)
<1>1. CASE \E i \in n + 1 .. m : p \in DOMAIN s[i].upd
  <2> DEFINE T == {m - i : i \in {j \in n + 1 .. m : p \in DOMAIN s[j].upd}}
  <2>1. T \subseteq Nat /\ T # {}
    BY <1>1
  <2>2. \A x \in Nat : x \in T <=> m - x \in n + 1 .. m /\ p \in DOMAIN s[m - x].upd
    OBVIOUS
  <2> HIDE DEF T
  <2>3. PICK x \in T : \A y \in T : x <= y
    BY <2>1, LeastNumber
  <2>4. x \in Nat /\ m - x \in n + 1 .. m /\ p \in DOMAIN s[m - x].upd
    BY <2>1, <2>2, <2>3
  <2>5. ASSUME NEW j \in m - x + 1 .. m PROVE p \notin DOMAIN s[j].upd
    <3>1. m - j \in Nat /\ m - (m - j) = j /\ j \in n + 1 .. m /\ ~(x <= m - j)
      BY <2>4
    <3>2. m - j \notin T
      BY <2>3, <3>1
    <3> QED BY <2>2, <3>1, <3>2
  <2>6. s[m - x].upd[p] = v /\ m - x \in 1 .. m
    BY <2>4
  <2> QED BY <2>4, <2>5, <2>6 DEF Ends
<1>2. CASE \A i \in n + 1 .. m : p \notin DOMAIN s[i].upd
  <2>1. Ends(s, n, b, p, v)
    BY <1>2
  <2>2. \A i \in 1 .. m : i \in 1 .. n \/ i \in n + 1 .. m
    OBVIOUS
  <2>3. CASE b = v /\ \A i \in 1 .. n : p \notin DOMAIN s[i].upd
    BY <1>2, <2>2, <2>3 DEF Ends
  <2>4. CASE \E i \in 1 .. n : /\ p \in DOMAIN s[i].upd /\ s[i].upd[p] = v
                               /\ \A j \in i + 1 .. n : p \notin DOMAIN s[j].upd
    <3>1. PICK i \in 1 .. n : /\ p \in DOMAIN s[i].upd /\ s[i].upd[p] = v
                              /\ \A j \in i + 1 .. n : p \notin DOMAIN s[j].upd
      BY <2>4
    <3>2. i \in 1 .. m /\ \A j \in i + 1 .. m : j \in i + 1 .. n \/ j \in n + 1 .. m
      OBVIOUS
    <3> QED BY <1>2, <3>1, <3>2 DEF Ends
  <2> QED BY <2>1, <2>3, <2>4 DEF Ends
<1> QED BY <1>1, <1>2

\* The first message moves into what the receiver holds.
LEMMA EndsTail ==
  ASSUME NEW s, Sequence(s), s # <<>>, NEW n \in 1 .. Len(s), NEW b, NEW p, NEW v
  PROVE  Ends(s, n, b, p, v)
           <=> Ends(Tail(s), n - 1, IF p \in DOMAIN Head(s).upd THEN Head(s).upd[p] ELSE b, p, v)
<1> DEFINE t == Tail(s)
           c == IF p \in DOMAIN Head(s).upd THEN Head(s).upd[p] ELSE b
<1>0. Len(s) \in Nat /\ n \in Nat /\ n - 1 \in Nat
  BY SequenceFacts
<1>1. Head(s) = s[1] /\ \A i \in 1 .. Len(s) - 1 : t[i] = s[i + 1]
  BY SequenceTail
<1>2. \A i \in 1 .. n - 1 : t[i] = s[i + 1] /\ i + 1 \in 2 .. n
  BY <1>0, <1>1
<1>3. \A i \in 2 .. n : s[i] = t[i - 1] /\ i - 1 \in 1 .. n - 1
  <2>1. ASSUME NEW i \in 2 .. n PROVE s[i] = t[i - 1] /\ i - 1 \in 1 .. n - 1
    <3>1. i - 1 \in 1 .. n - 1 /\ (i - 1) + 1 = i
      BY <1>0
    <3> QED BY <1>2, <3>1
  <2> QED BY <2>1
<1>4. c = IF p \in DOMAIN s[1].upd THEN s[1].upd[p] ELSE b
  BY <1>1
<1> HIDE DEF t, c
<1>5. ASSUME Ends(s, n, b, p, v) PROVE Ends(t, n - 1, c, p, v)
  <2>1. CASE b = v /\ \A i \in 1 .. n : p \notin DOMAIN s[i].upd
    <3>1. 1 \in 1 .. n /\ \A i \in 2 .. n : i \in 1 .. n
      BY <1>0
    <3> QED BY <1>2, <1>4, <2>1, <3>1 DEF Ends
  <2>2. CASE \E i \in 1 .. n : /\ p \in DOMAIN s[i].upd /\ s[i].upd[p] = v
                               /\ \A j \in i + 1 .. n : p \notin DOMAIN s[j].upd
    <3>1. PICK i \in 1 .. n : /\ p \in DOMAIN s[i].upd /\ s[i].upd[p] = v
                              /\ \A j \in i + 1 .. n : p \notin DOMAIN s[j].upd
      BY <2>2
    <3>2. CASE i = 1
      <4>1. c = v
        BY <1>4, <3>1, <3>2
      <4>2. \A j \in 1 .. n - 1 : p \notin DOMAIN t[j].upd
        BY <1>2, <3>1, <3>2
      <4> QED BY <4>1, <4>2 DEF Ends
    <3>3. CASE i # 1
      <4>1. i \in 2 .. n
        BY <3>3
      <4>2. p \in DOMAIN t[i - 1].upd /\ t[i - 1].upd[p] = v /\ i - 1 \in 1 .. n - 1
        BY <1>3, <3>1, <4>1
      <4>3. ASSUME NEW j \in (i - 1) + 1 .. n - 1 PROVE p \notin DOMAIN t[j].upd
        <5>1. j \in 1 .. n - 1 /\ j + 1 \in i + 1 .. n
          BY <4>1, <1>0
        <5> QED BY <1>2, <3>1, <5>1
      <4> QED BY <4>2, <4>3 DEF Ends
    <3> QED BY <3>2, <3>3
  <2> QED BY <1>5, <2>1, <2>2 DEF Ends
<1>6. ASSUME Ends(t, n - 1, c, p, v) PROVE Ends(s, n, b, p, v)
  <2>1. CASE c = v /\ \A i \in 1 .. n - 1 : p \notin DOMAIN t[i].upd
    <3>1. \A i \in 2 .. n : p \notin DOMAIN s[i].upd
      BY <1>3, <2>1
    <3>2. 1 \in 1 .. n /\ \A i \in 1 .. n : i = 1 \/ i \in 2 .. n
      BY <1>0
    <3>3. \A j \in 1 + 1 .. n : j \in 2 .. n
      OBVIOUS
    <3>4. CASE p \in DOMAIN s[1].upd
      BY <1>4, <2>1, <3>1, <3>2, <3>3, <3>4 DEF Ends
    <3>5. CASE p \notin DOMAIN s[1].upd
      BY <1>4, <2>1, <3>1, <3>2, <3>5 DEF Ends
    <3> QED BY <3>4, <3>5
  <2>2. CASE \E i \in 1 .. n - 1 : /\ p \in DOMAIN t[i].upd /\ t[i].upd[p] = v
                                   /\ \A j \in i + 1 .. n - 1 : p \notin DOMAIN t[j].upd
    <3>1. PICK i \in 1 .. n - 1 : /\ p \in DOMAIN t[i].upd /\ t[i].upd[p] = v
                                  /\ \A j \in i + 1 .. n - 1 : p \notin DOMAIN t[j].upd
      BY <2>2
    <3>2. i + 1 \in 1 .. n /\ p \in DOMAIN s[i + 1].upd /\ s[i + 1].upd[p] = v
      BY <1>2, <3>1, <1>0
    <3>3. ASSUME NEW j \in (i + 1) + 1 .. n PROVE p \notin DOMAIN s[j].upd
      <4>1. j \in 2 .. n /\ j - 1 \in i + 1 .. n - 1
        BY <1>0
      <4> QED BY <1>3, <3>1, <4>1
    <3> QED BY <3>2, <3>3 DEF Ends
  <2> QED BY <1>6, <2>1, <2>2 DEF Ends
<1> QED BY <1>5, <1>6 DEF t, c

-----------------------------------------------------------------------------
(* The nodes of the server's tree                                          *)

LEMMA PathSequence == \A p \in Path : Sequence(p)
<1> DEFINE S == {"proc", "session", "SID", "cmd", "rsp"}
<1>1. SID \in Seq(S) /\ "cmd" \in S /\ "rsp" \in S
  BY DEF SID
<1> HIDE DEF S
<1>2. Cmd \in Seq(S) /\ Rsp \in Seq(S)
  BY <1>1, AppendElement DEF Cmd, Rsp
<1>3. Sequence(SID) /\ Sequence(Cmd) /\ Sequence(Rsp)
  BY <1>1, <1>2, SequenceFacts
<1>4. \A p \in UserPath : Sequence(p)
  BY SessionAssumption, SequenceFacts
<1> QED BY <1>3, <1>4 DEF Path

LEMMA AboveSelf ==
  ASSUME NEW p, Sequence(p)
  PROVE  p \in Above(p)
<1>1. PICK S : p \in Seq(S)
  BY DEF Sequence
<1>2. Len(p) \in 0 .. Len(p) /\ SubSeq(p, 1, Len(p)) = p
  BY <1>1
<1> QED BY <1>2 DEF Above

LEMMA AboveSequence ==
  ASSUME NEW p, Sequence(p), NEW n \in Above(p)
  PROVE  /\ Sequence(n) /\ Len(n) <= Len(p)
         /\ \A q : Sequence(q) /\ IsPrefix(q, n) => IsPrefix(q, p)
<1>1. PICK S : p \in Seq(S)
  BY DEF Sequence
<1>2. PICK k \in 0 .. Len(p) : n = SubSeq(p, 1, k)
  BY DEF Above
<1>3. Len(p) \in Nat /\ k \in Nat /\ k <= Len(p)
  BY <1>1, <1>2
<1>4. n \in Seq(S) /\ Len(n) = k /\ \A i \in 1 .. k : n[i] = p[i]
  BY <1>1, <1>2, <1>3
<1>5. Sequence(n)
  BY <1>4, SequenceFacts
<1>6. ASSUME NEW q, Sequence(q), IsPrefix(q, n) PROVE IsPrefix(q, p)
  <2>1. Len(q) \in Nat /\ Len(q) <= k /\ SubSeq(q, 1, Len(q)) = SubSeq(n, 1, Len(q))
    BY <1>4, <1>6, SequenceFacts DEF IsPrefix
  <2>2. SubSeq(n, 1, Len(q)) = SubSeq(p, 1, Len(q))
    BY <1>1, <1>3, <1>4, <2>1
  <2> QED BY <1>3, <2>1, <2>2 DEF IsPrefix
<1> QED BY <1>3, <1>4, <1>5, <1>6

\* The clean-up leaves the nodes above an object that is there.
LEMMA NodesLeft ==
  ASSUME NEW f, NEW u, DOMAIN u \subseteq Path, NEW C, NEW p \in Path, f[p] # NoVal,
         Above(p) \subseteq node \/ (p \in DOMAIN u /\ u[p] # NoVal)
  PROVE  Above(p) \subseteq NodesWith(f, u, C)
<1> DEFINE dels == {d \in DOMAIN u : u[d] = NoVal /\ tree[d] # NoVal}
           all  == node \cup UNION {Above(d) : d \in {q \in DOMAIN u : u[q] # NoVal}}
           way  == UNION {Above(d) : d \in dels} \ {<<>>}
           Needed(n) == (n \in Path /\ f[n] # NoVal) \/ n = Front(SID) \/ \E c \in C : c.base = n
<1>1. NodesWith(f, u, C) = {n \in all : ~\E q \in way : IsPrefix(q, n) /\
                              \A m \in all : IsPrefix(q, m) => m \in way /\ ~Needed(m)}
  BY DEF NodesWith
<1>2. Above(p) \subseteq all
  OBVIOUS
<1>3. Sequence(p) /\ p \in Above(p) /\ Needed(p)
  BY PathSequence, AboveSelf
<1>4. \A q \in way : Sequence(q)
  <2>1. ASSUME NEW q \in way PROVE Sequence(q)
    <3>1. PICK d \in dels : q \in Above(d)
      OBVIOUS
    <3> QED BY <3>1, PathSequence, AboveSequence
  <2> QED BY <2>1
<1> HIDE DEF dels, all, way, Needed
<1>5. ASSUME NEW n \in Above(p), NEW q \in way, IsPrefix(q, n),
             \A m \in all : IsPrefix(q, m) => m \in way /\ ~Needed(m)
      PROVE  FALSE
  <2>1. IsPrefix(q, p)
    BY <1>3, <1>4, <1>5, AboveSequence
  <2> QED BY <1>2, <1>3, <1>5, <2>1
<1> QED BY <1>1, <1>2, <1>5

-----------------------------------------------------------------------------
(* What the server's session is told                                       *)

\* ms tells of just the objects in P, what u holds.
Tells(ms, P, u) ==
  /\ Sequence(ms)
  /\ \A i \in 1 .. Len(ms) : /\ ms[i].kind = "change" /\ DOMAIN ms[i].upd \subseteq P
                             /\ \A p \in DOMAIN ms[i].upd : ms[i].upd[p] = u[p]
  /\ \A p \in P : \E i \in 1 .. Len(ms) : p \in DOMAIN ms[i].upd

LEMMA ChangeMsgFacts ==
  \A u : ChangeMsg(u).kind = "change" /\ ChangeMsg(u).upd = u /\ ChangeMsg(u).paths = {}
BY DEF ChangeMsg, Msg

\* One message for each object of an order of them.
LEMMA EachTells ==
  ASSUME NEW P \in SUBSET Path, NEW order \in SetToSeqs(P), NEW u, NEW ms,
         ms = [i \in DOMAIN order |-> ChangeMsg(One(order[i], u[order[i]]))]
  PROVE  Tells(ms, P, u) /\ Len(ms) = Len(order)
<1>1. /\ order \in Seq(P) /\ Len(order) \in Nat /\ DOMAIN order = 1 .. Len(order)
      /\ \A x \in P : \E i \in DOMAIN order : order[i] = x
  BY OrderType, PathFinite
<1>2. \A i \in 1 .. Len(order) : order[i] \in P
  BY <1>1
<1>3. ms = [i \in 1 .. Len(order) |-> ChangeMsg(One(order[i], u[order[i]]))]
  BY <1>1
<1>4. ms \in Seq({ms[i] : i \in 1 .. Len(order)}) /\ Len(ms) = Len(order)
  BY <1>1, <1>3
<1>5. Sequence(ms)
  BY <1>4, SequenceFacts
<1>6. ASSUME NEW i \in 1 .. Len(order)
      PROVE  /\ ms[i].kind = "change" /\ DOMAIN ms[i].upd = {order[i]}
             /\ ms[i].upd[order[i]] = u[order[i]]
  <2> DEFINE x == order[i]
             y == u[x]
  <2>1. ms[i] = ChangeMsg(One(x, y))
    BY <1>3
  <2>2. DOMAIN One(x, y) = {x} /\ One(x, y)[x] = y
    BY DEF One
  <2> HIDE DEF x, y
  <2>3. ms[i].kind = "change" /\ ms[i].upd = One(x, y)
    BY <2>1, ChangeMsgFacts
  <2>4. ms[i].kind = "change" /\ DOMAIN ms[i].upd = {x} /\ ms[i].upd[x] = y
    BY <2>2, <2>3
  <2> QED BY <2>4 DEF x, y
<1>7. \A p \in P : \E i \in 1 .. Len(order) : p \in DOMAIN ms[i].upd
  BY <1>1, <1>6
<1>8. \A i \in 1 .. Len(order) : /\ ms[i].kind = "change" /\ DOMAIN ms[i].upd \subseteq P
                                 /\ \A p \in DOMAIN ms[i].upd : ms[i].upd[p] = u[p]
  <2> SUFFICES ASSUME NEW i \in 1 .. Len(order)
               PROVE  /\ ms[i].kind = "change" /\ DOMAIN ms[i].upd \subseteq P
                      /\ \A p \in DOMAIN ms[i].upd : ms[i].upd[p] = u[p]
    OBVIOUS
  <2>1. /\ ms[i].kind = "change" /\ DOMAIN ms[i].upd = {order[i]} /\ order[i] \in P
        /\ ms[i].upd[order[i]] = u[order[i]]
    BY <1>2, <1>6
  <2>2. \A p \in DOMAIN ms[i].upd : p = order[i]
    BY <2>1
  <2>3. \A p \in DOMAIN ms[i].upd : ms[i].upd[p] = u[p]
    BY <2>1, <2>2, Zenon
  <2> QED BY <2>1, <2>3
<1> QED BY <1>4, <1>5, <1>7, <1>8 DEF Tells

LEMMA AnnounceTells ==
  ASSUME NEW u, DOMAIN u \subseteq Path, NEW whole, Announce(u, whole)
  PROVE  \E ms : /\ Tells(ms, {p \in DOMAIN u : u[p] # tree[p] /\ Covered(p, cbPaths)}, u)
                 /\ Tell(ms)
<1> DEFINE P == {p \in DOMAIN u : u[p] # tree[p] /\ Covered(p, cbPaths)}
<1>1. P \in SUBSET Path
  OBVIOUS
<1>2. IF whole
      THEN Tell(IF P = {} THEN <<>> ELSE <<ChangeMsg([p \in P |-> u[p]])>>)
      ELSE \E order \in SetToSeqs(P) :
             Tell([i \in DOMAIN order |-> ChangeMsg(One(order[i], u[order[i]]))])
  BY Zenon DEF Announce, Covered
<1>3. \A p \in P : p \in DOMAIN u
  OBVIOUS
<1> HIDE DEF P
<1>4. CASE ~whole
  <2>1. PICK order \in SetToSeqs(P) :
          Tell([i \in DOMAIN order |-> ChangeMsg(One(order[i], u[order[i]]))])
    BY <1>2, <1>4
  <2> DEFINE ms == [i \in DOMAIN order |-> ChangeMsg(One(order[i], u[order[i]]))]
  <2>2. Tells(ms, P, u)
    BY <1>1, EachTells
  <2> HIDE DEF ms
  <2> QED BY <2>1, <2>2 DEF ms, P
<1>5. CASE whole /\ P = {}
  <2>1. Tell(<<>>)
    BY <1>2, <1>5
  <2>2. Sequence(<<>>) /\ Len(<<>>) = 0
    <3>1. <<>> \in Seq({})
      OBVIOUS
    <3> QED BY <3>1, SequenceFacts
  <2>3. Tells(<<>>, P, u)
    BY <1>5, <2>2 DEF Tells
  <2> QED BY <2>1, <2>3 DEF P
<1>6. CASE whole /\ P # {}
  <2> DEFINE m  == ChangeMsg([p \in P |-> u[p]])
             ms == <<m>>
  <2>1. Tell(ms)
    BY <1>2, <1>6
  <2>2. m.kind = "change" /\ m.upd = [p \in P |-> u[p]]
    BY ChangeMsgFacts
  <2>3. ms \in Seq({m}) /\ Len(ms) = 1 /\ ms[1] = m
    OBVIOUS
  <2>4. Sequence(ms)
    BY <2>3, SequenceFacts
  <2> HIDE DEF m, ms
  <2>5. DOMAIN m.upd = P /\ \A p \in P : m.upd[p] = u[p]
    BY <2>2
  <2>6. Tells(ms, P, u)
    BY <2>2, <2>3, <2>4, <2>5 DEF Tells
  <2> QED BY <2>1, <2>6 DEF P
<1> QED BY <1>4, <1>5, <1>6

\* u is put and deleted, and the session is told.
Changed(u, ms) ==
  /\ DOMAIN u \subseteq UserPath \cup {Cmd, Rsp}
  /\ \A p \in DOMAIN u : p \in UserPath => u[p] \in Value
  /\ tree' = [p \in Path |-> IF p \in DOMAIN u THEN u[p] ELSE tree[p]]
  /\ node' = NodesWith(tree', u, cbPaths)
  /\ Tells(ms, {p \in DOMAIN u : u[p] # tree[p] /\ Covered(p, cbPaths)}, u)
  /\ Tell(ms)

\* w is u, with the answer if u is a command.
Answered(u, w) ==
  /\ \A p \in DOMAIN u : p \in DOMAIN w /\ w[p] = u[p]
  /\ \A p \in DOMAIN w : \/ p \in DOMAIN u
                         \/ /\ p = Rsp /\ DOMAIN u = {Cmd} /\ u[Cmd] \in Commands
                            /\ w[Rsp] = Answer(u[Cmd])

LEMMA WithAnswerFacts ==
  ASSUME NEW u \in UserUpdate \cup CmdUpdate, NEW w, w = WithAnswer(u)
  PROVE  /\ Answered(u, w) /\ DOMAIN w \subseteq UserPath \cup {Cmd, Rsp}
         /\ \A p \in DOMAIN w : p \in UserPath => w[p] \in Value
<1>1. /\ u = [p \in DOMAIN u |-> u[p]] /\ DOMAIN u \subseteq UserPath \cup {Cmd}
      /\ \A p \in DOMAIN u : p \in UserPath => u[p] \in Value
      /\ Cmd \in DOMAIN u => DOMAIN u = {Cmd} /\ u[Cmd] \in Commands
  BY UpdateFacts
<1>2. CASE Cmd \in DOMAIN u /\ u[Cmd] # tree[Cmd] /\ u[Cmd] # NoVal
  <2>1. w = [p \in DOMAIN u \cup {Rsp} |-> IF p = Rsp THEN Answer(u[Cmd]) ELSE u[p]]
    BY <1>2 DEF WithAnswer, With
  <2>2. DOMAIN u = {Cmd} /\ u[Cmd] \in Commands
    BY <1>1, <1>2
  <2>3. DOMAIN w = {Cmd, Rsp} /\ w[Cmd] = u[Cmd] /\ w[Rsp] = Answer(u[Cmd])
    BY <2>1, <2>2, PathFacts
  <2> QED BY <2>2, <2>3, PathFacts DEF Answered
<1>3. CASE ~(Cmd \in DOMAIN u /\ u[Cmd] # tree[Cmd] /\ u[Cmd] # NoVal)
  <2>1. w = u
    BY <1>3 DEF WithAnswer
  <2> QED BY <1>1, <2>1 DEF Answered
<1> QED BY <1>2, <1>3

LEMMA ChangeEffect ==
  ASSUME ServerShape, NEW u \in UserUpdate \cup CmdUpdate, NEW whole, Change(u, whole)
  PROVE  \E w, ms : Changed(w, ms) /\ Answered(u, w)
<1> DEFINE w == WithAnswer(u)
<1>1. /\ Answered(u, w) /\ DOMAIN w \subseteq UserPath \cup {Cmd, Rsp}
      /\ \A p \in DOMAIN w : p \in UserPath => w[p] \in Value
  BY WithAnswerFacts
<1>2. tree' = Apply(w, tree) /\ node' = NodesWith(tree', w, cbPaths) /\ Announce(w, whole)
  BY DEF Change
<1> HIDE DEF w
<1>3. DOMAIN w \subseteq Path
  BY <1>1, PathFacts
<1>4. PICK ms : /\ Tells(ms, {p \in DOMAIN w : w[p] # tree[p] /\ Covered(p, cbPaths)}, w)
                /\ Tell(ms)
  BY <1>2, <1>3, AnnounceTells
<1>5. tree' = [p \in Path |-> IF p \in DOMAIN w THEN w[p] ELSE tree[p]]
  <2>1. DOMAIN tree = Path
    BY DEF ServerShape
  <2> QED BY <1>2, <2>1 DEF Apply
<1>6. Changed(w, ms)
  BY <1>1, <1>2, <1>4, <1>5 DEF Changed
<1> QED BY <1>1, <1>6

\* What handleSubscribeMsg sends.
Synchronises(ms, C) ==
  \E each : /\ Tells(each, {p \in Path : tree[p] # NoVal /\ Covered(p, C)}, tree)
            /\ ms = Append(each, NotiMsg(C))

LEMMA SubscribeEffect ==
  ASSUME ServerShape, HandleSubscribe
  PROVE  LET C == Head(up).paths
         IN \E ms : Synchronises(ms, C) /\ Tell(ms)
<1> DEFINE C == Head(up).paths
           P == {p \in Path : tree[p] # NoVal /\ Covered(p, C)}
<1>1. PICK order \in SetToSeqs(P) : Tell(Sync(C, order))
  BY Zenon DEF HandleSubscribe, Covered
<1> DEFINE each == [i \in DOMAIN order |-> ChangeMsg(One(order[i], tree[order[i]]))]
           ms   == Append(each, NotiMsg(C))
<1>2. P \in SUBSET Path
  OBVIOUS
<1>3. Tells(each, P, tree)
  <2> HIDE DEF P
  <2> QED BY <1>2, EachTells
<1>4. Tell(ms)
  BY <1>1 DEF Sync
<1> HIDE DEF each
<1>5. Synchronises(ms, C)
  BY <1>3 DEF Synchronises
<1> HIDE DEF ms, C
<1> QED BY <1>4, <1>5 DEF C

-----------------------------------------------------------------------------
(* The server's end                                                        *)

LEMMA UpTail ==
  ASSUME ServerShape, up # <<>>
  PROVE  /\ Head(up) \in UpMsg /\ Head(up) = up[1] /\ Tail(up) \in Seq(UpMsg)
         /\ Len(up) \in Nat /\ Len(up) >= 1 /\ Len(Tail(up)) = Len(up) - 1
         /\ \A i \in 1 .. Len(up) - 1 : Tail(up)[i] = up[i + 1]
<1>1. up \in Seq(UpMsg)
  BY DEF ServerShape
<1> QED BY <1>1

LEMMA ChangedShape ==
  ASSUME ServerShape, NEW u, NEW ms, Changed(u, ms), serving' = serving, cbPaths' = cbPaths,
         up' \in Seq(UpMsg), ~serving => up' = <<>> /\ Cmd \notin DOMAIN u /\ Rsp \notin DOMAIN u
  PROVE  ServerShape'
<1>1. /\ DOMAIN u \subseteq UserPath \cup {Cmd, Rsp}
      /\ \A p \in DOMAIN u : p \in UserPath => u[p] \in Value
      /\ tree' = [p \in Path |-> IF p \in DOMAIN u THEN u[p] ELSE tree[p]]
      /\ node' = NodesWith(tree', u, cbPaths)
  BY DEF Changed
<1>2. \A p \in Path : tree'[p] = IF p \in DOMAIN u THEN u[p] ELSE tree[p]
  BY <1>1
<1>3. tree' = [p \in Path |-> tree'[p]]
  BY <1>1
<1>4. \A p \in UserPath : tree'[p] \in Value
  BY <1>1, <1>2, PathFacts DEF ServerShape
<1>5. tree'[SID] = tree[SID]
  BY <1>1, <1>2, PathFacts
<1>6. ~serving => tree'[Cmd] = tree[Cmd] /\ tree'[Rsp] = tree[Rsp]
  BY <1>2, PathFacts
<1>7. DOMAIN u \subseteq Path
  BY <1>1, PathFacts
<1>8. ASSUME NEW p \in Path, tree'[p] # NoVal PROVE Above(p) \subseteq node'
  <2>1. Above(p) \subseteq node \/ (p \in DOMAIN u /\ u[p] # NoVal)
    BY <1>2, <1>8 DEF ServerShape
  <2> QED BY <1>1, <1>7, <1>8, <2>1, NodesLeft
<1>9. /\ serving \in BOOLEAN /\ tree[SID] = IF serving THEN Online ELSE NoVal
      /\ ~serving => cbPaths = {} /\ tree[Cmd] = NoVal /\ tree[Rsp] = NoVal
      /\ cbPaths \subseteq UNION SubList
  BY DEF ServerShape
<1> QED BY <1>3, <1>4, <1>5, <1>6, <1>8, <1>9 DEF ServerShape

\* What a step does that the server's end is told of.
LEMMA HandleChangeEffect ==
  ASSUME ServerShape, HandleChange
  PROVE  /\ Head(up).upd \in UserUpdate \cup CmdUpdate
         /\ \E w, ms : Changed(w, ms) /\ Answered(Head(up).upd, w)
         /\ up # <<>> /\ up' = Tail(up) /\ UNCHANGED <<serving, cbPaths, client, history>> /\ serving
<1>1. up # <<>> /\ up' = Tail(up) /\ UNCHANGED <<serving, cbPaths, client, history>> /\ serving
  BY DEF HandleChange
<1>2. Head(up) \in UpMsg
  BY <1>1, UpTail
<1>3. Head(up).upd \in UserUpdate \cup CmdUpdate
  BY <1>2, UpMsgFacts
<1>4. Change(Head(up).upd, Cardinality(DOMAIN Head(up).upd) > 1)
  BY DEF HandleChange
<1>5. \E w, ms : Changed(w, ms) /\ Answered(Head(up).upd, w)
  BY <1>3, <1>4, ChangeEffect
<1> QED BY <1>1, <1>3, <1>5

LEMMA OtherChangeEffect ==
  ASSUME ServerShape, NEW p \in UserPath, NEW v \in Value, OtherChange(p, v)
  PROVE  \E w, ms : Changed(w, ms) /\ DOMAIN w = {p} /\ w[p] = v
<1> DEFINE u == One(p, v)
<1>1. u \in UserUpdate \cup CmdUpdate /\ DOMAIN u = {p} /\ u[p] = v
  BY OneUpdate
<1>2. Change(u, FALSE)
  BY DEF OtherChange
<1> HIDE DEF u
<1>3. PICK w, ms : Changed(w, ms) /\ Answered(u, w)
  BY <1>1, <1>2, ChangeEffect
<1>4. DOMAIN w = {p} /\ w[p] = v
  <2>1. p \in DOMAIN w /\ w[p] = v
    BY <1>1, <1>3 DEF Answered
  <2>2. \A q \in DOMAIN w : q \in DOMAIN u \/ DOMAIN u = {Cmd}
    BY <1>3 DEF Answered
  <2>3. DOMAIN u # {Cmd}
    BY <1>1, PathFacts
  <2> QED BY <1>1, <2>1, <2>2, <2>3
<1> QED BY <1>3, <1>4

LEMMA SendUp ==
  ASSUME ServerShape, NEW m \in UpMsg, Send(m)
  PROVE  /\ up' \in Seq(UpMsg)
         /\ ~serving => up' = up
         /\ serving => /\ up' = Append(up, m) /\ Len(up') = Len(up) + 1 /\ up'[Len(up) + 1] = m
                       /\ \A i \in 1 .. Len(up) : up'[i] = up[i]
<1>1. up \in Seq(UpMsg)
  BY DEF ServerShape
<1>2. Append(up, m) \in Seq(UpMsg) /\ Len(Append(up, m)) = Len(up) + 1
      /\ Append(up, m)[Len(up) + 1] = m /\ \A i \in 1 .. Len(up) : Append(up, m)[i] = up[i]
  BY <1>1
<1> QED BY <1>1, <1>2 DEF Send

LEMMA SubscribeShape ==
  ASSUME ServerShape, HandleSubscribe
  PROVE  /\ ServerShape' /\ serving /\ serving' = serving /\ tree' = tree /\ up # <<>>
         /\ Head(up) \in UpMsg /\ Head(up).kind = "subscribe" /\ Head(up).paths \in SubList
         /\ up' = Tail(up) /\ cbPaths' = cbPaths \cup Head(up).paths /\ UNCHANGED <<client, history>>
<1>1. /\ serving /\ serving' = serving /\ tree' = tree /\ up # <<>> /\ Head(up).kind = "subscribe"
      /\ up' = Tail(up) /\ cbPaths' = cbPaths \cup Head(up).paths /\ UNCHANGED <<client, history>>
      /\ node \subseteq node'
  BY DEF HandleSubscribe
<1>2. Head(up) \in UpMsg /\ Tail(up) \in Seq(UpMsg)
  BY <1>1, UpTail
<1>3. Head(up).paths \in SubList
  BY <1>1, <1>2, UpMsgFacts
<1>4. cbPaths' \subseteq UNION SubList
  BY <1>1, <1>3 DEF ServerShape
<1>5. \A p \in Path : tree'[p] # NoVal => Above(p) \subseteq node'
  BY <1>1 DEF ServerShape
<1>6. ServerShape'
  BY <1>1, <1>2, <1>4, <1>5 DEF ServerShape
<1> QED BY <1>1, <1>2, <1>3, <1>6

LEMMA CloseShape ==
  ASSUME ServerShape, Close
  PROVE  ServerShape'
<1>1. /\ serving' = FALSE /\ cbPaths' = {} /\ up' = <<>>
      /\ tree' = Apply(Gone, tree) /\ node' = NodesWith(tree', Gone, {})
  BY DEF Close
<1>2. DOMAIN Gone = {SID, Cmd, Rsp} /\ \A p \in {SID, Cmd, Rsp} : Gone[p] = NoVal
  BY DEF Gone
<1>3. DOMAIN tree = Path
  BY DEF ServerShape
<1>4. tree' = [p \in Path |-> IF p \in {SID, Cmd, Rsp} THEN NoVal ELSE tree[p]]
  BY <1>1, <1>2, <1>3 DEF Apply
<1>5. tree' = [p \in Path |-> tree'[p]]
  BY <1>4
<1>6. \A p \in UserPath : tree'[p] \in Value
  BY <1>4, PathFacts DEF ServerShape
<1>7. tree'[SID] = NoVal /\ tree'[Cmd] = NoVal /\ tree'[Rsp] = NoVal
  BY <1>4, PathFacts
<1>8. ASSUME NEW p \in Path, tree'[p] # NoVal PROVE Above(p) \subseteq node'
  <2>1. Above(p) \subseteq node
    BY <1>4, <1>8 DEF ServerShape
  <2>2. DOMAIN Gone \subseteq Path
    BY <1>2, PathFacts
  <2> QED BY <1>1, <1>8, <2>1, <2>2, NodesLeft
<1>9. up' \in Seq(UpMsg)
  BY <1>1
<1>10. cbPaths' \subseteq UNION SubList /\ serving' \in BOOLEAN /\ ~serving'
  BY <1>1
<1> QED BY <1>1, <1>5, <1>6, <1>7, <1>8, <1>9, <1>10 DEF ServerShape

LEMMA ConnectShape ==
  ASSUME ServerShape, Connect
  PROVE  ServerShape'
<1>1. /\ ~serving /\ serving' = TRUE /\ cbPaths' = cbPaths /\ up' = <<>>
      /\ tree' = [tree EXCEPT ![SID] = Online] /\ node' = node \cup Above(SID)
  BY DEF Connect
<1>2. tree = [p \in Path |-> tree[p]] /\ cbPaths = {}
  BY <1>1 DEF ServerShape
<1>3. tree' = [p \in Path |-> IF p = SID THEN Online ELSE tree[p]]
  BY <1>1, <1>2
<1>4. tree' = [p \in Path |-> tree'[p]] /\ tree'[SID] = Online
  BY <1>3, PathFacts
<1>5. \A p \in UserPath : tree'[p] \in Value
  BY <1>3, PathFacts DEF ServerShape
<1>6. \A p \in Path : tree'[p] # NoVal => Above(p) \subseteq node'
  BY <1>1, <1>3 DEF ServerShape
<1>7. up' \in Seq(UpMsg)
  BY <1>1
<1>8. cbPaths' \subseteq UNION SubList /\ serving' \in BOOLEAN /\ serving'
  BY <1>1, <1>2
<1> QED BY <1>4, <1>5, <1>6, <1>7, <1>8 DEF ServerShape

-----------------------------------------------------------------------------
(* The steps of the client that send                                       *)

\* m is sent, and nothing else happens between the two ends.
Sends(m) == m \in UpMsg /\ Send(m) /\ UNCHANGED <<down, server, connected, peerName, local>>

\* Nothing happens between the two ends.
Silent == UNCHANGED <<up, down, server, connected, peerName, local>>

LEMMA SendsShape ==
  ASSUME ServerShape, NEW m, Sends(m)
  PROVE  ServerShape'
<1>0. m \in UpMsg /\ Send(m)
  BY DEF Sends
<1>1. up' \in Seq(UpMsg) /\ (~serving => up' = up)
  BY <1>0, SendUp
<1>2. tree' = tree /\ node' = node /\ serving' = serving /\ cbPaths' = cbPaths
  BY DEF Sends, server
<1> QED BY <1>1, <1>2 DEF ServerShape

LEMMA WriteSends ==
  ASSUME NEW p \in UserPath, NEW v \in Value, Write(p, v)
  PROVE  /\ Sends(ChangeMsg(One(p, v))) /\ mine' = [mine EXCEPT ![p] = v] /\ connected
         /\ UNCHANGED <<connected, subscriptionCallback, xaction, lastSub, asked, cmds>>
<1>1. ChangeMsg(One(p, v)) \in UpMsg
  BY OneUpdate, UpMsgFacts
<1> QED BY <1>1 DEF Write, Sends, client, Acts

LEMMA SubscribeSends ==
  ASSUME NEW C \in SubList, NEW k \in Callback \cup {NoCb}, Subscribe(C, k)
  PROVE  /\ Sends(SubscribeMsg(C)) /\ lastSub' = C /\ connected
         /\ IF k = NoCb THEN UNCHANGED <<subscriptionCallback, asked>>
            ELSE subscriptionCallback' = k /\ asked' = asked \cup {Open(C, k)}
         /\ UNCHANGED <<xaction, cmds, mine>>
<1>1. SubscribeMsg(C) \in UpMsg
  BY UpMsgFacts
<1> QED BY <1>1 DEF Subscribe, Sends, Acts

LEMMA EndTransactionSends ==
  ASSUME xaction \in [on : BOOLEAN, upd : UserUpdate], EndTransaction
  PROVE  /\ IF DOMAIN xaction.upd = {} THEN Silent ELSE Sends(ChangeMsg(xaction.upd))
         /\ mine' = Apply(xaction.upd, mine) /\ xaction' = NoXaction /\ connected
         /\ UNCHANGED <<subscriptionCallback, lastSub, asked, cmds>>
<1>1. ChangeMsg(xaction.upd) \in UpMsg
  BY UpMsgFacts
<1> QED BY <1>1 DEF EndTransaction, Ended, Sends, Silent

\* A command has the number that its id says.
LEMMA CommandSends ==
  ASSUME ClientShape, NEW r \in Request, Command(r)
  PROVE  \E c \in Commands :
           /\ Sends(ChangeMsg(One(Cmd, c))) /\ c.op = r.op /\ c.path = r.path
           /\ c.id \in DOMAIN cmds' /\ (~Repeat => c.id = Len(cmds) + 1)
           /\ cmds' = Append(cmds, r) /\ asked' = asked \cup {OpenCmd(c.id)} /\ connected
           /\ Covered(Rsp, lastSub)
           /\ UNCHANGED <<subscriptionCallback, xaction, lastSub, mine>>
<1> DEFINE id == IF Repeat THEN 1 ELSE Len(cmds) + 1
           c  == [id |-> id, op |-> r.op, path |-> r.path]
<1>1. cmds \in Seq(Request)
  BY DEF ClientShape
<1>2. Append(cmds, r) \in Seq(Request) /\ Len(Append(cmds, r)) = Len(cmds) + 1 /\ Len(cmds) \in Nat
  BY <1>1
<1>3. id \in Nat /\ id \in DOMAIN Append(cmds, r)
  BY <1>2
<1>4. r.op \in {"ls", "cat"}
  BY SessionAssumption
<1>5. /\ Send(ChangeMsg(One(Cmd, c))) /\ asked' = asked \cup {OpenCmd(id)} /\ cmds' = Append(cmds, r)
      /\ connected /\ (\E d \in lastSub : Covers(d, Rsp))
      /\ UNCHANGED <<down, server, client, lastSub, mine>>
  BY DEF Command, Acts
<1> HIDE DEF id
<1>6. c \in Commands /\ c.op = r.op /\ c.path = r.path /\ c.id = id
  BY <1>3, <1>4 DEF Commands
<1> HIDE DEF c
<1>7. ChangeMsg(One(Cmd, c)) \in UpMsg
  BY <1>6, OneUpdate, UpMsgFacts
<1>8. Sends(ChangeMsg(One(Cmd, c)))
  BY <1>5, <1>7 DEF Sends, client
<1>9. ~Repeat => c.id = Len(cmds) + 1
  BY <1>6 DEF id
<1> QED BY <1>3, <1>5, <1>6, <1>8, <1>9 DEF Covered, client

-----------------------------------------------------------------------------
(* The client's end                                                        *)

\* What Tell does to a queue, whether or not there is a client.
LEMMA TellDown ==
  ASSUME Sequence(down), NEW ms, Sequence(ms), Tell(ms)
  PROVE  /\ Sequence(down') /\ (~connected => down' = down)
         /\ connected => /\ Len(down') = Len(down) + Len(ms)
                         /\ \A i \in 1 .. Len(down) : down'[i] = down[i]
                         /\ \A i \in 1 .. Len(ms) : down'[Len(down) + i] = ms[i]
                         /\ \A i \in Len(down) + 1 .. Len(down') :
                              i - Len(down) \in 1 .. Len(ms) /\ down'[i] = ms[i - Len(down)]
<1>1. Len(down) \in Nat /\ Len(ms) \in Nat
  BY SequenceFacts
<1>2. CASE connected
  <2> DEFINE t == down \o ms
  <2>1. down' = t
    BY <1>2 DEF Tell
  <2>2. /\ Sequence(t) /\ Len(t) = Len(down) + Len(ms)
        /\ \A i \in 1 .. Len(down) : t[i] = down[i]
        /\ \A i \in 1 .. Len(ms) : t[Len(down) + i] = ms[i]
    BY SequenceConcat
  <2> HIDE DEF t
  <2>3. ASSUME NEW i \in Len(down) + 1 .. Len(t)
        PROVE  i - Len(down) \in 1 .. Len(ms) /\ t[i] = ms[i - Len(down)]
    <3>1. i - Len(down) \in 1 .. Len(ms) /\ Len(down) + (i - Len(down)) = i
      BY <1>1, <2>2
    <3> QED BY <2>2, <3>1
  <2> QED BY <1>2, <2>1, <2>2, <2>3
<1>3. CASE ~connected
  BY <1>3 DEF Tell
<1> QED BY <1>2, <1>3

\* The client's end where only messages come for it.
LEMMA TellShape ==
  ASSUME ClientShape, NEW ms, Sequence(ms), \A i \in 1 .. Len(ms) : DownMsg(ms[i]), Tell(ms),
         client' = client, cmds' = cmds, asked' = asked, mine' \in [UserPath -> Value \cup {Unknown}]
  PROVE  ClientShape'
<1>1. Sequence(down) /\ \A i \in DOMAIN down : DownMsg(down[i])
  BY DEF ClientShape
<1>2. Sequence(down') /\ (~connected => down' = down)
  BY <1>1, TellDown
<1>3. Len(down) \in Nat /\ DOMAIN down = 1 .. Len(down) /\ DOMAIN down' = 1 .. Len(down')
  BY <1>1, <1>2, SequenceFacts
<1>4. ASSUME NEW i \in DOMAIN down' PROVE DownMsg(down'[i])
  <2>1. CASE ~connected
    BY <1>1, <1>2, <1>4, <2>1
  <2>2. CASE connected /\ i \in 1 .. Len(down)
    BY <1>1, <1>3, <2>2, TellDown
  <2>3. CASE connected /\ i \in Len(down) + 1 .. Len(down')
    <3>1. i - Len(down) \in 1 .. Len(ms) /\ down'[i] = ms[i - Len(down)]
      BY <1>1, <2>3, TellDown
    <3> QED BY <3>1
  <2>4. i \in 1 .. Len(down) \/ i \in Len(down) + 1 .. Len(down')
    <3>1. i \in 1 .. Len(down') /\ Len(down') \in Nat
      BY <1>2, <1>3, <1>4, SequenceFacts
    <3> QED BY <1>3, <3>1
  <2> QED BY <2>1, <2>2, <2>3, <2>4
<1>5. /\ connected' = connected /\ peerName' = peerName /\ local' = local
      /\ subscriptionCallback' = subscriptionCallback /\ xaction' = xaction
  BY DEF client
<1> QED BY <1>2, <1>4, <1>5 DEF ClientShape

LEMMA TellsDown ==
  ASSUME NEW ms, NEW P, P \subseteq Path, NEW u, Tells(ms, P, u),
         \A p \in P : p \in UserPath => u[p] \in Value
  PROVE  Sequence(ms) /\ \A i \in 1 .. Len(ms) : DownMsg(ms[i]) /\ ms[i].kind # "noti"
<1>1. Sequence(ms)
  BY DEF Tells
<1>2. ASSUME NEW i \in 1 .. Len(ms) PROVE DownMsg(ms[i]) /\ ms[i].kind # "noti"
  <2>1. /\ ms[i].kind = "change" /\ DOMAIN ms[i].upd \subseteq P
        /\ \A p \in DOMAIN ms[i].upd : ms[i].upd[p] = u[p]
    BY DEF Tells
  <2>2. \A p \in DOMAIN ms[i].upd : p \in UserPath => ms[i].upd[p] \in Value
    BY <2>1
  <2> QED BY <2>1, <2>2 DEF DownMsg
<1> QED BY <1>1, <1>2

LEMMA NotiMsgFacts ==
  \A C : /\ NotiMsg(C).kind = "noti" /\ NotiMsg(C).paths = C
         /\ NotiMsg(C).upd = One(LocalSubscription, C) /\ NotiMsg(C).sent = Below(tree, C)
BY DEF NotiMsg, Msg

\* What is sent of a subscription: the objects, and the end of it.
LEMMA SynchronisesDown ==
  ASSUME ServerShape, NEW C, NEW ms, Synchronises(ms, C)
  PROVE  /\ Sequence(ms) /\ \A i \in 1 .. Len(ms) : DownMsg(ms[i])
         /\ Len(ms) \in Nat /\ Len(ms) >= 1 /\ ms[Len(ms)] = NotiMsg(C)
         /\ \A i \in 1 .. Len(ms) - 1 :
              /\ ms[i].kind # "noti"
              /\ \A p \in DOMAIN ms[i].upd : /\ p \in Path /\ Covered(p, C) /\ tree[p] # NoVal
                                             /\ ms[i].upd[p] = tree[p]
         /\ \A p \in Path : tree[p] # NoVal /\ Covered(p, C) =>
              \E i \in 1 .. Len(ms) - 1 : p \in DOMAIN ms[i].upd
<1> DEFINE P == {p \in Path : tree[p] # NoVal /\ Covered(p, C)}
<1>1. PICK each : Tells(each, P, tree) /\ ms = Append(each, NotiMsg(C))
  BY DEF Synchronises
<1>2. \A p \in P : p \in UserPath => tree[p] \in Value
  BY DEF ServerShape
<1>3. \A p \in P : p \in Path /\ Covered(p, C) /\ tree[p] # NoVal
  OBVIOUS
<1>4. \A p \in Path : tree[p] # NoVal /\ Covered(p, C) => p \in P
  OBVIOUS
<1>5. P \subseteq Path
  OBVIOUS
<1> HIDE DEF P
<1>6. Sequence(each) /\ \A i \in 1 .. Len(each) : DownMsg(each[i]) /\ each[i].kind # "noti"
  BY <1>1, <1>2, <1>5, TellsDown
<1>7. /\ Sequence(ms) /\ Len(ms) = Len(each) + 1 /\ ms[Len(each) + 1] = NotiMsg(C)
      /\ \A i \in 1 .. Len(each) : ms[i] = each[i]
  BY <1>1, <1>6, SequenceAppend
<1>8. Len(each) \in Nat /\ Len(ms) \in Nat /\ Len(ms) >= 1 /\ Len(each) = Len(ms) - 1
  <2>1. Len(each) \in Nat
    BY <1>6, SequenceFacts
  <2> QED BY <1>7, <2>1
<1>9. DownMsg(NotiMsg(C))
  <2>1. /\ NotiMsg(C).kind = "noti" /\ NotiMsg(C).paths = C
        /\ NotiMsg(C).upd = One(LocalSubscription, C) /\ DOMAIN One(LocalSubscription, C) = {LocalSubscription}
    BY NotiMsgFacts, OneUpdate
  <2>2. LocalSubscription \notin UserPath
    BY PathFacts
  <2> QED BY <2>1, <2>2 DEF DownMsg
<1>10. \A i \in 1 .. Len(ms) : i \in 1 .. Len(each) \/ i = Len(each) + 1
  BY <1>8
<1>11. \A i \in 1 .. Len(ms) : DownMsg(ms[i])
  BY <1>6, <1>7, <1>9, <1>10
<1>12. ASSUME NEW i \in 1 .. Len(each)
       PROVE  /\ ms[i].kind # "noti"
              /\ \A p \in DOMAIN ms[i].upd : /\ p \in Path /\ Covered(p, C) /\ tree[p] # NoVal
                                             /\ ms[i].upd[p] = tree[p]
  <2>1. /\ each[i].kind # "noti" /\ DOMAIN each[i].upd \subseteq P /\ ms[i] = each[i]
        /\ \A p \in DOMAIN each[i].upd : each[i].upd[p] = tree[p]
    BY <1>1, <1>6, <1>7 DEF Tells
  <2> QED BY <1>3, <2>1
<1>13. ASSUME NEW p \in Path, tree[p] # NoVal, Covered(p, C)
       PROVE  \E i \in 1 .. Len(each) : p \in DOMAIN ms[i].upd
  <2>1. PICK i \in 1 .. Len(each) : p \in DOMAIN each[i].upd
    BY <1>1, <1>4, <1>13 DEF Tells
  <2> QED BY <1>7, <2>1
<1> QED BY <1>7, <1>8, <1>11, <1>12, <1>13

LEMMA ReceiveEffect ==
  ASSUME ClientShape, Receive
  PROVE  /\ connected /\ connected' = connected /\ down # <<>> /\ down' = Tail(down)
         /\ DownMsg(Head(down)) /\ DOMAIN Head(down).upd \subseteq LocalPath
         /\ DOMAIN local = LocalPath
         /\ local' = [p \in LocalPath |-> IF p \in DOMAIN Head(down).upd THEN Head(down).upd[p] ELSE local[p]]
         /\ asked' \subseteq asked /\ peerName' \in BOOLEAN
         /\ UNCHANGED <<up, server, subscriptionCallback, xaction, lastSub, cmds, mine>>
<1> DEFINE m == Head(down)
<1>1. /\ connected /\ connected' = connected /\ down # <<>> /\ down' = Tail(down)
      /\ UNCHANGED <<up, server, subscriptionCallback, xaction, lastSub, cmds, mine>>
      /\ local' = Apply(m.upd, local) /\ asked' \subseteq asked /\ peerName' \in BOOLEAN
  BY DEF Receive, ClientShape
<1>2. DownMsg(m)
  <2>1. Sequence(down) /\ \A i \in DOMAIN down : DownMsg(down[i])
    BY DEF ClientShape
  <2>2. Len(down) >= 1 /\ m = down[1] /\ Len(down) \in Nat /\ DOMAIN down = 1 .. Len(down)
    BY <1>1, <2>1, SequenceTail, SequenceFacts
  <2> QED BY <2>1, <2>2
<1> HIDE DEF m
<1>3. DOMAIN local = LocalPath
  BY DEF ClientShape
<1>4. DOMAIN m.upd \subseteq LocalPath
  BY <1>2, OneUpdate, PathFacts DEF DownMsg
<1>5. local' = [p \in LocalPath |-> IF p \in DOMAIN m.upd THEN m.upd[p] ELSE local[p]]
  BY <1>1, <1>3 DEF Apply
<1> QED BY <1>1, <1>2, <1>3, <1>4, <1>5 DEF m

LEMMA ApplyType ==
  ASSUME ClientShape, NEW u \in UserUpdate
  PROVE  /\ Apply(u, mine) \in [UserPath -> Value \cup {Unknown}]
         /\ \A p \in UserPath : Apply(u, mine)[p] = IF p \in DOMAIN u THEN u[p] ELSE mine[p]
<1>1. mine \in [UserPath -> Value \cup {Unknown}]
  BY DEF ClientShape
<1>2. \A p \in DOMAIN u : p \in UserPath => u[p] \in Value
  BY UpdateFacts
<1>3. Apply(u, mine) = [p \in UserPath |-> IF p \in DOMAIN u THEN u[p] ELSE mine[p]]
  BY <1>1 DEF Apply
<1> QED BY <1>1, <1>2, <1>3

LEMMA XactionType ==
  /\ NoXaction \in [on : BOOLEAN, upd : UserUpdate] /\ NoXaction.upd = Empty /\ ~NoXaction.on
  /\ [NoXaction EXCEPT !.on = TRUE] \in [on : BOOLEAN, upd : UserUpdate]
  /\ \A u \in UserUpdate, p \in UserPath, v \in Value : With(u, p, v) \in UserUpdate
<1>1. Empty \in UserUpdate
  BY OneUpdate
<1>2. NoXaction = [on |-> FALSE, upd |-> Empty]
  BY DEF NoXaction, Empty
<1>3. ASSUME NEW u \in UserUpdate, NEW p \in UserPath, NEW v \in Value
      PROVE  With(u, p, v) \in UserUpdate
  <2>1. PICK D \in SUBSET UserPath : u \in [D -> Value]
    BY DEF UserUpdate
  <2>2. With(u, p, v) \in [D \cup {p} -> Value] /\ D \cup {p} \in SUBSET UserPath
    BY <2>1 DEF With
  <2> QED BY <2>2 DEF UserUpdate
<1> QED BY <1>1, <1>2, <1>3

\* The client's end where nothing comes for it.
LEMMA QuietShape ==
  ASSUME ClientShape, connected' = connected, peerName' = peerName, local' = local, down' = down,
         subscriptionCallback' \in Callback \cup {NoCb},
         xaction' \in [on : BOOLEAN, upd : UserUpdate], ~connected => ~xaction'.on /\ asked' = {},
         mine' \in [UserPath -> Value \cup {Unknown}], cmds' \in Seq(Request),
         \A a \in asked' : a.paths \in SubList \cup {{}} /\ (a.to = NoCb => a.id \in DOMAIN cmds')
  PROVE  ClientShape'
BY DEF ClientShape

LEMMA ConnectClientShape ==
  ASSUME ClientShape, Connect
  PROVE  ClientShape'
<1>1. /\ connected' = TRUE /\ down' = <<PeerInfoMsg>> /\ local' = [p \in LocalPath |-> NoVal]
      /\ mine' = [p \in UserPath |-> Unknown]
      /\ UNCHANGED <<peerName, subscriptionCallback, xaction, asked, cmds>>
  BY DEF Connect
<1>2. PeerInfoMsg.kind = "peer" /\ DOMAIN PeerInfoMsg.upd = {}
  BY DEF PeerInfoMsg, Msg, Empty
<1>3. DownMsg(PeerInfoMsg)
  BY <1>2 DEF DownMsg
<1>4. Sequence(down') /\ Len(down') = 1 /\ down'[1] = PeerInfoMsg
  <2>1. down' \in Seq({PeerInfoMsg}) /\ Len(down') = 1 /\ down'[1] = PeerInfoMsg
    BY <1>1
  <2> QED BY <2>1, SequenceFacts
<1>5. \A i \in DOMAIN down' : DownMsg(down'[i])
  <2>1. DOMAIN down' = 1 .. 1
    BY <1>4, SequenceFacts
  <2> QED BY <1>3, <1>4, <2>1
<1>6. local' = [p \in LocalPath |-> local'[p]] /\ \A p \in UserPath : local'[p] \in Value
  BY <1>1, PathFacts DEF Value
<1>7. mine' \in [UserPath -> Value \cup {Unknown}]
  BY <1>1
<1> QED BY <1>1, <1>4, <1>5, <1>6, <1>7 DEF ClientShape

LEMMA GoneClientShape ==
  ASSUME ClientShape, ClientGone
  PROVE  ClientShape'
<1>1. /\ connected' = FALSE /\ peerName' = FALSE /\ local' = [p \in LocalPath |-> NoVal]
      /\ subscriptionCallback' = NoCb /\ xaction' = NoXaction /\ down' = <<>>
      /\ asked' = {} /\ cmds' = <<>> /\ mine' = mine
  BY DEF ClientGone
<1>2. Sequence(down') /\ DOMAIN down' = {}
  <2>1. <<>> \in Seq({}) /\ DOMAIN <<>> = {}
    OBVIOUS
  <2>2. Sequence(<<>>)
    BY <2>1, SequenceFacts
  <2> QED BY <1>1, <2>1, <2>2
<1>3. local' = [p \in LocalPath |-> local'[p]] /\ \A p \in LocalPath : local'[p] = NoVal
  BY <1>1
<1>4. \A p \in UserPath : local'[p] \in Value
  BY <1>3, PathFacts DEF Value
<1>5. cmds' \in Seq(Request) /\ mine' \in [UserPath -> Value \cup {Unknown}]
  BY <1>1 DEF ClientShape
<1>6. xaction' \in [on : BOOLEAN, upd : UserUpdate] /\ ~xaction'.on
  BY <1>1, XactionType
<1> QED BY <1>1, <1>2, <1>3, <1>4, <1>5, <1>6 DEF ClientShape

LEMMA ReceiveShape ==
  ASSUME ClientShape, Receive
  PROVE  ClientShape'
<1> DEFINE m == Head(down)
<1>1. /\ connected /\ connected' = connected /\ down # <<>> /\ down' = Tail(down)
      /\ DownMsg(m) /\ DOMAIN local = LocalPath
      /\ local' = [p \in LocalPath |-> IF p \in DOMAIN m.upd THEN m.upd[p] ELSE local[p]]
      /\ asked' \subseteq asked /\ peerName' \in BOOLEAN
      /\ UNCHANGED <<subscriptionCallback, xaction, cmds, mine>>
  BY ReceiveEffect
<1>2. Sequence(down) /\ \A i \in DOMAIN down : DownMsg(down[i])
  BY DEF ClientShape
<1>3. /\ Sequence(down') /\ Len(down') = Len(down) - 1
      /\ \A i \in 1 .. Len(down) - 1 : down'[i] = down[i + 1]
  BY <1>1, <1>2, SequenceTail
<1>4. Len(down) \in Nat /\ DOMAIN down = 1 .. Len(down) /\ DOMAIN down' = 1 .. Len(down')
  BY <1>2, <1>3, SequenceFacts
<1>5. \A i \in DOMAIN down' : DownMsg(down'[i])
  <2>1. \A i \in 1 .. Len(down) - 1 : i + 1 \in DOMAIN down
    BY <1>4
  <2> QED BY <1>2, <1>3, <1>4, <2>1
<1> HIDE DEF m
<1>6. local' = [p \in LocalPath |-> local'[p]]
  BY <1>1
<1>7. ASSUME NEW p \in UserPath PROVE local'[p] \in Value
  <2>1. local'[p] = IF p \in DOMAIN m.upd THEN m.upd[p] ELSE local[p]
    BY <1>1, PathFacts
  <2>2. p \in DOMAIN m.upd => m.upd[p] \in Value
    BY <1>1 DEF DownMsg
  <2>3. local[p] \in Value
    BY DEF ClientShape
  <2> QED BY <2>1, <2>2, <2>3
<1> QED BY <1>1, <1>3, <1>5, <1>6, <1>7 DEF ClientShape

LEMMA ChangedClientShape ==
  ASSUME Shape, NEW u, NEW ms, Changed(u, ms), client' = client, cmds' = cmds, asked' = asked,
         mine' \in [UserPath -> Value \cup {Unknown}]
  PROVE  ClientShape'
<1> DEFINE P == {p \in DOMAIN u : u[p] # tree[p] /\ Covered(p, cbPaths)}
<1>1. /\ DOMAIN u \subseteq UserPath \cup {Cmd, Rsp} /\ \A p \in DOMAIN u : p \in UserPath => u[p] \in Value
      /\ Tells(ms, P, u) /\ Tell(ms)
  BY DEF Changed
<1>2. P \subseteq Path /\ \A p \in P : p \in UserPath => u[p] \in Value
  BY <1>1, PathFacts
<1> HIDE DEF P
<1>3. Sequence(ms) /\ \A i \in 1 .. Len(ms) : DownMsg(ms[i]) /\ ms[i].kind # "noti"
  BY <1>1, <1>2, TellsDown
<1> QED BY <1>1, <1>3, TellShape DEF Shape

LEMMA ServerShapeStep == Shape /\ [Next]_vars => ServerShape'
<1> SUFFICES ASSUME Shape, [Next]_vars PROVE ServerShape'
  OBVIOUS
<1> USE DEF Shape
<1>0. \A m : Sends(m) => ServerShape'
  BY SendsShape
<1>q. ASSUME UNCHANGED <<up, tree, node, serving, cbPaths>> PROVE ServerShape'
  BY <1>q DEF ServerShape
<1>1. CASE HandleChange
  <2>1. PICK w, ms : Changed(w, ms) /\ serving /\ serving' = serving /\ cbPaths' = cbPaths
                     /\ up # <<>> /\ up' = Tail(up)
    BY <1>1, HandleChangeEffect
  <2>2. up' \in Seq(UpMsg)
    BY <2>1, UpTail
  <2> QED BY <2>1, <2>2, ChangedShape
<1>2. CASE HandleSubscribe
  BY <1>2, SubscribeShape
<1>3. CASE Close
  BY <1>3, CloseShape
<1>4. ASSUME NEW p \in UserPath, NEW v \in Value, OtherChange(p, v) PROVE ServerShape'
  <2>1. PICK w, ms : Changed(w, ms) /\ DOMAIN w = {p}
    BY <1>4, OtherChangeEffect
  <2>2. up' = up /\ serving' = serving /\ cbPaths' = cbPaths
    BY <1>4 DEF OtherChange
  <2>3. up' \in Seq(UpMsg) /\ (~serving => up' = <<>>)
    BY <2>2 DEF ServerShape
  <2>4. Cmd \notin DOMAIN w /\ Rsp \notin DOMAIN w
    BY <2>1, PathFacts
  <2> QED BY <2>1, <2>2, <2>3, <2>4, ChangedShape
<1>5. ASSUME NEW p \in UserPath, NEW v \in Value, Write(p, v) PROVE ServerShape'
  BY <1>0, <1>5, WriteSends
<1>6. ASSUME NEW p \in UserPath, NEW v \in Value, WriteLater(p, v) PROVE ServerShape'
  BY <1>6, <1>q DEF WriteLater, server
<1>7. CASE Connect
  BY <1>7, ConnectShape
<1>8. CASE Disconnect \/ Lost
  BY <1>8, <1>q DEF Disconnect, Lost, ClientGone, server
<1>9. CASE Receive
  BY <1>9, <1>q DEF Receive, server
<1>10. ASSUME NEW C \in SubList, NEW k \in Callback \cup {NoCb}, Subscribe(C, k) PROVE ServerShape'
  BY <1>0, <1>10, SubscribeSends
<1>11. CASE BeginTransaction \/ AbortTransaction
  BY <1>11, <1>q DEF BeginTransaction, AbortTransaction, Ended, server
<1>12. CASE EndTransaction
  <2>1. Silent \/ Sends(ChangeMsg(xaction.upd))
    BY <1>12, EndTransactionSends DEF ClientShape
  <2>2. Silent => ServerShape'
    BY <1>q DEF Silent, server
  <2> QED BY <1>0, <2>1, <2>2
<1>13. ASSUME NEW r \in Request, Command(r) PROVE ServerShape'
  BY <1>0, <1>13, CommandSends
<1>14. CASE UNCHANGED vars
  BY <1>14, <1>q DEF vars, server
<1> QED BY <1>1, <1>2, <1>3, <1>4, <1>5, <1>6, <1>7, <1>8, <1>9, <1>10, <1>11, <1>12, <1>13, <1>14
        DEF Next, Value

LEMMA ClientShapeStep == Shape /\ [Next]_vars => ClientShape'
<1> SUFFICES ASSUME Shape, [Next]_vars PROVE ClientShape'
  OBVIOUS
<1> USE DEF Shape
<1>0. /\ subscriptionCallback \in Callback \cup {NoCb} /\ xaction \in [on : BOOLEAN, upd : UserUpdate]
      /\ ~connected => ~xaction.on /\ asked = {}
      /\ mine \in [UserPath -> Value \cup {Unknown}] /\ cmds \in Seq(Request)
      /\ \A a \in asked : a.paths \in SubList \cup {{}} /\ (a.to = NoCb => a.id \in DOMAIN cmds)
  BY DEF ClientShape
<1>1. CASE HandleChange
  <2>1. PICK w, ms : Changed(w, ms) /\ UNCHANGED <<client, history>>
    BY <1>1, HandleChangeEffect
  <2>2. client' = client /\ cmds' = cmds /\ asked' = asked /\ mine' = mine
    BY <2>1 DEF history
  <2> QED BY <1>0, <2>1, <2>2, ChangedClientShape
<1>2. CASE HandleSubscribe
  <2>1. PICK ms : Synchronises(ms, Head(up).paths) /\ Tell(ms)
    BY <1>2, SubscribeEffect
  <2>2. Sequence(ms) /\ \A i \in 1 .. Len(ms) : DownMsg(ms[i])
    BY <2>1, SynchronisesDown
  <2>3. client' = client /\ cmds' = cmds /\ asked' = asked /\ mine' = mine
    BY <1>2, SubscribeShape DEF history
  <2> QED BY <1>0, <2>1, <2>2, <2>3, TellShape
<1>3. CASE Close
  <2>1. UNCHANGED <<down, client, history>>
    BY <1>3 DEF Close
  <2> QED BY <1>0, <2>1, QuietShape DEF client, history
<1>4. ASSUME NEW p \in UserPath, NEW v \in Value, OtherChange(p, v) PROVE ClientShape'
  <2>1. PICK w, ms : Changed(w, ms)
    BY <1>4, OtherChangeEffect
  <2>2. client' = client /\ cmds' = cmds /\ asked' = asked
    BY <1>4 DEF OtherChange
  <2>3. mine' \in [UserPath -> Value \cup {Unknown}]
    BY <1>0, <1>4 DEF OtherChange
  <2> QED BY <2>1, <2>2, <2>3, ChangedClientShape
<1>5. ASSUME NEW p \in UserPath, NEW v \in Value, Write(p, v) PROVE ClientShape'
  <2>1. Sends(ChangeMsg(One(p, v))) /\ mine' = [mine EXCEPT ![p] = v]
        /\ UNCHANGED <<subscriptionCallback, xaction, lastSub, asked, cmds>>
    BY <1>5, WriteSends
  <2>2. mine' \in [UserPath -> Value \cup {Unknown}]
    BY <1>0, <2>1
  <2> QED BY <1>0, <2>1, <2>2, QuietShape DEF Sends
<1>6. ASSUME NEW p \in UserPath, NEW v \in Value, WriteLater(p, v) PROVE ClientShape'
  <2>1. /\ connected /\ xaction' = [xaction EXCEPT !.upd = With(xaction.upd, p, v)]
        /\ UNCHANGED <<down, connected, peerName, local, subscriptionCallback, asked, cmds, mine>>
    BY <1>6 DEF WriteLater, Acts
  <2>2. xaction' \in [on : BOOLEAN, upd : UserUpdate]
    BY <1>0, <2>1, XactionType
  <2> QED BY <1>0, <2>1, <2>2, QuietShape
<1>7. CASE Connect
  BY <1>7, ConnectClientShape
<1>8. CASE Disconnect \/ Lost
  BY <1>8, GoneClientShape DEF Disconnect, Lost
<1>9. CASE Receive
  BY <1>9, ReceiveShape
<1>10. ASSUME NEW C \in SubList, NEW k \in Callback \cup {NoCb}, Subscribe(C, k) PROVE ClientShape'
  <2>1. /\ Sends(SubscribeMsg(C)) /\ connected /\ UNCHANGED <<xaction, cmds, mine>>
        /\ IF k = NoCb THEN UNCHANGED <<subscriptionCallback, asked>>
           ELSE subscriptionCallback' = k /\ asked' = asked \cup {Open(C, k)}
    BY <1>10, SubscribeSends
  <2>2. \A a \in asked' : a.paths \in SubList \cup {{}} /\ (a.to = NoCb => a.id \in DOMAIN cmds')
    BY <1>0, <2>1 DEF Open
  <2>3. subscriptionCallback' \in Callback \cup {NoCb}
    BY <1>0, <2>1
  <2> QED BY <1>0, <2>1, <2>2, <2>3, QuietShape DEF Sends
<1>11. CASE BeginTransaction
  <2>1. /\ connected /\ xaction' = [NoXaction EXCEPT !.on = TRUE]
        /\ UNCHANGED <<down, connected, peerName, local, subscriptionCallback, asked, cmds, mine>>
    BY <1>11 DEF BeginTransaction, Acts
  <2>2. xaction' \in [on : BOOLEAN, upd : UserUpdate]
    BY <2>1, XactionType
  <2> QED BY <1>0, <2>1, <2>2, QuietShape
<1>12. ASSUME NEW u \in UserUpdate, Ended(u), connected PROVE ClientShape'
  <2>1. /\ xaction' = NoXaction /\ mine' = Apply(u, mine)
        /\ UNCHANGED <<down, connected, peerName, local, subscriptionCallback, asked, cmds>>
    BY <1>12 DEF Ended
  <2>2. xaction' \in [on : BOOLEAN, upd : UserUpdate] /\ mine' \in [UserPath -> Value \cup {Unknown}]
    BY <2>1, XactionType, ApplyType
  <2> QED BY <1>0, <1>12, <2>1, <2>2, QuietShape
<1>13. CASE EndTransaction
  BY <1>0, <1>12, <1>13 DEF EndTransaction
<1>14. CASE AbortTransaction
  BY <1>12, <1>14, OneUpdate DEF AbortTransaction
<1>15. ASSUME NEW r \in Request, Command(r) PROVE ClientShape'
  <2>1. PICK c \in Commands :
           /\ Sends(ChangeMsg(One(Cmd, c))) /\ c.id \in DOMAIN cmds'
           /\ cmds' = Append(cmds, r) /\ asked' = asked \cup {OpenCmd(c.id)} /\ connected
           /\ UNCHANGED <<subscriptionCallback, xaction, lastSub, mine>>
    BY <1>15, CommandSends
  <2>2. cmds' \in Seq(Request) /\ DOMAIN cmds \subseteq DOMAIN cmds'
    BY <1>0, <2>1
  <2>3. \A a \in asked' : a.paths \in SubList \cup {{}} /\ (a.to = NoCb => a.id \in DOMAIN cmds')
    BY <1>0, <2>1, <2>2 DEF OpenCmd
  <2> QED BY <1>0, <2>1, <2>2, <2>3, QuietShape DEF Sends
<1>16. CASE UNCHANGED vars
  BY <1>0, <1>16, QuietShape DEF vars, client, history
<1> QED BY <1>1, <1>2, <1>3, <1>4, <1>5, <1>6, <1>7, <1>8, <1>9, <1>10, <1>11, <1>13, <1>14, <1>15, <1>16
        DEF Next, Value

-----------------------------------------------------------------------------
(* The theorems                                                            *)

LEMMA ShapeInit == Init => Shape
<1> SUFFICES ASSUME Init PROVE Shape
  OBVIOUS
<1>1. /\ up = <<>> /\ down = <<>> /\ tree = [p \in Path |-> NoVal] /\ serving = FALSE /\ cbPaths = {}
      /\ connected = FALSE /\ peerName = FALSE /\ local = [p \in LocalPath |-> NoVal]
      /\ subscriptionCallback = NoCb /\ xaction = NoXaction /\ asked = {} /\ cmds = <<>>
      /\ mine = [p \in UserPath |-> Unknown]
  BY DEF Init
<1>2. \A p \in Path : tree[p] = NoVal
  BY <1>1
<1>3. tree = [p \in Path |-> tree[p]]
  BY <1>1
<1>4. \A p \in UserPath : tree[p] \in Value
  BY <1>2, PathFacts DEF Value
<1>5. tree[SID] = NoVal /\ tree[Cmd] = NoVal /\ tree[Rsp] = NoVal
  BY <1>2, PathFacts
<1>6. up \in Seq(UpMsg)
  BY <1>1
<1>7. serving \in BOOLEAN /\ ~serving /\ cbPaths \subseteq UNION SubList
  BY <1>1
<1>8. ServerShape
  BY <1>1, <1>2, <1>3, <1>4, <1>5, <1>6, <1>7 DEF ServerShape
<1>9. local = [p \in LocalPath |-> local[p]] /\ \A p \in LocalPath : local[p] = NoVal
  BY <1>1
<1>10. \A p \in UserPath : local[p] \in Value
  BY <1>9, PathFacts DEF Value
<1>11. Sequence(down) /\ DOMAIN down = {}
  <2>1. <<>> \in Seq({}) /\ DOMAIN <<>> = {}
    OBVIOUS
  <2>2. Sequence(<<>>)
    BY <2>1, SequenceFacts
  <2> QED BY <1>1, <2>1, <2>2
<1>12. cmds \in Seq(Request)
  BY <1>1
<1>13. mine \in [UserPath -> Value \cup {Unknown}]
  BY <1>1
<1>14. xaction \in [on : BOOLEAN, upd : UserUpdate] /\ ~xaction.on
  BY <1>1, XactionType
<1>15. ClientShape
  BY <1>1, <1>9, <1>10, <1>11, <1>12, <1>13, <1>14 DEF ClientShape
<1> QED BY <1>8, <1>15 DEF Shape

LEMMA ShapeStep == Shape /\ [Next]_vars => Shape'
BY ServerShapeStep, ClientShapeStep DEF Shape

LEMMA ShapeType == Shape => TypeOK
<1> SUFFICES ASSUME Shape PROVE TypeOK
  OBVIOUS
<1> USE DEF Shape
<1>1. /\ serving \in BOOLEAN /\ connected \in BOOLEAN /\ peerName \in BOOLEAN
      /\ tree[SID] = IF serving THEN Online ELSE NoVal
      /\ ~serving => up = <<>> /\ cbPaths = {} /\ tree[Cmd] = NoVal /\ tree[Rsp] = NoVal
      /\ ~connected => down = <<>> /\ asked = {} /\ ~xaction.on
      /\ cbPaths \subseteq UNION SubList /\ subscriptionCallback \in Callback \cup {NoCb}
      /\ \A a \in asked : a.paths \in SubList \cup {{}} /\ (a.to = NoCb => a.id \in DOMAIN cmds)
  BY DEF ServerShape, ClientShape
<1>2. ASSUME NEW p \in UserPath
      PROVE  {tree[p], local[p]} \subseteq Val \cup {NoVal} /\ mine[p] \in Val \cup {NoVal, Unknown}
  <2>1. tree[p] \in Value /\ local[p] \in Value /\ mine[p] \in Value \cup {Unknown}
    BY DEF ServerShape, ClientShape
  <2> QED BY <2>1 DEF Value
<1>3. ASSUME NEW p \in Path, tree[p] # NoVal PROVE p \in node
  <2>1. Above(p) \subseteq node
    BY <1>3 DEF ServerShape
  <2> QED BY <2>1, PathSequence, AboveSelf
<1>4. DOMAIN xaction.upd \subseteq UserPath
  <2>1. xaction.upd \in UserUpdate
    BY DEF ClientShape
  <2>2. PICK D \in SUBSET UserPath : xaction.upd \in [D -> Value]
    BY <2>1 DEF UserUpdate
  <2> QED BY <2>2
<1> QED BY <1>1, <1>2, <1>3, <1>4 DEF TypeOK

(* Types; what the server keeps for a connection is there only while the        *)
(* connection is (ObexServer.cpp:38-56), and so is what the client waits for.   *)
THEOREM SessionTypeCorrect == Spec => []TypeOK
<1>1. Init => Shape
  BY ShapeInit
<1>2. Shape /\ [Next]_vars => Shape'
  BY ShapeStep
<1>3. Shape => TypeOK
  BY ShapeType
<1> QED BY <1>1, <1>2, <1>3, PTL DEF Spec

-----------------------------------------------------------------------------
(* Answers are this connection's                                           *)

LEMMA TellEach ==
  ASSUME Sequence(down), NEW ms, Sequence(ms), Tell(ms)
  PROVE  \A i \in DOMAIN down' : \/ \E j \in DOMAIN down : down'[i] = down[j]
                                 \/ connected /\ \E j \in 1 .. Len(ms) : down'[i] = ms[j]
<1> SUFFICES ASSUME NEW i \in DOMAIN down'
             PROVE  \/ \E j \in DOMAIN down : down'[i] = down[j]
                    \/ connected /\ \E j \in 1 .. Len(ms) : down'[i] = ms[j]
  OBVIOUS
<1>1. /\ Len(down) \in Nat /\ DOMAIN down = 1 .. Len(down)
      /\ Len(down') \in Nat /\ DOMAIN down' = 1 .. Len(down') /\ (~connected => down' = down)
  BY TellDown, SequenceFacts
<1>2. i \in 1 .. Len(down) \/ i \in Len(down) + 1 .. Len(down')
  BY <1>1
<1>3. CASE connected /\ i \in 1 .. Len(down)
  BY <1>1, <1>3, TellDown
<1>4. CASE connected /\ i \in Len(down) + 1 .. Len(down')
  BY <1>1, <1>4, TellDown
<1>5. CASE ~connected
  BY <1>1, <1>5
<1> QED BY <1>2, <1>3, <1>4, <1>5

LEMMA TailEach ==
  ASSUME NEW s, Sequence(s), s # <<>>
  PROVE  /\ 1 \in DOMAIN s /\ Head(s) = s[1]
         /\ \A i \in DOMAIN Tail(s) : i + 1 \in DOMAIN s /\ Tail(s)[i] = s[i + 1]
<1>1. /\ Sequence(Tail(s)) /\ Len(s) >= 1 /\ Len(Tail(s)) = Len(s) - 1 /\ Head(s) = s[1]
      /\ \A i \in 1 .. Len(s) - 1 : Tail(s)[i] = s[i + 1]
  BY SequenceTail
<1>2. /\ Len(s) \in Nat /\ DOMAIN s = 1 .. Len(s) /\ DOMAIN Tail(s) = 1 .. Len(s) - 1
  BY <1>1, SequenceFacts
<1>3. \A i \in 1 .. Len(s) - 1 : i + 1 \in 1 .. Len(s)
  BY <1>2
<1> QED BY <1>1, <1>2, <1>3

LEMMA SendEach ==
  ASSUME ServerShape, NEW m, Sends(m)
  PROVE  \A i \in DOMAIN up' : \/ i \in DOMAIN up /\ up'[i] = up[i]
                               \/ serving /\ i = Len(up) + 1 /\ up'[i] = m
<1>1. m \in UpMsg /\ Send(m)
  BY DEF Sends
<1>2. /\ up' \in Seq(UpMsg)
      /\ ~serving => up' = up
      /\ serving => /\ Len(up') = Len(up) + 1 /\ up'[Len(up) + 1] = m
                    /\ \A i \in 1 .. Len(up) : up'[i] = up[i]
  BY <1>1, SendUp
<1>3. up \in Seq(UpMsg)
  BY DEF ServerShape
<1>4. Len(up) \in Nat /\ DOMAIN up = 1 .. Len(up) /\ DOMAIN up' = 1 .. Len(up')
  BY <1>2, <1>3
<1>5. \A i \in 1 .. Len(up) + 1 : i \in 1 .. Len(up) \/ i = Len(up) + 1
  BY <1>4
<1> QED BY <1>2, <1>4, <1>5

\* What the server sends and receives, in the terms of Own.
LEMMA OwnTold ==
  ASSUME Shape, Own, NEW ms, Sequence(ms), Tell(ms),
         connected' = connected, serving' = serving, local' = local, cmds' = cmds,
         \A i \in DOMAIN up' : \E j \in DOMAIN up : up'[i] = up[j],
         connected /\ serving =>
           /\ OwnAnswer(tree'[Rsp])
           /\ \A i \in 1 .. Len(ms) : Rsp \in DOMAIN ms[i].upd => OwnAnswer(ms[i].upd[Rsp]),
         ~serving => ms = <<>> \/ \A i \in 1 .. Len(ms) : Rsp \notin DOMAIN ms[i].upd
  PROVE  Own'
<1> SUFFICES ASSUME connected
             PROVE  /\ OwnAnswer(local[Rsp])
                    /\ \A i \in DOMAIN down' : Rsp \in DOMAIN down'[i].upd => OwnAnswer(down'[i].upd[Rsp])
                    /\ serving => /\ OwnAnswer(tree'[Rsp])
                                  /\ \A i \in DOMAIN up' : Cmd \in DOMAIN up'[i].upd =>
                                       up'[i].upd[Cmd].id \in DOMAIN cmds
  BY DEF Own, OwnAnswer
<1>1. Sequence(down)
  BY DEF Shape, ClientShape
<1>2. \A j \in 1 .. Len(ms) : Rsp \in DOMAIN ms[j].upd => OwnAnswer(ms[j].upd[Rsp])
  <2>1. serving \in BOOLEAN
    BY DEF Shape, ServerShape
  <2>2. CASE serving
    BY <2>2
  <2>3. CASE ~serving
    <3>1. ms = <<>> => ~\E j : j \in 1 .. Len(ms)
      OBVIOUS
    <3> QED BY <2>3, <3>1
  <2> QED BY <2>1, <2>2, <2>3
<1>3. \A i \in DOMAIN down' : Rsp \in DOMAIN down'[i].upd => OwnAnswer(down'[i].upd[Rsp])
  BY <1>1, <1>2, TellEach DEF Own
<1> QED BY <1>3 DEF Own

LEMMA OwnSent ==
  ASSUME Shape, Own, NEW m, Sends(m), DOMAIN cmds \subseteq DOMAIN cmds',
         Cmd \in DOMAIN m.upd => m.upd[Cmd].id \in DOMAIN cmds'
  PROVE  Own'
<1>1. UNCHANGED <<down, tree, serving, connected, local>>
  BY DEF Sends, server
<1>2. \A i \in DOMAIN up' : (i \in DOMAIN up /\ up'[i] = up[i]) \/ up'[i] = m
  BY SendEach DEF Shape
<1> QED BY <1>1, <1>2 DEF Own, OwnAnswer

LEMMA OwnStep == Shape /\ Own /\ [Next]_vars => Own'
<1> SUFFICES ASSUME Shape, Own, [Next]_vars PROVE Own'
  OBVIOUS
<1> USE DEF Shape
<1>u. Sequence(up) /\ Sequence(down)
  BY SequenceFacts DEF ServerShape, ClientShape
<1>q. ASSUME UNCHANGED <<up, down, tree, serving, connected, local, cmds>> PROVE Own'
  BY <1>q DEF Own, OwnAnswer
<1>1. CASE HandleChange
  <2> DEFINE u == Head(up).upd
  <2>1. PICK w, ms : /\ Changed(w, ms) /\ Answered(u, w) /\ u \in UserUpdate \cup CmdUpdate
                     /\ serving /\ serving' = serving /\ up # <<>> /\ up' = Tail(up)
                     /\ UNCHANGED <<client, history>>
    BY <1>1, HandleChangeEffect
  <2>2. \A i \in DOMAIN up' : \E j \in DOMAIN up : up'[i] = up[j]
    BY <1>u, <2>1, TailEach
  <2>3. connected => (Cmd \in DOMAIN u => u[Cmd].id \in DOMAIN cmds)
    BY <1>u, <2>1, TailEach DEF Own
  <2>4. Rsp \notin DOMAIN u
    BY <2>1, UpdateFacts, PathFacts
  <2> HIDE DEF u
  <2>5. connected /\ Rsp \in DOMAIN w => OwnAnswer(w[Rsp])
    <3>1. SUFFICES ASSUME connected, Rsp \in DOMAIN w PROVE OwnAnswer(w[Rsp])
      OBVIOUS
    <3>2. DOMAIN u = {Cmd} /\ w[Rsp] = Answer(u[Cmd])
      BY <2>1, <2>4, <3>1 DEF Answered
    <3>3. w[Rsp].id = u[Cmd].id
      BY <3>2 DEF Answer
    <3> QED BY <2>3, <3>1, <3>2, <3>3 DEF OwnAnswer
  <2>6. /\ Tells(ms, {p \in DOMAIN w : w[p] # tree[p] /\ Covered(p, cbPaths)}, w) /\ Tell(ms)
        /\ tree' = [p \in Path |-> IF p \in DOMAIN w THEN w[p] ELSE tree[p]]
    BY <2>1 DEF Changed
  <2>7. \A i \in 1 .. Len(ms) : Rsp \in DOMAIN ms[i].upd => Rsp \in DOMAIN w /\ ms[i].upd[Rsp] = w[Rsp]
    BY <2>6 DEF Tells
  <2>8. connected /\ serving => OwnAnswer(tree'[Rsp])
    <3>1. tree'[Rsp] = IF Rsp \in DOMAIN w THEN w[Rsp] ELSE tree[Rsp]
      BY <2>6, PathFacts
    <3> QED BY <2>5, <3>1 DEF Own
  <2>9. Sequence(ms)
    BY <2>6 DEF Tells
  <2> QED BY <2>1, <2>2, <2>5, <2>6, <2>7, <2>8, <2>9, OwnTold DEF client, history
<1>2. CASE HandleSubscribe
  <2> DEFINE C == Head(up).paths
  <2>1. PICK ms : Synchronises(ms, C) /\ Tell(ms)
    BY <1>2, SubscribeEffect
  <2>2. /\ serving /\ serving' = serving /\ tree' = tree /\ up # <<>> /\ up' = Tail(up)
        /\ UNCHANGED <<client, history>>
    BY <1>2, SubscribeShape
  <2>3. \A i \in DOMAIN up' : \E j \in DOMAIN up : up'[i] = up[j]
    BY <1>u, <2>2, TailEach
  <2> HIDE DEF C
  <2>4. /\ Sequence(ms) /\ Len(ms) \in Nat /\ Len(ms) >= 1 /\ ms[Len(ms)] = NotiMsg(C)
        /\ \A i \in 1 .. Len(ms) - 1 : \A p \in DOMAIN ms[i].upd : ms[i].upd[p] = tree[p]
    BY <2>1, SynchronisesDown
  <2>5. Rsp \notin DOMAIN NotiMsg(C).upd
    <3>1. DOMAIN NotiMsg(C).upd = {LocalSubscription}
      BY NotiMsgFacts, OneUpdate
    <3> QED BY <3>1, PathFacts
  <2>6. ASSUME NEW i \in 1 .. Len(ms), Rsp \in DOMAIN ms[i].upd PROVE ms[i].upd[Rsp] = tree[Rsp]
    <3>1. i # Len(ms)
      BY <2>4, <2>5, <2>6
    <3>2. i \in 1 .. Len(ms) - 1
      BY <2>4, <3>1
    <3> QED BY <2>4, <2>6, <3>2
  <2> QED BY <2>1, <2>2, <2>3, <2>4, <2>6, OwnTold DEF client, history, Own
<1>3. CASE Close
  BY <1>3 DEF Close, client, history, Own, OwnAnswer
<1>4. ASSUME NEW p \in UserPath, NEW v \in Value, OtherChange(p, v) PROVE Own'
  <2>1. PICK w, ms : Changed(w, ms) /\ DOMAIN w = {p}
    BY <1>4, OtherChangeEffect
  <2>2. UNCHANGED <<up, serving, client, cmds>>
    BY <1>4 DEF OtherChange
  <2>3. Rsp \notin DOMAIN w
    BY <2>1, PathFacts
  <2>4. /\ Tells(ms, {q \in DOMAIN w : w[q] # tree[q] /\ Covered(q, cbPaths)}, w) /\ Tell(ms)
        /\ tree' = [q \in Path |-> IF q \in DOMAIN w THEN w[q] ELSE tree[q]]
    BY <2>1 DEF Changed
  <2>5. Sequence(ms) /\ \A i \in 1 .. Len(ms) : Rsp \notin DOMAIN ms[i].upd
    BY <2>3, <2>4 DEF Tells
  <2>6. tree'[Rsp] = tree[Rsp]
    BY <2>3, <2>4, PathFacts
  <2> QED BY <2>2, <2>4, <2>5, <2>6, OwnTold DEF client, Own
<1>5. ASSUME NEW p \in UserPath, NEW v \in Value, Write(p, v) PROVE Own'
  <2>1. Cmd \notin DOMAIN ChangeMsg(One(p, v)).upd
    <3>1. ChangeMsg(One(p, v)).upd = One(p, v) /\ DOMAIN One(p, v) = {p}
      BY ChangeMsgFacts, OneUpdate, Zenon
    <3> QED BY <3>1, PathFacts
  <2> QED BY <1>5, <2>1, WriteSends, OwnSent
<1>6. ASSUME NEW p \in UserPath, NEW v \in Value, WriteLater(p, v) PROVE Own'
  BY <1>6, <1>q DEF WriteLater, server
<1>7. CASE Connect
  <2>1. /\ ~serving /\ up' = <<>> /\ down' = <<PeerInfoMsg>> /\ local' = [p \in LocalPath |-> NoVal]
        /\ tree' = [tree EXCEPT ![SID] = Online] /\ cmds' = cmds
    BY <1>7 DEF Connect
  <2>2. tree'[Rsp] = NoVal /\ local'[Rsp] = NoVal
    BY <2>1, PathFacts DEF ServerShape
  <2>3. \A i \in DOMAIN down' : DOMAIN down'[i].upd = {}
    <3>1. \A i \in DOMAIN down' : down'[i] = PeerInfoMsg
      BY <2>1
    <3> QED BY <3>1 DEF PeerInfoMsg, Msg, Empty
  <2>4. DOMAIN up' = {}
    BY <2>1
  <2> QED BY <2>2, <2>3, <2>4 DEF Own, OwnAnswer
<1>8. CASE Disconnect \/ Lost
  BY <1>8 DEF Disconnect, Lost, ClientGone, Own
<1>9. CASE Receive
  <2> DEFINE m == Head(down)
  <2>1. /\ connected /\ connected' = connected /\ down # <<>> /\ down' = Tail(down)
        /\ local' = [p \in LocalPath |-> IF p \in DOMAIN m.upd THEN m.upd[p] ELSE local[p]]
        /\ UNCHANGED <<up, server, cmds>>
    BY <1>9, ReceiveEffect
  <2>2. /\ 1 \in DOMAIN down /\ m = down[1]
        /\ \A i \in DOMAIN down' : i + 1 \in DOMAIN down /\ down'[i] = down[i + 1]
    BY <1>u, <2>1, TailEach
  <2> HIDE DEF m
  <2>3. local'[Rsp] = IF Rsp \in DOMAIN m.upd THEN m.upd[Rsp] ELSE local[Rsp]
    BY <2>1, PathFacts
  <2>4. OwnAnswer(local'[Rsp])
    BY <2>1, <2>2, <2>3 DEF Own
  <2>5. \A i \in DOMAIN down' : Rsp \in DOMAIN down'[i].upd => OwnAnswer(down'[i].upd[Rsp])
    BY <2>1, <2>2 DEF Own
  <2> QED BY <2>1, <2>4, <2>5 DEF Own, OwnAnswer, server
<1>10. ASSUME NEW C \in SubList, NEW k \in Callback \cup {NoCb}, Subscribe(C, k) PROVE Own'
  <2>1. Cmd \notin DOMAIN SubscribeMsg(C).upd
    BY OneUpdate, UpMsgFacts
  <2> QED BY <1>10, <2>1, SubscribeSends, OwnSent
<1>11. CASE BeginTransaction \/ AbortTransaction
  BY <1>11, <1>q DEF BeginTransaction, AbortTransaction, Ended, server
<1>12. CASE EndTransaction
  <2> DEFINE m == ChangeMsg(xaction.upd)
  <2>1. (Silent \/ Sends(m)) /\ cmds' = cmds
    BY <1>12, EndTransactionSends DEF ClientShape
  <2>2. Cmd \notin DOMAIN m.upd
    <3>1. xaction.upd \in UserUpdate
      BY DEF ClientShape
    <3>2. DOMAIN xaction.upd \subseteq UserPath /\ m.upd = xaction.upd
      BY <3>1, UpMsgFacts DEF UserUpdate
    <3> QED BY <3>2, PathFacts
  <2> HIDE DEF m
  <2>3. Silent => Own'
    BY <1>q, <2>1 DEF Silent, server
  <2> QED BY <2>1, <2>2, <2>3, OwnSent
<1>13. ASSUME NEW r \in Request, Command(r) PROVE Own'
  <2>1. PICK c \in Commands : /\ Sends(ChangeMsg(One(Cmd, c))) /\ c.id \in DOMAIN cmds'
                              /\ cmds' = Append(cmds, r)
    BY <1>13, CommandSends
  <2>2. ChangeMsg(One(Cmd, c)).upd[Cmd] = c
    BY OneUpdate, UpMsgFacts
  <2>3. DOMAIN cmds \subseteq DOMAIN cmds'
    BY <2>1 DEF ClientShape
  <2> QED BY <2>1, <2>2, <2>3, OwnSent
<1>14. CASE UNCHANGED vars
  BY <1>14, <1>q DEF vars, server, client, history
<1> QED BY <1>1, <1>2, <1>3, <1>4, <1>5, <1>6, <1>7, <1>8, <1>9, <1>10, <1>11, <1>12, <1>13, <1>14
        DEF Next, Value

(* What the client finds at rsp answers a command that it gave on this          *)
(* connection, although the objects at cmd and rsp have the names they had for  *)
(* the connection before (ObexServer.cpp:42-45): the objects that the session   *)
(* deletes when it ends are gone before there is another connection.            *)
THEOREM SessionAnswersOwnCorrect == Spec => []AnswersOwn
<1>1. Init => Shape /\ Own
  <2>1. Init => Own
    BY DEF Init, Own
  <2> QED BY <2>1, ShapeInit
<1>2. Shape /\ [Next]_vars => Shape'
  BY ShapeStep
<1>3. Shape /\ Own /\ [Next]_vars => Own'
  BY OwnStep
<1>4. Shape /\ Own => AnswersOwn
  <2> SUFFICES ASSUME Shape, Own, local[Rsp] # NoVal PROVE local[Rsp].id \in DOMAIN cmds
    BY DEF AnswersOwn
  <2>1. connected
    BY PathFacts DEF Shape, ClientShape
  <2> QED BY <2>1 DEF Own, OwnAnswer
<1> QED BY <1>1, <1>2, <1>3, <1>4, PTL DEF Spec

-----------------------------------------------------------------------------
(* The order of what the client says                                       *)

\* What was held before does not matter once something is said.
LEMMA EndsAnyway ==
  ASSUME NEW s, NEW n \in Nat, NEW b, NEW c, NEW p, NEW v, Ends(s, n, b, p, v),
         b = c \/ \E i \in 1 .. n : p \in DOMAIN s[i].upd
  PROVE  Ends(s, n, c, p, v)
<1>1. CASE \A i \in 1 .. n : p \notin DOMAIN s[i].upd
  BY <1>1 DEF Ends
<1>2. CASE \E i \in 1 .. n : p \in DOMAIN s[i].upd
  BY <1>2 DEF Ends
<1> QED BY <1>1, <1>2

LEMMA SaidSent ==
  ASSUME Shape, Said, NEW m, Sends(m),
         \A q \in UserPath : mine'[q] = IF q \in DOMAIN m.upd THEN m.upd[q] ELSE mine[q]
  PROVE  Said'
<1> SUFFICES ASSUME serving, NEW p \in UserPath
             PROVE  \/ mine'[p] = Unknown /\ \A i \in DOMAIN up' : p \notin DOMAIN up'[i].upd
                    \/ Ends(up', Len(up'), tree[p], p, mine'[p])
  BY DEF Said, Sends, server
<1>1. /\ up' \in Seq(UpMsg) /\ Len(up') = Len(up) + 1 /\ up'[Len(up) + 1] = m
      /\ \A i \in 1 .. Len(up) : up'[i] = up[i]
  BY SendUp DEF Sends, Shape
<1>2. up \in Seq(UpMsg)
  BY DEF Shape, ServerShape
<1>3. /\ Len(up) \in Nat /\ Len(up') \in Nat /\ Len(up) <= Len(up')
      /\ DOMAIN up = 1 .. Len(up) /\ DOMAIN up' = 1 .. Len(up')
      /\ \A i \in Len(up) + 1 .. Len(up') : i = Len(up) + 1
      /\ Len(up) + 1 \in Len(up) + 1 .. Len(up')
      /\ \A i \in 1 .. Len(up') : i \in 1 .. Len(up) \/ i = Len(up) + 1
  BY <1>1, <1>2
<1>4. \A i \in Len(up) + 1 .. Len(up') : up'[i] = m
  BY <1>1, <1>3
<1>5. CASE p \in DOMAIN m.upd
  <2>1. mine'[p] = m.upd[p]
    BY <1>5
  <2>2. \E i \in Len(up) + 1 .. Len(up') : p \in DOMAIN up'[i].upd
    BY <1>3, <1>4, <1>5
  <2>3. \A i \in Len(up) + 1 .. Len(up') : p \in DOMAIN up'[i].upd => up'[i].upd[p] = mine'[p]
    BY <1>4, <2>1
  <2> QED BY <1>3, <2>2, <2>3, EndsMore
<1>6. CASE p \notin DOMAIN m.upd
  <2>1. mine'[p] = mine[p]
    BY <1>6
  <2>2. CASE mine[p] = Unknown /\ \A i \in DOMAIN up : p \notin DOMAIN up[i].upd
    BY <1>1, <1>3, <1>6, <2>1, <2>2
  <2>3. CASE Ends(up, Len(up), tree[p], p, mine[p])
    <3>1. Ends(up', Len(up), tree[p], p, mine[p])
      BY <1>1, <1>3, <2>3, EndsSame
    <3>2. \A i \in Len(up) + 1 .. Len(up') : p \in DOMAIN up'[i].upd => up'[i].upd[p] = mine[p]
      BY <1>4, <1>6
    <3>3. Ends(up', Len(up'), tree[p], p, mine[p])
      BY <1>3, <3>1, <3>2, EndsMore
    <3> QED BY <2>1, <3>3
  <2> QED BY <2>2, <2>3 DEF Said
<1> QED BY <1>5, <1>6

LEMMA SaidTail ==
  ASSUME Shape, Said, serving, serving' = serving, up # <<>>, up' = Tail(up), mine' = mine,
         \A p \in UserPath : tree'[p] = IF p \in DOMAIN Head(up).upd THEN Head(up).upd[p] ELSE tree[p]
  PROVE  Said'
<1> SUFFICES ASSUME NEW p \in UserPath
             PROVE  \/ mine[p] = Unknown /\ \A i \in DOMAIN up' : p \notin DOMAIN up'[i].upd
                    \/ Ends(up', Len(up'), tree'[p], p, mine[p])
  BY DEF Said
<1>1. Sequence(up)
  BY SequenceFacts DEF Shape, ServerShape
<1>2. \A i \in DOMAIN up' : i + 1 \in DOMAIN up /\ up'[i] = up[i + 1]
  BY <1>1, TailEach
<1>3. Len(up) \in 1 .. Len(up) /\ Len(up') = Len(up) - 1
  <2>1. Len(up) \in Nat /\ Len(up) >= 1 /\ Len(up') = Len(up) - 1
    BY <1>1, SequenceTail, SequenceFacts
  <2> QED BY <2>1
<1>4. CASE mine[p] = Unknown /\ \A i \in DOMAIN up : p \notin DOMAIN up[i].upd
  BY <1>2, <1>4
<1>5. CASE Ends(up, Len(up), tree[p], p, mine[p])
  <2> DEFINE b == IF p \in DOMAIN Head(up).upd THEN Head(up).upd[p] ELSE tree[p]
             v == mine[p]
  <2>1. Ends(up, Len(up), tree[p], p, v) <=> Ends(Tail(up), Len(up) - 1, b, p, v)
    BY <1>1, <1>3, EndsTail
  <2>2. b = tree'[p]
    OBVIOUS
  <2> HIDE DEF b
  <2> QED BY <1>3, <1>5, <2>1, <2>2
<1> QED BY <1>4, <1>5 DEF Said

LEMMA SaidStep == Shape /\ Said /\ [Next]_vars => Said'
<1> SUFFICES ASSUME Shape, Said, [Next]_vars PROVE Said'
  OBVIOUS
<1> USE DEF Shape
<1>m. mine \in [UserPath -> Value \cup {Unknown}]
  BY DEF ClientShape
<1>q. ASSUME UNCHANGED <<up, tree, serving, mine>> PROVE Said'
  BY <1>q DEF Said, Ends
<1>1. CASE HandleChange
  <2> DEFINE u == Head(up).upd
  <2>1. PICK w, ms : /\ Changed(w, ms) /\ Answered(u, w)
                     /\ serving /\ serving' = serving /\ up # <<>> /\ up' = Tail(up)
                     /\ UNCHANGED <<client, history>>
    BY <1>1, HandleChangeEffect
  <2>2. tree' = [p \in Path |-> IF p \in DOMAIN w THEN w[p] ELSE tree[p]]
    BY <2>1 DEF Changed
  <2> HIDE DEF u
  <2>3. ASSUME NEW p \in UserPath PROVE tree'[p] = IF p \in DOMAIN u THEN u[p] ELSE tree[p]
    <3>1. tree'[p] = IF p \in DOMAIN w THEN w[p] ELSE tree[p]
      BY <2>2, PathFacts
    <3>2. p # Rsp
      BY PathFacts
    <3>3. (p \in DOMAIN w <=> p \in DOMAIN u) /\ (p \in DOMAIN u => w[p] = u[p])
      BY <2>1, <3>2 DEF Answered
    <3> QED BY <3>1, <3>3
  <2> QED BY <2>1, <2>3, SaidTail DEF u, history
<1>2. CASE HandleSubscribe
  <2>1. /\ serving /\ serving' = serving /\ tree' = tree /\ up # <<>> /\ up' = Tail(up)
        /\ Head(up) \in UpMsg /\ Head(up).kind = "subscribe" /\ mine' = mine
    BY <1>2, SubscribeShape DEF history
  <2>2. DOMAIN Head(up).upd = {}
    BY <2>1, UpMsgFacts
  <2> QED BY <2>1, <2>2, SaidTail
<1>3. CASE Close
  BY <1>3 DEF Close, Said
<1>4. ASSUME NEW q \in UserPath, NEW v \in Value, OtherChange(q, v) PROVE Said'
  <2>1. PICK w, ms : Changed(w, ms) /\ DOMAIN w = {q}
    BY <1>4, OtherChangeEffect
  <2>2. /\ up' = up /\ serving' = serving
        /\ mine' = [mine EXCEPT ![q] = IF \E m \in Range(up) : q \in DOMAIN m.upd THEN @ ELSE Unknown]
    BY <1>4 DEF OtherChange
  <2>3. tree' = [p \in Path |-> IF p \in DOMAIN w THEN w[p] ELSE tree[p]]
    BY <2>1 DEF Changed
  <2>4. SUFFICES ASSUME serving, NEW p \in UserPath
                 PROVE  \/ mine'[p] = Unknown /\ \A i \in DOMAIN up : p \notin DOMAIN up[i].upd
                        \/ Ends(up, Len(up), tree'[p], p, mine'[p])
    BY <2>2 DEF Said, Ends
  <2>5. \/ mine[p] = Unknown /\ \A i \in DOMAIN up : p \notin DOMAIN up[i].upd
        \/ Ends(up, Len(up), tree[p], p, mine[p])
    BY <2>4 DEF Said
  <2>6. CASE p # q
    <3>1. tree'[p] = tree[p] /\ mine'[p] = mine[p]
      BY <1>m, <2>1, <2>2, <2>3, <2>6, PathFacts
    <3> QED BY <2>5, <3>1
  <2>7. CASE p = q /\ ~\E m \in Range(up) : q \in DOMAIN m.upd
    <3>1. mine'[p] = Unknown
      BY <1>m, <2>2, <2>7
    <3>2. \A i \in DOMAIN up : p \notin DOMAIN up[i].upd
      BY <2>7 DEF Range
    <3> QED BY <3>1, <3>2
  <2>8. CASE p = q /\ \E m \in Range(up) : q \in DOMAIN m.upd
    <3>1. mine'[p] = mine[p]
      BY <1>m, <2>2, <2>8
    <3>2. \E i \in DOMAIN up : p \in DOMAIN up[i].upd
      BY <2>8 DEF Range
    <3>3. Len(up) \in Nat /\ DOMAIN up = 1 .. Len(up)
      BY SequenceFacts DEF ServerShape
    <3>4. Ends(up, Len(up), tree'[p], p, mine[p])
      BY <2>5, <3>2, <3>3, EndsAnyway
    <3> QED BY <3>1, <3>4
  <2> QED BY <2>6, <2>7, <2>8
<1>5. ASSUME NEW q \in UserPath, NEW v \in Value, Write(q, v) PROVE Said'
  <2> DEFINE m == ChangeMsg(One(q, v))
  <2>1. Sends(m) /\ mine' = [mine EXCEPT ![q] = v]
    BY <1>5, WriteSends
  <2>2. DOMAIN m.upd = {q} /\ m.upd[q] = v
    <3>1. m.upd = One(q, v) /\ DOMAIN One(q, v) = {q} /\ One(q, v)[q] = v
      BY ChangeMsgFacts, OneUpdate, Zenon
    <3> QED BY <3>1
  <2> HIDE DEF m
  <2>3. \A p \in UserPath : mine'[p] = IF p \in DOMAIN m.upd THEN m.upd[p] ELSE mine[p]
    BY <1>m, <2>1, <2>2
  <2> QED BY <2>1, <2>3, SaidSent
<1>6. ASSUME NEW p \in UserPath, NEW v \in Value, WriteLater(p, v) PROVE Said'
  BY <1>6, <1>q DEF WriteLater, server
<1>7. CASE Connect
  <2>1. up' = <<>> /\ mine' = [p \in UserPath |-> Unknown]
    BY <1>7 DEF Connect
  <2>2. DOMAIN up' = {} /\ \A p \in UserPath : mine'[p] = Unknown
    BY <2>1
  <2> QED BY <2>2 DEF Said
<1>8. CASE Disconnect \/ Lost
  BY <1>8, <1>q DEF Disconnect, Lost, ClientGone, server
<1>9. CASE Receive
  BY <1>9, <1>q DEF Receive, server
<1>10. ASSUME NEW C \in SubList, NEW k \in Callback \cup {NoCb}, Subscribe(C, k) PROVE Said'
  <2>1. Sends(SubscribeMsg(C)) /\ mine' = mine
    BY <1>10, SubscribeSends
  <2>2. DOMAIN SubscribeMsg(C).upd = {}
    BY OneUpdate, UpMsgFacts
  <2> QED BY <2>1, <2>2, SaidSent
<1>11. CASE BeginTransaction
  BY <1>11, <1>q DEF BeginTransaction, server
<1>12. CASE AbortTransaction
  <2>1. mine' = Apply(Empty, mine) /\ UNCHANGED <<up, tree, serving>>
    BY <1>12 DEF AbortTransaction, Ended, server
  <2>2. mine' = [p \in UserPath |-> mine[p]]
    BY <1>m, <2>1, OneUpdate DEF Apply
  <2> QED BY <1>m, <1>q, <2>1, <2>2
<1>13. CASE EndTransaction
  <2> DEFINE u == xaction.upd
  <2>1. /\ IF DOMAIN u = {} THEN Silent ELSE Sends(ChangeMsg(u))
        /\ mine' = Apply(u, mine)
    BY <1>13, EndTransactionSends DEF ClientShape
  <2>2. u \in UserUpdate
    BY DEF ClientShape
  <2> HIDE DEF u
  <2>3. \A p \in UserPath : mine'[p] = IF p \in DOMAIN u THEN u[p] ELSE mine[p]
    BY <2>1, <2>2, ApplyType
  <2>4. CASE DOMAIN u = {}
    <3>1. mine' \in [UserPath -> Value \cup {Unknown}]
      BY <2>1, <2>2, ApplyType
    <3>2. mine' = mine
      BY <1>m, <2>3, <2>4, <3>1
    <3> QED BY <1>q, <2>1, <2>4, <3>2 DEF Silent, server
  <2>5. CASE DOMAIN u # {}
    <3>1. ChangeMsg(u).upd = u
      BY ChangeMsgFacts
    <3> QED BY <2>1, <2>3, <2>5, <3>1, SaidSent
  <2> QED BY <2>4, <2>5
<1>14. ASSUME NEW r \in Request, Command(r) PROVE Said'
  <2>1. PICK c \in Commands : Sends(ChangeMsg(One(Cmd, c))) /\ mine' = mine
    BY <1>14, CommandSends
  <2>2. ChangeMsg(One(Cmd, c)).upd = One(Cmd, c) /\ DOMAIN One(Cmd, c) = {Cmd}
    BY OneUpdate, ChangeMsgFacts, Zenon
  <2>3. \A p \in UserPath : p \notin DOMAIN ChangeMsg(One(Cmd, c)).upd
    BY <2>2, PathFacts
  <2> QED BY <2>1, <2>3, SaidSent
<1>15. CASE UNCHANGED vars
  BY <1>15, <1>q DEF vars, server, history
<1> QED BY <1>1, <1>2, <1>3, <1>4, <1>5, <1>6, <1>7, <1>8, <1>9, <1>10, <1>11, <1>12, <1>13, <1>14, <1>15
        DEF Next, Value

(* What the client did last to an object, by itself or in a transaction that it *)
(* ended, stands unless another client changed the object since: nothing that   *)
(* the client sent overtakes anything else, and what it aborted is not sent.    *)
THEOREM SessionOrderKeptCorrect == Spec => []OrderKept
<1>1. Init => Shape /\ Said
  <2>1. Init => Said
    BY DEF Init, Said
  <2> QED BY <2>1, ShapeInit
<1>2. Shape /\ [Next]_vars => Shape'
  BY ShapeStep
<1>3. Shape /\ Said /\ [Next]_vars => Said'
  BY SaidStep
<1>4. Shape /\ Said => OrderKept
  <2> SUFFICES ASSUME Shape, Said, serving, NEW p \in UserPath
               PROVE  \/ mine[p] \in {Unknown, tree[p]}
                      \/ \E m \in Range(up) : p \in DOMAIN m.upd
    BY DEF OrderKept
  <2>1. DOMAIN up = 1 .. Len(up)
    BY SequenceFacts DEF Shape, ServerShape
  <2>2. \/ mine[p] \in {Unknown, tree[p]}
        \/ \E i \in DOMAIN up : p \in DOMAIN up[i].upd
    BY <2>1 DEF Said, Ends
  <2> QED BY <2>2 DEF Range
<1> QED BY <1>1, <1>2, <1>3, <1>4, PTL DEF Spec

-----------------------------------------------------------------------------
(* What the client holds when a subscription ends                          *)

\* More messages come: what has been said of p stands if they do not name p, or
\* is what they say last.
LEMMA EndsTold ==
  ASSUME Sequence(down), NEW ms, Sequence(ms), Tell(ms), connected, NEW b, NEW p, NEW v,
         \A i \in 1 .. Len(ms) : p \in DOMAIN ms[i].upd => ms[i].upd[p] = v,
         Ends(down, Len(down), b, p, v) \/ \E i \in 1 .. Len(ms) : p \in DOMAIN ms[i].upd
  PROVE  Ends(down', Len(down'), b, p, v)
<1>1. /\ Len(down') = Len(down) + Len(ms)
      /\ \A i \in 1 .. Len(down) : down'[i] = down[i]
      /\ \A i \in 1 .. Len(ms) : down'[Len(down) + i] = ms[i]
      /\ \A i \in Len(down) + 1 .. Len(down') :
           i - Len(down) \in 1 .. Len(ms) /\ down'[i] = ms[i - Len(down)]
  BY TellDown
<1>2. /\ Len(down) \in Nat /\ Len(ms) \in Nat /\ Len(down') \in Nat /\ Len(down) <= Len(down')
      /\ \A i \in 1 .. Len(ms) : Len(down) + i \in Len(down) + 1 .. Len(down')
  <2>1. Len(down) \in Nat /\ Len(ms) \in Nat
    BY SequenceFacts
  <2> QED BY <1>1, <2>1
<1>3. \A i \in Len(down) + 1 .. Len(down') : p \in DOMAIN down'[i].upd => down'[i].upd[p] = v
  BY <1>1
<1>4. CASE Ends(down, Len(down), b, p, v)
  <2>1. Ends(down', Len(down), b, p, v)
    BY <1>1, <1>2, <1>4, EndsSame
  <2> QED BY <1>2, <1>3, <2>1, EndsMore
<1>5. CASE \E i \in 1 .. Len(ms) : p \in DOMAIN ms[i].upd
  <2>1. \E i \in Len(down) + 1 .. Len(down') : p \in DOMAIN down'[i].upd
    BY <1>1, <1>2, <1>5
  <2> QED BY <1>2, <1>3, <2>1, EndsMore
<1> QED BY <1>4, <1>5

\* A message is received: it goes into what is held.
LEMMA EndsReceived ==
  ASSUME ClientShape, Receive, NEW n \in 1 .. Len(down), NEW p \in LocalPath, NEW v
  PROVE  Ends(down, n, local[p], p, v) <=> Ends(down', n - 1, local'[p], p, v)
<1> DEFINE m == Head(down)
           b == IF p \in DOMAIN m.upd THEN m.upd[p] ELSE local[p]
<1>1. /\ down # <<>> /\ down' = Tail(down)
      /\ local' = [q \in LocalPath |-> IF q \in DOMAIN m.upd THEN m.upd[q] ELSE local[q]]
  BY ReceiveEffect
<1>2. Sequence(down)
  BY DEF ClientShape
<1>3. Ends(down, n, local[p], p, v) <=> Ends(Tail(down), n - 1, b, p, v)
  BY <1>1, <1>2, EndsTail
<1>4. local'[p] = b
  BY <1>1
<1> HIDE DEF b
<1> QED BY <1>1, <1>3, <1>4

LEMMA DownLength ==
  ASSUME ClientShape
  PROVE  /\ Sequence(down) /\ Len(down) \in Nat /\ DOMAIN down = 1 .. Len(down)
         /\ \A i \in DOMAIN down : DownMsg(down[i]) /\ i \in Nat
         /\ \A n \in 0 .. Len(down) : \A i \in 1 .. n : i \in DOMAIN down
<1>1. Sequence(down) /\ \A i \in DOMAIN down : DownMsg(down[i])
  BY DEF ClientShape
<1>2. Len(down) \in Nat /\ DOMAIN down = 1 .. Len(down)
  BY <1>1, SequenceFacts
<1>3. \A n \in 0 .. Len(down) : \A i \in 1 .. n : i \in 1 .. Len(down)
  BY <1>2
<1> QED BY <1>1, <1>2, <1>3

LEMMA ReceiveLength ==
  ASSUME ClientShape, Receive
  PROVE  /\ Len(down') = Len(down) - 1 /\ Len(down) \in 1 .. Len(down) /\ 1 \in DOMAIN down
         /\ Head(down) = down[1]
         /\ \A i \in DOMAIN down' : /\ i + 1 \in DOMAIN down /\ down'[i] = down[i + 1]
                                    /\ i + 1 \in 1 .. Len(down) /\ (i + 1) - 1 = i
<1>1. Sequence(down) /\ down # <<>> /\ down' = Tail(down)
  BY ReceiveEffect DEF ClientShape
<1>2. /\ 1 \in DOMAIN down /\ Head(down) = down[1]
      /\ \A i \in DOMAIN down' : i + 1 \in DOMAIN down /\ down'[i] = down[i + 1]
  BY <1>1, TailEach
<1>3. /\ Len(down) \in Nat /\ Len(down) >= 1 /\ Len(down') = Len(down) - 1
      /\ DOMAIN down = 1 .. Len(down) /\ DOMAIN down' = 1 .. Len(down')
  <2>1. Sequence(down')
    BY <1>1, SequenceTail
  <2> QED BY <1>1, <2>1, SequenceTail, SequenceFacts
<1>4. Len(down) \in 1 .. Len(down) /\ \A i \in DOMAIN down' : i + 1 \in 1 .. Len(down) /\ (i + 1) - 1 = i
  BY <1>3
<1> QED BY <1>2, <1>3, <1>4

LEMMA FollowsChanged ==
  ASSUME Shape, Follows, NEW u, NEW ms, Changed(u, ms), connected, serving,
         local' = local, cbPaths' = cbPaths
  PROVE  Follows'
<1> DEFINE P == {p \in DOMAIN u : u[p] # tree[p] /\ Covered(p, cbPaths)}
           Held(p) == IF Covered(p, cbPaths) THEN tree[p] ELSE NoVal
<1>1. /\ tree' = [p \in Path |-> IF p \in DOMAIN u THEN u[p] ELSE tree[p]]
      /\ Tells(ms, P, u) /\ Tell(ms)
  BY DEF Changed
<1>2. SUFFICES ASSUME NEW p \in Path
               PROVE  Ends(down', Len(down'), local[p], p, IF Covered(p, cbPaths) THEN tree'[p] ELSE NoVal)
  BY DEF Follows
<1>3. Sequence(down) /\ Sequence(ms)
  BY <1>1 DEF Shape, ClientShape, Tells
<1>4. Ends(down, Len(down), local[p], p, Held(p))
  BY DEF Follows
<1>5. CASE p \in P
  <2>1. Covered(p, cbPaths) /\ tree'[p] = u[p]
    BY <1>1, <1>5
  <2> HIDE DEF P
  <2>2. /\ \A i \in 1 .. Len(ms) : p \in DOMAIN ms[i].upd => ms[i].upd[p] = u[p]
        /\ \E i \in 1 .. Len(ms) : p \in DOMAIN ms[i].upd
    BY <1>1, <1>5 DEF Tells
  <2>3. Ends(down', Len(down'), local[p], p, u[p])
    BY <1>1, <1>3, <2>2, EndsTold
  <2> QED BY <2>1, <2>3
<1>6. CASE p \notin P
  <2>1. (IF Covered(p, cbPaths) THEN tree'[p] ELSE NoVal) = Held(p)
    BY <1>1, <1>6
  <2> HIDE DEF P, Held
  <2>2. \A i \in 1 .. Len(ms) : p \notin DOMAIN ms[i].upd
    BY <1>1, <1>6 DEF Tells
  <2>3. Ends(down', Len(down'), local[p], p, Held(p))
    BY <1>1, <1>3, <1>4, <2>2, EndsTold
  <2> QED BY <2>1, <2>3
<1> QED BY <1>5, <1>6

\* What the client holds after the messages for a subscription, of what it names.
LEMMA SubscribeTold ==
  ASSUME Shape, Follows, NEW C, NEW ms, Synchronises(ms, C), Tell(ms), connected, serving,
         NEW p \in Path
  PROVE  Ends(down', Len(down'), local[p], p,
              IF Covered(p, C) \/ Covered(p, cbPaths) THEN tree[p] ELSE NoVal)
<1>1. /\ Sequence(ms) /\ Len(ms) \in Nat /\ Len(ms) >= 1 /\ ms[Len(ms)] = NotiMsg(C)
      /\ \A i \in 1 .. Len(ms) - 1 :
           \A q \in DOMAIN ms[i].upd : /\ q \in Path /\ Covered(q, C) /\ tree[q] # NoVal
                                       /\ ms[i].upd[q] = tree[q]
      /\ \A q \in Path : tree[q] # NoVal /\ Covered(q, C) =>
           \E i \in 1 .. Len(ms) - 1 : q \in DOMAIN ms[i].upd
  BY SynchronisesDown DEF Shape
<1>2. p \notin DOMAIN NotiMsg(C).upd
  <2>1. DOMAIN NotiMsg(C).upd = {LocalSubscription}
    BY NotiMsgFacts, OneUpdate
  <2> QED BY <2>1, PathFacts
<1>3. \A i \in 1 .. Len(ms) : p \in DOMAIN ms[i].upd => i \in 1 .. Len(ms) - 1
  <2>1. \A i \in 1 .. Len(ms) : i = Len(ms) \/ i \in 1 .. Len(ms) - 1
    BY <1>1
  <2> QED BY <1>1, <1>2, <2>1
<1>4. Sequence(down)
  BY DEF Shape, ClientShape
<1>5. Ends(down, Len(down), local[p], p, IF Covered(p, cbPaths) THEN tree[p] ELSE NoVal)
  BY DEF Follows
<1>6. CASE tree[p] # NoVal /\ Covered(p, C)
  <2>1. \E i \in 1 .. Len(ms) : p \in DOMAIN ms[i].upd
    <3>1. PICK i \in 1 .. Len(ms) - 1 : p \in DOMAIN ms[i].upd
      BY <1>1, <1>6
    <3>2. i \in 1 .. Len(ms)
      BY <1>1, <3>1
    <3> QED BY <3>1, <3>2
  <2>2. \A i \in 1 .. Len(ms) : p \in DOMAIN ms[i].upd => ms[i].upd[p] = tree[p]
    BY <1>1, <1>3
  <2>3. Ends(down', Len(down'), local[p], p, tree[p])
    BY <1>1, <1>4, <2>1, <2>2, EndsTold
  <2> QED BY <1>6, <2>3
<1>7. CASE ~(tree[p] # NoVal /\ Covered(p, C))
  <2> DEFINE v == IF Covered(p, cbPaths) THEN tree[p] ELSE NoVal
  <2>1. \A i \in 1 .. Len(ms) : p \notin DOMAIN ms[i].upd
    BY <1>1, <1>3, <1>7
  <2>2. v = IF Covered(p, C) \/ Covered(p, cbPaths) THEN tree[p] ELSE NoVal
    BY <1>7
  <2>3. Ends(down', Len(down'), local[p], p, v)
    <3> HIDE DEF v
    <3>1. Ends(down, Len(down), local[p], p, v)
      BY <1>5 DEF v
    <3> QED BY <1>1, <1>4, <2>1, <3>1, EndsTold
  <2> HIDE DEF v
  <2> QED BY <2>2, <2>3
<1> QED BY <1>6, <1>7

-----------------------------------------------------------------------------
(* The steps, as the client's tree sees them                               *)

\* The tree changes: by a message of the client, or by another client.
Tolds ==
  \E u, ms : /\ Changed(u, ms)
             /\ UNCHANGED <<serving, cbPaths, connected, local, lastSub, cmds>>
             /\ \/ up' = up /\ DOMAIN u \subseteq UserPath
                \/ /\ serving /\ up # <<>> /\ up' = Tail(up)
                   /\ Head(up).kind = "change" /\ Answered(Head(up).upd, u)

\* The client sends: a subscription, changes, or a command.
Sayings ==
  \E m : /\ Sends(m) /\ connected
         /\ \/ /\ m.kind = "subscribe" /\ m.paths \in SubList /\ m.upd = Empty
               /\ lastSub' = m.paths /\ cmds' = cmds
            \/ /\ m.kind = "change" /\ DOMAIN m.upd \subseteq UserPath /\ m.paths = {}
               /\ UNCHANGED <<lastSub, cmds>>
            \/ \E r \in Request, c \in Commands :
                 /\ m = ChangeMsg(One(Cmd, c)) /\ c.op = r.op /\ c.path = r.path
                 /\ c.id \in DOMAIN cmds' /\ (~Repeat => c.id = Len(cmds) + 1)
                 /\ cmds' = Append(cmds, r) /\ Covered(Rsp, lastSub) /\ lastSub' = lastSub

Silence == Silent /\ UNCHANGED <<lastSub, cmds>>

LEMMA Steps ==
  ASSUME Shape, [Next]_vars
  PROVE  \/ Tolds \/ HandleSubscribe \/ Close \/ Sayings \/ Connect \/ ClientGone \/ Receive \/ Silence
<1> DEFINE Goal == Tolds \/ HandleSubscribe \/ Close \/ Sayings \/ Connect \/ ClientGone \/ Receive \/ Silence
<1> USE DEF Shape
<1>1. CASE HandleChange
  <2>1. PICK w, ms : /\ Changed(w, ms) /\ Answered(Head(up).upd, w)
                     /\ serving /\ up # <<>> /\ up' = Tail(up)
                     /\ UNCHANGED <<serving, cbPaths, client, history>>
    BY <1>1, HandleChangeEffect
  <2>2. Head(up).kind = "change"
    BY <1>1 DEF HandleChange
  <2>3. UNCHANGED <<serving, cbPaths, connected, local, lastSub, cmds>>
    BY <2>1 DEF client, history
  <2>4. Tolds
    BY <2>1, <2>2, <2>3 DEF Tolds
  <2> QED BY <2>4
<1>4. ASSUME NEW p \in UserPath, NEW v \in Value, OtherChange(p, v) PROVE Goal
  <2>1. PICK w, ms : Changed(w, ms) /\ DOMAIN w = {p}
    BY <1>4, OtherChangeEffect
  <2>2. UNCHANGED <<up, serving, cbPaths, connected, local, lastSub, cmds>>
    BY <1>4 DEF OtherChange, client
  <2>3. Tolds
    BY <2>1, <2>2 DEF Tolds
  <2> QED BY <2>3
<1>5. ASSUME NEW p \in UserPath, NEW v \in Value, Write(p, v) PROVE Goal
  <2> DEFINE m == ChangeMsg(One(p, v))
  <2>1. Sends(m) /\ connected /\ UNCHANGED <<lastSub, cmds>>
    BY <1>5, WriteSends
  <2>2. m.kind = "change" /\ m.paths = {} /\ m.upd = One(p, v) /\ DOMAIN One(p, v) = {p}
    BY ChangeMsgFacts, OneUpdate, Zenon
  <2> HIDE DEF m
  <2>3. Sayings
    BY <2>1, <2>2 DEF Sayings
  <2> QED BY <2>3
<1>6. ASSUME NEW p \in UserPath, NEW v \in Value, WriteLater(p, v) PROVE Goal
  BY <1>6 DEF WriteLater, Silence, Silent
<1>8. CASE Disconnect \/ Lost
  BY <1>8 DEF Disconnect, Lost
<1>10. ASSUME NEW C \in SubList, NEW k \in Callback \cup {NoCb}, Subscribe(C, k) PROVE Goal
  <2> DEFINE m == SubscribeMsg(C)
  <2>1. Sends(m) /\ connected /\ lastSub' = C /\ cmds' = cmds
    BY <1>10, SubscribeSends
  <2>2. m.kind = "subscribe" /\ m.paths = C /\ m.upd = Empty
    BY UpMsgFacts
  <2> HIDE DEF m
  <2>3. Sayings
    BY <2>1, <2>2 DEF Sayings
  <2> QED BY <2>3
<1>11. CASE BeginTransaction
  BY <1>11 DEF BeginTransaction, Silence, Silent
<1>12. CASE AbortTransaction
  BY <1>12 DEF AbortTransaction, Ended, Silence, Silent
<1>13. CASE EndTransaction
  <2> DEFINE u == xaction.upd
             m == ChangeMsg(u)
  <2>1. /\ IF DOMAIN u = {} THEN Silent ELSE Sends(m)
        /\ connected /\ UNCHANGED <<lastSub, cmds>>
    BY <1>13, EndTransactionSends DEF ClientShape
  <2>2. u \in UserUpdate
    BY DEF ClientShape
  <2> HIDE DEF u
  <2>3. m.kind = "change" /\ m.paths = {} /\ m.upd = u
    BY ChangeMsgFacts
  <2>4. DOMAIN u \subseteq UserPath
    BY <2>2 DEF UserUpdate
  <2> HIDE DEF m
  <2>5. Silence \/ Sayings
    BY <2>1, <2>3, <2>4 DEF Silence, Sayings
  <2> QED BY <2>5
<1>14. ASSUME NEW r \in Request, Command(r) PROVE Goal
  <2>1. PICK c \in Commands :
           /\ Sends(ChangeMsg(One(Cmd, c))) /\ c.op = r.op /\ c.path = r.path
           /\ c.id \in DOMAIN cmds' /\ (~Repeat => c.id = Len(cmds) + 1)
           /\ cmds' = Append(cmds, r) /\ connected /\ Covered(Rsp, lastSub) /\ lastSub' = lastSub
    BY <1>14, CommandSends
  <2> DEFINE m == ChangeMsg(One(Cmd, c))
  <2>2. Sends(m) /\ m = ChangeMsg(One(Cmd, c))
    BY <2>1
  <2> HIDE DEF m
  <2>3. Sayings
    BY <2>1, <2>2 DEF Sayings
  <2> QED BY <2>3
<1>15. CASE UNCHANGED vars
  BY <1>15 DEF vars, server, client, history, Silence, Silent
<1> QED BY <1>1, <1>4, <1>5, <1>6, <1>8, <1>10, <1>11, <1>12, <1>13, <1>14, <1>15 DEF Next, Value

LEMMA FollowsStep == Shape /\ Follows /\ [Next]_vars => Follows'
<1> SUFFICES ASSUME Shape, Follows, [Next]_vars, connected', serving' PROVE Follows'
  BY DEF Follows
<1>1. CASE Tolds
  <2>1. PICK u, ms : Changed(u, ms) /\ UNCHANGED <<serving, cbPaths, connected, local>>
    BY <1>1 DEF Tolds
  <2>2. connected /\ serving
    BY <2>1
  <2> QED BY <2>1, <2>2, FollowsChanged
<1>2. CASE HandleSubscribe
  <2> DEFINE C == Head(up).paths
  <2>1. PICK ms : Synchronises(ms, C) /\ Tell(ms)
    BY <1>2, SubscribeEffect DEF Shape
  <2>2. /\ serving /\ tree' = tree /\ cbPaths' = cbPaths \cup C /\ connected /\ local' = local
    BY <1>2, SubscribeShape DEF client, Shape
  <2> HIDE DEF C
  <2>3. \A p : Covered(p, cbPaths') <=> Covered(p, C) \/ Covered(p, cbPaths)
    BY <2>2 DEF Covered
  <2>4. ASSUME NEW p \in Path
        PROVE  Ends(down', Len(down'), local[p], p, IF Covered(p, cbPaths') THEN tree[p] ELSE NoVal)
    <3>1. Ends(down', Len(down'), local[p], p,
               IF Covered(p, C) \/ Covered(p, cbPaths) THEN tree[p] ELSE NoVal)
      BY <2>1, <2>2, SubscribeTold
    <3> QED BY <2>3, <3>1
  <2> QED BY <2>2, <2>4 DEF Follows
<1>3. CASE Close
  BY <1>3 DEF Close
<1>4. CASE Sayings \/ Silence
  <2>1. UNCHANGED <<down, server, connected, local>>
    BY <1>4 DEF Sayings, Sends, Silence, Silent
  <2> QED BY <2>1 DEF Follows, server
<1>5. CASE Connect
  <2>1. /\ ~serving /\ down' = <<PeerInfoMsg>> /\ local' = [p \in LocalPath |-> NoVal] /\ cbPaths' = cbPaths
    BY <1>5 DEF Connect
  <2>2. cbPaths = {}
    BY <2>1 DEF Shape, ServerShape
  <2>3. \A p : ~Covered(p, cbPaths')
    BY <2>1, <2>2 DEF Covered
  <2>4. \A p \in Path : local'[p] = NoVal
    BY <2>1, PathFacts
  <2>5. Len(down') = 1 /\ down'[1] = PeerInfoMsg /\ DOMAIN PeerInfoMsg.upd = {}
    BY <2>1 DEF PeerInfoMsg, Msg, Empty
  <2> QED BY <2>3, <2>4, <2>5 DEF Follows, Ends
<1>6. CASE ClientGone
  BY <1>6 DEF ClientGone
<1>7. CASE Receive
  <2>1. connected /\ UNCHANGED <<server>>
    BY <1>7, ReceiveEffect DEF Shape
  <2>2. ASSUME NEW p \in Path
        PROVE  Ends(down', Len(down'), local'[p], p, IF Covered(p, cbPaths) THEN tree[p] ELSE NoVal)
    <3> DEFINE v == IF Covered(p, cbPaths) THEN tree[p] ELSE NoVal
    <3>1. Ends(down, Len(down), local[p], p, v)
      BY <2>1 DEF Follows, server
    <3> HIDE DEF v
    <3>2. Ends(down', Len(down) - 1, local'[p], p, v)
      BY <1>7, <3>1, EndsReceived, ReceiveLength, PathFacts DEF Shape
    <3> QED BY <1>7, <3>2, ReceiveLength DEF Shape, v
  <2> QED BY <2>1, <2>2 DEF Follows, server
<1> QED BY <1>1, <1>2, <1>3, <1>4, <1>5, <1>6, <1>7, Steps

\* What is said of the end of a subscription stands when messages come after it.
LEMMA SyncedBefore ==
  ASSUME Shape, Synced, NEW ms, Sequence(ms), Tell(ms), NEW k \in DOMAIN down, down[k].kind = "noti"
  PROVE  /\ down'[k] = down[k]
         /\ down[k].sent = [p \in {q \in Path : Covered(q, down[k].paths)} |-> down[k].sent[p]]
         /\ \A p \in Path : Covered(p, down[k].paths) => Ends(down', k, local[p], p, down[k].sent[p])
<1>1. \A i \in 1 .. Len(down) : down'[i] = down[i]
  BY TellDown DEF Shape, ClientShape
<1>2. k \in Nat /\ \A i \in 1 .. k : i \in 1 .. Len(down)
  BY DownLength DEF Shape
<1>3. DOMAIN down = 1 .. Len(down)
  BY DownLength DEF Shape
<1>4. ASSUME NEW p \in Path, Covered(p, down[k].paths)
      PROVE  Ends(down', k, local[p], p, down[k].sent[p])
  <2>1. Ends(down, k, local[p], p, down[k].sent[p])
    BY <1>4 DEF Synced
  <2>2. \A i \in 1 .. k : down'[i] = down[i]
    BY <1>1, <1>2
  <2> QED BY <1>2, <2>1, <2>2, EndsSame
<1> QED BY <1>1, <1>3, <1>4 DEF Synced

LEMMA SyncedStep == Shape /\ Follows /\ Synced /\ [Next]_vars => Synced'
<1> SUFFICES ASSUME Shape, Follows, Synced, [Next]_vars PROVE Synced'
  OBVIOUS
<1>q. ASSUME UNCHANGED <<down, local>> PROVE Synced'
  BY <1>q DEF Synced, Ends
<1>1. CASE Tolds
  <2>1. PICK u, ms : Changed(u, ms) /\ UNCHANGED <<serving, cbPaths, connected, local>>
    BY <1>1 DEF Tolds
  <2>2. /\ DOMAIN u \subseteq UserPath \cup {Cmd, Rsp} /\ Tell(ms)
        /\ Tells(ms, {p \in DOMAIN u : u[p] # tree[p] /\ Covered(p, cbPaths)}, u)
    BY <2>1 DEF Changed
  <2>3. Sequence(ms) /\ \A i \in 1 .. Len(ms) : ms[i].kind = "change"
    BY <2>2 DEF Tells
  <2>4. ASSUME NEW k \in DOMAIN down', down'[k].kind = "noti" PROVE k \in DOMAIN down
    <3>1. Sequence(down) /\ DOMAIN down = 1 .. Len(down) /\ Len(down) \in Nat
      BY DownLength DEF Shape
    <3>2. Sequence(down') /\ (~connected => down' = down)
      BY <2>2, <2>3, <3>1, TellDown
    <3>3. Len(down') \in Nat /\ DOMAIN down' = 1 .. Len(down')
      BY <3>2, SequenceFacts
    <3>4. k \in 1 .. Len(down) \/ k \in Len(down) + 1 .. Len(down')
      BY <3>1, <3>3
    <3>5. connected => k \notin Len(down) + 1 .. Len(down')
      BY <2>2, <2>3, <2>4, <3>1, TellDown
    <3> QED BY <3>1, <3>2, <3>4, <3>5
  <2>6. ASSUME NEW k \in DOMAIN down', down'[k].kind = "noti"
        PROVE  LET C == down'[k].paths
               IN /\ down'[k].sent = [p \in {q \in Path : Covered(q, C)} |-> down'[k].sent[p]]
                  /\ \A p \in Path : Covered(p, C) => Ends(down', k, local[p], p, down'[k].sent[p])
    <3>1. k \in DOMAIN down
      BY <2>4, <2>6
    <3>2. down'[k] = down[k]
      <4>1. \A i \in 1 .. Len(down) : connected => down'[i] = down[i]
        BY <2>2, <2>3, TellDown DEF Shape, ClientShape
      <4>2. ~connected => down' = down
        BY <2>2, <2>3, TellDown DEF Shape, ClientShape
      <4> QED BY <3>1, <4>1, <4>2, DownLength DEF Shape
    <3> QED BY <2>2, <2>3, <2>6, <3>1, <3>2, SyncedBefore
  <2> QED BY <2>1, <2>6 DEF Synced
<1>2. CASE HandleSubscribe
  <2> DEFINE C == Head(up).paths
  <2>1. PICK ms : Synchronises(ms, C) /\ Tell(ms)
    BY <1>2, SubscribeEffect DEF Shape
  <2>2. serving /\ connected' = connected /\ local' = local
    BY <1>2, SubscribeShape DEF client, Shape
  <2> HIDE DEF C
  <2>3. /\ Sequence(ms) /\ Len(ms) \in Nat /\ Len(ms) >= 1 /\ ms[Len(ms)] = NotiMsg(C)
        /\ \A i \in 1 .. Len(ms) - 1 : ms[i].kind # "noti"
    BY <2>1, SynchronisesDown DEF Shape
  <2>d. Sequence(down) /\ DOMAIN down = 1 .. Len(down) /\ Len(down) \in Nat
    BY DownLength DEF Shape
  <2>4. CASE ~connected
    BY <1>q, <2>1, <2>2, <2>3, <2>4, <2>d, TellDown
  <2>5. CASE connected
    <3>1. /\ Sequence(down') /\ Len(down') = Len(down) + Len(ms)
          /\ \A i \in 1 .. Len(down) : down'[i] = down[i]
          /\ \A i \in 1 .. Len(ms) : down'[Len(down) + i] = ms[i]
          /\ \A i \in Len(down) + 1 .. Len(down') :
               i - Len(down) \in 1 .. Len(ms) /\ down'[i] = ms[i - Len(down)]
      BY <2>1, <2>3, <2>5, <2>d, TellDown
    <3>2. DOMAIN down' = 1 .. Len(down') /\ Len(down') \in Nat
      BY <3>1, SequenceFacts
    <3>3. ASSUME NEW k \in DOMAIN down', down'[k].kind = "noti"
          PROVE  LET D == down'[k].paths
                 IN /\ down'[k].sent = [p \in {q \in Path : Covered(q, D)} |-> down'[k].sent[p]]
                    /\ \A p \in Path : Covered(p, D) => Ends(down', k, local[p], p, down'[k].sent[p])
      <4>1. CASE k \in DOMAIN down
        <5>1. down'[k] = down[k]
          BY <2>d, <3>1, <4>1
        <5> QED BY <2>1, <2>3, <3>3, <4>1, <5>1, SyncedBefore
      <4>2. CASE k \notin DOMAIN down
        <5>1. k \in Len(down) + 1 .. Len(down')
          BY <2>d, <3>2, <4>2
        <5>2. k - Len(down) \in 1 .. Len(ms) /\ down'[k] = ms[k - Len(down)]
          BY <3>1, <5>1
        <5>3. k - Len(down) \notin 1 .. Len(ms) - 1
          BY <2>3, <3>3, <5>2
        <5>4. k = Len(down')
          <6>1. /\ Len(ms) \in Nat /\ Len(down) \in Nat /\ Len(down') = Len(down) + Len(ms)
                /\ k - Len(down) \in 1 .. Len(ms)
            BY <2>3, <2>d, <3>1, <5>2
          <6> QED BY <5>1, <5>3, <6>1
        <5>5. down'[k] = NotiMsg(C)
          BY <2>3, <2>d, <3>1, <5>2, <5>4
        <5>6. down'[k].paths = C /\ down'[k].sent = Below(tree, C)
          BY <5>5, NotiMsgFacts
        <5>7. Below(tree, C) = [p \in {q \in Path : Covered(q, C)} |-> tree[p]]
          <6>1. DOMAIN tree = Path
            BY DEF Shape, ServerShape
          <6> QED BY <6>1, Zenon DEF Below, Covered
        <5>8. down'[k].sent = [p \in {q \in Path : Covered(q, C)} |-> down'[k].sent[p]]
              /\ \A p \in Path : Covered(p, C) => down'[k].sent[p] = tree[p]
          BY <5>6, <5>7
        <5>9. ASSUME NEW p \in Path, Covered(p, C) PROVE Ends(down', k, local[p], p, tree[p])
          <6>1. Ends(down', Len(down'), local[p], p,
                     IF Covered(p, C) \/ Covered(p, cbPaths) THEN tree[p] ELSE NoVal)
            BY <2>1, <2>2, <2>5, SubscribeTold
          <6> QED BY <5>4, <5>9, <6>1
        <5> QED BY <5>6, <5>8, <5>9
      <4> QED BY <4>1, <4>2
    <3> QED BY <2>2, <3>3 DEF Synced
  <2> QED BY <2>4, <2>5
<1>3. CASE Close
  BY <1>3, <1>q DEF Close, client
<1>4. CASE Sayings \/ Silence
  <2>1. UNCHANGED <<down, local>>
    BY <1>4 DEF Sayings, Sends, Silence, Silent
  <2> QED BY <1>q, <2>1
<1>5. CASE Connect
  <2>1. down' = <<PeerInfoMsg>> /\ PeerInfoMsg.kind = "peer"
    BY <1>5 DEF Connect, PeerInfoMsg, Msg
  <2>2. \A i \in DOMAIN down' : down'[i].kind = "peer"
    BY <2>1
  <2> QED BY <2>2 DEF Synced
<1>6. CASE ClientGone
  <2>1. down' = <<>>
    BY <1>6 DEF ClientGone
  <2> QED BY <2>1 DEF Synced
<1>7. CASE Receive
  <2>1. /\ Len(down') = Len(down) - 1
        /\ \A i \in DOMAIN down' : /\ i + 1 \in DOMAIN down /\ down'[i] = down[i + 1]
                                   /\ i + 1 \in 1 .. Len(down) /\ (i + 1) - 1 = i
    BY <1>7, ReceiveLength DEF Shape
  <2>2. ASSUME NEW k \in DOMAIN down', down'[k].kind = "noti"
        PROVE  LET C == down'[k].paths
               IN /\ down'[k].sent = [p \in {q \in Path : Covered(q, C)} |-> down'[k].sent[p]]
                  /\ \A p \in Path : Covered(p, C) => Ends(down', k, local'[p], p, down'[k].sent[p])
    <3>1. /\ k + 1 \in DOMAIN down /\ down'[k] = down[k + 1] /\ k + 1 \in 1 .. Len(down)
          /\ (k + 1) - 1 = k
      BY <2>1
    <3>2. ASSUME NEW p \in Path, Covered(p, down'[k].paths)
          PROVE  Ends(down', k, local'[p], p, down'[k].sent[p])
      <4> DEFINE v == down'[k].sent[p]
      <4>1. Ends(down, k + 1, local[p], p, v)
        BY <2>2, <3>1, <3>2 DEF Synced
      <4> HIDE DEF v
      <4>2. p \in LocalPath
        BY PathFacts
      <4>3. Ends(down', (k + 1) - 1, local'[p], p, v)
        BY <1>7, <3>1, <4>1, <4>2, EndsReceived DEF Shape
      <4> QED BY <3>1, <4>3 DEF v
    <3> QED BY <2>2, <3>1, <3>2 DEF Synced
  <2> QED BY <2>2 DEF Synced
<1> QED BY <1>1, <1>2, <1>3, <1>4, <1>5, <1>6, <1>7, Steps

(* When the client is told that a subscription is complete, its tree holds what *)
(* the server's held when it handled the subscription, for every object of the  *)
(* list (ObexServer.cpp:101-117): what is there has been put, what is not has   *)
(* been deleted, and nothing that changed later has come before.                *)
THEOREM SessionSyncCompleteCorrect == Spec => SyncComplete
<1> DEFINE A == connected /\ local'[LocalSubscription] # local[LocalSubscription] /\ connected'
                => LET m == Head(down) IN Below([p \in Path |-> local'[p]], m.paths) = m.sent
<1>1. Init => Shape /\ Follows /\ Synced
  <2>1. Init => Follows
    BY DEF Init, Follows
  <2>2. Init => Synced
    BY DEF Init, Synced
  <2> QED BY <2>1, <2>2, ShapeInit
<1>2. Shape /\ [Next]_vars => Shape'
  BY ShapeStep
<1>3. Shape /\ Follows /\ [Next]_vars => Follows'
  BY FollowsStep
<1>4. Shape /\ Follows /\ Synced /\ [Next]_vars => Synced'
  BY SyncedStep
<1>5. Shape /\ Synced /\ [Next]_vars => [A]_vars
  <2> SUFFICES ASSUME Shape, Synced, [Next]_vars, connected, connected',
                      local'[LocalSubscription] # local[LocalSubscription]
               PROVE  LET m == Head(down) IN Below([p \in Path |-> local'[p]], m.paths) = m.sent
    OBVIOUS
  <2> DEFINE m == Head(down)
             C == m.paths
  <2>1. Receive
    <3>1. ~(Tolds \/ HandleSubscribe \/ Close \/ Sayings \/ Silence)
      BY DEF Tolds, HandleSubscribe, Close, Sayings, Sends, Silence, Silent, client
    <3>2. ~Connect /\ ~ClientGone
      BY DEF Connect, ClientGone
    <3> QED BY <3>1, <3>2, Steps
  <2>2. /\ DownMsg(m)
        /\ local' = [p \in LocalPath |-> IF p \in DOMAIN m.upd THEN m.upd[p] ELSE local[p]]
    BY <2>1, ReceiveEffect DEF Shape
  <2>3. m.kind = "noti"
    <3>1. LocalSubscription \in DOMAIN m.upd
      BY <2>2, PathFacts
    <3> QED BY <2>2, <3>1, PathFacts DEF DownMsg
  <2>4. /\ 1 \in DOMAIN down /\ m = down[1] /\ 1 \in 1 .. Len(down)
    <3>1. 1 \in DOMAIN down /\ m = down[1]
      BY <2>1, ReceiveLength DEF Shape
    <3> QED BY <3>1, DownLength DEF Shape
  <2>5. /\ m.sent = [p \in {q \in Path : Covered(q, C)} |-> m.sent[p]]
        /\ \A p \in Path : Covered(p, C) => Ends(down, 1, local[p], p, m.sent[p])
    BY <2>3, <2>4 DEF Synced
  <2>6. ASSUME NEW p \in Path, Covered(p, C) PROVE local'[p] = m.sent[p]
    <3> DEFINE v == m.sent[p]
    <3>1. Ends(down, 1, local[p], p, v)
      BY <2>5, <2>6
    <3> HIDE DEF v
    <3>2. Ends(down', 1 - 1, local'[p], p, v)
      BY <2>1, <2>4, <3>1, EndsReceived, PathFacts DEF Shape
    <3>3. Ends(down', 0, local'[p], p, v)
      BY <3>2
    <3> QED BY <3>3, EndsNone DEF v
  <2> HIDE DEF m, C
  <2>7. Below([p \in Path |-> local'[p]], C) = [p \in {q \in Path : Covered(q, C)} |-> local'[p]]
    BY DEF Below, Covered
  <2> QED BY <2>5, <2>6, <2>7 DEF m, C
<1>6. Shape /\ Follows /\ Synced /\ [Next]_vars => [A]_vars
  BY <1>5
<1>7. SyncComplete <=> [][A]_vars
  BY DEF SyncComplete
<1> QED BY <1>1, <1>2, <1>3, <1>4, <1>6, <1>7, PTL DEF Spec

-----------------------------------------------------------------------------
(* Nodes, and the ends of subscriptions                                    *)

\* What the last messages do not name has been said before.
LEMMA EndsFewer ==
  ASSUME NEW s, NEW n \in Nat, NEW m \in Nat, n <= m, NEW b, NEW p, NEW v, Ends(s, m, b, p, v),
         \A i \in n + 1 .. m : p \notin DOMAIN s[i].upd
  PROVE  Ends(s, n, b, p, v)
<1>1. \A i \in 1 .. m : i \in 1 .. n \/ i \in n + 1 .. m
  OBVIOUS
<1>2. \A i \in 1 .. n : i \in 1 .. m
  OBVIOUS
<1>3. \A i \in 1 .. n : \A j \in i + 1 .. n : j \in i + 1 .. m
  OBVIOUS
<1>4. CASE b = v /\ \A i \in 1 .. m : p \notin DOMAIN s[i].upd
  BY <1>2, <1>4 DEF Ends
<1>5. CASE \E i \in 1 .. m : /\ p \in DOMAIN s[i].upd /\ s[i].upd[p] = v
                             /\ \A j \in i + 1 .. m : p \notin DOMAIN s[j].upd
  <2>1. PICK i \in 1 .. m : /\ p \in DOMAIN s[i].upd /\ s[i].upd[p] = v
                            /\ \A j \in i + 1 .. m : p \notin DOMAIN s[j].upd
    BY <1>5
  <2>2. i \in 1 .. n
    BY <1>1, <2>1
  <2>3. \A j \in i + 1 .. n : p \notin DOMAIN s[j].upd
    BY <1>3, <2>1, <2>2
  <2> QED BY <2>1, <2>2, <2>3 DEF Ends
<1> QED BY <1>4, <1>5 DEF Ends

LEMMA NodesWithin ==
  ASSUME Noded, NEW f, NEW u, DOMAIN u \subseteq Path, NEW C
  PROVE  NodesWith(f, u, C) \subseteq Nodes
<1>1. NodesWith(f, u, C) \subseteq node \cup UNION {Above(p) : p \in {q \in DOMAIN u : u[q] # NoVal}}
  BY DEF NodesWith
<1>2. \A p \in Path : Above(p) \subseteq Nodes
  BY DEF Nodes
<1> QED BY <1>1, <1>2 DEF Noded

LEMMA NodedStep == Shape /\ Noded /\ [Next]_vars => Noded'
<1> SUFFICES ASSUME Shape, Noded, [Next]_vars PROVE node' \subseteq Nodes
  BY DEF Noded
<1>1. CASE Tolds
  <2>1. PICK u, ms : Changed(u, ms)
    BY <1>1 DEF Tolds
  <2>2. DOMAIN u \subseteq Path /\ node' = NodesWith(tree', u, cbPaths)
    BY <2>1, PathFacts DEF Changed
  <2> QED BY <2>2, NodesWithin
<1>2. CASE HandleSubscribe
  <2>1. node' = node \cup UNION {Above(c.base) : c \in Head(up).paths} /\ Head(up).paths \in SubList
    BY <1>2, SubscribeShape DEF HandleSubscribe, Shape
  <2>2. \A c \in Head(up).paths : Above(c.base) \subseteq Nodes
    BY <2>1 DEF Nodes
  <2> QED BY <2>1, <2>2 DEF Noded
<1>3. CASE Close
  <2>1. DOMAIN Gone \subseteq Path /\ node' = NodesWith(tree', Gone, {})
    BY <1>3, PathFacts DEF Close, Gone
  <2> QED BY <2>1, NodesWithin
<1>4. CASE Connect
  <2>1. node' = node \cup Above(SID)
    BY <1>4 DEF Connect
  <2> QED BY <2>1, PathFacts DEF Noded, Nodes
<1>5. CASE Sayings \/ Silence \/ ClientGone
  <2>1. UNCHANGED server
    BY <1>5 DEF Sayings, Sends, Silence, Silent, ClientGone
  <2> QED BY <2>1 DEF Noded, server
<1>6. CASE Receive
  <2>1. UNCHANGED server
    BY <1>6 DEF Receive
  <2> QED BY <2>1 DEF Noded, server
<1> QED BY <1>1, <1>2, <1>3, <1>4, <1>5, <1>6, Steps

LEMMA ListedStep == Shape /\ Listed /\ [Next]_vars => Listed'
<1> SUFFICES ASSUME Shape, Listed, [Next]_vars PROVE Listed'
  OBVIOUS
<1>s. Sequence(down)
  BY DEF Shape, ClientShape
<1>q. ASSUME UNCHANGED <<down, local>> PROVE Listed'
  BY <1>q DEF Listed
<1>1. CASE Tolds
  <2>1. PICK u, ms : Changed(u, ms) /\ local' = local
    BY <1>1 DEF Tolds
  <2>2. Sequence(ms) /\ Tell(ms) /\ \A i \in 1 .. Len(ms) : ms[i].kind = "change"
    BY <2>1 DEF Changed, Tells
  <2>3. \A k \in DOMAIN down' : down'[k].kind = "noti" => down'[k].paths \in SubList
    BY <1>s, <2>2, TellEach DEF Listed
  <2> QED BY <2>1, <2>3 DEF Listed
<1>2. CASE HandleSubscribe
  <2> DEFINE C == Head(up).paths
  <2>1. PICK ms : Synchronises(ms, C) /\ Tell(ms)
    BY <1>2, SubscribeEffect DEF Shape
  <2>2. local' = local /\ C \in SubList
    BY <1>2, SubscribeShape DEF client, Shape
  <2> HIDE DEF C
  <2>3. /\ Sequence(ms) /\ Len(ms) \in Nat /\ Len(ms) >= 1 /\ ms[Len(ms)] = NotiMsg(C)
        /\ \A i \in 1 .. Len(ms) - 1 : ms[i].kind # "noti"
    BY <2>1, SynchronisesDown DEF Shape
  <2>4. \A i \in 1 .. Len(ms) : ms[i].kind = "noti" => ms[i].paths \in SubList
    <3>1. \A i \in 1 .. Len(ms) : i = Len(ms) \/ i \in 1 .. Len(ms) - 1
      BY <2>3
    <3>2. NotiMsg(C).paths = C
      BY NotiMsgFacts
    <3> QED BY <2>2, <2>3, <3>1, <3>2
  <2>5. \A k \in DOMAIN down' : down'[k].kind = "noti" => down'[k].paths \in SubList
    BY <1>s, <2>1, <2>3, <2>4, TellEach DEF Listed
  <2> QED BY <2>2, <2>5 DEF Listed
<1>3. CASE Close \/ Sayings \/ Silence
  <2>1. UNCHANGED <<down, local>>
    BY <1>3 DEF Close, client, Sayings, Sends, Silence, Silent
  <2> QED BY <1>q, <2>1
<1>4. CASE Connect
  <2>1. down' = <<PeerInfoMsg>> /\ local' = [p \in LocalPath |-> NoVal] /\ PeerInfoMsg.kind = "peer"
    BY <1>4 DEF Connect, PeerInfoMsg, Msg
  <2>2. local'[LocalSubscription] = NoVal
    BY <2>1, PathFacts
  <2>3. \A k \in DOMAIN down' : down'[k].kind = "peer"
    BY <2>1
  <2> QED BY <2>2, <2>3 DEF Listed
<1>5. CASE ClientGone
  <2>1. down' = <<>> /\ local' = [p \in LocalPath |-> NoVal]
    BY <1>5 DEF ClientGone
  <2>2. local'[LocalSubscription] = NoVal
    BY <2>1, PathFacts
  <2>3. DOMAIN down' = {}
    BY <2>1
  <2> QED BY <2>2, <2>3 DEF Listed
<1>6. CASE Receive
  <2> DEFINE m == Head(down)
  <2>1. /\ DownMsg(m)
        /\ local' = [p \in LocalPath |-> IF p \in DOMAIN m.upd THEN m.upd[p] ELSE local[p]]
    BY <1>6, ReceiveEffect DEF Shape
  <2>2. /\ 1 \in DOMAIN down /\ m = down[1]
        /\ \A i \in DOMAIN down' : i + 1 \in DOMAIN down /\ down'[i] = down[i + 1]
    BY <1>6, ReceiveLength DEF Shape
  <2> HIDE DEF m
  <2>3. local'[LocalSubscription] = IF LocalSubscription \in DOMAIN m.upd THEN m.upd[LocalSubscription]
                                    ELSE local[LocalSubscription]
    BY <2>1, PathFacts
  <2>4. CASE LocalSubscription \in DOMAIN m.upd
    <3>1. m.kind = "noti" /\ m.upd = One(LocalSubscription, m.paths)
      BY <2>1, <2>4, PathFacts DEF DownMsg
    <3>2. local'[LocalSubscription] = m.paths
      BY <2>3, <2>4, <3>1, OneUpdate
    <3>3. m.paths \in SubList
      BY <2>2, <3>1 DEF Listed
    <3> QED BY <2>2, <3>2, <3>3 DEF Listed
  <2>5. CASE LocalSubscription \notin DOMAIN m.upd
    BY <2>2, <2>3, <2>5 DEF Listed
  <2> QED BY <2>4, <2>5
<1> QED BY <1>1, <1>2, <1>3, <1>4, <1>5, <1>6, Steps

LEMMA NumberedStep == ASSUME ~Repeat PROVE Shape /\ Own /\ Numbered /\ [Next]_vars => Numbered'
<1> SUFFICES ASSUME Shape, Own, Numbered, [Next]_vars, connected', serving',
                    NEW i \in DOMAIN up', Cmd \in DOMAIN up'[i].upd
             PROVE  LET c == up'[i].upd[Cmd] IN c.op = cmds'[c.id].op /\ c.path = cmds'[c.id].path
  BY DEF Numbered
<1>u. Sequence(up)
  BY SequenceFacts DEF Shape, ServerShape
<1>1. CASE Tolds
  <2>1. UNCHANGED <<serving, connected, cmds>> /\ (up' = up \/ (up # <<>> /\ up' = Tail(up)))
    BY <1>1 DEF Tolds
  <2>2. \E j \in DOMAIN up : up'[i] = up[j]
    BY <1>u, <2>1, TailEach
  <2> QED BY <2>1, <2>2 DEF Numbered
<1>2. CASE HandleSubscribe
  <2>1. UNCHANGED <<serving, connected, cmds>> /\ up # <<>> /\ up' = Tail(up)
    BY <1>2, SubscribeShape DEF client, history, Shape
  <2>2. \E j \in DOMAIN up : up'[i] = up[j]
    BY <1>u, <2>1, TailEach
  <2> QED BY <2>1, <2>2 DEF Numbered
<1>3. CASE Close
  BY <1>3 DEF Close
<1>4. CASE Connect
  <2>1. DOMAIN up' = {}
    BY <1>4 DEF Connect
  <2> QED BY <2>1
<1>5. CASE ClientGone
  BY <1>5 DEF ClientGone
<1>6. CASE Receive \/ Silence
  <2>1. UNCHANGED <<up, server, connected, cmds>>
    BY <1>6, ReceiveEffect DEF Silence, Silent, Shape
  <2> QED BY <2>1 DEF Numbered, server
<1>7. CASE Sayings
  <2>1. PICK m : /\ Sends(m) /\ connected
                 /\ \/ DOMAIN m.upd = {} /\ cmds' = cmds
                    \/ DOMAIN m.upd \subseteq UserPath /\ cmds' = cmds
                    \/ \E r \in Request, c \in Commands :
                         /\ m = ChangeMsg(One(Cmd, c)) /\ c.op = r.op /\ c.path = r.path
                         /\ c.id = Len(cmds) + 1 /\ cmds' = Append(cmds, r)
    BY <1>7, OneUpdate DEF Sayings
  <2>2. serving
    BY <2>1 DEF Sends, server
  <2>3. (i \in DOMAIN up /\ up'[i] = up[i]) \/ up'[i] = m
    BY <2>1, SendEach DEF Shape
  <2>4. cmds \in Seq(Request)
    BY DEF Shape, ClientShape
  <2>5. CASE i \in DOMAIN up /\ up'[i] = up[i]
    <3> DEFINE c == up[i].upd[Cmd]
    <3>1. c.id \in DOMAIN cmds /\ c.op = cmds[c.id].op /\ c.path = cmds[c.id].path
      BY <2>1, <2>2, <2>5 DEF Own, Numbered
    <3>2. cmds' = cmds \/ \E r \in Request : cmds' = Append(cmds, r)
      BY <2>1
    <3> HIDE DEF c
    <3>3. cmds'[c.id] = cmds[c.id]
      BY <2>4, <3>1, <3>2
    <3> QED BY <2>5, <3>1, <3>3 DEF c
  <2>6. CASE up'[i] = m
    <3>1. Cmd \notin UserPath
      BY PathFacts
    <3>2. PICK r \in Request, c \in Commands :
            /\ m = ChangeMsg(One(Cmd, c)) /\ c.op = r.op /\ c.path = r.path
            /\ c.id = Len(cmds) + 1 /\ cmds' = Append(cmds, r)
      BY <2>1, <2>6, <3>1
    <3>3. m.upd = One(Cmd, c) /\ One(Cmd, c)[Cmd] = c
      BY <3>2, ChangeMsgFacts, OneUpdate, Zenon
    <3>4. cmds'[c.id] = r
      BY <2>4, <3>2
    <3> QED BY <2>6, <3>2, <3>3, <3>4
  <2> QED BY <2>3, <2>5, <2>6
<1> QED BY <1>1, <1>2, <1>3, <1>4, <1>5, <1>6, <1>7, Steps

-----------------------------------------------------------------------------
(* Who asks is subscribed to the answers                                   *)

\* The end of a subscription is told by messages of its own.
LEMMA ChangesApart ==
  ASSUME NEW m, DownMsg(m), m.kind # "noti"
  PROVE  LocalSubscription \notin DOMAIN m.upd
BY PathFacts DEF DownMsg

\* What Subscribed says of the messages that are sent.
Asking ==
  /\ \A i \in DOMAIN up : Cmd \in DOMAIN up[i].upd =>
       Covered(Rsp, cbPaths) \/ \E j \in 1 .. i : Covered(Rsp, up[j].paths)
  /\ Covered(Rsp, lastSub) =>
       Covered(Rsp, cbPaths) \/ \E j \in DOMAIN up : Covered(Rsp, up[j].paths)

LEMMA AskingTail ==
  ASSUME Shape, Asking, up # <<>>, up' = Tail(up), lastSub' = lastSub,
         Covered(Rsp, cbPaths) \/ Covered(Rsp, Head(up).paths) => Covered(Rsp, cbPaths')
  PROVE  Asking'
<1>1. Sequence(up)
  BY SequenceFacts DEF Shape, ServerShape
<1>2. /\ 1 \in DOMAIN up /\ Head(up) = up[1]
      /\ \A i \in DOMAIN up' : i + 1 \in DOMAIN up /\ up'[i] = up[i + 1]
  BY <1>1, TailEach
<1>3. /\ Len(up) \in Nat /\ DOMAIN up = 1 .. Len(up) /\ DOMAIN up' = 1 .. Len(up) - 1
  <2>1. Sequence(up') /\ Len(up') = Len(up) - 1
    BY <1>1, SequenceTail
  <2> QED BY <1>1, <2>1, SequenceFacts
<1>4. ASSUME NEW i \in DOMAIN up', NEW j \in 1 .. i + 1, Covered(Rsp, up[j].paths)
      PROVE  Covered(Rsp, cbPaths') \/ \E k \in 1 .. i : Covered(Rsp, up'[k].paths)
  <2>1. CASE j = 1
    BY <1>2, <1>4, <2>1
  <2>2. CASE j # 1
    <3>1. j - 1 \in 1 .. i /\ j - 1 \in DOMAIN up' /\ (j - 1) + 1 = j
      BY <1>3, <2>2
    <3>2. up'[j - 1] = up[j]
      BY <1>2, <3>1
    <3> QED BY <1>4, <3>1, <3>2
  <2> QED BY <2>1, <2>2
<1>5. ASSUME NEW i \in DOMAIN up', Cmd \in DOMAIN up'[i].upd
      PROVE  Covered(Rsp, cbPaths') \/ \E k \in 1 .. i : Covered(Rsp, up'[k].paths)
  <2>1. Covered(Rsp, cbPaths) \/ \E j \in 1 .. i + 1 : Covered(Rsp, up[j].paths)
    BY <1>2, <1>5 DEF Asking
  <2> QED BY <1>4, <2>1
<1>6. ASSUME Covered(Rsp, lastSub)
      PROVE  Covered(Rsp, cbPaths') \/ \E k \in DOMAIN up' : Covered(Rsp, up'[k].paths)
  <2>1. Covered(Rsp, cbPaths) \/ \E j \in DOMAIN up : Covered(Rsp, up[j].paths)
    BY <1>6 DEF Asking
  <2>2. ASSUME NEW j \in DOMAIN up, Covered(Rsp, up[j].paths), j # 1
        PROVE  \E k \in DOMAIN up' : Covered(Rsp, up'[k].paths)
    <3>1. j - 1 \in DOMAIN up' /\ (j - 1) + 1 = j
      BY <1>3, <2>2
    <3>2. up'[j - 1] = up[j]
      BY <1>2, <3>1
    <3> QED BY <2>2, <3>1, <3>2
  <2> QED BY <1>2, <2>1, <2>2
<1> QED BY <1>5, <1>6 DEF Asking

LEMMA AskingSent ==
  ASSUME Shape, Asking, NEW m, Sends(m), serving,
         Cmd \in DOMAIN m.upd => Covered(Rsp, lastSub),
         Covered(Rsp, lastSub') => Covered(Rsp, lastSub) \/ Covered(Rsp, m.paths)
  PROVE  Asking'
<1>1. /\ Len(up') = Len(up) + 1 /\ up'[Len(up) + 1] = m
      /\ \A i \in 1 .. Len(up) : up'[i] = up[i]
  BY SendUp DEF Sends, Shape
<1>2. up \in Seq(UpMsg) /\ up' \in Seq(UpMsg)
  BY SendsShape DEF Shape, ServerShape
<1>3. /\ Len(up) \in Nat /\ DOMAIN up = 1 .. Len(up) /\ DOMAIN up' = 1 .. Len(up) + 1
      /\ Len(up) + 1 \in DOMAIN up'
      /\ \A i \in DOMAIN up : i \in DOMAIN up' /\ up'[i] = up[i]
  BY <1>1, <1>2
<1>4. cbPaths' = cbPaths
  BY DEF Sends, server
<1>5. ASSUME NEW i \in DOMAIN up', Cmd \in DOMAIN up'[i].upd
      PROVE  Covered(Rsp, cbPaths) \/ \E k \in 1 .. i : Covered(Rsp, up'[k].paths)
  <2>1. CASE i \in DOMAIN up
    <3>1. Covered(Rsp, cbPaths) \/ \E k \in 1 .. i : Covered(Rsp, up[k].paths)
      BY <1>3, <1>5, <2>1 DEF Asking
    <3>2. \A k \in 1 .. i : k \in DOMAIN up
      BY <1>3, <2>1
    <3> QED BY <1>3, <3>1, <3>2
  <2>2. CASE i \notin DOMAIN up
    <3>1. i = Len(up) + 1
      BY <1>3, <2>2
    <3>2. up'[i] = m
      BY <1>1, <3>1
    <3>3. Covered(Rsp, cbPaths) \/ \E k \in DOMAIN up : Covered(Rsp, up[k].paths)
      BY <1>5, <3>2 DEF Asking
    <3>4. \A k \in DOMAIN up : k \in 1 .. i
      BY <1>3, <3>1
    <3> QED BY <1>3, <3>3, <3>4
  <2> QED BY <2>1, <2>2
<1>6. ASSUME Covered(Rsp, lastSub')
      PROVE  Covered(Rsp, cbPaths) \/ \E k \in DOMAIN up' : Covered(Rsp, up'[k].paths)
  <2>1. CASE Covered(Rsp, lastSub)
    BY <1>3, <2>1 DEF Asking
  <2>2. CASE Covered(Rsp, m.paths)
    BY <1>1, <1>3, <2>2
  <2> QED BY <1>6, <2>1, <2>2
<1> QED BY <1>4, <1>5, <1>6 DEF Asking

\* What Subscribed says of the end of a subscription.
Told ==
  \A C \in SubList : Ends(down, Len(down), local[LocalSubscription], LocalSubscription, C) => C \subseteq cbPaths

LEMMA ToldBefore ==
  ASSUME ClientShape, NEW ms, Sequence(ms), Tell(ms), connected, NEW k \in 0 .. Len(ms),
         \A i \in 1 .. k : LocalSubscription \notin DOMAIN ms[i].upd, NEW v
  PROVE  Ends(down', Len(down) + k, local[LocalSubscription], LocalSubscription, v)
           => Ends(down, Len(down), local[LocalSubscription], LocalSubscription, v)
<1> DEFINE n == Len(down) + k
           b == local[LocalSubscription]
<1>1. /\ \A i \in 1 .. Len(down) : down'[i] = down[i]
      /\ \A i \in Len(down) + 1 .. Len(down') :
           i - Len(down) \in 1 .. Len(ms) /\ down'[i] = ms[i - Len(down)]
      /\ Len(down') = Len(down) + Len(ms)
  BY TellDown DEF ClientShape
<1>2. Len(down) \in Nat /\ Len(ms) \in Nat
  BY SequenceFacts DEF ClientShape
<1>3. n \in Nat /\ Len(down) <= n
  BY <1>2
<1>4. ASSUME NEW i \in Len(down) + 1 .. n PROVE LocalSubscription \notin DOMAIN down'[i].upd
  <2>1. i \in Len(down) + 1 .. Len(down') /\ i - Len(down) \in 1 .. k
    BY <1>1, <1>2
  <2> QED BY <1>1, <2>1
<1>5. ASSUME Ends(down', n, b, LocalSubscription, v) PROVE Ends(down, Len(down), b, LocalSubscription, v)
  <2> HIDE DEF n, b
  <2>1. Ends(down', Len(down), b, LocalSubscription, v)
    BY <1>2, <1>3, <1>4, <1>5, EndsFewer
  <2> QED BY <1>1, <1>2, <2>1, EndsSame
<1> QED BY <1>5

LEMMA ToldStep ==
  ASSUME Shape, Told, [Next]_vars, connected', serving', connected, serving
  PROVE  Told'
<1> DEFINE L == LocalSubscription
<1>1. CASE Tolds
  <2>1. PICK u, ms : Changed(u, ms) /\ UNCHANGED <<cbPaths, local>>
    BY <1>1 DEF Tolds
  <2> DEFINE P == {p \in DOMAIN u : u[p] # tree[p] /\ Covered(p, cbPaths)}
  <2>2. Tells(ms, P, u) /\ Tell(ms) /\ P \subseteq Path
    BY <2>1, PathFacts DEF Changed
  <2> HIDE DEF P
  <2>3. Sequence(ms) /\ \A i \in 1 .. Len(ms) : L \notin DOMAIN ms[i].upd
    BY <2>2, PathFacts DEF Tells
  <2>4. Len(ms) \in 0 .. Len(ms) /\ Len(down') = Len(down) + Len(ms)
    <3>1. Len(ms) \in Nat
      BY <2>3, SequenceFacts
    <3> QED BY <2>2, <2>3, <3>1, TellDown DEF Shape, ClientShape
  <2>5. ASSUME NEW C \in SubList, Ends(down', Len(down'), local[L], L, C) PROVE C \subseteq cbPaths
    <3>1. Ends(down', Len(down) + Len(ms), local[L], L, C)
      BY <2>4, <2>5
    <3>2. Ends(down, Len(down), local[L], L, C)
      BY <2>2, <2>3, <2>4, <3>1, ToldBefore DEF Shape
    <3> QED BY <3>2 DEF Told
  <2> QED BY <2>1, <2>5 DEF Told
<1>2. CASE HandleSubscribe
  <2> DEFINE D == Head(up).paths
  <2>1. PICK ms : Synchronises(ms, D) /\ Tell(ms)
    BY <1>2, SubscribeEffect DEF Shape
  <2>2. local' = local /\ cbPaths' = cbPaths \cup D
    BY <1>2, SubscribeShape DEF client, Shape
  <2> HIDE DEF D
  <2>3. /\ Sequence(ms) /\ Len(ms) \in Nat /\ Len(ms) >= 1 /\ ms[Len(ms)] = NotiMsg(D)
        /\ \A i \in 1 .. Len(ms) : DownMsg(ms[i])
        /\ \A i \in 1 .. Len(ms) - 1 : ms[i].kind # "noti"
    BY <2>1, SynchronisesDown DEF Shape
  <2>4. \A i \in 1 .. Len(ms) : i \in 1 .. Len(ms) - 1 \/ i = Len(ms)
    BY <2>3
  <2>5. \A i \in 1 .. Len(ms) - 1 : i \in 1 .. Len(ms)
    BY <2>3
  <2>6. L \in DOMAIN NotiMsg(D).upd /\ NotiMsg(D).upd[L] = D
    <3>1. NotiMsg(D).upd = One(L, D)
      BY NotiMsgFacts
    <3>2. DOMAIN One(L, D) = {L} /\ One(L, D)[L] = D
      BY OneUpdate, Zenon
    <3> QED BY <3>1, <3>2
  <2>7. \A i \in 1 .. Len(ms) : L \in DOMAIN ms[i].upd => ms[i].upd[L] = D
    <3>1. \A i \in 1 .. Len(ms) - 1 : L \notin DOMAIN ms[i].upd
      BY <2>3, <2>5, ChangesApart
    <3> QED BY <2>3, <2>4, <2>6, <3>1
  <2>8. \E i \in 1 .. Len(ms) : L \in DOMAIN ms[i].upd
    <3>1. Len(ms) \in 1 .. Len(ms)
      BY <2>3
    <3> QED BY <2>3, <2>6, <3>1
  <2> DEFINE b == local[L]
  <2>9. Ends(down', Len(down'), b, L, D)
    <3> HIDE DEF b
    <3> QED BY <2>1, <2>3, <2>7, <2>8, EndsTold DEF Shape, ClientShape
  <2>10. Len(down') \in Nat
    <3>1. Sequence(down')
      BY <2>1, <2>3, TellDown DEF Shape, ClientShape
    <3> QED BY <3>1, SequenceFacts
  <2>11. ASSUME NEW C \in SubList, Ends(down', Len(down'), b, L, C) PROVE C \subseteq cbPaths'
    <3>1. C = D
      BY <2>9, <2>10, <2>11, EndsUnique
    <3> QED BY <2>2, <3>1
  <2> QED BY <2>2, <2>11 DEF Told
<1>3. CASE Sayings \/ Silence
  <2>1. UNCHANGED <<down, server, local>>
    BY <1>3 DEF Sayings, Sends, Silence, Silent
  <2> QED BY <2>1 DEF Told, server
<1>4. CASE Receive
  <2>1. UNCHANGED server
    BY <1>4 DEF Receive
  <2>2. ASSUME NEW C \in SubList, Ends(down', Len(down'), local'[L], L, C) PROVE C \subseteq cbPaths
    <3>1. Ends(down', Len(down) - 1, local'[L], L, C)
      BY <1>4, <2>2, ReceiveLength DEF Shape
    <3>2. Ends(down, Len(down), local[L], L, C)
      BY <1>4, <3>1, EndsReceived, ReceiveLength, PathFacts DEF Shape
    <3> QED BY <3>2 DEF Told
  <2> QED BY <2>1, <2>2 DEF Told, server
<1>5. CASE Close \/ ClientGone \/ Connect
  BY <1>5 DEF Close, ClientGone, Connect
<1> QED BY <1>1, <1>2, <1>3, <1>4, <1>5, Steps

LEMMA SubscribedParts ==
  Subscribed <=> /\ ~connected => lastSub = {}
                 /\ connected /\ serving => Told /\ Asking /\ (tree[Rsp] # NoVal => Covered(Rsp, cbPaths))
BY DEF Subscribed, Told, Asking

LEMMA SubscribedStep == Shape /\ Subscribed /\ [Next]_vars => Subscribed'
<1> SUFFICES ASSUME Shape, Subscribed, [Next]_vars
             PROVE  /\ ~connected' => lastSub' = {}
                    /\ connected' /\ serving' =>
                         /\ Told' /\ Asking'
                         /\ tree'[Rsp] # NoVal => Covered(Rsp, cbPaths')
  BY SubscribedParts DEF Subscribed, Told, Asking
<1>0. ~connected => lastSub = {}
  BY SubscribedParts
<1>s. connected /\ serving => Told /\ Asking /\ (tree[Rsp] # NoVal => Covered(Rsp, cbPaths))
  BY SubscribedParts
<1>t. connected /\ serving /\ connected' /\ serving' => Told'
  BY <1>s, ToldStep
<1>1. CASE Tolds
  <2>1. PICK u, ms : /\ Changed(u, ms)
                     /\ UNCHANGED <<serving, cbPaths, connected, lastSub>>
                     /\ \/ up' = up /\ DOMAIN u \subseteq UserPath
                        \/ /\ serving /\ up # <<>> /\ up' = Tail(up)
                           /\ Head(up).kind = "change" /\ Answered(Head(up).upd, u)
    BY <1>1 DEF Tolds
  <2>2. tree'[Rsp] = IF Rsp \in DOMAIN u THEN u[Rsp] ELSE tree[Rsp]
    <3>1. tree' = [p \in Path |-> IF p \in DOMAIN u THEN u[p] ELSE tree[p]]
      BY <2>1 DEF Changed
    <3> QED BY <3>1, PathFacts
  <2>3. SUFFICES ASSUME connected, serving
                 PROVE  Asking' /\ (tree'[Rsp] # NoVal => Covered(Rsp, cbPaths))
    BY <1>0, <1>t, <2>1
  <2>4. CASE up' = up /\ DOMAIN u \subseteq UserPath
    BY <1>s, <2>1, <2>2, <2>3, <2>4, PathFacts DEF Asking
  <2>5. CASE /\ up # <<>> /\ up' = Tail(up)
             /\ Head(up).kind = "change" /\ Answered(Head(up).upd, u)
    <3>1. Head(up) \in UpMsg /\ Head(up) = up[1] /\ 1 \in DOMAIN up
      BY <2>5, UpTail DEF Shape, ServerShape
    <3>2. Head(up).upd \in UserUpdate \cup CmdUpdate /\ Head(up).paths = {}
      BY <2>5, <3>1, UpMsgFacts
    <3>3. ~Covered(Rsp, Head(up).paths)
      BY <3>2 DEF Covered
    <3>4. Asking'
      BY <1>s, <2>1, <2>3, <2>5, <3>3, AskingTail
    <3>5. ASSUME Rsp \in DOMAIN u PROVE Covered(Rsp, cbPaths)
      <4>1. Rsp \notin DOMAIN Head(up).upd
        BY <3>2, UpdateFacts, PathFacts
      <4>2. Cmd \in DOMAIN up[1].upd
        BY <2>5, <3>1, <3>5, <4>1 DEF Answered
      <4>3. Covered(Rsp, cbPaths) \/ \E j \in 1 .. 1 : Covered(Rsp, up[j].paths)
        BY <1>s, <2>3, <3>1, <4>2 DEF Asking
      <4> QED BY <3>1, <3>3, <4>3
    <3> QED BY <1>s, <2>2, <2>3, <3>4, <3>5
  <2> QED BY <2>1, <2>4, <2>5
<1>2. CASE HandleSubscribe
  <2>1. /\ serving /\ serving' = serving /\ tree' = tree /\ up # <<>> /\ up' = Tail(up)
        /\ cbPaths' = cbPaths \cup Head(up).paths /\ connected' = connected /\ lastSub' = lastSub
    BY <1>2, SubscribeShape DEF client, history, Shape
  <2>2. Covered(Rsp, cbPaths) \/ Covered(Rsp, Head(up).paths) => Covered(Rsp, cbPaths')
    BY <2>1 DEF Covered
  <2>3. connected => Asking'
    BY <1>s, <2>1, <2>2, AskingTail
  <2> QED BY <1>0, <1>s, <1>t, <2>1, <2>2, <2>3
<1>3. CASE Close
  BY <1>0, <1>3 DEF Close, client, history
<1>4. CASE Sayings
  <2>1. PICK m : /\ Sends(m) /\ connected
                 /\ Cmd \in DOMAIN m.upd => Covered(Rsp, lastSub)
                 /\ lastSub' = m.paths \/ lastSub' = lastSub
    <3>1. PICK m : /\ Sends(m) /\ connected
                   /\ \/ DOMAIN m.upd = {} /\ lastSub' = m.paths
                      \/ DOMAIN m.upd \subseteq UserPath /\ lastSub' = lastSub
                      \/ Covered(Rsp, lastSub) /\ lastSub' = lastSub
      BY <1>4, OneUpdate DEF Sayings
    <3> QED BY <3>1, PathFacts
  <2>2. UNCHANGED <<tree, serving, cbPaths, connected>>
    BY <2>1 DEF Sends, server
  <2>3. serving => Asking'
    BY <1>s, <2>1, AskingSent
  <2> QED BY <1>s, <1>t, <2>1, <2>2, <2>3
<1>5. CASE Connect
  <2>1. /\ ~connected /\ ~serving /\ connected' = TRUE /\ lastSub' = lastSub /\ cbPaths' = cbPaths
        /\ tree' = [tree EXCEPT ![SID] = Online] /\ down' = <<PeerInfoMsg>> /\ up' = <<>>
        /\ local' = [p \in LocalPath |-> NoVal]
    BY <1>5 DEF Connect
  <2>2. lastSub' = {} /\ DOMAIN up' = {}
    BY <1>0, <2>1
  <2>3. Asking'
    BY <2>2 DEF Asking, Covered
  <2>4. tree'[Rsp] = NoVal
    BY <2>1, PathFacts DEF Shape, ServerShape
  <2>5. Len(down') = 1 /\ DOMAIN down'[1].upd = {}
    BY <2>1 DEF PeerInfoMsg, Msg, Empty
  <2>6. local'[LocalSubscription] = NoVal
    BY <2>1, PathFacts
  <2>7. \A C : Ends(down', Len(down'), local'[LocalSubscription], LocalSubscription, C) => C = NoVal
    BY <2>5, <2>6 DEF Ends
  <2>8. Told'
    BY <2>7, SessionAssumption DEF Told
  <2> QED BY <2>1, <2>3, <2>4, <2>8
<1>6. CASE ClientGone
  BY <1>6 DEF ClientGone
<1>7. CASE Receive \/ Silence
  <2>1. UNCHANGED <<up, tree, serving, cbPaths, connected, lastSub>>
    BY <1>7, ReceiveEffect DEF Silence, Silent, server, Shape
  <2> QED BY <1>0, <1>s, <1>t, <2>1 DEF Asking
<1> QED BY <1>1, <1>2, <1>3, <1>4, <1>5, <1>6, <1>7, Steps

-----------------------------------------------------------------------------
(* Answers are current                                                     *)

LEMMA AboveParent ==
  ASSUME NEW p, Sequence(p), NEW n \in Above(p) \ {<<>>}
  PROVE  Parent(n) \in Above(p)
<1>1. PICK S : p \in Seq(S)
  BY DEF Sequence
<1>2. PICK k \in 0 .. Len(p) : n = SubSeq(p, 1, k)
  BY DEF Above
<1>3. Len(p) \in Nat /\ k \in Nat /\ k <= Len(p)
  BY <1>1, <1>2
<1>4. n \in Seq(S) /\ Len(n) = k
  BY <1>1, <1>2, <1>3
<1>5. k # 0
  BY <1>4
<1>6. k - 1 \in 0 .. Len(p)
  BY <1>3, <1>5
<1>7. SubSeq(n, 1, k - 1) = SubSeq(p, 1, k - 1)
  BY <1>1, <1>2, <1>3, <1>4, <1>5
<1> QED BY <1>4, <1>6, <1>7 DEF Parent, Above

\* What the provider answers agrees with the objects that there are.
LEMMA AnswerAgrees ==
  ASSUME Shape, Noded, NEW c, NEW r, c.op = r.op, c.path = r.path, NEW p \in UserPath
  PROVE  /\ Agrees(Answer(c), r, p, tree[p])
         /\ r.op = "cat" /\ r.path \notin Path => Answer(c).rsp = NoVal
<1>1. Answer(c).rsp = Found(tree, node, c)
  BY DEF Answer
<1>2. p \in Path
  BY PathFacts
<1>3. CASE r.op = "cat"
  <2>1. Found(tree, node, c) = IF r.path \in Path THEN tree[r.path] ELSE NoVal
    BY <1>3 DEF Found
  <2> QED BY <1>1, <1>2, <1>3, <2>1 DEF Agrees
<1>4. ASSUME r.op = "ls", tree[p] # NoVal, r.path \in Above(p)
      PROVE  /\ Answer(c).rsp # NoVal
             /\ \A n \in Above(p) \ {<<>>} : Parent(n) = r.path => Last(n) \in Answer(c).rsp
  <2> DEFINE names == {Last(q) : q \in {m \in node \ {<<>>} : Parent(m) = r.path}}
  <2>1. Above(p) \subseteq node
    BY <1>2, <1>4 DEF Shape, ServerShape
  <2>2. Found(tree, node, c) = names
    <3>1. c.op = "ls" /\ c.path \in node /\ c.path = r.path
      BY <1>4, <2>1
    <3> QED BY <3>1 DEF Found
  <2>3. names # NoVal
    <3>1. names \in SUBSET {Last(n) : n \in Nodes \ {<<>>}}
      BY DEF Noded
    <3> HIDE DEF names
    <3> QED BY <3>1, NamesAssumption
  <2>4. \A n \in Above(p) \ {<<>>} : Parent(n) = r.path => Last(n) \in names
    BY <2>1
  <2> QED BY <1>1, <2>2, <2>3, <2>4
<1>5. r.op = "ls" => r.op # "cat"
  OBVIOUS
<1>6. CASE r.op # "cat"
  BY <1>4, <1>6 DEF Agrees
<1> QED BY <1>3, <1>6

\* It stays so when messages come after it.
LEMMA AgreedBefore ==
  ASSUME Shape, Sequence(down), NEW ms, Sequence(ms), Tell(ms), connected, local' = local, cmds' = cmds,
         NEW k \in DOMAIN down, Agreed(k)
  PROVE  Agreed(k)' /\ down'[k] = down[k]
<1>1. \A i \in 1 .. Len(down) : down'[i] = down[i]
  BY TellDown
<1>2. /\ k \in Nat /\ k - 1 \in Nat /\ k \in 1 .. Len(down)
      /\ \A i \in 1 .. k : i \in 1 .. Len(down)
      /\ \A i \in 1 .. k - 1 : i \in 1 .. Len(down)
  <2>1. Len(down) \in Nat /\ DOMAIN down = 1 .. Len(down)
    BY SequenceFacts
  <2> QED BY <2>1
<1>3. /\ \A i \in 1 .. k : down'[i] = down[i]
      /\ \A i \in 1 .. k - 1 : down'[i] = down[i]
  BY <1>1, <1>2
<1>4. \A b, p, v : Ends(down, k, b, p, v) <=> Ends(down', k, b, p, v)
  BY <1>2, <1>3, EndsSame
<1>5. \A b, p, v : Ends(down, k - 1, b, p, v) <=> Ends(down', k - 1, b, p, v)
  BY <1>2, <1>3, EndsSame
<1>6. down'[k] = down[k]
  BY <1>1, <1>2
<1> QED BY <1>4, <1>5, <1>6 DEF Agreed

\* The answer that the provider puts: nothing else that the client follows changes.
LEMMA AgreedChanged ==
  ASSUME Shape, Shape', Follows, Noded, Subscribed, Numbered, connected, serving, up # <<>>,
         NEW u, NEW ms, Changed(u, ms), Answered(Head(up).upd, u), UNCHANGED <<local, cmds>>,
         NEW k \in Len(down) + 1 .. Len(down'), Rsp \in DOMAIN down'[k].upd
  PROVE  Agreed(k)'
<1> DEFINE P == {p \in DOMAIN u : u[p] # tree[p] /\ Covered(p, cbPaths)}
           h == Head(up).upd
           c == h[Cmd]
           a == down'[k].upd[Rsp]
           r == cmds[a.id]
           L == LocalSubscription
<1>1. Head(up) \in UpMsg /\ Head(up) = up[1] /\ 1 \in DOMAIN up
  BY UpTail DEF Shape, ServerShape
<1>2. h \in UserUpdate \cup CmdUpdate
  BY <1>1, UpMsgFacts
<1>3. Tells(ms, P, u) /\ Tell(ms) /\ P \subseteq Path /\ P \subseteq DOMAIN u
  BY PathFacts DEF Changed
<1>4. Sequence(ms) /\ Sequence(down)
  BY <1>3 DEF Tells, Shape, ClientShape
<1>5. /\ Len(down) \in Nat /\ Len(ms) \in Nat
      /\ Len(down') = Len(down) + Len(ms)
      /\ \A i \in 1 .. Len(down) : down'[i] = down[i]
      /\ \A i \in Len(down) + 1 .. Len(down') :
           i - Len(down) \in 1 .. Len(ms) /\ down'[i] = ms[i - Len(down)]
  BY <1>3, <1>4, TellDown, SequenceFacts
<1>6. /\ k \in Nat /\ Len(down) <= k
      /\ \A i \in Len(down) + 1 .. k : i \in Len(down) + 1 .. Len(down')
  BY <1>5
<1> HIDE DEF P
<1>7. \A i \in Len(down) + 1 .. Len(down') :
        DOMAIN down'[i].upd \subseteq P /\ \A p \in DOMAIN down'[i].upd : down'[i].upd[p] = u[p]
  BY <1>3, <1>5 DEF Tells
<1>8. Rsp \in DOMAIN u /\ a = u[Rsp]
  BY <1>3, <1>7
<1>9. Rsp \notin DOMAIN h
  BY <1>2, UpdateFacts, PathFacts
<1>10. DOMAIN h = {Cmd} /\ c \in Commands /\ a = Answer(c)
  BY <1>8, <1>9 DEF Answered
<1>11. DOMAIN u \subseteq {Cmd, Rsp}
  BY <1>10 DEF Answered
<1>12. a.id = c.id
  BY <1>10 DEF Answer
<1>13. c.op = r.op /\ c.path = r.path
  BY <1>1, <1>10, <1>12 DEF Numbered
<1>14. \A i \in Len(down) + 1 .. k : \A p \in DOMAIN down'[i].upd : p = Cmd \/ p = Rsp
  BY <1>3, <1>6, <1>7, <1>11
<1> HIDE DEF h, c, r
<1>15. ASSUME NEW C \in SubList, NEW p \in UserPath, NEW v \in Value,
              Ends(down', k, local[L], L, C), Covered(p, C), Ends(down', k, local[p], p, v)
       PROVE  Agrees(a, r, p, v)
  <2>1. \A i \in Len(down) + 1 .. k : L \notin DOMAIN down'[i].upd /\ p \notin DOMAIN down'[i].upd
    BY <1>14, PathFacts
  <2> DEFINE bl == local[L]
             bp == local[p]
  <2> HIDE DEF bl, bp
  <2>2. Ends(down', Len(down), bl, L, C) /\ Ends(down', Len(down), bp, p, v)
    BY <1>5, <1>6, <1>15, <2>1, EndsFewer DEF bl, bp
  <2>3. Ends(down, Len(down), bl, L, C) /\ Ends(down, Len(down), bp, p, v)
    BY <1>5, <2>2, EndsSame
  <2>4. C \subseteq cbPaths
    BY <2>3 DEF Subscribed, bl
  <2>5. Covered(p, cbPaths)
    BY <1>15, <2>4 DEF Covered
  <2>6. Ends(down, Len(down), bp, p, tree[p])
    BY <2>5, PathFacts DEF Follows, bp
  <2>7. v = tree[p]
    BY <1>5, <2>3, <2>6, EndsUnique
  <2>8. Agrees(Answer(c), r, p, tree[p])
    BY <1>13, AnswerAgrees
  <2> QED BY <1>10, <2>7, <2>8
<1>16. r.op = "cat" /\ r.path \notin Path => a.rsp = NoVal
  <2>1. ASSUME r.op = "cat", r.path \notin Path PROVE a.rsp = NoVal
    <3>1. Answer(c).rsp = Found(tree, node, c)
      BY DEF Answer
    <3>2. Found(tree, node, c) = NoVal
      BY <1>13, <2>1 DEF Found
    <3> QED BY <1>10, <3>1, <3>2
  <2> QED BY <2>1
<1> QED BY <1>15, <1>16 DEF Agreed, r

LEMMA SessionPrefix == IsPrefix(SID, Rsp) /\ IsPrefix(Rsp, Rsp)
<1> DEFINE S == {"proc", "session", "SID", "cmd", "rsp"}
<1>1. SID \in Seq(S) /\ "rsp" \in S
  BY DEF SID
<1>2. ASSUME NEW T, NEW s \in Seq(T), NEW e \in T PROVE IsPrefix(s, Append(s, e)) /\ IsPrefix(s, s)
  BY DEF IsPrefix
<1> HIDE DEF S
<1>3. Rsp \in Seq(S)
  BY <1>1, AppendElement DEF Rsp
<1>4. IsPrefix(SID, Rsp)
  BY <1>1, <1>2 DEF Rsp
<1>5. IsPrefix(Rsp, Rsp)
  BY <1>1, <1>2, <1>3
<1> QED BY <1>4, <1>5

\* The objects that a subscription finds: the client holds the answer among them.
LEMMA AgreedSubscribed ==
  ASSUME Shape, Follows, Subscribed, connected, serving, NEW C, NEW ms, Synchronises(ms, C), Tell(ms),
         local' = local, NEW k \in Len(down) + 1 .. Len(down'), Rsp \in DOMAIN down'[k].upd
  PROVE  Agreed(k)'
<1> DEFINE a == down'[k].upd[Rsp]
           b == local[Rsp]
<1>1. /\ Sequence(ms) /\ Len(ms) \in Nat /\ Len(ms) >= 1 /\ ms[Len(ms)] = NotiMsg(C)
      /\ \A i \in 1 .. Len(ms) - 1 :
           \A p \in DOMAIN ms[i].upd : tree[p] # NoVal /\ ms[i].upd[p] = tree[p]
  BY SynchronisesDown DEF Shape
<1>2. Rsp \notin DOMAIN NotiMsg(C).upd
  <2>1. DOMAIN NotiMsg(C).upd = {LocalSubscription}
    BY NotiMsgFacts, OneUpdate
  <2> QED BY <2>1, PathFacts
<1>3. Sequence(down)
  BY DEF Shape, ClientShape
<1>4. /\ Len(down) \in Nat
      /\ Len(down') = Len(down) + Len(ms)
      /\ \A i \in 1 .. Len(down) : down'[i] = down[i]
      /\ \A i \in Len(down) + 1 .. Len(down') :
           i - Len(down) \in 1 .. Len(ms) /\ down'[i] = ms[i - Len(down)]
  BY <1>1, <1>3, TellDown, SequenceFacts
<1>5. \A i \in 1 .. Len(ms) : i = Len(ms) \/ i \in 1 .. Len(ms) - 1
  BY <1>1
<1>6. \A i \in 1 .. Len(ms) : Rsp \in DOMAIN ms[i].upd => tree[Rsp] # NoVal /\ ms[i].upd[Rsp] = tree[Rsp]
  BY <1>1, <1>2, <1>5
<1>7. a = tree[Rsp] /\ tree[Rsp] # NoVal
  BY <1>4, <1>6
<1>8. Covered(Rsp, cbPaths)
  BY <1>7 DEF Subscribed
<1>9. /\ k - 1 \in Nat /\ Len(down) <= k - 1
      /\ \A i \in Len(down) + 1 .. k - 1 : i \in Len(down) + 1 .. Len(down')
  BY <1>1, <1>4
<1> HIDE DEF a, b
<1>10. Ends(down, Len(down), b, Rsp, a)
  BY <1>7, <1>8, PathFacts DEF Follows, b
<1>11. Ends(down', Len(down), b, Rsp, a)
  BY <1>4, <1>10, EndsSame
<1>12. \A i \in Len(down) + 1 .. k - 1 : Rsp \in DOMAIN down'[i].upd => down'[i].upd[Rsp] = a
  BY <1>4, <1>6, <1>7, <1>9
<1>13. Ends(down', k - 1, b, Rsp, a)
  BY <1>4, <1>9, <1>11, <1>12, EndsMore
<1> QED BY <1>13 DEF Agreed, a, b

LEMMA AgreedReceived ==
  ASSUME Shape, Receive, NEW k \in DOMAIN down', k + 1 \in DOMAIN down, Agreed(k + 1)
  PROVE  Agreed(k)'
<1> DEFINE a == down'[k].upd[Rsp]
           L == LocalSubscription
<1>1. /\ down'[k] = down[k + 1] /\ k + 1 \in 1 .. Len(down) /\ (k + 1) - 1 = k
  BY ReceiveLength DEF Shape
<1>2. k \in 1 .. Len(down) /\ k \in Nat
  <2>1. Sequence(down') /\ Len(down') = Len(down) - 1
    BY ReceiveLength, ReceiveShape DEF Shape, ClientShape
  <2>2. k \in 1 .. Len(down') /\ Len(down') \in Nat
    BY <2>1, SequenceFacts
  <2>3. Len(down) \in Nat
    BY DownLength DEF Shape
  <2> QED BY <2>1, <2>2, <2>3
<1>3. UNCHANGED cmds
  BY ReceiveEffect DEF Shape
<1>4. \A p \in LocalPath : \A v : Ends(down, k + 1, local[p], p, v) <=> Ends(down', k, local'[p], p, v)
  BY <1>1, EndsReceived DEF Shape
<1>5. \A p \in LocalPath : \A v : Ends(down, k, local[p], p, v) <=> Ends(down', k - 1, local'[p], p, v)
  BY <1>2, EndsReceived DEF Shape
<1>6. Rsp \in LocalPath /\ L \in LocalPath /\ UserPath \subseteq LocalPath
  BY PathFacts
<1>7. \/ a = NoVal
      \/ Ends(down, (k + 1) - 1, local[Rsp], Rsp, a)
      \/ /\ cmds[a.id].op = "cat" /\ cmds[a.id].path \notin Path => a.rsp = NoVal
         /\ \A C \in SubList, p \in UserPath, v \in Value :
              /\ Ends(down, k + 1, local[L], L, C)
              /\ Covered(p, C)
              /\ Ends(down, k + 1, local[p], p, v)
              => Agrees(a, cmds[a.id], p, v)
  BY <1>1 DEF Agreed
<1> HIDE DEF a
<1>8. CASE a = NoVal
  BY <1>8 DEF Agreed, a
<1>9. CASE Ends(down, (k + 1) - 1, local[Rsp], Rsp, a)
  <2>1. Ends(down', k - 1, local'[Rsp], Rsp, a)
    BY <1>1, <1>5, <1>6, <1>9
  <2> QED BY <2>1 DEF Agreed, a
<1>10. CASE /\ cmds[a.id].op = "cat" /\ cmds[a.id].path \notin Path => a.rsp = NoVal
            /\ \A C \in SubList, p \in UserPath, v \in Value :
                 /\ Ends(down, k + 1, local[L], L, C)
                 /\ Covered(p, C)
                 /\ Ends(down, k + 1, local[p], p, v)
                 => Agrees(a, cmds[a.id], p, v)
  <2>1. \A C \in SubList, p \in UserPath, v \in Value :
          /\ Ends(down', k, local'[L], L, C)
          /\ Covered(p, C)
          /\ Ends(down', k, local'[p], p, v)
          => Agrees(a, cmds[a.id], p, v)
    BY <1>4, <1>6, <1>10
  <2> QED BY <1>3, <1>10, <2>1 DEF Agreed, a
<1> QED BY <1>7, <1>8, <1>9, <1>10

LEMMA AgreeingStep ==
  Shape /\ Shape' /\ Own /\ Follows /\ Noded /\ Subscribed /\ Numbered /\ Agreeing /\ [Next]_vars => Agreeing'
<1> SUFFICES ASSUME Shape, Shape', Own, Follows, Noded, Subscribed, Numbered, Agreeing, [Next]_vars,
                    connected', NEW k \in DOMAIN down', Rsp \in DOMAIN down'[k].upd
             PROVE  Agreed(k)'
  BY DEF Agreeing
<1>s. /\ Sequence(down) /\ Len(down) \in Nat /\ DOMAIN down = 1 .. Len(down)
      /\ Sequence(down') /\ Len(down') \in Nat /\ DOMAIN down' = 1 .. Len(down')
  BY SequenceFacts DEF Shape, ClientShape
<1>k. k \in DOMAIN down \/ k \in Len(down) + 1 .. Len(down')
  BY <1>s
<1>1. CASE Tolds
  <2>1. PICK u, ms : /\ Changed(u, ms) /\ UNCHANGED <<connected, local, cmds>>
                     /\ \/ up' = up /\ DOMAIN u \subseteq UserPath
                        \/ /\ serving /\ up # <<>> /\ Answered(Head(up).upd, u)
    BY <1>1 DEF Tolds
  <2>2. Sequence(ms) /\ Tell(ms)
    BY <2>1 DEF Changed, Tells
  <2>3. CASE k \in DOMAIN down
    <3>1. down'[k] = down[k]
      BY <1>s, <2>1, <2>2, <2>3, TellDown
    <3>2. Agreed(k)
      BY <2>1, <2>3, <3>1 DEF Agreeing
    <3> QED BY <1>s, <2>1, <2>2, <2>3, <3>2, AgreedBefore
  <2>4. CASE k \in Len(down) + 1 .. Len(down')
    <3> DEFINE P == {p \in DOMAIN u : u[p] # tree[p] /\ Covered(p, cbPaths)}
    <3>1. k - Len(down) \in 1 .. Len(ms) /\ down'[k] = ms[k - Len(down)]
      BY <1>s, <2>1, <2>2, <2>4, TellDown
    <3>2. Tells(ms, P, u) /\ P \subseteq DOMAIN u
      BY <2>1 DEF Changed
    <3> HIDE DEF P
    <3>3. Rsp \in DOMAIN u
      BY <3>1, <3>2 DEF Tells
    <3>4. serving /\ up # <<>> /\ Answered(Head(up).upd, u)
      BY <2>1, <3>3, PathFacts
    <3> QED BY <2>1, <2>4, <3>4, AgreedChanged
  <2> QED BY <1>k, <2>3, <2>4
<1>2. CASE HandleSubscribe
  <2> DEFINE C == Head(up).paths
  <2>1. PICK ms : Synchronises(ms, C) /\ Tell(ms)
    BY <1>2, SubscribeEffect DEF Shape
  <2>2. serving /\ UNCHANGED <<connected, local, cmds>>
    BY <1>2, SubscribeShape DEF client, history, Shape
  <2> HIDE DEF C
  <2>3. Sequence(ms)
    BY <2>1, SynchronisesDown DEF Shape
  <2>4. CASE k \in DOMAIN down
    <3>1. down'[k] = down[k]
      BY <1>s, <2>1, <2>2, <2>3, <2>4, TellDown
    <3>2. Agreed(k)
      BY <2>2, <2>4, <3>1 DEF Agreeing
    <3> QED BY <1>s, <2>1, <2>2, <2>3, <2>4, <3>2, AgreedBefore
  <2>5. CASE k \in Len(down) + 1 .. Len(down')
    BY <2>1, <2>2, <2>5, AgreedSubscribed
  <2> QED BY <1>k, <2>4, <2>5
<1>3. CASE Close \/ Silence
  <2>1. UNCHANGED <<down, connected, local, cmds>>
    BY <1>3 DEF Close, client, history, Silence, Silent
  <2> QED BY <2>1 DEF Agreeing, Agreed
<1>4. CASE Sayings
  <2>1. UNCHANGED <<down, connected, local>> /\ (cmds' = cmds \/ \E r \in Request : cmds' = Append(cmds, r))
    BY <1>4 DEF Sayings, Sends
  <2> DEFINE a == down[k].upd[Rsp]
  <2>2. Agreed(k) /\ (a # NoVal => a.id \in DOMAIN cmds)
    BY <2>1 DEF Agreeing, Own, OwnAnswer
  <2>3. \A i \in DOMAIN cmds : cmds'[i] = cmds[i]
    <3>1. cmds \in Seq(Request)
      BY DEF Shape, ClientShape
    <3> QED BY <2>1, <3>1
  <2> HIDE DEF a
  <2>4. a = NoVal \/ cmds'[a.id] = cmds[a.id]
    BY <2>2, <2>3
  <2> QED BY <2>1, <2>2, <2>4 DEF Agreed, a
<1>5. CASE Connect
  <2>1. down' = <<PeerInfoMsg>> /\ DOMAIN PeerInfoMsg.upd = {}
    BY <1>5 DEF Connect, PeerInfoMsg, Msg, Empty
  <2>2. down'[k] = PeerInfoMsg
    BY <2>1
  <2> QED BY <2>1, <2>2
<1>6. CASE ClientGone
  BY <1>6 DEF ClientGone
<1>7. CASE Receive
  <2>1. k + 1 \in DOMAIN down /\ down'[k] = down[k + 1] /\ connected
    BY <1>7, ReceiveLength, ReceiveEffect DEF Shape
  <2>2. Agreed(k + 1)
    BY <2>1 DEF Agreeing
  <2> QED BY <1>7, <2>1, <2>2, AgreedReceived
<1> QED BY <1>1, <1>2, <1>3, <1>4, <1>5, <1>6, <1>7, Steps

(* An answer says of what the client is subscribed to what the client's own     *)
(* tree says when the answer arrives, as long as every command has an id of its *)
(* own: it is put in the server's tree among the other changes, and comes to    *)
(* the client among them (ObexInfoProvider.cpp:151-209, ObexServer.cpp:180-226).*)
THEOREM SessionAnswersCurrentCorrect ==
  ASSUME ~Repeat
  PROVE  Spec => AnswersCurrent
<1> DEFINE A == connected' /\ local'[Rsp] \notin {local[Rsp], NoVal}
                => LET r    == cmds[local'[Rsp].id]
                       C    == IF local[LocalSubscription] = NoVal THEN {} ELSE local[LocalSubscription]
                       held == {p \in UserPath : local'[p] # NoVal /\ \E c \in C : Covers(c, p)}
                       has  == Found(local', UNION {Above(p) : p \in held}, r)
                   IN /\ r.op = "cat" /\ (\E c \in C : Covers(c, r.path)) => local'[Rsp].rsp = has
                      /\ r.op = "ls" /\ has # NoVal => local'[Rsp].rsp # NoVal /\ has \subseteq local'[Rsp].rsp
           Inv == /\ Shape /\ Own /\ Follows /\ Noded /\ Listed
                  /\ Subscribed /\ Numbered /\ Agreeing
<1>1. Init => Inv
  <2>1. Init => Own /\ Follows /\ Subscribed /\ Numbered /\ Agreeing
    BY DEF Init, Own, Follows, Subscribed, Numbered, Agreeing
  <2>2. Init => Noded
    BY DEF Init, Noded, Nodes
  <2>3. Init => Listed
    <3> SUFFICES ASSUME Init PROVE Listed
      OBVIOUS
    <3>1. down = <<>> /\ local = [p \in LocalPath |-> NoVal]
      BY DEF Init
    <3>2. local[LocalSubscription] = NoVal /\ DOMAIN down = {}
      BY <3>1, PathFacts
    <3> QED BY <3>2 DEF Listed
  <2> QED BY <2>1, <2>2, <2>3, ShapeInit
<1>2. Inv /\ [Next]_vars => Inv'
  <2> SUFFICES ASSUME Inv, [Next]_vars PROVE Inv'
    OBVIOUS
  <2>1. Shape' /\ Own' /\ Follows'
    BY ShapeStep, OwnStep, FollowsStep
  <2>2. Noded' /\ Listed' /\ Subscribed' /\ Numbered'
    BY NodedStep, ListedStep, SubscribedStep, NumberedStep
  <2>3. Agreeing'
    BY <2>1, AgreeingStep
  <2> QED BY <2>1, <2>2, <2>3
<1>3. Inv /\ [Next]_vars => [A]_vars
  <2> DEFINE L == LocalSubscription
             C == IF local[L] = NoVal THEN {} ELSE local[L]
             a == local'[Rsp]
             r == cmds[a.id]
             held == {p \in UserPath : local'[p] # NoVal /\ Covered(p, C)}
             has  == Found(local', UNION {Above(p) : p \in held}, r)
  <2>1. SUFFICES ASSUME Inv, [Next]_vars, connected', a \notin {local[Rsp], NoVal}
                 PROVE  /\ r.op = "cat" /\ Covered(r.path, C) => a.rsp = has
                        /\ r.op = "ls" /\ has # NoVal => a.rsp # NoVal /\ has \subseteq a.rsp
    BY Zenon DEF Covered
  <2>2. Receive
    <3>1. ~(Tolds \/ HandleSubscribe \/ Close \/ Sayings \/ Silence)
      BY <2>1 DEF Tolds, HandleSubscribe, Close, Sayings, Sends, Silence, Silent, client
    <3>2. ~Connect
      <4>1. Connect => local'[Rsp] = NoVal
        BY PathFacts DEF Connect
      <4> QED BY <2>1, <4>1
    <3>3. ~ClientGone
      BY <2>1 DEF ClientGone
    <3> QED BY <2>1, <3>1, <3>2, <3>3, Steps
  <2> DEFINE m == Head(down)
  <2>3. /\ DownMsg(m) /\ connected
        /\ local' = [p \in LocalPath |-> IF p \in DOMAIN m.upd THEN m.upd[p] ELSE local[p]]
    BY <2>1, <2>2, ReceiveEffect DEF Shape
  <2>4. 1 \in DOMAIN down /\ m = down[1] /\ 1 \in 1 .. Len(down)
    <3>1. 1 \in DOMAIN down /\ m = down[1]
      BY <2>1, <2>2, ReceiveLength DEF Shape
    <3> QED BY <2>1, <3>1, DownLength DEF Shape
  <2>5. Rsp \in DOMAIN m.upd /\ m.upd[Rsp] = a
    BY <2>1, <2>3, PathFacts
  <2>6. local'[L] = local[L]
    <3>1. m.kind # "noti"
      <4>1. DOMAIN One(L, m.paths) = {L} /\ L # Rsp
        BY OneUpdate, PathFacts
      <4> QED BY <2>3, <2>5, <4>1 DEF DownMsg
    <3>2. L \notin DOMAIN m.upd
      BY <2>3, <3>1, ChangesApart
    <3> QED BY <2>3, <3>2, PathFacts
  <2>7. \A p \in LocalPath : \A v : Ends(down, 1, local[p], p, v) <=> local'[p] = v
    <3>1. \A p \in LocalPath : \A v : Ends(down, 1, local[p], p, v) <=> Ends(down', 1 - 1, local'[p], p, v)
      BY <2>1, <2>2, <2>4, EndsReceived DEF Shape
    <3>2. \A p \in LocalPath : \A v : Ends(down, 1, local[p], p, v) <=> Ends(down', 0, local'[p], p, v)
      BY <3>1
    <3> QED BY <3>2, EndsNone
  <2> HIDE DEF C, a, r, held, has, m, L
  <2>8. /\ r.op = "cat" /\ r.path \notin Path => a.rsp = NoVal
        /\ \A D \in SubList, p \in UserPath, v \in Value :
             local'[L] = D /\ Covered(p, D) /\ local'[p] = v => Agrees(a, r, p, v)
    <3>1. Agreed(1)
      BY <2>1, <2>3, <2>4, <2>5 DEF Agreeing
    <3>2. ~Ends(down, 1 - 1, local[Rsp], Rsp, a)
      <4>1. ~Ends(down, 0, local[Rsp], Rsp, a)
        BY <2>1, EndsNone
      <4> QED BY <4>1
    <3>3. down[1].upd[Rsp] = a /\ a # NoVal
      BY <2>1, <2>4, <2>5
    <3>4. /\ cmds[a.id].op = "cat" /\ cmds[a.id].path \notin Path => a.rsp = NoVal
          /\ \A D \in SubList, p \in UserPath, v \in Value :
               /\ Ends(down, 1, local[L], L, D)
               /\ Covered(p, D)
               /\ Ends(down, 1, local[p], p, v)
               => Agrees(a, cmds[a.id], p, v)
      BY <3>1, <3>2, <3>3 DEF Agreed, L
    <3>5. L \in LocalPath /\ UserPath \subseteq LocalPath
      BY PathFacts DEF L
    <3> QED BY <2>7, <3>4, <3>5 DEF r
  <2>9. \A p \in UserPath : local'[p] \in Value /\ Sequence(p) /\ p \in Path
    BY <2>1, ReceiveShape, <2>2, PathSequence, PathFacts DEF Shape, ClientShape
  <2>10. \A p \in UserPath : Covered(p, C) => Agrees(a, r, p, local'[p])
    <3>1. local[L] \in SubList \cup {NoVal}
      BY <2>1 DEF Listed, L
    <3>2. \A p : Covered(p, C) => C \in SubList /\ local'[L] = C
      BY <2>6, <3>1 DEF C, Covered, L
    <3> QED BY <2>8, <2>9, <3>2
  <2>11. r \in Request
    <3>1. a.id \in DOMAIN cmds
      BY <2>1, <2>3, <2>4, <2>5 DEF Own, OwnAnswer
    <3>2. cmds \in Seq(Request)
      BY <2>1 DEF Shape, ClientShape
    <3> QED BY <3>1, <3>2 DEF r
  <2>12. ASSUME r.op = "cat", Covered(r.path, C) PROVE a.rsp = has
    <3>1. has = IF r.path \in Path THEN local'[r.path] ELSE NoVal
      BY <2>12 DEF has, Found
    <3>2. CASE r.path \in UserPath
      BY <2>9, <2>10, <2>12, <3>1, <3>2 DEF Agrees
    <3>3. CASE r.path \notin Path
      BY <2>8, <2>12, <3>1, <3>3
    <3>4. r.path \notin {SID, Cmd, Rsp}
      <4>1. ~IsPrefix(r.path, Rsp) /\ r.path # Cmd
        BY <2>11, SessionAssumption
      <4>2. IsPrefix(SID, Rsp) /\ IsPrefix(Rsp, Rsp)
        BY SessionPrefix
      <4> QED BY <4>1, <4>2
    <3> QED BY <3>2, <3>3, <3>4 DEF Path
  <2>13. ASSUME r.op = "ls", has # NoVal PROVE a.rsp # NoVal /\ has \subseteq a.rsp
    <3> DEFINE n == UNION {Above(p) : p \in held}
    <3>1. r.path \in n /\ has = {Last(q) : q \in {k \in n \ {<<>>} : Parent(k) = r.path}}
      BY <2>13 DEF has, Found
    <3>2. \A p \in held : p \in UserPath /\ local'[p] # NoVal /\ Agrees(a, r, p, local'[p])
      BY <2>10 DEF held
    <3>3. a.rsp # NoVal
      <4>1. PICK p \in held : r.path \in Above(p)
        BY <3>1
      <4> QED BY <2>13, <3>2, <4>1 DEF Agrees
    <3>4. ASSUME NEW q \in n \ {<<>>}, Parent(q) = r.path PROVE Last(q) \in a.rsp
      <4>1. PICK p \in held : q \in Above(p) \ {<<>>}
        BY <3>4
      <4>2. r.path \in Above(p)
        BY <2>9, <3>2, <3>4, <4>1, AboveParent
      <4> QED BY <2>13, <3>2, <3>4, <4>1, <4>2 DEF Agrees
    <3> HIDE DEF n
    <3> QED BY <3>1, <3>3, <3>4
  <2> QED BY <2>12, <2>13
<1>4. AnswersCurrent <=> [][A]_vars
  BY DEF AnswersCurrent
<1> HIDE DEF A, Inv
<1> QED BY <1>1, <1>2, <1>3, <1>4, PTL DEF Spec
=============================================================================
