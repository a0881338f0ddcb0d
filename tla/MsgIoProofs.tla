----------------------------- MODULE MsgIoProofs -----------------------------
(* Proofs about MsgIo. *)
EXTENDS MsgIo, FiniteSetTheorems, SequenceTheorems, TLAPS

-----------------------------------------------------------------------------
(* Numbers and sequences                                                     *)

(* The least-number principle, for sets: what stands in for induction. *)
LEMMA LeastNumber ==
  ASSUME NEW T, T \subseteq Nat, T # {}
  PROVE  \E x \in T : \A y \in T : x <= y
<1> DEFINE R == OpToRel(<, Nat)
<1>1. IsWellFoundedOn(R, Nat)
  BY NatLessThanWellFounded
<1>2. \A x, y \in Nat : <<x, y>> \in R <=> x < y
  BY DEF OpToRel
<1> HIDE DEF R
<1>3. PICK x \in T : \A y \in T : <<y, x>> \notin R
  BY <1>1, WFMin
<1>4. ASSUME NEW y \in T PROVE x <= y
  <2>1. x \in Nat /\ y \in Nat /\ ~(y < x)
    BY <1>2, <1>3, <1>4
  <2> QED BY <2>1
<1> QED BY <1>3, <1>4

(* A part of a sequence, element by element. *)
LEMMA Slice ==
  ASSUME NEW S, NEW s \in Seq(S), NEW a \in Nat, NEW b \in Nat, a <= b, b <= Len(s)
  PROVE  /\ SubSeq(s, a + 1, b) \in Seq(S)
         /\ Len(SubSeq(s, a + 1, b)) = b - a
         /\ \A i \in 1 .. b - a : SubSeq(s, a + 1, b)[i] = s[a + i]
<1>1. Len(s) \in Nat
  OBVIOUS
<1>2. \A i \in a + 1 .. b : s[i] \in S
  OBVIOUS
<1> QED BY <1>1, <1>2

LEMMA DropSlice ==
  ASSUME NEW S, NEW s \in Seq(S), NEW a \in Nat, a <= Len(s)
  PROVE  /\ Drop(s, a) \in Seq(S)
         /\ Len(Drop(s, a)) = Len(s) - a
         /\ \A i \in 1 .. Len(s) - a : Drop(s, a)[i] = s[a + i]
BY Slice, LenProperties DEF Drop

LEMMA TakeSlice ==
  ASSUME NEW S, NEW s \in Seq(S), NEW a \in Nat, a <= Len(s)
  PROVE  /\ Take(s, a) \in Seq(S)
         /\ Len(Take(s, a)) = a
         /\ \A i \in 1 .. a : Take(s, a)[i] = s[i]
<1>1. Take(s, a) = SubSeq(s, 0 + 1, a)
  BY DEF Take
<1> QED BY <1>1, Slice

(* A sequence is the part before b and the rest. *)
LEMMA DropParts ==
  ASSUME NEW S, NEW s \in Seq(S), NEW a \in Nat, NEW b \in Nat, a <= b, b <= Len(s)
  PROVE  SubSeq(s, a + 1, b) \o Drop(s, b) = Drop(s, a)
<1>1. Len(s) \in Nat /\ a + 1 \in 1 .. Len(s) + 1 /\ b \in (a + 1) - 1 .. Len(s) /\ Len(s) \in b .. Len(s)
  OBVIOUS
<1>2. SubSeq(s, a + 1, b) \o SubSeq(s, b + 1, Len(s)) = SubSeq(s, a + 1, Len(s))
  BY <1>1, ConcatAdjacentSubSeq
<1> QED BY <1>2 DEF Drop

(* What is dropped before something is appended. *)
LEMMA DropConcat ==
  ASSUME NEW S, NEW s \in Seq(S), NEW t \in Seq(S), NEW a \in Nat, a <= Len(s)
  PROVE  Drop(s \o t, a) = Drop(s, a) \o t
<1> DEFINE u == s \o t
           k == Drop(s, a)
           r == k \o t
           l == Drop(u, a)
<1>1. Len(s) \in Nat /\ Len(t) \in Nat
  OBVIOUS
<1>2. k \in Seq(S) /\ Len(k) = Len(s) - a /\ \A i \in 1 .. Len(s) - a : k[i] = s[a + i]
  BY DropSlice
<1>3. /\ u \in Seq(S) /\ Len(u) = Len(s) + Len(t)
      /\ \A i \in 1 .. Len(s) + Len(t) : u[i] = IF i <= Len(s) THEN s[i] ELSE t[i - Len(s)]
  BY ConcatProperties
<1> HIDE DEF k
<1>5. /\ r \in Seq(S) /\ Len(r) = Len(k) + Len(t)
      /\ \A i \in 1 .. Len(k) + Len(t) : r[i] = IF i <= Len(k) THEN k[i] ELSE t[i - Len(k)]
  BY <1>2, ConcatProperties
<1> HIDE DEF u, r
<1>4. l \in Seq(S) /\ Len(l) = Len(u) - a /\ \A i \in 1 .. Len(u) - a : l[i] = u[a + i]
  <2>1. a <= Len(u)
    BY <1>1, <1>3
  <2> QED BY <1>3, <2>1, DropSlice
<1> HIDE DEF l
<1>6. ASSUME NEW i \in 1 .. Len(s) - a + Len(t) PROVE l[i] = r[i]
  <2>1. l[i] = u[a + i] /\ a + i \in 1 .. Len(s) + Len(t)
    BY <1>1, <1>3, <1>4
  <2>2. CASE i <= Len(s) - a
    <3>1. a + i <= Len(s) /\ i \in 1 .. Len(s) - a /\ i <= Len(k) /\ i \in 1 .. Len(k) + Len(t)
      BY <1>1, <1>2, <2>2
    <3>2. u[a + i] = s[a + i] /\ r[i] = k[i] /\ k[i] = s[a + i]
      BY <1>2, <1>3, <1>5, <2>1, <3>1
    <3> QED BY <2>1, <3>2
  <2>3. CASE i > Len(s) - a
    <3>1. ~(a + i <= Len(s)) /\ ~(i <= Len(k)) /\ i \in 1 .. Len(k) + Len(t) /\ a + i - Len(s) = i - Len(k)
      BY <1>1, <1>2, <2>3
    <3>2. u[a + i] = t[a + i - Len(s)]
      BY <1>3, <2>1, <3>1
    <3>3. r[i] = t[i - Len(k)]
      BY <1>5, <3>1
    <3> QED BY <2>1, <3>1, <3>2, <3>3
  <2> QED BY <1>1, <2>2, <2>3
<1>7. Len(l) = Len(s) - a + Len(t) /\ Len(r) = Len(s) - a + Len(t)
  BY <1>1, <1>2, <1>3, <1>4, <1>5
<1>8. l = r
  BY <1>4, <1>5, <1>6, <1>7, SeqEqual
<1> QED BY <1>8 DEF l, r, u, k

LEMMA DropDrop ==
  ASSUME NEW S, NEW s \in Seq(S), NEW a \in Nat, NEW b \in Nat, a + b <= Len(s)
  PROVE  Drop(Drop(s, a), b) = Drop(s, a + b)
<1> DEFINE t == Drop(s, a)
           l == Drop(t, b)
           r == Drop(s, a + b)
<1>1. Len(s) \in Nat /\ a <= Len(s) /\ a + b \in Nat
  OBVIOUS
<1>2. t \in Seq(S) /\ Len(t) = Len(s) - a /\ \A i \in 1 .. Len(s) - a : t[i] = s[a + i]
  BY <1>1, DropSlice
<1>4. r \in Seq(S) /\ Len(r) = Len(s) - (a + b) /\ \A i \in 1 .. Len(s) - (a + b) : r[i] = s[a + b + i]
  BY <1>1, DropSlice
<1> HIDE DEF t, r
<1>3. l \in Seq(S) /\ Len(l) = Len(t) - b /\ \A i \in 1 .. Len(t) - b : l[i] = t[b + i]
  <2>1. b <= Len(t)
    BY <1>1, <1>2
  <2> QED BY <1>2, <2>1, DropSlice
<1> HIDE DEF l
<1>5. Len(l) = Len(r)
  BY <1>1, <1>2, <1>3, <1>4
<1>6. ASSUME NEW i \in 1 .. Len(l) PROVE l[i] = r[i]
  <2>1. i \in 1 .. Len(t) - b /\ b + i \in 1 .. Len(s) - a /\ i \in 1 .. Len(s) - (a + b)
        /\ a + (b + i) = a + b + i
    BY <1>1, <1>2, <1>3
  <2> QED BY <1>2, <1>3, <1>4, <2>1
<1>7. l = r
  BY <1>3, <1>4, <1>5, <1>6, SeqEqual
<1> QED BY <1>7 DEF l, r, t

-----------------------------------------------------------------------------
(* Messages and fragments                                                    *)

DataByte   == [msg : Nat, at : Nat, eq : BOOLEAN]
HeaderByte == [type : {"put", "transaction", "other"}, more : BOOLEAN, len : Nat]
PadByte    == [pad : Nat]
Octet      == DataByte \cup HeaderByte \cup PadByte

LEMMA OctetsAssociative ==
  \A s, t, u \in Seq(Octet) : (s \o t) \o u = s \o (t \o u)
BY ConcatAssociative

LEMMA MessageType ==
  ASSUME NEW m \in Message
  PROVE  /\ m.type \in {"put", "transaction", "other"} /\ m.len \in Nat \ {0}
         /\ m.eqs \subseteq 1 .. m.len /\ m.dontFrag \in BOOLEAN
         /\ m.type = "put" => \E k \in m.eqs : k < m.len
         /\ m.type = "other" => m.dontFrag
         /\ m.dontFrag => m.len <= MaxMsgLen
<1>1. m \in Serialized
  BY MessageAssumption
<1> QED BY <1>1, MessageAssumption DEF Serialized

(* A fragment is the part of a message from a position to another, and whether   *)
(* more follows.                                                                *)
Frag == [msg : Nat \ {0}, from : Nat \ {0}, to : Nat, more : BOOLEAN]

Size(f)  == HdrLen + f.to - f.from + 1
Chunk(f) == Header(f.msg, f.more, f.to - f.from + 1) \o Payload(f.msg, f.from, f.to)

(* The j-th byte of it on its way. *)
OctetAt(f, j) ==
  IF j = 1 THEN [type |-> sent[f.msg].type, more |-> f.more, len |-> f.to - f.from + 1]
  ELSE IF j <= HdrLen THEN [pad |-> j]
  ELSE Byte(f.msg, f.from + (j - HdrLen) - 1)

(* A fragment as the sender makes them: within a message that it has taken from  *)
(* its queue, not longer than a header can say, the message as a whole if it may *)
(* not be fragmented.                                                           *)
Made(f) ==
  /\ f.msg <= nDeq /\ f.from <= f.to /\ f.to <= sent[f.msg].len
  /\ f.to - f.from + 1 <= MaxMsgLen
  /\ f.more <=> f.to < sent[f.msg].len
  /\ sent[f.msg].dontFrag => f.from = 1 /\ ~f.more

LEMMA ByteFields ==
  ASSUME NEW i, NEW k
  PROVE  Byte(i, k).msg = i /\ (Byte(i, k).eq <=> k \in sent[i].eqs)
BY DEF Byte

LEMMA PayloadElements ==
  ASSUME NEW a \in Nat, NEW b \in Nat, NEW i \in Nat, a <= b + 1
  PROVE  /\ Payload(i, a, b) \in Seq(DataByte) /\ Len(Payload(i, a, b)) = b - a + 1
         /\ \A k \in 1 .. b - a + 1 : Payload(i, a, b)[k] = Byte(i, a + k - 1)
<1>1. \A k \in 1 .. b - a + 1 : Byte(i, a + k - 1) \in DataByte
  BY DEF Byte, DataByte
<1>2. b - a + 1 \in Nat
  OBVIOUS
<1> QED BY <1>1, <1>2 DEF Payload

LEMMA HeaderElements ==
  ASSUME NEW i, NEW more \in BOOLEAN, NEW len \in Nat, sent[i].type \in {"put", "transaction", "other"}
  PROVE  /\ Header(i, more, len) \in Seq(HeaderByte \cup PadByte) /\ Len(Header(i, more, len)) = HdrLen
         /\ Header(i, more, len)[1] = [type |-> sent[i].type, more |-> more, len |-> len]
         /\ \A k \in 2 .. HdrLen : Header(i, more, len)[k] = [pad |-> k]
<1> DEFINE h == [type |-> sent[i].type, more |-> more, len |-> len]
           e(k) == IF k = 1 THEN h ELSE [pad |-> k]
<1>1. h \in HeaderByte
  BY DEF HeaderByte
<1>2. \A k \in 1 .. HdrLen : e(k) \in HeaderByte \cup PadByte
  BY <1>1 DEF PadByte
<1>3. HdrLen \in Nat \ {0}
  BY SizeAssumption
<1>4. Header(i, more, len) = [k \in 1 .. HdrLen |-> e(k)]
  BY DEF Header
<1>5. \A k \in 1 .. HdrLen : Header(i, more, len)[k] = e(k)
  BY <1>4
<1>6. Header(i, more, len) \in Seq(HeaderByte \cup PadByte) /\ Len(Header(i, more, len)) = HdrLen
  <2> HIDE DEF e
  <2> QED BY <1>2, <1>3, <1>4
<1> QED BY <1>3, <1>5, <1>6

LEMMA ChunkElements ==
  ASSUME NEW f \in Frag, f.from <= f.to, sent[f.msg] \in Message
  PROVE  /\ Size(f) \in Nat /\ Size(f) > HdrLen
         /\ Chunk(f) \in Seq(Octet) /\ Len(Chunk(f)) = Size(f)
         /\ \A j \in 1 .. Size(f) : Chunk(f)[j] = OctetAt(f, j)
<1> DEFINE len == f.to - f.from + 1
<1>1. /\ f.msg \in Nat /\ f.from \in Nat \ {0} /\ f.to \in Nat /\ f.more \in BOOLEAN
      /\ len \in Nat \ {0} /\ HdrLen \in Nat \ {0} /\ len = f.to - f.from + 1
      /\ f.from <= f.to + 1 /\ f.from \in Nat
  BY SizeAssumption DEF Frag
<1> HIDE DEF len
<1> DEFINE h == Header(f.msg, f.more, len)
           d == Payload(f.msg, f.from, f.to)
<1>2. sent[f.msg].type \in {"put", "transaction", "other"}
  BY MessageType
<1>3. /\ h \in Seq(HeaderByte \cup PadByte) /\ Len(h) = HdrLen
      /\ h[1] = [type |-> sent[f.msg].type, more |-> f.more, len |-> len]
      /\ \A k \in 2 .. HdrLen : h[k] = [pad |-> k]
  <2>1. f.more \in BOOLEAN /\ len \in Nat
    BY <1>1
  <2> QED BY <1>2, <2>1, HeaderElements
<1>4. d \in Seq(DataByte) /\ Len(d) = len /\ \A k \in 1 .. len : d[k] = Byte(f.msg, f.from + k - 1)
  <2>1. /\ d \in Seq(DataByte) /\ Len(d) = f.to - f.from + 1
        /\ \A k \in 1 .. f.to - f.from + 1 : d[k] = Byte(f.msg, f.from + k - 1)
    BY <1>1, PayloadElements
  <2> QED BY <1>1, <2>1
<1> HIDE DEF h, d
<1>5. h \in Seq(Octet) /\ d \in Seq(Octet)
  <2>1. HeaderByte \cup PadByte \subseteq Octet /\ DataByte \subseteq Octet
    BY DEF Octet
  <2> QED BY <1>3, <1>4, <2>1, SeqMonotonic
<1>6. h \o d \in Seq(Octet) /\ Len(h \o d) = HdrLen + len
      /\ \A j \in 1 .. HdrLen + len : (h \o d)[j] = IF j <= HdrLen THEN h[j] ELSE d[j - HdrLen]
  <2>1. h \o d \in Seq(Octet) /\ Len(h \o d) = Len(h) + Len(d)
        /\ \A j \in 1 .. Len(h) + Len(d) : (h \o d)[j] = IF j <= Len(h) THEN h[j] ELSE d[j - Len(h)]
    BY <1>5, ConcatProperties
  <2>2. Len(h) = HdrLen /\ Len(d) = len
    BY <1>3, <1>4
  <2> QED BY <2>1, <2>2
<1>7. Chunk(f) = h \o d /\ Size(f) = HdrLen + len /\ len = f.to - f.from + 1
  BY <1>1 DEF Chunk, Size, h, d, len
<1>8. ASSUME NEW j \in 1 .. HdrLen + len PROVE Chunk(f)[j] = OctetAt(f, j)
  <2>1. CASE j = 1
    BY <1>1, <1>3, <1>6, <1>7, <2>1 DEF OctetAt
  <2>2. CASE j # 1 /\ j <= HdrLen
    BY <1>1, <1>3, <1>6, <1>7, <2>2 DEF OctetAt
  <2>3. CASE ~(j <= HdrLen)
    <3>1. j - HdrLen \in 1 .. len /\ j # 1
      BY <1>1, <2>3
    <3> QED BY <1>4, <1>6, <1>7, <2>3, <3>1 DEF OctetAt
  <2> QED BY <2>1, <2>2, <2>3
<1>9. Size(f) \in Nat /\ Size(f) > HdrLen
  BY <1>1, <1>7
<1> QED BY <1>6, <1>7, <1>8, <1>9

-----------------------------------------------------------------------------
(* The sender                                                                *)

(* The message queue and the message that is being serialized. *)
QueueOK ==
  /\ sent \in Seq(Message) /\ Len(sent) <= MaxMsgs
  /\ nDeq \in 0 .. Len(sent)
  /\ sMsg \in BOOLEAN /\ sMsgTxPos \in Nat
  /\ sMsg => /\ nDeq > 0 /\ sMsgTxPos < sent[nDeq].len
             /\ sent[nDeq].dontFrag => sMsgTxPos = 0
  /\ txPaused \in BOOLEAN /\ pump \in {"no", "enqMsg", "handleTx"}

(* The fifo and its indices. *)
Tracked ==
  /\ txTrackers \in Seq(Nat)
  /\ \A k \in DOMAIN txTrackers : txTrackers[k] > txHead
  /\ \A j, k \in DOMAIN txTrackers : j < k => txTrackers[j] < txTrackers[k]
  /\ IF txTrackers = <<>> THEN txFifo = <<>> ELSE txTrackers[Len(txTrackers)] = Len(txFifo)

FifoOK ==
  /\ txFifo \in Seq(Octet) /\ Len(txFifo) <= FifoSize
  /\ txMsgHead \in Nat /\ txHead \in Nat /\ txMsgHead <= txHead /\ txHead <= Len(txFifo)
  /\ Tracked

SenderOK == QueueOK /\ FifoOK

(* handleTx is registered while there is something to write. *)
Flowing ==
  /\ txFifo # <<>> => txPaused
  /\ pump # "handleTx" /\ txPaused => txFifo # <<>>
  /\ pump = "no" => (nDeq < Len(sent) => sMsg) /\ (sMsg => txFifo # <<>>)

LEMMA RoomProperties ==
  ASSUME SenderOK
  PROVE  /\ Room \in Nat /\ Room <= MaxMsgLen /\ FifoSize \in Nat /\ Len(txFifo) \in Nat
         /\ Room > 0 => Len(txFifo) + HdrLen + Room = FifoSize
         /\ txFifo = <<>> => Room = MaxMsgLen
BY SizeAssumption DEF Room, FifoSize, SenderOK, FifoOK

(* The message that is being serialized. *)
LEMMA CurrentMessage ==
  ASSUME SenderOK, sMsg
  PROVE  /\ nDeq \in 1 .. Len(sent) /\ sent[nDeq] \in Message
         /\ Remaining \in Nat \ {0} /\ Remaining = sent[nDeq].len - sMsgTxPos
         /\ sent[nDeq].len \in Nat \ {0} /\ sMsgTxPos \in Nat
<1>1. nDeq \in 1 .. Len(sent) /\ sent[nDeq] \in Message /\ sMsgTxPos \in Nat /\ sMsgTxPos < sent[nDeq].len
  BY DEF SenderOK, QueueOK
<1>2. sent[nDeq].len \in Nat \ {0}
  BY <1>1, MessageType
<1> QED BY <1>1, <1>2 DEF Remaining

(* The part of it that is put into the fifo always finds room: sendMsg never     *)
(* fails.                                                                       *)
LEMMA PartSent ==
  ASSUME SenderOK, SendPart
  PROVE  \E f \in Frag :
           /\ f.msg = nDeq /\ f.from = sMsgTxPos + 1 /\ f.from <= f.to /\ Made(f)
           /\ txFifo' = txFifo \o Chunk(f)
           /\ Size(f) \in Nat /\ Size(f) > 0 /\ Len(txFifo) + Size(f) <= FifoSize
           /\ txTrackers' = Append(txTrackers, Len(txFifo')) /\ txPaused' = TRUE
           /\ IF f.more THEN sMsg' = TRUE /\ sMsgTxPos' = f.to ELSE sMsg' = FALSE /\ sMsgTxPos' = 0
           /\ UNCHANGED <<sent, nDeq, txHead, txMsgHead, pump, conn, receiver>>
<1> DEFINE len == IF Room < Remaining THEN Room ELSE Remaining
           f == [msg |-> nDeq, from |-> sMsgTxPos + 1, to |-> sMsgTxPos + len, more |-> Room < Remaining]
<1>1. sMsg /\ Fits
  BY DEF SendPart
<1>2. /\ nDeq \in 1 .. Len(sent) /\ sent[nDeq] \in Message /\ Len(sent) \in Nat
      /\ Remaining \in Nat \ {0} /\ Remaining = sent[nDeq].len - sMsgTxPos
      /\ sent[nDeq].len \in Nat \ {0} /\ sMsgTxPos \in Nat
  BY <1>1, CurrentMessage DEF SenderOK, QueueOK
<1>3. /\ Room \in Nat /\ Room <= MaxMsgLen /\ FifoSize \in Nat /\ Len(txFifo) \in Nat
      /\ Room > 0 => Len(txFifo) + HdrLen + Room = FifoSize
      /\ HdrLen \in Nat \ {0} /\ MaxMsgLen \in Nat /\ FragmentThreshold >= 1 /\ FragmentThreshold \in Nat
  BY RoomProperties, SizeAssumption
<1>4. Room >= Remaining \/ (~sent[nDeq].dontFrag /\ Room >= FragmentThreshold)
  BY <1>1 DEF Fits
<1>5. len \in Nat \ {0} /\ len <= Room /\ len <= Remaining /\ Room > 0
  BY <1>2, <1>3, <1>4
<1>6. /\ SendMsg(nDeq, Room < Remaining, len)
      /\ sMsg' = (len < Remaining)
      /\ sMsgTxPos' = IF sMsg' THEN sMsgTxPos + len ELSE 0
      /\ UNCHANGED <<sent, nDeq, txHead, txMsgHead, pump, conn, receiver>>
  BY DEF SendPart
<1>7. len < Remaining <=> Room < Remaining
  BY <1>2, <1>3
<1>8. sMsg => (sent[nDeq].dontFrag => sMsgTxPos = 0)
  BY DEF SenderOK, QueueOK
<1> HIDE DEF len
<1>9. /\ f \in Frag /\ f.msg = nDeq /\ f.from = sMsgTxPos + 1 /\ f.to = sMsgTxPos + len
      /\ f.more = (Room < Remaining) /\ f.from <= f.to
  BY <1>2, <1>5 DEF Frag
<1> HIDE DEF f
<1>10. f.to - f.from + 1 = len /\ Size(f) = HdrLen + len
  <2>1. f.from = sMsgTxPos + 1 /\ f.to = sMsgTxPos + len /\ sMsgTxPos \in Nat /\ len \in Nat /\ HdrLen \in Nat
    BY <1>2, <1>3, <1>5, <1>9
  <2> HIDE DEF f
  <2>2. f.to - f.from + 1 = len /\ HdrLen + f.to - f.from + 1 = HdrLen + len
    BY <2>1
  <2> QED BY <2>2 DEF Size
<1>11. Made(f)
  <2>1. f.to <= sent[nDeq].len /\ (f.to < sent[nDeq].len <=> len < Remaining)
    BY <1>2, <1>5, <1>9
  <2>2. len <= MaxMsgLen
    BY <1>3, <1>5
  <2>3. sent[nDeq].dontFrag => f.from = 1 /\ ~f.more
    <3>1. HAVE sent[nDeq].dontFrag
    <3>2. sMsgTxPos = 0 /\ Room >= Remaining
      BY <1>1, <1>4, <1>8, <3>1
    <3>3. ~(Room < Remaining) /\ sMsgTxPos + 1 = 1
      BY <1>2, <1>3, <3>2
    <3> QED BY <1>9, <3>3
  <2>4. f.msg <= nDeq
    BY <1>2, <1>9
  <2> QED BY <1>7, <1>9, <1>10, <2>1, <2>2, <2>3, <2>4 DEF Made
<1>12. FifoSize - Len(txFifo) >= len + HdrLen
  BY <1>3, <1>5
<1>13. Chunk(f) = Header(nDeq, Room < Remaining, len) \o Payload(nDeq, sMsgTxPos + 1, sMsgTxPos + len)
  BY <1>9, <1>10 DEF Chunk
<1>14. txFifo' = txFifo \o Chunk(f) /\ txTrackers' = Append(txTrackers, Len(txFifo')) /\ txPaused' = TRUE
  BY <1>6, <1>12, <1>13 DEF SendMsg
<1>15. Size(f) \in Nat /\ Size(f) > 0 /\ Len(txFifo) + Size(f) <= FifoSize
  BY <1>3, <1>5, <1>10, <1>12
<1>16. IF f.more THEN sMsg' = TRUE /\ sMsgTxPos' = f.to ELSE sMsg' = FALSE /\ sMsgTxPos' = 0
  BY <1>6, <1>7, <1>9
<1> QED BY <1>6, <1>9, <1>11, <1>14, <1>15, <1>16

(* The messages that are written are the first ones. *)
LEMMA OverFirst ==
  ASSUME Tracked, NEW h \in Nat
  PROVE  /\ Cardinality(Over(h)) \in 0 .. Len(txTrackers)
         /\ Over(h) = 1 .. Cardinality(Over(h))
<1> DEFINE n == Len(txTrackers)
           T == {k \in Nat \ {0} : k \notin Over(h)}
<1>1. n \in Nat /\ DOMAIN txTrackers = 1 .. n /\ \A k \in 1 .. n : txTrackers[k] \in Nat
  BY DEF Tracked
<1>2. Over(h) \subseteq 1 .. n /\ \A k \in 1 .. n : k \in Over(h) <=> txTrackers[k] <= h
  BY <1>1 DEF Over
<1>3. n + 1 \in T
  BY <1>1, <1>2
<1>4. PICK m \in T : \A k \in T : m <= k
  <2>1. T \subseteq Nat /\ T # {}
    BY <1>3
  <2> HIDE DEF T
  <2> QED BY <2>1, LeastNumber
<1>5. m \in Nat \ {0} /\ m \notin Over(h) /\ m <= n + 1
  BY <1>3, <1>4
<1>6. ASSUME NEW k \in 1 .. m - 1 PROVE k \in Over(h)
  <2>1. k \in Nat \ {0} /\ ~(m <= k)
    BY <1>5
  <2> QED BY <1>4, <2>1
<1>7. ASSUME NEW k \in Over(h) PROVE k \in 1 .. m - 1
  <2>1. k \in 1 .. n /\ txTrackers[k] <= h
    BY <1>2
  <2>2. CASE k > m
    <3>1. m \in 1 .. n /\ txTrackers[m] < txTrackers[k]
      BY <1>1, <1>5, <2>1, <2>2 DEF Tracked
    <3>2. txTrackers[m] <= h
      BY <1>1, <2>1, <3>1
    <3> QED BY <1>2, <1>5, <3>1, <3>2
  <2>3. k # m
    BY <1>5
  <2> QED BY <1>5, <2>1, <2>2, <2>3
<1>8. Over(h) = 1 .. m - 1
  BY <1>6, <1>7
<1>9. Cardinality(1 .. m - 1) = m - 1
  BY <1>5, FS_Interval
<1> HIDE DEF n
<1>10. Cardinality(Over(h)) = m - 1 /\ m - 1 \in 0 .. n
  BY <1>1, <1>5, <1>8, <1>9
<1> QED BY <1>8, <1>10 DEF n

(* A write: what is written is gone from the fifo and on its way, and the        *)
(* trackers left are those of messages that are not written.                     *)
LEMMA Written ==
  ASSUME SenderOK, HandleTx
  PROVE  \E h \in txHead + 1 .. Len(txFifo) :
           /\ conn' = conn \o SubSeq(txFifo, txHead + 1, h)
           /\ IF h = Len(txFifo) THEN txFifo' = <<>> /\ txHead' = 0 /\ txMsgHead' = 0
              ELSE txFifo' = txFifo /\ txHead' = h /\ txMsgHead' \in 0 .. h
           /\ Tracked'
           /\ txPaused /\ pump' = "handleTx"
           /\ UNCHANGED <<sent, nDeq, sMsg, sMsgTxPos, txPaused, receiver>>
<1>1. PICK n \in 1 .. Len(txFifo) - txHead :
        /\ conn' = conn \o SubSeq(txFifo, txHead + 1, txHead + n)
        /\ LET done == Cardinality(Over(txHead + n))
           IN Reclaim(txHead + n, IF done = 0 THEN txMsgHead ELSE txTrackers[done], Drop(txTrackers, done))
  BY DEF HandleTx
<1> DEFINE h == txHead + n
           done == Cardinality(Over(h))
           msgHead == IF done = 0 THEN txMsgHead ELSE txTrackers[done]
           trackers == Drop(txTrackers, done)
           m == Len(txTrackers)
<1>2. /\ txFifo \in Seq(Octet) /\ Len(txFifo) \in Nat /\ txMsgHead \in Nat /\ txHead \in Nat
      /\ txMsgHead <= txHead /\ txHead <= Len(txFifo) /\ Tracked
      /\ txTrackers \in Seq(Nat) /\ m \in Nat
  BY DEF SenderOK, FifoOK, Tracked
<1>3. h \in txHead + 1 .. Len(txFifo) /\ h \in Nat
  BY <1>1, <1>2
<1>4. /\ conn' = conn \o SubSeq(txFifo, txHead + 1, h)
      /\ Reclaim(h, msgHead, trackers)
  BY <1>1
<1> HIDE DEF h
<1>5. done \in 0 .. m /\ Over(h) = 1 .. done
  BY <1>2, <1>3, OverFirst
<1>14. done \in Nat /\ m \in Nat /\ done <= m
  BY <1>2, <1>5
<1> HIDE DEF done
<1>6. \A k \in 1 .. m : txTrackers[k] \in Nat /\ (txTrackers[k] <= h <=> k <= done)
  BY <1>2, <1>5 DEF Over
<1>7. msgHead \in 0 .. h
  <2>1. CASE done = 0
    BY <1>2, <1>3, <2>1
  <2>2. CASE done # 0
    BY <1>2, <1>3, <1>5, <1>6, <2>2
  <2> QED BY <2>1, <2>2
<1> HIDE DEF msgHead
<1>8. trackers \in Seq(Nat) /\ Len(trackers) = m - done /\ \A k \in 1 .. m - done : trackers[k] = txTrackers[done + k]
  <2>1. done \in Nat /\ done <= Len(txTrackers)
    BY <1>2, <1>5
  <2> QED BY <1>2, <2>1, DropSlice
<1> HIDE DEF trackers
<1>9. h > txHead /\ Len(txFifo) > 0 /\ m > 0 /\ txTrackers[m] = Len(txFifo)
  <2>1. h > txHead /\ Len(txFifo) > 0
    BY <1>2, <1>3
  <2>2. txTrackers # <<>> /\ txTrackers[m] = Len(txFifo)
    BY <1>2, <2>1 DEF Tracked
  <2>3. m # 0
    BY <1>2, <2>2
  <2> QED BY <1>2, <2>1, <2>2, <2>3
<1>10. h = Len(txFifo) <=> done = m
  BY <1>2, <1>3, <1>5, <1>6, <1>9
<1>11. /\ \A k \in 1 .. m - done : trackers[k] > h
       /\ \A j, k \in 1 .. m - done : j < k => trackers[j] < trackers[k]
  <2>1. ASSUME NEW k \in 1 .. m - done PROVE trackers[k] > h
    <3>1. done + k \in 1 .. m /\ ~(done + k <= done)
      BY <1>14, <2>1
    <3>2. trackers[k] = txTrackers[done + k]
      BY <1>8, <2>1
    <3>3. txTrackers[done + k] \in Nat /\ ~(txTrackers[done + k] <= h)
      BY <1>6, <3>1
    <3> QED BY <1>3, <3>2, <3>3
  <2>2. ASSUME NEW j \in 1 .. m - done, NEW k \in 1 .. m - done, j < k PROVE trackers[j] < trackers[k]
    <3>1. done + j \in 1 .. m /\ done + k \in 1 .. m /\ done + j < done + k
      BY <1>14, <2>2
    <3>2. trackers[j] = txTrackers[done + j] /\ trackers[k] = txTrackers[done + k]
      BY <1>8
    <3>3. txTrackers[done + j] < txTrackers[done + k]
      BY <1>2, <3>1 DEF Tracked
    <3> QED BY <3>2, <3>3
  <2> QED BY <2>1, <2>2
<1>12. CASE h = Len(txFifo)
  <2>1. txFifo' = <<>> /\ txHead' = 0 /\ txMsgHead' = 0 /\ txTrackers' = trackers
    BY <1>4, <1>12 DEF Reclaim
  <2>2. trackers = <<>>
    BY <1>2, <1>8, <1>10, <1>12
  <2>3. Tracked'
    BY <2>1, <2>2 DEF Tracked
  <2> QED BY <1>3, <1>4, <1>12, <2>1, <2>3 DEF HandleTx
<1>13. CASE h # Len(txFifo)
  <2>1. txFifo' = txFifo /\ txHead' = h /\ txMsgHead' = msgHead /\ txTrackers' = trackers
    <3>1. Drop(txFifo, 0) = txFifo
      BY <1>2 DEF Drop
    <3> QED BY <1>3, <1>4, <1>13, <3>1 DEF Reclaim
  <2>2. trackers # <<>> /\ Len(trackers) = m - done /\ m - done \in 1 .. m - done
    BY <1>2, <1>5, <1>8, <1>10, <1>13
  <2>3. trackers[m - done] = Len(txFifo)
    <3>1. trackers[m - done] = txTrackers[done + (m - done)]
      BY <1>8, <2>2
    <3>2. done + (m - done) = m
      BY <1>14
    <3> QED BY <1>9, <3>1, <3>2
  <2>4. Tracked'
    <3>1. DOMAIN trackers = 1 .. m - done
      BY <1>8
    <3> QED BY <1>8, <1>11, <2>1, <2>2, <2>3, <3>1 DEF Tracked
  <2> QED BY <1>3, <1>4, <1>7, <1>13, <2>1, <2>4 DEF HandleTx
<1> QED BY <1>12, <1>13

(* All is written only when the fifo is empty. *)
LEMMA UnwrittenLeft ==
  ASSUME SenderOK
  PROVE  txHead = Len(txFifo) => txFifo = <<>>
BY DEF SenderOK, FifoOK, Tracked

LEMMA SenderStep ==
  ASSUME SenderOK, Flowing, Next
  PROVE  SenderOK' /\ Flowing'
<1> USE DEF SenderOK, QueueOK, Flowing
<1>1. ASSUME NEW m \in Message, EnqMsg(m) PROVE SenderOK' /\ Flowing'
  <2>1. FifoOK'
    BY <1>1 DEF EnqMsg, FifoOK, Tracked
  <2>2. sent' \in Seq(Message) /\ Len(sent') = Len(sent) + 1 /\ \A i \in 1 .. Len(sent) : sent'[i] = sent[i]
    BY <1>1 DEF EnqMsg
  <2>3. QueueOK'
    <3>1. Len(sent) \in Nat /\ Len(sent) < MaxMsgs /\ UNCHANGED <<nDeq, sMsg, sMsgTxPos, txPaused>> /\ pump' = "enqMsg"
      BY <1>1 DEF EnqMsg
    <3> QED BY <2>2, <3>1, SizeAssumption
  <2> QED BY <1>1, <2>1, <2>3 DEF EnqMsg
<1>2. ASSUME Dequeue PROVE SenderOK' /\ Flowing'
  <2>1. FifoOK'
    BY <1>2 DEF Dequeue, FifoOK, Tracked
  <2>2. /\ nDeq' = nDeq + 1 /\ nDeq' \in 1 .. Len(sent) /\ sMsg' = TRUE /\ sMsgTxPos' = 0
        /\ UNCHANGED <<sent, txPaused, pump, txFifo>> /\ pump # "no"
    BY <1>2 DEF Dequeue
  <2>3. sent[nDeq'].len \in Nat \ {0}
    BY <2>2, MessageType
  <2> QED BY <2>1, <2>2, <2>3
<1>3. ASSUME SendPart PROVE SenderOK' /\ Flowing'
  <2>1. PICK f \in Frag :
           /\ f.msg = nDeq /\ f.from = sMsgTxPos + 1 /\ f.from <= f.to /\ Made(f)
           /\ txFifo' = txFifo \o Chunk(f)
           /\ Size(f) \in Nat /\ Size(f) > 0 /\ Len(txFifo) + Size(f) <= FifoSize
           /\ txTrackers' = Append(txTrackers, Len(txFifo')) /\ txPaused' = TRUE
           /\ IF f.more THEN sMsg' = TRUE /\ sMsgTxPos' = f.to ELSE sMsg' = FALSE /\ sMsgTxPos' = 0
           /\ UNCHANGED <<sent, nDeq, txHead, txMsgHead, pump, conn, receiver>>
    BY <1>3, PartSent
  <2>2. nDeq \in 1 .. Len(sent) /\ sent[nDeq] \in Message /\ pump # "no" /\ sMsg
    BY <1>3, CurrentMessage DEF SendPart
  <2>3. Chunk(f) \in Seq(Octet) /\ Len(Chunk(f)) = Size(f)
    BY <2>1, <2>2, ChunkElements
  <2>4. txFifo \in Seq(Octet) /\ txFifo' \in Seq(Octet) /\ Len(txFifo') = Len(txFifo) + Size(f) /\ Len(txFifo) \in Nat
    <3>1. txFifo \in Seq(Octet) /\ Len(txFifo) \in Nat
      BY DEF FifoOK
    <3>2. txFifo \o Chunk(f) \in Seq(Octet) /\ Len(txFifo \o Chunk(f)) = Len(txFifo) + Len(Chunk(f))
      BY <2>3, <3>1, ConcatProperties
    <3> QED BY <2>1, <2>3, <3>1, <3>2
  <2>5. Tracked'
    <3> DEFINE n == Len(txTrackers)
               t == Len(txFifo')
    <3>1. n \in Nat /\ txTrackers \in Seq(Nat) /\ DOMAIN txTrackers = 1 .. n /\ txHead \in Nat /\ txHead <= Len(txFifo)
      BY DEF FifoOK, Tracked
    <3>2. t \in Nat /\ t > txHead /\ t > Len(txFifo)
      BY <2>1, <2>4, <3>1
    <3> HIDE DEF t
    <3>3. /\ txTrackers' \in Seq(Nat) /\ Len(txTrackers') = n + 1 /\ DOMAIN txTrackers' = 1 .. n + 1
          /\ txTrackers'[n + 1] = t /\ \A k \in 1 .. n : txTrackers'[k] = txTrackers[k]
      BY <2>1, <3>1, <3>2 DEF t
    <3>4. \A k \in 1 .. n : txTrackers[k] <= Len(txFifo) /\ txTrackers[k] \in Nat
      <4>1. ASSUME NEW k \in 1 .. n PROVE txTrackers[k] <= Len(txFifo) /\ txTrackers[k] \in Nat
        <5>1. txTrackers # <<>> /\ n \in 1 .. n /\ txTrackers[n] = Len(txFifo) /\ txTrackers[k] \in Nat
          BY <3>1, <4>1 DEF FifoOK, Tracked
        <5>2. k < n => txTrackers[k] < txTrackers[n]
          BY <3>1, <5>1 DEF FifoOK, Tracked
        <5> QED BY <2>4, <3>1, <5>1, <5>2
      <4> QED BY <4>1
    <3>5. \A k \in 1 .. n + 1 : txTrackers'[k] > txHead
      <4>1. ASSUME NEW k \in 1 .. n + 1 PROVE txTrackers'[k] > txHead
        <5>1. CASE k = n + 1
          BY <3>2, <3>3, <5>1
        <5>2. CASE k # n + 1
          <6>1. k \in 1 .. n
            BY <3>1, <5>2
          <6> QED BY <3>1, <3>3, <6>1 DEF FifoOK, Tracked
        <5> QED BY <5>1, <5>2
      <4> QED BY <4>1
    <3>6. ASSUME NEW j \in 1 .. n + 1, NEW k \in 1 .. n + 1, j < k PROVE txTrackers'[j] < txTrackers'[k]
      <4>1. j \in 1 .. n
        BY <3>1, <3>6
      <4>2. CASE k = n + 1
        <5>1. txTrackers'[j] = txTrackers[j] /\ txTrackers'[k] = t
          BY <3>3, <4>1, <4>2
        <5>2. txTrackers[j] <= Len(txFifo) /\ txTrackers[j] \in Nat
          BY <3>4, <4>1
        <5> QED BY <2>4, <3>2, <5>1, <5>2
      <4>3. CASE k # n + 1
        <5>1. k \in 1 .. n
          BY <3>1, <4>3
        <5>2. txTrackers[j] < txTrackers[k]
          BY <3>1, <3>6, <4>1, <5>1 DEF FifoOK, Tracked
        <5> QED BY <3>3, <4>1, <5>1, <5>2
      <4> QED BY <4>2, <4>3
    <3>7. txTrackers' # <<>> /\ txTrackers'[Len(txTrackers')] = Len(txFifo') /\ txHead' = txHead
      BY <2>1, <3>1, <3>3 DEF t
    <3> QED BY <3>3, <3>5, <3>6, <3>7 DEF Tracked
  <2>6. FifoOK'
    <3>1. UNCHANGED <<txHead, txMsgHead>> /\ Len(txFifo') <= FifoSize /\ Len(txFifo') >= Len(txFifo)
      BY <2>1, <2>4
    <3> QED BY <2>4, <2>5, <3>1 DEF FifoOK
  <2>7. QueueOK'
    <3>1. f.more => f.to < sent[nDeq].len /\ ~sent[nDeq].dontFrag
      BY <2>1 DEF Made
    <3>2. f.to \in Nat
      BY DEF Frag
    <3>3. /\ UNCHANGED <<sent, nDeq, pump>> /\ txPaused' = TRUE
          /\ sMsg' \in BOOLEAN /\ sMsgTxPos' \in Nat
          /\ sMsg' => f.more /\ sMsgTxPos' = f.to
      <4>1. UNCHANGED <<sent, nDeq, pump>> /\ txPaused' = TRUE
        BY <2>1
      <4>2. CASE f.more
        BY <2>1, <3>2, <4>1, <4>2
      <4>3. CASE ~f.more
        <5>1. sMsg' = FALSE /\ sMsgTxPos' = 0
          BY <2>1, <4>3
        <5>2. sMsgTxPos' \in Nat
          BY <5>1
        <5> QED BY <4>1, <5>1, <5>2
      <4> QED BY <4>2, <4>3
    <3>4. sMsg' => /\ nDeq > 0 /\ sMsgTxPos' < sent[nDeq].len
                   /\ ~sent[nDeq].dontFrag
      BY <2>2, <3>1, <3>3
    <3> QED BY <3>3, <3>4
  <2>8. txFifo' # <<>>
    BY <2>1, <2>4
  <2> QED BY <2>1, <2>2, <2>6, <2>7, <2>8
<1>4. ASSUME SendDone PROVE SenderOK' /\ Flowing'
  <2>1. SenderOK'
    BY <1>4 DEF SendDone, FifoOK, Tracked
  <2>2. /\ IF sMsg THEN ~Fits ELSE nDeq = Len(sent)
        /\ txPaused' = (txPaused /\ ~(pump = "handleTx" /\ txHead = Len(txFifo)))
        /\ pump' = "no" /\ pump # "no" /\ UNCHANGED <<sent, nDeq, sMsg, txFifo>>
    BY <1>4 DEF SendDone
  <2>3. txHead = Len(txFifo) <=> txFifo = <<>>
    <3>1. txFifo = <<>> => txHead = Len(txFifo)
      BY DEF FifoOK
    <3> QED BY <3>1, UnwrittenLeft
  <2>4. sMsg => txFifo # <<>>
    <3>1. SUFFICES ASSUME sMsg, txFifo = <<>> PROVE FALSE
      OBVIOUS
    <3>2. sent[nDeq] \in Message /\ Remaining \in Nat /\ Remaining <= sent[nDeq].len /\ sent[nDeq].len \in Nat
      BY <3>1, CurrentMessage
    <3>3. Room = MaxMsgLen /\ Room \in Nat
      BY <3>1, RoomProperties
    <3>4. sent[nDeq].dontFrag => Room >= Remaining
      BY <3>2, <3>3, MessageType
    <3>5. Room >= FragmentThreshold
      BY <3>3, SizeAssumption
    <3>6. Fits
      BY <3>4, <3>5 DEF Fits
    <3> QED BY <2>2, <3>1, <3>6
  <2>5. nDeq < Len(sent) => sMsg
    BY <2>2
  <2>6. (txFifo # <<>> => txPaused') /\ (txPaused' => txFifo # <<>>)
    BY <2>2, <2>3
  <2> QED BY <2>1, <2>2, <2>4, <2>5, <2>6
<1>5. ASSUME HandleTx PROVE SenderOK' /\ Flowing'
  <2>1. PICK h \in txHead + 1 .. Len(txFifo) :
           /\ IF h = Len(txFifo) THEN txFifo' = <<>> /\ txHead' = 0 /\ txMsgHead' = 0
              ELSE txFifo' = txFifo /\ txHead' = h /\ txMsgHead' \in 0 .. h
           /\ Tracked'
           /\ txPaused /\ pump' = "handleTx"
           /\ UNCHANGED <<sent, nDeq, sMsg, sMsgTxPos, txPaused, receiver>>
    BY <1>5, Written
  <2>2. FifoOK'
    <3>1. CASE h = Len(txFifo)
      <4>1. <<>> \in Seq(Octet) /\ Len(<<>>) = 0 /\ 0 <= FifoSize
        BY SizeAssumption DEF FifoSize
      <4> QED BY <2>1, <3>1, <4>1 DEF FifoOK
    <3>2. CASE h # Len(txFifo)
      BY <2>1, <3>2 DEF FifoOK
    <3> QED BY <3>1, <3>2
  <2> QED BY <2>1, <2>2
<1>6. ASSUME UNCHANGED sender PROVE SenderOK' /\ Flowing'
  BY <1>6 DEF sender, FifoOK, Tracked
<1>7. HandleRx \/ MsgReceived \/ ParseDone => UNCHANGED sender
  BY DEF HandleRx, MsgReceived, ParseDone
<1> QED BY <1>1, <1>2, <1>3, <1>4, <1>5, <1>6, <1>7 DEF Next, SendData, Parse

LEMMA SenderInvariant == Spec => [](SenderOK /\ Flowing)
<1>1. Init => SenderOK /\ Flowing
  <2>1. SUFFICES ASSUME Init PROVE SenderOK /\ Flowing
    OBVIOUS
  <2>2. FifoOK
    <3>1. <<>> \in Seq(Octet) /\ Len(<<>>) = 0 /\ 0 <= FifoSize
      BY SizeAssumption DEF FifoSize
    <3> QED BY <2>1, <3>1 DEF Init, FifoOK, Tracked
  <2>3. QueueOK
    <3>1. <<>> \in Seq(Message) /\ Len(<<>>) = 0 /\ 0 \in 0 .. 0 /\ 0 <= MaxMsgs
      BY SizeAssumption
    <3> QED BY <2>1, <3>1 DEF Init, QueueOK
  <2> QED BY <2>1, <2>2, <2>3 DEF Init, SenderOK, Flowing
<1>2. SenderOK /\ Flowing /\ [Next]_vars => (SenderOK /\ Flowing)'
  <2>1. UNCHANGED vars => (SenderOK /\ Flowing => (SenderOK /\ Flowing)')
    BY DEF vars, sender, SenderOK, QueueOK, FifoOK, Tracked, Flowing
  <2> QED BY <2>1, SenderStep
<1> QED BY <1>1, <1>2, PTL DEF Spec

(* A session whose client reads is never stuck: what waits in txMsgList_ waits   *)
(* for the message that is being serialized, and that one for bytes handleTx is  *)
(* registered to write.                                                          *)
THEOREM NoStallCorrect == Spec => []NoStall
<1>1. SenderOK /\ Flowing => NoStall
  BY DEF SenderOK, QueueOK, Flowing, NoStall
<1> QED BY <1>1, SenderInvariant, PTL

-----------------------------------------------------------------------------
(* The stream                                                                *)

(* What is on its way: in the receiver's fifo, in the connection, in the sender's *)
(* fifo.                                                                         *)
Stream == Drop(rxFifo, rxHead) \o (conn \o Drop(txFifo, txHead))

Buffers ==
  /\ conn \in Seq(Octet)
  /\ rxFifo \in Seq(Octet) /\ Len(rxFifo) <= FifoSize
  /\ rxHead \in Nat /\ rxHead <= Len(rxFifo)
  /\ parsing \in BOOLEAN /\ open
  /\ ~parsing => rxHead = 0 /\ Len(rxFifo) < FifoSize

LEMMA StreamType ==
  ASSUME SenderOK, Buffers
  PROVE  /\ Buf \in Seq(Octet) /\ Len(Buf) = Len(rxFifo) - rxHead
         /\ Drop(txFifo, txHead) \in Seq(Octet)
         /\ conn \o Drop(txFifo, txHead) \in Seq(Octet)
         /\ Stream = Buf \o (conn \o Drop(txFifo, txHead)) /\ Stream \in Seq(Octet)
<1>1. Buf \in Seq(Octet) /\ Len(Buf) = Len(rxFifo) - rxHead
  BY DropSlice DEF Buffers, Buf
<1>2. Drop(txFifo, txHead) \in Seq(Octet)
  BY DropSlice DEF SenderOK, FifoOK
<1>3. conn \o Drop(txFifo, txHead) \in Seq(Octet)
  BY <1>2, ConcatProperties DEF Buffers
<1>4. Stream = Buf \o (conn \o Drop(txFifo, txHead))
  BY DEF Stream, Buf
<1> QED BY <1>1, <1>2, <1>3, <1>4, ConcatProperties

(* Writing and reading move bytes along the stream. *)
LEMMA StreamWrite ==
  ASSUME SenderOK, Buffers, HandleTx
  PROVE  Stream' = Stream /\ conn' \in Seq(Octet)
<1> DEFINE b == Drop(rxFifo, rxHead)
           t == Drop(txFifo', txHead')
<1>1. PICK h \in txHead + 1 .. Len(txFifo) :
           /\ conn' = conn \o SubSeq(txFifo, txHead + 1, h)
           /\ IF h = Len(txFifo) THEN txFifo' = <<>> /\ txHead' = 0 /\ txMsgHead' = 0
              ELSE txFifo' = txFifo /\ txHead' = h /\ txMsgHead' \in 0 .. h
           /\ UNCHANGED receiver
  BY Written
<1>2. /\ txFifo \in Seq(Octet) /\ txHead \in Nat /\ Len(txFifo) \in Nat /\ conn \in Seq(Octet)
      /\ h \in Nat /\ h <= Len(txFifo) /\ txHead <= h
  BY <1>1 DEF SenderOK, FifoOK, Buffers
<1> DEFINE x == SubSeq(txFifo, txHead + 1, h)
<1>3. t = Drop(txFifo, h) /\ t \in Seq(Octet)
  <2>1. Drop(txFifo, h) \in Seq(Octet)
    BY <1>2, DropSlice
  <2>2. CASE h = Len(txFifo)
    <3>1. Drop(txFifo, h) = <<>>
      <4>1. Len(Drop(txFifo, h)) = 0
        <5>1. Len(Drop(txFifo, h)) = Len(txFifo) - h
          BY <1>2, DropSlice
        <5> QED BY <1>2, <2>2, <5>1
      <4> QED BY <2>1, <4>1, EmptySeq
    <3>2. t = <<>>
      BY <1>1, <2>2 DEF Drop
    <3> QED BY <2>1, <3>1, <3>2
  <2>3. CASE h # Len(txFifo)
    BY <1>1, <2>1, <2>3
  <2> QED BY <2>2, <2>3
<1>4. x \in Seq(Octet)
  BY <1>2, Slice
<1>5. x \o t = Drop(txFifo, txHead)
  BY <1>2, <1>3, DropParts
<1>6. conn' = conn \o x /\ conn \o x \in Seq(Octet)
  BY <1>1, <1>2, <1>4, ConcatProperties
<1> HIDE DEF x, t
<1>7. conn' \o t = conn \o Drop(txFifo, txHead)
  <2>1. (conn \o x) \o t = conn \o (x \o t)
    BY <1>2, <1>3, <1>4, OctetsAssociative
  <2> QED BY <1>5, <1>6, <2>1
<1>8. Stream' = b \o (conn' \o t)
  BY <1>1 DEF receiver, Stream, t
<1> QED BY <1>6, <1>7, <1>8 DEF Stream

LEMMA StreamRead ==
  ASSUME SenderOK, Buffers, HandleRx
  PROVE  Stream' = Stream /\ Buffers' /\ UNCHANGED <<sender, objInfo, ss, handled>>
<1>1. ~parsing /\ Len(rxFifo) < FifoSize /\ Len(rxFifo) \in Nat /\ FifoSize \in Nat /\ rxHead = 0
  BY RoomProperties DEF HandleRx, Buffers
<1>2. PICK n \in 1 .. Len(conn) :
            /\ Len(rxFifo) + n <= FifoSize
            /\ rxFifo' = rxFifo \o Take(conn, n)
            /\ conn' = Drop(conn, n)
            /\ parsing' = TRUE
            /\ UNCHANGED open
  <2>1. ~(Len(rxFifo) = FifoSize)
    BY <1>1
  <2>2. IF Len(rxFifo) = FifoSize
        THEN open' = FALSE /\ UNCHANGED <<rxFifo, conn, parsing>>
        ELSE \E n \in 1 .. Len(conn) :
               /\ Len(rxFifo) + n <= FifoSize
               /\ rxFifo' = rxFifo \o Take(conn, n)
               /\ conn' = Drop(conn, n)
               /\ parsing' = TRUE
               /\ UNCHANGED open
    BY DEF HandleRx
  <2> QED BY <2>1, <2>2
<1>3. UNCHANGED <<sender, rxHead, objInfo, ss, handled>>
  BY DEF HandleRx
<1> DEFINE b == Drop(rxFifo, rxHead)
           x == Take(conn, n)
           c == Drop(conn, n)
           t == Drop(txFifo, txHead)
<1>4. /\ conn \in Seq(Octet) /\ n \in Nat /\ n <= Len(conn) /\ rxFifo \in Seq(Octet)
      /\ rxHead \in Nat /\ rxHead <= Len(rxFifo)
  BY <1>2 DEF Buffers
<1>5. x \in Seq(Octet) /\ Len(x) = n
  BY <1>4, TakeSlice
<1>6. c \in Seq(Octet)
  BY <1>4, DropSlice
<1>7. x \o c = conn
  <2>1. Take(conn, n) = SubSeq(conn, 0 + 1, n) /\ Drop(conn, 0) = conn
    BY <1>4 DEF Take, Drop
  <2>2. SubSeq(conn, 0 + 1, n) \o Drop(conn, n) = Drop(conn, 0)
    BY <1>4, DropParts
  <2> QED BY <2>1, <2>2
<1>8. b \in Seq(Octet) /\ t \in Seq(Octet)
  BY StreamType DEF Buf
<1>9. Drop(rxFifo', rxHead') = b \o x
  BY <1>2, <1>3, <1>4, <1>5, DropConcat
<1>10. Stream' = (b \o x) \o (c \o t)
  BY <1>2, <1>3, <1>9 DEF Stream, sender
<1>11. rxFifo' \in Seq(Octet) /\ Len(rxFifo') = Len(rxFifo) + n
  BY <1>2, <1>4, <1>5, ConcatProperties
<1> HIDE DEF b, x, c, t
<1>12. c \o t \in Seq(Octet) /\ (x \o c) \o t = x \o (c \o t)
  BY <1>5, <1>6, <1>8, ConcatProperties, OctetsAssociative
<1> DEFINE u == c \o t
<1>13. (b \o x) \o u = b \o (x \o u)
  <2>1. u \in Seq(Octet)
    BY <1>12
  <2> HIDE DEF u
  <2> QED BY <1>5, <1>8, <2>1, OctetsAssociative
<1>14. Stream' = Stream
  BY <1>7, <1>10, <1>12, <1>13 DEF Stream, b, t
<1>15. Buffers'
  <2>1. conn' \in Seq(Octet)
    BY <1>2, <1>6 DEF c
  <2>2. rxHead' <= Len(rxFifo') /\ Len(rxFifo') <= FifoSize /\ rxHead' \in Nat
    BY <1>1, <1>2, <1>3, <1>11
  <2>3. open' /\ parsing' = TRUE
    BY <1>2 DEF Buffers
  <2> QED BY <1>11, <2>1, <2>2, <2>3 DEF Buffers
<1> QED BY <1>3, <1>14, <1>15

(* A fragment joins the stream at its end. *)
LEMMA StreamSend ==
  ASSUME SenderOK, Buffers, NEW f \in Frag, f.from <= f.to, sent[f.msg] \in Message,
         txFifo' = txFifo \o Chunk(f), UNCHANGED <<txHead, conn, receiver>>
  PROVE  Stream' = Stream \o Chunk(f)
<1> DEFINE b == Drop(rxFifo, rxHead)
           t == Drop(txFifo, txHead)
<1>1. Chunk(f) \in Seq(Octet)
  BY ChunkElements
<1>2. Drop(txFifo', txHead') = t \o Chunk(f)
  BY <1>1, DropConcat DEF SenderOK, FifoOK
<1>3. b \in Seq(Octet) /\ t \in Seq(Octet) /\ conn \in Seq(Octet) /\ conn \o t \in Seq(Octet)
  BY StreamType DEF Buf, Buffers
<1>4. Stream' = b \o (conn \o (t \o Chunk(f))) /\ Stream = b \o (conn \o t)
  BY <1>2 DEF Stream, receiver
<1> HIDE DEF b, t
<1> DEFINE u == Chunk(f)
           v == conn \o t
<1>5. conn \o (t \o u) = v \o u
  <2>1. conn \in Seq(Octet) /\ t \in Seq(Octet) /\ u \in Seq(Octet)
    BY <1>1, <1>3
  <2> HIDE DEF u
  <2>2. (conn \o t) \o u = conn \o (t \o u)
    BY <2>1, OctetsAssociative, Zenon
  <2> QED BY <2>2
<1>6. b \o (v \o u) = (b \o v) \o u
  <2>1. b \in Seq(Octet) /\ v \in Seq(Octet) /\ u \in Seq(Octet)
    BY <1>1, <1>3
  <2> HIDE DEF u, v
  <2>2. (b \o v) \o u = b \o (v \o u)
    BY <2>1, OctetsAssociative, Zenon
  <2> QED BY <2>2
<1> HIDE DEF u
<1>7. Stream' = b \o (v \o u) /\ Stream = b \o v
  BY <1>4, <1>5 DEF u
<1> QED BY <1>6, <1>7 DEF u

(* What is handled leaves it at its beginning. *)
LEMMA StreamTake ==
  ASSUME SenderOK, Buffers, NEW n \in Nat, n <= Len(Buf),
         rxHead' = rxHead + n, UNCHANGED <<sender, conn, rxFifo>>
  PROVE  Stream' = Drop(Stream, n)
<1> DEFINE r == conn \o Drop(txFifo, txHead)
<1>1. rxFifo \in Seq(Octet) /\ rxHead \in Nat /\ rxHead + n <= Len(rxFifo)
  BY StreamType DEF Buffers
<1>2. Drop(Buf, n) = Drop(rxFifo, rxHead + n)
  BY <1>1, DropDrop DEF Buf
<1>3. Stream' = Drop(Buf, n) \o r
  BY <1>2 DEF Stream, sender
<1>4. Buf \in Seq(Octet) /\ r \in Seq(Octet) /\ Stream = Buf \o r
  BY StreamType
<1> HIDE DEF r
<1>5. Drop(Buf \o r, n) = Drop(Buf, n) \o r
  BY <1>4, DropConcat
<1> QED BY <1>3, <1>4, <1>5

(* The fragments frs[1 .. n] were sent so far and the first r of them handled;    *)
(* pos[k] bytes were sent before the k-th.                                       *)
Sending  == [Nat -> Frag]
Offsets  == [Nat -> Nat]

At(f)   == <<f.msg, f.from>>
Succ(f) == IF f.more THEN <<f.msg, f.to + 1>> ELSE <<f.msg + 1, 1>>
Start(frs, k) == IF k = 1 THEN <<1, 1>> ELSE Succ(frs[k - 1])

(* The next byte that the sender sends, and that the receiver expects.           *)
SendPos == IF sMsg THEN <<nDeq, sMsgTxPos + 1>> ELSE <<nDeq + 1, 1>>
RecvPos == <<Len(handled) + 1, Len(objInfo) + Len(ss) + 1>>

(* Those that are not handled lie in the stream one after the other ...          *)
Laid(frs, pos, n, r) ==
  /\ \A k \in 1 .. n : Made(frs[k]) /\ pos[k + 1] = pos[k] + Size(frs[k])
  /\ \A j, k \in 1 .. n + 1 : j <= k => pos[j] <= pos[k]
  /\ pos[n + 1] = pos[r + 1] + Len(Stream)
  /\ \A k \in r + 1 .. n : \A j \in 1 .. Size(frs[k]) :
       Stream[pos[k] - pos[r + 1] + j] = OctetAt(frs[k], j)

(* ... and each continues where the one before it ends.                          *)
InSequence(frs, n, r) ==
  /\ \A k \in 1 .. n : At(frs[k]) = Start(frs, k)
  /\ RecvPos = Start(frs, r + 1)
  /\ SendPos = Start(frs, n + 1)

Carries(frs, pos, n, r) == Laid(frs, pos, n, r) /\ InSequence(frs, n, r)

LEMMA MadeFacts ==
  ASSUME SenderOK, NEW f \in Frag, Made(f)
  PROVE  /\ f.msg \in 1 .. nDeq /\ f.msg \in 1 .. Len(sent) /\ sent[f.msg] \in Message
         /\ f.from \in Nat \ {0} /\ f.to \in Nat /\ f.from <= f.to /\ f.more \in BOOLEAN
         /\ Size(f) \in Nat /\ Size(f) > HdrLen /\ Size(f) = HdrLen + f.to - f.from + 1
         /\ HdrLen \in Nat \ {0} /\ nDeq \in Nat
<1>1. /\ f.msg \in Nat \ {0} /\ f.from \in Nat \ {0} /\ f.to \in Nat /\ f.more \in BOOLEAN
      /\ f.msg <= nDeq /\ f.from <= f.to
  BY DEF Frag, Made
<1>2. nDeq \in 0 .. Len(sent) /\ sent \in Seq(Message) /\ Len(sent) \in Nat
  BY DEF SenderOK, QueueOK
<1>3. f.msg \in 1 .. nDeq /\ f.msg \in 1 .. Len(sent)
  BY <1>1, <1>2
<1>4. sent[f.msg] \in Message
  BY <1>2, <1>3
<1>5. Size(f) \in Nat /\ Size(f) > HdrLen
  BY <1>1, <1>4, ChunkElements
<1> QED BY <1>1, <1>2, <1>3, <1>4, <1>5, SizeAssumption DEF Size

(* What was sent stays what it was.                                              *)
LEMMA StillMade ==
  ASSUME SenderOK, NEW f \in Frag, Made(f), nDeq' \in Nat, nDeq' >= nDeq,
         \A i \in 1 .. nDeq : sent'[i] = sent[i]
  PROVE  Made(f)' /\ \A j : OctetAt(f, j)' = OctetAt(f, j)
<1>1. f.msg \in 1 .. nDeq /\ nDeq \in Nat
  BY MadeFacts
<1>2. sent'[f.msg] = sent[f.msg]
  BY <1>1
<1>3. f.msg <= nDeq'
  BY <1>1
<1>4. Made(f)'
  BY <1>2, <1>3 DEF Made
<1>5. ASSUME NEW j PROVE OctetAt(f, j)' = OctetAt(f, j)
  BY <1>2 DEF OctetAt, Byte
<1> QED BY <1>4, <1>5

LEMMA CarriesSame ==
  ASSUME SenderOK, NEW n \in Nat, NEW r \in Nat, r <= n, NEW frs \in Sending, NEW pos \in Offsets,
         Carries(frs, pos, n, r), Stream' = Stream, nDeq' \in Nat, nDeq' >= nDeq,
         \A i \in 1 .. nDeq : sent'[i] = sent[i], RecvPos' = RecvPos, SendPos' = SendPos
  PROVE  Carries(frs, pos, n, r)'
<1>1. \A k \in 1 .. n : frs[k] \in Frag /\ Made(frs[k])
  BY DEF Carries, Laid, Sending
<1>2. \A k \in 1 .. n : Made(frs[k])' /\ \A j : OctetAt(frs[k], j)' = OctetAt(frs[k], j)
  BY <1>1, StillMade
<1>3. Laid(frs, pos, n, r)'
  <2>1. /\ \A k \in 1 .. n : pos[k + 1] = pos[k] + Size(frs[k])
        /\ \A j, k \in 1 .. n + 1 : j <= k => pos[j] <= pos[k]
        /\ pos[n + 1] = pos[r + 1] + Len(Stream')
    BY DEF Carries, Laid
  <2>2. ASSUME NEW k \in r + 1 .. n, NEW j \in 1 .. Size(frs[k])
        PROVE  Stream'[pos[k] - pos[r + 1] + j] = OctetAt(frs[k], j)'
    <3>1. k \in 1 .. n
      OBVIOUS
    <3>2. OctetAt(frs[k], j)' = OctetAt(frs[k], j)
      BY <1>2, <3>1
    <3>3. Stream[pos[k] - pos[r + 1] + j] = OctetAt(frs[k], j)
      BY DEF Carries, Laid
    <3> QED BY <3>2, <3>3
  <2> QED BY <1>2, <2>1, <2>2 DEF Laid
<1>4. InSequence(frs, n, r)'
  BY DEF Carries, InSequence, At, Start, Succ
<1> QED BY <1>3, <1>4 DEF Carries

(* The first fragment in the stream, if there is one, is the one the receiver    *)
(* expects.                                                                      *)
LEMMA FirstFragment ==
  ASSUME SenderOK, Buffers, NEW n \in Nat, NEW r \in Nat, r <= n, NEW frs \in Sending, NEW pos \in Offsets,
         Carries(frs, pos, n, r), Stream # <<>>
  PROVE  /\ r < n /\ frs[r + 1] \in Frag /\ Made(frs[r + 1]) /\ At(frs[r + 1]) = RecvPos
         /\ Size(frs[r + 1]) <= Len(Stream)
         /\ \A j \in 1 .. Size(frs[r + 1]) : Stream[j] = OctetAt(frs[r + 1], j)
<1>1. Stream \in Seq(Octet) /\ Len(Stream) \in Nat /\ Len(Stream) > 0
  BY StreamType
<1>2. r # n
  <2>1. SUFFICES ASSUME r = n PROVE FALSE
    OBVIOUS
  <2>2. pos[n + 1] = pos[n + 1] + Len(Stream) /\ pos[n + 1] \in Nat
    BY <2>1 DEF Carries, Laid, Offsets
  <2> QED BY <1>1, <2>2
<1>3. r < n /\ r + 1 \in 1 .. n /\ r + 1 \in r + 1 .. n /\ r + 1 \in Nat
  BY <1>2
<1> DEFINE f == frs[r + 1]
<1>4. f \in Frag /\ Made(f) /\ pos[r + 2] = pos[r + 1] + Size(f)
  <2>1. (r + 1) + 1 = r + 2
    OBVIOUS
  <2> QED BY <1>3, <2>1 DEF Carries, Laid, Sending
<1>5. At(f) = RecvPos
  BY <1>3 DEF Carries, InSequence
<1>6. pos[r + 1] \in Nat /\ pos[r + 2] \in Nat /\ pos[n + 1] \in Nat
  <2>1. r + 1 \in Nat /\ r + 2 \in Nat /\ n + 1 \in Nat
    OBVIOUS
  <2> QED BY <2>1 DEF Offsets
<1>7. pos[r + 2] <= pos[n + 1] /\ pos[n + 1] = pos[r + 1] + Len(Stream)
  <2>1. r + 2 \in 1 .. n + 1 /\ n + 1 \in 1 .. n + 1 /\ r + 2 <= n + 1
    BY <1>3
  <2> QED BY <2>1 DEF Carries, Laid
<1>8. Size(f) \in Nat
  BY <1>4, MadeFacts
<1>9. Size(f) <= Len(Stream)
  BY <1>1, <1>4, <1>6, <1>7, <1>8
<1>10. ASSUME NEW j \in 1 .. Size(f) PROVE Stream[j] = OctetAt(f, j)
  <2>1. Stream[pos[r + 1] - pos[r + 1] + j] = OctetAt(f, j)
    BY <1>3, <1>10 DEF Carries, Laid
  <2>2. pos[r + 1] - pos[r + 1] + j = j
    BY <1>6, <1>8
  <2> QED BY <2>1, <2>2
<1> QED BY <1>3, <1>4, <1>5, <1>9, <1>10

(* It is handled.                                                                *)
LEMMA CarriesTaken ==
  ASSUME SenderOK, Buffers, NEW n \in Nat, NEW r \in Nat, r <= n, NEW frs \in Sending, NEW pos \in Offsets,
         Carries(frs, pos, n, r), Stream # <<>>, Stream' = Drop(Stream, Size(frs[r + 1])),
         UNCHANGED sender, RecvPos' = Succ(frs[r + 1])
  PROVE  r + 1 <= n /\ Carries(frs, pos, n, r + 1)'
<1> DEFINE f == frs[r + 1]
           b == Size(f)
<1>1. r < n /\ f \in Frag /\ Made(f) /\ b <= Len(Stream)
  BY FirstFragment
<1>2. b \in Nat
  BY <1>1, MadeFacts
<1>3. Stream \in Seq(Octet) /\ Len(Stream) \in Nat
  BY StreamType
<1>4. Len(Stream') = Len(Stream) - b /\ \A i \in 1 .. Len(Stream) - b : Stream'[i] = Stream[b + i]
  BY <1>1, <1>2, <1>3, DropSlice
<1>5. /\ pos[r + 1] \in Nat /\ pos[r + 2] \in Nat /\ pos[r + 2] = pos[r + 1] + b
      /\ pos[n + 1] \in Nat /\ pos[n + 1] = pos[r + 1] + Len(Stream)
  <2>1. r + 1 \in 1 .. n /\ (r + 1) + 1 = r + 2
    BY <1>1
  <2> QED BY <2>1 DEF Carries, Laid, Offsets
<1> HIDE DEF b
<1>6. sent' = sent /\ nDeq' = nDeq /\ nDeq \in Nat
  BY DEF sender, SenderOK, QueueOK
<1>7. \A k \in 1 .. n : frs[k] \in Frag /\ Made(frs[k]) /\ pos[k] \in Nat /\ pos[k + 1] \in Nat
  <2>1. \A k \in 1 .. n : k \in Nat /\ k + 1 \in Nat
    OBVIOUS
  <2> QED BY <2>1 DEF Carries, Laid, Sending, Offsets
<1>8. \A k \in 1 .. n : Made(frs[k])' /\ \A j : OctetAt(frs[k], j)' = OctetAt(frs[k], j)
  BY <1>6, <1>7, StillMade
<1>9. ASSUME NEW k \in (r + 1) + 1 .. n, NEW j \in 1 .. Size(frs[k])
      PROVE  Stream'[pos[k] - pos[(r + 1) + 1] + j] = OctetAt(frs[k], j)'
  <2>1. k \in 1 .. n /\ k \in r + 1 .. n /\ r + 2 \in 1 .. n + 1 /\ k \in 1 .. n + 1 /\ k + 1 \in 1 .. n + 1
        /\ n + 1 \in 1 .. n + 1 /\ r + 2 <= k /\ k + 1 <= n + 1 /\ (r + 1) + 1 = r + 2
    BY <1>1
  <2>2. Size(frs[k]) \in Nat
    BY <1>7, <2>1, MadeFacts
  <2>3. pos[k + 1] = pos[k] + Size(frs[k]) /\ pos[r + 2] <= pos[k] /\ pos[k + 1] <= pos[n + 1]
    BY <2>1 DEF Carries, Laid
  <2>4. pos[k] \in Nat /\ pos[k + 1] \in Nat
    BY <1>7, <2>1
  <2>5. pos[k] - pos[r + 2] + j \in 1 .. Len(Stream) - b /\ b + (pos[k] - pos[r + 2] + j) = pos[k] - pos[r + 1] + j
    <3> DEFINE p == pos[k]
               q == pos[k + 1]
               x == pos[r + 1]
               y == pos[r + 2]
               z == Size(frs[k])
               l == Len(Stream)
    <3>1. /\ p \in Nat /\ q \in Nat /\ x \in Nat /\ y \in Nat /\ z \in Nat /\ l \in Nat /\ b \in Nat /\ j \in 1 .. z
          /\ q = p + z /\ y <= p /\ q <= x + l /\ y = x + b
      BY <1>2, <1>3, <1>5, <2>2, <2>3, <2>4
    <3> HIDE DEF p, q, x, y, z, l
    <3>2. p - y + j \in 1 .. l - b /\ b + (p - y + j) = p - x + j
      BY <3>1
    <3> QED BY <3>2 DEF p, x, y, l
  <2>6. Stream[pos[k] - pos[r + 1] + j] = OctetAt(frs[k], j)
    BY <2>1 DEF Carries, Laid
  <2>7. OctetAt(frs[k], j)' = OctetAt(frs[k], j)
    BY <1>8, <2>1
  <2> QED BY <1>4, <2>1, <2>5, <2>6, <2>7
<1>10. pos[n + 1] = pos[(r + 1) + 1] + Len(Stream')
  <2>1. (r + 1) + 1 = r + 2
    OBVIOUS
  <2> QED BY <1>2, <1>3, <1>4, <1>5, <2>1
<1>11. Laid(frs, pos, n, r + 1)'
  <2>1. \A k \in 1 .. n : pos[k + 1] = pos[k] + Size(frs[k])
    BY DEF Carries, Laid
  <2>2. \A j, k \in 1 .. n + 1 : j <= k => pos[j] <= pos[k]
    BY DEF Carries, Laid
  <2> QED BY <1>8, <1>9, <1>10, <2>1, <2>2 DEF Laid
<1>12. InSequence(frs, n, r + 1)'
  <2>1. \A k \in 1 .. n : At(frs[k]) = Start(frs, k)
    BY DEF Carries, InSequence
  <2>2. SendPos' = Start(frs, n + 1)
    BY DEF Carries, InSequence, SendPos, sender
  <2>3. RecvPos' = Start(frs, (r + 1) + 1)
    <3>1. (r + 1) + 1 # 1 /\ (r + 1) + 1 - 1 = r + 1
      OBVIOUS
    <3> QED BY <3>1 DEF Start
  <2> QED BY <2>1, <2>2, <2>3 DEF InSequence
<1> QED BY <1>1, <1>11, <1>12 DEF Carries

(* It is sent.                                                                   *)
LEMMA CarriesSent ==
  ASSUME SenderOK, Buffers, NEW n \in Nat, NEW r \in Nat, r <= n, NEW frs \in Sending, NEW pos \in Offsets,
         Carries(frs, pos, n, r), SendPart
  PROVE  \E frs2 \in Sending, pos2 \in Offsets : Carries(frs2, pos2, n + 1, r)'
<1>1. PICK f \in Frag :
           /\ f.msg = nDeq /\ f.from = sMsgTxPos + 1 /\ f.from <= f.to /\ Made(f)
           /\ txFifo' = txFifo \o Chunk(f)
           /\ Size(f) \in Nat /\ Size(f) > 0
           /\ IF f.more THEN sMsg' = TRUE /\ sMsgTxPos' = f.to ELSE sMsg' = FALSE /\ sMsgTxPos' = 0
           /\ UNCHANGED <<sent, nDeq, txHead, txMsgHead, pump, conn, receiver>>
  BY PartSent
<1> DEFINE b == Size(f)
           frs2 == [frs EXCEPT ![n + 1] = f]
           pos2 == [pos EXCEPT ![n + 2] = pos[n + 1] + b]
           l == Len(Stream)
<1>2. /\ frs2 \in Sending /\ \A k \in Nat : frs2[k] = IF k = n + 1 THEN f ELSE frs[k]
      /\ pos2 \in Offsets /\ \A k \in Nat : pos2[k] = IF k = n + 2 THEN pos[n + 1] + b ELSE pos[k]
  <2>1. n + 1 \in Nat /\ n + 2 \in Nat /\ pos[n + 1] + b \in Nat
    <3>1. n + 1 \in Nat /\ n + 2 \in Nat /\ b \in Nat
      BY <1>1
    <3>2. pos[n + 1] \in Nat
      BY <3>1 DEF Offsets
    <3> HIDE DEF b
    <3> QED BY <3>1, <3>2
  <2> HIDE DEF b
  <2> QED BY <2>1 DEF Sending, Offsets
<1> HIDE DEF frs2, pos2
<1>3. sent[f.msg] \in Message
  BY <1>1, MadeFacts
<1>4. Stream' = Stream \o Chunk(f)
  BY <1>1, <1>3, StreamSend
<1>5. Stream \in Seq(Octet) /\ l \in Nat
  BY StreamType
<1>6. /\ Len(Stream') = l + b
      /\ \A i \in 1 .. l : Stream'[i] = Stream[i]
      /\ \A j \in 1 .. b : Stream'[l + j] = OctetAt(f, j)
  <2>1. Chunk(f) \in Seq(Octet) /\ Len(Chunk(f)) = b /\ \A j \in 1 .. b : Chunk(f)[j] = OctetAt(f, j)
    BY <1>1, <1>3, ChunkElements
  <2> DEFINE c == Chunk(f)
  <2>2. c \in Seq(Octet) /\ Len(c) = b /\ b \in Nat /\ \A j \in 1 .. b : c[j] = OctetAt(f, j)
    BY <1>1, <2>1
  <2>3. Stream' = Stream \o c
    BY <1>4
  <2> HIDE DEF b, c
  <2> DEFINE u == Stream \o c
  <2>4. Len(u) = Len(Stream) + Len(c)
        /\ \A i \in 1 .. Len(Stream) + Len(c) : u[i] = IF i <= Len(Stream) THEN Stream[i] ELSE c[i - Len(Stream)]
    BY <1>5, <2>2, ConcatProperties
  <2>5. Stream' = u
    BY <2>3
  <2> HIDE DEF u
  <2>6. Len(u) = l + b
    BY <2>2, <2>4
  <2>7. ASSUME NEW i \in 1 .. l PROVE u[i] = Stream[i]
    BY <1>5, <2>2, <2>4
  <2>8. ASSUME NEW j \in 1 .. b PROVE u[l + j] = OctetAt(f, j)
    <3>1. l + j \in 1 .. l + b /\ ~(l + j <= l) /\ l + j - l = j
      BY <1>5, <2>2
    <3> QED BY <2>2, <2>4, <3>1
  <2> QED BY <2>5, <2>6, <2>7, <2>8
<1>7. sent' = sent /\ nDeq' = nDeq /\ nDeq \in Nat
  BY <1>1 DEF SenderOK, QueueOK
<1>8. \A k \in 1 .. n : /\ frs[k] \in Frag /\ Made(frs[k]) /\ pos[k] \in Nat /\ pos[k + 1] \in Nat
                        /\ pos[k + 1] = pos[k] + Size(frs[k])
  <2>1. \A k \in 1 .. n : k \in Nat /\ k + 1 \in Nat
    OBVIOUS
  <2> QED BY <2>1 DEF Carries, Laid, Sending, Offsets
<1>9. Made(f)' /\ \A j : OctetAt(f, j)' = OctetAt(f, j)
  BY <1>1, <1>7, StillMade
<1>10. \A k \in 1 .. n : Made(frs[k])' /\ \A j : OctetAt(frs[k], j)' = OctetAt(frs[k], j)
  BY <1>7, <1>8, StillMade
<1>11. /\ \A k \in 1 .. n : frs2[k] = frs[k] /\ frs2[n + 1] = f
       /\ \A k \in 1 .. n + 1 : pos2[k] = pos[k] /\ pos2[n + 2] = pos[n + 1] + b
  <2>1. \A k \in 1 .. n : k \in Nat /\ k # n + 1
    OBVIOUS
  <2>2. \A k \in 1 .. n + 1 : k \in Nat /\ k # n + 2
    OBVIOUS
  <2>3. n + 1 \in Nat /\ n + 2 \in Nat
    OBVIOUS
  <2> QED BY <1>2, <2>1, <2>2, <2>3
<1>12. pos[n + 1] \in Nat /\ pos[r + 1] \in Nat /\ pos[n + 1] = pos[r + 1] + l
  <2>1. n + 1 \in Nat /\ r + 1 \in Nat
    OBVIOUS
  <2> QED BY <2>1 DEF Offsets, Carries, Laid
<1>13. pos2[n + 1] = pos[n + 1] /\ pos2[r + 1] = pos[r + 1] /\ pos2[n + 2] = pos[n + 1] + b /\ frs2[n + 1] = f
  <2>1. n + 1 \in 1 .. n + 1 /\ r + 1 \in 1 .. n + 1 /\ n + 1 \in Nat /\ n + 2 \in Nat
    OBVIOUS
  <2> QED BY <1>2, <1>11, <2>1
<1> HIDE DEF b, l
<1>14. b \in Nat
  BY <1>1 DEF b
<1>15. ASSUME NEW k \in 1 .. n + 1 PROVE Made(frs2[k])' /\ pos2[k + 1] = pos2[k] + Size(frs2[k])
  <2>1. CASE k = n + 1
    <3>1. k + 1 = n + 2
      BY <2>1
    <3> QED BY <1>9, <1>13, <2>1, <3>1 DEF b
  <2>2. CASE k # n + 1
    <3>1. k \in 1 .. n /\ k + 1 \in 1 .. n + 1 /\ k \in 1 .. n + 1
      BY <2>2
    <3> QED BY <1>8, <1>10, <1>11, <3>1
  <2> QED BY <2>1, <2>2
<1>16. ASSUME NEW j \in 1 .. (n + 1) + 1, NEW k \in 1 .. (n + 1) + 1, j <= k PROVE pos2[j] <= pos2[k]
  <2>1. \A i \in 1 .. n + 1 : pos[i] <= pos[n + 1] /\ pos[i] \in Nat
    <3>1. ASSUME NEW i \in 1 .. n + 1 PROVE pos[i] <= pos[n + 1] /\ pos[i] \in Nat
      <4>1. i <= n + 1 /\ n + 1 \in 1 .. n + 1 /\ i \in Nat
        OBVIOUS
      <4> QED BY <4>1 DEF Carries, Laid, Offsets
    <3> QED BY <3>1
  <2>2. CASE j = n + 2
    <3>1. k = n + 2
      BY <1>16, <2>2
    <3> QED BY <1>12, <1>13, <1>14, <2>2, <3>1
  <2>3. CASE j # n + 2 /\ k = n + 2
    <3>1. j \in 1 .. n + 1
      BY <2>3
    <3>2. pos2[j] = pos[j] /\ pos[j] <= pos[n + 1] /\ pos[j] \in Nat
      BY <1>11, <2>1, <3>1
    <3> QED BY <1>12, <1>13, <1>14, <2>3, <3>2
  <2>4. CASE j # n + 2 /\ k # n + 2
    <3>1. j \in 1 .. n + 1 /\ k \in 1 .. n + 1
      BY <2>4
    <3>2. pos[j] <= pos[k]
      BY <1>16, <3>1 DEF Carries, Laid
    <3> QED BY <1>11, <3>1, <3>2
  <2> QED BY <2>2, <2>3, <2>4
<1>17. pos2[(n + 1) + 1] = pos2[r + 1] + Len(Stream')
  <2>1. (n + 1) + 1 = n + 2 /\ l \in Nat
    BY <1>5 DEF l
  <2>2. Len(Stream') = l + b
    BY <1>6
  <2>3. pos[r + 1] + l + b = pos[r + 1] + (l + b)
    BY <1>12, <1>14, <2>1
  <2> QED BY <1>12, <1>13, <2>1, <2>2, <2>3
<1>18. ASSUME NEW k \in r + 1 .. n + 1, NEW j \in 1 .. Size(frs2[k])
       PROVE  Stream'[pos2[k] - pos2[r + 1] + j] = OctetAt(frs2[k], j)'
  <2>1. CASE k = n + 1
    <3>1. frs2[k] = f /\ pos2[k] = pos[n + 1] /\ j \in 1 .. b
      BY <1>13, <2>1 DEF b
    <3>2. pos2[k] - pos2[r + 1] + j = l + j
      <4>1. l \in Nat
        BY <1>5
      <4> QED BY <1>12, <1>13, <1>14, <3>1, <4>1
    <3>3. Stream'[l + j] = OctetAt(f, j)
      BY <1>6, <3>1
    <3> QED BY <1>9, <3>1, <3>2, <3>3
  <2>2. CASE k # n + 1
    <3>1. k \in 1 .. n /\ k \in r + 1 .. n /\ k \in 1 .. n + 1 /\ k + 1 \in 1 .. n + 1 /\ n + 1 \in 1 .. n + 1
          /\ r + 1 \in 1 .. n + 1 /\ r + 1 <= k /\ k + 1 <= n + 1
      BY <2>2
    <3>2. frs2[k] = frs[k] /\ pos2[k] = pos[k] /\ j \in 1 .. Size(frs[k])
      BY <1>11, <3>1
    <3>3. Stream[pos[k] - pos[r + 1] + j] = OctetAt(frs[k], j)
      BY <3>1, <3>2 DEF Carries, Laid
    <3> DEFINE p == pos[k]
               q == pos[k + 1]
               x == pos[r + 1]
               z == Size(frs[k])
    <3>4. /\ p \in Nat /\ q \in Nat /\ x \in Nat /\ z \in Nat /\ l \in Nat /\ j \in 1 .. z
          /\ q = p + z /\ x <= p /\ q <= x + l
      <4>1. x <= p /\ q <= pos[n + 1]
        BY <3>1 DEF Carries, Laid
      <4>2. z \in Nat
        BY <1>8, <3>1, MadeFacts
      <4>3. l \in Nat
        BY <1>5
      <4> QED BY <1>8, <1>12, <3>1, <3>2, <4>1, <4>2, <4>3
    <3> HIDE DEF p, q, x, z
    <3>5. p - x + j \in 1 .. l
      BY <3>4
    <3>6. Stream'[p - x + j] = Stream[p - x + j]
      BY <1>6, <3>5
    <3>7. OctetAt(frs[k], j)' = OctetAt(frs[k], j)
      BY <1>10, <3>1
    <3> QED BY <1>13, <3>2, <3>3, <3>6, <3>7 DEF p, x
  <2> QED BY <2>1, <2>2
<1>19. Laid(frs2, pos2, n + 1, r)'
  BY <1>15, <1>16, <1>17, <1>18 DEF Laid
<1>20. InSequence(frs2, n + 1, r)'
  <2>1. ASSUME NEW k \in 1 .. n + 1 PROVE Start(frs2, k) = Start(frs, k)
    <3>1. CASE k = 1
      BY <3>1 DEF Start
    <3>2. CASE k # 1
      <4>1. k - 1 \in 1 .. n
        BY <3>2
      <4> QED BY <1>11, <3>2, <4>1 DEF Start
    <3> QED BY <3>1, <3>2
  <2>2. ASSUME NEW k \in 1 .. n + 1 PROVE At(frs2[k]) = Start(frs2, k)
    <3>1. CASE k = n + 1
      <4>1. At(f) = SendPos
        BY <1>1 DEF At, SendPos, SendPart
      <4>2. SendPos = Start(frs, n + 1)
        BY DEF Carries, InSequence
      <4> QED BY <1>13, <2>1, <3>1, <4>1, <4>2
    <3>2. CASE k # n + 1
      <4>1. k \in 1 .. n
        BY <3>2
      <4> QED BY <1>11, <2>1, <4>1 DEF Carries, InSequence
    <3> QED BY <3>1, <3>2
  <2>3. RecvPos' = Start(frs2, r + 1)
    <3>1. r + 1 \in 1 .. n + 1
      OBVIOUS
    <3>2. RecvPos' = RecvPos
      BY <1>1 DEF RecvPos, receiver
    <3> QED BY <2>1, <3>1, <3>2 DEF Carries, InSequence
  <2>4. SendPos' = Start(frs2, (n + 1) + 1)
    <3>1. (n + 1) + 1 # 1 /\ (n + 1) + 1 - 1 = n + 1
      OBVIOUS
    <3>2. Start(frs2, (n + 1) + 1) = Succ(f)
      BY <1>13, <3>1 DEF Start
    <3>3. SendPos' = Succ(f)
      BY <1>1 DEF SendPos, Succ
    <3> QED BY <3>2, <3>3
  <2> QED BY <2>2, <2>3, <2>4 DEF InSequence
<1> QED BY <1>2, <1>19, <1>20 DEF Carries

(* The receiver finds the fragment it expects at the beginning of its buffer.    *)
LEMMA BufferFirst ==
  ASSUME SenderOK, Buffers, NEW n \in Nat, NEW r \in Nat, r <= n, NEW frs \in Sending, NEW pos \in Offsets,
         Carries(frs, pos, n, r), Buf # <<>>
  PROVE  /\ Stream # <<>> /\ Sig
         /\ Buf[1] = [type |-> sent[frs[r + 1].msg].type, more |-> frs[r + 1].more,
                      len |-> frs[r + 1].to - frs[r + 1].from + 1]
         /\ HdrLen + Buf[1].len = Size(frs[r + 1]) /\ Buf[1].len \in 1 .. MaxMsgLen
         /\ \A j \in 1 .. Len(Buf) : Buf[j] = Stream[j]
<1> DEFINE f == frs[r + 1]
           t == conn \o Drop(txFifo, txHead)
<1>1. Buf \in Seq(Octet) /\ t \in Seq(Octet) /\ Stream = Buf \o t /\ Stream \in Seq(Octet)
  BY StreamType
<1> HIDE DEF t
<1>2. Len(Stream) = Len(Buf) + Len(t) /\ \A j \in 1 .. Len(Buf) : Buf[j] = Stream[j]
  <2> DEFINE u == Buf \o t
  <2>1. Len(u) = Len(Buf) + Len(t)
        /\ \A i \in 1 .. Len(Buf) + Len(t) : u[i] = IF i <= Len(Buf) THEN Buf[i] ELSE t[i - Len(Buf)]
    BY <1>1, ConcatProperties
  <2>2. Len(Buf) \in Nat /\ Len(t) \in Nat /\ Stream = u
    BY <1>1
  <2> HIDE DEF u
  <2> QED BY <2>1, <2>2
<1>3. Len(Buf) \in Nat \ {0} /\ Stream # <<>>
  <2>1. Len(Buf) \in Nat \ {0} /\ Len(t) \in Nat
    BY <1>1
  <2>2. Len(Stream) # 0
    BY <1>2, <2>1
  <2> QED BY <2>1, <2>2
<1>4. /\ f \in Frag /\ Made(f) /\ Size(f) <= Len(Stream)
      /\ \A j \in 1 .. Size(f) : Stream[j] = OctetAt(f, j)
  BY <1>3, FirstFragment
<1>5. /\ f.from \in Nat \ {0} /\ f.to \in Nat /\ f.from <= f.to /\ HdrLen \in Nat
      /\ Size(f) \in Nat /\ Size(f) > HdrLen /\ Size(f) = HdrLen + f.to - f.from + 1
  BY <1>4, MadeFacts
<1>6. f.to - f.from + 1 <= MaxMsgLen
  BY <1>4 DEF Made
<1>7. Buf[1] = OctetAt(f, 1)
  <2>1. 1 \in 1 .. Len(Buf) /\ 1 \in 1 .. Size(f)
    BY <1>3, <1>5
  <2> QED BY <1>2, <1>4, <2>1
<1>8. Buf[1] = [type |-> sent[f.msg].type, more |-> f.more, len |-> f.to - f.from + 1]
  BY <1>7 DEF OctetAt
<1> HIDE DEF f
<1>9. Sig
  BY <1>8 DEF Sig
<1>10. Buf[1].len = f.to - f.from + 1
  BY <1>8
<1>11. HdrLen + Buf[1].len = Size(f) /\ Buf[1].len \in 1 .. MaxMsgLen
  BY <1>5, <1>6, <1>10, SizeAssumption
<1> QED BY <1>2, <1>3, <1>8, <1>9, <1>11 DEF f

LEMMA FragmentReceived ==
  ASSUME SenderOK, Buffers, NEW n \in Nat, NEW r \in Nat, r <= n, NEW frs \in Sending, NEW pos \in Offsets,
         Carries(frs, pos, n, r), MsgReceived
  PROVE  LET f == frs[r + 1]
         IN /\ f \in Frag /\ Made(f) /\ At(f) = RecvPos
            /\ Buf[1].type = sent[f.msg].type /\ Buf[1].more = f.more
            /\ SubSeq(Buf, HdrLen + 1, HdrLen + Buf[1].len) = Payload(f.msg, f.from, f.to)
            /\ Stream # <<>> /\ Stream' = Drop(Stream, Size(f))
            /\ rxHead' = rxHead + Size(f) /\ Size(f) <= Len(Buf) /\ Size(f) \in Nat
<1> DEFINE f == frs[r + 1]
           len == f.to - f.from + 1
           d == SubSeq(Buf, HdrLen + 1, HdrLen + len)
           e == Payload(f.msg, f.from, f.to)
<1>1. Sig /\ Complete /\ Buf # <<>> /\ rxHead' = rxHead + HdrLen + Buf[1].len
  BY DEF MsgReceived, Sig
<1>2. /\ Stream # <<>> /\ Buf[1] = [type |-> sent[f.msg].type, more |-> f.more, len |-> len]
      /\ HdrLen + Buf[1].len = Size(f)
      /\ \A j \in 1 .. Len(Buf) : Buf[j] = Stream[j]
  BY <1>1, BufferFirst
<1>3. /\ f \in Frag /\ Made(f) /\ At(f) = RecvPos
      /\ \A j \in 1 .. Size(f) : Stream[j] = OctetAt(f, j)
  BY <1>2, FirstFragment
<1>4. /\ f.msg \in Nat /\ f.from \in Nat \ {0} /\ f.to \in Nat /\ f.from <= f.to /\ HdrLen \in Nat \ {0}
      /\ Size(f) \in Nat /\ Size(f) > HdrLen /\ Size(f) = HdrLen + f.to - f.from + 1
  <2>1. f.msg \in 1 .. nDeq /\ nDeq \in Nat
    BY <1>3, MadeFacts
  <2> QED BY <1>3, <2>1, MadeFacts
<1> HIDE DEF f
<1>5. Buf[1].type = sent[f.msg].type /\ Buf[1].more = f.more /\ Buf[1].len = len
  BY <1>2
<1>6. len \in Nat \ {0} /\ Size(f) = HdrLen + len /\ len = f.to - f.from + 1
  BY <1>4
<1> HIDE DEF len
<1>7. Size(f) <= Len(Buf) /\ Buf \in Seq(Octet) /\ Len(Buf) \in Nat
  <2>1. Buf \in Seq(Octet)
    BY StreamType
  <2>2. Len(Buf) >= HdrLen + Buf[1].len
    BY <1>1 DEF Complete
  <2> QED BY <1>2, <1>4, <2>1, <2>2
<1>8. rxHead' = rxHead + Size(f)
  <2>1. rxHead \in Nat
    BY DEF Buffers
  <2> QED BY <1>1, <1>4, <1>5, <1>6, <2>1
<1>9. Stream' = Drop(Stream, Size(f))
  <2>1. UNCHANGED <<sender, conn, rxFifo>>
    BY DEF MsgReceived
  <2> QED BY <1>4, <1>7, <1>8, <2>1, StreamTake
<1>10. d \in Seq(Octet) /\ Len(d) = len /\ \A i \in 1 .. len : d[i] = Buf[HdrLen + i]
  <2>1. HdrLen \in Nat /\ HdrLen + len \in Nat /\ HdrLen <= HdrLen + len /\ HdrLen + len <= Len(Buf)
        /\ HdrLen + len - HdrLen = len
    BY <1>4, <1>6, <1>7
  <2> DEFINE a == HdrLen
             b == HdrLen + len
  <2>2. a \in Nat /\ b \in Nat /\ a <= b /\ b <= Len(Buf) /\ b - a = len
    BY <1>4, <1>6, <1>7
  <2>3. d = SubSeq(Buf, a + 1, b)
    OBVIOUS
  <2> HIDE DEF a, b, d
  <2>4. d \in Seq(Octet) /\ Len(d) = b - a /\ \A i \in 1 .. b - a : d[i] = Buf[a + i]
    BY <1>7, <2>2, <2>3, Slice
  <2>5. d \in Seq(Octet) /\ Len(d) = len /\ \A i \in 1 .. len : d[i] = Buf[a + i]
    BY <2>2, <2>4
  <2> QED BY <2>5 DEF a
<1>11. e \in Seq(DataByte) /\ Len(e) = len /\ \A i \in 1 .. len : e[i] = Byte(f.msg, f.from + i - 1)
  <2>1. f.msg \in Nat /\ f.from \in Nat /\ f.to \in Nat /\ f.from <= f.to + 1
    BY <1>4
  <2>2. /\ e \in Seq(DataByte) /\ Len(e) = f.to - f.from + 1
        /\ \A i \in 1 .. f.to - f.from + 1 : e[i] = Byte(f.msg, f.from + i - 1)
    <3> DEFINE a == f.from
               b == f.to
               m == f.msg
    <3>1. a \in Nat /\ b \in Nat /\ m \in Nat /\ a <= b + 1
      BY <2>1
    <3>2. e = Payload(m, a, b)
      OBVIOUS
    <3> HIDE DEF a, b, m, e
    <3>3. e \in Seq(DataByte) /\ Len(e) = b - a + 1 /\ \A i \in 1 .. b - a + 1 : e[i] = Byte(m, a + i - 1)
      BY <3>1, <3>2, PayloadElements
    <3> QED BY <3>3 DEF a, b, m
  <2> QED BY <1>6, <2>2
<1>12. ASSUME NEW i \in 1 .. len PROVE d[i] = e[i]
  <2>1. /\ HdrLen + i \in 1 .. Size(f) /\ HdrLen + i \in 1 .. Len(Buf) /\ HdrLen + i # 1 /\ ~(HdrLen + i <= HdrLen)
        /\ HdrLen + i - HdrLen = i
    BY <1>4, <1>6, <1>7
  <2>2. Buf[HdrLen + i] = OctetAt(f, HdrLen + i)
    <3>1. Buf[HdrLen + i] = Stream[HdrLen + i]
      BY <1>2, <2>1
    <3> QED BY <1>3, <2>1, <3>1 DEF f
  <2>3. OctetAt(f, HdrLen + i) = Byte(f.msg, f.from + i - 1)
    <3> DEFINE j == HdrLen + i
    <3>1. j # 1 /\ ~(j <= HdrLen) /\ j - HdrLen = i
      BY <1>4, <1>6, <2>1
    <3> HIDE DEF j
    <3>2. OctetAt(f, j) = Byte(f.msg, f.from + (j - HdrLen) - 1)
      BY <3>1 DEF OctetAt
    <3> QED BY <3>1, <3>2 DEF j
  <2> QED BY <1>10, <1>11, <2>2, <2>3
<1> HIDE DEF d, e
<1>13. d = e
  <2>1. e \in Seq(Octet)
    <3>1. DataByte \subseteq Octet
      BY DEF Octet
    <3> QED BY <1>11, <3>1, SeqMonotonic
  <2> QED BY <1>10, <1>11, <1>12, <2>1, SeqEqual
<1>14. SubSeq(Buf, HdrLen + 1, HdrLen + Buf[1].len) = Payload(f.msg, f.from, f.to)
  BY <1>5, <1>13 DEF d, e
<1> QED BY <1>2, <1>3, <1>4, <1>5, <1>7, <1>8, <1>9, <1>14 DEF f

-----------------------------------------------------------------------------
(* The receiver                                                              *)

(* What is put together of message i: its object info up to the first '=', then  *)
(* its data.                                                                     *)
Parts(i, info, data) ==
  /\ info \in Seq(DataByte) /\ data \in Seq(DataByte)
  /\ \A k \in 1 .. Len(info) : info[k] = Byte(i, k)
  /\ \A k \in 1 .. Len(data) : data[k] = Byte(i, Len(info) + k)
  /\ sent[i].type # "put" => info = <<>>
  /\ sent[i].type = "put" =>
       /\ \A k \in 1 .. Len(info) : k \in sent[i].eqs => k = Len(info)
       /\ data # <<>> => Len(info) > 0 /\ Len(info) \in sent[i].eqs

(* The message being reassembled has a beginning, and not more.                  *)
Reassembling ==
  objInfo # <<>> \/ ss # <<>> =>
    /\ Len(handled) + 1 \in 1 .. nDeq
    /\ Parts(Len(handled) + 1, objInfo, ss)
    /\ Len(objInfo) + Len(ss) < sent[Len(handled) + 1].len

(* What was handled is whole.                                                    *)
Whole(i) ==
  /\ i <= nDeq /\ handled[i].type = sent[i].type
  /\ Parts(i, handled[i].info, handled[i].data)
  /\ Len(handled[i].info) + Len(handled[i].data) = sent[i].len

Record == [type : {"put", "transaction", "other"}, info : Seq(DataByte), data : Seq(DataByte)]

Assembly ==
  /\ handled \in Seq(Record) /\ objInfo \in Seq(DataByte) /\ ss \in Seq(DataByte)
  /\ Reassembling
  /\ \A i \in 1 .. Len(handled) : Whole(i)

(* A payload, cut in two.                                                        *)
LEMMA PayloadSplit ==
  ASSUME NEW a \in Nat, NEW b \in Nat, NEW i \in Nat, NEW n \in Nat, a >= 1, a + n <= b + 1
  PROVE  /\ Take(Payload(i, a, b), n) = Payload(i, a, a + n - 1)
         /\ Drop(Payload(i, a, b), n) = Payload(i, a + n, b)
<1> DEFINE d == Payload(i, a, b)
           c == a + n - 1
           e == a + n
           t == Take(d, n)
           u == Drop(d, n)
           t2 == Payload(i, a, c)
           u2 == Payload(i, e, b)
<1>1. a <= b + 1 /\ c \in Nat /\ a <= c + 1 /\ c - a + 1 = n /\ e \in Nat /\ e <= b + 1 /\ b - e + 1 = b - a + 1 - n
      /\ n <= b - a + 1 /\ b - a + 1 \in Nat /\ e = a + n
  OBVIOUS
<1>2. d \in Seq(DataByte) /\ Len(d) = b - a + 1 /\ \A k \in 1 .. b - a + 1 : d[k] = Byte(i, a + k - 1)
  BY <1>1, PayloadElements
<1> HIDE DEF d, c, e
<1>3. t2 \in Seq(DataByte) /\ Len(t2) = n /\ \A k \in 1 .. n : t2[k] = Byte(i, a + k - 1)
  <2>1. t2 \in Seq(DataByte) /\ Len(t2) = c - a + 1 /\ \A k \in 1 .. c - a + 1 : t2[k] = Byte(i, a + k - 1)
    BY <1>1, PayloadElements
  <2> QED BY <1>1, <2>1
<1>4. u2 \in Seq(DataByte) /\ Len(u2) = b - a + 1 - n /\ \A k \in 1 .. b - a + 1 - n : u2[k] = Byte(i, e + k - 1)
  <2>1. u2 \in Seq(DataByte) /\ Len(u2) = b - e + 1 /\ \A k \in 1 .. b - e + 1 : u2[k] = Byte(i, e + k - 1)
    BY <1>1, PayloadElements
  <2> QED BY <1>1, <2>1
<1>5. t \in Seq(DataByte) /\ Len(t) = n /\ \A k \in 1 .. n : t[k] = d[k]
  <2>1. n <= Len(d)
    BY <1>1, <1>2
  <2> QED BY <1>2, <2>1, TakeSlice
<1>6. u \in Seq(DataByte) /\ Len(u) = b - a + 1 - n /\ \A k \in 1 .. b - a + 1 - n : u[k] = d[n + k]
  <2>1. n <= Len(d)
    BY <1>1, <1>2
  <2>2. u \in Seq(DataByte) /\ Len(u) = Len(d) - n /\ \A k \in 1 .. Len(d) - n : u[k] = d[n + k]
    <3>1. d \in Seq(DataByte)
      BY <1>2
    <3> QED BY <2>1, <3>1, DropSlice
  <2> HIDE DEF u
  <2> QED BY <1>2, <2>2
<1> HIDE DEF t, u, t2, u2
<1>7. t = t2
  <2>1. ASSUME NEW k \in 1 .. n PROVE t[k] = t2[k]
    <3>1. k \in 1 .. b - a + 1
      BY <1>1
    <3> QED BY <1>2, <1>3, <1>5, <3>1
  <2> QED BY <1>3, <1>5, <2>1, SeqEqual
<1>8. u = u2
  <2>1. ASSUME NEW k \in 1 .. b - a + 1 - n PROVE u[k] = u2[k]
    <3>1. n + k \in 1 .. b - a + 1 /\ a + (n + k) - 1 = e + k - 1
      BY <1>1
    <3>2. d[n + k] = Byte(i, a + (n + k) - 1)
      BY <1>2, <3>1
    <3> QED BY <1>4, <1>6, <3>1, <3>2
  <2> QED BY <1>4, <1>6, <2>1, SeqEqual
<1> QED BY <1>7, <1>8 DEF t, t2, u, u2, d, c, e

(* What a payload appended to the bytes before it is.                            *)
LEMMA Appended ==
  ASSUME NEW i \in Nat, NEW p \in Nat, NEW s \in Seq(DataByte), NEW t \in Nat, p + Len(s) <= t,
         \A k \in 1 .. Len(s) : s[k] = Byte(i, p + k)
  PROVE  LET u == s \o Payload(i, p + Len(s) + 1, t)
         IN /\ u \in Seq(DataByte) /\ Len(u) = t - p
            /\ \A k \in 1 .. t - p : u[k] = Byte(i, p + k)
<1> DEFINE l == Len(s)
           a == p + l + 1
           d == Payload(i, a, t)
           u == s \o d
<1>1. l \in Nat /\ a \in Nat /\ a <= t + 1 /\ t - a + 1 = t - p - l /\ t - p - l \in Nat
  OBVIOUS
<1>2. d \in Seq(DataByte) /\ Len(d) = t - p - l /\ \A k \in 1 .. t - p - l : d[k] = Byte(i, a + k - 1)
  <2> HIDE DEF a
  <2>1. d \in Seq(DataByte) /\ Len(d) = t - a + 1 /\ \A k \in 1 .. t - a + 1 : d[k] = Byte(i, a + k - 1)
    BY <1>1, PayloadElements
  <2> QED BY <1>1, <2>1
<1> HIDE DEF d
<1>3. u \in Seq(DataByte) /\ Len(u) = l + Len(d)
      /\ \A k \in 1 .. l + Len(d) : u[k] = IF k <= l THEN s[k] ELSE d[k - l]
  BY <1>2, ConcatProperties
<1> HIDE DEF u, l, a
<1>4. Len(u) = t - p
  BY <1>1, <1>2, <1>3
<1>5. ASSUME NEW k \in 1 .. t - p PROVE u[k] = Byte(i, p + k)
  <2>1. k \in 1 .. l + Len(d)
    BY <1>1, <1>2
  <2>2. CASE k <= l
    <3>1. k \in 1 .. Len(s)
      BY <1>1, <2>2 DEF l
    <3> QED BY <1>3, <2>1, <2>2, <3>1
  <2>3. CASE ~(k <= l)
    <3>1. k - l \in 1 .. t - p - l /\ a + (k - l) - 1 = p + k
      BY <1>1, <2>3 DEF a
    <3>2. u[k] = d[k - l]
      BY <1>3, <2>1, <2>3
    <3>3. d[k - l] = Byte(i, a + (k - l) - 1)
      BY <1>2, <3>1
    <3> QED BY <3>1, <3>2, <3>3
  <2> QED BY <2>2, <2>3
<1> QED BY <1>3, <1>4, <1>5 DEF u, d, a, l

LEMMA AppendedFirst ==
  ASSUME NEW i \in Nat, NEW s \in Seq(DataByte), NEW t \in Nat, Len(s) <= t,
         \A k \in 1 .. Len(s) : s[k] = Byte(i, k)
  PROVE  LET u == s \o Payload(i, Len(s) + 1, t)
         IN /\ u \in Seq(DataByte) /\ Len(u) = t
            /\ \A k \in 1 .. t : u[k] = Byte(i, k)
<1>1. ASSUME NEW z \in Nat, z = 0
      PROVE  LET u == s \o Payload(i, z + Len(s) + 1, t)
             IN /\ u \in Seq(DataByte) /\ Len(u) = t - z
                /\ \A k \in 1 .. t - z : u[k] = Byte(i, z + k)
  <2>1. z + Len(s) <= t
    BY <1>1
  <2>2. \A k \in 1 .. Len(s) : s[k] = Byte(i, z + k)
    BY <1>1
  <2> QED BY <2>1, <2>2, Appended
<1>2. LET u == s \o Payload(i, 0 + Len(s) + 1, t)
      IN /\ u \in Seq(DataByte) /\ Len(u) = t - 0
         /\ \A k \in 1 .. t - 0 : u[k] = Byte(i, 0 + k)
  BY <1>1, Zenon
<1>3. 0 + Len(s) = Len(s) /\ t - 0 = t /\ \A k \in 1 .. t : 0 + k = k
  OBVIOUS
<1> QED BY <1>2, <1>3

(* More data ...                                                                 *)
LEMMA MoreData ==
  ASSUME NEW i \in Nat, NEW info, NEW data, Parts(i, info, data), NEW t \in Nat, Len(info) + Len(data) <= t,
         sent[i].type = "put" => Len(info) > 0 /\ Len(info) \in sent[i].eqs
  PROVE  LET more == data \o Payload(i, Len(info) + Len(data) + 1, t)
         IN Parts(i, info, more) /\ Len(info) + Len(more) = t
<1> DEFINE p == Len(info)
           u == data \o Payload(i, p + Len(data) + 1, t)
<1>1. info \in Seq(DataByte) /\ data \in Seq(DataByte) /\ p \in Nat /\ Len(data) \in Nat /\ p + Len(data) <= t
  <2>1. info \in Seq(DataByte) /\ data \in Seq(DataByte)
    BY DEF Parts
  <2> QED BY <2>1
<1>2. \A k \in 1 .. Len(data) : data[k] = Byte(i, p + k)
  BY DEF Parts
<1>3. u \in Seq(DataByte) /\ Len(u) = t - p /\ \A k \in 1 .. t - p : u[k] = Byte(i, p + k)
  <2>1. p \in Nat /\ data \in Seq(DataByte) /\ p + Len(data) <= t
    BY <1>1
  <2> HIDE DEF p
  <2> QED BY <1>2, <2>1, Appended, Zenon
<1> HIDE DEF u
<1>4. Parts(i, info, u)
  <2>1. \A k \in 1 .. Len(u) : u[k] = Byte(i, Len(info) + k)
    BY <1>3
  <2> QED BY <1>1, <1>3, <2>1 DEF Parts
<1>5. p + Len(u) = t
  BY <1>1, <1>3
<1> QED BY <1>4, <1>5 DEF u

LEMMA FirstData ==
  ASSUME NEW i \in Nat, NEW info, Parts(i, info, <<>>), NEW t \in Nat, Len(info) <= t,
         sent[i].type = "put" => Len(info) > 0 /\ Len(info) \in sent[i].eqs
  PROVE  LET data == Payload(i, Len(info) + 1, t)
         IN Parts(i, info, data) /\ Len(info) + Len(data) = t
<1> DEFINE p == Len(info)
           a == p + 1
           u == Payload(i, a, t)
<1>1. info \in Seq(DataByte) /\ p \in Nat /\ p <= t /\ a \in Nat /\ a <= t + 1 /\ t - a + 1 = t - p
  BY DEF Parts
<1> HIDE DEF a
<1>2. u \in Seq(DataByte) /\ Len(u) = t - a + 1 /\ \A k \in 1 .. t - a + 1 : u[k] = Byte(i, a + k - 1)
  BY <1>1, PayloadElements
<1> HIDE DEF u
<1>3. Len(u) = t - p /\ \A k \in 1 .. t - p : u[k] = Byte(i, p + k)
  <2>1. \A k \in 1 .. t - p : a + k - 1 = p + k
    BY <1>1 DEF a
  <2> QED BY <1>1, <1>2, <2>1
<1>4. Parts(i, info, u)
  BY <1>1, <1>2, <1>3 DEF Parts
<1>5. p + Len(u) = t
  BY <1>1, <1>3
<1> QED BY <1>4, <1>5 DEF u, a

(* ... and more object info.                                                     *)
LEMMA MoreInfo ==
  ASSUME NEW i \in Nat, NEW info, Parts(i, info, <<>>), NEW t \in Nat, Len(info) <= t,
         sent[i].type = "put", Len(info) \notin sent[i].eqs,
         \A k \in Len(info) + 1 .. t : k \in sent[i].eqs => k = t
  PROVE  LET more == info \o Payload(i, Len(info) + 1, t)
         IN Parts(i, more, <<>>) /\ Len(more) = t
<1> DEFINE u == info \o Payload(i, Len(info) + 1, t)
<1>1. info \in Seq(DataByte) /\ Len(info) \in Nat /\ 0 + Len(info) = Len(info)
  BY DEF Parts
<1>2. \A k \in 1 .. Len(info) : info[k] = Byte(i, 0 + k)
  BY DEF Parts
<1>3. u \in Seq(DataByte) /\ Len(u) = t /\ \A k \in 1 .. t : u[k] = Byte(i, k)
  <2>1. info \in Seq(DataByte) /\ Len(info) <= t /\ \A k \in 1 .. Len(info) : info[k] = Byte(i, k)
    BY <1>1, <1>2
  <2> HIDE DEF u
  <2> QED BY <2>1, AppendedFirst DEF u
<1> HIDE DEF u
<1>4. ASSUME NEW k \in 1 .. Len(u), k \in sent[i].eqs PROVE k = Len(u)
  <2>1. CASE k <= Len(info)
    <3>1. k \in 1 .. Len(info)
      BY <1>1, <2>1
    <3>2. k = Len(info)
      BY <1>4, <3>1 DEF Parts
    <3> QED BY <1>4, <3>2
  <2>2. CASE ~(k <= Len(info))
    <3>1. k \in Len(info) + 1 .. t
      BY <1>1, <1>3, <2>2
    <3> QED BY <1>3, <1>4, <3>1
  <2> QED BY <2>1, <2>2
<1>5. Parts(i, u, <<>>)
  <2>1. <<>> \in Seq(DataByte) /\ \A k \in 1 .. Len(<<>>) : <<>>[k] = Byte(i, Len(u) + k)
    OBVIOUS
  <2>2. \A k \in 1 .. Len(u) : u[k] = Byte(i, k)
    BY <1>3
  <2> QED BY <1>3, <1>4, <2>1, <2>2 DEF Parts
<1> QED BY <1>3, <1>5 DEF u

(* How much of a fragment of a put is object info.                               *)
LEMMA InfoLength ==
  ASSUME NEW i \in Nat, sent[i] \in Message, sent[i].type = "put", Parts(i, objInfo, ss),
         NEW t \in Nat, Len(objInfo) + Len(ss) < t
  PROVE  LET p == Len(objInfo)
             d == Payload(i, p + Len(ss) + 1, t)
             n == InfoLen(d)
         IN /\ n \in 0 .. Len(d) /\ p \in Nat
            /\ n = 0 => p > 0 /\ p \in sent[i].eqs
            /\ n > 0 => /\ ss = <<>> /\ p \notin sent[i].eqs
                        /\ \A k \in p + 1 .. p + n : k \in sent[i].eqs => k = p + n
            /\ n > 0 /\ n < Len(d) => p + n \in sent[i].eqs
<1> DEFINE p == Len(objInfo)
           c == p + Len(ss)
           d == Payload(i, c + 1, t)
           E == {k \in DOMAIN d : d[k].eq}
           n == InfoLen(d)
           last == objInfo[Len(objInfo)].eq
<1>1. objInfo \in Seq(DataByte) /\ ss \in Seq(DataByte) /\ p \in Nat /\ Len(ss) \in Nat /\ c \in Nat /\ c < t
  BY DEF Parts
<1>2. p > 0 => (last <=> p \in sent[i].eqs)
  <2>1. SUFFICES ASSUME p > 0 PROVE last <=> p \in sent[i].eqs
    OBVIOUS
  <2>2. objInfo[p] = Byte(i, p)
    BY <1>1, <2>1 DEF Parts
  <2>3. Byte(i, p).eq <=> p \in sent[i].eqs
    BY ByteFields
  <2> QED BY <2>2, <2>3
<1>3. objInfo # <<>> <=> p > 0
  BY <1>1
<1> HIDE DEF last
<1>4. n = IF objInfo # <<>> /\ last THEN 0
          ELSE IF E = {} THEN Len(d)
          ELSE CHOOSE k \in E : \A j \in E : k <= j
  BY DEF InfoLen, last
<1>5. /\ d \in Seq(DataByte) /\ Len(d) = t - c /\ t - c \in Nat \ {0} /\ DOMAIN d = 1 .. t - c
      /\ \A k \in 1 .. t - c : d[k] = Byte(i, c + k)
  <2> DEFINE a == c + 1
  <2>1. a \in Nat /\ a <= t + 1 /\ t - a + 1 = t - c /\ t - c \in Nat \ {0} /\ \A k \in 1 .. t - c : a + k - 1 = c + k
    BY <1>1
  <2> HIDE DEF a, c
  <2> DEFINE e == Payload(i, a, t)
  <2>2. e \in Seq(DataByte) /\ Len(e) = t - a + 1 /\ \A k \in 1 .. t - a + 1 : e[k] = Byte(i, a + k - 1)
    BY <2>1, PayloadElements
  <2>3. d = e
    BY DEF a
  <2> HIDE DEF e, d
  <2>4. Len(d) = t - c /\ DOMAIN d = 1 .. Len(d)
    BY <2>1, <2>2, <2>3
  <2> QED BY <2>1, <2>2, <2>3, <2>4
<1>6. E \subseteq 1 .. t - c /\ \A k \in 1 .. t - c : k \in E <=> c + k \in sent[i].eqs
  <2>1. \A k \in 1 .. t - c : d[k].eq <=> c + k \in sent[i].eqs
    <3> HIDE DEF d
    <3>1. ASSUME NEW k \in 1 .. t - c PROVE d[k].eq <=> c + k \in sent[i].eqs
      <4>1. d[k] = Byte(i, c + k)
        BY <1>5
      <4>2. Byte(i, c + k).eq <=> c + k \in sent[i].eqs
        BY ByteFields
      <4> QED BY <4>1, <4>2
    <3> QED BY <3>1
  <2> HIDE DEF d
  <2> QED BY <1>5, <2>1
<1> HIDE DEF E, n, d
<1>9. t - c \in Nat \ {0} /\ Len(d) = t - c
  BY <1>5
<1>7. CASE p > 0 /\ p \in sent[i].eqs
  <2>1. n = 0
    BY <1>2, <1>3, <1>4, <1>7
  <2>2. n \in 0 .. Len(d) /\ p \in Nat
    BY <1>1, <1>5, <2>1
  <2> QED BY <1>7, <2>1, <2>2 DEF n, d
<1>8. CASE ~(p > 0 /\ p \in sent[i].eqs)
  <2>1. n = IF E = {} THEN Len(d) ELSE CHOOSE k \in E : \A j \in E : k <= j
    BY <1>2, <1>3, <1>4, <1>8
  <2>2. ss = <<>> /\ c = p
    <3>1. ss = <<>>
      BY <1>8 DEF Parts
    <3> QED BY <1>1, <3>1
  <2>3. p \notin sent[i].eqs
    <3>1. sent[i].eqs \subseteq 1 .. sent[i].len
      BY MessageType
    <3>2. CASE p = 0
      BY <3>1, <3>2
    <3> QED BY <1>1, <1>8, <3>2
  <2>4. CASE E = {}
    <3>1. n = t - p /\ n \in 0 .. Len(d) /\ n > 0
      <4>1. n = Len(d)
        BY <2>1, <2>4
      <4>2. t - c = t - p
        BY <1>1, <2>2
      <4>3. Len(d) \in Nat \ {0}
        BY <1>9
      <4> QED BY <1>9, <4>1, <4>2, <4>3
    <3>2. ASSUME NEW k \in p + 1 .. p + n PROVE k \notin sent[i].eqs
      <4>1. k - p \in 1 .. t - c /\ c + (k - p) = k
        BY <1>1, <2>2, <3>1
      <4> QED BY <1>6, <2>4, <4>1
    <3>3. ~(n < Len(d))
      <4>1. n = Len(d)
        BY <2>1, <2>4
      <4> QED BY <1>9, <4>1
    <3>4. ss = <<>> /\ p \notin sent[i].eqs /\ \A k \in p + 1 .. p + n : k \in sent[i].eqs => k = p + n
      BY <2>2, <2>3, <3>2
    <3> QED BY <1>1, <3>1, <3>3, <3>4 DEF n, d
  <2>5. CASE E # {}
    <3>1. n \in E /\ \A j \in E : n <= j
      <4>1. E \subseteq Nat
        BY <1>6
      <4>2. \E k \in E : \A j \in E : k <= j
        BY <2>5, <4>1, LeastNumber
      <4> QED BY <2>1, <2>5, <4>2
    <3>2. n \in 1 .. t - p /\ p + n \in sent[i].eqs /\ n \in 0 .. Len(d) /\ n > 0
      <4>1. n \in 1 .. t - c
        BY <1>6, <3>1
      <4>2. c + n \in sent[i].eqs
        BY <1>6, <3>1, <4>1
      <4>3. n \in 1 .. Len(d)
        BY <1>9, <4>1
      <4>4. n \in 0 .. Len(d) /\ n > 0
        BY <1>9, <4>3
      <4> QED BY <2>2, <4>1, <4>2, <4>4
    <3>3. ASSUME NEW k \in p + 1 .. p + n, k \in sent[i].eqs PROVE k = p + n
      <4>1. k - p \in 1 .. t - c /\ c + (k - p) = k
        BY <1>1, <2>2, <3>2
      <4>2. n <= k - p
        BY <1>6, <3>1, <3>3, <4>1
      <4> QED BY <1>1, <3>2, <4>2
    <3>4. ss = <<>> /\ p \notin sent[i].eqs /\ \A k \in p + 1 .. p + n : k \in sent[i].eqs => k = p + n
      BY <2>2, <2>3, <3>3
    <3> QED BY <1>1, <3>2, <3>4 DEF n, d
  <2> QED BY <2>4, <2>5
<1> QED BY <1>7, <1>8

(* The fragment the receiver expects continues the message it puts together.     *)
LEMMA Expected ==
  ASSUME SenderOK, Assembly, NEW f \in Frag, Made(f), At(f) = RecvPos
  PROVE  /\ f.msg = Len(handled) + 1 /\ f.from = Len(objInfo) + Len(ss) + 1
         /\ Len(objInfo) \in Nat /\ Len(ss) \in Nat /\ Len(handled) \in Nat
         /\ Parts(f.msg, objInfo, ss)
<1>1. f.msg = Len(handled) + 1 /\ f.from = Len(objInfo) + Len(ss) + 1
  BY DEF At, RecvPos
<1>2. Len(objInfo) \in Nat /\ Len(ss) \in Nat /\ Len(handled) \in Nat
  BY DEF Assembly
<1>3. CASE objInfo # <<>> \/ ss # <<>>
  BY <1>1, <1>2, <1>3 DEF Assembly, Reassembling
<1>4. CASE ~(objInfo # <<>> \/ ss # <<>>)
  <2>1. objInfo = <<>> /\ ss = <<>> /\ <<>> \in Seq(DataByte) /\ Len(<<>>) = 0
    BY <1>4
  <2>2. Parts(f.msg, <<>>, <<>>)
    BY <2>1 DEF Parts
  <2> QED BY <1>1, <1>2, <2>1, <2>2
<1> QED BY <1>3, <1>4

(* What becomes of it.                                                           *)
Handles(f) ==
  \E info, data \in Seq(DataByte) :
    /\ Parts(f.msg, info, data) /\ Len(info) + Len(data) = f.to
    /\ IF f.more THEN objInfo' = info /\ ss' = data /\ handled' = handled
       ELSE /\ handled' = Append(handled, [type |-> sent[f.msg].type, info |-> info, data |-> data])
            /\ objInfo' = <<>> /\ ss' = <<>>

LEMMA HandlesPut ==
  ASSUME SenderOK, Assembly, NEW f \in Frag, Made(f), At(f) = RecvPos, sent[f.msg].type = "put",
         HandlePutObjectMsg(Payload(f.msg, f.from, f.to), f.more)
  PROVE  Handles(f)
<1> DEFINE i == f.msg
           t == f.to
           p == Len(objInfo)
           c == p + Len(ss)
           d == Payload(i, c + 1, t)
           n == InfoLen(d)
<1>1. /\ f.from = c + 1 /\ p \in Nat /\ Len(ss) \in Nat /\ Parts(i, objInfo, ss)
  BY Expected
<1>2. /\ i \in Nat /\ t \in Nat /\ sent[i] \in Message /\ c < t /\ f.more \in BOOLEAN /\ c \in Nat
  <2>1. f.msg \in 1 .. nDeq /\ nDeq \in Nat /\ f.from <= f.to /\ f.to \in Nat /\ sent[i] \in Message /\ f.more \in BOOLEAN
    BY MadeFacts
  <2> QED BY <1>1, <2>1
<1>3. t <= sent[i].len /\ (f.more <=> t < sent[i].len)
  BY DEF Made
<1>4. HandlePutObjectMsg(d, f.more)
  BY <1>1
<1>5. PICK q \in sent[i].eqs : q < sent[i].len
  BY <1>2, MessageType
<1>6. q \in 1 .. sent[i].len /\ sent[i].len \in Nat /\ sent[i].eqs \subseteq 1 .. sent[i].len
  BY <1>2, <1>5, MessageType
<1> HIDE DEF i, t
<1>7. /\ n \in 0 .. Len(d)
      /\ n = 0 => p > 0 /\ p \in sent[i].eqs
      /\ n > 0 => /\ ss = <<>> /\ p \notin sent[i].eqs
                  /\ \A k \in p + 1 .. p + n : k \in sent[i].eqs => k = p + n
      /\ n > 0 /\ n < Len(d) => p + n \in sent[i].eqs
  <2>1. sent[i].type = "put"
    BY DEF i
  <2> QED BY <1>1, <1>2, <2>1, InfoLength
<1>8. d \in Seq(DataByte) /\ Len(d) = t - c
  <2> DEFINE a == c + 1
  <2>1. a \in Nat /\ a <= t + 1 /\ t - a + 1 = t - c
    BY <1>1, <1>2
  <2> HIDE DEF c, a
  <2>2. Payload(i, a, t) \in Seq(DataByte) /\ Len(Payload(i, a, t)) = t - a + 1
    BY <1>2, <2>1, PayloadElements
  <2> QED BY <2>1, <2>2 DEF a
<1> HIDE DEF n
<1>9. IF n > 0 /\ n >= Len(d)
      THEN objInfo' = objInfo \o d /\ UNCHANGED <<ss, handled>>
      ELSE PassOn("put", objInfo \o Take(d, n), ss \o Drop(d, n), f.more)
  BY <1>4 DEF HandlePutObjectMsg, n
<1>10. CASE n = 0
  <2> DEFINE data == ss \o d
  <2>1. Parts(i, objInfo, data) /\ Len(objInfo) + Len(data) = t
    <3>1. Len(objInfo) + Len(ss) <= t
      BY <1>1, <1>2
    <3>2. sent[i].type = "put" => Len(objInfo) > 0 /\ Len(objInfo) \in sent[i].eqs
      BY <1>7, <1>10
    <3> DEFINE more == ss \o Payload(i, Len(objInfo) + Len(ss) + 1, t)
    <3>3. Parts(i, objInfo, more) /\ Len(objInfo) + Len(more) = t
      <4>1. i \in Nat /\ t \in Nat /\ Parts(i, objInfo, ss)
        BY <1>1, <1>2
      <4> HIDE DEF d, i, t
      <4> QED BY <3>1, <3>2, <4>1, MoreData
    <3> QED BY <3>3
  <2>2. objInfo \o Take(d, n) = objInfo /\ Drop(d, n) = d
    <3>1. Take(d, 0) = <<>> /\ Drop(d, 0) = d
      <4> HIDE DEF d
      <4> QED BY <1>8 DEF Take, Drop
    <3>2. objInfo \in Seq(DataByte)
      BY <1>1 DEF Parts
    <3>3. objInfo \o <<>> = objInfo
      BY <3>2, ConcatEmptySeq
    <3> QED BY <1>10, <3>1, <3>3
  <2>3. PassOn("put", objInfo, data, f.more)
    <3>1. PassOn("put", objInfo \o Take(d, n), ss \o Drop(d, n), f.more)
      <4>1. ~(n > 0)
        BY <1>10
      <4> QED BY <1>9, <4>1
    <3> HIDE DEF d
    <3> QED BY <2>2, <3>1
  <2> HIDE DEF data
  <2>4. objInfo \in Seq(DataByte) /\ data \in Seq(DataByte)
    BY <2>1 DEF Parts
  <2> QED BY <1>2, <2>1, <2>3, <2>4 DEF PassOn, Handles, i, t
<1>11. CASE n > 0 /\ n >= Len(d)
  <2>1. n = t - p /\ ss = <<>> /\ c = p /\ Len(ss) = 0 /\ p + n = t
    <3>1. ss = <<>>
      BY <1>7, <1>11
    <3> QED BY <1>1, <1>2, <1>7, <1>8, <1>11, <3>1
  <2> DEFINE info == objInfo \o d
  <2>2. Parts(i, info, <<>>) /\ Len(info) = t
    <3>1. Parts(i, objInfo, <<>>)
      BY <1>1, <2>1
    <3>2. Len(objInfo) <= t /\ Len(objInfo) \notin sent[i].eqs /\ sent[i].type = "put"
      <4>1. Len(objInfo) <= t
        BY <1>1, <1>2
      <4>2. Len(objInfo) \notin sent[i].eqs
        BY <1>7, <1>11
      <4> QED BY <4>1, <4>2 DEF i
    <3>3. \A k \in Len(objInfo) + 1 .. t : k \in sent[i].eqs => k = t
      BY <1>7, <1>11, <2>1
    <3> DEFINE more == objInfo \o Payload(i, Len(objInfo) + 1, t)
    <3>4. Parts(i, more, <<>>) /\ Len(more) = t
      BY <1>2, <3>1, <3>2, <3>3, MoreInfo
    <3>5. more = info
      BY <2>1
    <3> HIDE DEF more, info
    <3> QED BY <3>4, <3>5
  <2>3. f.more
    <3>1. SUFFICES ASSUME ~f.more PROVE FALSE
      OBVIOUS
    <3>2. t = sent[i].len
      BY <1>2, <1>3, <1>6, <3>1
    <3>3. CASE q <= p
      <4>1. q \in 1 .. Len(objInfo)
        BY <1>1, <1>6, <3>3
      <4>2. q = p
        BY <1>1, <1>5, <4>1 DEF Parts, i
      <4> QED BY <1>5, <1>7, <1>11, <4>2
    <3>4. CASE ~(q <= p)
      <4>1. q \in p + 1 .. p + n
        BY <1>1, <1>5, <1>6, <2>1, <3>2, <3>4
      <4>2. q = t
        BY <1>5, <1>7, <1>11, <2>1, <4>1
      <4> QED BY <1>5, <1>6, <3>2, <4>2
    <3> QED BY <3>3, <3>4
  <2>4. objInfo' = info /\ ss' = <<>> /\ handled' = handled
    BY <1>9, <1>11, <2>1
  <2> HIDE DEF info
  <2>5. info \in Seq(DataByte) /\ <<>> \in Seq(DataByte) /\ Len(info) + Len(<<>>) = t
    BY <1>2, <2>2 DEF Parts
  <2> QED BY <2>2, <2>3, <2>4, <2>5 DEF Handles, i, t
<1>12. CASE n > 0 /\ ~(n >= Len(d))
  <2>1. ss = <<>> /\ c = p /\ Len(ss) = 0 /\ n \in Nat /\ p + n < t /\ p + n \in sent[i].eqs /\ p \notin sent[i].eqs
        /\ \A k \in p + 1 .. p + n : k \in sent[i].eqs => k = p + n
    <3>1. ss = <<>> /\ n < Len(d) /\ n \in Nat /\ n > 0
      BY <1>7, <1>8, <1>12
    <3>2. c = p /\ Len(ss) = 0
      BY <1>1, <3>1
    <3>3. p + n < t
      BY <1>1, <1>2, <1>8, <3>1, <3>2
    <3> QED BY <1>7, <3>1, <3>2, <3>3
  <2> DEFINE x == p + n
             info == objInfo \o Payload(i, p + 1, x)
             data == Payload(i, x + 1, t)
  <2>2. Take(d, n) = Payload(i, p + 1, x) /\ Drop(d, n) = data
    <3> DEFINE a == p + 1
    <3>1. a \in Nat /\ a >= 1 /\ a + n <= t + 1 /\ a + n - 1 = x /\ a + n = x + 1 /\ n \in Nat
      BY <1>1, <1>2, <2>1
    <3>2. d = Payload(i, a, t)
      BY <2>1
    <3> HIDE DEF d, a, x
    <3>3. Take(Payload(i, a, t), n) = Payload(i, a, a + n - 1) /\ Drop(Payload(i, a, t), n) = Payload(i, a + n, t)
      <4>1. a \in Nat /\ t \in Nat /\ i \in Nat /\ n \in Nat /\ a >= 1 /\ a + n <= t + 1
        BY <1>2, <3>1
      <4> QED BY <4>1, PayloadSplit
    <3> QED BY <3>1, <3>2, <3>3 DEF a
  <2>3. Parts(i, info, <<>>) /\ Len(info) = x
    <3>1. Parts(i, objInfo, <<>>)
      BY <1>1, <2>1
    <3>2. Len(objInfo) <= x /\ x \in Nat /\ sent[i].type = "put"
      BY <1>1, <2>1 DEF i
    <3>3. Len(objInfo) \notin sent[i].eqs /\ \A k \in Len(objInfo) + 1 .. x : k \in sent[i].eqs => k = x
      BY <2>1
    <3> HIDE DEF x
    <3> QED BY <1>2, <3>1, <3>2, <3>3, MoreInfo
  <2> HIDE DEF info
  <2>4. Parts(i, info, data) /\ Len(info) + Len(data) = t
    <3>1. x \in Nat /\ x <= t /\ x > 0 /\ x \in sent[i].eqs
      BY <1>1, <1>2, <1>12, <2>1
    <3>2. Len(info) <= t /\ Len(info) > 0 /\ Len(info) \in sent[i].eqs
      BY <2>3, <3>1
    <3> DEFINE more == Payload(i, Len(info) + 1, t)
    <3>3. Parts(i, info, more) /\ Len(info) + Len(more) = t
      <4>1. i \in Nat /\ t \in Nat /\ Parts(i, info, <<>>)
        BY <1>2, <2>3
      <4> HIDE DEF d, data, x, c
      <4> QED BY <3>2, <4>1, FirstData
    <3>4. more = data
      BY <2>3
    <3> HIDE DEF more, data
    <3> QED BY <3>3, <3>4
  <2>5. PassOn("put", info, data, f.more)
    <3>1. ss \o data = data
      <4>1. data \in Seq(DataByte)
        BY <2>4 DEF Parts
      <4> HIDE DEF data
      <4> QED BY <2>1, <4>1, ConcatEmptySeq
    <3>2. PassOn("put", objInfo \o Take(d, n), ss \o Drop(d, n), f.more)
      BY <1>9, <1>12
    <3> HIDE DEF d, data, x
    <3> QED BY <2>2, <3>1, <3>2 DEF info
  <2> HIDE DEF data
  <2>6. info \in Seq(DataByte) /\ data \in Seq(DataByte)
    BY <2>4 DEF Parts
  <2> QED BY <1>2, <2>4, <2>5, <2>6 DEF PassOn, Handles, i, t
<1> QED BY <1>7, <1>8, <1>10, <1>11, <1>12

LEMMA HandlesTransaction ==
  ASSUME SenderOK, Assembly, NEW f \in Frag, Made(f), At(f) = RecvPos, sent[f.msg].type = "transaction",
         HandleTransactionMsg(Payload(f.msg, f.from, f.to), f.more)
  PROVE  Handles(f)
<1> DEFINE i == f.msg
           t == f.to
           d == Payload(i, f.from, t)
           data == ss \o d
<1>1. /\ f.from = Len(objInfo) + Len(ss) + 1 /\ Len(objInfo) \in Nat /\ Len(ss) \in Nat /\ Parts(i, objInfo, ss)
  BY Expected
<1>2. /\ i \in Nat /\ t \in Nat /\ Len(objInfo) + Len(ss) <= t /\ f.more \in BOOLEAN
  <2>1. f.msg \in 1 .. nDeq /\ nDeq \in Nat /\ f.from <= f.to /\ f.to \in Nat /\ f.more \in BOOLEAN
    BY MadeFacts
  <2> QED BY <1>1, <2>1
<1>3. objInfo = <<>>
  BY <1>1 DEF Parts
<1>4. Parts(i, objInfo, data) /\ Len(objInfo) + Len(data) = t
  <2> DEFINE more == ss \o Payload(i, Len(objInfo) + Len(ss) + 1, t)
  <2>1. Parts(i, objInfo, more) /\ Len(objInfo) + Len(more) = t
    <3>1. sent[i].type # "put"
      OBVIOUS
    <3> HIDE DEF i, t
    <3> QED BY <1>1, <1>2, <3>1, MoreData
  <2>2. more = data
    BY <1>1
  <2> HIDE DEF more, data
  <2> QED BY <2>1, <2>2
<1>5. objInfo \in Seq(DataByte) /\ data \in Seq(DataByte)
  BY <1>4 DEF Parts
<1>6. IF f.more THEN ss' = data /\ UNCHANGED <<objInfo, handled>> ELSE PassOn("transaction", <<>>, data, FALSE)
  BY DEF HandleTransactionMsg
<1> HIDE DEF data
<1>7. CASE f.more
  BY <1>4, <1>5, <1>6, <1>7 DEF Handles, i, t
<1>8. CASE ~f.more
  <2>1. /\ handled' = Append(handled, [type |-> "transaction", info |-> <<>>, data |-> data])
        /\ objInfo' = <<>> /\ ss' = <<>>
    BY <1>6, <1>8 DEF PassOn
  <2> QED BY <1>3, <1>4, <1>5, <1>8, <2>1 DEF Handles, i, t
<1> QED BY <1>7, <1>8

LEMMA HandlesOther ==
  ASSUME SenderOK, Assembly, NEW f \in Frag, Made(f), At(f) = RecvPos, sent[f.msg].type = "other",
         HandleOther(Payload(f.msg, f.from, f.to))
  PROVE  Handles(f)
<1> DEFINE i == f.msg
           t == f.to
           d == Payload(i, f.from, t)
<1>1. /\ f.from = Len(objInfo) + Len(ss) + 1 /\ Len(objInfo) \in Nat /\ Len(ss) \in Nat /\ Parts(i, objInfo, ss)
  BY Expected
<1>2. /\ i \in Nat /\ t \in Nat /\ sent[i] \in Message
  <2>1. f.msg \in 1 .. nDeq /\ nDeq \in Nat /\ f.to \in Nat /\ sent[i] \in Message
    BY MadeFacts
  <2> QED BY <2>1
<1>3. f.from = 1 /\ ~f.more
  BY <1>2, MessageType DEF Made
<1>4. objInfo = <<>> /\ ss = <<>>
  <2>1. Len(objInfo) = 0 /\ Len(ss) = 0
    BY <1>1, <1>3
  <2> QED BY <1>1, <2>1, EmptySeq DEF Parts
<1>5. Parts(i, <<>>, d) /\ Len(<<>>) + Len(d) = t
  <2> DEFINE u == Payload(i, Len(objInfo) + 1, t)
  <2>1. Parts(i, objInfo, <<>>) /\ Len(objInfo) <= t
    BY <1>1, <1>2, <1>4
  <2>2. Parts(i, objInfo, u) /\ Len(objInfo) + Len(u) = t
    <3>1. sent[i].type # "put"
      OBVIOUS
    <3> HIDE DEF i, t
    <3> QED BY <1>2, <2>1, <3>1, FirstData
  <2>3. u = d
    <3>1. Len(objInfo) + 1 = f.from
      BY <1>3, <1>4
    <3> QED BY <3>1
  <2> HIDE DEF u, d
  <2> QED BY <1>4, <2>2, <2>3
<1>6. handled' = Append(handled, [type |-> "other", info |-> <<>>, data |-> d]) /\ UNCHANGED <<objInfo, ss>>
  BY DEF HandleOther
<1> HIDE DEF d
<1>7. <<>> \in Seq(DataByte) /\ d \in Seq(DataByte)
  BY <1>5 DEF Parts
<1> QED BY <1>3, <1>4, <1>5, <1>6, <1>7 DEF Handles, i, t

LEMMA FragmentHandled ==
  ASSUME SenderOK, Buffers, Assembly, NEW n \in Nat, NEW r \in Nat, r <= n, NEW frs \in Sending,
         NEW pos \in Offsets, Carries(frs, pos, n, r), MsgReceived
  PROVE  Handles(frs[r + 1])
<1> DEFINE f == frs[r + 1]
           d == SubSeq(Buf, HdrLen + 1, HdrLen + Buf[1].len)
           e == Payload(f.msg, f.from, f.to)
<1>1. /\ f \in Frag /\ Made(f) /\ At(f) = RecvPos
      /\ Buf[1].type = sent[f.msg].type /\ Buf[1].more = f.more /\ d = e
  BY FragmentReceived
<1>2. (CASE Buf[1].type = "put"         -> HandlePutObjectMsg(d, Buf[1].more)
         [] Buf[1].type = "transaction" -> HandleTransactionMsg(d, Buf[1].more)
         [] Buf[1].type = "other"       -> HandleOther(d))
  BY DEF MsgReceived
<1>3. sent[f.msg].type \in {"put", "transaction", "other"}
  <2>1. sent[f.msg] \in Message
    BY <1>1, MadeFacts
  <2> QED BY <2>1, MessageType
<1> HIDE DEF f, d
<1>4. CASE sent[f.msg].type = "put"
  <2>1. HandlePutObjectMsg(d, f.more)
    BY <1>1, <1>2, <1>4
  <2> QED BY <1>1, <1>4, <2>1, HandlesPut DEF f
<1>5. CASE sent[f.msg].type = "transaction"
  <2>1. HandleTransactionMsg(d, f.more)
    BY <1>1, <1>2, <1>5
  <2> QED BY <1>1, <1>5, <2>1, HandlesTransaction DEF f
<1>6. CASE sent[f.msg].type = "other"
  <2>1. HandleOther(d)
    BY <1>1, <1>2, <1>6
  <2> QED BY <1>1, <1>6, <2>1, HandlesOther DEF f
<1> QED BY <1>3, <1>4, <1>5, <1>6

(* What was put together stays what it was.                                      *)
LEMMA PartsKept ==
  ASSUME NEW i, NEW info, NEW data, Parts(i, info, data), sent'[i] = sent[i]
  PROVE  Parts(i, info, data)'
BY DEF Parts, Byte

LEMMA AssemblyKept ==
  ASSUME Assembly, nDeq \in Nat, nDeq' \in Nat, nDeq' >= nDeq, \A i \in 1 .. nDeq : sent'[i] = sent[i],
         UNCHANGED <<handled, objInfo, ss>>
  PROVE  Assembly'
<1>1. Reassembling'
  <2>1. SUFFICES ASSUME objInfo # <<>> \/ ss # <<>>
                 PROVE  /\ Len(handled) + 1 \in 1 .. nDeq'
                        /\ Parts(Len(handled) + 1, objInfo, ss)'
                        /\ Len(objInfo) + Len(ss) < sent'[Len(handled) + 1].len
    BY DEF Reassembling
  <2>2. /\ Len(handled) + 1 \in 1 .. nDeq
        /\ Parts(Len(handled) + 1, objInfo, ss)
        /\ Len(objInfo) + Len(ss) < sent[Len(handled) + 1].len
    BY <2>1 DEF Assembly, Reassembling
  <2>3. sent'[Len(handled) + 1] = sent[Len(handled) + 1]
    BY <2>2
  <2>4. Parts(Len(handled) + 1, objInfo, ss)'
    <3> DEFINE i == Len(handled) + 1
    <3>1. Parts(i, objInfo, ss) /\ sent'[i] = sent[i] /\ UNCHANGED <<objInfo, ss, handled>>
      BY <2>2, <2>3
    <3> QED BY <3>1 DEF Parts, Byte
  <2> QED BY <2>2, <2>3, <2>4
<1>2. ASSUME NEW i \in 1 .. Len(handled) PROVE Whole(i)'
  <2>1. Whole(i) /\ i <= nDeq
    BY DEF Assembly, Whole
  <2>2. i \in 1 .. nDeq /\ sent'[i] = sent[i] /\ i <= nDeq'
    BY <2>1
  <2>3. Parts(i, handled[i].info, handled[i].data)'
    BY <2>1, <2>2 DEF Whole, Parts, Byte
  <2> QED BY <2>1, <2>2, <2>3 DEF Whole
<1> QED BY <1>1, <1>2 DEF Assembly

LEMMA AssemblyHandles ==
  ASSUME SenderOK, Assembly, NEW f \in Frag, Made(f), At(f) = RecvPos, Handles(f), UNCHANGED sender
  PROVE  Assembly' /\ RecvPos' = Succ(f)
<1> DEFINE i == f.msg
<1>1. i = Len(handled) + 1 /\ Len(handled) \in Nat
  BY Expected
<1>2. /\ i \in 1 .. nDeq /\ nDeq \in Nat /\ sent[i] \in Message /\ f.to \in Nat /\ f.to > 0
      /\ f.more \in BOOLEAN
  <2>1. /\ f.msg \in 1 .. nDeq /\ f.from \in Nat \ {0} /\ f.to \in Nat /\ f.from <= f.to /\ f.more \in BOOLEAN
        /\ sent[f.msg] \in Message /\ nDeq \in Nat
    BY MadeFacts
  <2> QED BY <2>1
<1>3. f.to <= sent[i].len /\ (f.more <=> f.to < sent[i].len) /\ sent[i].len \in Nat
  <2>1. f.to <= sent[i].len /\ (f.more <=> f.to < sent[i].len)
    BY DEF Made
  <2> QED BY <1>2, <2>1, MessageType
<1>4. sent' = sent /\ nDeq' = nDeq
  BY DEF sender
<1> HIDE DEF i
<1>5. PICK info \in Seq(DataByte), data \in Seq(DataByte) :
        /\ Parts(i, info, data) /\ Len(info) + Len(data) = f.to
        /\ IF f.more THEN objInfo' = info /\ ss' = data /\ handled' = handled
           ELSE /\ handled' = Append(handled, [type |-> sent[i].type, info |-> info, data |-> data])
                /\ objInfo' = <<>> /\ ss' = <<>>
  BY DEF Handles, i
<1>6. Parts(i, info, data)' /\ \A k, x, y : Parts(k, x, y) => Parts(k, x, y)'
  BY <1>4, <1>5, PartsKept
<1>7. \A k \in 1 .. Len(handled) : Whole(k) /\ handled[k] \in Record
  BY DEF Assembly
<1>8. handled \in Seq(Record)
  BY DEF Assembly
<1>9. CASE f.more
  <2>1. objInfo' = info /\ ss' = data /\ handled' = handled
    BY <1>5, <1>9
  <2>2. Reassembling'
    <3>1. Len(info) + Len(data) < sent'[i].len
      BY <1>3, <1>4, <1>5, <1>9
    <3>2. Len(handled') + 1 = i /\ i \in 1 .. nDeq'
      BY <1>1, <1>2, <1>4, <2>1
    <3>3. Parts(Len(handled) + 1, objInfo, ss)'
      BY <1>6, <2>1, <3>2 DEF Parts, Byte
    <3>4. Len(objInfo') + Len(ss') < sent'[Len(handled') + 1].len
      BY <2>1, <3>1, <3>2
    <3>5. Len(handled') + 1 \in 1 .. nDeq'
      BY <3>2
    <3> QED BY <3>3, <3>4, <3>5 DEF Reassembling
  <2>3. ASSUME NEW k \in 1 .. Len(handled') PROVE Whole(k)'
    <3>1. Whole(k) /\ handled' = handled
      BY <1>7, <2>1
    <3>2. Parts(k, handled[k].info, handled[k].data)'
      BY <1>4, <3>1 DEF Whole, Parts, Byte
    <3> QED BY <1>4, <3>1, <3>2 DEF Whole
  <2>4. Assembly'
    BY <1>8, <2>1, <2>2, <2>3 DEF Assembly
  <2>5. RecvPos' = Succ(f)
    <3>1. RecvPos' = <<i, f.to + 1>>
      BY <1>1, <1>5, <2>1 DEF RecvPos
    <3> QED BY <1>9, <3>1 DEF Succ, i
  <2> QED BY <2>4, <2>5
<1>10. CASE ~f.more
  <2> DEFINE h == [type |-> sent[i].type, info |-> info, data |-> data]
  <2>1. handled' = Append(handled, h) /\ objInfo' = <<>> /\ ss' = <<>>
    BY <1>5, <1>10
  <2>2. h \in Record
    <3>1. sent[i].type \in {"put", "transaction", "other"}
      BY <1>2, MessageType
    <3> QED BY <3>1 DEF Record
  <2>3. h.type = sent[i].type /\ h.info = info /\ h.data = data
    OBVIOUS
  <2> HIDE DEF h
  <2>4. /\ handled' \in Seq(Record) /\ Len(handled') = i
        /\ \A k \in 1 .. Len(handled) : handled'[k] = handled[k]
        /\ handled'[i] = h
    BY <1>1, <1>8, <2>1, <2>2
  <2>5. Reassembling'
    BY <2>1 DEF Reassembling
  <2>6. ASSUME NEW k \in 1 .. Len(handled') PROVE Whole(k)'
    <3>1. CASE k = i
      <4>1. Len(info) + Len(data) = sent[i].len
        BY <1>2, <1>3, <1>5, <1>10
      <4>2. Parts(k, handled[k].info, handled[k].data)'
        <5>1. Parts(k, info, data)' /\ handled'[k].info = info /\ handled'[k].data = data
          BY <1>6, <2>3, <2>4, <3>1
        <5> QED BY <5>1 DEF Parts, Byte
      <4>3. k <= nDeq'
        BY <1>2, <1>4, <3>1
      <4>4. /\ handled'[k].type = sent'[k].type
            /\ Len(handled'[k].info) + Len(handled'[k].data) = sent'[k].len
        BY <1>4, <2>3, <2>4, <3>1, <4>1
      <4> QED BY <4>2, <4>3, <4>4 DEF Whole
    <3>2. CASE k # i
      <4>1. k \in 1 .. Len(handled)
        BY <1>1, <2>4, <3>2
      <4>2. handled'[k] = handled[k] /\ Whole(k)
        BY <1>7, <2>4, <4>1
      <4>3. Parts(k, handled[k].info, handled[k].data)'
        BY <1>4, <4>2 DEF Whole, Parts, Byte
      <4> QED BY <1>4, <4>2, <4>3 DEF Whole
    <3> QED BY <3>1, <3>2
  <2>7. Assembly'
    <3>1. <<>> \in Seq(DataByte)
      OBVIOUS
    <3> QED BY <2>1, <2>4, <2>5, <2>6, <3>1 DEF Assembly
  <2>8. RecvPos' = Succ(f)
    <3>1. RecvPos' = <<i + 1, 1>>
      <4>1. Len(<<>>) + Len(<<>>) + 1 = 1
        OBVIOUS
      <4> QED BY <2>1, <2>4, <4>1 DEF RecvPos
    <3> QED BY <1>10, <3>1 DEF Succ, i
  <2> QED BY <2>7, <2>8
<1> QED BY <1>2, <1>9, <1>10

-----------------------------------------------------------------------------
(* The session                                                               *)

Streamed ==
  \E n, r \in Nat : r <= n /\ \E frs \in Sending, pos \in Offsets : Carries(frs, pos, n, r)

Inv == SenderOK /\ Flowing /\ Buffers /\ Assembly /\ Streamed

LEMMA InvInit == Init => Inv
<1> SUFFICES ASSUME Init PROVE Inv
  OBVIOUS
<1>1. SenderOK /\ Flowing
  <2>1. FifoOK
    <3>1. <<>> \in Seq(Octet) /\ Len(<<>>) = 0 /\ 0 <= FifoSize
      BY SizeAssumption DEF FifoSize
    <3> QED BY <3>1 DEF Init, FifoOK, Tracked
  <2>2. QueueOK
    <3>1. <<>> \in Seq(Message) /\ Len(<<>>) = 0 /\ 0 \in 0 .. 0 /\ 0 <= MaxMsgs
      BY SizeAssumption
    <3> QED BY <3>1 DEF Init, QueueOK
  <2> QED BY <2>1, <2>2 DEF Init, SenderOK, Flowing
<1>2. Buffers
  <2>1. <<>> \in Seq(Octet) /\ Len(<<>>) = 0 /\ 0 < FifoSize /\ FifoSize \in Nat
    BY SizeAssumption DEF FifoSize
  <2>2. /\ conn = <<>> /\ rxFifo = <<>> /\ rxHead = 0 /\ parsing = FALSE /\ open = TRUE
    BY DEF Init
  <2>3. rxHead \in Nat /\ rxHead <= Len(rxFifo) /\ Len(rxFifo) <= FifoSize /\ Len(rxFifo) < FifoSize
    BY <2>1, <2>2
  <2> QED BY <2>1, <2>2, <2>3 DEF Buffers
<1>3. Assembly
  <2>1. <<>> \in Seq(Record) /\ <<>> \in Seq(DataByte) /\ Len(<<>>) = 0
    OBVIOUS
  <2> QED BY <2>1 DEF Init, Assembly, Reassembling
<1>4. Stream = <<>> /\ Len(Stream) = 0
  BY DEF Init, Stream, Drop
<1>5. Streamed
  <2> DEFINE f == [msg |-> 1, from |-> 1, to |-> 1, more |-> FALSE]
             frs == [k \in Nat |-> f]
             pos == [k \in Nat |-> 0]
  <2>1. frs \in Sending /\ pos \in Offsets
    BY DEF Frag, Sending, Offsets
  <2>2. \A k \in Nat : pos[k] = 0
    OBVIOUS
  <2> HIDE DEF frs, pos
  <2>3. Laid(frs, pos, 0, 0)
    <3>1. pos[0 + 1] = pos[0 + 1] + Len(Stream)
      BY <1>4, <2>2
    <3>2. \A j, k \in 1 .. 0 + 1 : pos[j] <= pos[k]
      BY <2>2
    <3>3. 1 .. 0 = {} /\ 0 + 1 .. 0 = {}
      OBVIOUS
    <3> QED BY <3>1, <3>2, <3>3 DEF Laid
  <2>4. InSequence(frs, 0, 0)
    <3>1. RecvPos = <<1, 1>> /\ SendPos = <<1, 1>>
      BY DEF Init, RecvPos, SendPos
    <3>2. Start(frs, 0 + 1) = <<1, 1>>
      BY DEF Start
    <3>3. 1 .. 0 = {}
      OBVIOUS
    <3> QED BY <3>1, <3>2, <3>3 DEF InSequence
  <2> QED BY <2>1, <2>3, <2>4 DEF Streamed, Carries
<1> QED BY <1>1, <1>2, <1>3, <1>5 DEF Inv

(* An end of the session that does not touch the stream.                         *)
LEMMA StreamedSame ==
  ASSUME SenderOK, Streamed, Stream' = Stream, nDeq' \in Nat, nDeq' >= nDeq,
         \A i \in 1 .. nDeq : sent'[i] = sent[i], RecvPos' = RecvPos, SendPos' = SendPos
  PROVE  Streamed'
<1>1. PICK n \in Nat, r \in Nat : r <= n /\ \E frs \in Sending, pos \in Offsets : Carries(frs, pos, n, r)
  BY DEF Streamed
<1>2. PICK frs \in Sending, pos \in Offsets : Carries(frs, pos, n, r)
  BY <1>1
<1>3. Carries(frs, pos, n, r)'
  BY <1>1, <1>2, CarriesSame
<1> QED BY <1>1, <1>3 DEF Streamed

LEMMA InvReceived ==
  ASSUME Inv, MsgReceived
  PROVE  Buffers' /\ Assembly' /\ Streamed'
<1>1. SenderOK /\ Buffers /\ Assembly /\ Streamed
  BY DEF Inv
<1>2. PICK n \in Nat, r \in Nat : r <= n /\ \E frs \in Sending, pos \in Offsets : Carries(frs, pos, n, r)
  BY <1>1 DEF Streamed
<1>3. PICK frs \in Sending, pos \in Offsets : Carries(frs, pos, n, r)
  BY <1>2
<1> DEFINE f == frs[r + 1]
<1>4. /\ f \in Frag /\ Made(f) /\ At(f) = RecvPos
      /\ Stream # <<>> /\ Stream' = Drop(Stream, Size(f))
      /\ rxHead' = rxHead + Size(f) /\ Size(f) <= Len(Buf) /\ Size(f) \in Nat
  BY <1>1, <1>2, <1>3, FragmentReceived
<1>5. Handles(f)
  BY <1>1, <1>2, <1>3, FragmentHandled
<1>6. parsing /\ UNCHANGED <<sender, conn, rxFifo, parsing, open>>
  BY DEF MsgReceived
<1> HIDE DEF f
<1>7. Assembly' /\ RecvPos' = Succ(f)
  BY <1>1, <1>4, <1>5, <1>6, AssemblyHandles
<1>8. Buffers'
  <2>1. Len(Buf) = Len(rxFifo) - rxHead /\ rxHead \in Nat /\ Len(rxFifo) \in Nat
    BY <1>1, StreamType DEF Buffers
  <2>2. rxHead' \in Nat /\ rxHead' <= Len(rxFifo)
    BY <1>4, <2>1
  <2> QED BY <1>1, <1>6, <2>2 DEF Buffers
<1>9. r + 1 <= n /\ Carries(frs, pos, n, r + 1)'
  BY <1>1, <1>2, <1>3, <1>4, <1>6, <1>7, CarriesTaken DEF f
<1>10. Streamed'
  <2>1. r + 1 \in Nat
    OBVIOUS
  <2> QED BY <1>9, <2>1 DEF Streamed
<1> QED BY <1>7, <1>8, <1>10

(* The loop of handleRx leaves room for the rest of what is there.               *)
LEMMA InvParsed ==
  ASSUME Inv, ParseDone
  PROVE  Buffers' /\ Stream' = Stream /\ UNCHANGED <<sender, conn, objInfo, ss, handled>>
<1>1. SenderOK /\ Buffers /\ Streamed
  BY DEF Inv
<1>2. PICK n \in Nat, r \in Nat : r <= n /\ \E frs \in Sending, pos \in Offsets : Carries(frs, pos, n, r)
  BY <1>1 DEF Streamed
<1>3. PICK frs \in Sending, pos \in Offsets : Carries(frs, pos, n, r)
  BY <1>2
<1>4. /\ ~(Sig /\ Complete) /\ parsing' = FALSE
      /\ IF Buf = <<>> \/ Sig
         THEN rxFifo' = Buf /\ rxHead' = 0 /\ UNCHANGED open
         ELSE open' = FALSE /\ UNCHANGED <<rxFifo, rxHead>>
      /\ UNCHANGED <<sender, conn, objInfo, ss, handled>>
  BY DEF ParseDone
<1>5. Buf \in Seq(Octet) /\ Len(Buf) = Len(rxFifo) - rxHead /\ Len(Buf) \in Nat
  BY <1>1, StreamType
<1>6. HdrLen \in Nat \ {0} /\ MaxMsgLen \in Nat \ {0} /\ FifoSize = HdrLen + MaxMsgLen
  BY SizeAssumption DEF FifoSize
<1>7. Len(Buf) < FifoSize /\ (Buf = <<>> \/ Sig)
  <2>1. CASE Buf = <<>>
    BY <1>6, <2>1
  <2>2. CASE Buf # <<>>
    <3>1. Sig /\ Buf[1].len \in 1 .. MaxMsgLen
      BY <1>1, <1>2, <1>3, <2>2, BufferFirst
    <3>2. ~(Len(Buf) >= HdrLen) \/ ~(Len(Buf) >= HdrLen + Buf[1].len)
      BY <1>4, <3>1 DEF Complete
    <3>3. Len(Buf) < FifoSize
      BY <1>5, <1>6, <3>1, <3>2
    <3> QED BY <3>1, <3>3
  <2> QED BY <2>1, <2>2
<1>8. rxFifo' = Buf /\ rxHead' = 0 /\ open' = open
  BY <1>4, <1>7
<1>9. Drop(rxFifo', rxHead') = Buf
  <2>1. Drop(Buf, 0) = Buf
    <3> DEFINE b == Buf
    <3>1. b \in Seq(Octet)
      BY <1>5
    <3> HIDE DEF b
    <3>2. Drop(b, 0) = b
      BY <3>1 DEF Drop
    <3> QED BY <3>2 DEF b
  <2> QED BY <1>8, <2>1
<1>10. Stream' = Stream
  BY <1>4, <1>9 DEF Stream, sender, Buf
<1>11. Buffers'
  <2>1. rxFifo' \in Seq(Octet) /\ Len(rxFifo') < FifoSize /\ Len(rxFifo') \in Nat /\ FifoSize \in Nat
    BY <1>5, <1>6, <1>7, <1>8
  <2>2. conn' \in Seq(Octet) /\ parsing' \in BOOLEAN /\ open'
    BY <1>1, <1>4, <1>8 DEF Buffers
  <2>3. rxHead' = 0 /\ rxHead' \in Nat /\ rxHead' <= Len(rxFifo') /\ Len(rxFifo') <= FifoSize
    BY <1>8, <2>1
  <2> QED BY <2>1, <2>2, <2>3 DEF Buffers
<1> QED BY <1>4, <1>10, <1>11

LEMMA InvStep == Inv /\ [Next]_vars => Inv'
<1> SUFFICES ASSUME Inv, [Next]_vars PROVE Inv'
  OBVIOUS
<1>1. SenderOK /\ Flowing /\ Buffers /\ Assembly /\ Streamed
  BY DEF Inv
<1>2. nDeq \in Nat /\ nDeq <= Len(sent) /\ sent \in Seq(Message) /\ Len(sent) \in Nat
  BY <1>1 DEF SenderOK, QueueOK
<1>3. ASSUME NEW m \in Message, EnqMsg(m) PROVE Inv'
  <2>1. SenderOK' /\ Flowing'
    BY <1>1, <1>3, SenderStep DEF Next
  <2>2. /\ sent' = Append(sent, m)
        /\ UNCHANGED <<nDeq, sMsg, sMsgTxPos, txFifo, txHead, conn, receiver>>
    BY <1>3 DEF EnqMsg
  <2>3. \A i \in 1 .. nDeq : sent'[i] = sent[i]
    BY <1>2, <2>2
  <2>4. Buffers' /\ Stream' = Stream
    BY <1>1, <2>2 DEF Buffers, Stream, receiver
  <2>5. Assembly'
    BY <1>1, <1>2, <2>2, <2>3, AssemblyKept DEF receiver
  <2>6. RecvPos' = RecvPos /\ SendPos' = SendPos
    BY <2>2 DEF RecvPos, SendPos, receiver
  <2>7. Streamed'
    BY <1>1, <1>2, <2>2, <2>3, <2>4, <2>6, StreamedSame
  <2> QED BY <2>1, <2>4, <2>5, <2>7 DEF Inv
<1>4. ASSUME Dequeue PROVE Inv'
  <2>1. SenderOK' /\ Flowing'
    BY <1>1, <1>4, SenderStep DEF Next, SendData
  <2>2. /\ nDeq' = nDeq + 1 /\ ~sMsg /\ sMsg' = TRUE /\ sMsgTxPos' = 0
        /\ UNCHANGED <<sent, txFifo, txHead, conn, receiver>>
    BY <1>4 DEF Dequeue
  <2>3. Buffers' /\ Stream' = Stream
    BY <1>1, <2>2 DEF Buffers, Stream, receiver
  <2>4. nDeq' \in Nat /\ nDeq' >= nDeq
    BY <1>2, <2>2
  <2>5. Assembly'
    BY <1>1, <1>2, <2>2, <2>4, AssemblyKept DEF receiver
  <2>6. RecvPos' = RecvPos
    BY <2>2 DEF RecvPos, receiver
  <2>7. SendPos' = SendPos
    BY <2>2 DEF SendPos
  <2>8. Streamed'
    BY <1>1, <2>2, <2>3, <2>4, <2>6, <2>7, StreamedSame
  <2> QED BY <2>1, <2>3, <2>5, <2>8 DEF Inv
<1>5. ASSUME SendPart PROVE Inv'
  <2>1. SenderOK' /\ Flowing'
    BY <1>1, <1>5, SenderStep DEF Next, SendData
  <2>2. UNCHANGED <<sent, nDeq, conn, receiver>>
    BY <1>5 DEF SendPart
  <2>3. Buffers'
    BY <1>1, <2>2 DEF Buffers, receiver
  <2>4. Assembly'
    BY <1>1, <1>2, <2>2, AssemblyKept DEF receiver
  <2>5. Streamed'
    <3>1. PICK n \in Nat, r \in Nat : r <= n /\ \E frs \in Sending, pos \in Offsets : Carries(frs, pos, n, r)
      BY <1>1 DEF Streamed
    <3>2. PICK frs \in Sending, pos \in Offsets : Carries(frs, pos, n, r)
      BY <3>1
    <3>3. PICK frs2 \in Sending, pos2 \in Offsets : Carries(frs2, pos2, n + 1, r)'
      BY <1>1, <1>5, <3>1, <3>2, CarriesSent
    <3>4. n + 1 \in Nat /\ r <= n + 1
      BY <3>1
    <3> QED BY <3>3, <3>4 DEF Streamed
  <2> QED BY <2>1, <2>3, <2>4, <2>5 DEF Inv
<1>6. ASSUME SendDone PROVE Inv'
  <2>1. SenderOK' /\ Flowing'
    BY <1>1, <1>6, SenderStep DEF Next, SendData
  <2>2. UNCHANGED <<sent, nDeq, sMsg, sMsgTxPos, txFifo, txHead, conn, receiver>>
    BY <1>6 DEF SendDone
  <2>3. Buffers' /\ Stream' = Stream
    BY <1>1, <2>2 DEF Buffers, Stream, receiver
  <2>4. Assembly'
    BY <1>1, <1>2, <2>2, AssemblyKept DEF receiver
  <2>5. RecvPos' = RecvPos /\ SendPos' = SendPos
    BY <2>2 DEF RecvPos, SendPos, receiver
  <2>6. Streamed'
    BY <1>1, <1>2, <2>2, <2>3, <2>5, StreamedSame
  <2> QED BY <2>1, <2>3, <2>4, <2>6 DEF Inv
<1>7. ASSUME HandleTx PROVE Inv'
  <2>1. SenderOK' /\ Flowing'
    BY <1>1, <1>7, SenderStep DEF Next
  <2>2. UNCHANGED <<sent, nDeq, sMsg, sMsgTxPos, receiver>>
    BY <1>7 DEF HandleTx
  <2>3. Stream' = Stream /\ conn' \in Seq(Octet)
    BY <1>1, <1>7, StreamWrite
  <2>4. Buffers'
    BY <1>1, <2>2, <2>3 DEF Buffers, receiver
  <2>5. Assembly'
    BY <1>1, <1>2, <2>2, AssemblyKept DEF receiver
  <2>6. RecvPos' = RecvPos /\ SendPos' = SendPos
    BY <2>2 DEF RecvPos, SendPos, receiver
  <2>7. Streamed'
    BY <1>1, <1>2, <2>2, <2>3, <2>6, StreamedSame
  <2> QED BY <2>1, <2>4, <2>5, <2>7 DEF Inv
<1>8. ASSUME HandleRx PROVE Inv'
  <2>1. SenderOK' /\ Flowing'
    BY <1>1, <1>8, SenderStep DEF Next
  <2>2. Stream' = Stream /\ Buffers' /\ UNCHANGED <<sender, objInfo, ss, handled>>
    BY <1>1, <1>8, StreamRead
  <2>3. Assembly'
    BY <1>1, <1>2, <2>2, AssemblyKept DEF sender
  <2>4. RecvPos' = RecvPos /\ SendPos' = SendPos
    BY <2>2 DEF RecvPos, SendPos, sender
  <2>5. Streamed'
    BY <1>1, <1>2, <2>2, <2>4, StreamedSame DEF sender
  <2> QED BY <2>1, <2>2, <2>3, <2>5 DEF Inv
<1>9. ASSUME MsgReceived PROVE Inv'
  <2>1. SenderOK' /\ Flowing'
    BY <1>1, <1>9, SenderStep DEF Next, Parse
  <2> QED BY <1>9, <2>1, InvReceived DEF Inv
<1>10. ASSUME ParseDone PROVE Inv'
  <2>1. SenderOK' /\ Flowing'
    BY <1>1, <1>10, SenderStep DEF Next, Parse
  <2>2. Stream' = Stream /\ Buffers' /\ UNCHANGED <<sender, objInfo, ss, handled>>
    BY <1>10, InvParsed
  <2>3. Assembly'
    BY <1>1, <1>2, <2>2, AssemblyKept DEF sender
  <2>4. RecvPos' = RecvPos /\ SendPos' = SendPos
    BY <2>2 DEF RecvPos, SendPos, sender
  <2>5. Streamed'
    BY <1>1, <1>2, <2>2, <2>4, StreamedSame DEF sender
  <2> QED BY <2>1, <2>2, <2>3, <2>5 DEF Inv
<1>11. ASSUME UNCHANGED vars PROVE Inv'
  <2>1. SenderOK' /\ Flowing' /\ Buffers'
    BY <1>1, <1>11 DEF vars, sender, receiver, SenderOK, QueueOK, FifoOK, Tracked, Flowing, Buffers
  <2>2. Assembly'
    BY <1>1, <1>2, <1>11, AssemblyKept DEF vars, sender, receiver
  <2>3. RecvPos' = RecvPos /\ SendPos' = SendPos /\ Stream' = Stream
    BY <1>11 DEF RecvPos, SendPos, Stream, vars, sender, receiver
  <2>4. Streamed'
    BY <1>1, <1>2, <1>11, <2>3, StreamedSame DEF vars, sender
  <2> QED BY <2>1, <2>2, <2>4 DEF Inv
<1> QED BY <1>3, <1>4, <1>5, <1>6, <1>7, <1>8, <1>9, <1>10, <1>11 DEF Next, SendData, Parse

LEMMA Invariant == Spec => []Inv
BY InvInit, InvStep, PTL DEF Spec

(* The receiver never finds anything but a header where a header must be, and    *)
(* always has room for the rest of a message: it never disconnects.              *)
THEOREM StaysOpenCorrect == Spec => []StaysOpen
<1>1. Inv => StaysOpen
  BY DEF Inv, Buffers, StaysOpen
<1> QED BY <1>1, Invariant, PTL

LEMMA SeqInto ==
  ASSUME NEW S, NEW T, NEW s \in Seq(S), \A k \in 1 .. Len(s) : s[k] \in T
  PROVE  s \in Seq(T)
<1>1. s \in [1 .. Len(s) -> T] /\ Len(s) \in Nat
  OBVIOUS
<1> QED BY <1>1

(* Types, the indices of the fifos, and what the assertions of handleTx say.     *)
THEOREM SessionTypeCorrect == Spec => []TypeOK
<1>1. Inv => TypeOK
  <2> SUFFICES ASSUME Inv PROVE TypeOK
    OBVIOUS
  <2>1. SenderOK /\ Buffers /\ Assembly
    BY DEF Inv
  <2> DEFINE Octets == [msg : 1 .. MaxMsgs, at : Nat, eq : BOOLEAN]
             i == Len(handled) + 1
  <2>2. /\ sent \in Seq(Message) /\ Len(sent) <= MaxMsgs /\ nDeq \in 0 .. Len(sent) /\ Len(sent) \in Nat
        /\ sMsg \in BOOLEAN /\ sMsgTxPos \in Nat /\ (sMsg => nDeq > 0 /\ sMsgTxPos < sent[nDeq].len)
        /\ txPaused \in BOOLEAN /\ pump \in {"no", "enqMsg", "handleTx"} /\ MaxMsgs \in Nat
    BY <2>1, SizeAssumption DEF SenderOK, QueueOK
  <2>3. /\ objInfo \in Seq(DataByte) /\ ss \in Seq(DataByte)
        /\ objInfo # <<>> \/ ss # <<>> => i \in 1 .. nDeq /\ Parts(i, objInfo, ss)
    BY <2>1 DEF Assembly, Reassembling
  <2>4. ASSUME NEW k, i \in 1 .. nDeq, k \in Nat PROVE Byte(i, k) \in Octets
    <3>1. i \in 1 .. MaxMsgs
      BY <2>2, <2>4
    <3> HIDE DEF i
    <3> QED BY <2>4, <3>1 DEF Byte
  <2> HIDE DEF i, Octets
  <2>5. objInfo \in Seq(Octets)
    <3>1. ASSUME NEW k \in 1 .. Len(objInfo) PROVE objInfo[k] \in Octets
      <4>1. objInfo # <<>> /\ k \in Nat /\ k \in 1 .. Len(objInfo)
        BY <2>3, <3>1
      <4>2. i \in 1 .. nDeq /\ objInfo[k] = Byte(i, k)
        BY <2>3, <4>1 DEF Parts
      <4> QED BY <2>4, <4>1, <4>2
    <3> QED BY <2>3, <3>1, SeqInto
  <2>6. ss \in Seq(Octets)
    <3>1. ASSUME NEW k \in 1 .. Len(ss) PROVE ss[k] \in Octets
      <4>1. ss # <<>> /\ Len(objInfo) + k \in Nat /\ k \in 1 .. Len(ss)
        BY <2>3, <3>1
      <4>2. i \in 1 .. nDeq /\ ss[k] = Byte(i, Len(objInfo) + k)
        BY <2>3, <4>1 DEF Parts
      <4> QED BY <2>4, <4>1, <4>2
    <3> QED BY <2>3, <3>1, SeqInto
  <2>7. objInfo \in Bytes /\ ss \in Bytes
    BY <2>5, <2>6 DEF Bytes, Octets
  <2>8. /\ 0 <= txMsgHead /\ txMsgHead <= txHead /\ txHead <= Len(txFifo) /\ Len(txFifo) <= FifoSize
        /\ \A k \in DOMAIN txTrackers : txTrackers[k] > txHead
        /\ \A j, k \in DOMAIN txTrackers : j < k => txTrackers[j] < txTrackers[k]
        /\ IF txTrackers = <<>> THEN txFifo = <<>> ELSE txTrackers[Len(txTrackers)] = Len(txFifo)
    BY <2>1 DEF SenderOK, FifoOK, Tracked
  <2>9. rxHead \in 0 .. Len(rxFifo) /\ Len(rxFifo) <= FifoSize /\ parsing \in BOOLEAN /\ open \in BOOLEAN
    BY <2>1 DEF Buffers
  <2> QED BY <2>2, <2>7, <2>8, <2>9 DEF TypeOK
<1> QED BY <1>1, Invariant, PTL

(* What was handled decodes to the message that was sent.                        *)
LEMMA DecodeWhole ==
  ASSUME SenderOK, Assembly, NEW i \in 1 .. Len(handled)
  PROVE  Decode(handled[i]) = sent[i] /\ i <= nDeq
<1> DEFINE h == handled[i]
           n == sent[i].len
           a == h.info \o h.data
           e == Payload(i, 1, n)
<1>1. /\ i <= nDeq /\ h.type = sent[i].type /\ Parts(i, h.info, h.data)
      /\ Len(h.info) + Len(h.data) = n
  BY DEF Assembly, Whole
<1>2. i \in 1 .. Len(sent) /\ i \in Nat /\ sent[i] \in Message
  <2>1. nDeq \in 0 .. Len(sent) /\ sent \in Seq(Message) /\ Len(sent) \in Nat
    BY DEF SenderOK, QueueOK
  <2>2. handled \in Seq(Record)
    BY DEF Assembly
  <2>3. i \in Nat /\ i >= 1
    BY <2>2
  <2> QED BY <1>1, <2>1, <2>3
<1>3. n \in Nat \ {0} /\ sent[i].eqs \subseteq 1 .. n /\ (sent[i].type = "put" => \E k \in sent[i].eqs : k < n)
  BY <1>2, MessageType
<1>4. /\ h.info \in Seq(DataByte) /\ h.data \in Seq(DataByte)
      /\ \A k \in 1 .. Len(h.info) : h.info[k] = Byte(i, k)
      /\ \A k \in 1 .. Len(h.data) : h.data[k] = Byte(i, Len(h.info) + k)
  BY <1>1 DEF Parts
<1> HIDE DEF h, n
<1>5. e \in Seq(DataByte) /\ Len(e) = n /\ \A k \in 1 .. n : e[k] = Byte(i, k)
  <2>1. ASSUME NEW z \in Nat, z = 1
        PROVE  LET u == Payload(i, z, n)
               IN u \in Seq(DataByte) /\ Len(u) = n - z + 1 /\ \A k \in 1 .. n - z + 1 : u[k] = Byte(i, z + k - 1)
    <3>1. n \in Nat /\ z <= n + 1
      BY <1>3, <2>1
    <3> QED BY <1>2, <3>1, PayloadElements
  <2>2. e \in Seq(DataByte) /\ Len(e) = n - 1 + 1 /\ \A k \in 1 .. n - 1 + 1 : e[k] = Byte(i, 1 + k - 1)
    BY <2>1, Zenon
  <2>3. n - 1 + 1 = n /\ \A k \in 1 .. n : 1 + k - 1 = k
    BY <1>3
  <2> HIDE DEF e
  <2> QED BY <2>2, <2>3
<1> HIDE DEF e
<1>6. a \in Seq(DataByte) /\ Len(a) = n
      /\ \A k \in 1 .. n : a[k] = IF k <= Len(h.info) THEN h.info[k] ELSE h.data[k - Len(h.info)]
  <2> DEFINE x == h.info
             y == h.data
  <2>1. x \in Seq(DataByte) /\ y \in Seq(DataByte) /\ Len(x) + Len(y) = n
    BY <1>1, <1>4
  <2> HIDE DEF x, y
  <2>2. /\ x \o y \in Seq(DataByte) /\ Len(x \o y) = Len(x) + Len(y)
        /\ \A k \in 1 .. Len(x) + Len(y) : (x \o y)[k] = IF k <= Len(x) THEN x[k] ELSE y[k - Len(x)]
    BY <2>1, ConcatProperties
  <2> QED BY <2>1, <2>2 DEF x, y
<1> HIDE DEF a
<1>7. ASSUME NEW k \in 1 .. n PROVE a[k] = e[k]
  <2> DEFINE l == Len(h.info)
             m == Len(h.data)
  <2>1. l \in Nat /\ m \in Nat /\ l + m = n /\ n \in Nat
    <3>1. l \in Nat /\ m \in Nat
      BY <1>4
    <3> QED BY <1>1, <1>3, <3>1
  <2>2. CASE k <= l
    <3>1. k \in 1 .. l
      BY <2>1, <2>2
    <3> QED BY <1>4, <1>5, <1>6, <2>2, <3>1
  <2>3. CASE ~(k <= l)
    <3>1. k - l \in 1 .. m /\ l + (k - l) = k
      <4> HIDE DEF l, m
      <4> QED BY <2>1, <2>3
    <3>2. a[k] = h.data[k - l]
      BY <1>6, <2>3
    <3>3. h.data[k - l] = Byte(i, l + (k - l))
      BY <1>4, <3>1
    <3> QED BY <1>5, <3>1, <3>2, <3>3
  <2> QED BY <2>2, <2>3
<1>8. a = e
  BY <1>5, <1>6, <1>7, SeqEqual
<1>9. a[1].msg = i
  <2>1. a[1] = Byte(i, 1)
    <3>1. 1 \in 1 .. n
      BY <1>3
    <3> QED BY <1>5, <1>8, <3>1
  <2> QED BY <2>1, ByteFields
<1>10. ASSUME h.type = "put"
       PROVE  h.info # <<>> /\ \A k \in DOMAIN h.info : h.info[k].eq <=> k = Len(h.info)
  <2> DEFINE l == Len(h.info)
  <2>1. sent[i].type = "put" /\ l \in Nat /\ DOMAIN h.info = 1 .. l
    BY <1>1, <1>4, <1>10
  <2>2. /\ \A k \in 1 .. l : k \in sent[i].eqs => k = l
        /\ h.data # <<>> => l > 0 /\ l \in sent[i].eqs
    BY <1>1, <2>1 DEF Parts
  <2>3. PICK q \in sent[i].eqs : q < n
    BY <1>3, <2>1
  <2>4. l > 0 /\ l \in sent[i].eqs
    <3>1. CASE h.data = <<>>
      <4>1. l = n
        BY <1>1, <1>3, <2>1, <3>1
      <4>2. q \in 1 .. l
        BY <1>3, <2>3, <4>1
      <4> QED BY <2>2, <2>3, <4>1, <4>2, <1>3
    <3> QED BY <2>2, <3>1
  <2>5. ASSUME NEW k \in 1 .. l PROVE h.info[k].eq <=> k = l
    <3>1. h.info[k] = Byte(i, k)
      BY <1>4
    <3>2. Byte(i, k).eq <=> k \in sent[i].eqs
      BY ByteFields
    <3>3. k \in sent[i].eqs <=> k = l
      BY <2>2, <2>4
    <3> QED BY <3>1, <3>2, <3>3
  <2>6. h.info # <<>>
    BY <2>1, <2>4
  <2> QED BY <2>1, <2>5, <2>6
<1>11. Decode(h) = sent[i]
  <2>1. h.info \o h.data = Payload(i, 1, sent[i].len) /\ (h.info \o h.data)[1].msg = i
    BY <1>8, <1>9 DEF a, e, n
  <2> QED BY <1>1, <1>10, <2>1 DEF Decode
<1> QED BY <1>1, <1>11 DEF h

(* What MsgQueue sees of the state: the messages handled are the first ones sent. *)
Delivered == [k \in DOMAIN handled |-> Decode(handled[k])]

InOrder ==
  /\ sent \in Seq(Message) /\ handled \in Seq(Record) /\ Len(handled) <= Len(sent)
  /\ \A k \in 1 .. Len(handled) : Decode(handled[k]) = sent[k]

LEMMA HandledInOrder == Inv => InOrder
<1> SUFFICES ASSUME Inv PROVE InOrder
  OBVIOUS
<1>1. SenderOK /\ Assembly
  BY DEF Inv
<1>2. sent \in Seq(Message) /\ handled \in Seq(Record) /\ nDeq \in 0 .. Len(sent) /\ Len(sent) \in Nat
  BY <1>1 DEF SenderOK, QueueOK, Assembly
<1>3. \A k \in 1 .. Len(handled) : Decode(handled[k]) = sent[k] /\ k <= nDeq
  BY <1>1, DecodeWhole
<1>4. Len(handled) <= Len(sent)
  <2>1. Len(handled) \in Nat
    BY <1>2
  <2>2. CASE Len(handled) = 0
    BY <1>2, <2>2
  <2>3. CASE Len(handled) # 0
    <3>1. Len(handled) \in 1 .. Len(handled)
      BY <2>1, <2>3
    <3>2. Len(handled) <= nDeq
      BY <1>3, <3>1
    <3> QED BY <1>2, <2>1, <3>2
  <2> QED BY <2>2, <2>3
<1> QED BY <1>2, <1>3, <1>4 DEF InOrder

LEMMA DeliveredElements ==
  InOrder => /\ Delivered \in Seq(Message) /\ Len(Delivered) = Len(handled)
             /\ \A k \in 1 .. Len(handled) : Delivered[k] = sent[k]
<1> SUFFICES ASSUME InOrder
             PROVE  /\ Delivered \in Seq(Message) /\ Len(Delivered) = Len(handled)
                    /\ \A k \in 1 .. Len(handled) : Delivered[k] = sent[k]
  OBVIOUS
<1>1. DOMAIN handled = 1 .. Len(handled) /\ Len(handled) \in Nat /\ Len(sent) \in Nat
  BY DEF InOrder
<1>2. \A k \in 1 .. Len(handled) : Decode(handled[k]) = sent[k] /\ sent[k] \in Message
  BY <1>1 DEF InOrder
<1>3. Delivered = [k \in 1 .. Len(handled) |-> sent[k]]
  BY <1>1, <1>2 DEF Delivered
<1> QED BY <1>1, <1>2, <1>3

Delivering ==
  /\ InOrder
  /\ Delivered \in Seq(Message) /\ Len(Delivered) = Len(handled)
  /\ \A k \in 1 .. Len(handled) : Delivered[k] = sent[k]

LEMMA HandledOne ==
  ASSUME Inv, MsgReceived
  PROVE  handled' = handled \/ \E h : handled' = Append(handled, h)
<1>1. SenderOK /\ Buffers /\ Assembly /\ Streamed
  BY DEF Inv
<1>2. PICK n \in Nat, r \in Nat : r <= n /\ \E frs \in Sending, pos \in Offsets : Carries(frs, pos, n, r)
  BY <1>1 DEF Streamed
<1>3. PICK frs \in Sending, pos \in Offsets : Carries(frs, pos, n, r)
  BY <1>2
<1>4. Handles(frs[r + 1])
  BY <1>1, <1>2, <1>3, FragmentHandled
<1> QED BY <1>4 DEF Handles

LEMMA DeliveryStep ==
  ASSUME Inv, Delivering, Delivering', [Next]_vars
  PROVE  [Queue!Next]_<<sent, Delivered>>
<1> DEFINE n == Len(handled)
<1>1. /\ Delivered \in Seq(Message) /\ Len(Delivered) = n /\ \A k \in 1 .. n : Delivered[k] = sent[k]
      /\ n \in Nat /\ n <= Len(sent) /\ sent \in Seq(Message) /\ handled \in Seq(Record)
  BY DEF Delivering, InOrder
<1>2. /\ Delivered' \in Seq(Message) /\ Len(Delivered') = Len(handled')
      /\ \A k \in 1 .. Len(handled') : Delivered'[k] = sent'[k]
  BY DEF Delivering
<1>3. CASE UNCHANGED <<sent, handled>>
  <2>1. \A k \in 1 .. n : Delivered'[k] = Delivered[k]
    BY <1>1, <1>2, <1>3
  <2>2. Delivered' = Delivered
    BY <1>1, <1>2, <1>3, <2>1, SeqEqual
  <2> QED BY <1>3, <2>2
<1>4. CASE \E m \in Message : EnqMsg(m)
  <2>1. PICK m \in Message : EnqMsg(m)
    BY <1>4
  <2>2. sent' = Append(sent, m) /\ handled' = handled
    BY <2>1 DEF EnqMsg, receiver
  <2>3. \A k \in 1 .. n : Delivered'[k] = Delivered[k]
    BY <1>1, <1>2, <2>2
  <2>4. Delivered' = Delivered
    BY <1>1, <1>2, <2>2, <2>3, SeqEqual
  <2> QED BY <2>2, <2>4 DEF Queue!Next, Queue!Send, Delivered
<1>5. CASE MsgReceived
  <2>1. sent' = sent
    BY <1>5 DEF MsgReceived, sender
  <2>2. handled' = handled \/ \E h : handled' = Append(handled, h)
    BY <1>5, HandledOne
  <2>3. CASE handled' = handled
    BY <1>3, <2>1, <2>3
  <2>4. CASE \E h : handled' = Append(handled, h)
    <3>1. PICK h : handled' = Append(handled, h)
      BY <2>4
    <3>2. Len(handled') = n + 1
      BY <1>1, <3>1
    <3>3. n + 1 <= Len(sent) /\ n + 1 \in 1 .. Len(sent)
      <4>1. Len(handled') <= Len(sent')
        BY DEF Delivering, InOrder
      <4> QED BY <1>1, <2>1, <3>2, <4>1
    <3> DEFINE u == Append(Delivered, sent[n + 1])
    <3>4. sent[n + 1] \in Message
      BY <1>1, <3>3
    <3>5. /\ u \in Seq(Message) /\ Len(u) = n + 1 /\ u[n + 1] = sent[n + 1]
          /\ \A k \in 1 .. n : u[k] = Delivered[k]
      BY <1>1, <3>4
    <3> HIDE DEF u
    <3>6. ASSUME NEW k \in 1 .. n + 1 PROVE Delivered'[k] = u[k]
      <4>1. Delivered'[k] = sent[k]
        BY <1>2, <2>1, <3>2
      <4>2. CASE k = n + 1
        BY <3>5, <4>1, <4>2
      <4>3. CASE k # n + 1
        <5>1. k \in 1 .. n
          BY <1>1, <4>3
        <5> QED BY <1>1, <3>5, <4>1, <5>1
      <4> QED BY <4>2, <4>3
    <3>7. Delivered' = u
      BY <1>2, <3>2, <3>5, <3>6, SeqEqual
    <3>8. Len(Delivered) < Len(sent) /\ Delivered' = Append(Delivered, sent[Len(Delivered) + 1])
      BY <1>1, <3>3, <3>7 DEF u
    <3> QED BY <2>1, <3>8 DEF Queue!Next, Queue!Deliver, Delivered
  <2> QED BY <2>2, <2>3, <2>4
<1>6. Next => (\E m \in Message : EnqMsg(m)) \/ MsgReceived \/ UNCHANGED <<sent, handled>>
  BY DEF Next, SendData, Dequeue, SendPart, SendDone, HandleTx, HandleRx, Parse, ParseDone, sender, receiver
<1>7. UNCHANGED vars => UNCHANGED <<sent, handled>>
  BY DEF vars, sender, receiver
<1> QED BY <1>3, <1>4, <1>5, <1>6, <1>7

(* A session delivers what MsgQueue promises: every message that was sent is     *)
(* handled once, whole and in the order of sending, however it is cut into       *)
(* fragments, written and read.                                                  *)
THEOREM DeliveryCorrect == Spec => Delivery
<1>1. Init => Queue!Init
  <2>1. SUFFICES ASSUME Init PROVE Queue!Init
    OBVIOUS
  <2>2. Delivered = <<>>
    <3>1. DOMAIN handled = {}
      BY <2>1 DEF Init
    <3>2. Delivered = [k \in {} |-> Decode(handled[k])]
      BY <3>1 DEF Delivered
    <3> QED BY <3>2
  <2> QED BY <2>1, <2>2 DEF Queue!Init, Init, Delivered
<1>2. Inv /\ Delivering /\ Delivering' /\ [Next]_vars => [Queue!Next]_<<sent, Delivered>>
  BY DeliveryStep
<1>3. Inv => Delivering
  BY HandledInOrder, DeliveredElements DEF Delivering
<1> QED BY <1>1, <1>2, <1>3, Invariant, PTL DEF Spec, Delivery, Queue!Spec, Delivered
=============================================================================
