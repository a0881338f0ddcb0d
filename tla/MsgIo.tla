-------------------------------- MODULE MsgIo ---------------------------------
(***************************************************************************)
(* One direction of a message session of ObjXp (src/src/MsgIo.cpp): the    *)
(* sending MsgIoSession with txMsgList_, the message being serialized and  *)
(* txFifo_, the connection, and the receiving MsgIoSession with rxFifo_    *)
(* and the reassembly of fragments.                                        *)
(*                                                                         *)
(* The two ends are processes of their own.  The loops of sendData and     *)
(* handleRx are steps, which the other end and the connection may          *)
(* interleave with; nothing else of the same end does.                     *)
(***************************************************************************)
EXTENDS Naturals, Sequences, FiniteSets

CONSTANTS
  HdrLen,             \* length of a header
  MaxMsgLen,          \* largest payload a header can announce
  FragmentThreshold,  \* least room worth a fragment
  DataCopyThreshold,  \* most bytes worth moving
  Message,            \* the messages sessions send
  ConnCap,            \* bound: bytes the connection holds
  MaxMsgs             \* bound: messages sent

FifoSize == HdrLen + MaxMsgLen

\* A serialized message: eqs are the positions of '=' in a put, the first of
\* them ends its object info (path, type and option).
Serialized ==
  [type : {"put", "transaction", "other"}, len : Nat \ {0}, eqs : SUBSET Nat, dontFrag : BOOLEAN]

ASSUME SizeAssumption ==
  /\ HdrLen \in Nat \ {0} /\ MaxMsgLen \in Nat \ {0}
  /\ FragmentThreshold \in 1 .. MaxMsgLen
  /\ DataCopyThreshold \in Nat
  /\ ConnCap \in Nat \ {0} /\ MaxMsgs \in Nat
\* An object's data is never empty; but for objects and transactions nothing is
\* fragmented (SerializedMsg::init), and what is never fragmented (a path) fits
\* into an empty fifo.
ASSUME MessageAssumption ==
  \A m \in Message :
    /\ m \in Serialized
    /\ m.eqs \subseteq 1 .. m.len
    /\ m.type = "put" => \E k \in m.eqs : k < m.len
    /\ m.type = "other" => m.dontFrag
    /\ m.dontFrag => m.len <= MaxMsgLen

VARIABLES
  sent,        \* every message enqueued so far
  nDeq,        \* how many of them were dequeued; the rest is txMsgList_
  sMsg,        \* sMsg_: whether the last of those is still being serialized
  sMsgTxPos,   \* how much of it is
  txFifo,      \* the first txTail_ bytes of txFifo_
  txHead,      \* how many of these are written
  txMsgHead,   \* ... how many belong to messages that are written
  txTrackers,  \* where the messages after txMsgHead end
  txPaused,    \* registered for handleTx
  pump,        \* sendData runs: "no", or from "enqMsg" or "handleTx"
  conn,        \* bytes on their way
  rxFifo,      \* the first rxTail_ bytes of rxFifo_
  rxHead,      \* how many of these are handled
  parsing,     \* the loop of handleRx runs
  open,        \* the receiver has not disconnected
  objInfo, ss, \* the message being reassembled
  handled      \* what was passed to handlePutObject, handleTransaction, ...

sender   == <<sent, nDeq, sMsg, sMsgTxPos, txFifo, txHead, txMsgHead, txTrackers, txPaused, pump>>
receiver == <<rxFifo, rxHead, parsing, open, objInfo, ss, handled>>
vars     == <<sender, conn, receiver>>

Drop(s, n) == SubSeq(s, n + 1, Len(s))
Take(s, n) == SubSeq(s, 1, n)

-----------------------------------------------------------------------------
(* The sender                                                              *)

\* The byte at position k of message i.
Byte(i, k) == [msg |-> i, at |-> k, eq |-> k \in sent[i].eqs]
Payload(i, first, last) == [k \in 1 .. last - first + 1 |-> Byte(i, first + k - 1)]

\* The first byte of a header stands for what all of them say.
Header(i, more, len) ==
  [k \in 1 .. HdrLen |-> IF k = 1 THEN [type |-> sent[i].type, more |-> more, len |-> len]
                         ELSE [pad |-> k]]

\* txFifoRoom
Room == IF FifoSize > Len(txFifo) + HdrLen THEN FifoSize - Len(txFifo) - HdrLen ELSE 0

EnqMsg(m) ==
  /\ pump = "no" /\ Len(sent) < MaxMsgs
  /\ sent' = Append(sent, m)
  /\ pump' = "enqMsg"
  /\ UNCHANGED <<nDeq, sMsg, sMsgTxPos, txFifo, txHead, txMsgHead, txTrackers, txPaused, conn, receiver>>

\* Mutant of SendMsg: requestTx is not called.
SendMsgSilent(i, more, len) ==
  LET chunk == Header(i, more, len) \o Payload(i, sMsgTxPos + 1, sMsgTxPos + len)
  IN /\ txFifo' = txFifo \o chunk
     /\ txTrackers' = Append(txTrackers, Len(txFifo'))
     /\ UNCHANGED txPaused

\* sendMsg; sendData does not look at its result.
SendMsg(i, more, len) ==
  IF FifoSize - Len(txFifo) >= len + HdrLen
  THEN LET chunk == Header(i, more, len) \o Payload(i, sMsgTxPos + 1, sMsgTxPos + len)
       IN /\ txFifo' = txFifo \o chunk
          /\ txTrackers' = Append(txTrackers, Len(txFifo'))
          /\ txPaused' = TRUE
  ELSE UNCHANGED <<txFifo, txTrackers, txPaused>>

\* The loop of sendData takes the next message.
Dequeue ==
  /\ pump # "no" /\ ~sMsg /\ nDeq < Len(sent)
  /\ nDeq' = nDeq + 1
  /\ sMsg' = TRUE
  /\ sMsgTxPos' = 0
  /\ UNCHANGED <<sent, txFifo, txHead, txMsgHead, txTrackers, txPaused, pump, conn, receiver>>

Remaining == sent[nDeq].len - sMsgTxPos

\* ... and puts as much of it into the fifo as there is room for, if that is all
\* of it or worth a fragment.
Fits == Room >= Remaining \/ (~sent[nDeq].dontFrag /\ Room >= FragmentThreshold)

SendPart ==
  /\ pump # "no" /\ sMsg /\ Fits
  /\ LET len == IF Room < Remaining THEN Room ELSE Remaining
     IN /\ SendMsg(nDeq, Room < Remaining, len)
        /\ sMsg' = (len < Remaining)
        /\ sMsgTxPos' = IF sMsg' THEN sMsgTxPos + len ELSE 0
  /\ UNCHANGED <<sent, nDeq, txHead, txMsgHead, pump, conn, receiver>>

\* Mutant of SendDone: handleTx stops writing whatever is left.
SendDoneIdle ==
  /\ pump # "no"
  /\ IF sMsg THEN ~Fits ELSE nDeq = Len(sent)
  /\ txPaused' = (txPaused /\ pump # "handleTx")
  /\ pump' = "no"
  /\ UNCHANGED <<sent, nDeq, sMsg, sMsgTxPos, txFifo, txHead, txMsgHead, txTrackers, conn, receiver>>

\* The loop ends; handleTx then stops writing when nothing is left to write.
SendDone ==
  /\ pump # "no"
  /\ IF sMsg THEN ~Fits ELSE nDeq = Len(sent)
  /\ txPaused' = (txPaused /\ ~(pump = "handleTx" /\ txHead = Len(txFifo)))
  /\ pump' = "no"
  /\ UNCHANGED <<sent, nDeq, sMsg, sMsgTxPos, txFifo, txHead, txMsgHead, txTrackers, conn, receiver>>

\* The fifo after a write up to h, the messages before it accounted for.
\* Room comes back when all is written; the other case never arises while both
\* thresholds are a quarter of MaxMsgLen, and moves nothing if it does.
Reclaim(h, msgHead, trackers) ==
  IF h = Len(txFifo)
  THEN txFifo' = <<>> /\ txHead' = 0 /\ txMsgHead' = 0 /\ txTrackers' = trackers
  ELSE IF msgHead = 0 /\ Len(txFifo) - msgHead < DataCopyThreshold /\ Room < FragmentThreshold
  THEN /\ txFifo' = Drop(txFifo, msgHead)
       /\ txHead' = h - msgHead
       /\ txMsgHead' = 0
       /\ txTrackers' = trackers
  ELSE UNCHANGED txFifo /\ txHead' = h /\ txMsgHead' = msgHead /\ txTrackers' = trackers

\* Mutant of Over: a message is counted once a byte after it is written.
OverLate(h) == {k \in DOMAIN txTrackers : txTrackers[k] < h}

\* The messages that are written when all up to h is.
Over(h) == {k \in DOMAIN txTrackers : txTrackers[k] <= h}

\* The connection takes n bytes.
HandleTx ==
  /\ pump = "no" /\ txPaused
  /\ \E n \in 1 .. Len(txFifo) - txHead :
       LET h == txHead + n
           done == Cardinality(Over(h))
       IN /\ Len(conn) + n <= ConnCap
          /\ conn' = conn \o SubSeq(txFifo, txHead + 1, h)
          /\ Reclaim(h, IF done = 0 THEN txMsgHead ELSE txTrackers[done], Drop(txTrackers, done))
  /\ pump' = "handleTx"
  /\ UNCHANGED <<sent, nDeq, sMsg, sMsgTxPos, txPaused, receiver>>

-----------------------------------------------------------------------------
(* The receiver                                                            *)

\* handleRx reads n bytes, or none if there is no room: then it takes the
\* connection for closed.
HandleRx ==
  /\ open /\ ~parsing /\ conn # <<>>
  /\ IF Len(rxFifo) = FifoSize
     THEN open' = FALSE /\ UNCHANGED <<rxFifo, conn, parsing>>
     ELSE \E n \in 1 .. Len(conn) :
            /\ Len(rxFifo) + n <= FifoSize
            /\ rxFifo' = rxFifo \o Take(conn, n)
            /\ conn' = Drop(conn, n)
            /\ parsing' = TRUE
            /\ UNCHANGED open
  /\ UNCHANGED <<sender, rxHead, objInfo, ss, handled>>

Buf      == Drop(rxFifo, rxHead)
Sig      == Buf # <<>> /\ "more" \in DOMAIN Buf[1]
Complete == Len(Buf) >= HdrLen /\ Len(Buf) >= HdrLen + Buf[1].len

\* A message is passed on once its last fragment is there.
PassOn(type, info, data, more) ==
  IF more
  THEN objInfo' = info /\ ss' = data /\ UNCHANGED handled
  ELSE /\ handled' = Append(handled, [type |-> type, info |-> info, data |-> data])
       /\ objInfo' = <<>>
       /\ ss' = <<>>

\* Mutant of InfoLen: it looks for a '=' although the info is complete.
InfoLenAlways(d) ==
  LET eqs == {k \in DOMAIN d : d[k].eq}
  IN IF eqs = {} THEN Len(d) ELSE CHOOSE k \in eqs : \A j \in eqs : k <= j

\* How much of the payload d belongs to the object info.
InfoLen(d) ==
  LET eqs == {k \in DOMAIN d : d[k].eq}
  IN IF objInfo # <<>> /\ objInfo[Len(objInfo)].eq THEN 0
     ELSE IF eqs = {} THEN Len(d)
     ELSE CHOOSE k \in eqs : \A j \in eqs : k <= j

\* Nothing more is done for a fragment that has nothing but object info.
HandlePutObjectMsg(d, more) ==
  LET n == InfoLen(d)
  IN IF n > 0 /\ n >= Len(d)
     THEN objInfo' = objInfo \o d /\ UNCHANGED <<ss, handled>>
     ELSE PassOn("put", objInfo \o Take(d, n), ss \o Drop(d, n), more)

HandleTransactionMsg(d, more) ==
  IF more THEN ss' = ss \o d /\ UNCHANGED <<objInfo, handled>>
  ELSE PassOn("transaction", <<>>, ss \o d, FALSE)

HandleOther(d) ==
  /\ handled' = Append(handled, [type |-> "other", info |-> <<>>, data |-> d])
  /\ UNCHANGED <<objInfo, ss>>

\* The loop of handleRx finds a whole message or fragment.
MsgReceived ==
  /\ parsing
  /\ Sig /\ Complete
  /\ LET d == SubSeq(Buf, HdrLen + 1, HdrLen + Buf[1].len)
     IN CASE Buf[1].type = "put"         -> HandlePutObjectMsg(d, Buf[1].more)
          [] Buf[1].type = "transaction" -> HandleTransactionMsg(d, Buf[1].more)
          [] Buf[1].type = "other"       -> HandleOther(d)
  /\ rxHead' = rxHead + HdrLen + Buf[1].len
  /\ UNCHANGED <<sender, conn, rxFifo, parsing, open>>

\* Mutant of ParseDone: what was handled is not removed.
ParseDoneKeeping ==
  /\ parsing /\ ~(Sig /\ Complete)
  /\ parsing' = FALSE
  /\ UNCHANGED <<sender, conn, rxFifo, rxHead, open, objInfo, ss, handled>>

\* ... or waits for more.  A byte that is not the signature ends the session.
ParseDone ==
  /\ parsing /\ ~(Sig /\ Complete)
  /\ parsing' = FALSE
  /\ IF Buf = <<>> \/ Sig
     THEN rxFifo' = Buf /\ rxHead' = 0 /\ UNCHANGED open
     ELSE open' = FALSE /\ UNCHANGED <<rxFifo, rxHead>>
  /\ UNCHANGED <<sender, conn, objInfo, ss, handled>>

-----------------------------------------------------------------------------
Init ==
  /\ sent = <<>> /\ nDeq = 0
  /\ sMsg = FALSE /\ sMsgTxPos = 0
  /\ txFifo = <<>> /\ txHead = 0 /\ txMsgHead = 0 /\ txTrackers = <<>>
  /\ txPaused = FALSE /\ pump = "no"
  /\ conn = <<>>
  /\ rxFifo = <<>> /\ rxHead = 0 /\ parsing = FALSE /\ open = TRUE
  /\ objInfo = <<>> /\ ss = <<>> /\ handled = <<>>

SendData == Dequeue \/ SendPart \/ SendDone
Parse    == MsgReceived \/ ParseDone

Next ==
  \/ \E m \in Message : EnqMsg(m)
  \/ SendData \/ HandleTx
  \/ HandleRx \/ Parse

Spec == Init /\ [][Next]_vars

\* The event loops of both ends run and the connection carries the bytes.
Fairness ==
  WF_vars(SendData) /\ WF_vars(HandleTx) /\ WF_vars(HandleRx) /\ WF_vars(Parse)

FairSpec == Spec /\ Fairness

-----------------------------------------------------------------------------
(* Properties                                                              *)

Bytes == Seq([msg : 1 .. MaxMsgs, at : Nat, eq : BOOLEAN])

\* Types; the indices of the fifos: nothing is written past the end of txFifo_ or
\* rxFifo_, and when all bytes are written every message is accounted for (the
\* assertions of handleTx).
TypeOK ==
  /\ sent \in Seq(Message) /\ Len(sent) <= MaxMsgs
  /\ nDeq \in 0 .. Len(sent)
  /\ sMsg \in BOOLEAN /\ sMsgTxPos \in Nat
  /\ sMsg => nDeq > 0 /\ sMsgTxPos < sent[nDeq].len
  /\ txPaused \in BOOLEAN /\ pump \in {"no", "enqMsg", "handleTx"}
  /\ parsing \in BOOLEAN /\ open \in BOOLEAN
  /\ objInfo \in Bytes /\ ss \in Bytes
  /\ 0 <= txMsgHead /\ txMsgHead <= txHead /\ txHead <= Len(txFifo) /\ Len(txFifo) <= FifoSize
  /\ rxHead \in 0 .. Len(rxFifo) /\ Len(rxFifo) <= FifoSize
  /\ \A k \in DOMAIN txTrackers : txTrackers[k] > txHead
  /\ \A j, k \in DOMAIN txTrackers : j < k => txTrackers[j] < txTrackers[k]
  /\ IF txTrackers = <<>> THEN txFifo = <<>> ELSE txTrackers[Len(txTrackers)] = Len(txFifo)

\* What waits in txMsgList_ waits behind a message that is being serialized, and
\* that one waits for bytes handleTx is registered to write: a session whose
\* client reads is never stuck.
NoStall ==
  pump = "no" =>
    /\ nDeq < Len(sent) => sMsg
    /\ sMsg => txFifo # <<>>
    /\ txPaused <=> txFifo # <<>>

\* The receiver never loses its place in the stream, nor its room for the rest
\* of an incomplete message.
StaysOpen == open

\* The message that was sent, if what was handled is exactly that.
Garbled == [type |-> "garbled"]
Decode(h) ==
  LET all == h.info \o h.data
      i   == all[1].msg
  IN IF /\ all = Payload(i, 1, sent[i].len)
        /\ h.type = sent[i].type
        /\ h.type = "put" => h.info # <<>> /\ \A k \in DOMAIN h.info : h.info[k].eq <=> k = Len(h.info)
     THEN sent[i] ELSE Garbled

\* A session delivers what MsgQueue promises: each message once, whole and in
\* order, however it is fragmented, written and read (sendData, handleTx,
\* handleRx, handlePutObjectMsg, handleTransactionMsg).
Queue == INSTANCE MsgQueue WITH in <- sent, out <- [k \in DOMAIN handled |-> Decode(handled[k])]
Delivery     == Queue!Spec
\* ... and every message arrives.
FairDelivery == Queue!FairSpec
=============================================================================
