-------------------------- MODULE DrbccLinkProofs --------------------------
(***************************************************************************)
(* Proofs about DrbccLink, for every number of messages, repetitions and   *)
(* frames in the line, and for every mix of command classes.               *)
(***************************************************************************)
EXTENDS DrbccLink, TLAPS

-----------------------------------------------------------------------------
(* Lemmas on the operators of the model.                                   *)

(* A transmission leaves a line of frames: of libdrbcc_send_message's write *)
(* either the whole frame arrives or nothing.                              *)
LEMMA TransmitType ==
    ASSUME NEW S, NEW line \in Seq(S), NEW f \in S, NEW l \in Transmit(line, f)
    PROVE  /\ l \in Seq(S)
           /\ l = line \/ l = Append(line, f)
  BY DEF Transmit

(* Stamping the toggle bit on a message keeps its command and identity.    *)
LEMMA StampedType ==
    ASSUME NEW m \in HostMsg, sendToggle \in Bit
    PROVE  /\ Stamped(m) \in HostMsg
           /\ Stamped(m).kind = m.kind
           /\ Stamped(m).id = m.id
           /\ Stamped(m).t = IF m.kind = "SYNC" \/ sendToggle = 1 THEN 1 ELSE m.t
  BY DEF Stamped, HostMsg, Bit

(* The three classes of frames are told apart by their command.            *)
LEMMA FrameKinds ==
    /\ \A f \in HostMsg : f.kind \in HostKinds /\ f.id \in Nat /\ f.t \in Bit
    /\ \A f \in PeerMsg : f.kind \in AllPeerKinds /\ f.id \in Nat /\ f.t \in Bit
    /\ \A f \in AckMsg : f.kind = "ACK" /\ f.t \in Bit
    /\ \A b \in Bit : Ack(b) \in AckMsg /\ Ack(b).kind = "ACK" /\ Ack(b).t = b
    /\ \A f \in AckMsg : f = Ack(f.t)
    /\ None \notin HostMsg /\ None \notin PeerMsg
    /\ None.kind = "NONE"
    /\ SyncAnswer.kind = "SYNC_ANSWER"
  BY DEF HostMsg, PeerMsg, AckMsg, Ack, None, SyncAnswer, HostKinds, RequestKinds,
         AllPeerKinds, Bit

(* A message composed by the library is a host message.                    *)
LEMMA NewMsgType ==
    ASSUME nextId \in Nat, NEW k \in HostKinds
    PROVE  NewMsg(k) \in HostMsg /\ NewMsg(k).kind = k /\ NewMsg(k).id = nextId
  BY DEF NewMsg, HostMsg, Bit

-----------------------------------------------------------------------------
(* The type invariant.                                                     *)

LEMMA InitType == Init => TypeOK
  <1> SUFFICES ASSUME Init PROVE TypeOK
    OBVIOUS
  <1>1. [kind |-> "SYNC", id |-> 1, t |-> 0] \in HostMsg
    BY DEF HostMsg, HostKinds, RequestKinds, Bit
  <1>2. Seq(PeerMsg \cup AckMsg) \subseteq Seq(PeerFrame)
    BY DEF PeerFrame
  <1>3. /\ waitForAck \in BOOLEAN /\ waitForAnswer \in BOOLEAN /\ syncMode \in BOOLEAN
        /\ indClosesSession \in BOOLEAN /\ firstSync \in BOOLEAN
        /\ stale \in BOOLEAN /\ skewed \in BOOLEAN
    BY Zenon DEF Init, Started, Synced
  <1>4. peerLine \in Seq(PeerFrame) /\ prioQueue \in Seq(HostMsg)
    <2>1. CASE Started
      <3>1. peerLine \in Seq(PeerFrame)
        BY Zenon, <1>2, <2>1, LinkAssumption DEF Started
      <3> QED
        BY <1>1, <2>1, <3>1 DEF Started
    <2>2. CASE Synced
      BY <2>2 DEF Synced
    <2> QED
      BY <2>1, <2>2 DEF Init
  <1>5. peerRx \in Bit /\ peerTx \in Bit /\ nextId \in Nat \ {0}
    BY DEF Init, Started, Synced, Bit
  <1> QED
    BY <1>3, <1>4, <1>5, LinkAssumption DEF Init, TypeOK, Bit

LEMMA NextType == TypeOK /\ [Next]_vars => TypeOK'
  <1> SUFFICES ASSUME TypeOK, [Next]_vars PROVE TypeOK'
    OBVIOUS
  <1> USE LinkAssumption, FrameKinds DEF TypeOK
  <1>a. hostLine # <<>> => Head(hostLine) \in HostFrame /\ Tail(hostLine) \in Seq(HostFrame)
    OBVIOUS
  <1>b. peerLine # <<>> => Head(peerLine) \in PeerFrame /\ Tail(peerLine) \in Seq(PeerFrame)
    OBVIOUS
  <1>c. ASSUME NEW b \in Bit, NEW l \in Transmit(hostLine, Ack(b)) PROVE l \in Seq(HostFrame)
    BY <1>c, TransmitType DEF HostFrame
  <1>d. ASSUME NEW b \in Bit, NEW l \in Transmit(peerLine, Ack(b)) PROVE l \in Seq(PeerFrame)
    BY <1>d, TransmitType DEF PeerFrame
  <1>e. ASSUME NEW m \in HostMsg, SendMessage(m)
        PROVE  /\ hostLine' \in Seq(HostFrame)
               /\ repeatMsg' \in HostMsg
               /\ sendToggle' \in Bit
               /\ recvToggle' \in Bit
               /\ skewed' \in BOOLEAN
    <2>1. Stamped(m) \in HostMsg
      BY StampedType
    <2>2. hostLine' \in Seq(HostFrame)
      BY <1>e, <2>1, TransmitType DEF SendMessage, HostFrame
    <2> QED
      BY <1>e, <2>1, <2>2 DEF SendMessage, Bit
  <1>f. ASSUME NEW ok \in {"success", "failure"}, CloseSession(ok)
        PROVE  session' \in Nat /\ outcome' \in {"none", "success", "failure"}
    BY <1>f DEF CloseSession
  <1>g. ASSUME NEW f \in PeerMsg, ProcMsg(f)
        PROVE  /\ session' \in Nat
               /\ outcome' \in {"none", "success", "failure"}
               /\ indClosesSession' \in BOOLEAN
               /\ prioQueue' \in Seq(HostMsg)
               /\ secQueue' \in Seq(HostMsg)
               /\ nextId' \in Nat \ {0}
    <2>1. NewMsg("REPLY") \in HostMsg /\ NewMsg("FLASH") \in HostMsg
      BY NewMsgType DEF HostKinds, RequestKinds
    <2>2. indClosesSession' \in BOOLEAN
      BY Zenon, <1>g DEF ProcMsg, sessionVars
    <2>3. /\ Append(prioQueue, NewMsg("REPLY")) \in Seq(HostMsg)
          /\ Append(secQueue, NewMsg("FLASH")) \in Seq(HostMsg)
      BY <2>1
    <2>4. prioQueue' \in Seq(HostMsg) /\ secQueue' \in Seq(HostMsg)
      BY Zenon, <1>g, <2>3 DEF ProcMsg, queueVars
    <2>6. nextId' \in Nat \ {0}
      BY <1>g DEF ProcMsg, queueVars
    <2>5. session' \in Nat /\ outcome' \in {"none", "success", "failure"}
      BY <1>f, <1>g DEF ProcMsg, sessionVars
    <2> QED
      BY <2>2, <2>4, <2>5, <2>6
  <1>1. ASSUME NEW k \in Requests, Request(k) PROVE TypeOK'
    <2>1. NewMsg(k) \in HostMsg
      BY NewMsgType DEF HostKinds
    <2>2. indClosesSession' \in BOOLEAN
      BY Zenon, <1>1 DEF Request
    <2>3. /\ Append(prioQueue, NewMsg(k)) \in Seq(HostMsg)
          /\ Append(secQueue, NewMsg(k)) \in Seq(HostMsg)
      BY <2>1
    <2>4. prioQueue' \in Seq(HostMsg) /\ secQueue' \in Seq(HostMsg)
      BY <1>1, <2>3 DEF Request
    <2> QED
      BY <1>1, <2>2, <2>4 DEF Request, hostVars, peerVars, historyVars
  <1>2. CASE RecvAck
    <2>1. session' \in Nat /\ outcome' \in {"none", "success", "failure"} /\ firstSync' \in BOOLEAN
      BY <1>2, <1>f DEF RecvAck, ProcAckMsg
    <2>2. waitForAck' \in BOOLEAN
      BY Zenon, <1>2 DEF RecvAck
    <2> QED
      BY <1>2, <1>b, <2>1, <2>2 DEF RecvAck, queueVars, peerVars, historyVars, Bit
  <1>3. CASE RecvUnexpectedAck
    BY <1>3, <1>b DEF RecvUnexpectedAck, hostVars, queueVars, sessionVars, peerVars, historyVars
  <1>4. CASE RecvWrongAck
    BY <1>4, <1>b DEF RecvWrongAck, queueVars, sessionVars, peerVars, historyVars
  <1>5. CASE RecvSyncAnswer
    <2>1. waitForAck' \in BOOLEAN /\ syncMode' \in BOOLEAN
      BY Zenon, <1>5 DEF RecvSyncAnswer
    <2> QED
      BY <1>5, <1>b, <2>1 DEF RecvSyncAnswer, queueVars, sessionVars, peerVars, historyVars, Bit
  <1>6. CASE RecvMsg
    <2>1. hostLine' \in Seq(HostFrame)
      BY <1>6, <1>c DEF RecvMsg
    <2> QED
      BY <1>6, <1>b, <1>g, <2>1 DEF RecvMsg, peerVars, Bit
  <1>7. CASE RecvWrongToggle
    <2>1. hostLine' \in Seq(HostFrame)
      BY <1>7, <1>c DEF RecvWrongToggle
    <2> QED
      BY <1>7, <1>b, <1>f, <2>1 DEF RecvWrongToggle, queueVars, peerVars, historyVars
  <1>8. CASE RecvMsgSync
    <2>1. waitForAck' \in BOOLEAN /\ waitForAnswer' \in BOOLEAN
      BY Zenon, <1>8 DEF RecvMsgSync
    <2> QED
      BY <1>8, <1>b, <1>g, <2>1 DEF RecvMsgSync, peerVars, Bit
  <1>9. CASE RecvDone
    BY <1>9 DEF RecvDone, queueVars, sessionVars, peerVars, historyVars
  <1>10. CASE SendPrio
    <2>1. Head(prioQueue) \in HostMsg /\ Tail(prioQueue) \in Seq(HostMsg)
      BY <1>10 DEF SendPrio
    <2>2. sentLog' \in Seq(Nat)
      BY <1>10, <2>1 DEF SendPrio, LogSent
    <2> QED
      BY <1>10, <1>e, <2>1, <2>2 DEF SendPrio, sessionVars, peerVars
  <1>11. CASE SendSec
    <2>1. Head(secQueue) \in HostMsg /\ Tail(secQueue) \in Seq(HostMsg)
      BY <1>11 DEF SendSec
    <2>2. sentLog' \in Seq(Nat)
      BY <1>11, <2>1 DEF SendSec, LogSent
    <2> QED
      BY <1>11, <1>e, <2>1, <2>2 DEF SendSec, sessionVars, peerVars
  <1>12. CASE SendNothing
    BY <1>12 DEF SendNothing, queueVars, sessionVars, peerVars, historyVars
  <1>13. CASE AnswerTimeout
    <2>1. waitForAnswer' \in BOOLEAN
      BY Zenon, <1>13 DEF AnswerTimeout
    <2> QED
      BY <1>13, <2>1 DEF AnswerTimeout, queueVars, sessionVars, peerVars, historyVars
  <1>14. CASE Repeat
    <2>1. repeatMsg \in HostMsg
      BY <1>14 DEF Repeat
    <2> QED
      BY <1>14, <1>e, <2>1 DEF Repeat, queueVars, sessionVars, peerVars
  <1>15. CASE GiveUp
    <2>1. waitForAck' \in BOOLEAN /\ stale' \in BOOLEAN
      BY Zenon, <1>15 DEF GiveUp
    <2> QED
      BY <1>15, <1>f, <2>1 DEF GiveUp, queueVars, peerVars
  <1>16. CASE TimersIdle
    BY <1>16 DEF TimersIdle, queueVars, sessionVars, peerVars, historyVars
  <1>17. CASE PeerRecvAck
    BY <1>17, <1>a DEF PeerRecvAck, PeerFrameReady, hostVars, queueVars, sessionVars,
                       historyVars, Bit
  <1>18. CASE PeerRecvSync
    <2>1. Head(hostLine).t \in Bit
      BY <1>18, <1>a DEF PeerRecvSync, PeerFrameReady, HostFrame
    <2>2. peerLine' \in Seq(PeerFrame)
      BY <1>18, <1>d, <2>1, TransmitType DEF PeerRecvSync, PeerFrame
    <2> QED
      BY <1>18, <1>a, <2>2 DEF PeerRecvSync, PeerFrameReady, hostVars, queueVars,
                               sessionVars, historyVars, Bit
  <1>19. CASE PeerRecvMsg
    <2>1. peerLine' \in Seq(PeerFrame)
      BY <1>19, <1>d DEF PeerRecvMsg
    <2>3. Head(hostLine).id \in Nat
      BY <1>19, <1>a DEF PeerRecvMsg, PeerFrameReady
    <2>4. Append(delivered, Head(hostLine).id) \in Seq(Nat)
      BY <2>3
    <2>5. delivered' \in Seq(Nat)
      BY Zenon, <1>19, <2>4 DEF PeerRecvMsg
    <2> QED
      BY <1>19, <1>a, <2>1, <2>5 DEF PeerRecvMsg, PeerFrameReady, hostVars, queueVars,
                               sessionVars, historyVars, Bit
  <1>20. CASE PeerRecvMsgSync
    <2>1. \A k \in PeerKinds : [kind |-> k, id |-> peerNextId, t |-> 0] \in PeerMsg
      BY DEF PeerMsg, Bit
    <2>2. peerLine' \in Seq(PeerFrame)
      BY <1>20, <1>d, <2>1, TransmitType DEF PeerRecvMsgSync, PeerFrame
    <2>3. Head(hostLine).id \in Nat
      BY <1>20, <1>a DEF PeerRecvMsgSync, PeerFrameReady
    <2>4. delivered' \in Seq(Nat)
      BY <1>20, <2>3 DEF PeerRecvMsgSync
    <2>5. Append(peerSentLog, peerNextId) \in Seq(Nat)
      OBVIOUS
    <2>6. peerSentLog' \in Seq(Nat)
      BY Zenon, <1>20, <2>5 DEF PeerRecvMsgSync
    <2>7. peerNextId' \in Nat \ {0}
      BY <1>20 DEF PeerRecvMsgSync
    <2>8. hostLine' \in Seq(HostFrame)
      BY <1>20, <1>a DEF PeerRecvMsgSync, PeerFrameReady
    <2>9. UNCHANGED <<hostVars, queueVars, sessionVars, peerRx, peerTx, peerOut, historyVars>>
      BY <1>20 DEF PeerRecvMsgSync
    <2> QED
      BY <2>2, <2>4, <2>6, <2>7, <2>8, <2>9 DEF hostVars, queueVars, sessionVars, historyVars
  <1>21. ASSUME NEW k \in PeerKinds, PeerSend(k) PROVE TypeOK'
    <2>1. [kind |-> k, id |-> peerNextId, t |-> peerTx] \in PeerMsg
      BY DEF PeerMsg
    <2>2. peerLine' \in Seq(PeerFrame)
      BY <1>21, <2>1, TransmitType DEF PeerSend, PeerFrame
    <2> QED
      BY <1>21, <2>1, <2>2 DEF PeerSend, hostVars, queueVars, sessionVars, historyVars
  <1>22. CASE PeerRepeat
    <2>1. [peerOut EXCEPT !.t = peerTx] \in PeerMsg
      BY <1>22 DEF PeerRepeat, PeerMsg
    <2>2. peerLine' \in Seq(PeerFrame)
      BY <1>22, <2>1, TransmitType DEF PeerRepeat, PeerFrame
    <2> QED
      BY <1>22, <2>2 DEF PeerRepeat, hostVars, queueVars, sessionVars, peerVars, historyVars
  <1>23. CASE UNCHANGED vars
    BY <1>23 DEF vars, hostVars, queueVars, sessionVars, peerVars, historyVars
  <1> QED
    BY <1>1, <1>2, <1>3, <1>4, <1>5, <1>6, <1>7, <1>8, <1>9, <1>10, <1>11, <1>12,
       <1>13, <1>14, <1>15, <1>16, <1>17, <1>18, <1>19, <1>20, <1>21, <1>22, <1>23
       DEF Next, Trigger, Receive, Peer

(* Every state of the link has its type: in particular repeatCount never   *)
(* passes MaxRepeat and repeatMsg is a message of the host or NULL.        *)
THEOREM TypeCorrect == Spec => []TypeOK
  BY InitType, NextType, PTL DEF Spec

-----------------------------------------------------------------------------
(* Lemmas on the predicates over lines: taking the first frame, and adding *)
(* a frame at the end.                                                     *)

LEMMA FrameBit ==
    ASSUME NEW f \in Frame
    PROVE  f.t \in Bit /\ ~(IsAck(f) /\ IsData(f))
  BY DEF Frame, HostMsg, PeerMsg, AckMsg, SyncAnswer, Bit, IsAck, IsData

LEMMA TailLine ==
    ASSUME NEW S, NEW line \in Seq(S), line # <<>>, NEW b, NEW m
    PROVE  /\ DataAll(line, b) => DataAll(Tail(line), b)
           /\ DataSorted(line, b) => DataSorted(Tail(line), b)
           /\ DataCopies(line, b, m) => DataCopies(Tail(line), b, m)
           /\ AckAll(line, b) => AckAll(Tail(line), b)
           /\ AckSorted(line, b) => AckSorted(Tail(line), b)
           /\ DataAll(line, b) /\ IsData(Head(line)) => Head(line).t = b
           /\ AckAll(line, b) /\ IsAck(Head(line)) => Head(line).t = b
           /\ (DataSorted(line, b) /\ IsData(Head(line)) /\ Head(line).t = b)
                => DataAll(Tail(line), b)
           /\ (AckSorted(line, b) /\ IsAck(Head(line)) /\ Head(line).t = b)
                => AckAll(Tail(line), b)
           /\ (DataCopies(line, b, m) /\ IsData(Head(line)) /\ Head(line).t = b)
                => Head(line).kind = m.kind /\ Head(line).id = m.id
  <1>1. /\ Head(line) = line[1]
        /\ 1 \in DOMAIN line
        /\ \A i \in DOMAIN Tail(line) : i + 1 \in DOMAIN line /\ Tail(line)[i] = line[i + 1]
        /\ \A i \in DOMAIN Tail(line) : i \in Nat /\ 1 < i + 1
        /\ \A i, j \in DOMAIN Tail(line) : i < j => i + 1 < j + 1
    OBVIOUS
  <1>2. DataAll(line, b) => DataAll(Tail(line), b)
    BY <1>1 DEF DataAll
  <1>3. DataSorted(line, b) => DataSorted(Tail(line), b)
    BY <1>1 DEF DataSorted
  <1>4. DataCopies(line, b, m) => DataCopies(Tail(line), b, m)
    BY <1>1 DEF DataCopies
  <1>5. AckAll(line, b) => AckAll(Tail(line), b)
    BY <1>1 DEF AckAll
  <1>6. AckSorted(line, b) => AckSorted(Tail(line), b)
    BY <1>1 DEF AckSorted
  <1>7. DataAll(line, b) /\ IsData(Head(line)) => Head(line).t = b
    BY <1>1 DEF DataAll
  <1>8. AckAll(line, b) /\ IsAck(Head(line)) => Head(line).t = b
    BY <1>1 DEF AckAll
  <1>9. (DataSorted(line, b) /\ IsData(Head(line)) /\ Head(line).t = b)
           => DataAll(Tail(line), b)
    BY <1>1 DEF DataSorted, DataAll
  <1>10. (AckSorted(line, b) /\ IsAck(Head(line)) /\ Head(line).t = b)
           => AckAll(Tail(line), b)
    BY <1>1 DEF AckSorted, AckAll
  <1>11. (DataCopies(line, b, m) /\ IsData(Head(line)) /\ Head(line).t = b)
           => Head(line).kind = m.kind /\ Head(line).id = m.id
    BY <1>1 DEF DataCopies
  <1> QED
    BY <1>2, <1>3, <1>4, <1>5, <1>6, <1>7, <1>8, <1>9, <1>10, <1>11

LEMMA AppendLine ==
    ASSUME NEW S, NEW line \in Seq(S), NEW f \in S, NEW b, NEW m
    PROVE  /\ DataAll(line, b) /\ (IsData(f) => f.t = b) => DataAll(Append(line, f), b)
           /\ DataSorted(line, b) /\ (IsData(f) => f.t = b) => DataSorted(Append(line, f), b)
           /\ (DataCopies(line, b, m) /\ (IsData(f) /\ f.t = b => f.kind = m.kind /\ f.id = m.id))
                => DataCopies(Append(line, f), b, m)
           /\ AckAll(line, b) /\ (IsAck(f) => f.t = b) => AckAll(Append(line, f), b)
           /\ AckSorted(line, b) /\ (IsAck(f) => f.t = b) => AckSorted(Append(line, f), b)
  <1>1. /\ \A i \in DOMAIN Append(line, f) :
             \/ i \in DOMAIN line /\ Append(line, f)[i] = line[i]
             \/ i = Len(line) + 1 /\ Append(line, f)[i] = f
        /\ \A i, j \in DOMAIN Append(line, f) : i < j => i \in DOMAIN line
    OBVIOUS
  <1>2. DataAll(line, b) /\ (IsData(f) => f.t = b) => DataAll(Append(line, f), b)
    BY <1>1 DEF DataAll
  <1>3. DataSorted(line, b) /\ (IsData(f) => f.t = b) => DataSorted(Append(line, f), b)
    BY <1>1 DEF DataSorted
  <1>4. (DataCopies(line, b, m) /\ (IsData(f) /\ f.t = b => f.kind = m.kind /\ f.id = m.id))
           => DataCopies(Append(line, f), b, m)
    BY <1>1 DEF DataCopies
  <1>5. AckAll(line, b) /\ (IsAck(f) => f.t = b) => AckAll(Append(line, f), b)
    BY <1>1 DEF AckAll
  <1>6. AckSorted(line, b) /\ (IsAck(f) => f.t = b) => AckSorted(Append(line, f), b)
    BY <1>1 DEF AckSorted
  <1> QED
    BY <1>2, <1>3, <1>4, <1>5, <1>6

(* Where all bits agree, or none is the sought one, a line is sorted.      *)
LEMMA SortedLine ==
    ASSUME NEW S, NEW line \in Seq(S), NEW b \in Bit, NEW m
    PROVE  /\ DataAll(line, b) => DataSorted(line, b) /\ DataSorted(line, 1 - b)
           /\ AckAll(line, b) => AckSorted(line, b) /\ AckSorted(line, 1 - b)
           /\ DataAll(line, 1 - b) => DataCopies(line, b, m)
  BY DEF DataAll, DataSorted, AckAll, AckSorted, DataCopies, Bit

-----------------------------------------------------------------------------
(* Lemmas on one direction of the protocol: each kind of step keeps the    *)
(* bits alternating.  They serve both directions.                          *)

LEMMA AckFrame == \A b \in Bit : Ack(b) \in Frame /\ IsAck(Ack(b)) /\ ~IsData(Ack(b)) /\ Ack(b).t = b
  BY FrameKinds DEF Frame, IsAck, IsData, Ack

(* A new message is sent with the current bit.                             *)
LEMMA AltSend ==
    ASSUME NEW bit \in Bit, NEW rx \in Bit, NEW out, NEW dl \in Seq(Frame),
           NEW al \in Seq(Frame), NEW got, NEW log,
           Alternating(bit, out, rx, dl, al, got, log),
           out = None, NEW m \in Frame, IsData(m), m # None, m.t = bit, m.kind # "SYNC",
           NEW dl2 \in {dl, Append(dl, m)}
    PROVE  Alternating(bit, m, rx, dl2, al, got, Append(log, m.id))
  <1>1. rx = bit /\ DataAll(dl, 1 - bit) /\ AckAll(al, 1 - bit) /\ got = log
    BY DEF Alternating
  <1>2. DataSorted(dl, bit) /\ AckSorted(al, bit) /\ DataCopies(dl, bit, m)
    <2>1. 1 - bit \in Bit /\ 1 - (1 - bit) = bit
      BY DEF Bit
    <2> QED
      BY <1>1, <2>1, SortedLine
  <1>3. DataSorted(dl2, bit) /\ DataCopies(dl2, bit, m)
    BY <1>2, AppendLine
  <1> QED
    BY <1>1, <1>2, <1>3 DEF Alternating

(* A SYNC is sent: it carries the bit 1 whatever the current bit.          *)
LEMMA AltSendSync ==
    ASSUME NEW bit \in Bit, NEW rx \in Bit, NEW dl \in Seq(Frame),
           NEW al \in Seq(Frame), NEW got, NEW log,
           Alternating(bit, None, rx, dl, al, got, log),
           NEW m \in Frame, IsData(m), m # None, m.t = 1, m.kind = "SYNC",
           NEW dl2 \in {dl, Append(dl, m)}
    PROVE  Alternating(1, m, rx, dl2, al, got, log)
  <1>1. rx = bit /\ DataAll(dl, 1 - bit) /\ AckAll(al, 1 - bit) /\ got = log
    BY DEF Alternating
  <1>2. CASE bit = 1
    <2>1. DataAll(dl, 0) /\ AckAll(al, 0)
      BY <1>1, <1>2
    <2>2. DataSorted(dl, 1) /\ AckSorted(al, 1) /\ DataCopies(dl, 1, m)
      <3>1. 0 \in Bit /\ 1 \in Bit /\ 1 - 0 = 1 /\ 1 - 1 = 0
        BY DEF Bit
      <3> QED
        BY <2>1, <3>1, SortedLine
    <2>3. DataSorted(dl2, 1) /\ DataCopies(dl2, 1, m)
      BY <2>2, AppendLine
    <2> QED
      BY <1>1, <1>2, <2>1, <2>2, <2>3 DEF Alternating
  <1>3. CASE bit = 0
    <2>1. DataAll(dl, 1) /\ AckAll(al, 1)
      BY <1>1, <1>3
    <2>2. DataAll(dl2, 1)
      BY <2>1, AppendLine
    <2>3. DataSorted(dl2, 1) /\ AckSorted(al, 1)
      <3>1. 1 \in Bit /\ dl2 \in Seq(Frame)
        BY DEF Bit
      <3> QED
        BY <2>1, <2>2, <3>1, SortedLine
    <2> QED
      BY <1>1, <1>3, <2>2, <2>3 DEF Alternating
  <1> QED
    BY <1>2, <1>3 DEF Bit

(* The unacknowledged message is sent again.                               *)
LEMMA AltRepeat ==
    ASSUME NEW bit \in Bit, NEW rx \in Bit, NEW out, NEW dl \in Seq(Frame),
           NEW al \in Seq(Frame), NEW got, NEW log,
           Alternating(bit, out, rx, dl, al, got, log),
           out # None, NEW m \in Frame, m.t = bit, m.kind = out.kind, m.id = out.id,
           NEW dl2 \in {dl, Append(dl, m)}
    PROVE  Alternating(bit, out, rx, dl2, al, got, log)
  BY AppendLine DEF Alternating

(* The awaited ack arrives.                                                *)
LEMMA AltAck ==
    ASSUME NEW bit \in Bit, NEW rx \in Bit, NEW out, NEW dl \in Seq(Frame),
           NEW al \in Seq(Frame), NEW got, NEW log,
           Alternating(bit, out, rx, dl, al, got, log),
           out # None, al # <<>>, Head(al) = Ack(bit)
    PROVE  Alternating(1 - bit, None, rx, dl, Tail(al), got, log)
  <1>1. IsAck(Head(al)) /\ Head(al).t = bit
    BY AckFrame
  <1>2. rx # bit
    <2>1. rx = bit => AckAll(al, 1 - bit)
      BY DEF Alternating
    <2>2. AckAll(al, 1 - bit) => Head(al).t = 1 - bit
      BY <1>1, TailLine
    <2> QED
      BY <1>1, <2>1, <2>2 DEF Bit
  <1>3. DataAll(dl, bit) /\ got = log /\ AckSorted(al, bit)
    BY <1>2 DEF Alternating
  <1>4. AckAll(Tail(al), bit)
    BY <1>1, <1>3, TailLine
  <1>5. rx = 1 - bit /\ 1 - (1 - bit) = bit
    BY <1>2 DEF Bit
  <1> QED
    BY <1>3, <1>4, <1>5 DEF Alternating

(* A frame leaves either line without effect on this direction, or a frame *)
(* of the other direction enters.                                          *)
LEMMA AltTailAck ==
    ASSUME NEW bit \in Bit, NEW rx \in Bit, NEW out, NEW dl \in Seq(Frame),
           NEW al \in Seq(Frame), NEW got, NEW log,
           Alternating(bit, out, rx, dl, al, got, log),
           al # <<>>
    PROVE  Alternating(bit, out, rx, dl, Tail(al), got, log)
  BY TailLine DEF Alternating

LEMMA AltTailData ==
    ASSUME NEW bit \in Bit, NEW rx \in Bit, NEW out, NEW dl \in Seq(Frame),
           NEW al \in Seq(Frame), NEW got, NEW log,
           Alternating(bit, out, rx, dl, al, got, log),
           dl # <<>>
    PROVE  Alternating(bit, out, rx, Tail(dl), al, got, log)
  BY TailLine DEF Alternating

LEMMA AltForeignAck ==
    ASSUME NEW bit \in Bit, NEW rx \in Bit, NEW out, NEW dl \in Seq(Frame),
           NEW al \in Seq(Frame), NEW got, NEW log,
           Alternating(bit, out, rx, dl, al, got, log),
           NEW f \in Frame, ~IsData(f)
    PROVE  Alternating(bit, out, rx, Append(dl, f), al, got, log)
  BY AppendLine DEF Alternating

LEMMA AltForeignData ==
    ASSUME NEW bit \in Bit, NEW rx \in Bit, NEW out, NEW dl \in Seq(Frame),
           NEW al \in Seq(Frame), NEW got, NEW log,
           Alternating(bit, out, rx, dl, al, got, log),
           NEW f \in Frame, ~IsAck(f)
    PROVE  Alternating(bit, out, rx, dl, Append(al, f), got, log)
  BY AppendLine DEF Alternating

(* A message with another bit than the expected one is acknowledged and    *)
(* not processed.                                                          *)
LEMMA AltDuplicate ==
    ASSUME NEW bit \in Bit, NEW rx \in Bit, NEW out, NEW dl \in Seq(Frame),
           NEW al \in Seq(Frame), NEW got, NEW log,
           Alternating(bit, out, rx, dl, al, got, log),
           dl # <<>>, IsData(Head(dl)), Head(dl).t # rx,
           NEW al2 \in {al, Append(al, Ack(Head(dl).t))}
    PROVE  Alternating(bit, out, rx, Tail(dl), al2, got, log)
  <1>1. Head(dl) \in Frame /\ Head(dl).t \in Bit
    BY FrameBit
  <1>2. Ack(Head(dl).t) \in Frame /\ Ack(Head(dl).t).t = Head(dl).t
    BY <1>1, AckFrame
  <1>3. Alternating(bit, out, rx, Tail(dl), al, got, log)
    BY AltTailData
  <1>4. CASE out = None
    <2>1. Head(dl).t = 1 - bit
      BY <1>4, TailLine DEF Alternating
    <2>2. AckAll(al2, 1 - bit)
      BY <1>2, <1>4, <2>1, AppendLine DEF Alternating
    <2> QED
      BY <1>3, <1>4, <2>2 DEF Alternating
  <1>5. CASE out # None /\ rx = bit
    <2>1. Head(dl).t = 1 - bit
      BY <1>1, <1>5 DEF Bit
    <2>2. AckAll(al2, 1 - bit)
      BY <1>2, <1>5, <2>1, AppendLine DEF Alternating
    <2>3. AckSorted(al2, bit)
      <3>1. 1 - bit \in Bit /\ 1 - (1 - bit) = bit /\ al2 \in Seq(Frame)
        BY <1>2 DEF Bit
      <3> QED
        BY <2>2, <3>1, SortedLine
    <2> QED
      BY <1>3, <1>5, <2>2, <2>3 DEF Alternating
  <1>6. CASE out # None /\ rx # bit
    <2>1. Head(dl).t = bit
      BY <1>1, <1>6 DEF Bit
    <2>2. AckSorted(al2, bit)
      BY <1>2, <1>6, <2>1, AppendLine DEF Alternating
    <2> QED
      BY <1>3, <1>6, <2>2 DEF Alternating
  <1> QED
    BY <1>4, <1>5, <1>6

(* A message with the expected bit is the unacknowledged one: it is        *)
(* processed for the first time, and acknowledged.                         *)
LEMMA AltAccept ==
    ASSUME NEW bit \in Bit, NEW rx \in Bit, NEW out, NEW dl \in Seq(Frame),
           NEW al \in Seq(Frame), NEW got, NEW log,
           Alternating(bit, out, rx, dl, al, got, log),
           dl # <<>>, IsData(Head(dl)), Head(dl).t = rx, Head(dl).kind # "SYNC",
           NEW al2 \in {al, Append(al, Ack(Head(dl).t))}
    PROVE  Alternating(bit, out, 1 - rx, Tail(dl), al2, Append(got, Head(dl).id), log)
  <1>1. Head(dl) \in Frame /\ Head(dl).t \in Bit
    BY FrameBit
  <1>2. Ack(Head(dl).t) \in Frame /\ Ack(Head(dl).t).t = Head(dl).t
    BY <1>1, AckFrame
  <1>3. out # None
    <2>1. SUFFICES ASSUME out = None PROVE FALSE
      OBVIOUS
    <2>2. rx = bit /\ DataAll(dl, 1 - bit)
      BY <2>1 DEF Alternating
    <2>3. Head(dl).t = 1 - bit
      BY <2>2, TailLine
    <2> QED
      BY <2>2, <2>3 DEF Bit
  <1>4. rx = bit
    <2>1. SUFFICES ASSUME rx # bit PROVE FALSE
      OBVIOUS
    <2>2. DataAll(dl, bit)
      BY <1>3, <2>1 DEF Alternating
    <2>3. Head(dl).t = bit
      BY <2>2, TailLine
    <2> QED
      BY <2>1, <2>3
  <1>5. DataSorted(dl, bit) /\ AckSorted(al, bit) /\ DataCopies(dl, bit, out)
    BY <1>3, <1>4 DEF Alternating
  <1>6. Head(dl).kind = out.kind /\ Head(dl).id = out.id /\ DataAll(Tail(dl), bit)
    BY <1>4, <1>5, TailLine
  <1>7. Append(got, Head(dl).id) = log
    BY <1>3, <1>4, <1>6 DEF Alternating
  <1>8. AckSorted(al2, bit)
    BY <1>2, <1>4, <1>5, AppendLine
  <1>9. DataSorted(Tail(dl), bit)
    BY <1>5, TailLine
  <1>10. 1 - rx # bit
    BY <1>4 DEF Bit
  <1> QED
    BY <1>3, <1>6, <1>7, <1>8, <1>9, <1>10 DEF Alternating

(* A SYNC sets the expected bit to 0, which is what the bits in the line   *)
(* have prepared.                                                          *)
LEMMA AltAcceptSync ==
    ASSUME NEW bit \in Bit, NEW rx \in Bit, NEW out, NEW dl \in Seq(Frame),
           NEW al \in Seq(Frame), NEW got, NEW log,
           Alternating(bit, out, rx, dl, al, got, log),
           dl # <<>>, IsData(Head(dl)), Head(dl).t = 1, Head(dl).kind = "SYNC",
           NEW al2 \in {al, Append(al, Ack(Head(dl).t))}
    PROVE  Alternating(bit, out, 0, Tail(dl), al2, got, log)
  <1>1. CASE rx = 0
    <2>1. Head(dl).t # rx
      BY <1>1
    <2>2. Alternating(bit, out, rx, Tail(dl), al2, got, log)
      BY <2>1, AltDuplicate
    <2> QED
      BY <1>1, <2>2
  <1>2. CASE rx = 1
    <2>1. Ack(1) \in Frame /\ Ack(1).t = 1
      BY AckFrame DEF Bit
    <2>2. out # None
      <3>1. SUFFICES ASSUME out = None PROVE FALSE
        OBVIOUS
      <3>2. bit = 1 /\ DataAll(dl, 0)
        BY <1>2, <3>1 DEF Alternating
      <3>3. Head(dl).t = 0
        BY <3>2, TailLine
      <3> QED
        BY <3>3
    <2>3. bit = 1
      <3>1. SUFFICES ASSUME bit = 0 PROVE FALSE
        BY DEF Bit
      <3>2. DataAll(dl, 0)
        BY <1>2, <2>2, <3>1 DEF Alternating
      <3>3. Head(dl).t = 0
        BY <3>2, TailLine
      <3> QED
        BY <3>3
    <2>4. DataSorted(dl, 1) /\ AckSorted(al, 1) /\ DataCopies(dl, 1, out)
      BY <1>2, <2>2, <2>3 DEF Alternating
    <2>5. Head(dl).kind = out.kind /\ DataAll(Tail(dl), 1) /\ DataSorted(Tail(dl), 1)
      BY <2>4, TailLine
    <2>6. AckSorted(al2, 1)
      BY <2>1, <2>4, AppendLine
    <2>7. got = log
      BY <1>2, <2>2, <2>3, <2>5 DEF Alternating
    <2> QED
      BY <2>2, <2>3, <2>5, <2>6, <2>7 DEF Alternating
  <1> QED
    BY <1>1, <1>2 DEF Bit

-----------------------------------------------------------------------------
(* The inductive invariant, part by part.                                  *)

LEMMA TailElems ==
    ASSUME NEW S, NEW q \in Seq(S), q # <<>>
    PROVE  /\ Head(q) = q[1] /\ 1 \in DOMAIN q /\ Head(q) \in S /\ Tail(q) \in Seq(S)
           /\ \A i \in DOMAIN Tail(q) : i + 1 \in DOMAIN q /\ i + 1 > 1 /\ Tail(q)[i] = q[i + 1]
           /\ Tail(q) # <<>> => 2 \in DOMAIN q /\ Head(Tail(q)) = q[2]
  OBVIOUS

LEMMA AppendElems ==
    ASSUME NEW S, NEW q \in Seq(S), NEW m \in S
    PROVE  /\ \A i \in DOMAIN Append(q, m) :
                 \/ i \in DOMAIN q /\ Append(q, m)[i] = q[i]
                 \/ i = Len(q) + 1 /\ Append(q, m)[i] = m
           /\ Append(q, m) # <<>>
           /\ q = <<>> => Head(Append(q, m)) = m
           /\ q # <<>> => Head(Append(q, m)) = Head(q)
  OBVIOUS

LEMMA AppendHead ==
    ASSUME NEW S, NEW q \in Seq(S), NEW m \in S
    PROVE  /\ Append(q, m) # <<>>
           /\ q = <<>> => Head(Append(q, m)) = m
           /\ q # <<>> => Head(Append(q, m)) = Head(q)
  BY AppendElems

(* The lines carry frames.                                                 *)
LEMMA LineFrames ==
    ASSUME TypeOK
    PROVE  /\ hostLine \in Seq(Frame) /\ peerLine \in Seq(Frame)
           /\ HostMsg \subseteq Frame /\ PeerMsg \subseteq Frame /\ AckMsg \subseteq Frame
           /\ \A f \in HostMsg : IsData(f) /\ ~IsAck(f)
           /\ \A f \in PeerMsg : IsData(f) /\ ~IsAck(f) /\ f.kind # "SYNC"
           /\ \A f \in AckMsg : IsAck(f) /\ ~IsData(f) /\ f = Ack(f.t)
  <1>1. HostFrame \subseteq Frame /\ PeerFrame \subseteq Frame
    BY DEF HostFrame, PeerFrame, Frame
  <1>2. hostLine \in Seq(Frame)
    BY <1>1 DEF TypeOK
  <1>3. peerLine \in Seq(Frame)
    BY <1>1 DEF TypeOK
  <1> QED
    BY <1>2, <1>3, FrameKinds
       DEF Frame, IsData, IsAck, HostKinds, RequestKinds, AllPeerKinds

(* Sending a queued message: its bit is clear, so it gets send_toggle's.   *)
LEMMA SendFresh ==
    ASSUME TypeOK, NEW m \in HostMsg, m.t = 0 \/ m.t = sendToggle, SendMessage(m)
    PROVE  /\ repeatMsg' \in HostMsg
           /\ repeatMsg' # None
           /\ repeatMsg'.t = sendToggle'
           /\ repeatMsg'.kind = m.kind
           /\ repeatMsg'.id = m.id
           /\ hostLine' = hostLine \/ hostLine' = Append(hostLine, repeatMsg')
           /\ m.kind = "SYNC" => sendToggle' = 1
           /\ m.kind # "SYNC" => sendToggle' = sendToggle /\ recvToggle' = recvToggle
  <1>1. /\ Stamped(m) \in HostMsg
        /\ Stamped(m).kind = m.kind
        /\ Stamped(m).id = m.id
        /\ Stamped(m).t = IF m.kind = "SYNC" \/ sendToggle = 1 THEN 1 ELSE m.t
    BY StampedType DEF TypeOK
  <1>2. hostLine' = hostLine \/ hostLine' = Append(hostLine, Stamped(m))
    BY DEF SendMessage, Transmit
  <1>3. repeatMsg' = Stamped(m)
    BY DEF SendMessage
  <1>4. repeatMsg'.t = sendToggle'
    BY <1>1, <1>3 DEF SendMessage, TypeOK, Bit
  <1> QED
    BY <1>1, <1>2, <1>3, <1>4, FrameKinds DEF SendMessage

LEMMA PendingStep ==
    ASSUME TypeOK, PendingInv, QueueInv, [Next]_vars
    PROVE  PendingInv'
  <1>1. ASSUME UNCHANGED <<waitForAck, repeatMsg, sendToggle, repeatCount>>
        PROVE  PendingInv'
    BY <1>1 DEF PendingInv
  <1>2. ASSUME repeatMsg' = None, waitForAck' = FALSE, repeatCount' = 0
        PROVE  PendingInv'
    BY <1>2 DEF PendingInv
  <1>3. ASSUME NEW m \in HostMsg, m.t = 0 \/ m.t = sendToggle, SendMessage(m), waitForAck' = TRUE
        PROVE  PendingInv'
    BY <1>3, SendFresh DEF PendingInv
  <1>4. ASSUME NEW k \in Requests, Request(k) PROVE PendingInv'
    BY <1>1, <1>4 DEF Request, hostVars
  <1>5. CASE RecvAck \/ RecvSyncAnswer \/ RecvMsgSync \/ GiveUp
    BY <1>2, <1>5 DEF RecvAck, RecvSyncAnswer, RecvMsgSync, GiveUp
  <1>6. CASE RecvUnexpectedAck \/ RecvWrongAck \/ RecvMsg \/ RecvWrongToggle \/ RecvDone
    BY <1>1, <1>6 DEF RecvUnexpectedAck, RecvWrongAck, RecvMsg, RecvWrongToggle, RecvDone, hostVars
  <1>7. CASE SendPrio
    <2>1. Head(prioQueue) \in HostMsg /\ Head(prioQueue).t = 0
      BY <1>7, TailElems DEF SendPrio, QueueInv, TypeOK
    <2> QED
      BY <1>3, <1>7, <2>1 DEF SendPrio
  <1>8. CASE SendSec
    <2>1. Head(secQueue) \in HostMsg /\ Head(secQueue).t = 0
      BY <1>8, TailElems DEF SendSec, QueueInv, TypeOK
    <2> QED
      BY <1>3, <1>8, <2>1 DEF SendSec
  <1>9. CASE SendNothing \/ AnswerTimeout \/ TimersIdle
    BY <1>1, <1>9 DEF SendNothing, AnswerTimeout, TimersIdle
  <1>10. CASE Repeat
    <2>1. repeatMsg \in HostMsg /\ repeatMsg.t = sendToggle
      BY <1>10 DEF Repeat, TypeOK, PendingInv
    <2>2. SendMessage(repeatMsg) /\ waitForAck /\ waitForAck' = waitForAck
      BY <1>10 DEF Repeat
    <2>3. repeatMsg' # None /\ repeatMsg'.t = sendToggle'
      BY <2>1, <2>2, SendFresh
    <2> QED
      BY <2>2, <2>3 DEF PendingInv
  <1>11. CASE Peer
    BY <1>1, <1>11 DEF Peer, PeerRecvAck, PeerRecvSync, PeerRecvMsg, PeerRecvMsgSync, PeerSend,
                       PeerRepeat, hostVars
  <1>12. CASE UNCHANGED vars
    BY <1>1, <1>12 DEF vars, hostVars
  <1> QED
    BY <1>4, <1>5, <1>6, <1>7, <1>8, <1>9, <1>10, <1>11, <1>12 DEF Next, Trigger, Receive

LEMMA QueueStep ==
    ASSUME TypeOK, QueueInv, [Next]_vars
    PROVE  QueueInv'
  <1>1. ASSUME UNCHANGED <<prioQueue, secQueue, nextId>>
        PROVE  QueueInv'
    BY <1>1 DEF QueueInv
  <1>2. ASSUME NEW k \in HostKinds, k # "SYNC" \/ nextId # 1, nextId' = nextId + 1,
               \/ prioQueue' = Append(prioQueue, NewMsg(k)) /\ secQueue' = secQueue
               \/ k = "FLASH" /\ secQueue' = Append(secQueue, NewMsg(k)) /\ prioQueue' = prioQueue
        PROVE  QueueInv'
    <2>1. NewMsg(k) \in HostMsg /\ NewMsg(k).kind = k /\ NewMsg(k).id = nextId /\ NewMsg(k).t = 0
      BY NewMsgType DEF TypeOK, NewMsg
    <2>2. nextId >= 2 /\ nextId' >= 2
      BY <1>2 DEF QueueInv, TypeOK
    <2>3. CASE prioQueue' = Append(prioQueue, NewMsg(k)) /\ secQueue' = secQueue
      BY <2>1, <2>2, <2>3, AppendElems DEF QueueInv, TypeOK
    <2>4. CASE k = "FLASH" /\ secQueue' = Append(secQueue, NewMsg(k)) /\ prioQueue' = prioQueue
      BY <2>1, <2>2, <2>4, AppendElems DEF QueueInv, TypeOK
    <2> QED
      BY <1>2, <2>3, <2>4
  <1>3. ASSUME NEW f, ProcMsg(f) PROVE QueueInv'
    <2>1. "REPLY" \in HostKinds /\ "FLASH" \in HostKinds
      BY DEF HostKinds, RequestKinds
    <2>2. CASE UNCHANGED queueVars
      BY <1>1, <2>2 DEF queueVars
    <2>3. CASE f.kind = "ASK"
      BY <1>2, <1>3, <2>1, <2>3 DEF ProcMsg
    <2>4. CASE f.kind = "CHUNK"
      BY <1>2, <1>3, <2>1, <2>4 DEF ProcMsg
    <2> QED
      BY <1>3, <2>2, <2>3, <2>4 DEF ProcMsg
  <1>4. ASSUME NEW k \in Requests, Request(k) PROVE QueueInv'
    <2>1. k \in HostKinds /\ nextId # 1
      BY LinkAssumption DEF HostKinds, QueueInv, TypeOK
    <2> QED
      BY <1>2, <1>4, <2>1 DEF Request
  <1>5. CASE RecvAck \/ RecvUnexpectedAck \/ RecvWrongAck \/ RecvSyncAnswer \/ RecvWrongToggle
             \/ RecvDone
    BY <1>1, <1>5 DEF RecvAck, RecvUnexpectedAck, RecvWrongAck, RecvSyncAnswer, RecvWrongToggle,
                      RecvDone, queueVars
  <1>6. CASE RecvMsg \/ RecvMsgSync
    BY <1>3, <1>6 DEF RecvMsg, RecvMsgSync
  <1>7. CASE SendPrio
    BY <1>7, TailElems DEF SendPrio, QueueInv, TypeOK
  <1>8. CASE SendSec
    BY <1>8, TailElems DEF SendSec, QueueInv, TypeOK
  <1>9. CASE SendNothing \/ AnswerTimeout \/ TimersIdle \/ Repeat \/ GiveUp
    BY <1>1, <1>9 DEF SendNothing, AnswerTimeout, TimersIdle, Repeat, GiveUp, queueVars
  <1>10. CASE Peer
    BY <1>1, <1>10 DEF Peer, PeerRecvAck, PeerRecvSync, PeerRecvMsg, PeerRecvMsgSync, PeerSend,
                       PeerRepeat, queueVars
  <1>11. CASE UNCHANGED vars
    BY <1>1, <1>11 DEF vars, queueVars
  <1> QED
    BY <1>4, <1>5, <1>6, <1>7, <1>8, <1>9, <1>10, <1>11 DEF Next, Trigger, Receive

(* The first SYNC stays at the head of its queue until it is sent.         *)
LEMMA UnstartedStep ==
    ASSUME TypeOK, QueueInv, [Next]_vars
    PROVE  /\ Unstarted' => Unstarted
           /\ Unstarted => Unstarted' \/ SendPrio
           /\ SendPrio => ~Unstarted'
           /\ SendSec => ~Unstarted
  <1>1. ASSUME UNCHANGED prioQueue PROVE Unstarted' <=> Unstarted
    BY <1>1 DEF Unstarted
  <1>2. ASSUME NEW k \in HostKinds, prioQueue' = Append(prioQueue, NewMsg(k))
        PROVE  Unstarted' <=> Unstarted
    <2>1. NewMsg(k) \in HostMsg /\ NewMsg(k).id = nextId /\ nextId # 1
      BY NewMsgType DEF TypeOK, QueueInv
    <2>2. /\ prioQueue' # <<>>
          /\ prioQueue = <<>> => Head(prioQueue') = NewMsg(k)
          /\ prioQueue # <<>> => Head(prioQueue') = Head(prioQueue)
      <3>1. prioQueue \in Seq(HostMsg)
        BY DEF TypeOK
      <3>2. /\ Append(prioQueue, NewMsg(k)) # <<>>
            /\ prioQueue = <<>> => Head(Append(prioQueue, NewMsg(k))) = NewMsg(k)
            /\ prioQueue # <<>> => Head(Append(prioQueue, NewMsg(k))) = Head(prioQueue)
        BY Zenon, <2>1, <3>1, AppendHead
      <3> QED
        BY Zenon, <1>2, <3>2
    <2> QED
      BY <2>1, <2>2 DEF Unstarted
  <1>3. ASSUME NEW f, ProcMsg(f) PROVE Unstarted' <=> Unstarted
    BY <1>1, <1>2, <1>3 DEF ProcMsg, queueVars, HostKinds
  <1>4. SendPrio => ~Unstarted'
    <2> SUFFICES ASSUME SendPrio PROVE ~Unstarted'
      OBVIOUS
    <2>1. Tail(prioQueue) # <<>> => Head(Tail(prioQueue)) = prioQueue[2] /\ prioQueue[2].id >= 2
      BY TailElems DEF SendPrio, QueueInv, TypeOK
    <2> QED
      BY <2>1 DEF SendPrio, Unstarted
  <1>5. SendSec => ~Unstarted /\ UNCHANGED prioQueue
    BY DEF SendSec, Unstarted
  <1>6. ASSUME NEW k \in Requests, Request(k) PROVE Unstarted' <=> Unstarted
    <2>1. k \in HostKinds
      BY LinkAssumption DEF HostKinds
    <2> QED
      BY <1>1, <1>2, <1>6, <2>1 DEF Request
  <1>7. ASSUME RecvMsg \/ RecvMsgSync
        PROVE Unstarted' <=> Unstarted
    BY <1>3, <1>7 DEF RecvMsg, RecvMsgSync
  <1>8. ASSUME RecvAck \/ RecvUnexpectedAck \/ RecvWrongAck \/ RecvSyncAnswer \/ RecvWrongToggle \/ RecvDone
        PROVE Unstarted' <=> Unstarted
    BY <1>1, <1>8 DEF RecvAck, RecvUnexpectedAck, RecvWrongAck, RecvSyncAnswer, RecvWrongToggle,
                      RecvDone, queueVars
  <1>9. ASSUME SendNothing \/ AnswerTimeout \/ TimersIdle \/ Repeat \/ GiveUp
        PROVE Unstarted' <=> Unstarted
    BY <1>1, <1>9 DEF SendNothing, AnswerTimeout, TimersIdle, Repeat, GiveUp, queueVars
  <1>10. ASSUME Peer
         PROVE Unstarted' <=> Unstarted
    BY <1>1, <1>10 DEF Peer, PeerRecvAck, PeerRecvSync, PeerRecvMsg, PeerRecvMsgSync, PeerSend,
                       PeerRepeat, queueVars
  <1>11. ASSUME UNCHANGED vars
         PROVE Unstarted' <=> Unstarted
    BY <1>1, <1>11 DEF vars, queueVars
  <1> QED
    BY <1>1, <1>4, <1>5, <1>6, <1>7, <1>8, <1>9, <1>10, <1>11 DEF Next, Trigger, Receive

LEMMA StartStep ==
    ASSUME TypeOK, PendingInv, QueueInv, StartInv, [Next]_vars
    PROVE  StartInv'
  <1> SUFFICES ASSUME Unstarted' PROVE StartInv'
    BY DEF StartInv
  <1>1. /\ Unstarted /\ ~SendPrio /\ ~SendSec
        /\ skewed /\ repeatMsg = None /\ delivered = sentLog /\ ~waitForAck
        /\ \A i \in DOMAIN hostLine : IsAck(hostLine[i])
        /\ ~stale => \A i \in DOMAIN peerLine : ~IsAck(peerLine[i])
    BY UnstartedStep DEF StartInv, PendingInv
  <1>2. ASSUME NEW l \in {hostLine, Tail(hostLine)}, l = hostLine \/ hostLine # <<>>
        PROVE  \A i \in DOMAIN l : IsAck(l[i])
    <2>1. CASE l = hostLine
      BY <1>1, <1>2, <2>1
    <2>2. CASE hostLine # <<>> /\ l = Tail(hostLine)
      <3>1. \A i \in DOMAIN Tail(hostLine) : i + 1 \in DOMAIN hostLine /\ Tail(hostLine)[i] = hostLine[i + 1]
        BY <2>2, TailElems DEF TypeOK
      <3> QED
        BY Zenon, <1>1, <1>2, <2>2, <3>1
    <2> QED
      BY <1>2, <2>1, <2>2
  <1>3. ASSUME NEW b \in Bit, NEW l \in Transmit(hostLine, Ack(b))
        PROVE  \A i \in DOMAIN l : IsAck(l[i])
    <2>1. hostLine \in Seq(Frame) /\ Ack(b) \in Frame /\ IsAck(Ack(b))
      BY LineFrames, AckFrame
    <2>2. l = hostLine \/ l = Append(hostLine, Ack(b))
      BY <1>3 DEF Transmit
    <2> QED
      BY <1>1, <2>1, <2>2, AppendElems
  <1>4. ASSUME ~stale, NEW l \in {peerLine, Tail(peerLine)}, l = peerLine \/ peerLine # <<>>
        PROVE  \A i \in DOMAIN l : ~IsAck(l[i])
    <2>1. CASE l = peerLine
      BY <1>1, <1>4, <2>1
    <2>2. CASE peerLine # <<>> /\ l = Tail(peerLine)
      <3>1. \A i \in DOMAIN Tail(peerLine) : i + 1 \in DOMAIN peerLine /\ Tail(peerLine)[i] = peerLine[i + 1]
        BY <2>2, TailElems DEF TypeOK
      <3> QED
        BY Zenon, <1>1, <1>4, <2>2, <3>1
    <2> QED
      BY <1>4, <2>1, <2>2
  <1>5. ASSUME ~stale, NEW m \in PeerMsg, NEW l \in Transmit(peerLine, m)
        PROVE  \A i \in DOMAIN l : ~IsAck(l[i])
    <2>1. peerLine \in Seq(Frame) /\ m \in Frame /\ ~IsAck(m)
      BY LineFrames
    <2>2. l = peerLine \/ l = Append(peerLine, m)
      BY <1>5 DEF Transmit
    <2> QED
      BY <1>1, <1>5, <2>1, <2>2, AppendElems
  <1>6. ASSUME UNCHANGED <<skewed, delivered, sentLog, stale>>, repeatMsg' = None,
               \/ hostLine' = hostLine
               \/ hostLine # <<>> /\ hostLine' = Tail(hostLine)
               \/ \E b \in Bit : hostLine' \in Transmit(hostLine, Ack(b)),
               \/ peerLine' = peerLine
               \/ peerLine # <<>> /\ peerLine' = Tail(peerLine)
               \/ \E m \in PeerMsg : peerLine' \in Transmit(peerLine, m)
        PROVE  StartInv'
    <2>1. (\A i \in DOMAIN hostLine : IsAck(hostLine[i]))'
      BY <1>2, <1>3, <1>6
    <2>2. (~stale => \A i \in DOMAIN peerLine : ~IsAck(peerLine[i]))'
      BY <1>4, <1>5, <1>6
    <2> QED
      BY <1>1, <1>6, <2>1, <2>2 DEF StartInv
  <1>7. ASSUME NEW k \in Requests, Request(k) PROVE StartInv'
    BY <1>1, <1>6, <1>7 DEF Request, hostVars, peerVars, historyVars
  <1>8. CASE RecvUnexpectedAck \/ RecvWrongAck \/ RecvSyncAnswer \/ RecvMsgSync \/ RecvDone
             \/ SendNothing \/ AnswerTimeout \/ TimersIdle
    BY <1>1, <1>6, <1>8 DEF RecvUnexpectedAck, RecvWrongAck, RecvSyncAnswer, RecvMsgSync,
          RecvDone, SendNothing, AnswerTimeout, TimersIdle, hostVars, peerVars, historyVars
  <1>9. CASE RecvMsg \/ RecvWrongToggle
    <2>1. Head(peerLine).t \in Bit
      BY <1>9, FrameKinds DEF RecvMsg, RecvWrongToggle
    <2> QED
      BY <1>1, <1>6, <1>9, <2>1 DEF RecvMsg, RecvWrongToggle, peerVars, historyVars
  <1>10. ~RecvAck /\ ~Repeat /\ ~GiveUp
    BY <1>1 DEF RecvAck, Repeat, GiveUp
  <1>11. CASE PeerRecvAck
    BY <1>1, <1>6, <1>11 DEF PeerRecvAck, PeerFrameReady, hostVars, historyVars
  <1>12. ~PeerRecvSync /\ ~PeerRecvMsg /\ ~PeerRecvMsgSync
    <2>1. hostLine # <<>> => Head(hostLine) \notin HostMsg /\ Head(hostLine).kind # "SYNC"
      BY <1>1, TailElems, LineFrames DEF TypeOK, IsAck
    <2> QED
      BY <2>1 DEF PeerRecvSync, PeerRecvMsg, PeerRecvMsgSync, PeerFrameReady
  <1>13. ASSUME NEW k \in PeerKinds, PeerSend(k) PROVE StartInv'
    <2>1. [kind |-> k, id |-> peerNextId, t |-> peerTx] \in PeerMsg
      BY LinkAssumption DEF PeerMsg, TypeOK
    <2> QED
      BY <1>1, <1>6, <1>13, <2>1 DEF PeerSend, hostVars, historyVars
  <1>14. CASE PeerRepeat
    <2>1. [peerOut EXCEPT !.t = peerTx] \in PeerMsg
      BY <1>14 DEF PeerRepeat, PeerMsg, TypeOK
    <2> QED
      BY <1>1, <1>6, <1>14, <2>1 DEF PeerRepeat, hostVars, peerVars, historyVars
  <1>15. CASE UNCHANGED vars
    BY <1>1, <1>6, <1>15 DEF vars, hostVars, peerVars, historyVars
  <1> QED
    BY <1>1, <1>7, <1>8, <1>9, <1>10, <1>11, <1>12, <1>13, <1>14, <1>15
       DEF Next, Trigger, Receive, Peer

LEMMA ModeStep ==
    ASSUME TypeOK, PendingInv, QueueInv, StartInv, ModeInv, [Next]_vars
    PROVE  ModeInv'
  <1> DEFINE NoAnswer(l) == \A i \in DOMAIN l : l[i].kind # "SYNC_ANSWER"
             SyncBits(l) == \A i \in DOMAIN l : l[i].kind = "SYNC" => l[i].t = 1
             NoSync(l) == \A i \in DOMAIN l : l[i].kind # "SYNC"
  <1>1. ModeInv <=> /\ ~SyncPeer => ~syncMode /\ NoAnswer(peerLine)
                    /\ SyncBits(hostLine)
                    /\ repeatMsg.kind = "SYNC" => repeatMsg.t = 1
                    /\ ~skewed => ~SyncPeer /\ repeatMsg.kind # "SYNC" /\ NoSync(hostLine)
    BY DEF ModeInv
  <1>2. ModeInv' <=> /\ ~SyncPeer => ~syncMode' /\ NoAnswer(peerLine')
                     /\ SyncBits(hostLine')
                     /\ repeatMsg'.kind = "SYNC" => repeatMsg'.t = 1
                     /\ ~skewed' => ~SyncPeer /\ repeatMsg'.kind # "SYNC" /\ NoSync(hostLine')
    BY DEF ModeInv
  <1>3. ASSUME NEW l \in Seq(Frame), l # <<>>
        PROVE  /\ NoAnswer(l) => NoAnswer(Tail(l))
               /\ SyncBits(l) => SyncBits(Tail(l))
               /\ NoSync(l) => NoSync(Tail(l))
               /\ NoAnswer(l) => Head(l) # SyncAnswer
               /\ SyncBits(l) => (Head(l).kind = "SYNC" => Head(l).t = 1)
    <2>1. /\ \A i \in DOMAIN Tail(l) : i + 1 \in DOMAIN l /\ Tail(l)[i] = l[i + 1]
          /\ Head(l) = l[1] /\ 1 \in DOMAIN l
      BY <1>3, TailElems
    <2> QED
      BY <2>1, FrameKinds
  <1>4. ASSUME NEW l \in Seq(Frame), NEW f \in Frame, NEW k \in Transmit(l, f)
        PROVE  /\ NoAnswer(l) /\ f.kind # "SYNC_ANSWER" => NoAnswer(k)
               /\ SyncBits(l) /\ (f.kind = "SYNC" => f.t = 1) => SyncBits(k)
               /\ NoSync(l) /\ f.kind # "SYNC" => NoSync(k)
    <2>1. k = l \/ k = Append(l, f)
      BY <1>4 DEF Transmit
    <2>2. \A i \in DOMAIN Append(l, f) :
             \/ i \in DOMAIN l /\ Append(l, f)[i] = l[i]
             \/ i = Len(l) + 1 /\ Append(l, f)[i] = f
      BY AppendElems
    <2> QED
      BY <2>1, <2>2
  <1> HIDE DEF NoAnswer, SyncBits, NoSync
  <1>5. hostLine \in Seq(Frame) /\ peerLine \in Seq(Frame)
    BY LineFrames
  <1>6. \A b \in Bit : Ack(b) \in Frame /\ Ack(b).kind = "ACK"
    BY AckFrame, FrameKinds
  <1>7. ASSUME NEW k \in Requests, Request(k) PROVE ModeInv'
    BY <1>1, <1>2, <1>7 DEF Request, hostVars, historyVars
  <1>8. CASE RecvAck \/ RecvUnexpectedAck \/ RecvWrongAck
    BY <1>1, <1>2, <1>3, <1>5, <1>8, FrameKinds
       DEF RecvAck, RecvUnexpectedAck, RecvWrongAck, hostVars, historyVars
  <1>9. CASE RecvSyncAnswer
    <2>1. SyncPeer /\ skewed
      BY <1>1, <1>3, <1>5, <1>9 DEF RecvSyncAnswer
    <2> QED
      BY <1>1, <1>2, <1>9, <2>1, FrameKinds DEF RecvSyncAnswer, historyVars
  <1>10. CASE RecvMsg \/ RecvWrongToggle
    <2>1. Head(peerLine).t \in Bit
      BY <1>10, FrameKinds DEF RecvMsg, RecvWrongToggle
    <2>2. /\ ~SyncPeer => NoAnswer(peerLine')
          /\ SyncBits(hostLine')
          /\ ~skewed => NoSync(hostLine')
      BY <1>1, <1>3, <1>4, <1>5, <1>6, <1>10, <2>1 DEF RecvMsg, RecvWrongToggle
    <2> QED
      BY <1>1, <1>2, <1>10, <2>2 DEF RecvMsg, RecvWrongToggle, historyVars
  <1>11. CASE RecvMsgSync
    BY <1>1, <1>2, <1>3, <1>5, <1>11, FrameKinds DEF RecvMsgSync
  <1>12. CASE RecvDone \/ SendNothing \/ AnswerTimeout \/ TimersIdle
    BY <1>1, <1>2, <1>12 DEF RecvDone, SendNothing, AnswerTimeout, TimersIdle, historyVars
  <1>13. ASSUME NEW m \in HostMsg, m.t = 0 \/ m.t = sendToggle, SendMessage(m),
                UNCHANGED <<syncMode, peerLine>>
         PROVE  ModeInv'
    <2>1. /\ Stamped(m) \in Frame /\ Stamped(m).kind = m.kind
          /\ m.kind = "SYNC" => Stamped(m).t = 1
      BY StampedType, LineFrames DEF TypeOK
    <2>2. /\ SyncBits(hostLine')
          /\ ~skewed' => NoSync(hostLine') /\ ~SyncPeer
      BY <1>1, <1>4, <1>5, <1>13, <2>1 DEF SendMessage
    <2>3. /\ ~skewed' => repeatMsg'.kind # "SYNC"
          /\ repeatMsg'.kind = "SYNC" => repeatMsg'.t = 1
      BY <1>13, <2>1 DEF SendMessage
    <2> QED
      BY <1>1, <1>2, <1>13, <2>2, <2>3
  <1>14. CASE SendPrio
    <2>1. Head(prioQueue) \in HostMsg /\ Head(prioQueue).t = 0
      BY <1>14, TailElems DEF SendPrio, QueueInv, TypeOK
    <2> QED
      BY <1>13, <1>14, <2>1 DEF SendPrio
  <1>15. CASE SendSec
    <2>1. Head(secQueue) \in HostMsg /\ Head(secQueue).t = 0
      BY <1>15, TailElems DEF SendSec, QueueInv, TypeOK
    <2> QED
      BY <1>13, <1>15, <2>1 DEF SendSec
  <1>16. CASE Repeat
    <2>1. repeatMsg \in HostMsg /\ repeatMsg.t = sendToggle
      BY <1>16 DEF Repeat, TypeOK, PendingInv
    <2> QED
      BY <1>13, <1>16, <2>1 DEF Repeat
  <1>17. CASE GiveUp
    BY <1>1, <1>2, <1>17, FrameKinds DEF GiveUp
  <1>18. CASE PeerRecvAck
    BY <1>1, <1>2, <1>3, <1>5, <1>18 DEF PeerRecvAck, PeerFrameReady, hostVars, historyVars
  <1>19. CASE PeerRecvSync
    <2>1. Head(hostLine).t \in Bit
      BY <1>3, <1>5, <1>19, <1>1 DEF PeerRecvSync, PeerFrameReady, Bit
    <2>2. ~SyncPeer => NoAnswer(peerLine')
      BY <1>1, <1>4, <1>5, <1>6, <1>19, <2>1 DEF PeerRecvSync
    <2>3. SyncBits(hostLine') /\ (~skewed => NoSync(hostLine'))
      BY <1>1, <1>3, <1>5, <1>19 DEF PeerRecvSync, PeerFrameReady
    <2> QED
      BY <1>1, <1>2, <1>19, <2>2, <2>3 DEF PeerRecvSync, hostVars, historyVars
  <1>20. CASE PeerRecvMsg
    <2>1. Head(hostLine).t \in Bit
      BY <1>20, FrameKinds DEF PeerRecvMsg
    <2>2. NoAnswer(peerLine')
      BY <1>1, <1>4, <1>5, <1>6, <1>20, <2>1 DEF PeerRecvMsg
    <2>3. SyncBits(hostLine') /\ (~skewed => NoSync(hostLine'))
      BY <1>1, <1>3, <1>5, <1>20 DEF PeerRecvMsg, PeerFrameReady
    <2> QED
      BY <1>1, <1>2, <1>20, <2>2, <2>3 DEF PeerRecvMsg, hostVars, historyVars
  <1>21. CASE PeerRecvMsgSync
    BY <1>1, <1>2, <1>3, <1>5, <1>21 DEF PeerRecvMsgSync, PeerFrameReady, hostVars, historyVars
  <1>22. ASSUME NEW m \in PeerMsg, peerLine' \in Transmit(peerLine, m),
                UNCHANGED <<hostVars, hostLine, historyVars>>
         PROVE  ModeInv'
    <2>1. m \in Frame /\ m.kind # "SYNC_ANSWER"
      BY LineFrames, FrameKinds DEF AllPeerKinds
    <2> QED
      BY <1>1, <1>2, <1>4, <1>5, <1>22, <2>1 DEF hostVars, historyVars
  <1>23. ASSUME NEW k \in PeerKinds, PeerSend(k) PROVE ModeInv'
    <2>1. [kind |-> k, id |-> peerNextId, t |-> peerTx] \in PeerMsg
      BY LinkAssumption DEF PeerMsg, TypeOK
    <2> QED
      BY <1>22, <1>23, <2>1 DEF PeerSend
  <1>24. CASE PeerRepeat
    <2>1. [peerOut EXCEPT !.t = peerTx] \in PeerMsg
      BY <1>24 DEF PeerRepeat, PeerMsg, TypeOK
    <2> QED
      BY <1>22, <1>24, <2>1 DEF PeerRepeat
  <1>25. CASE UNCHANGED vars
    BY <1>1, <1>2, <1>25 DEF vars, hostVars, historyVars
  <1> QED
    BY <1>7, <1>8, <1>9, <1>10, <1>11, <1>12, <1>14, <1>15, <1>16, <1>17, <1>18, <1>19,
       <1>20, <1>21, <1>23, <1>24, <1>25 DEF Next, Trigger, Receive, Peer

(* The direction from the host to the controller.                          *)
LEMMA HostStep ==
    ASSUME TypeOK, LinkInv, [Next]_vars
    PROVE  HostAlternates'
  <1> DEFINE Goal == Alternating(sendToggle', repeatMsg', peerRx', hostLine', peerLine',
                                 delivered', sentLog')
  <1>1. SUFFICES ASSUME ~stale', ~SyncPeer, ~Unstarted' PROVE Goal
    BY DEF HostAlternates
  <1>2. PendingInv /\ QueueInv /\ StartInv /\ ModeInv /\ HostAlternates
    BY DEF LinkInv
  <1>3. hostLine \in Seq(Frame) /\ peerLine \in Seq(Frame)
    BY LineFrames
  <1>4. sendToggle \in Bit /\ peerRx \in Bit
    BY DEF TypeOK
  <1>5. CASE SendPrio
    <2> DEFINE m == Head(prioQueue)
    <2>1. m \in HostMsg /\ m.t = 0 /\ SendMessage(m) /\ LogSent(m) /\ ~stale /\ repeatMsg = None
      BY <1>1, <1>2, <1>5, TailElems DEF SendPrio, QueueInv, PendingInv, TypeOK
    <2>2. /\ repeatMsg' \in Frame /\ IsData(repeatMsg') /\ repeatMsg' # None
          /\ repeatMsg'.t = sendToggle' /\ repeatMsg'.kind = m.kind /\ repeatMsg'.id = m.id
          /\ hostLine' \in {hostLine, Append(hostLine, repeatMsg')}
          /\ m.kind = "SYNC" => sendToggle' = 1
          /\ m.kind # "SYNC" => sendToggle' = sendToggle
      BY <2>1, SendFresh, LineFrames
    <2>3. UNCHANGED <<peerRx, peerLine, delivered>>
      BY <1>5 DEF SendPrio, peerVars
    <2>4. m.kind = "SYNC" => sentLog' = sentLog
      BY <2>1 DEF LogSent
    <2>5. m.kind # "SYNC" => sentLog' = Append(sentLog, repeatMsg'.id)
      BY <2>1, <2>2 DEF LogSent
    <2>6. CASE Unstarted
      <3>1. /\ m.kind = "SYNC" /\ delivered = sentLog
            /\ \A i \in DOMAIN hostLine : IsAck(hostLine[i])
            /\ \A i \in DOMAIN peerLine : ~IsAck(peerLine[i])
        BY <1>2, <2>1, <2>6, TailElems DEF StartInv, QueueInv, Unstarted, TypeOK
      <3>2. DataAll(hostLine, 1) /\ DataCopies(hostLine, 1, repeatMsg')
        BY <3>1 DEF DataAll, DataCopies, IsData, IsAck
      <3>3. AckAll(peerLine, 0) /\ AckSorted(peerLine, 1)
        BY <3>1 DEF AckAll, AckSorted
      <3>4. sendToggle' = 1 /\ repeatMsg'.t = 1 /\ repeatMsg'.kind = "SYNC"
        BY <2>2, <3>1
      <3>5. DataAll(hostLine', 1) /\ DataCopies(hostLine', 1, repeatMsg')
        BY <1>3, <2>2, <3>2, <3>4, AppendLine
      <3>6. DataSorted(hostLine', 1)
        BY <3>5 DEF DataSorted, DataAll
      <3>7. /\ peerRx' # 1 => DataAll(hostLine', 1) /\ delivered' = sentLog'
            /\ peerRx' = 1 => AckAll(peerLine', 1 - 1) /\ delivered' = sentLog'
        BY <2>3, <2>4, <3>1, <3>3, <3>5
      <3> QED
        BY <2>2, <2>3, <3>3, <3>4, <3>5, <3>6, <3>7 DEF Alternating
    <2>7. CASE ~Unstarted
      <3>1. Alternating(sendToggle, None, peerRx, hostLine, peerLine, delivered, sentLog)
        BY <1>1, <1>2, <2>1, <2>7 DEF HostAlternates
      <3>2. CASE m.kind = "SYNC"
        <4>1. repeatMsg'.t = 1 /\ repeatMsg'.kind = "SYNC" /\ sendToggle' = 1
          BY <2>2, <3>2
        <4>2. Alternating(1, repeatMsg', peerRx, hostLine', peerLine, delivered, sentLog)
          <5>1. /\ repeatMsg' \in Frame /\ IsData(repeatMsg') /\ repeatMsg' # None
                /\ hostLine' \in {hostLine, Append(hostLine, repeatMsg')}
            BY <2>2
          <5>2. /\ sendToggle \in Bit /\ peerRx \in Bit
                /\ hostLine \in Seq(Frame) /\ peerLine \in Seq(Frame)
            BY <1>3, <1>4
          <5> HIDE DEF m
          <5> QED
            BY <3>1, <4>1, <5>1, <5>2, AltSendSync
        <4> QED
          BY <2>3, <2>4, <3>2, <4>1, <4>2
      <3>3. CASE m.kind # "SYNC"
        <4>1. Alternating(sendToggle, repeatMsg', peerRx, hostLine', peerLine, delivered,
                          Append(sentLog, repeatMsg'.id))
          BY <1>3, <1>4, <2>2, <3>1, <3>3, AltSend
        <4> QED
          BY <2>2, <2>3, <2>5, <3>3, <4>1
      <3> QED
        BY <3>2, <3>3
    <2> QED
      BY <2>6, <2>7
  <1>6. SUFFICES ASSUME ~SendPrio PROVE Goal
    BY <1>5
  <1>7. ~Unstarted
    BY <1>1, <1>2, <1>6, UnstartedStep
  <1>8. ASSUME ~stale
        PROVE  Alternating(sendToggle, repeatMsg, peerRx, hostLine, peerLine, delivered, sentLog)
    BY <1>1, <1>2, <1>7, <1>8 DEF HostAlternates
  <1>9. ASSUME UNCHANGED <<sendToggle, repeatMsg, peerRx, hostLine, peerLine, delivered, sentLog, stale>>
        PROVE  Goal
    BY <1>1, <1>8, <1>9
  <1>10. ASSUME NEW k \in Requests, Request(k) PROVE Goal
    BY <1>9, <1>10 DEF Request, hostVars, peerVars, historyVars
  <1>11. CASE RecvDone \/ SendNothing \/ AnswerTimeout \/ TimersIdle
    BY <1>9, <1>11 DEF RecvDone, SendNothing, AnswerTimeout, TimersIdle, peerVars, historyVars
  <1>12. CASE UNCHANGED vars
    BY <1>9, <1>12 DEF vars, hostVars, peerVars, historyVars
  <1>13. CASE RecvAck
    <2>1. Alternating(1 - sendToggle, None, peerRx, hostLine, Tail(peerLine), delivered, sentLog)
      BY <1>1, <1>3, <1>4, <1>8, <1>13, AltAck DEF RecvAck, historyVars
    <2> QED
      BY <1>13, <2>1 DEF RecvAck, peerVars, historyVars
  <1>14. CASE RecvUnexpectedAck \/ RecvWrongAck
    <2>1. Alternating(sendToggle, repeatMsg, peerRx, hostLine, Tail(peerLine), delivered, sentLog)
      BY <1>1, <1>3, <1>4, <1>8, <1>14, AltTailAck
         DEF RecvUnexpectedAck, RecvWrongAck, historyVars
    <2> QED
      BY <1>14, <2>1 DEF RecvUnexpectedAck, RecvWrongAck, hostVars, peerVars, historyVars
  <1>15. ~RecvSyncAnswer /\ ~RecvMsgSync /\ ~GiveUp /\ ~PeerRecvMsgSync
    <2>1. ~syncMode /\ (peerLine # <<>> => Head(peerLine) # SyncAnswer)
      BY <1>1, <1>2, <1>3, TailElems, FrameKinds DEF ModeInv
    <2> QED
      BY <1>1, <2>1 DEF RecvSyncAnswer, RecvMsgSync, GiveUp, PeerRecvMsgSync
  <1>16. CASE RecvMsg \/ RecvWrongToggle
    <2>1. /\ peerLine # <<>> /\ peerLine' = Tail(peerLine) /\ Head(peerLine).t \in Bit
          /\ hostLine' \in Transmit(hostLine, Ack(Head(peerLine).t))
          /\ UNCHANGED <<sendToggle, repeatMsg, peerRx, delivered, sentLog, stale>>
      BY <1>16, FrameKinds DEF RecvMsg, RecvWrongToggle, peerVars, historyVars
    <2>2. Alternating(sendToggle, repeatMsg, peerRx, hostLine, Tail(peerLine), delivered, sentLog)
      BY <1>1, <1>3, <1>4, <1>8, <2>1, AltTailAck
    <2>3. Ack(Head(peerLine).t) \in Frame /\ ~IsData(Ack(Head(peerLine).t))
      BY <2>1, AckFrame
    <2>4. Alternating(sendToggle, repeatMsg, peerRx, Append(hostLine, Ack(Head(peerLine).t)),
                      Tail(peerLine), delivered, sentLog)
      <3>1. Tail(peerLine) \in Seq(Frame)
        BY <1>3, <2>1, TailElems
      <3> QED
        BY <1>3, <1>4, <2>2, <2>3, <3>1, AltForeignAck
    <2>5. hostLine' = hostLine \/ hostLine' = Append(hostLine, Ack(Head(peerLine).t))
      BY <2>1 DEF Transmit
    <2> QED
      BY <2>1, <2>2, <2>4, <2>5
  <1>17. CASE SendSec
    <2> DEFINE m == Head(secQueue)
    <2>1. /\ m \in HostMsg /\ m.t = 0 /\ m.kind = "FLASH" /\ SendMessage(m) /\ LogSent(m)
          /\ ~stale /\ repeatMsg = None
      BY <1>1, <1>2, <1>17, TailElems DEF SendSec, QueueInv, PendingInv, TypeOK
    <2>2. /\ repeatMsg' \in Frame /\ IsData(repeatMsg') /\ repeatMsg' # None
          /\ repeatMsg'.t = sendToggle' /\ repeatMsg'.kind = "FLASH" /\ repeatMsg'.id = m.id
          /\ hostLine' \in {hostLine, Append(hostLine, repeatMsg')}
          /\ sendToggle' = sendToggle
      BY <2>1, SendFresh, LineFrames
    <2>3. sentLog' = Append(sentLog, repeatMsg'.id)
      BY <2>1, <2>2 DEF LogSent
    <2>4. Alternating(sendToggle, None, peerRx, hostLine, peerLine, delivered, sentLog)
      BY <1>8, <2>1
    <2>5. Alternating(sendToggle, repeatMsg', peerRx, hostLine', peerLine, delivered,
                      Append(sentLog, repeatMsg'.id))
      BY <1>3, <1>4, <2>2, <2>4, AltSend
    <2>6. UNCHANGED <<peerRx, peerLine, delivered>>
      BY <1>17 DEF SendSec, peerVars
    <2> QED
      BY <2>2, <2>3, <2>5, <2>6
  <1>18. CASE Repeat
    <2>1. /\ repeatMsg \in HostMsg /\ repeatMsg # None /\ repeatMsg.t = sendToggle
          /\ repeatMsg.kind = "SYNC" => repeatMsg.t = 1
          /\ SendMessage(repeatMsg) /\ ~stale
      BY <1>1, <1>2, <1>18 DEF Repeat, PendingInv, ModeInv, TypeOK
    <2>2. Stamped(repeatMsg) = repeatMsg
      BY <1>4, <2>1 DEF Stamped, HostMsg, Bit
    <2>3. /\ hostLine' \in {hostLine, Append(hostLine, repeatMsg)}
          /\ repeatMsg' = repeatMsg /\ sendToggle' = sendToggle
      BY <2>1, <2>2 DEF SendMessage, Transmit
    <2>4. Alternating(sendToggle, repeatMsg, peerRx, hostLine', peerLine, delivered, sentLog)
      <3>1. repeatMsg \in Frame
        BY <2>1, LineFrames
      <3> QED
        BY <1>3, <1>4, <1>8, <2>1, <2>3, <3>1, AltRepeat
    <2>5. UNCHANGED <<peerRx, peerLine, delivered, sentLog>>
      BY <1>18 DEF Repeat, peerVars
    <2> QED
      BY <2>3, <2>4, <2>5
  <1>19. CASE PeerRecvAck
    <2>1. Alternating(sendToggle, repeatMsg, peerRx, Tail(hostLine), peerLine, delivered, sentLog)
      BY <1>1, <1>3, <1>4, <1>8, <1>19, AltTailData DEF PeerRecvAck, PeerFrameReady, historyVars
    <2> QED
      BY <1>19, <2>1 DEF PeerRecvAck, hostVars, historyVars
  <1>20. CASE PeerRecvSync
    <2>1. /\ hostLine # <<>> /\ Head(hostLine).kind = "SYNC" /\ IsData(Head(hostLine))
          /\ Head(hostLine).t = 1
      BY <1>2, <1>3, <1>20, TailElems DEF PeerRecvSync, PeerFrameReady, ModeInv, IsData
    <2>2. peerLine' \in {peerLine, Append(peerLine, Ack(Head(hostLine).t))}
      BY <1>1, <1>20 DEF PeerRecvSync, Transmit
    <2>3. Alternating(sendToggle, repeatMsg, 0, Tail(hostLine), peerLine', delivered, sentLog)
      BY <1>1, <1>3, <1>4, <1>8, <1>20, <2>1, <2>2, AltAcceptSync DEF PeerRecvSync, historyVars
    <2> QED
      BY <1>20, <2>3 DEF PeerRecvSync, hostVars, historyVars
  <1>21. CASE PeerRecvMsg
    <2>1. /\ hostLine # <<>> /\ Head(hostLine).kind # "SYNC" /\ IsData(Head(hostLine))
          /\ hostLine' = Tail(hostLine)
      BY <1>21, LineFrames DEF PeerRecvMsg, PeerFrameReady
    <2>2. peerLine' \in {peerLine, Append(peerLine, Ack(Head(hostLine).t))}
      BY <1>21 DEF PeerRecvMsg, Transmit
    <2>3. UNCHANGED <<sendToggle, repeatMsg, sentLog, stale>>
      BY <1>21 DEF PeerRecvMsg, hostVars, historyVars
    <2>4. CASE Head(hostLine).t = peerRx
      <3>1. Alternating(sendToggle, repeatMsg, 1 - peerRx, Tail(hostLine), peerLine',
                        Append(delivered, Head(hostLine).id), sentLog)
        BY <1>1, <1>3, <1>4, <1>8, <2>1, <2>2, <2>3, <2>4, AltAccept
      <3> QED
        BY <1>21, <2>1, <2>3, <2>4, <3>1 DEF PeerRecvMsg
    <2>5. CASE Head(hostLine).t # peerRx
      <3>1. Alternating(sendToggle, repeatMsg, peerRx, Tail(hostLine), peerLine', delivered, sentLog)
        BY <1>1, <1>3, <1>4, <1>8, <2>1, <2>2, <2>3, <2>5, AltDuplicate
      <3> QED
        BY <1>21, <2>1, <2>3, <2>5, <3>1 DEF PeerRecvMsg
    <2> QED
      BY <2>4, <2>5
  <1>22. ASSUME NEW m \in PeerMsg, peerLine' \in Transmit(peerLine, m),
                UNCHANGED <<hostVars, hostLine, peerRx, delivered, historyVars>>
         PROVE  Goal
    <2>1. m \in Frame /\ ~IsAck(m)
      BY LineFrames
    <2>2. UNCHANGED <<sendToggle, repeatMsg, hostLine, peerRx, delivered, sentLog, stale>>
      BY <1>22 DEF hostVars, historyVars
    <2>3. Alternating(sendToggle, repeatMsg, peerRx, hostLine, peerLine, delivered, sentLog)
      BY <1>1, <1>8, <2>2
    <2>4. Alternating(sendToggle, repeatMsg, peerRx, hostLine, Append(peerLine, m), delivered, sentLog)
      BY <1>3, <1>4, <2>1, <2>3, AltForeignData
    <2>5. peerLine' = peerLine \/ peerLine' = Append(peerLine, m)
      BY <1>22 DEF Transmit
    <2> QED
      BY <2>2, <2>3, <2>4, <2>5
  <1>23. ASSUME NEW k \in PeerKinds, PeerSend(k) PROVE Goal
    <2>1. [kind |-> k, id |-> peerNextId, t |-> peerTx] \in PeerMsg
      BY LinkAssumption DEF PeerMsg, TypeOK
    <2> QED
      BY <1>22, <1>23, <2>1 DEF PeerSend
  <1>24. CASE PeerRepeat
    <2>1. [peerOut EXCEPT !.t = peerTx] \in PeerMsg
      BY <1>24 DEF PeerRepeat, PeerMsg, TypeOK
    <2> QED
      BY <1>22, <1>24, <2>1 DEF PeerRepeat, peerVars
  <1> QED
    BY <1>6, <1>10, <1>11, <1>12, <1>13, <1>14, <1>15, <1>16, <1>17, <1>18, <1>19, <1>20,
       <1>21, <1>23, <1>24 DEF Next, Trigger, Receive, Peer

(* The direction from the controller to the host.                          *)
LEMMA PeerStep ==
    ASSUME TypeOK, LinkInv, [Next]_vars
    PROVE  PeerAlternates'
  <1> DEFINE Goal == Alternating(peerTx', peerOut', recvToggle', peerLine', hostLine', taken',
                                 peerSentLog')
  <1>1. SUFFICES ASSUME ~skewed' PROVE Goal
    BY DEF PeerAlternates
  <1>2. PendingInv /\ QueueInv /\ ModeInv /\ PeerAlternates
    BY DEF LinkInv
  <1>3. hostLine \in Seq(Frame) /\ peerLine \in Seq(Frame)
    BY LineFrames
  <1>4. peerTx \in Bit /\ recvToggle \in Bit
    BY DEF TypeOK
  <1>5. ASSUME ~skewed
        PROVE  /\ Alternating(peerTx, peerOut, recvToggle, peerLine, hostLine, taken, peerSentLog)
               /\ ~SyncPeer /\ ~syncMode /\ repeatMsg.kind # "SYNC"
               /\ \A i \in DOMAIN hostLine : hostLine[i].kind # "SYNC"
               /\ \A i \in DOMAIN peerLine : peerLine[i].kind # "SYNC_ANSWER"
    BY <1>2, <1>5 DEF PeerAlternates, ModeInv
  <1>6. ASSUME UNCHANGED <<peerTx, peerOut, recvToggle, peerLine, hostLine, taken, peerSentLog, skewed>>
        PROVE  Goal
    BY <1>1, <1>5, <1>6
  <1>7. ASSUME NEW k \in Requests, Request(k) PROVE Goal
    BY <1>6, <1>7 DEF Request, hostVars, peerVars, historyVars
  <1>8. CASE RecvDone \/ SendNothing \/ AnswerTimeout \/ TimersIdle \/ GiveUp
    BY <1>6, <1>8 DEF RecvDone, SendNothing, AnswerTimeout, TimersIdle, GiveUp, peerVars, historyVars
  <1>9. CASE UNCHANGED vars
    BY <1>6, <1>9 DEF vars, hostVars, peerVars, historyVars
  <1>10. CASE RecvAck \/ RecvUnexpectedAck \/ RecvWrongAck
    <2>1. /\ peerLine # <<>> /\ peerLine' = Tail(peerLine)
          /\ UNCHANGED <<peerTx, peerOut, recvToggle, hostLine, taken, peerSentLog, skewed>>
      BY <1>10 DEF RecvAck, RecvUnexpectedAck, RecvWrongAck, hostVars, peerVars, historyVars
    <2>2. Alternating(peerTx, peerOut, recvToggle, Tail(peerLine), hostLine, taken, peerSentLog)
      BY <1>1, <1>3, <1>4, <1>5, <2>1, AltTailData
    <2> QED
      BY <2>1, <2>2
  <1>11. ~RecvSyncAnswer /\ ~RecvMsgSync /\ ~PeerRecvSync /\ ~PeerRecvMsgSync
    <2>1. RecvSyncAnswer \/ RecvMsgSync \/ PeerRecvSync \/ PeerRecvMsgSync => ~skewed
      BY <1>1 DEF RecvSyncAnswer, RecvMsgSync, PeerRecvSync, PeerRecvMsgSync, historyVars
    <2>2. ASSUME ~skewed PROVE peerLine # <<>> => Head(peerLine) # SyncAnswer
      BY <1>3, <1>5, <2>2, TailElems, FrameKinds
    <2>3. ASSUME ~skewed PROVE hostLine # <<>> => Head(hostLine).kind # "SYNC"
      BY <1>3, <1>5, <2>3, TailElems
    <2> QED
      BY <1>5, <2>1, <2>2, <2>3
         DEF RecvSyncAnswer, RecvMsgSync, PeerRecvSync, PeerRecvMsgSync, PeerFrameReady
  <1>12. CASE RecvMsg \/ RecvWrongToggle
    <2>1. /\ peerLine # <<>> /\ peerLine' = Tail(peerLine) /\ IsData(Head(peerLine))
          /\ Head(peerLine).kind # "SYNC"
          /\ hostLine' \in {hostLine, Append(hostLine, Ack(Head(peerLine).t))}
          /\ UNCHANGED <<peerTx, peerOut, peerSentLog, skewed>>
      BY <1>12, LineFrames DEF RecvMsg, RecvWrongToggle, Transmit, peerVars, historyVars
    <2>2. CASE RecvMsg
      <3>1. /\ Head(peerLine).t = recvToggle /\ recvToggle' = 1 - recvToggle
            /\ taken' = Append(taken, Head(peerLine).id)
        BY <2>2 DEF RecvMsg
      <3>2. Alternating(peerTx, peerOut, 1 - recvToggle, Tail(peerLine), hostLine',
                        Append(taken, Head(peerLine).id), peerSentLog)
        BY <1>1, <1>3, <1>4, <1>5, <2>1, <3>1, AltAccept
      <3> QED
        BY <2>1, <3>1, <3>2
    <2>3. CASE RecvWrongToggle
      <3>1. Head(peerLine).t # recvToggle /\ UNCHANGED <<recvToggle, taken>>
        BY <2>3 DEF RecvWrongToggle, historyVars
      <3>2. Alternating(peerTx, peerOut, recvToggle, Tail(peerLine), hostLine', taken, peerSentLog)
        BY <1>1, <1>3, <1>4, <1>5, <2>1, <3>1, AltDuplicate
      <3> QED
        BY <2>1, <3>1, <3>2
    <2> QED
      BY <1>12, <2>2, <2>3
  <1>13. ASSUME NEW m \in HostMsg, m.t = 0 \/ m.t = sendToggle, SendMessage(m),
                UNCHANGED <<peerLine, peerVars, taken>>
         PROVE  Goal
    <2>1. m.kind # "SYNC" /\ ~skewed
      BY <1>1, <1>13 DEF SendMessage
    <2>2. /\ repeatMsg' \in Frame /\ ~IsAck(repeatMsg') /\ recvToggle' = recvToggle
          /\ hostLine' = hostLine \/ hostLine' = Append(hostLine, repeatMsg')
      BY <1>13, <2>1, SendFresh, LineFrames
    <2>3. Alternating(peerTx, peerOut, recvToggle, peerLine, Append(hostLine, repeatMsg'), taken,
                      peerSentLog)
      BY <1>3, <1>4, <1>5, <2>1, <2>2, AltForeignData
    <2> QED
      BY <1>5, <1>13, <2>1, <2>2, <2>3 DEF peerVars
  <1>14. CASE SendPrio
    <2>1. Head(prioQueue) \in HostMsg /\ Head(prioQueue).t = 0
      BY <1>2, <1>14, TailElems DEF SendPrio, QueueInv, TypeOK
    <2> QED
      BY <1>13, <1>14, <2>1 DEF SendPrio
  <1>15. CASE SendSec
    <2>1. Head(secQueue) \in HostMsg /\ Head(secQueue).t = 0
      BY <1>2, <1>15, TailElems DEF SendSec, QueueInv, TypeOK
    <2> QED
      BY <1>13, <1>15, <2>1 DEF SendSec
  <1>16. CASE Repeat
    <2>1. repeatMsg \in HostMsg /\ repeatMsg.t = sendToggle
      BY <1>2, <1>16 DEF Repeat, PendingInv, TypeOK
    <2> QED
      BY <1>13, <1>16, <2>1 DEF Repeat
  <1>17. CASE PeerRecvAck
    <2>1. /\ hostLine # <<>> /\ hostLine' = Tail(hostLine) /\ Head(hostLine) = Ack(Head(hostLine).t)
          /\ UNCHANGED <<recvToggle, peerLine, taken, peerSentLog, skewed>>
      BY <1>17, LineFrames DEF PeerRecvAck, PeerFrameReady, hostVars, historyVars
    <2>2. CASE peerOut # None /\ Head(hostLine).t = peerTx
      <3>1. Alternating(1 - peerTx, None, recvToggle, peerLine, Tail(hostLine), taken, peerSentLog)
        BY <1>1, <1>3, <1>4, <1>5, <2>1, <2>2, AltAck
      <3> QED
        BY <1>17, <2>1, <2>2, <3>1 DEF PeerRecvAck
    <2>3. CASE ~(peerOut # None /\ Head(hostLine).t = peerTx)
      <3>1. Alternating(peerTx, peerOut, recvToggle, peerLine, Tail(hostLine), taken, peerSentLog)
        BY <1>1, <1>3, <1>4, <1>5, <2>1, AltTailAck
      <3>2. UNCHANGED <<peerOut, peerTx>>
        BY <1>17, <2>3 DEF PeerRecvAck
      <3> QED
        BY <2>1, <3>1, <3>2
    <2> QED
      BY <2>2, <2>3
  <1>18. CASE PeerRecvMsg
    <2>1. /\ hostLine # <<>> /\ hostLine' = Tail(hostLine) /\ Head(hostLine).t \in Bit
          /\ peerLine' = peerLine \/ peerLine' = Append(peerLine, Ack(Head(hostLine).t))
          /\ UNCHANGED <<peerTx, peerOut, recvToggle, taken, peerSentLog, skewed>>
      BY <1>18, FrameKinds DEF PeerRecvMsg, PeerFrameReady, Transmit, hostVars, historyVars
    <2>2. Alternating(peerTx, peerOut, recvToggle, peerLine, Tail(hostLine), taken, peerSentLog)
      BY <1>1, <1>3, <1>4, <1>5, <2>1, AltTailAck
    <2>3. /\ Ack(Head(hostLine).t) \in Frame /\ ~IsData(Ack(Head(hostLine).t))
          /\ Tail(hostLine) \in Seq(Frame)
      BY <1>3, <2>1, AckFrame, TailElems
    <2>4. Alternating(peerTx, peerOut, recvToggle, Append(peerLine, Ack(Head(hostLine).t)),
                      Tail(hostLine), taken, peerSentLog)
      BY <1>3, <1>4, <2>2, <2>3, AltForeignAck
    <2> QED
      BY <2>1, <2>2, <2>4
  <1>19. ASSUME NEW k \in PeerKinds, PeerSend(k) PROVE Goal
    <2> DEFINE m == [kind |-> k, id |-> peerNextId, t |-> peerTx]
    <2>1. m \in PeerMsg /\ m.t = peerTx /\ m.id = peerNextId
      BY LinkAssumption DEF PeerMsg, TypeOK
    <2>2. /\ peerOut = None /\ peerOut' = m /\ peerLine' \in {peerLine, Append(peerLine, m)}
          /\ peerSentLog' = Append(peerSentLog, m.id)
          /\ UNCHANGED <<hostLine, peerTx, recvToggle, taken, skewed>>
      BY <1>19, <2>1 DEF PeerSend, Transmit, hostVars, historyVars
    <2>3. m \in Frame /\ IsData(m) /\ m # None /\ m.kind # "SYNC"
      BY <2>1, LineFrames, FrameKinds
    <2> HIDE DEF m
    <2>4. Alternating(peerTx, m, recvToggle, peerLine', hostLine, taken, Append(peerSentLog, m.id))
      BY <1>1, <1>3, <1>4, <1>5, <2>1, <2>2, <2>3, AltSend
    <2> QED
      BY <2>2, <2>4
  <1>20. CASE PeerRepeat
    <2> DEFINE m == [peerOut EXCEPT !.t = peerTx]
    <2>1. /\ m \in PeerMsg /\ m.t = peerTx /\ m.kind = peerOut.kind /\ m.id = peerOut.id
          /\ peerOut # None
      BY <1>20 DEF PeerRepeat, PeerMsg, TypeOK
    <2>2. /\ peerLine' \in {peerLine, Append(peerLine, m)}
          /\ UNCHANGED <<peerOut, hostLine, peerTx, recvToggle, taken, peerSentLog, skewed>>
      BY <1>20 DEF PeerRepeat, Transmit, hostVars, peerVars, historyVars
    <2>3. m \in Frame
      BY <2>1, LineFrames
    <2> HIDE DEF m
    <2>4. Alternating(peerTx, peerOut, recvToggle, peerLine', hostLine, taken, peerSentLog)
      BY <1>1, <1>3, <1>4, <1>5, <2>1, <2>2, <2>3, AltRepeat
    <2> QED
      BY <2>2, <2>4
  <1> QED
    BY <1>7, <1>8, <1>9, <1>10, <1>11, <1>12, <1>14, <1>15, <1>16, <1>17, <1>18, <1>19, <1>20
       DEF Next, Trigger, Receive, Peer

-----------------------------------------------------------------------------
(* The theorems.                                                           *)

LEMMA InitLink == Init => LinkInv
  <1> SUFFICES ASSUME Init PROVE LinkInv
    OBVIOUS
  <1>1. PendingInv
    BY FrameKinds DEF Init, PendingInv
  <1>2. CASE Started
    <2>1. QueueInv
      BY <1>2 DEF Init, Started, QueueInv
    <2>2. StartInv
      BY <1>2 DEF Init, Started, StartInv, IsAck
    <2>3. Unstarted
      BY <1>2 DEF Started, Unstarted
    <2>4. ModeInv
      <3>1. peerLine \in Seq(PeerMsg \cup AckMsg)
        BY Zenon, <1>2, LinkAssumption DEF Started
      <3>2. \A f \in PeerMsg \cup AckMsg : f.kind # "SYNC_ANSWER"
        BY FrameKinds DEF AllPeerKinds
      <3>3. \A i \in DOMAIN peerLine : peerLine[i].kind # "SYNC_ANSWER"
        BY <3>1, <3>2
      <3> QED
        BY <1>2, <3>3, FrameKinds DEF Init, Started, ModeInv
    <2>5. PeerAlternates
      BY <1>2 DEF Started, PeerAlternates
    <2> QED
      BY <1>1, <2>1, <2>2, <2>3, <2>4, <2>5 DEF LinkInv, HostAlternates
  <1>3. CASE Synced
    <2>1. QueueInv /\ StartInv
      BY <1>3 DEF Init, Synced, QueueInv, StartInv, Unstarted
    <2>2. ModeInv
      BY <1>3, FrameKinds DEF Init, Synced, ModeInv
    <2>3. \A b : DataAll(<<>>, b) /\ AckAll(<<>>, b)
      BY DEF DataAll, AckAll
    <2>4. HostAlternates /\ PeerAlternates
      BY <1>3, <2>3 DEF Init, Synced, HostAlternates, PeerAlternates, Alternating
    <2> QED
      BY <1>1, <2>1, <2>2, <2>4 DEF LinkInv
  <1> QED
    BY <1>2, <1>3 DEF Init

LEMMA NextLink == TypeOK /\ LinkInv /\ [Next]_vars => LinkInv'
  <1> SUFFICES ASSUME TypeOK, LinkInv, [Next]_vars PROVE LinkInv'
    OBVIOUS
  <1> PendingInv /\ QueueInv /\ StartInv /\ ModeInv
    BY DEF LinkInv
  <1> QED
    BY PendingStep, QueueStep, StartStep, ModeStep, HostStep, PeerStep DEF LinkInv

(* The inductive invariant of the link holds in every reachable state.     *)
THEOREM LinkInvariant == Spec => [](TypeOK /\ LinkInv)
  BY InitType, NextType, InitLink, NextLink, PTL DEF Spec

(* Whichever path releases a message, wait_for_ack, repeatMsg, repeatCount *)
(* and send_toggle stay consistent.                                        *)
THEOREM PendingConsistent == Spec => []PendingInv
  BY LinkInvariant, PTL DEF LinkInv

(* From a link that has been synchronised, until the next SYNC, every      *)
(* message of the controller is processed by the host exactly once and in  *)
(* order.                                                                  *)
THEOREM PeerExactlyOnce == Spec => []PeerInOrderExactlyOnce
  <1>1. TypeOK /\ LinkInv => PeerInOrderExactlyOnce
    <2> SUFFICES ASSUME TypeOK, LinkInv, ~skewed
                 PROVE  \/ taken = peerSentLog
                        \/ peerOut # None /\ Append(taken, peerOut.id) = peerSentLog
      BY DEF PeerInOrderExactlyOnce
    <2>1. peerOut # None => peerOut.kind # "SYNC"
      BY LineFrames DEF TypeOK
    <2> QED
      BY <2>1 DEF LinkInv, PeerAlternates, Alternating
  <1> QED
    BY <1>1, LinkInvariant, PTL

-----------------------------------------------------------------------------
(* The synchronous protocol, in which nothing tells two answers apart: it  *)
(* is enough that, until a message is repeated, one frame at a time is on  *)
(* its way, the message or its answer.                                     *)

OnlyAcks(l) == \A i \in DOMAIN l : IsAck(l[i])
AtMostOne(l, m) ==
    /\ \A i \in DOMAIN l : IsAck(l[i]) \/ l[i] = m
    /\ \A i, j \in DOMAIN l : (~IsAck(l[i]) /\ ~IsAck(l[j])) => i = j
OnlyMsgs(l) == \A i \in DOMAIN l : l[i].kind \in AllPeerKinds
AnswerLast(l) ==
    \A i \in DOMAIN l : \/ l[i].kind \in AllPeerKinds
                        \/ i = Len(l) /\ l[i].kind = "SYNC_ANSWER"

(* The first SYNC: frames left over in the tty are in front of its answer, *)
(* and the host acknowledges them, which the controller ignores.           *)
Opening ==
    /\ ~syncMode
    /\ delivered = sentLog
    /\ \/ /\ repeatMsg = None
          /\ prioQueue # <<>> /\ Head(prioQueue).kind = "SYNC"
          /\ OnlyAcks(hostLine)
          /\ OnlyMsgs(peerLine)
       \/ repeatMsg.kind = "SYNC" /\ AtMostOne(hostLine, repeatMsg) /\ OnlyMsgs(peerLine)
       \/ repeatMsg.kind = "SYNC" /\ OnlyAcks(hostLine) /\ AnswerLast(peerLine)

(* Afterwards: at rest, the message on its way (or lost), its answer on    *)
(* its way (or lost).                                                      *)
Turns ==
    /\ syncMode
    /\ \/ /\ repeatMsg = None
          /\ OnlyAcks(hostLine)
          /\ peerLine = <<>>
          /\ delivered = sentLog
       \/ /\ repeatMsg # None
          /\ AtMostOne(hostLine, repeatMsg)
          /\ peerLine = <<>>
          /\ IF repeatMsg.kind = "SYNC" THEN delivered = sentLog
                                        ELSE Append(delivered, repeatMsg.id) = sentLog
       \/ /\ repeatMsg # None
          /\ OnlyAcks(hostLine)
          /\ Len(peerLine) <= 1
          /\ delivered = sentLog

SyncInv == SyncPeer => peerOut = None /\ (~stale => Opening \/ Turns)

LEMMA SyncTail ==
    ASSUME NEW S, NEW l \in Seq(S), l # <<>>, NEW m
    PROVE  /\ OnlyAcks(l) => OnlyAcks(Tail(l)) /\ IsAck(Head(l))
           /\ AtMostOne(l, m) => AtMostOne(Tail(l), m)
           /\ (AtMostOne(l, m) /\ ~IsAck(Head(l))) => OnlyAcks(Tail(l)) /\ Head(l) = m
           /\ OnlyMsgs(l) => OnlyMsgs(Tail(l)) /\ Head(l).kind \in AllPeerKinds
           /\ AnswerLast(l) => /\ AnswerLast(Tail(l))
                               /\ Head(l).kind \in AllPeerKinds \cup {"SYNC_ANSWER"}
           /\ (AnswerLast(l) /\ Head(l).kind = "SYNC_ANSWER") => Tail(l) = <<>>
           /\ Len(l) <= 1 => Tail(l) = <<>>
  <1>1. /\ Head(l) = l[1] /\ 1 \in DOMAIN l /\ Tail(l) \in Seq(S)
        /\ \A i \in DOMAIN Tail(l) : /\ i + 1 \in DOMAIN l /\ i + 1 > 1 /\ Tail(l)[i] = l[i + 1]
                                     /\ i \in Nat
    BY TailElems
  <1>2. /\ \A i \in DOMAIN Tail(l) : i + 1 = Len(l) => i = Len(Tail(l))
        /\ \A i, j \in DOMAIN Tail(l) : i + 1 = j + 1 => i = j
        /\ \A i \in DOMAIN Tail(l) : i + 1 # 1
        /\ Len(l) <= 1 => Tail(l) = <<>>
        /\ 1 = Len(l) => Tail(l) = <<>>
    <2>1. /\ Len(l) \in Nat /\ Len(Tail(l)) = Len(l) - 1
          /\ DOMAIN Tail(l) = 1..Len(Tail(l)) /\ Len(l) > 0
      OBVIOUS
    <2>2. Len(l) <= 1 => Tail(l) = <<>>
      BY <1>1, <2>1
    <2> QED
      BY <2>1, <2>2
  <1> DEFINE h == Head(l)
             t == Tail(l)
  <1> HIDE DEF h, t
  <1>3. /\ h = l[1] /\ 1 \in DOMAIN l
        /\ \A i \in DOMAIN t : i + 1 \in DOMAIN l /\ t[i] = l[i + 1] /\ i + 1 # 1
        /\ \A i, j \in DOMAIN t : i + 1 = j + 1 => i = j
        /\ \A i \in DOMAIN t : i + 1 = Len(l) => i = Len(t)
    BY <1>1, <1>2 DEF h, t
  <1>4. OnlyAcks(l) => OnlyAcks(t) /\ IsAck(h)
    BY <1>3 DEF OnlyAcks
  <1>5. AtMostOne(l, m) => AtMostOne(t, m)
    BY <1>3 DEF AtMostOne
  <1>6. (AtMostOne(l, m) /\ ~IsAck(h)) => OnlyAcks(t) /\ h = m
    BY <1>3 DEF AtMostOne, OnlyAcks
  <1>7. OnlyMsgs(l) => OnlyMsgs(t) /\ h.kind \in AllPeerKinds
    BY <1>3 DEF OnlyMsgs
  <1>8. AnswerLast(l) => AnswerLast(t) /\ h.kind \in AllPeerKinds \cup {"SYNC_ANSWER"}
    BY <1>3 DEF AnswerLast
  <1>9. (AnswerLast(l) /\ h.kind = "SYNC_ANSWER") => 1 = Len(l)
    BY <1>3 DEF AnswerLast, AllPeerKinds
  <1> QED
    BY <1>2, <1>4, <1>5, <1>6, <1>7, <1>8, <1>9 DEF h, t

LEMMA SyncSend ==
    ASSUME NEW S, NEW l \in Seq(S), NEW f \in S, NEW k, k = l \/ k = Append(l, f), NEW m
    PROVE  /\ (OnlyAcks(l) /\ IsAck(f)) => OnlyAcks(k)
           /\ (AtMostOne(l, m) /\ IsAck(f)) => AtMostOne(k, m)
           /\ OnlyAcks(l) => AtMostOne(k, f)
           /\ (OnlyMsgs(l) /\ f.kind = "SYNC_ANSWER") => AnswerLast(k)
           /\ l = <<>> => Len(k) <= 1
  <1>1. /\ \A i \in DOMAIN k :
              \/ i \in DOMAIN l /\ k[i] = l[i]
              \/ i = Len(k) /\ k[i] = f
        /\ l = <<>> => Len(k) <= 1
    <2>1. CASE k = l
      BY <2>1
    <2>2. CASE k = Append(l, f)
      <3>1. Len(Append(l, f)) = Len(l) + 1
        OBVIOUS
      <3>2. \A i \in DOMAIN Append(l, f) :
               \/ i \in DOMAIN l /\ Append(l, f)[i] = l[i]
               \/ i = Len(l) + 1 /\ Append(l, f)[i] = f
        BY AppendElems
      <3> QED
        BY <2>2, <3>1, <3>2
    <2> QED
      BY <2>1, <2>2
  <1>2. (OnlyAcks(l) /\ IsAck(f)) => OnlyAcks(k)
    BY <1>1 DEF OnlyAcks
  <1>3. (AtMostOne(l, m) /\ IsAck(f)) => AtMostOne(k, m)
    BY <1>1 DEF AtMostOne
  <1>4. OnlyAcks(l) => AtMostOne(k, f)
    BY <1>1 DEF AtMostOne, OnlyAcks
  <1>5. (OnlyMsgs(l) /\ f.kind = "SYNC_ANSWER") => AnswerLast(k)
    BY <1>1 DEF OnlyMsgs, AnswerLast
  <1> QED
    BY <1>1, <1>2, <1>3, <1>4, <1>5

LEMMA SyncInit == Init => SyncInv
  <1> SUFFICES ASSUME Init, SyncPeer PROVE peerOut = None /\ (~stale => Opening \/ Turns)
    BY DEF SyncInv
  <1>1. Started
    BY DEF Init, Synced
  <1> SUFFICES ASSUME ~stale PROVE Opening
    BY DEF Init
  <1>2. peerLine \in Seq(PeerMsg \cup AckMsg)
    BY Zenon, <1>1, LinkAssumption DEF Started
  <1>3. \A i \in DOMAIN peerLine : peerLine[i].kind # "ACK"
    BY <1>1 DEF Started
  <1>4. \A i \in DOMAIN peerLine : peerLine[i].kind \in AllPeerKinds
    BY <1>2, <1>3, FrameKinds
  <1>5. prioQueue # <<>> /\ Head(prioQueue).kind = "SYNC"
    BY <1>1 DEF Started
  <1>6. OnlyAcks(hostLine)
    BY DEF Init, OnlyAcks
  <1> QED
    BY <1>4, <1>5, <1>6 DEF Init, Opening, OnlyMsgs

(* A step that the synchronous protocol does not notice.                   *)
LEMMA SyncSame ==
    ASSUME SyncInv,
           UNCHANGED <<syncMode, repeatMsg, hostLine, peerLine, delivered, sentLog, peerOut, stale>>,
           \/ UNCHANGED prioQueue
           \/ prioQueue # <<>> => prioQueue' # <<>> /\ Head(prioQueue') = Head(prioQueue)
    PROVE  SyncInv'
  BY DEF SyncInv, Opening, Turns

(* The queue's first message stays the first.                              *)
LEMMA ProcKeepsHead ==
    ASSUME TypeOK, NEW f, ProcMsg(f), prioQueue # <<>>
    PROVE  prioQueue' # <<>> /\ Head(prioQueue') = Head(prioQueue)
  <1>1. NewMsg("REPLY") \in HostMsg
    BY NewMsgType DEF TypeOK, HostKinds
  <1>2. /\ Append(prioQueue, NewMsg("REPLY")) # <<>>
        /\ Head(Append(prioQueue, NewMsg("REPLY"))) = Head(prioQueue)
    BY <1>1, AppendHead DEF TypeOK
  <1>3. prioQueue' = prioQueue \/ prioQueue' = Append(prioQueue, NewMsg("REPLY"))
    BY DEF ProcMsg, queueVars
  <1> QED
    BY <1>2, <1>3

(* An answer releases the message.                                         *)
LEMMA SyncReleased ==
    ASSUME TypeOK, PendingInv, SyncInv, SyncPeer, peerLine # <<>>,
           RecvAck \/ RecvSyncAnswer \/ RecvMsgSync
    PROVE  SyncInv'
  <1>1. /\ peerLine' = Tail(peerLine) /\ repeatMsg' = None
        /\ UNCHANGED <<hostLine, delivered, sentLog, peerOut, stale>>
    BY DEF RecvAck, RecvSyncAnswer, RecvMsgSync, peerVars, historyVars
  <1> SUFFICES ASSUME ~stale PROVE Turns'
    BY <1>1 DEF SyncInv
  <1>2. peerLine \in Seq(PeerFrame)
    BY DEF TypeOK
  <1>3. CASE Opening
    <2>1. /\ OnlyMsgs(peerLine) => Head(peerLine).kind \in AllPeerKinds
          /\ AnswerLast(peerLine) => Head(peerLine).kind \in AllPeerKinds \cup {"SYNC_ANSWER"}
          /\ (AnswerLast(peerLine) /\ Head(peerLine).kind = "SYNC_ANSWER") =>
                Tail(peerLine) = <<>>
      BY <1>2, SyncTail
    <2>2. \A b : Ack(b).kind = "ACK"
      BY DEF Ack
    <2>3. OnlyMsgs(peerLine) \/ AnswerLast(peerLine)
      BY <1>3 DEF Opening
    <2>4. RecvSyncAnswer
      <3>1. ~RecvMsgSync
        BY <1>3 DEF RecvMsgSync, Opening
      <3>2. ~RecvAck
        BY <2>1, <2>2, <2>3 DEF RecvAck, AllPeerKinds
      <3> QED
        BY <3>1, <3>2
    <2>5. Head(peerLine).kind = "SYNC_ANSWER" /\ syncMode'
      BY <2>4, FrameKinds DEF RecvSyncAnswer
    <2>6. ~OnlyMsgs(peerLine)
      BY <2>1, <2>5 DEF AllPeerKinds
    <2>7. /\ AnswerLast(peerLine) /\ OnlyAcks(hostLine) /\ delivered = sentLog
      BY <1>3, <2>6 DEF Opening
    <2> QED
      BY <1>1, <2>1, <2>5, <2>7 DEF Turns
  <1>4. CASE Turns
    <2>1. /\ OnlyAcks(hostLine) /\ Len(peerLine) <= 1 /\ delivered = sentLog /\ syncMode
      BY <1>4 DEF Turns
    <2>2. Tail(peerLine) = <<>>
      BY <1>2, <2>1, SyncTail
    <2>3. syncMode'
      BY <2>1 DEF RecvAck, RecvSyncAnswer, RecvMsgSync
    <2> QED
      BY <1>1, <2>1, <2>2, <2>3 DEF Turns
  <1> QED
    BY <1>3, <1>4 DEF SyncInv

(* A frame that does not release it.                                       *)
LEMMA SyncIgnored ==
    ASSUME TypeOK, PendingInv, SyncInv, SyncPeer, peerLine # <<>>,
           RecvUnexpectedAck \/ RecvWrongAck \/ RecvMsg \/ RecvWrongToggle
    PROVE  SyncInv'
  <1>1. /\ peerLine' = Tail(peerLine)
        /\ UNCHANGED <<repeatMsg, delivered, sentLog, peerOut, stale, syncMode>>
    BY DEF RecvUnexpectedAck, RecvWrongAck, RecvMsg, RecvWrongToggle, hostVars, peerVars,
           historyVars
  <1> SUFFICES ASSUME ~stale PROVE Opening' \/ Turns'
    BY <1>1 DEF SyncInv
  <1>2. peerLine \in Seq(PeerFrame) /\ hostLine \in Seq(HostFrame)
    BY DEF TypeOK
  <1>3. \E b \in Bit : hostLine' = hostLine \/ hostLine' = Append(hostLine, Ack(b))
    <2>1. CASE RecvUnexpectedAck \/ RecvWrongAck
      BY <2>1 DEF RecvUnexpectedAck, RecvWrongAck, Bit
    <2>2. CASE RecvMsg \/ RecvWrongToggle
      <3>1. /\ Head(peerLine).t \in Bit
            /\ hostLine' \in Transmit(hostLine, Ack(Head(peerLine).t))
        BY <2>2, FrameKinds DEF RecvMsg, RecvWrongToggle
      <3> QED
        BY <3>1 DEF Transmit
    <2> QED
      BY <2>1, <2>2
  <1>4. /\ OnlyAcks(hostLine) => OnlyAcks(hostLine')
        /\ AtMostOne(hostLine, repeatMsg) => AtMostOne(hostLine', repeatMsg)
    <2>1. PICK b \in Bit : hostLine' = hostLine \/ hostLine' = Append(hostLine, Ack(b))
      BY <1>3
    <2>2. Ack(b) \in HostFrame /\ IsAck(Ack(b))
      BY FrameKinds DEF HostFrame, IsAck
    <2> QED
      BY <1>2, <2>1, <2>2, SyncSend
  <1>5. /\ OnlyMsgs(peerLine) => OnlyMsgs(peerLine')
        /\ AnswerLast(peerLine) => AnswerLast(peerLine')
        /\ Len(peerLine) <= 1 => peerLine' = <<>>
    BY <1>1, <1>2, SyncTail
  <1>6. CASE Opening
    <2>1. prioQueue # <<>> => prioQueue' # <<>> /\ Head(prioQueue') = Head(prioQueue)
      BY ProcKeepsHead DEF RecvUnexpectedAck, RecvWrongAck, RecvMsg, RecvWrongToggle, queueVars
    <2>2. Opening'
      BY <1>1, <1>4, <1>5, <1>6, <2>1 DEF Opening
    <2> QED
      BY <2>2
  <1>7. CASE Turns
    <2>1. /\ repeatMsg # None /\ OnlyAcks(hostLine) /\ Len(peerLine) <= 1
          /\ delivered = sentLog /\ syncMode
      BY <1>7 DEF Turns
    <2>2. peerLine' = <<>> /\ Len(peerLine') <= 1
      BY <1>5, <2>1
    <2> QED
      BY <1>1, <1>4, <2>1, <2>2 DEF Turns
  <1> QED
    BY <1>6, <1>7 DEF SyncInv

(* The next message is sent when the last one was released.                *)
LEMMA SyncSends ==
    ASSUME TypeOK, PendingInv, QueueInv, SyncInv, SyncPeer, SendPrio \/ SendSec
    PROVE  SyncInv'
  <1>1. /\ ~waitForAck /\ UNCHANGED <<peerLine, delivered, peerOut, stale, syncMode>>
    BY DEF SendPrio, SendSec, peerVars
  <1> SUFFICES ASSUME ~stale PROVE Opening' \/ Turns'
    BY <1>1 DEF SyncInv
  <1>2. repeatMsg = None
    BY <1>1 DEF PendingInv
  <1>3. PICK m \in HostMsg : /\ m.t = 0 /\ SendMessage(m) /\ LogSent(m)
                             /\ prioQueue # <<>> => m = Head(prioQueue)
    <2>1. CASE SendPrio
      <3>1. Head(prioQueue) \in HostMsg /\ Head(prioQueue).t = 0
        BY <2>1, TailElems DEF SendPrio, QueueInv, TypeOK
      <3> QED
        BY <2>1, <3>1 DEF SendPrio
    <2>2. CASE SendSec
      <3>1. Head(secQueue) \in HostMsg /\ Head(secQueue).t = 0
        BY <2>2, TailElems DEF SendSec, QueueInv, TypeOK
      <3> QED
        BY <2>2, <3>1 DEF SendSec
    <2> QED
      BY <2>1, <2>2
  <1>4. /\ repeatMsg' \in HostMsg /\ repeatMsg' # None
        /\ repeatMsg'.kind = m.kind /\ repeatMsg'.id = m.id
        /\ hostLine' = hostLine \/ hostLine' = Append(hostLine, repeatMsg')
    BY <1>3, SendFresh
  <1>5. OnlyAcks(hostLine) => AtMostOne(hostLine', repeatMsg')
    <2>1. hostLine \in Seq(HostFrame) /\ repeatMsg' \in HostFrame
      BY <1>4 DEF TypeOK, HostFrame
    <2> QED
      BY <1>4, <2>1, SyncSend
  <1>6. sentLog' = IF m.kind = "SYNC" THEN sentLog ELSE Append(sentLog, m.id)
    BY <1>3 DEF LogSent
  <1>7. None.kind # "SYNC"
    BY FrameKinds
  <1>8. CASE Opening
    <2>1. /\ prioQueue # <<>> /\ Head(prioQueue).kind = "SYNC" /\ OnlyAcks(hostLine)
          /\ OnlyMsgs(peerLine) /\ delivered = sentLog /\ ~syncMode
      BY <1>2, <1>7, <1>8 DEF Opening
    <2>2. Opening'
      BY <1>1, <1>3, <1>4, <1>5, <1>6, <2>1 DEF Opening
    <2> QED
      BY <2>2
  <1>9. CASE Turns
    <2>1. OnlyAcks(hostLine) /\ peerLine = <<>> /\ delivered = sentLog /\ syncMode
      BY <1>2, <1>9 DEF Turns
    <2>2. Turns'
      BY <1>1, <1>4, <1>5, <1>6, <2>1 DEF Turns
    <2> QED
      BY <2>2
  <1> QED
    BY <1>8, <1>9 DEF SyncInv

(* The controller takes the message and answers.                           *)
LEMMA SyncAnswers ==
    ASSUME TypeOK, SyncInv, SyncPeer, PeerRecvAck \/ PeerRecvSync \/ PeerRecvMsgSync
    PROVE  SyncInv'
  <1>1. /\ hostLine # <<>> /\ hostLine' = Tail(hostLine) /\ peerOut = None
        /\ UNCHANGED <<repeatMsg, sentLog, stale, syncMode, prioQueue>>
    BY DEF PeerRecvAck, PeerRecvSync, PeerRecvMsgSync, PeerFrameReady, hostVars, queueVars,
           historyVars, SyncInv
  <1>2. peerOut' = None
    BY <1>1 DEF PeerRecvAck, PeerRecvSync, PeerRecvMsgSync
  <1> SUFFICES ASSUME ~stale PROVE Opening' \/ Turns'
    BY <1>1, <1>2 DEF SyncInv
  <1>3. hostLine \in Seq(HostFrame) /\ peerLine \in Seq(PeerFrame)
    BY DEF TypeOK
  <1>4. /\ OnlyAcks(hostLine) => OnlyAcks(hostLine') /\ IsAck(Head(hostLine))
        /\ AtMostOne(hostLine, repeatMsg) => AtMostOne(hostLine', repeatMsg)
        /\ (AtMostOne(hostLine, repeatMsg) /\ ~IsAck(Head(hostLine))) =>
              OnlyAcks(hostLine') /\ Head(hostLine) = repeatMsg
    BY <1>1, <1>3, SyncTail
  <1>5. CASE PeerRecvAck
    <2>1. UNCHANGED <<peerLine, delivered>>
      BY <1>5 DEF PeerRecvAck
    <2>2. CASE Opening
      BY <1>1, <1>4, <2>1, <2>2 DEF Opening
    <2>3. CASE Turns
      BY <1>1, <1>4, <2>1, <2>3 DEF Turns
    <2> QED
      BY <2>2, <2>3 DEF SyncInv
  <1>6. CASE PeerRecvSync
    <2>1. /\ ~IsAck(Head(hostLine)) /\ Head(hostLine).kind = "SYNC" /\ UNCHANGED delivered
          /\ peerLine' = peerLine \/ peerLine' = Append(peerLine, SyncAnswer)
      BY <1>6 DEF PeerRecvSync, IsAck, Transmit
    <2>2. /\ (OnlyMsgs(peerLine) => AnswerLast(peerLine'))
          /\ (peerLine = <<>> => Len(peerLine') <= 1)
      <3>1. SyncAnswer \in PeerFrame /\ SyncAnswer.kind = "SYNC_ANSWER"
        BY FrameKinds DEF PeerFrame
      <3> QED
        BY <1>3, <2>1, <3>1, SyncSend
    <2>3. ~OnlyAcks(hostLine)
      BY <1>4, <2>1
    <2>4. CASE Opening
      <3>1. /\ repeatMsg.kind = "SYNC" /\ AtMostOne(hostLine, repeatMsg) /\ OnlyMsgs(peerLine)
            /\ delivered = sentLog /\ ~syncMode
        BY <2>3, <2>4 DEF Opening
      <3>2. Opening'
        BY <1>1, <1>4, <2>1, <2>2, <3>1 DEF Opening
      <3> QED
        BY <3>2
    <2>5. CASE Turns
      <3>1. /\ repeatMsg # None /\ AtMostOne(hostLine, repeatMsg) /\ peerLine = <<>> /\ syncMode
            /\ repeatMsg.kind = "SYNC" => delivered = sentLog
        BY <2>3, <2>5 DEF Turns
      <3>2. OnlyAcks(hostLine') /\ Head(hostLine) = repeatMsg
        BY <1>4, <2>1, <3>1
      <3>3. Turns'
        BY <1>1, <2>1, <2>2, <3>1, <3>2 DEF Turns
      <3> QED
        BY <3>3
    <2> QED
      BY <2>4, <2>5 DEF SyncInv
  <1>7. CASE PeerRecvMsgSync
    <2>1. /\ ~IsAck(Head(hostLine)) /\ Head(hostLine).kind # "SYNC"
          /\ delivered' = Append(delivered, Head(hostLine).id)
          /\ \E f \in PeerFrame : peerLine' = peerLine \/ peerLine' = Append(peerLine, f)
      <3>1. /\ Head(hostLine).kind # "ACK"
            /\ Ack(Head(hostLine).t) \in PeerFrame
        BY <1>7, FrameKinds DEF PeerRecvMsgSync, HostKinds, RequestKinds, PeerFrame
      <3>2. \A kind \in PeerKinds : [kind |-> kind, id |-> peerNextId, t |-> 0] \in PeerFrame
        BY LinkAssumption DEF PeerFrame, PeerMsg, TypeOK, Bit
      <3> QED
        BY <1>7, <3>1, <3>2 DEF PeerRecvMsgSync, IsAck, Transmit
    <2>2. ~OnlyAcks(hostLine)
      BY <1>4, <2>1
    <2>3. ~Opening
      <3> SUFFICES ASSUME Opening PROVE FALSE
        OBVIOUS
      <3>1. repeatMsg.kind = "SYNC" /\ AtMostOne(hostLine, repeatMsg)
        BY <2>2 DEF Opening
      <3> QED
        BY <1>4, <2>1, <3>1
    <2>4. Turns
      BY <2>3 DEF SyncInv
    <2>5. /\ repeatMsg # None /\ AtMostOne(hostLine, repeatMsg) /\ peerLine = <<>> /\ syncMode
          /\ repeatMsg.kind # "SYNC" => Append(delivered, repeatMsg.id) = sentLog
      BY <2>2, <2>4 DEF Turns
    <2>6. OnlyAcks(hostLine') /\ Head(hostLine) = repeatMsg
      BY <1>4, <2>1, <2>5
    <2>7. Len(peerLine') <= 1
      <3>1. PICK f \in PeerFrame : peerLine' = peerLine \/ peerLine' = Append(peerLine, f)
        BY <2>1
      <3> QED
        BY <1>3, <2>5, <3>1, SyncSend
    <2>8. delivered' = sentLog
      BY <2>1, <2>5, <2>6
    <2>9. Turns'
      BY <1>1, <2>5, <2>6, <2>7, <2>8 DEF Turns
    <2> QED
      BY <2>9
  <1> QED
    BY <1>5, <1>6, <1>7

LEMMA SyncStep ==
    ASSUME TypeOK, PendingInv, QueueInv, SyncInv, [Next]_vars
    PROVE  SyncInv'
  <1> SUFFICES ASSUME SyncPeer PROVE SyncInv'
    BY DEF SyncInv
  <1>1. ASSUME NEW kind \in Requests, Request(kind) PROVE SyncInv'
    <2>1. /\ UNCHANGED <<syncMode, repeatMsg, hostLine, peerLine, delivered, sentLog, peerOut,
                         stale>>
      BY <1>1 DEF Request, hostVars, peerVars, historyVars
    <2>2. NewMsg(kind) \in HostMsg
      BY LinkAssumption, NewMsgType DEF TypeOK, HostKinds
    <2>3. prioQueue' = prioQueue \/ prioQueue' = Append(prioQueue, NewMsg(kind))
      BY <1>1 DEF Request
    <2>4. prioQueue # <<>> => prioQueue' # <<>> /\ Head(prioQueue') = Head(prioQueue)
      BY <2>2, <2>3, AppendHead DEF TypeOK
    <2> QED
      BY <2>1, <2>4, SyncSame
  <1>2. CASE RecvAck \/ RecvSyncAnswer \/ RecvMsgSync
    <2>1. peerLine # <<>>
      BY <1>2 DEF RecvAck, RecvSyncAnswer, RecvMsgSync
    <2> QED
      BY <1>2, <2>1, SyncReleased
  <1>3. CASE RecvUnexpectedAck \/ RecvWrongAck \/ RecvMsg \/ RecvWrongToggle
    <2>1. peerLine # <<>>
      BY <1>3 DEF RecvUnexpectedAck, RecvWrongAck, RecvMsg, RecvWrongToggle
    <2> QED
      BY <1>3, <2>1, SyncIgnored
  <1>4. CASE SendPrio \/ SendSec
    BY <1>4, SyncSends
  <1>5. CASE RecvDone \/ SendNothing \/ AnswerTimeout \/ TimersIdle \/ UNCHANGED vars
    <2>1. UNCHANGED <<syncMode, repeatMsg, hostLine, peerLine, delivered, sentLog, peerOut, stale,
                      prioQueue>>
      BY <1>5 DEF RecvDone, SendNothing, AnswerTimeout, TimersIdle, vars, hostVars, queueVars,
                  peerVars, historyVars
    <2> QED
      BY <2>1, SyncSame
  <1>6. CASE Repeat \/ GiveUp
    <2>1. UNCHANGED peerOut /\ stale'
      BY <1>6 DEF Repeat, GiveUp, peerVars
    <2> QED
      BY <2>1 DEF SyncInv
  <1>7. CASE Peer
    <2>1. ~PeerRecvMsg /\ (\A kind \in PeerKinds : ~PeerSend(kind)) /\ ~PeerRepeat
      BY DEF PeerRecvMsg, PeerSend, PeerRepeat, SyncInv
    <2> QED
      BY <1>7, <2>1, SyncAnswers DEF Peer
  <1> QED
    BY <1>1, <1>2, <1>3, <1>4, <1>5, <1>6, <1>7 DEF Next, Trigger, Receive

(* The inductive invariant of the synchronous protocol holds in every      *)
(* reachable state.                                                        *)
THEOREM SyncInvariant == Spec => []SyncInv
  <1>1. TypeOK /\ LinkInv /\ SyncInv /\ [Next]_vars => SyncInv'
    BY SyncStep DEF LinkInv
  <1> QED
    BY <1>1, SyncInit, LinkInvariant, PTL DEF Spec

(* Every message of the host is processed by the controller exactly once   *)
(* and in order, for any number of messages, losses and SYNCs: with a      *)
(* controller that acknowledges, through any repetitions, until a message  *)
(* is abandoned; in the synchronous protocol until one is repeated.        *)
THEOREM HostExactlyOnce == Spec => []InOrderExactlyOnce
  <1>1. LinkInv /\ SyncInv => InOrderExactlyOnce
    <2> SUFFICES ASSUME LinkInv, SyncInv, ~stale
                 PROVE  \/ delivered = sentLog
                        \/ /\ repeatMsg # None
                           /\ repeatMsg.kind # "SYNC"
                           /\ Append(delivered, repeatMsg.id) = sentLog
      BY DEF InOrderExactlyOnce
    <2>1. CASE SyncPeer
      BY <2>1 DEF SyncInv, Opening, Turns
    <2>2. CASE ~SyncPeer /\ Unstarted
      BY <2>2 DEF LinkInv, StartInv
    <2>3. CASE ~SyncPeer /\ ~Unstarted
      BY <2>3 DEF LinkInv, HostAlternates, Alternating
    <2> QED
      BY <2>1, <2>2, <2>3
  <1> QED
    BY <1>1, LinkInvariant, SyncInvariant, PTL
=============================================================================
