----------------------------- MODULE DrbccLink -----------------------------
(***************************************************************************)
(* The host side of the DRBCC serial link (lib/drbcc.c): the drbcc_trigger *)
(* loop with its two send queues, the toggle-bit (alternating-bit)         *)
(* protocol of libdrbcc_send_message and libdrbcc_receive, the             *)
(* acknowledgement and answer timers, and the session that the link layer  *)
(* opens and closes.  The serial line loses frames and never reorders      *)
(* them; the board controller (BCTRL) at its other end is external and     *)
(* follows the protocol comment above libdrbcc_receive.                    *)
(*                                                                         *)
(* A frame is a record: its command class, the identity of the message and *)
(* the toggle bit.  Bytes, escaping and the CRC are abstracted: a damaged  *)
(* frame is a lost one.                                                    *)
(***************************************************************************)
EXTENDS Naturals, Sequences

CONSTANTS
    MaxMsgs,        \* bound: messages the host may compose on request
    MaxPeerMsgs,    \* bound: messages the board controller may compose
    MaxRepeat,      \* repetitions before the host gives up (25 in the code)
    LineCap,        \* frames the serial line and its buffers hold
    Requests,       \* command classes the application uses
    PeerKinds,      \* command classes the board controller uses
    SyncPeer,       \* TRUE: the controller answers SYNC with SYNC_ANSWER
    StaleLines      \* frames that may wait in the tty when it is opened

(***************************************************************************)
(* Host command classes, by what ends their session and by their queue:    *)
(*   SYNC   resets both toggle bits, its ack closes the session            *)
(*   CMD    heartbeat, set_led, shutdown, hd_eject, debug_set: ack closes  *)
(*   REQ    a request answered by a message of the controller              *)
(*   POLL   a request answered by IND_STATUS (sets indClosesSession)       *)
(*   PUTLOG the one request that is not refused while a session is active  *)
(*   FLASH  the flash requests, the only users of the second queue         *)
(*   REPLY  the IND_PROTOCOL_VERSION the library sends by itself           *)
(* Controller command classes, by what libdrbcc_proc_msg does with them:   *)
(*   ANS    closes the session                                             *)
(*   IND    only calls a callback (events, error indications)              *)
(*   STATUS closes the session unless an ack is pending                    *)
(*   ASK    REQ_PROTOCOL_VERSION, answered by the library                  *)
(*   CHUNK  a flash result that makes the library queue the next request   *)
(***************************************************************************)
RequestKinds == {"SYNC", "CMD", "REQ", "POLL", "PUTLOG", "FLASH"}
HostKinds == RequestKinds \cup {"REPLY"}
AllPeerKinds == {"ANS", "IND", "STATUS", "ASK", "CHUNK"}

Bit == {0, 1}
HostMsg == [kind : HostKinds, id : Nat, t : Bit]
PeerMsg == [kind : AllPeerKinds, id : Nat, t : Bit]
AckMsg == [kind : {"ACK"}, id : {0}, t : Bit]
SyncAnswer == [kind |-> "SYNC_ANSWER", id |-> 0, t |-> 0]
None == [kind |-> "NONE", id |-> 0, t |-> 0]

Ack(t) == [kind |-> "ACK", id |-> 0, t |-> t]

HostFrame == HostMsg \cup AckMsg
PeerFrame == PeerMsg \cup AckMsg \cup {SyncAnswer}

ASSUME LinkAssumption ==
    /\ MaxMsgs \in Nat
    /\ MaxPeerMsgs \in Nat
    /\ MaxRepeat \in Nat
    /\ LineCap \in Nat
    /\ Requests \subseteq RequestKinds
    /\ PeerKinds \subseteq AllPeerKinds
    /\ SyncPeer \in BOOLEAN
    /\ StaleLines \subseteq Seq(PeerMsg \cup AckMsg)

VARIABLES
    pc,                 \* the phase of one iteration of drbcc_trigger
    sendToggle,         \* send_toggle: 0, or 1 for -1
    recvToggle,         \* expected_recv_toggle
    waitForAck,         \* wait_for_ack
    waitForAnswer,      \* wait_for_answer
    firstSync,          \* wait_for_first_sync_ack
    syncMode,           \* sync_mode
    repeatCount,        \* repeatCount
    repeatMsg,          \* repeatMsg, None for NULL
    prioQueue,          \* prioQueue
    secQueue,           \* secQueue
    session,            \* session: 0, or the id of the request that opened it
    indClosesSession,   \* indClosesSession
    hostLine,           \* frames from the host to the controller
    peerLine,           \* frames from the controller to the host
    peerRx,             \* the controller's expected toggle bit
    peerTx,             \* the controller's own toggle bit
    peerOut,            \* the controller's message that waits for its ack
    nextId,             \* identity of the next host message
    peerNextId,         \* identity of the next controller message
    \* history: what happened, read by no action
    sentLog,            \* ids of the messages sent, SYNC excepted, in order
    delivered,          \* ids of the messages the controller processed
    peerSentLog,        \* ids of the controller's messages, in order
    taken,              \* ids of the controller's messages the host processed
    stale,              \* an answer to an abandoned message may be in the line
    skewed,             \* a SYNC may have set the receive bits out of step
    outcome             \* what session_cb last reported

hostVars == <<pc, sendToggle, recvToggle, waitForAck, waitForAnswer, firstSync,
              syncMode, repeatCount, repeatMsg>>
queueVars == <<prioQueue, secQueue, nextId>>
sessionVars == <<session, indClosesSession, outcome>>
peerVars == <<peerRx, peerTx, peerOut, peerNextId, delivered, peerSentLog>>
historyVars == <<sentLog, taken, stale, skewed>>
vars == <<hostVars, queueVars, sessionVars, hostLine, peerLine, peerVars,
          historyVars>>

-----------------------------------------------------------------------------
(* The state left by drbcc_start: everything cleared by drbcc_open and the *)
(* first SYNC queued without a session.  The controller's toggle bits are  *)
(* those of the last process that used the tty, and frames meant for that  *)
(* process may still wait in it: open_tty does not flush.                  *)
Started ==
    /\ firstSync = TRUE
    /\ prioQueue = <<[kind |-> "SYNC", id |-> 1, t |-> 0]>>
    /\ nextId = 2
    /\ peerLine \in StaleLines
    /\ peerRx \in Bit
    /\ peerTx \in Bit
    /\ stale \in BOOLEAN
    /\ stale <=> \E i \in DOMAIN peerLine : peerLine[i].kind = "ACK"
    /\ skewed = TRUE

(* The state of a link whose first SYNC was acknowledged and which is at   *)
(* rest.                                                                   *)
Synced ==
    /\ firstSync = FALSE
    /\ prioQueue = <<>>
    /\ nextId = 2
    /\ peerLine = <<>>
    /\ peerRx = 0
    /\ peerTx = 0
    /\ stale = FALSE
    /\ skewed = FALSE
    /\ ~SyncPeer

Init ==
    /\ pc = "recv"
    /\ sendToggle = 0
    /\ recvToggle = 0
    /\ waitForAck = FALSE
    /\ waitForAnswer = FALSE
    /\ syncMode = FALSE
    /\ repeatCount = 0
    /\ repeatMsg = None
    /\ secQueue = <<>>
    /\ session = 0
    /\ indClosesSession = FALSE
    /\ hostLine = <<>>
    /\ peerOut = None
    /\ peerNextId = 1
    /\ sentLog = <<>>
    /\ delivered = <<>>
    /\ peerSentLog = <<>>
    /\ taken = <<>>
    /\ outcome = "none"
    /\ Started \/ Synced

-----------------------------------------------------------------------------
(* The serial line: a frame arrives in order or is lost, and is lost when  *)
(* the line and the buffers behind it are full.                            *)
Transmit(line, f) ==
    {line} \cup (IF Len(line) < LineCap THEN {Append(line, f)} ELSE {})

(* session_cb, then session = 0, both only when a session is open.         *)
CloseSession(ok) ==
    /\ session' = 0
    /\ outcome' = IF session = 0 THEN outcome ELSE ok

(* A message composed by the library: its id is fresh, its toggle bit is   *)
(* clear until it is sent.                                                 *)
NewMsg(kind) == [kind |-> kind, id |-> nextId, t |-> 0]

(* libdrbcc_send_message for a message that is not an ack: the toggle bit  *)
(* is set from send_toggle (and never cleared); SYNC resets both bits.     *)
Stamped(m) == [m EXCEPT !.t = IF m.kind = "SYNC" \/ sendToggle = 1 THEN 1 ELSE m.t]

SendMessage(m) ==
    /\ hostLine' \in Transmit(hostLine, Stamped(m))
    /\ repeatMsg' = Stamped(m)
    /\ sendToggle' = IF m.kind = "SYNC" THEN 1 ELSE sendToggle
    /\ recvToggle' = IF m.kind = "SYNC" THEN 0 ELSE recvToggle
    /\ skewed' = (skewed \/ m.kind = "SYNC")

-----------------------------------------------------------------------------
(* The API requests of drbcc_utils.c and drbcc_files.c, made between two   *)
(* iterations: refused while a session is active, except drbcc_put_log,    *)
(* which replaces it; otherwise one message is queued and, if the caller   *)
(* passed a session pointer, a session is opened.                          *)
Request(kind) ==
    /\ pc = "recv"
    /\ session = 0 \/ kind = "PUTLOG"
    /\ nextId <= MaxMsgs
    /\ IF kind = "FLASH"
         THEN secQueue' = Append(secQueue, NewMsg(kind)) /\ UNCHANGED prioQueue
         ELSE prioQueue' = Append(prioQueue, NewMsg(kind)) /\ UNCHANGED secQueue
    /\ nextId' = nextId + 1
    /\ session' \in {session, nextId}
    /\ indClosesSession' = (indClosesSession \/ kind = "POLL")
    /\ outcome' = "none"
    /\ UNCHANGED <<hostVars, hostLine, peerLine, peerVars, historyVars>>

-----------------------------------------------------------------------------
(* drbcc_trigger, phase 1: libdrbcc_receive.                               *)

(* Mutant: only SYNC reaches the code that closes the session.             *)
ProcAckMsgSyncOnly(m) ==
    IF m.kind = "SYNC" /\ firstSync
      THEN firstSync' = FALSE /\ UNCHANGED <<session, outcome>>
      ELSE /\ UNCHANGED firstSync
           /\ IF m.kind = "SYNC"
                THEN CloseSession("success")
                ELSE UNCHANGED <<session, outcome>>

(* libdrbcc_proc_ack_msg *)
ProcAckMsg(m) ==
    IF m.kind = "SYNC" /\ firstSync
      THEN firstSync' = FALSE /\ UNCHANGED <<session, outcome>>
      ELSE /\ UNCHANGED firstSync
           /\ IF m.kind \in {"SYNC", "CMD"}
                THEN CloseSession("success")
                ELSE UNCHANGED <<session, outcome>>

(* Mutants: the release forgets the repeat counter, or the toggle bit.     *)
RecvAckKeepsCount ==
    /\ pc = "recv"
    /\ peerLine # <<>>
    /\ Head(peerLine) = Ack(sendToggle)
    /\ repeatMsg # None
    /\ peerLine' = Tail(peerLine)
    /\ ProcAckMsg(repeatMsg)
    /\ sendToggle' = 1 - sendToggle
    /\ waitForAck' = FALSE
    /\ repeatMsg' = None
    /\ UNCHANGED <<pc, recvToggle, waitForAnswer, syncMode, repeatCount, indClosesSession,
                   queueVars, hostLine, peerVars, historyVars>>

RecvAckNoToggle ==
    /\ pc = "recv"
    /\ peerLine # <<>>
    /\ Head(peerLine) = Ack(sendToggle)
    /\ repeatMsg # None
    /\ peerLine' = Tail(peerLine)
    /\ ProcAckMsg(repeatMsg)
    /\ waitForAck' = FALSE
    /\ repeatCount' = 0
    /\ repeatMsg' = None
    /\ UNCHANGED <<pc, sendToggle, recvToggle, waitForAnswer, syncMode, indClosesSession,
                   queueVars, hostLine, peerVars, historyVars>>

(* The ack that send_toggle announces, with a message waiting for it: the  *)
(* loop over the receive buffer goes on.                                   *)
RecvAck ==
    /\ pc = "recv"
    /\ peerLine # <<>>
    /\ Head(peerLine) = Ack(sendToggle)
    /\ repeatMsg # None
    /\ peerLine' = Tail(peerLine)
    /\ ProcAckMsg(repeatMsg)
    /\ sendToggle' = 1 - sendToggle
    /\ waitForAck' = FALSE
    /\ repeatCount' = 0
    /\ repeatMsg' = None
    /\ UNCHANGED <<pc, recvToggle, waitForAnswer, syncMode, indClosesSession,
                   queueVars, hostLine, peerVars, historyVars>>

(* The announced ack with no message waiting: error_cb only.               *)
RecvUnexpectedAck ==
    /\ pc = "recv"
    /\ peerLine # <<>>
    /\ Head(peerLine) = Ack(sendToggle)
    /\ repeatMsg = None
    /\ peerLine' = Tail(peerLine)
    /\ UNCHANGED <<hostVars, queueVars, sessionVars, hostLine, peerVars, historyVars>>

(* An ack with the other toggle bit: a warning, and receive returns.       *)
RecvWrongAck ==
    /\ pc = "recv"
    /\ peerLine # <<>>
    /\ Head(peerLine) = Ack(1 - sendToggle)
    /\ peerLine' = Tail(peerLine)
    /\ pc' = "send"
    /\ UNCHANGED <<sendToggle, recvToggle, waitForAck, waitForAnswer, firstSync,
                   syncMode, repeatCount, repeatMsg, queueVars, sessionVars,
                   hostLine, peerVars, historyVars>>

(* SYNC_ANSWER switches to the synchronous protocol; whatever message was  *)
(* waiting is released, and no session is closed.                          *)
RecvSyncAnswer ==
    /\ pc = "recv"
    /\ peerLine # <<>>
    /\ Head(peerLine) = SyncAnswer
    /\ peerLine' = Tail(peerLine)
    /\ sendToggle' = 1 - sendToggle
    /\ waitForAck' = FALSE
    /\ repeatCount' = 0
    /\ repeatMsg' = None
    /\ syncMode' = TRUE
    /\ UNCHANGED <<pc, recvToggle, waitForAnswer, firstSync, queueVars, sessionVars,
                   hostLine, peerVars, historyVars>>

(* libdrbcc_proc_msg, by command class.                                    *)
ProcMsg(f) ==
    \/ /\ f.kind = "ANS"
       /\ CloseSession("success")
       /\ UNCHANGED <<indClosesSession, queueVars>>
    \/ /\ f.kind = "IND"
       /\ UNCHANGED <<sessionVars, queueVars>>
    \/ /\ f.kind = "STATUS"
       /\ IF ~waitForAck \/ indClosesSession
            THEN CloseSession("success") /\ indClosesSession' = FALSE
            ELSE UNCHANGED sessionVars
       /\ UNCHANGED queueVars
    \/ /\ f.kind = "ASK"
       /\ prioQueue' = Append(prioQueue, NewMsg("REPLY"))
       /\ nextId' = nextId + 1
       /\ UNCHANGED <<secQueue, sessionVars>>
    \/ /\ f.kind = "CHUNK"
       /\ secQueue' = Append(secQueue, NewMsg("FLASH"))
       /\ nextId' = nextId + 1
       /\ UNCHANGED <<prioQueue, sessionVars>>

(* Mutant: the expected bit is not toggled.                                *)
RecvMsgNoToggle ==
    /\ pc = "recv"
    /\ ~syncMode
    /\ peerLine # <<>>
    /\ Head(peerLine) \in PeerMsg
    /\ Head(peerLine).t = recvToggle
    /\ peerLine' = Tail(peerLine)
    /\ hostLine' \in Transmit(hostLine, Ack(Head(peerLine).t))
    /\ waitForAnswer' = (waitForAnswer /\ waitForAck)
    /\ ProcMsg(Head(peerLine))
    /\ taken' = Append(taken, Head(peerLine).id)
    /\ pc' = "send"
    /\ UNCHANGED <<sendToggle, recvToggle, waitForAck, firstSync, syncMode, repeatCount,
                   repeatMsg, peerVars, sentLog, stale, skewed>>

(* A message with the expected toggle bit: acknowledged, the expected bit  *)
(* toggled, then processed; receive returns after it.                      *)
RecvMsg ==
    /\ pc = "recv"
    /\ ~syncMode
    /\ peerLine # <<>>
    /\ Head(peerLine) \in PeerMsg
    /\ Head(peerLine).t = recvToggle
    /\ peerLine' = Tail(peerLine)
    /\ hostLine' \in Transmit(hostLine, Ack(Head(peerLine).t))
    /\ recvToggle' = 1 - recvToggle
    /\ waitForAnswer' = (waitForAnswer /\ waitForAck)
    /\ ProcMsg(Head(peerLine))
    /\ taken' = Append(taken, Head(peerLine).id)
    /\ pc' = "send"
    /\ UNCHANGED <<sendToggle, waitForAck, firstSync, syncMode, repeatCount,
                   repeatMsg, peerVars, sentLog, stale, skewed>>

(* A message with the other toggle bit is acknowledged and not processed,  *)
(* and it ends the open session as failed.                                 *)
RecvWrongToggle ==
    /\ pc = "recv"
    /\ ~syncMode
    /\ peerLine # <<>>
    /\ Head(peerLine) \in PeerMsg
    /\ Head(peerLine).t # recvToggle
    /\ peerLine' = Tail(peerLine)
    /\ hostLine' \in Transmit(hostLine, Ack(Head(peerLine).t))
    /\ CloseSession("failure")
    /\ pc' = "send"
    /\ UNCHANGED <<sendToggle, recvToggle, waitForAck, waitForAnswer, firstSync,
                   syncMode, repeatCount, repeatMsg, indClosesSession, queueVars,
                   peerVars, historyVars>>

(* In synchronous mode every message is processed, no ack is sent, and the *)
(* message also releases the request that waits; the loop goes on.         *)
RecvMsgSync ==
    /\ pc = "recv"
    /\ syncMode
    /\ peerLine # <<>>
    /\ Head(peerLine) \in PeerMsg
    /\ peerLine' = Tail(peerLine)
    /\ recvToggle' = 1 - recvToggle
    /\ ProcMsg(Head(peerLine))
    /\ sendToggle' = 0
    /\ waitForAck' = FALSE
    /\ waitForAnswer' = FALSE
    /\ repeatCount' = 0
    /\ repeatMsg' = None
    /\ taken' = Append(taken, Head(peerLine).id)
    /\ UNCHANGED <<pc, firstSync, syncMode, hostLine, peerVars, sentLog, stale,
                   skewed>>

(* The receive buffer holds no further complete frame.                     *)
RecvDone ==
    /\ pc = "recv"
    /\ pc' = "send"
    /\ UNCHANGED <<sendToggle, recvToggle, waitForAck, waitForAnswer, firstSync,
                   syncMode, repeatCount, repeatMsg, queueVars, sessionVars,
                   hostLine, peerLine, peerVars, historyVars>>

-----------------------------------------------------------------------------
(* drbcc_trigger, phase 2: send the next message.                          *)

LogSent(m) == sentLog' = IF m.kind = "SYNC" THEN sentLog ELSE Append(sentLog, m.id)

(* Mutant: the first queue does not wait for the ack.                      *)
SendPrioEager ==
    /\ pc = "send"
    /\ prioQueue # <<>>
    /\ SendMessage(Head(prioQueue))
    /\ LogSent(Head(prioQueue))
    /\ prioQueue' = Tail(prioQueue)
    /\ waitForAck' = TRUE
    /\ pc' = "timers"
    /\ UNCHANGED <<waitForAnswer, firstSync, syncMode, repeatCount, secQueue, nextId,
                   sessionVars, peerLine, peerVars, taken, stale>>

SendPrio ==
    /\ pc = "send"
    /\ ~waitForAck
    /\ prioQueue # <<>>
    /\ SendMessage(Head(prioQueue))
    /\ LogSent(Head(prioQueue))
    /\ prioQueue' = Tail(prioQueue)
    /\ waitForAck' = TRUE
    /\ pc' = "timers"
    /\ UNCHANGED <<waitForAnswer, firstSync, syncMode, repeatCount, secQueue, nextId,
                   sessionVars, peerLine, peerVars, taken, stale>>

SendSec ==
    /\ pc = "send"
    /\ ~waitForAck
    /\ prioQueue = <<>>
    /\ ~waitForAnswer
    /\ secQueue # <<>>
    /\ SendMessage(Head(secQueue))
    /\ LogSent(Head(secQueue))
    /\ secQueue' = Tail(secQueue)
    /\ waitForAck' = TRUE
    /\ waitForAnswer' = TRUE
    /\ pc' = "timers"
    /\ UNCHANGED <<firstSync, syncMode, repeatCount, prioQueue, nextId, sessionVars,
                   peerLine, peerVars, taken, stale>>

SendNothing ==
    /\ pc = "send"
    /\ waitForAck \/ (prioQueue = <<>> /\ (waitForAnswer \/ secQueue = <<>>))
    /\ pc' = "timers"
    /\ UNCHANGED <<sendToggle, recvToggle, waitForAck, waitForAnswer, firstSync,
                   syncMode, repeatCount, repeatMsg, queueVars, sessionVars,
                   hostLine, peerLine, peerVars, historyVars>>

-----------------------------------------------------------------------------
(* drbcc_trigger, phase 3: the answer timer, then the resend timer.        *)

(* Mutant: the answer timer runs only while an ack is awaited.             *)
AnswerTimeoutWithAck ==
    /\ pc = "timers"
    /\ waitForAnswer /\ waitForAck
    /\ waitForAnswer' = FALSE
    /\ UNCHANGED <<pc, sendToggle, recvToggle, waitForAck, firstSync, syncMode,
                   repeatCount, repeatMsg, queueVars, sessionVars, hostLine,
                   peerLine, peerVars, historyVars>>

AnswerTimeout ==
    /\ pc = "timers"
    /\ waitForAnswer
    /\ waitForAnswer' = FALSE
    /\ UNCHANGED <<pc, sendToggle, recvToggle, waitForAck, firstSync, syncMode,
                   repeatCount, repeatMsg, queueVars, sessionVars, hostLine,
                   peerLine, peerVars, historyVars>>

(* Mutant: one repetition too many.                                        *)
RepeatOnceMore ==
    /\ pc = "timers"
    /\ waitForAck
    /\ repeatCount <= MaxRepeat
    /\ repeatMsg # None
    /\ SendMessage(repeatMsg)
    /\ repeatCount' = repeatCount + 1
    /\ stale' = (stale \/ SyncPeer)
    /\ pc' = "recv"
    /\ UNCHANGED <<waitForAck, waitForAnswer, firstSync, syncMode, queueVars,
                   sessionVars, peerLine, peerVars, sentLog, taken>>

(* A repetition in the synchronous protocol can be answered twice: its     *)
(* answers carry nothing that tells them apart.                            *)
Repeat ==
    /\ pc = "timers"
    /\ waitForAck
    /\ repeatCount < MaxRepeat
    /\ repeatMsg # None
    /\ SendMessage(repeatMsg)
    /\ repeatCount' = repeatCount + 1
    /\ stale' = (stale \/ SyncPeer)
    /\ pc' = "recv"
    /\ UNCHANGED <<waitForAck, waitForAnswer, firstSync, syncMode, queueVars,
                   sessionVars, peerLine, peerVars, sentLog, taken>>

(* The message is dropped after its last repetition; the session is closed *)
(* and send_toggle stays as it is.                                         *)
GiveUp ==
    /\ pc = "timers"
    /\ waitForAck
    /\ repeatCount >= MaxRepeat
    /\ CloseSession("success")
    /\ waitForAck' = FALSE
    /\ repeatCount' = 0
    /\ repeatMsg' = None
    /\ stale' = TRUE
    /\ pc' = "recv"
    /\ UNCHANGED <<sendToggle, recvToggle, waitForAnswer, firstSync, syncMode,
                   indClosesSession, queueVars, hostLine, peerLine, peerVars,
                   sentLog, taken, skewed>>

TimersIdle ==
    /\ pc = "timers"
    /\ pc' = "recv"
    /\ UNCHANGED <<sendToggle, recvToggle, waitForAck, waitForAnswer, firstSync,
                   syncMode, repeatCount, repeatMsg, queueVars, sessionVars,
                   hostLine, peerLine, peerVars, historyVars>>

-----------------------------------------------------------------------------
(* The board controller (external).                                        *)

PeerFrameReady == hostLine # <<>>

(* An ack releases the controller's own message.                           *)
PeerRecvAck ==
    /\ PeerFrameReady
    /\ Head(hostLine) \in AckMsg
    /\ hostLine' = Tail(hostLine)
    /\ IF peerOut # None /\ Head(hostLine).t = peerTx
         THEN peerOut' = None /\ peerTx' = 1 - peerTx
         ELSE UNCHANGED <<peerOut, peerTx>>
    /\ UNCHANGED <<hostVars, queueVars, sessionVars, peerLine, peerRx, peerNextId,
                   delivered, peerSentLog, historyVars>>

(* SYNC resets both bits whatever its own bit; a message that waits for an *)
(* ack may be repeated under the new bit or dropped.                       *)
PeerRecvSync ==
    /\ PeerFrameReady
    /\ Head(hostLine).kind = "SYNC"
    /\ hostLine' = Tail(hostLine)
    /\ peerRx' = 0
    /\ peerTx' = 0
    /\ peerOut' \in {peerOut, None}
    /\ peerLine' \in Transmit(peerLine, IF SyncPeer THEN SyncAnswer
                                                    ELSE Ack(Head(hostLine).t))
    /\ UNCHANGED <<hostVars, queueVars, sessionVars, peerNextId, delivered,
                   peerSentLog, historyVars>>

(* Any other message is acknowledged with its own bit and processed when   *)
(* that bit is the expected one.                                           *)
PeerRecvMsg ==
    /\ PeerFrameReady
    /\ ~SyncPeer
    /\ Head(hostLine) \in HostMsg
    /\ Head(hostLine).kind # "SYNC"
    /\ hostLine' = Tail(hostLine)
    /\ peerLine' \in Transmit(peerLine, Ack(Head(hostLine).t))
    /\ IF Head(hostLine).t = peerRx
         THEN /\ peerRx' = 1 - peerRx
              /\ delivered' = Append(delivered, Head(hostLine).id)
         ELSE UNCHANGED <<peerRx, delivered>>
    /\ UNCHANGED <<hostVars, queueVars, sessionVars, peerTx, peerOut, peerNextId,
                   peerSentLog, historyVars>>

(* A controller in the synchronous protocol answers every message at once, *)
(* with an ack or with a message of its own.                               *)
PeerRecvMsgSync ==
    /\ PeerFrameReady
    /\ SyncPeer
    /\ Head(hostLine) \in HostMsg
    /\ Head(hostLine).kind # "SYNC"
    /\ hostLine' = Tail(hostLine)
    /\ delivered' = Append(delivered, Head(hostLine).id)
    /\ \/ /\ peerLine' \in Transmit(peerLine, Ack(Head(hostLine).t))
          /\ UNCHANGED <<peerNextId, peerSentLog>>
       \/ /\ peerNextId <= MaxPeerMsgs
          /\ \E kind \in PeerKinds :
                peerLine' \in Transmit(peerLine,
                                 [kind |-> kind, id |-> peerNextId, t |-> 0])
          /\ peerNextId' = peerNextId + 1
          /\ peerSentLog' = Append(peerSentLog, peerNextId)
    /\ UNCHANGED <<hostVars, queueVars, sessionVars, peerRx, peerTx, peerOut,
                   historyVars>>

(* The controller sends an answer or an unsolicited message.               *)
PeerSend(kind) ==
    /\ ~SyncPeer
    /\ peerOut = None
    /\ peerNextId <= MaxPeerMsgs
    /\ peerOut' = [kind |-> kind, id |-> peerNextId, t |-> peerTx]
    /\ peerLine' \in Transmit(peerLine, [kind |-> kind, id |-> peerNextId, t |-> peerTx])
    /\ peerNextId' = peerNextId + 1
    /\ peerSentLog' = Append(peerSentLog, peerNextId)
    /\ UNCHANGED <<hostVars, queueVars, sessionVars, hostLine, peerRx, peerTx,
                   delivered, historyVars>>

PeerRepeat ==
    /\ peerOut # None
    /\ peerLine' \in Transmit(peerLine, [peerOut EXCEPT !.t = peerTx])
    /\ UNCHANGED <<hostVars, queueVars, sessionVars, hostLine, peerVars, historyVars>>

-----------------------------------------------------------------------------
Receive == \/ RecvAck \/ RecvUnexpectedAck \/ RecvWrongAck \/ RecvSyncAnswer
           \/ RecvMsg \/ RecvWrongToggle \/ RecvMsgSync \/ RecvDone

Trigger == \/ Receive
           \/ SendPrio \/ SendSec \/ SendNothing
           \/ AnswerTimeout
           \/ Repeat \/ GiveUp \/ TimersIdle

Peer == \/ PeerRecvAck \/ PeerRecvSync \/ PeerRecvMsg \/ PeerRecvMsgSync
        \/ \E kind \in PeerKinds : PeerSend(kind)
        \/ PeerRepeat

Next == (\E kind \in Requests : Request(kind)) \/ Trigger \/ Peer

Spec == Init /\ [][Next]_vars

(* The application keeps calling drbcc_trigger, the loop never blocks (the *)
(* tty is opened with O_NONBLOCK) and a deadline taken from gettimeofday   *)
(* is passed by some later iteration: the timer actions are taken if they  *)
(* are enabled again and again.                                            *)
Fairness ==
    /\ WF_vars(Trigger)
    /\ SF_vars(AnswerTimeout)
    /\ SF_vars(Repeat \/ GiveUp)

FairSpec == Spec /\ Fairness

-----------------------------------------------------------------------------
(* The type invariant.                                                     *)
TypeOK ==
    /\ pc \in {"recv", "send", "timers"}
    /\ sendToggle \in Bit
    /\ recvToggle \in Bit
    /\ waitForAck \in BOOLEAN
    /\ waitForAnswer \in BOOLEAN
    /\ firstSync \in BOOLEAN
    /\ syncMode \in BOOLEAN
    /\ repeatCount \in 0..MaxRepeat
    /\ repeatMsg \in HostMsg \cup {None}
    /\ prioQueue \in Seq(HostMsg)
    /\ secQueue \in Seq(HostMsg)
    /\ session \in Nat
    /\ indClosesSession \in BOOLEAN
    /\ hostLine \in Seq(HostFrame)
    /\ peerLine \in Seq(PeerFrame)
    /\ peerRx \in Bit
    /\ peerTx \in Bit
    /\ peerOut \in PeerMsg \cup {None}
    /\ nextId \in Nat \ {0}
    /\ peerNextId \in Nat \ {0}
    /\ sentLog \in Seq(Nat)
    /\ delivered \in Seq(Nat)
    /\ peerSentLog \in Seq(Nat)
    /\ taken \in Seq(Nat)
    /\ stale \in BOOLEAN
    /\ skewed \in BOOLEAN
    /\ outcome \in {"none", "success", "failure"}

(* What libdrbcc_receive and drbcc_trigger keep true of a message between  *)
(* its first transmission and its release: wait_for_ack is set exactly     *)
(* while repeatMsg holds a message, the message carries the bit of         *)
(* send_toggle (so that its repetitions and its ack agree), and only a     *)
(* waiting message has been repeated.  Several paths release a message     *)
(* (ack, SYNC_ANSWER, a message in synchronous mode, giving up) and each   *)
(* must reset all of it.                                                   *)
PendingInv ==
    /\ waitForAck <=> repeatMsg # None
    /\ repeatMsg # None => repeatMsg.t = sendToggle
    /\ repeatCount > 0 => waitForAck

(* Toggle-bit protocol, host to controller: the controller processes every *)
(* message of the host exactly once and in the order of drbcc_trigger's    *)
(* sends, whatever is lost, repeated too early or acknowledged late, and   *)
(* also when a SYNC falls between the messages; only the message that      *)
(* waits for its ack may still be missing.  It holds until a message is    *)
(* abandoned (after the last repetition, or by a repetition in synchronous *)
(* mode) or if the line held an old ack when the tty was opened.           *)
InOrderExactlyOnce ==
    ~stale =>
       \/ delivered = sentLog
       \/ /\ repeatMsg # None
          /\ repeatMsg.kind # "SYNC"
          /\ Append(delivered, repeatMsg.id) = sentLog

(* Toggle-bit protocol, controller to host: libdrbcc_receive processes     *)
(* every message of the controller exactly once and in order; only the     *)
(* message that waits for the host's ack may be missing.  A SYNC resets    *)
(* the receive bits of both sides at different times, so that the claim is *)
(* about a link that has been synchronised.                                *)
PeerInOrderExactlyOnce ==
    ~skewed =>
       \/ taken = peerSentLog
       \/ peerOut # None /\ Append(taken, peerOut.id) = peerSentLog

(* Every message queued by libdrbcc_add_msg_prio or libdrbcc_add_msg_sec   *)
(* is eventually sent, and every message sent is eventually released: no   *)
(* loss of frames or of acks leaves wait_for_ack or wait_for_answer set.   *)
QueuesDrain ==
    /\ waitForAck ~> ~waitForAck
    /\ (prioQueue # <<>>) ~> (prioQueue = <<>>)
    /\ (secQueue # <<>>) ~> (secQueue = <<>>)

(* The message with this id is a command whose ack closes its session, and *)
(* is not yet released.                                                    *)
CommandPending(id) ==
    \/ \E i \in DOMAIN prioQueue : prioQueue[i].kind = "CMD" /\ prioQueue[i].id = id
    \/ repeatMsg.kind = "CMD" /\ repeatMsg.id = id

(* The session of a command that an ack closes (heartbeat, set_led,        *)
(* shutdown, hd_eject, debug_set) always ends, so that drbcc_session_activ *)
(* does not refuse the application's requests forever.                     *)
CommandSessionEnds ==
    \A id \in 1..MaxMsgs : (session = id /\ CommandPending(id)) ~> session # id

-----------------------------------------------------------------------------
(* Why the toggle bits work: the inductive invariant.  Read the acks on    *)
(* their way back, then the receiver's last bit, then the messages on      *)
(* their way: the bits change at most once, from the previous message's to *)
(* the current one's.                                                      *)

Frame == HostMsg \cup PeerMsg \cup AckMsg \cup {SyncAnswer}

IsAck(f) == f.kind = "ACK"
IsData(f) == f.kind \notin {"ACK", "SYNC_ANSWER"}

DataAll(line, b) == \A i \in DOMAIN line : IsData(line[i]) => line[i].t = b
DataSorted(line, b) ==
    \A i, j \in DOMAIN line :
        (i < j /\ IsData(line[i]) /\ IsData(line[j]) /\ line[i].t = b) => line[j].t = b
DataCopies(line, b, m) ==
    \A i \in DOMAIN line :
        (IsData(line[i]) /\ line[i].t = b) => line[i].kind = m.kind /\ line[i].id = m.id
AckAll(line, b) == \A i \in DOMAIN line : IsAck(line[i]) => line[i].t = b
AckSorted(line, b) ==
    \A i, j \in DOMAIN line :
        (i < j /\ IsAck(line[i]) /\ IsAck(line[j]) /\ line[i].t = b) => line[j].t = b

(* One direction: the sender's bit and unacknowledged message, the         *)
(* receiver's expected bit, the line that carries the messages, the line   *)
(* that carries the acks, the messages received and the messages sent.     *)
Alternating(bit, out, rx, dataLine, ackLine, got, log) ==
    \/ /\ out = None
       /\ rx = bit
       /\ DataAll(dataLine, 1 - bit)
       /\ AckAll(ackLine, 1 - bit)
       /\ got = log
    \/ /\ out # None
       /\ DataSorted(dataLine, bit)
       /\ AckSorted(ackLine, bit)
       /\ rx # bit => DataAll(dataLine, bit) /\ got = log
       /\ rx = bit => /\ AckAll(ackLine, 1 - bit)
                      /\ DataCopies(dataLine, bit, out)
                      /\ IF out.kind = "SYNC" THEN got = log
                                              ELSE Append(got, out.id) = log

(* The first SYNC, which has the id 1, is still queued.                    *)
Unstarted == prioQueue # <<>> /\ Head(prioQueue).id = 1

QueueInv ==
    /\ nextId >= 2
    /\ \A i \in DOMAIN prioQueue :
          /\ prioQueue[i].t = 0
          /\ i > 1 => prioQueue[i].id >= 2
          /\ prioQueue[i].id = 1 => prioQueue[i].kind = "SYNC"
    /\ \A i \in DOMAIN secQueue : secQueue[i].t = 0 /\ secQueue[i].kind = "FLASH"

(* Before the first SYNC nothing of this process is in the line.           *)
StartInv ==
    Unstarted => /\ skewed
                 /\ repeatMsg = None
                 /\ \A i \in DOMAIN hostLine : IsAck(hostLine[i])
                 /\ delivered = sentLog
                 /\ ~stale => \A i \in DOMAIN peerLine : ~IsAck(peerLine[i])

(* No frame is sent that the protocol mode excludes.                       *)
ModeInv ==
    /\ ~SyncPeer => /\ ~syncMode
                    /\ \A i \in DOMAIN peerLine : peerLine[i].kind # "SYNC_ANSWER"
    /\ \A i \in DOMAIN hostLine : hostLine[i].kind = "SYNC" => hostLine[i].t = 1
    /\ repeatMsg.kind = "SYNC" => repeatMsg.t = 1
    /\ ~skewed => /\ ~SyncPeer
                  /\ repeatMsg.kind # "SYNC"
                  /\ \A i \in DOMAIN hostLine : hostLine[i].kind # "SYNC"

HostAlternates ==
    (~stale /\ ~SyncPeer /\ ~Unstarted) =>
        Alternating(sendToggle, repeatMsg, peerRx, hostLine, peerLine, delivered, sentLog)

PeerAlternates ==
    ~skewed =>
        Alternating(peerTx, peerOut, recvToggle, peerLine, hostLine, taken, peerSentLog)

LinkInv == /\ PendingInv /\ QueueInv /\ StartInv /\ ModeInv
           /\ HostAlternates /\ PeerAlternates

=============================================================================
