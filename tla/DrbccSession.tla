---------------------------- MODULE DrbccSession ----------------------------
(***************************************************************************)
(* The requests of the application (lib/drbcc_utils.c, drbcc_debug_get and *)
(* drbcc_debug_set of lib/drbcc_files.c), what libdrbcc_proc_ack_msg and   *)
(* libdrbcc_proc_msg do with what comes back, and the session between the  *)
(* two: one function, one command, one way to end.  The raw flash requests *)
(* are cut into chunks; the clock is set and read in BCD registers.        *)
(*                                                                         *)
(* The link is the one that DrbccLink shows: messages arrive once and in   *)
(* order, one unacknowledged at a time.  The board controller is external. *)
(* The application has registered its callbacks; the file requests, which  *)
(* use the same flash commands, are in DrbccFlash and DrbccLog.            *)
(***************************************************************************)
EXTENDS Naturals, Sequences

CONSTANTS
    Chunk,          \* bytes of one flash message (128 in the code)
    BlockSize,      \* bytes of one flash block (4096 in the code)
    NumBlocks,      \* blocks of the flash
    Transfers,      \* the <<addr, len>> that the application reads and writes
    Times,          \* the times that it sets
    MaxOps,         \* bound: requests
    MaxEvents,      \* bound: messages that the controller sends by itself
    MaxFaults       \* bound: faults

FlashSize == NumBlocks * BlockSize
Address == 0..(FlashSize - 1)

(* struct tm, in the order of the registers; year counts from 1900.        *)
Tm == [sec : 0..59, min : 0..59, hour : 0..23, wday : 0..6, mday : 1..31, mon : 0..11,
       year : 100..299]

(* A chunk is not shorter than the longest other message, the seven        *)
(* registers of the clock; the application asks for parts of the flash.    *)
ASSUME SessionAssumption ==
    /\ Chunk \in Nat /\ Chunk >= 7
    /\ BlockSize \in Nat \ {0}
    /\ NumBlocks \in Nat \ {0}
    /\ Transfers \subseteq Nat \X (Nat \ {0})
    /\ \A t \in Transfers : t[1] + t[2] <= FlashSize
    /\ Times \subseteq Tm
    /\ MaxOps \in Nat
    /\ MaxEvents \in Nat
    /\ MaxFaults \in Nat

(* The commands, by what ends their session: the acknowledgement, a status *)
(* (indClosesSession), the answer, or the last of several flash results.   *)
AckEnds == {"SYNC", "DEBUG_SET", "HEARTBEAT", "SET_LED", "SHUTDOWN", "HD_EJECT"}
StatusEnds == {"SET_GPO", "STATUS", "HD_ONOFF", "GPI_POWER"}
AnswerEnds == {"PROTOCOL_VERSION", "RTC_READ", "RTC_SET", "EXTFLASH_ID", "FW_INVALIDATE",
               "BCTRL_RESTART", "BL_UPDATE", "ID_DATA", "DEBUG_GET"}
FlashCommands == {"READ", "WRITE", "ERASE"}
Commands == AckEnds \cup StatusEnds \cup AnswerEnds \cup FlashCommands

(* What the controller sends by itself.  EVENT stands for those that only  *)
(* call a callback: DRBCC_IND_ACCEL_EVENT, DRBCC_HDD_OFF_REQ,              *)
(* DRBCC_IND_FW_UPDATE_STARTED and unknown ones.                           *)
Events == {"STATUS", "ASK_PROTOCOL_VERSION", "EVENT"}

(* A message: op is the request that it belongs to, 0 for none; ok is      *)
(* FALSE when it is shorter than libdrbcc_proc_msg expects.                *)
Msg(cmd, op, addr, bytes) ==
    [cmd |-> cmd, op |-> op, addr |-> addr, len |-> Len(bytes), bytes |-> bytes, ok |-> TRUE]
ReadMsg(op, addr, len) ==
    [cmd |-> "READ", op |-> op, addr |-> addr, len |-> len, bytes |-> <<>>, ok |-> TRUE]
None == Msg("NONE", 0, 0, <<>>)
Ack == Msg("ACK", 0, 0, <<>>)

VARIABLES
    \* the handle
    session,            \* session
    indClosesSession,   \* indClosesSession
    prioQueue,          \* prioQueue
    secQueue,           \* secQueue
    waiting,            \* the message that waits for its ack
    waitForAnswer,      \* wait_for_answer
    raw,                \* flashAddr, flashLen, flashPos, flashData
    alive,              \* FALSE: flashData was read through NULL
    \* the controller
    peer,               \* requests it has received and not executed
    ackDue,             \* it owes an acknowledgement
    line,               \* its messages on their way to the host
    flash,              \* the flash
    rtc,                \* the registers of the clock, and the request that set them
    ops, events, faults,
    \* history
    job,                \* the request that opened the session
    undisturbed,        \* it began with nothing under way, and neither a fault nor a
                        \* status of the controller's own came since
    mixed,              \* some request began while an earlier one was not over
    answered,           \* its own ack or answer has come
    refused,            \* some request was refused
    got,                \* what read_flash_cb was given in this session
    clock,              \* what rtc_cb was given, and which request set it
    timeOf              \* timeOf[n]: the time that request n set

rawVars == <<raw, alive>>
hostVars == <<session, indClosesSession, prioQueue, secQueue, waiting, waitForAnswer, rawVars>>
peerVars == <<peer, ackDue, flash, rtc>>
countVars == <<ops, events, faults>>
historyVars == <<job, undisturbed, mixed, answered, refused, got, clock, timeOf>>
vars == <<hostVars, peerVars, line, countVars, historyVars>>

NoJob == [cmd |-> "NONE", addr |-> 0, len |-> 0, before |-> <<>>]
NoClock == [tm |-> <<>>, by |-> 0]

Init ==
    /\ session = 0
    /\ indClosesSession = FALSE
    /\ prioQueue = <<>>
    /\ secQueue = <<>>
    /\ waiting = None
    /\ waitForAnswer = FALSE
    /\ raw = [addr |-> 0, len |-> 0, data |-> <<>>]
    /\ alive = TRUE
    /\ peer = <<>>
    /\ ackDue = FALSE
    /\ line = <<>>
    /\ flash = [a \in Address |-> 1000 + a]
    /\ rtc = [regs |-> <<0, 0, 0, 1, 1, 1, 0>>, by |-> 0]
    /\ ops = 0
    /\ events = 0
    /\ faults = 0
    /\ job = NoJob
    /\ undisturbed = TRUE
    /\ mixed = FALSE
    /\ answered = FALSE
    /\ refused = FALSE
    /\ got = <<>>
    /\ clock = NoClock
    /\ timeOf = [n \in 1..MaxOps |-> <<>>]

-----------------------------------------------------------------------------
(* Conversions of the clock.                                               *)

bin2bcd(n) == ((n \div 10) * 16) + (n % 10)
bcd2bin(b) == ((b \div 16) * 10) + (b % 16)

CenturyBit == 128

(* The registers that drbcc_set_rtc sends.                                 *)
Registers(t) ==
    << bin2bcd(t.sec), bin2bcd(t.min), bin2bcd(t.hour), bin2bcd(t.wday + 1), bin2bcd(t.mday),
       bin2bcd(t.mon + 1) + (IF t.year > 199 THEN CenturyBit ELSE 0), bin2bcd(t.year % 100) >>

(* Mutant: the century bit is taken for a part of the month.               *)
TimeWithoutCentury(g) ==
    [sec |-> bcd2bin(g[1]), min |-> bcd2bin(g[2]), hour |-> bcd2bin(g[3] % 64),
     wday |-> bcd2bin(g[4]) - 1, mday |-> bcd2bin(g[5]), mon |-> bcd2bin(g[6]) - 1,
     year |-> bcd2bin(g[7]) + 100]

(* What libdrbcc_proc_msg makes of them: g % 64 is g & 0x3f.               *)
Time(g) ==
    [sec |-> bcd2bin(g[1]), min |-> bcd2bin(g[2]), hour |-> bcd2bin(g[3] % 64),
     wday |-> bcd2bin(g[4]) - 1, mday |-> bcd2bin(g[5]), mon |-> bcd2bin(g[6] % 32) - 1,
     year |-> bcd2bin(g[7]) + 100 + (IF g[6] >= CenturyBit THEN 100 ELSE 0)]

-----------------------------------------------------------------------------
(* The requests.  Each is refused while a session is active.               *)

(* Nothing of an earlier request is under way or left over.                *)
Idle == /\ prioQueue = <<>> /\ secQueue = <<>> /\ waiting = None /\ peer = <<>> /\ line = <<>>
        /\ raw.len = 0 /\ ~indClosesSession

Begin(cmd, addr, len) ==
    /\ session = 0
    /\ ops < MaxOps
    /\ ops' = ops + 1
    /\ session' = ops + 1
    /\ job' = [cmd |-> cmd, addr |-> addr, len |-> len, before |-> flash]
    /\ undisturbed' = Idle
    /\ mixed' = (mixed \/ ~Idle)
    /\ answered' = FALSE
    /\ got' = <<>>
    /\ UNCHANGED <<waiting, waitForAnswer, alive, peerVars, line, events, faults, refused, clock>>

Request(cmd) ==
    /\ Begin(cmd, 0, 0)
    /\ prioQueue' = Append(prioQueue, Msg(cmd, ops + 1, 0, <<>>))
    /\ indClosesSession' = (indClosesSession \/ cmd \in StatusEnds)
    /\ UNCHANGED <<secQueue, raw, timeOf>>

drbcc_sync == Request("SYNC")
drbcc_req_protocol == Request("PROTOCOL_VERSION")
drbcc_req_rtc == Request("RTC_READ")
drbcc_heartbeat == Request("HEARTBEAT")
drbcc_shutdown == Request("SHUTDOWN")
drbcc_set_gpo == Request("SET_GPO")
drbcc_set_led == Request("SET_LED")
drbcc_get_status == Request("STATUS")
drbcc_get_id_data == Request("ID_DATA")
drbcc_eject_hd == Request("HD_EJECT")
drbcc_hd_power == Request("HD_ONOFF")
drbcc_gpi_power == Request("GPI_POWER")
drbcc_req_flash_id == Request("EXTFLASH_ID")
drbcc_invalidate_bctrl_fw == Request("FW_INVALIDATE")
drbcc_restart_bctrl == Request("BCTRL_RESTART")
drbcc_request_bootloader_update == Request("BL_UPDATE")
drbcc_debug_set == Request("DEBUG_SET")
drbcc_debug_get == Request("DEBUG_GET")

drbcc_set_rtc(t) ==
    /\ Begin("RTC_SET", 0, 0)
    /\ prioQueue' = Append(prioQueue, Msg("RTC_SET", ops + 1, 0, Registers(t)))
    /\ timeOf' = [timeOf EXCEPT ![ops + 1] = t]
    /\ UNCHANGED <<indClosesSession, secQueue, raw>>

(* Mutant: a read is not cut into chunks.                                  *)
FlashReadWhole(op, addr, len) ==
    /\ secQueue' = Append(secQueue, ReadMsg(op, addr, len))
    /\ raw' = [raw EXCEPT !.addr = addr + len, !.len = 0]

(* Mutant: a read behind the first one starts where the first one did.     *)
FlashReadAgain(op, addr, len) ==
    LET size == IF len >= Chunk THEN Chunk ELSE len % Chunk
    IN /\ secQueue' = Append(secQueue, ReadMsg(op, addr, size))
       /\ raw' = [raw EXCEPT !.addr = addr, !.len = len - size]

(* libdrbcc_req_flash_read                                                 *)
FlashRead(op, addr, len) ==
    LET size == IF len >= Chunk THEN Chunk ELSE len % Chunk
    IN /\ secQueue' = Append(secQueue, ReadMsg(op, addr, size))
       /\ raw' = [raw EXCEPT !.addr = addr + size, !.len = len - size]

drbcc_req_flash_read(addr, len) ==
    /\ Begin("READ", addr, len)
    /\ FlashRead(ops + 1, addr, len)
    /\ UNCHANGED <<indClosesSession, prioQueue, timeOf>>

(* The bytes that request n writes, and what lies behind them in memory.   *)
Beyond == 9999
Bytes(n, len) == [k \in 1..len |-> (100 * n) + k]
FirstOf(s, size) == [k \in 1..size |-> IF k <= Len(s) THEN s[k] ELSE Beyond]
RestOf(s, size) == SubSeq(s, size + 1, Len(s))

(* Mutant: the first part is not cut at the next boundary.                 *)
FirstSizeAnywhere(addr, len) == IF len >= Chunk THEN Chunk ELSE len

(* The first part of a write ends at the next boundary, even when it is    *)
(* shorter than that.                                                      *)
FirstSize(addr, len) ==
    IF addr % Chunk # 0 THEN Chunk - (addr % Chunk)
    ELSE IF len >= Chunk THEN Chunk ELSE len

(* drbcc_req_flash_write: an odd range is refused, with the session open;  *)
(* flashLen is only set when there is more than one part.                  *)
drbcc_req_flash_write(addr, len) ==
    LET data == Bytes(ops + 1, len)
        size == FirstSize(addr, len)
        odd == addr % 2 # 0 \/ len % 2 # 0
    IN /\ session = 0
       /\ ops < MaxOps
       /\ ops' = ops + 1
       /\ session' = ops + 1
       /\ job' = [cmd |-> "WRITE", addr |-> addr, len |-> len, before |-> flash]
       /\ undisturbed' = Idle
       /\ mixed' = (mixed \/ ~Idle)
       /\ answered' = FALSE
       /\ got' = <<>>
       /\ refused' = (refused \/ odd)
       /\ secQueue' = IF odd THEN secQueue
                      ELSE Append(secQueue, Msg("WRITE", ops + 1, addr, FirstOf(data, size)))
       /\ raw' = IF odd \/ len <= size THEN raw
                 ELSE [addr |-> addr + size, len |-> len - size, data |-> RestOf(data, size)]
       /\ UNCHANGED <<indClosesSession, prioQueue, waiting, waitForAnswer, alive, peerVars, line,
                      events, faults, clock, timeOf>>

drbcc_req_flash_erase_block(block) ==
    /\ Begin("ERASE", block, 0)
    /\ secQueue' = Append(secQueue, Msg("ERASE", ops + 1, block, <<>>))
    /\ UNCHANGED <<indClosesSession, prioQueue, raw, timeOf>>

-----------------------------------------------------------------------------
(* drbcc_trigger: one message at a time is unacknowledged, and one of the  *)
(* second queue unanswered.                                                *)

Send(m) ==
    /\ waiting' = m
    /\ peer' = Append(peer, m)
    /\ ackDue' = TRUE
    /\ UNCHANGED <<session, indClosesSession, rawVars, flash, rtc, line, countVars, historyVars>>

SendPrio ==
    /\ waiting = None
    /\ prioQueue # <<>>
    /\ prioQueue' = Tail(prioQueue)
    /\ Send(Head(prioQueue))
    /\ UNCHANGED <<secQueue, waitForAnswer>>

SendSec ==
    /\ waiting = None
    /\ prioQueue = <<>>
    /\ ~waitForAnswer
    /\ secQueue # <<>>
    /\ secQueue' = Tail(secQueue)
    /\ waitForAnswer' = TRUE
    /\ Send(Head(secQueue))
    /\ UNCHANGED prioQueue

(* The answer timer expires.                                               *)
AnswerTimeout ==
    /\ waitForAnswer
    /\ waitForAnswer' = FALSE
    /\ UNCHANGED <<session, indClosesSession, prioQueue, secQueue, waiting, rawVars, peerVars, line,
                   countVars, historyVars>>

(* No acknowledgement after the last repetition: the message is given up,  *)
(* which the controller has not received.                                  *)
GiveUp ==
    /\ ackDue
    /\ faults < MaxFaults
    /\ faults' = faults + 1
    /\ waiting' = None
    /\ ackDue' = FALSE
    /\ peer' = SubSeq(peer, 1, Len(peer) - 1)
    /\ session' = 0
    /\ undisturbed' = FALSE
    /\ UNCHANGED <<indClosesSession, prioQueue, secQueue, waitForAnswer, rawVars, flash, rtc, line,
                   ops, events, job, mixed, answered, refused, got, clock, timeOf>>

-----------------------------------------------------------------------------
(* The controller (external).                                              *)

PeerAck ==
    /\ ackDue
    /\ ackDue' = FALSE
    /\ line' = Append(line, Ack)
    /\ UNCHANGED <<hostVars, peer, flash, rtc, countVars, historyVars>>

(* The flash and the clock after a request, and the answer to it.          *)
FlashAfter(m) ==
    IF m.cmd = "WRITE"
      THEN [a \in Address |-> IF a \in m.addr..(m.addr + m.len - 1) THEN m.bytes[a - m.addr + 1]
                              ELSE flash[a]]
    ELSE IF m.cmd = "ERASE" THEN [a \in Address |-> IF a \div BlockSize = m.addr THEN 0 ELSE flash[a]]
    ELSE flash

RtcAfter(m) == IF m.cmd = "RTC_SET" THEN [regs |-> m.bytes, by |-> m.op] ELSE rtc

AnswerTo(m) ==
    IF m.cmd = "READ"
      THEN [m EXCEPT !.bytes = [k \in 1..m.len |-> flash[m.addr + k - 1]]]
    ELSE IF m.cmd \in {"RTC_READ", "RTC_SET"}
      THEN [m EXCEPT !.bytes = RtcAfter(m).regs, !.addr = RtcAfter(m).by]
    ELSE IF m.cmd \in StatusEnds THEN [m EXCEPT !.cmd = "STATUS"]
    ELSE m

PeerExecute ==
    /\ ~ackDue
    /\ peer # <<>>
    /\ peer' = Tail(peer)
    /\ flash' = FlashAfter(Head(peer))
    /\ rtc' = RtcAfter(Head(peer))
    /\ line' = IF Head(peer).cmd \in AckEnds \cup {"REPLY"} THEN line
               ELSE Append(line, AnswerTo(Head(peer)))
    /\ UNCHANGED <<hostVars, ackDue, countVars, historyVars>>

(* It answers with DRBCC_SYNC_CMD_ERROR, or too short a message.           *)
PeerFails(answer) ==
    /\ ~ackDue
    /\ peer # <<>>
    /\ faults < MaxFaults
    /\ faults' = faults + 1
    /\ peer' = Tail(peer)
    /\ line' = Append(line, answer)
    /\ undisturbed' = FALSE
    /\ UNCHANGED <<hostVars, ackDue, flash, rtc, ops, events, job, mixed, answered, got, clock, timeOf>>

PeerRefuses ==
    /\ PeerFails(Msg("SYNC_CMD_ERROR", 0, 0, <<>>))
    /\ refused' = TRUE

PeerAnswersShort ==
    /\ peer # <<>> /\ Head(peer).cmd \notin AckEnds \cup {"REPLY"}
    /\ PeerFails([AnswerTo(Head(peer)) EXCEPT !.ok = FALSE])
    /\ UNCHANGED refused

(* A message of its own.                                                   *)
PeerEvent(cmd) ==
    /\ events < MaxEvents
    /\ events' = events + 1
    /\ line' = Append(line, Msg(cmd, 0, 0, <<>>))
    /\ undisturbed' = (undisturbed /\ cmd # "STATUS")
    /\ UNCHANGED <<hostVars, peerVars, ops, faults, job, mixed, answered, refused, got, clock, timeOf>>

-----------------------------------------------------------------------------
(* libdrbcc_receive                                                        *)

(* Mutants: every ack ends the session; that of HD_EJECT does not.         *)
AckClosesAll(cmd) == TRUE
AckClosesFewer(cmd) == cmd \in AckEnds \ {"HD_EJECT"}

AckCloses(cmd) == cmd \in AckEnds

(* libdrbcc_proc_ack_msg                                                   *)
RecvAck ==
    /\ line # <<>>
    /\ Head(line) = Ack
    /\ line' = Tail(line)
    /\ waiting' = None
    /\ session' = IF AckCloses(waiting.cmd) THEN 0 ELSE session
    /\ answered' = (answered \/ (waiting.cmd \in AckEnds /\ waiting.op = session))
    /\ UNCHANGED <<indClosesSession, prioQueue, secQueue, waitForAnswer, rawVars, peerVars, countVars,
                   job, undisturbed, mixed, refused, got, clock, timeOf>>

(* A message, processed by libdrbcc_proc_msg.                              *)
Recv(m) ==
    /\ line # <<>>
    /\ Head(line) = m
    /\ line' = Tail(line)
    /\ waitForAnswer' = (waitForAnswer /\ waiting # None)
    /\ answered' = (answered \/ (m.op = session /\ m.op # 0))
    /\ UNCHANGED <<waiting, peerVars, countVars, job, undisturbed, mixed, refused, timeOf>>

(* The answers that call a callback and end the session.                   *)
RecvAnswer(m) ==
    /\ m.cmd \in AnswerEnds \ {"RTC_READ", "RTC_SET"} \/ m.cmd = "ERASE"
    /\ Recv(m)
    /\ session' = 0
    /\ UNCHANGED <<indClosesSession, prioQueue, secQueue, rawVars, got, clock>>

RecvRtc(m) ==
    /\ m.cmd \in {"RTC_READ", "RTC_SET"}
    /\ Recv(m)
    /\ clock' = IF m.ok THEN [tm |-> Time(m.bytes), by |-> m.addr] ELSE clock
    /\ session' = 0
    /\ UNCHANGED <<indClosesSession, prioQueue, secQueue, rawVars, got>>

(* A status ends any session once the request is acknowledged, and that of *)
(* a request for a status at any time.                                     *)
StatusCloses == waiting = None \/ indClosesSession

RecvStatus(m) ==
    /\ m.cmd = "STATUS"
    /\ Recv(m)
    /\ IF StatusCloses THEN session' = 0 /\ indClosesSession' = FALSE
       ELSE UNCHANGED <<session, indClosesSession>>
    /\ UNCHANGED <<prioQueue, secQueue, rawVars, got, clock>>

RecvRead(m) ==
    /\ m.cmd = "READ"
    /\ Recv(m)
    /\ got' = IF m.ok THEN got \o m.bytes ELSE got
    /\ IF m.ok /\ raw.len # 0
         THEN FlashRead(m.op, raw.addr, raw.len) /\ UNCHANGED session
         ELSE session' = 0 /\ UNCHANGED <<secQueue, raw>>
    /\ UNCHANGED <<indClosesSession, prioQueue, alive, clock>>

(* libdrbcc_flash_write, for what is left                                  *)
FlashWrite(op) ==
    LET size == IF raw.len >= Chunk THEN Chunk ELSE raw.len
    IN /\ secQueue' = Append(secQueue, Msg("WRITE", op, raw.addr, FirstOf(raw.data, size)))
       /\ raw' = [addr |-> raw.addr + size, len |-> raw.len - size,
                  data |-> RestOf(raw.data, size)]
       /\ alive' = (raw.data # <<>>)

RecvWrite(m) ==
    /\ m.cmd = "WRITE"
    /\ Recv(m)
    /\ IF m.ok /\ raw.len # 0 THEN FlashWrite(m.op) /\ UNCHANGED session
       ELSE /\ session' = 0
            /\ raw' = IF m.ok THEN [raw EXCEPT !.data = <<>>] ELSE raw
            /\ UNCHANGED <<secQueue, alive>>
    /\ UNCHANGED <<indClosesSession, prioQueue, got, clock>>

(* REQ_PROTOCOL_VERSION of the controller is answered.                     *)
RecvAsk(m) ==
    /\ m.cmd = "ASK_PROTOCOL_VERSION"
    /\ Recv(m)
    /\ prioQueue' = Append(prioQueue, Msg("REPLY", 0, 0, <<>>))
    /\ UNCHANGED <<session, indClosesSession, secQueue, rawVars, got, clock>>

(* Messages that only call a callback.                                     *)
RecvOther(m) ==
    /\ m.cmd \in {"EVENT", "SYNC_CMD_ERROR"}
    /\ Recv(m)
    /\ UNCHANGED <<session, indClosesSession, prioQueue, secQueue, rawVars, got, clock>>

(* A message of the controller is repeated: it only ends the session.      *)
ToggleError ==
    /\ faults < MaxFaults
    /\ session # 0
    /\ faults' = faults + 1
    /\ session' = 0
    /\ undisturbed' = FALSE
    /\ UNCHANGED <<indClosesSession, prioQueue, secQueue, waiting, waitForAnswer, rawVars, peerVars,
                   line, ops, events, job, mixed, answered, refused, got, clock, timeOf>>

-----------------------------------------------------------------------------
SimpleRequest ==
    \/ drbcc_sync \/ drbcc_req_protocol \/ drbcc_req_rtc \/ drbcc_heartbeat \/ drbcc_shutdown
    \/ drbcc_set_gpo \/ drbcc_set_led \/ drbcc_get_status \/ drbcc_get_id_data \/ drbcc_eject_hd
    \/ drbcc_hd_power \/ drbcc_gpi_power \/ drbcc_req_flash_id \/ drbcc_invalidate_bctrl_fw
    \/ drbcc_restart_bctrl \/ drbcc_request_bootloader_update \/ drbcc_debug_set \/ drbcc_debug_get

FlashRequest ==
    \/ \E t \in Transfers : drbcc_req_flash_read(t[1], t[2]) \/ drbcc_req_flash_write(t[1], t[2])
    \/ \E b \in 0..(NumBlocks - 1) : drbcc_req_flash_erase_block(b)

Trigger ==
    \/ SendPrio \/ SendSec \/ AnswerTimeout \/ RecvAck
    \/ \E m \in {Head(line) : k \in 1..Len(line)} :
          \/ RecvAnswer(m) \/ RecvRtc(m) \/ RecvStatus(m) \/ RecvRead(m)
          \/ RecvWrite(m) \/ RecvAsk(m) \/ RecvOther(m)

Peer == PeerAck \/ PeerExecute

Fault == GiveUp \/ PeerRefuses \/ PeerAnswersShort \/ ToggleError

Next ==
    /\ alive
    /\ \/ SimpleRequest
       \/ FlashRequest
       \/ \E t \in Times : drbcc_set_rtc(t)
       \/ Trigger
       \/ Peer
       \/ Fault
       \/ \E e \in Events : PeerEvent(e)

Spec == Init /\ [][Next]_vars

(* The application calls drbcc_trigger; the controller acks and answers.   *)
FairSpec == Spec /\ WF_vars(alive /\ Trigger) /\ WF_vars(alive /\ Peer)

-----------------------------------------------------------------------------
Message == [cmd : Commands \cup Events \cup {"NONE", "ACK", "REPLY", "SYNC_CMD_ERROR"},
            op : 0..MaxOps, addr : Nat, len : 0..Chunk, bytes : Seq(Nat), ok : BOOLEAN]

(* The type invariant.  A flash message is never longer than a chunk.      *)
TypeOK ==
    /\ session \in 0..MaxOps
    /\ indClosesSession \in BOOLEAN
    /\ prioQueue \in Seq(Message)
    /\ secQueue \in Seq(Message)
    /\ waiting \in Message
    /\ waitForAnswer \in BOOLEAN
    /\ raw \in [addr : Nat, len : Nat, data : Seq(Nat)]
    /\ alive \in BOOLEAN
    /\ peer \in Seq(Message)
    /\ ackDue \in BOOLEAN
    /\ line \in Seq(Message)
    /\ flash \in [Address -> Nat]
    /\ rtc.regs \in Seq(0..255) /\ rtc.by \in 0..MaxOps
    /\ undisturbed \in BOOLEAN
    /\ mixed \in BOOLEAN
    /\ answered \in BOOLEAN
    /\ refused \in BOOLEAN
    /\ got \in Seq(Nat)

Closes == session # 0 /\ session' = 0

(* A session that nothing disturbed is only reported as ended once its own *)
(* acknowledgement or answer has come: session_cb is never early.          *)
EndsWithItsAnswer == [][Closes /\ undisturbed' => answered']_vars

(* An application that sees the session of a raw transfer end finds what   *)
(* it asked for: all bytes read, in order; the bytes written or the block  *)
(* erased and the rest of the flash as it was.  (A write that starts off a *)
(* boundary and ends in front of the next one writes more than that.)      *)
Fits(addr, len) == addr % Chunk = 0 \/ len >= Chunk - (addr % Chunk)

TransferExact ==
    [][ Closes /\ undisturbed' =>
          LET range == job.addr..(job.addr + job.len - 1)
          IN /\ job.cmd = "READ" => got' = [k \in 1..job.len |-> job.before[job.addr + k - 1]]
             /\ job.cmd = "WRITE" /\ Fits(job.addr, job.len) =>
                   \A a \in Address :
                      flash'[a] = IF a \in range THEN Bytes(session, job.len)[a - job.addr + 1]
                                  ELSE job.before[a]
             /\ job.cmd = "ERASE" =>
                   \A a \in Address :
                      flash'[a] = IF a \div BlockSize = job.addr THEN 0 ELSE job.before[a]
      ]_vars

(* A message of DRBCC_REQ_EXTFLASH_WRITE may end at a boundary of Chunk    *)
(* bytes and never crosses one, so that a page of the flash is not wrapped *)
(* around, and what is left of a write is never taken from a flashData     *)
(* that is gone.  Excluded are requests that overlap, or that find the     *)
(* rest of a transfer that was ended early (mixed): the code continues     *)
(* that rest.  The comment in drbcc_ll.h asks for more, "adrl + len < 256":*)
(* that does not hold of the second half of a page, adrl = len = 128.      *)
WithinPage ==
    ~mixed =>
       /\ alive
       /\ \A i \in DOMAIN secQueue :
             secQueue[i].cmd = "WRITE" => (secQueue[i].addr % Chunk) + secQueue[i].len <= Chunk

(* The time that rtc_cb reports is the one that the request set, at both   *)
(* ends of the two centuries that the registers know.                      *)
RtcRoundTrip == clock.by # 0 => clock.tm = timeOf[clock.by]

(* Every session ends, with two exclusions.  refused: a request was        *)
(* refused, by the controller, whose DRBCC_SYNC_CMD_ERROR ends nothing, or *)
(* by drbcc_req_flash_write, which opens the session before it looks at    *)
(* the range.  ~alive: the process has ended, since the rest of a transfer *)
(* was taken from a flashData that is gone.  The result that session_cb    *)
(* reports is not looked at: a request that was given up ends as a success. *)
SessionEnds == \A n \in 1..MaxOps : (session = n) ~> (session # n \/ refused \/ ~alive)
=============================================================================
