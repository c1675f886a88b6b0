----------------------------- MODULE DrbccFrame -----------------------------
(***************************************************************************)
(* The frames of the serial line (lib/drbcc.c), byte by byte: what         *)
(* libdrbcc_send_message writes (START, the escaped message and its CRC,   *)
(* STOP) and how libdrbcc_receive reads it back, in pieces of any size,    *)
(* through readbuf.  The controller frames its messages in the same way    *)
(* (external).  The line may damage one byte of the stream: invert bits of *)
(* it, lose it, or show one between two frames that nobody has sent.       *)
(***************************************************************************)
EXTENDS Naturals, Sequences, SequencesExt, Bitwise

CONSTANTS
    Payloads,       \* the messages, as sequences of bytes
    MaxFrames,      \* bound: frames sent
    BufSize,        \* the size of readbuf (DRBCC_MAX_PAYLOAD in the code)
    Masks,          \* which bits of a byte the line may invert together
    Noise           \* the bytes that may show up between two frames

Byte == 0..255
START == 250
STOP == 251
ESC == 252
ToggleMask == 128

ASSUME FrameAssumption ==
    /\ Payloads \subseteq Seq(Byte) \ {<<>>}
    /\ MaxFrames \in Nat
    /\ BufSize \in Nat \ {0}
    /\ Masks \subseteq Byte \ {0}
    /\ Noise \subseteq Byte

CrcLen == 2
CrcStart == 65535

(* Mutant: data << 4 is not cut off at eight bits.                         *)
CrcUpdateWide(crc, byte) ==
    LET low == byte ^^ (crc % 256)
        data == low ^^ (low * 16)
    IN (((data * 256) + (crc \div 256)) ^^ (data \div 16)) ^^ (data * 8)

(* libdrbcc_crc_ccitt_update                                               *)
CrcUpdate(crc, byte) ==
    LET low == byte ^^ (crc % 256)
        data == low ^^ ((low * 16) % 256)
    IN (((data * 256) + (crc \div 256)) ^^ (data \div 16)) ^^ (data * 8)

Crc(bytes) ==
    LET crc[i \in 0..Len(bytes)] ==
          IF i = 0 THEN CrcStart ELSE CrcUpdate(crc[i - 1], bytes[i])
    IN crc[Len(bytes)]

(* libdrbcc_usart_send_esc_byte                                            *)
Escaped(b) == IF b \in {START, STOP, ESC} THEN <<ESC, 255 - b>> ELSE <<b>>

(* What libdrbcc_send_message writes.                                      *)
Frame(p) ==
    LET body == p \o <<Crc(p) % 256, Crc(p) \div 256>>
    IN <<START>> \o FlattenSeq([i \in DOMAIN body |-> Escaped(body[i])]) \o <<STOP>>

VARIABLES
    line,           \* bytes in the line and in the tty
    readbuf,        \* readbuf, up to bufend
    bufstart,       \* bufstart
    receiving,      \* libdrbcc_receive is in its loop
    escaped,        \* escaped
    waitForStop,    \* wait_for_stop_char
    crc,            \* crc
    msg,            \* cur_msg
    \* history
    sent,           \* the messages sent
    accepted,       \* the messages that libdrbcc_receive took
    hurt            \* the damaged frame, or the one in front of the noise; 0 for none

rxVars == <<escaped, waitForStop, crc, msg, accepted>>
bufVars == <<readbuf, bufstart, receiving>>
vars == <<line, bufVars, rxVars, sent, hurt>>

(* memset in drbcc_open                                                    *)
Init ==
    /\ line = <<>>
    /\ readbuf = <<>>
    /\ bufstart = 0
    /\ receiving = FALSE
    /\ escaped = FALSE
    /\ waitForStop = FALSE
    /\ crc = 0
    /\ msg = <<>>
    /\ sent = <<>>
    /\ accepted = <<>>
    /\ hurt = 0

-----------------------------------------------------------------------------
(* The sender and the line.  Everything is sent before the first byte is   *)
(* read: Receive takes any part of what is in the line, so this leaves out *)
(* nothing that libdrbcc_receive can see.                                  *)

Sending == readbuf = <<>> /\ Len(sent) < MaxFrames

SendMessage(p) ==
    /\ Sending
    /\ sent' = Append(sent, p)
    /\ line' = line \o Frame(p)
    /\ UNCHANGED <<bufVars, rxVars, hurt>>

(* One byte of the frame is changed, or lost.                              *)
SendDamaged(p) ==
    LET frame == Frame(p)
    IN /\ Sending
       /\ hurt = 0
       /\ sent' = Append(sent, p)
       /\ hurt' = Len(sent')
       /\ \E i \in DOMAIN frame :
             \/ \E x \in Masks : line' = line \o ReplaceAt(frame, i, frame[i] ^^ x)
             \/ line' = line \o RemoveAt(frame, i)
       /\ UNCHANGED <<bufVars, rxVars>>

(* A byte that nobody has sent follows a frame.                            *)
Disturb(b) ==
    /\ Sending
    /\ sent # <<>>
    /\ hurt = 0
    /\ hurt' = Len(sent)
    /\ line' = Append(line, b)
    /\ UNCHANGED <<bufVars, rxVars, sent>>

-----------------------------------------------------------------------------
(* libdrbcc_receive: it reads what there is room for, nothing when readbuf *)
(* is full, and then takes byte by byte until the buffer is empty or a     *)
(* message other than an acknowledgement has come.                         *)

Left == Len(readbuf) - bufstart

Receive(n) ==
    /\ ~receiving
    /\ n <= Len(line)
    /\ n <= IF Left = 0 THEN BufSize ELSE BufSize - Len(readbuf)
    /\ receiving' = (Left + n > 0)
    /\ readbuf' = (IF Left = 0 THEN <<>> ELSE readbuf) \o SubSeq(line, 1, n)
    /\ bufstart' = IF Left = 0 THEN 0 ELSE bufstart
    /\ line' = SubSeq(line, n + 1, Len(line))
    /\ UNCHANGED <<rxVars, sent, hurt>>

date == readbuf[bufstart + 1]

(* The loop goes on with the next byte, or ends.                           *)
Take(goOn) ==
    /\ receiving
    /\ bufstart' = bufstart + 1
    /\ receiving' = (goOn /\ Left > 1)
    /\ UNCHANGED <<line, readbuf, sent, hurt>>

TakeEsc ==
    /\ Take(TRUE)
    /\ date = ESC
    /\ escaped' = TRUE
    /\ UNCHANGED <<waitForStop, crc, msg, accepted>>

(* Mutant: START leaves the CRC as it is.                                  *)
StartKeepsCrc == msg' = <<>> /\ UNCHANGED crc

StartMessage == msg' = <<>> /\ crc' = CrcStart

TakeStart ==
    /\ Take(TRUE)
    /\ ~escaped
    /\ date = START
    /\ StartMessage
    /\ waitForStop' = TRUE
    /\ UNCHANGED <<escaped, accepted>>

(* Mutant: the CRC is not looked at.                                       *)
CompleteByLength == Len(msg) > CrcLen

(* The message is long enough and its CRC, taken over itself, is 0.        *)
Complete == Len(msg) > CrcLen /\ crc = 0

IsAck == msg[1] \in {0, ToggleMask}
Content == SubSeq(msg, 1, Len(msg) - CrcLen)

AtStop == receiving /\ ~escaped /\ date = STOP

(* An unexpected STOP, or a message that is too short.                     *)
TakeStopIgnored ==
    /\ Take(TRUE)
    /\ AtStop
    /\ ~waitForStop \/ Len(msg) <= CrcLen
    /\ waitForStop' = FALSE
    /\ UNCHANGED <<escaped, crc, msg, accepted>>

TakeStopCrcError ==
    /\ Take(FALSE)
    /\ AtStop
    /\ waitForStop /\ Len(msg) > CrcLen /\ ~Complete
    /\ waitForStop' = FALSE
    /\ UNCHANGED <<escaped, crc, msg, accepted>>

(* An acknowledgement is cleared when one was waited for; the loop goes on *)
(* unless its toggle bit is wrong.                                         *)
TakeStopAck ==
    /\ AtStop
    /\ waitForStop /\ Complete /\ IsAck
    /\ waitForStop' = FALSE
    /\ accepted' = Append(accepted, Content)
    /\ \E goOn \in BOOLEAN :
          /\ Take(goOn)
          /\ msg' \in IF goOn THEN {msg, <<>>} ELSE {msg}
    /\ UNCHANGED <<escaped, crc>>

(* Any other message loses its CRC and is processed, and receive returns;  *)
(* in the synchronous protocol it goes on, and behind DRBCC_SYNC_ANSWER,   *)
(* which is cleared.                                                       *)
TakeStopMessage ==
    /\ AtStop
    /\ waitForStop /\ Complete /\ ~IsAck
    /\ waitForStop' = FALSE
    /\ accepted' = Append(accepted, Content)
    /\ \E goOn \in BOOLEAN :
          /\ Take(goOn)
          /\ msg' \in IF goOn THEN {Content, <<>>} ELSE {Content}
    /\ UNCHANGED <<escaped, crc>>

(* An escaped byte is inverted.                                            *)
Unescaped == IF escaped THEN 255 - date ELSE date

TakeData ==
    /\ Take(TRUE)
    /\ date # ESC
    /\ escaped \/ date \notin {START, STOP}
    /\ escaped' = FALSE
    /\ crc' = CrcUpdate(crc, Unescaped)
    /\ msg' = Append(msg, Unescaped)
    /\ UNCHANGED <<waitForStop, accepted>>

-----------------------------------------------------------------------------
ReceiveStep ==
    \/ \E n \in 0..BufSize : Receive(n)
    \/ TakeEsc \/ TakeStart \/ TakeData
    \/ TakeStopIgnored \/ TakeStopCrcError \/ TakeStopAck \/ TakeStopMessage

Next ==
    \/ \E p \in Payloads : SendMessage(p) \/ SendDamaged(p)
    \/ \E b \in Noise : Disturb(b)
    \/ ReceiveStep

Spec == Init /\ [][Next]_vars

-----------------------------------------------------------------------------
(* The type invariant.                                                     *)
TypeOK ==
    /\ line \in Seq(Byte)
    /\ readbuf \in Seq(Byte) /\ Len(readbuf) <= BufSize
    /\ bufstart \in 0..Len(readbuf)
    /\ receiving \in BOOLEAN /\ (receiving => Left > 0)
    /\ escaped \in BOOLEAN
    /\ waitForStop \in BOOLEAN
    /\ crc \in 0..65535
    /\ msg \in Seq(Byte)
    /\ sent \in Seq(Payloads)
    /\ accepted \in Seq(Seq(Byte))
    /\ hurt \in 0..MaxFrames

(* The sequence s without the elements at some positions.                  *)
Without(s, lost) ==
    LET kept == {i \in DOMAIN s : i \notin lost}
    IN [k \in 1..Cardinality(kept) |->
           s[CHOOSE i \in kept : Cardinality({j \in kept : j <= i}) = k]]

(* Whatever happened to one byte of the line, libdrbcc_receive takes only  *)
(* messages that were sent, in their order and none of them twice.         *)
OnlySent == \E lost \in SUBSET DOMAIN sent : accepted = Without(sent, lost)

Drained == line = <<>> /\ Left = 0

(* Once the line is drained, all messages have been taken except perhaps   *)
(* the damaged one and the one behind it: wait_for_stop_char, escaped and  *)
(* cur_msg, which outlive a frame, do no harm to later ones.               *)
Recovers ==
    Drained => \E lost \in SUBSET ({hurt, hurt + 1} \cap DOMAIN sent) :
                  /\ hurt = 0 => lost = {}
                  /\ accepted = Without(sent, lost)
=============================================================================
