------------------------- MODULE DrbccSessionProofs -------------------------
(***************************************************************************)
(* What DrbccSession promises, proved for every Chunk, flash, set of       *)
(* transfers and times and number of requests: the types, the round trip   *)
(* of the clock, that a session ends with its own answer, that a write     *)
(* stays within its page and that a raw transfer does what it was asked.   *)
(***************************************************************************)
EXTENDS DrbccSession, TLAPS

(* The messages that n requests may have sent: a write is as long as it    *)
(* says, a read is within the flash, and a set clock command holds the     *)
(* registers of the time that its request was given.                       *)
SoundMsg(n, times) ==
    { m \in Message :
        /\ m.op \in 0..n
        /\ m.cmd = "WRITE" => m.len = Len(m.bytes)
        /\ m.cmd = "READ" => m.addr + m.len <= FlashSize
        /\ m.cmd = "RTC_SET" =>
              m.op # 0 /\ times[m.op] \in Tm /\ m.bytes = Registers(times[m.op]) }

(* The answers: addr is the request that set the clock.                    *)
SoundAnswer(n, times) ==
    { m \in Message :
        /\ m.op \in 0..n
        /\ m.cmd \in {"RTC_READ", "RTC_SET"} =>
              /\ m.addr \in 0..n
              /\ m.addr # 0 => times[m.addr] \in Tm /\ m.bytes = Registers(times[m.addr]) }

Sound ==
    /\ ops \in 0..MaxOps
    /\ session <= ops
    /\ timeOf \in [1..MaxOps -> Tm \cup {<<>>}]
    /\ prioQueue \in Seq(SoundMsg(ops, timeOf))
    /\ secQueue \in Seq(SoundMsg(ops, timeOf))
    /\ peer \in Seq(SoundMsg(ops, timeOf))
    /\ line \in Seq(SoundAnswer(ops, timeOf))
    /\ rtc \in [regs : Seq(0..255), by : 0..ops]
    /\ rtc.by # 0 => timeOf[rtc.by] \in Tm /\ rtc.regs = Registers(timeOf[rtc.by])
    /\ clock.by \in 0..ops
    /\ raw.addr + raw.len <= FlashSize

(* The messages that session n may meet: all commands are its own.         *)
OwnMsg(n) == { m \in Message : m.cmd \in Commands => m.op = n }

Own ==
    session # 0 /\ undisturbed =>
       /\ prioQueue \in Seq(OwnMsg(session))
       /\ secQueue \in Seq(OwnMsg(session))
       /\ waiting \in OwnMsg(session)
       /\ peer \in Seq(OwnMsg(session))
       /\ line \in Seq(OwnMsg(session))

(* The messages of a job: only its own raw transfer is under way, and each *)
(* part of a write is within a page.                                       *)
InPage(m) == (m.addr % Chunk) + m.len <= Chunk
JobMsg(cmd) == { m \in Message : /\ m.cmd \in {"READ", "WRITE"} => m.cmd = cmd }
PartMsg(cmd) == { m \in JobMsg(cmd) : m.cmd = "WRITE" => InPage(m) }

Paged ==
    ~mixed =>
       /\ alive
       /\ prioQueue \in Seq(JobMsg(job.cmd))
       /\ secQueue \in Seq(PartMsg(job.cmd))
       /\ peer \in Seq(JobMsg(job.cmd))
       /\ line \in Seq(JobMsg(job.cmd))
       /\ job.cmd = "WRITE" /\ raw.len # 0 =>
             Len(raw.data) = raw.len /\ raw.addr % Chunk = 0

(* A raw transfer that nothing disturbed: at most one of its messages is   *)
(* under way, and what it says fits to the flash, to what is left of the   *)
(* request and to what read_flash_cb has been given.                       *)
Aside == { m \in Message : m.cmd \notin Commands }
AtMostOne(q) == \A i, j \in DOMAIN q : q[i].cmd \in Commands /\ q[j].cmd \in Commands => i = j

(* The part m of a transfer ends where what is left of it begins.          *)
Joins(m) ==
    /\ m.addr >= job.addr
    /\ m.addr + m.len + raw.len = job.addr + job.len
    /\ raw.len # 0 => raw.addr = m.addr + m.len

Reading(m) ==
    /\ Joins(m)
    /\ flash = job.before
    /\ job.addr + Len(got) = m.addr
    /\ \A k \in 1..Len(got) : got[k] = job.before[job.addr + k - 1]

(* The k-th byte that the application writes; in f all of job j, which is  *)
(* request n, is written up to x.                                          *)
Data(k) == Bytes(session, job.len)[k]
Written(f, j, n, x) ==
    \A a \in Address :
       f[a] = IF a \in j.addr..(x - 1) THEN Bytes(n, j.len)[a - j.addr + 1] ELSE j.before[a]

Writing(m) ==
    /\ Joins(m)
    /\ m.len = Len(m.bytes)
    /\ \A k \in 1..m.len : m.bytes[k] = Data(m.addr - job.addr + k)
    /\ raw.len # 0 => /\ Len(raw.data) = raw.len
                      /\ \A k \in 1..raw.len : raw.data[k] = Data(raw.addr - job.addr + k)

Asked ==
    { m \in Message : m.cmd \in Commands =>
        /\ m.cmd = job.cmd /\ m.ok
        /\ m.cmd = "READ" => Reading(m)
        /\ m.cmd = "WRITE" /\ Fits(job.addr, job.len) =>
              Writing(m) /\ Written(flash, job, session, m.addr)
        /\ m.cmd = "ERASE" => m.addr = job.addr /\ flash = job.before }

Answered ==
    { m \in Message : m.cmd \in Commands =>
        /\ m.cmd = job.cmd /\ m.ok
        /\ m.cmd = "READ" => /\ Reading(m)
                             /\ Len(m.bytes) = m.len
                             /\ \A k \in 1..m.len : m.bytes[k] = job.before[m.addr + k - 1]
        /\ m.cmd = "WRITE" /\ Fits(job.addr, job.len) =>
              Writing(m) /\ Written(flash, job, session, m.addr + m.len)
        /\ m.cmd = "ERASE" =>
              \A a \in Address : flash[a] = IF a \div BlockSize = job.addr THEN 0 ELSE job.before[a] }

(* Where the one message is: queued, with the controller, or on its way    *)
(* back.                                                                   *)
OneUnderWay ==
    /\ prioQueue \in Seq(Aside)
    /\ Len(secQueue) <= 1
    /\ secQueue # <<>> => peer \in Seq(Aside) /\ line \in Seq(Aside)
    /\ peer \in Seq(Aside) \/ line \in Seq(Aside)
    /\ AtMostOne(peer) /\ AtMostOne(line)

Exact ==
    session # 0 /\ undisturbed /\ job.cmd \in FlashCommands =>
       /\ job.addr \in Nat /\ job.len \in Nat /\ job.before \in [Address -> Nat]
       /\ waiting.cmd \notin AckEnds
       /\ OneUnderWay
       /\ secQueue \in Seq(Asked)
       /\ peer \in Seq(Asked)
       /\ line \in Seq(Answered)

-----------------------------------------------------------------------------
(* The clock: what the registers hold is read back.                        *)

(* Two decimal digits survive the conversion to BCD and back.              *)
LEMMA BcdRoundTrip ==
    ASSUME NEW n \in 0..99
    PROVE  /\ bin2bcd(n) \in 0..153
           /\ bcd2bin(bin2bcd(n)) = n
  <1> DEFINE d == n \div 10
             e == n % 10
  <1>1. d \in 0..9 /\ e \in 0..9 /\ n = (d * 10) + e
    OBVIOUS
  <1>2. bin2bcd(n) = (d * 16) + e
    BY DEF bin2bcd
  <1> HIDE DEF d, e
  <1>3. ((d * 16) + e) \div 16 = d /\ ((d * 16) + e) % 16 = e
    BY <1>1
  <1> QED
    BY <1>1, <1>2, <1>3 DEF bcd2bin

(* The hour and the month fit under the masks of libdrbcc_proc_msg.        *)
LEMMA SmallBcd ==
    /\ \A n \in 0..23 : bin2bcd(n) \in 0..63
    /\ \A n \in 1..12 : bin2bcd(n) \in 0..31
  BY DEF bin2bcd

LEMMA RegistersType ==
    ASSUME NEW t \in Tm
    PROVE  /\ Registers(t) \in Seq(0..255)
           /\ Registers(t) \in Seq(Nat)
           /\ Len(Registers(t)) = 7
  <1>1. /\ t.sec \in 0..99 /\ t.min \in 0..99 /\ t.hour \in 0..99 /\ t.wday + 1 \in 0..99
        /\ t.mday \in 0..99 /\ t.mon + 1 \in 1..12 /\ t.year % 100 \in 0..99
    BY DEF Tm
  <1>2. /\ bin2bcd(t.sec) \in 0..255 /\ bin2bcd(t.min) \in 0..255 /\ bin2bcd(t.hour) \in 0..255
        /\ bin2bcd(t.wday + 1) \in 0..255 /\ bin2bcd(t.mday) \in 0..255
        /\ bin2bcd(t.year % 100) \in 0..255
    <2>1. \A n \in 0..99 : bin2bcd(n) \in 0..255
      BY DEF bin2bcd
    <2> QED
      BY <1>1, <2>1
  <1>3. bin2bcd(t.mon + 1) + (IF t.year > 199 THEN CenturyBit ELSE 0) \in 0..255
    BY <1>1, SmallBcd DEF CenturyBit
  <1> QED
    BY <1>2, <1>3 DEF Registers

(* What drbcc_set_rtc sends is what libdrbcc_proc_msg makes of it.         *)
LEMMA TimeOfRegisters ==
    ASSUME NEW t \in Tm
    PROVE  Time(Registers(t)) = t
  <1> DEFINE g == Registers(t)
             century == IF t.year > 199 THEN CenturyBit ELSE 0
  <1>1. /\ t.sec \in 0..99 /\ t.min \in 0..99 /\ t.hour \in 0..23 /\ t.wday + 1 \in 0..99
        /\ t.mday \in 0..99 /\ t.mon + 1 \in 1..12 /\ t.year % 100 \in 0..99
        /\ t.wday \in 0..6 /\ t.mon \in 0..11 /\ t.year \in 100..299
    BY DEF Tm
  <1>2. /\ g[1] = bin2bcd(t.sec) /\ g[2] = bin2bcd(t.min) /\ g[3] = bin2bcd(t.hour)
        /\ g[4] = bin2bcd(t.wday + 1) /\ g[5] = bin2bcd(t.mday)
        /\ g[6] = bin2bcd(t.mon + 1) + century /\ g[7] = bin2bcd(t.year % 100)
    BY DEF Registers
  <1> HIDE DEF g
  <1>3. /\ bcd2bin(g[1]) = t.sec /\ bcd2bin(g[2]) = t.min
        /\ bcd2bin(g[4]) - 1 = t.wday /\ bcd2bin(g[5]) = t.mday
        /\ bcd2bin(g[7]) = t.year % 100
    <2>1. /\ bcd2bin(bin2bcd(t.sec)) = t.sec /\ bcd2bin(bin2bcd(t.min)) = t.min
          /\ bcd2bin(bin2bcd(t.mday)) = t.mday
          /\ bcd2bin(bin2bcd(t.year % 100)) = t.year % 100
      BY <1>1, BcdRoundTrip
    <2>2. bcd2bin(bin2bcd(t.wday + 1)) = t.wday + 1 /\ t.wday \in 0..6
      BY <1>1, BcdRoundTrip
    <2> QED
      BY <1>2, <2>1, <2>2
  <1>4. bcd2bin(g[3] % 64) = t.hour
    <2>1. bin2bcd(t.hour) \in 0..63
      BY <1>1, SmallBcd
    <2>2. g[3] % 64 = bin2bcd(t.hour)
      BY <1>2, <2>1
    <2> QED
      BY <1>1, <2>2, BcdRoundTrip
  <1>5. bcd2bin(g[6] % 32) - 1 = t.mon
    <2>1. bin2bcd(t.mon + 1) \in 0..31
      BY <1>1, SmallBcd
    <2>2. g[6] % 32 = bin2bcd(t.mon + 1)
      BY <1>2, <2>1 DEF CenturyBit
    <2>3. bcd2bin(bin2bcd(t.mon + 1)) = t.mon + 1
      BY <1>1, BcdRoundTrip
    <2> QED
      BY <1>1, <2>2, <2>3
  <1>6. (g[6] >= CenturyBit) <=> (t.year > 199)
    <2>1. bin2bcd(t.mon + 1) \in 0..31
      BY <1>1, SmallBcd
    <2> QED
      BY <1>1, <1>2, <2>1 DEF CenturyBit
  <1>7. (t.year % 100) + 100 + (IF g[6] >= CenturyBit THEN 100 ELSE 0) = t.year
    BY <1>1, <1>6
  <1>8. t = [sec |-> t.sec, min |-> t.min, hour |-> t.hour, wday |-> t.wday, mday |-> t.mday,
             mon |-> t.mon, year |-> t.year]
    BY DEF Tm
  <1>9. (bcd2bin(g[7]) + 100) + (IF g[6] >= CenturyBit THEN 100 ELSE 0) = t.year
    BY <1>3, <1>7
  <1>10. Time(g) = [sec |-> t.sec, min |-> t.min, hour |-> t.hour, wday |-> t.wday,
                    mday |-> t.mday, mon |-> t.mon, year |-> t.year]
    BY <1>3, <1>4, <1>5, <1>9, Zenon DEF Time
  <1> QED
    BY <1>8, <1>10 DEF g

-----------------------------------------------------------------------------
(* Sequences.                                                              *)

LEMMA EmptySeq == ASSUME NEW S PROVE <<>> \in Seq(S)
  OBVIOUS

LEMMA AppendSeq ==
    ASSUME NEW S, NEW s \in Seq(S), NEW e \in S
    PROVE  Append(s, e) \in Seq(S)
  OBVIOUS

LEMMA HeadTailSeq ==
    ASSUME NEW S, NEW s \in Seq(S), s # <<>>
    PROVE  Head(s) \in S /\ Tail(s) \in Seq(S)
  OBVIOUS

LEMMA WiderSeq ==
    ASSUME NEW S, NEW T, S \subseteq T, NEW s \in Seq(S)
    PROVE  s \in Seq(T)
  OBVIOUS

LEMMA ElementsSeq ==
    ASSUME NEW S, NEW T, NEW s \in Seq(T), \A i \in 1..Len(s) : s[i] \in S
    PROVE  s \in Seq(S)
  OBVIOUS

LEMMA ConcatSeq ==
    ASSUME NEW S, NEW s \in Seq(S), NEW t \in Seq(S)
    PROVE  s \o t \in Seq(S)
  OBVIOUS

LEMMA FrontSeq ==
    ASSUME NEW S, NEW s \in Seq(S)
    PROVE  SubSeq(s, 1, Len(s) - 1) \in Seq(S)
  OBVIOUS

(* What is left of a write, and its next part.                             *)
LEMMA RestSeq ==
    ASSUME NEW s \in Seq(Nat), NEW size \in Nat
    PROVE  /\ RestOf(s, size) \in Seq(Nat)
           /\ size <= Len(s) => Len(RestOf(s, size)) = Len(s) - size
  BY DEF RestOf

LEMMA FirstSeq ==
    ASSUME NEW s \in Seq(Nat), NEW size \in Nat
    PROVE  /\ FirstOf(s, size) \in Seq(Nat)
           /\ Len(FirstOf(s, size)) = size
  BY DEF FirstOf, Beyond

LEMMA BytesSeq ==
    ASSUME NEW n \in Nat, NEW len \in Nat
    PROVE  Bytes(n, len) \in Seq(Nat) /\ Len(Bytes(n, len)) = len
  BY DEF Bytes

-----------------------------------------------------------------------------
(* Messages.                                                               *)

Kinds == Commands \cup Events \cup {"NONE", "ACK", "REPLY", "SYNC_CMD_ERROR"}

LEMMA KindsDistinct ==
    /\ AckEnds \subseteq Kinds /\ StatusEnds \subseteq Kinds /\ AnswerEnds \subseteq Kinds
    /\ FlashCommands \subseteq Kinds /\ Commands \subseteq Kinds /\ Events \subseteq Kinds
    /\ {"NONE", "ACK", "REPLY", "SYNC_CMD_ERROR"} \subseteq Kinds
    /\ \A c \in AckEnds \cup StatusEnds : c \notin AnswerEnds \cup FlashCommands
    /\ \A c \in {"NONE", "ACK", "REPLY", "SYNC_CMD_ERROR", "ASK_PROTOCOL_VERSION", "EVENT"} :
          c \notin Commands
    /\ "RTC_SET" \in AnswerEnds /\ "RTC_READ" \in AnswerEnds /\ "STATUS" \in StatusEnds
    /\ "READ" \in FlashCommands /\ "WRITE" \in FlashCommands /\ "ERASE" \in FlashCommands
    /\ \A c \in AckEnds \cup StatusEnds \cup AnswerEnds : c \notin FlashCommands
  BY DEF Kinds, Commands, AckEnds, StatusEnds, AnswerEnds, FlashCommands, Events

LEMMA SizesType ==
    /\ Chunk \in Nat /\ Chunk >= 7 /\ MaxOps \in Nat
    /\ FlashSize \in Nat /\ Address = 0..(FlashSize - 1)
  <1>1. BlockSize \in Nat /\ NumBlocks \in Nat
    BY SessionAssumption
  <1>2. NumBlocks * BlockSize \in Nat
    BY <1>1
  <1> QED
    BY <1>2, SessionAssumption DEF FlashSize, Address

LEMMA MsgType ==
    ASSUME NEW cmd \in Kinds, NEW op \in 0..MaxOps, NEW addr \in Nat, NEW bytes \in Seq(Nat),
           Len(bytes) <= Chunk
    PROVE  /\ Msg(cmd, op, addr, bytes) \in Message
           /\ Msg(cmd, op, addr, bytes).cmd = cmd
           /\ Msg(cmd, op, addr, bytes).op = op
           /\ Msg(cmd, op, addr, bytes).addr = addr
           /\ Msg(cmd, op, addr, bytes).bytes = bytes
           /\ Msg(cmd, op, addr, bytes).len = Len(bytes)
  <1>1. Len(bytes) \in 0..Chunk
    BY SizesType
  <1> QED
    BY <1>1 DEF Msg, Message, Kinds

LEMMA ReadMsgType ==
    ASSUME NEW op \in 0..MaxOps, NEW addr \in Nat, NEW len \in 0..Chunk
    PROVE  /\ ReadMsg(op, addr, len) \in Message
           /\ ReadMsg(op, addr, len).cmd = "READ"
           /\ ReadMsg(op, addr, len).op = op
           /\ ReadMsg(op, addr, len).addr = addr
           /\ ReadMsg(op, addr, len).len = len
  BY KindsDistinct DEF ReadMsg, Message, Kinds

LEMMA EmptyMsgType ==
    ASSUME NEW cmd \in Kinds
    PROVE  /\ Msg(cmd, 0, 0, <<>>) \in Message
           /\ Msg(cmd, 0, 0, <<>>).cmd = cmd
           /\ Msg(cmd, 0, 0, <<>>).op = 0
  <1>1. 0 \in 0..MaxOps /\ 0 \in 0..Chunk
    BY SizesType
  <1> QED
    BY <1>1, EmptySeq DEF Msg, Message, Kinds

LEMMA NoneType == None \in Message /\ None.cmd = "NONE" /\ None.op = 0
  <1>1. "NONE" \in Kinds /\ 0 \in 0..MaxOps /\ 0 \in 0..Chunk
    BY KindsDistinct, SizesType
  <1> QED
    BY <1>1, EmptySeq DEF None, Msg, Message, Kinds

LEMMA AckType == Ack \in Message /\ Ack.cmd = "ACK" /\ Ack.op = 0
  <1>1. "ACK" \in Kinds /\ 0 \in 0..MaxOps /\ 0 \in 0..Chunk
    BY KindsDistinct, SizesType
  <1> QED
    BY <1>1, EmptySeq DEF Ack, Msg, Message, Kinds

-----------------------------------------------------------------------------
(* Sound messages.                                                         *)

LEMMA SoundIsMessage ==
    \A n, times : SoundMsg(n, times) \subseteq Message /\ SoundAnswer(n, times) \subseteq Message
  BY DEF SoundMsg, SoundAnswer

(* An empty message, a set clock command, a read and a write are sound.    *)
LEMMA EmptySound ==
    ASSUME NEW n \in 0..MaxOps, NEW times, NEW cmd \in Kinds \ {"READ", "RTC_SET"},
           NEW op \in 0..n, NEW addr \in Nat
    PROVE  Msg(cmd, op, addr, <<>>) \in SoundMsg(n, times)
  <1>1. op \in 0..MaxOps /\ Len(<<>>) \in 0..Chunk
    BY SizesType
  <1>2. /\ Msg(cmd, op, addr, <<>>) \in Message
        /\ Msg(cmd, op, addr, <<>>).cmd = cmd
        /\ Msg(cmd, op, addr, <<>>).op = op
        /\ Msg(cmd, op, addr, <<>>).len = Len(Msg(cmd, op, addr, <<>>).bytes)
    BY <1>1, EmptySeq DEF Msg, Message, Kinds
  <1> QED
    BY <1>2 DEF SoundMsg

LEMMA SetSound ==
    ASSUME NEW n \in 1..MaxOps, NEW times, NEW t \in Tm, times[n] = t
    PROVE  Msg("RTC_SET", n, 0, Registers(t)) \in SoundMsg(n, times)
  <1>1. "RTC_SET" \in Kinds
    BY KindsDistinct
  <1>2. n \in 0..MaxOps /\ Len(Registers(t)) <= Chunk
    <2>1. Len(Registers(t)) = 7
      BY RegistersType
    <2> QED
      BY <2>1, SizesType
  <1> QED
    BY <1>1, <1>2, MsgType, RegistersType DEF SoundMsg

LEMMA ReadSound ==
    ASSUME NEW n \in 0..MaxOps, NEW times, NEW op \in 0..n, NEW addr \in Nat, NEW len \in 0..Chunk,
           addr + len <= FlashSize
    PROVE  ReadMsg(op, addr, len) \in SoundMsg(n, times)
  <1>1. op \in 0..MaxOps
    BY SizesType
  <1> QED
    BY <1>1, ReadMsgType DEF SoundMsg

LEMMA WriteSound ==
    ASSUME NEW n \in 0..MaxOps, NEW times, NEW op \in 0..n, NEW addr \in Nat,
           NEW bytes \in Seq(Nat), Len(bytes) <= Chunk
    PROVE  Msg("WRITE", op, addr, bytes) \in SoundMsg(n, times)
  <1>1. op \in 0..MaxOps /\ "WRITE" \in Kinds
    BY SizesType, KindsDistinct
  <1> QED
    BY <1>1, MsgType DEF SoundMsg

(* A new request leaves the messages of the earlier ones sound.            *)
LEMMA SoundGrows ==
    ASSUME NEW n \in Nat, NEW times, NEW times2, \A k \in 1..n : times2[k] = times[k]
    PROVE  /\ SoundMsg(n, times) \subseteq SoundMsg(n + 1, times2)
           /\ SoundAnswer(n, times) \subseteq SoundAnswer(n + 1, times2)
  <1>1. ASSUME NEW m \in SoundMsg(n, times) PROVE m \in SoundMsg(n + 1, times2)
    <2>1. m.op \in 0..(n + 1) /\ (m.op # 0 => times2[m.op] = times[m.op])
      BY DEF SoundMsg
    <2> QED
      BY <2>1 DEF SoundMsg
  <1>2. ASSUME NEW m \in SoundAnswer(n, times) PROVE m \in SoundAnswer(n + 1, times2)
    <2> m.op \in 0..(n + 1)
      BY DEF SoundAnswer
    <2>1. CASE m.cmd \in {"RTC_READ", "RTC_SET"}
      <3>1. m.addr \in 0..(n + 1) /\ (m.addr # 0 => times2[m.addr] = times[m.addr])
        BY <2>1 DEF SoundAnswer
      <3> QED
        BY <2>1, <3>1 DEF SoundAnswer
    <2>2. CASE m.cmd \notin {"RTC_READ", "RTC_SET"}
      BY <2>2 DEF SoundAnswer
    <2> QED
      BY <2>1, <2>2
  <1> QED
    BY <1>1, <1>2

(* The invariant at the beginning.                                         *)
LEMMA InitSound == Init => TypeOK /\ Sound
  <1> SUFFICES ASSUME Init PROVE TypeOK /\ Sound
    OBVIOUS
  <1>1. /\ <<0, 0, 0, 1, 1, 1, 0>> \in Seq(0..255)
        /\ [a \in Address |-> 1000 + a] \in [Address -> Nat]
        /\ [n \in 1..MaxOps |-> <<>>] \in [1..MaxOps -> Tm \cup {<<>>}]
    BY SizesType
  <1>2. TypeOK
    <2>1. rtc.regs \in Seq(0..255) /\ rtc.by \in 0..MaxOps
      BY <1>1, SizesType DEF Init
    <2>2. /\ <<>> \in Seq(Message) /\ <<>> \in Seq(Nat) /\ 0 \in 0..MaxOps
          /\ [addr |-> 0, len |-> 0, data |-> <<>>] \in [addr : Nat, len : Nat, data : Seq(Nat)]
      BY SizesType, EmptySeq
    <2> QED
      BY <1>1, <2>1, <2>2, NoneType DEF Init, TypeOK
  <1>3. Sound
    BY <1>1, SizesType, EmptySeq DEF Init, Sound, NoClock
  <1> QED
    BY <1>2, <1>3

-----------------------------------------------------------------------------
(* A request keeps Sound.                                                  *)

Simple == (AckEnds \cup StatusEnds \cup AnswerEnds) \ {"RTC_SET"}

LEMMA SimpleRequests == SimpleRequest => \E c \in Simple : Request(c)
  BY DEF SimpleRequest, Simple, AckEnds, StatusEnds, AnswerEnds, drbcc_sync, drbcc_req_protocol,
         drbcc_req_rtc, drbcc_heartbeat, drbcc_shutdown, drbcc_set_gpo, drbcc_set_led,
         drbcc_get_status, drbcc_get_id_data, drbcc_eject_hd, drbcc_hd_power, drbcc_gpi_power,
         drbcc_req_flash_id, drbcc_invalidate_bctrl_fw, drbcc_restart_bctrl,
         drbcc_request_bootloader_update, drbcc_debug_set, drbcc_debug_get

(* The queues hold messages.                                               *)
LEMMA QueuesTyped ==
    ASSUME NEW n, NEW times, NEW q
    PROVE  /\ q \in Seq(SoundMsg(n, times)) => q \in Seq(Message)
           /\ q \in Seq(SoundAnswer(n, times)) => q \in Seq(Message)
  BY SoundIsMessage, WiderSeq

(* What every request leaves as it was is sound for one request more.      *)
LEMMA BeginKeeps ==
    ASSUME TypeOK, Sound, session = 0, ops < MaxOps, ops' = ops + 1, session' = ops + 1,
           timeOf' \in [1..MaxOps -> Tm \cup {<<>>}], \A k \in 1..ops : timeOf'[k] = timeOf[k],
           UNCHANGED <<peer, line, rtc, clock>>
    PROVE  /\ ops' \in 1..MaxOps /\ session' \in 0..MaxOps /\ session' <= ops'
           /\ prioQueue \in Seq(SoundMsg(ops', timeOf'))
           /\ secQueue \in Seq(SoundMsg(ops', timeOf'))
           /\ peer' \in Seq(SoundMsg(ops', timeOf'))
           /\ line' \in Seq(SoundAnswer(ops', timeOf'))
           /\ rtc' \in [regs : Seq(0..255), by : 0..ops']
           /\ rtc'.by # 0 => timeOf'[rtc'.by] \in Tm /\ rtc'.regs = Registers(timeOf'[rtc'.by])
           /\ rtc'.regs \in Seq(0..255) /\ rtc'.by \in 0..MaxOps
           /\ clock'.by \in 0..ops'
  <1>1. ops' \in 1..MaxOps /\ session' \in 0..MaxOps /\ session' <= ops' /\ ops \in Nat
    BY SizesType DEF Sound
  <1>2. /\ SoundMsg(ops, timeOf) \subseteq SoundMsg(ops', timeOf')
        /\ SoundAnswer(ops, timeOf) \subseteq SoundAnswer(ops', timeOf')
    BY <1>1, SoundGrows
  <1>3. /\ prioQueue \in Seq(SoundMsg(ops', timeOf')) /\ secQueue \in Seq(SoundMsg(ops', timeOf'))
        /\ peer \in Seq(SoundMsg(ops', timeOf'))
    BY <1>2, WiderSeq DEF Sound
  <1>4. line \in Seq(SoundAnswer(ops', timeOf'))
    BY <1>2, WiderSeq DEF Sound
  <1>5. /\ rtc' \in [regs : Seq(0..255), by : 0..ops']
        /\ rtc'.by # 0 => timeOf'[rtc'.by] \in Tm /\ rtc'.regs = Registers(timeOf'[rtc'.by])
        /\ rtc'.regs \in Seq(0..255) /\ rtc'.by \in 0..MaxOps
    <2>1. rtc.regs \in Seq(0..255) /\ rtc.by \in 0..ops /\ rtc.by \in 0..MaxOps
          /\ rtc = [regs |-> rtc.regs, by |-> rtc.by]
      BY DEF Sound, TypeOK
    <2>2. rtc.by # 0 => timeOf'[rtc.by] = timeOf[rtc.by]
      BY <2>1
    <2>3. rtc.by \in 0..ops'
      BY <1>1, <2>1
    <2>4. rtc' \in [regs : Seq(0..255), by : 0..ops']
      BY <2>1, <2>3
    <2>5. rtc'.by # 0 => timeOf'[rtc'.by] \in Tm /\ rtc'.regs = Registers(timeOf'[rtc'.by])
      BY <2>2 DEF Sound
    <2> QED
      BY <2>1, <2>4, <2>5
  <1>6. clock'.by \in 0..ops'
    BY <1>1 DEF Sound
  <1> QED
    BY <1>1, <1>3, <1>4, <1>5, <1>6

(* A request that queues sound messages keeps Sound.                       *)
LEMMA BeginSound ==
    ASSUME TypeOK, Sound, session = 0, ops < MaxOps, ops' = ops + 1, session' = ops + 1,
           timeOf' \in [1..MaxOps -> Tm \cup {<<>>}], \A k \in 1..ops : timeOf'[k] = timeOf[k],
           UNCHANGED <<peer, line, rtc, clock, flash, waiting, ackDue, waitForAnswer, alive>>,
           prioQueue' \in Seq(SoundMsg(ops', timeOf')), secQueue' \in Seq(SoundMsg(ops', timeOf')),
           raw' \in [addr : Nat, len : Nat, data : Seq(Nat)], raw'.addr + raw'.len <= FlashSize,
           indClosesSession' \in BOOLEAN, undisturbed' = Idle, mixed' = (mixed \/ ~Idle),
           answered' = FALSE, got' = <<>>, refused' \in BOOLEAN
    PROVE  TypeOK' /\ Sound'
  <1>1. /\ ops' \in 1..MaxOps /\ session' \in 0..MaxOps /\ session' <= ops'
        /\ peer' \in Seq(SoundMsg(ops', timeOf'))
        /\ line' \in Seq(SoundAnswer(ops', timeOf'))
        /\ rtc' \in [regs : Seq(0..255), by : 0..ops']
        /\ rtc'.by # 0 => timeOf'[rtc'.by] \in Tm /\ rtc'.regs = Registers(timeOf'[rtc'.by])
        /\ rtc'.regs \in Seq(0..255) /\ rtc'.by \in 0..MaxOps
        /\ clock'.by \in 0..ops'
    BY BeginKeeps
  <1>2. Sound'
    <2>1. ops' \in 0..MaxOps
      BY <1>1
    <2> QED
      BY <1>1, <2>1 DEF Sound
  <1>3. TypeOK'
    <2>1. prioQueue' \in Seq(Message) /\ secQueue' \in Seq(Message) /\ peer' \in Seq(Message)
          /\ line' \in Seq(Message)
      BY <1>1, QueuesTyped
    <2>2. undisturbed' \in BOOLEAN /\ mixed' \in BOOLEAN
      BY Zenon DEF Idle
    <2>3. answered' \in BOOLEAN /\ got' \in Seq(Nat)
      BY EmptySeq
    <2>4. waitForAnswer' \in BOOLEAN /\ alive' \in BOOLEAN /\ ackDue' \in BOOLEAN
          /\ waiting' \in Message /\ flash' \in [Address -> Nat]
      BY DEF TypeOK
    <2> QED
      BY <1>1, <2>1, <2>2, <2>3, <2>4 DEF TypeOK
  <1> QED
    BY <1>2, <1>3

LEMMA RequestSound ==
    ASSUME TypeOK, Sound, NEW cmd \in Simple, Request(cmd)
    PROVE  TypeOK' /\ Sound'
  <1> DEFINE Soundly == Seq(SoundMsg(ops', timeOf'))
  <1>1. /\ session = 0 /\ ops < MaxOps /\ ops' = ops + 1 /\ session' = ops + 1
        /\ UNCHANGED <<timeOf, peer, line, rtc, clock, secQueue, raw, flash, waiting, ackDue,
                       waitForAnswer, alive, refused>>
        /\ undisturbed' = Idle /\ mixed' = (mixed \/ ~Idle) /\ answered' = FALSE /\ got' = <<>>
    BY DEF Request, Begin, peerVars
  <1>2. ops' \in 1..MaxOps /\ prioQueue \in Soundly /\ secQueue \in Soundly
    BY <1>1, BeginKeeps DEF Sound
  <1>3. Msg(cmd, ops + 1, 0, <<>>) \in SoundMsg(ops', timeOf')
    <2>1. cmd \in Kinds \ {"READ", "RTC_SET"}
      BY DEF Simple, AckEnds, StatusEnds, AnswerEnds, Kinds, Commands
    <2>2. ops' \in 0..MaxOps /\ ops + 1 \in 0..ops'
      BY <1>1, <1>2
    <2> QED
      BY <2>1, <2>2, EmptySound
  <1>4. prioQueue' \in Soundly /\ secQueue' \in Soundly
    BY <1>1, <1>2, <1>3, AppendSeq DEF Request
  <1>5. indClosesSession' \in BOOLEAN
    BY Zenon DEF Request, TypeOK
  <1>6. /\ timeOf' \in [1..MaxOps -> Tm \cup {<<>>}] /\ \A k \in 1..ops : timeOf'[k] = timeOf[k]
        /\ raw' \in [addr : Nat, len : Nat, data : Seq(Nat)] /\ raw'.addr + raw'.len <= FlashSize
        /\ refused' \in BOOLEAN
    BY <1>1 DEF Sound, TypeOK
  <1> QED
    BY <1>1, <1>4, <1>5, <1>6, BeginSound

LEMMA SetRtcSound ==
    ASSUME TypeOK, Sound, NEW t \in Times, drbcc_set_rtc(t)
    PROVE  TypeOK' /\ Sound'
  <1> DEFINE Soundly == Seq(SoundMsg(ops', timeOf'))
  <1>1. /\ session = 0 /\ ops < MaxOps /\ ops' = ops + 1 /\ session' = ops + 1
        /\ UNCHANGED <<peer, line, rtc, clock, secQueue, raw, flash, waiting, ackDue,
                       waitForAnswer, alive, refused, indClosesSession>>
        /\ undisturbed' = Idle /\ mixed' = (mixed \/ ~Idle) /\ answered' = FALSE /\ got' = <<>>
    BY DEF drbcc_set_rtc, Begin, peerVars
  <1>2. t \in Tm
    BY SessionAssumption
  <1>3. /\ timeOf' \in [1..MaxOps -> Tm \cup {<<>>}]
        /\ \A k \in 1..ops : timeOf'[k] = timeOf[k]
        /\ timeOf'[ops + 1] = t
    <2>1. ops + 1 \in 1..MaxOps /\ ops \in Nat
      BY <1>1, SizesType DEF Sound
    <2> QED
      BY <1>2, <2>1 DEF drbcc_set_rtc, Sound
  <1>4. ops' \in 1..MaxOps /\ prioQueue \in Soundly /\ secQueue \in Soundly
    BY <1>1, <1>3, BeginKeeps
  <1>5. Msg("RTC_SET", ops + 1, 0, Registers(t)) \in SoundMsg(ops', timeOf')
    BY <1>1, <1>2, <1>3, <1>4, SetSound
  <1>6. prioQueue' \in Soundly /\ secQueue' \in Soundly
    BY <1>1, <1>4, <1>5, AppendSeq DEF drbcc_set_rtc
  <1>7. /\ raw' \in [addr : Nat, len : Nat, data : Seq(Nat)] /\ raw'.addr + raw'.len <= FlashSize
        /\ refused' \in BOOLEAN /\ indClosesSession' \in BOOLEAN
    BY <1>1 DEF Sound, TypeOK
  <1> QED
    BY <1>1, <1>3, <1>6, <1>7, BeginSound

(* The size of a part.                                                     *)
LEMMA ChunkSize ==
    ASSUME NEW len \in Nat
    PROVE  /\ len % Chunk \in 0..(Chunk - 1)
           /\ len < Chunk => len % Chunk = len
  BY SizesType

LEMMA FlashReadSound ==
    ASSUME TypeOK, NEW n \in 0..MaxOps, NEW times, NEW op \in 0..n, NEW addr \in Nat, NEW len \in Nat,
           addr + len <= FlashSize, secQueue \in Seq(SoundMsg(n, times)), FlashRead(op, addr, len)
    PROVE  /\ secQueue' \in Seq(SoundMsg(n, times))
           /\ raw' \in [addr : Nat, len : Nat, data : Seq(Nat)]
           /\ raw'.addr + raw'.len <= FlashSize
  <1> DEFINE size == IF len >= Chunk THEN Chunk ELSE len % Chunk
  <1>1. size \in 0..Chunk /\ size <= len
    BY ChunkSize, SizesType
  <1>2. /\ secQueue' = Append(secQueue, ReadMsg(op, addr, size))
        /\ raw' = [raw EXCEPT !.addr = addr + size, !.len = len - size]
    BY DEF FlashRead
  <1> HIDE DEF size
  <1>3. addr + size <= FlashSize
    BY <1>1, SizesType
  <1>4. ReadMsg(op, addr, size) \in SoundMsg(n, times)
    BY <1>1, <1>3, ReadSound
  <1>5. secQueue' \in Seq(SoundMsg(n, times))
    BY <1>2, <1>4, AppendSeq
  <1>6. addr + size \in Nat /\ len - size \in Nat /\ (addr + size) + (len - size) = addr + len
    BY <1>1, SizesType
  <1>7. /\ raw' \in [addr : Nat, len : Nat, data : Seq(Nat)]
        /\ raw'.addr = addr + size /\ raw'.len = len - size
    BY <1>2, <1>6 DEF TypeOK
  <1> QED
    BY <1>5, <1>6, <1>7

LEMMA ReadRequestSound ==
    ASSUME TypeOK, Sound, NEW t \in Transfers, drbcc_req_flash_read(t[1], t[2])
    PROVE  TypeOK' /\ Sound'
  <1> DEFINE Soundly == Seq(SoundMsg(ops', timeOf'))
  <1>1. /\ session = 0 /\ ops < MaxOps /\ ops' = ops + 1 /\ session' = ops + 1
        /\ UNCHANGED <<timeOf, peer, line, rtc, clock, prioQueue, flash, waiting, ackDue,
                       waitForAnswer, alive, refused, indClosesSession>>
        /\ undisturbed' = Idle /\ mixed' = (mixed \/ ~Idle) /\ answered' = FALSE /\ got' = <<>>
    BY DEF drbcc_req_flash_read, Begin, peerVars
  <1>2. ops' \in 1..MaxOps /\ prioQueue \in Soundly /\ secQueue \in Soundly
    BY <1>1, BeginKeeps DEF Sound
  <1>3. t[1] \in Nat /\ t[2] \in Nat /\ t[1] + t[2] <= FlashSize
    BY SessionAssumption
  <1>4. /\ secQueue' \in Soundly
        /\ raw' \in [addr : Nat, len : Nat, data : Seq(Nat)] /\ raw'.addr + raw'.len <= FlashSize
    <2>1. ops' \in 0..MaxOps /\ ops + 1 \in 0..ops'
      BY <1>1, <1>2
    <2>2. FlashRead(ops + 1, t[1], t[2])
      BY DEF drbcc_req_flash_read
    <2> QED
      BY <1>2, <1>3, <2>1, <2>2, FlashReadSound
  <1>5. /\ timeOf' \in [1..MaxOps -> Tm \cup {<<>>}] /\ \A k \in 1..ops : timeOf'[k] = timeOf[k]
        /\ refused' \in BOOLEAN /\ indClosesSession' \in BOOLEAN /\ prioQueue' \in Soundly
    BY <1>1, <1>2 DEF Sound, TypeOK
  <1> QED
    BY <1>1, <1>4, <1>5, BeginSound

LEMMA FirstSizeType ==
    ASSUME NEW addr \in Nat, NEW len \in Nat
    PROVE  FirstSize(addr, len) \in 0..Chunk
  BY ChunkSize, SizesType DEF FirstSize

LEMMA WriteRequestSound ==
    ASSUME TypeOK, Sound, NEW t \in Transfers, drbcc_req_flash_write(t[1], t[2])
    PROVE  TypeOK' /\ Sound'
  <1> DEFINE Soundly == Seq(SoundMsg(ops', timeOf'))
             addr == t[1]
             len == t[2]
             data == Bytes(ops + 1, len)
             size == FirstSize(addr, len)
             odd == addr % 2 # 0 \/ len % 2 # 0
  <1>1. /\ session = 0 /\ ops < MaxOps /\ ops' = ops + 1 /\ session' = ops + 1
        /\ UNCHANGED <<timeOf, peer, line, rtc, clock, prioQueue, flash, waiting, ackDue,
                       waitForAnswer, alive, indClosesSession>>
        /\ undisturbed' = Idle /\ mixed' = (mixed \/ ~Idle) /\ answered' = FALSE /\ got' = <<>>
    BY DEF drbcc_req_flash_write, peerVars
  <1>2. ops' \in 1..MaxOps /\ prioQueue \in Soundly /\ secQueue \in Soundly
    BY <1>1, BeginKeeps DEF Sound
  <1>3. addr \in Nat /\ len \in Nat /\ addr + len <= FlashSize
    BY SessionAssumption
  <1>4. size \in 0..Chunk
    BY <1>3, FirstSizeType
  <1>5. data \in Seq(Nat)
    <2>1. ops + 1 \in Nat
      BY DEF Sound
    <2> QED
      BY <1>3, <2>1, BytesSeq
  <1>6. /\ secQueue' = IF odd THEN secQueue
                       ELSE Append(secQueue, Msg("WRITE", ops + 1, addr, FirstOf(data, size)))
        /\ raw' = IF odd \/ len <= size THEN raw
                  ELSE [addr |-> addr + size, len |-> len - size, data |-> RestOf(data, size)]
    BY DEF drbcc_req_flash_write
  <1>7. refused' \in BOOLEAN
    BY Zenon DEF drbcc_req_flash_write, TypeOK
  <1> HIDE DEF addr, len, data, size, odd
  <1>8. Msg("WRITE", ops + 1, addr, FirstOf(data, size)) \in SoundMsg(ops', timeOf')
    <2>1. ops' \in 0..MaxOps /\ ops + 1 \in 0..ops'
      BY <1>1, <1>2
    <2>2. FirstOf(data, size) \in Seq(Nat) /\ Len(FirstOf(data, size)) <= Chunk
      BY <1>4, <1>5, FirstSeq
    <2> QED
      BY <1>3, <2>1, <2>2, WriteSound
  <1>9. secQueue' \in Soundly
    BY <1>2, <1>6, <1>8, AppendSeq
  <1>10. raw' \in [addr : Nat, len : Nat, data : Seq(Nat)] /\ raw'.addr + raw'.len <= FlashSize
    <2>1. CASE odd \/ len <= size
      BY <1>6, <2>1 DEF TypeOK, Sound
    <2>2. CASE ~(odd \/ len <= size)
      <3>1. raw' = [addr |-> addr + size, len |-> len - size, data |-> RestOf(data, size)]
        BY <1>6, <2>2
      <3>2. addr + size \in Nat /\ len - size \in Nat /\ (addr + size) + (len - size) = addr + len
        BY <1>3, <1>4, <2>2, SizesType
      <3>3. RestOf(data, size) \in Seq(Nat)
        BY <1>4, <1>5, RestSeq
      <3> QED
        BY <1>3, <3>1, <3>2, <3>3
    <2> QED
      BY <2>1, <2>2
  <1>11. /\ timeOf' \in [1..MaxOps -> Tm \cup {<<>>}] /\ \A k \in 1..ops : timeOf'[k] = timeOf[k]
         /\ indClosesSession' \in BOOLEAN /\ prioQueue' \in Soundly
    BY <1>1, <1>2 DEF Sound, TypeOK
  <1> QED
    BY <1>1, <1>7, <1>9, <1>10, <1>11, BeginSound

LEMMA EraseRequestSound ==
    ASSUME TypeOK, Sound, NEW block \in 0..(NumBlocks - 1), drbcc_req_flash_erase_block(block)
    PROVE  TypeOK' /\ Sound'
  <1> DEFINE Soundly == Seq(SoundMsg(ops', timeOf'))
  <1>1. /\ session = 0 /\ ops < MaxOps /\ ops' = ops + 1 /\ session' = ops + 1
        /\ UNCHANGED <<timeOf, peer, line, rtc, clock, prioQueue, raw, flash, waiting, ackDue,
                       waitForAnswer, alive, refused, indClosesSession>>
        /\ undisturbed' = Idle /\ mixed' = (mixed \/ ~Idle) /\ answered' = FALSE /\ got' = <<>>
        /\ secQueue' = Append(secQueue, Msg("ERASE", ops + 1, block, <<>>))
    BY DEF drbcc_req_flash_erase_block, Begin, peerVars
  <1>2. ops' \in 1..MaxOps /\ prioQueue \in Soundly /\ secQueue \in Soundly
    BY <1>1, BeginKeeps DEF Sound
  <1>3. Msg("ERASE", ops + 1, block, <<>>) \in SoundMsg(ops', timeOf')
    <2>1. "ERASE" \in Kinds \ {"READ", "RTC_SET"}
      BY KindsDistinct
    <2>2. ops' \in 0..MaxOps /\ ops + 1 \in 0..ops' /\ block \in Nat
      BY <1>1, <1>2, SessionAssumption
    <2> QED
      BY <2>1, <2>2, EmptySound
  <1>4. secQueue' \in Soundly
    BY <1>1, <1>2, <1>3, AppendSeq
  <1>5. /\ timeOf' \in [1..MaxOps -> Tm \cup {<<>>}] /\ \A k \in 1..ops : timeOf'[k] = timeOf[k]
        /\ raw' \in [addr : Nat, len : Nat, data : Seq(Nat)] /\ raw'.addr + raw'.len <= FlashSize
        /\ refused' \in BOOLEAN /\ indClosesSession' \in BOOLEAN /\ prioQueue' \in Soundly
    BY <1>1, <1>2 DEF Sound, TypeOK
  <1> QED
    BY <1>1, <1>4, <1>5, BeginSound

-----------------------------------------------------------------------------
(* The other steps keep Sound.                                             *)

(* The controller's answer to a sound message, and what it does.           *)
LEMMA PeerSound ==
    ASSUME TypeOK, Sound, NEW m \in SoundMsg(ops, timeOf)
    PROVE  /\ FlashAfter(m) \in [Address -> Nat]
           /\ RtcAfter(m) \in [regs : Seq(0..255), by : 0..ops]
           /\ RtcAfter(m).by # 0 =>
                 timeOf[RtcAfter(m).by] \in Tm /\ RtcAfter(m).regs = Registers(timeOf[RtcAfter(m).by])
           /\ AnswerTo(m) \in SoundAnswer(ops, timeOf)
           /\ AnswerTo(m).op = m.op
           /\ m.cmd \in Commands <=> AnswerTo(m).cmd \in Commands
           /\ m.cmd \notin StatusEnds => AnswerTo(m).cmd = m.cmd
           /\ m.cmd \in StatusEnds => AnswerTo(m).cmd = "STATUS"
  <1>1. /\ m \in Message /\ m.op \in 0..ops
        /\ m.cmd = "WRITE" => m.len = Len(m.bytes)
        /\ m.cmd = "READ" => m.addr + m.len <= FlashSize
        /\ m.cmd = "RTC_SET" =>
              m.op # 0 /\ timeOf[m.op] \in Tm /\ m.bytes = Registers(timeOf[m.op])
    BY DEF SoundMsg
  <1>2. /\ m.cmd \in Kinds /\ m.op \in 0..MaxOps /\ m.addr \in Nat /\ m.len \in 0..Chunk
        /\ m.bytes \in Seq(Nat) /\ m.ok \in BOOLEAN
    BY <1>1 DEF Message, Kinds
  <1>3. m.len \in Nat
    BY <1>2, SizesType
  <1>4. FlashAfter(m) \in [Address -> Nat]
    <2>1. CASE m.cmd = "WRITE"
      <3>1. \A a \in Address : a \in m.addr..(m.addr + m.len - 1) => m.bytes[a - m.addr + 1] \in Nat
        <4> SUFFICES ASSUME NEW a \in Address, a \in m.addr..(m.addr + m.len - 1)
                     PROVE  m.bytes[a - m.addr + 1] \in Nat
          OBVIOUS
        <4>1. a - m.addr + 1 \in 1..Len(m.bytes)
          BY <1>1, <1>2, <1>3, <2>1, SizesType
        <4> QED
          BY <1>2, <4>1, SMTT(30)
      <3> QED
        BY <2>1, <3>1 DEF FlashAfter, TypeOK
    <2>2. CASE m.cmd # "WRITE"
      BY <2>2 DEF FlashAfter, TypeOK
    <2> QED
      BY <2>1, <2>2
  <1>5. /\ RtcAfter(m) \in [regs : Seq(0..255), by : 0..ops]
        /\ RtcAfter(m).by # 0 =>
              timeOf[RtcAfter(m).by] \in Tm /\ RtcAfter(m).regs = Registers(timeOf[RtcAfter(m).by])
    <2>1. CASE m.cmd = "RTC_SET"
      <3>1. RtcAfter(m) = [regs |-> m.bytes, by |-> m.op]
        BY <2>1 DEF RtcAfter
      <3>2. m.bytes \in Seq(0..255)
        BY <1>1, <2>1, RegistersType
      <3> QED
        BY <1>1, <2>1, <3>1, <3>2
    <2>2. CASE m.cmd # "RTC_SET"
      BY <2>2 DEF RtcAfter, Sound
    <2> QED
      BY <2>1, <2>2
  <1>6. m = [cmd |-> m.cmd, op |-> m.op, addr |-> m.addr, len |-> m.len, bytes |-> m.bytes,
             ok |-> m.ok]
    BY <1>1 DEF Message
  <1>7. "STATUS" \in Kinds
    BY KindsDistinct
  <1>8. /\ m.cmd \in StatusEnds => m.cmd \in Commands
        /\ "STATUS" \in Commands
        /\ m.cmd = "READ" => m.cmd \notin StatusEnds
        /\ m.cmd \in {"RTC_READ", "RTC_SET"} => m.cmd \notin StatusEnds
    BY DEF Commands, StatusEnds
  <1>9. CASE m.cmd = "READ"
    <2> DEFINE bytes == [k \in 1..m.len |-> flash[m.addr + k - 1]]
    <2>1. AnswerTo(m) = [m EXCEPT !.bytes = bytes]
      BY <1>9 DEF AnswerTo
    <2>2. bytes \in Seq(Nat)
      <3>1. \A k \in 1..m.len : m.addr + k - 1 \in Address
        BY <1>1, <1>2, <1>3, <1>9, SizesType
      <3>2. \A k \in 1..m.len : flash[m.addr + k - 1] \in Nat
        BY <3>1 DEF TypeOK
      <3> QED
        BY <1>3, <3>2
    <2> HIDE DEF bytes
    <2>3. AnswerTo(m) = [cmd |-> "READ", op |-> m.op, addr |-> m.addr, len |-> m.len,
                         bytes |-> bytes, ok |-> m.ok]
      BY <1>6, <1>9, <2>1
    <2>4. AnswerTo(m) \in Message
      BY <1>2, <1>9, <2>2, <2>3 DEF Message, Kinds
    <2>5. AnswerTo(m) \in SoundAnswer(ops, timeOf)
      BY <1>1, <2>3, <2>4 DEF SoundAnswer
    <2> QED
      BY <1>4, <1>5, <1>8, <1>9, <2>3, <2>5
  <1>10. CASE m.cmd \in {"RTC_READ", "RTC_SET"}
    <2> DEFINE after == RtcAfter(m)
    <2>1. AnswerTo(m) = [m EXCEPT !.bytes = after.regs, !.addr = after.by]
      BY <1>10 DEF AnswerTo
    <2>2. after.regs \in Seq(Nat) /\ after.by \in Nat /\ after.by \in 0..ops
      <3>1. after.regs \in Seq(0..255) /\ after.by \in 0..ops
        BY <1>5
      <3>2. 0..255 \subseteq Nat
        OBVIOUS
      <3>3. after.regs \in Seq(Nat)
        <4>1. \A s \in Seq(0..255) : s \in Seq(Nat)
          BY ONLY <3>2, WiderSeq
        <4> HIDE DEF after
        <4> QED
          BY ONLY <3>1, <4>1
      <3> QED
        BY <3>1, <3>3 DEF Sound
    <2>3. after.by # 0 => timeOf[after.by] \in Tm /\ after.regs = Registers(timeOf[after.by])
      BY <1>5
    <2> HIDE DEF after
    <2>4. AnswerTo(m) = [cmd |-> m.cmd, op |-> m.op, addr |-> after.by, len |-> m.len,
                         bytes |-> after.regs, ok |-> m.ok]
      BY <1>6, <2>1
    <2>5. AnswerTo(m) \in Message
      BY <1>2, <2>2, <2>4 DEF Message, Kinds
    <2>6. AnswerTo(m) \in SoundAnswer(ops, timeOf)
      BY <1>1, <2>2, <2>3, <2>4, <2>5 DEF SoundAnswer
    <2> QED
      BY <1>4, <1>5, <1>8, <1>10, <2>4, <2>6
  <1>11. CASE m.cmd \in StatusEnds
    <2>1. AnswerTo(m) = [m EXCEPT !.cmd = "STATUS"]
      BY <1>8, <1>11 DEF AnswerTo
    <2>2. AnswerTo(m) = [cmd |-> "STATUS", op |-> m.op, addr |-> m.addr, len |-> m.len,
                         bytes |-> m.bytes, ok |-> m.ok]
      BY <1>6, <2>1
    <2>3. AnswerTo(m) \in Message
      BY <1>2, <1>7, <2>2 DEF Message, Kinds
    <2>4. AnswerTo(m) \in SoundAnswer(ops, timeOf)
      BY <1>1, <2>2, <2>3 DEF SoundAnswer
    <2> QED
      BY <1>4, <1>5, <1>8, <1>11, <2>2, <2>4
  <1>12. CASE m.cmd # "READ" /\ m.cmd \notin {"RTC_READ", "RTC_SET"} /\ m.cmd \notin StatusEnds
    <2>1. AnswerTo(m) = m
      BY <1>12 DEF AnswerTo
    <2>2. AnswerTo(m) \in SoundAnswer(ops, timeOf)
      BY <1>1, <1>12, <2>1 DEF SoundAnswer
    <2> QED
      BY <1>4, <1>5, <1>12, <2>1, <2>2
  <1> QED
    BY <1>9, <1>10, <1>11, <1>12

(* A step that begins no request and keeps what it holds sound.            *)
LEMMA SteadySound ==
    ASSUME TypeOK, Sound, UNCHANGED <<ops, timeOf>>, session' \in {0, session},
           prioQueue' \in Seq(SoundMsg(ops, timeOf)), secQueue' \in Seq(SoundMsg(ops, timeOf)),
           peer' \in Seq(SoundMsg(ops, timeOf)), line' \in Seq(SoundAnswer(ops, timeOf)),
           rtc' \in [regs : Seq(0..255), by : 0..ops],
           rtc'.by # 0 => timeOf[rtc'.by] \in Tm /\ rtc'.regs = Registers(timeOf[rtc'.by]),
           clock'.by \in 0..ops,
           raw' \in [addr : Nat, len : Nat, data : Seq(Nat)], raw'.addr + raw'.len <= FlashSize,
           waiting' \in Message, flash' \in [Address -> Nat], got' \in Seq(Nat),
           indClosesSession' \in BOOLEAN, waitForAnswer' \in BOOLEAN, alive' \in BOOLEAN,
           ackDue' \in BOOLEAN, undisturbed' \in BOOLEAN, mixed' \in BOOLEAN,
           answered' \in BOOLEAN, refused' \in BOOLEAN
    PROVE  TypeOK' /\ Sound'
  <1>1. session' \in 0..MaxOps /\ session' <= ops'
    <2>1. session \in 0..MaxOps /\ session <= ops /\ ops \in Nat
      BY DEF Sound, TypeOK
    <2>2. CASE session' = 0
      BY ONLY <2>1, <2>2, SizesType, ops' = ops
    <2>3. CASE session' = session
      BY ONLY <2>1, <2>3, ops' = ops
    <2> QED
      BY ONLY <2>2, <2>3, session' \in {0, session}
  <1>2. Sound'
    BY <1>1 DEF Sound
  <1>3. TypeOK'
    <2>1. prioQueue' \in Seq(Message) /\ secQueue' \in Seq(Message) /\ peer' \in Seq(Message)
          /\ line' \in Seq(Message)
      BY QueuesTyped
    <2>2. rtc'.regs \in Seq(0..255) /\ rtc'.by \in 0..MaxOps
      <3>1. rtc'.regs \in Seq(0..255) /\ rtc'.by \in 0..ops
        OBVIOUS
      <3> QED
        BY <3>1, SizesType, SMTT(30) DEF Sound
    <2> QED
      BY <1>1, <2>1, <2>2 DEF TypeOK
  <1> QED
    BY <1>2, <1>3

(* What it leaves as it was is sound already.                              *)
LEMMA HostSteady ==
    ASSUME TypeOK, Sound
    PROVE  /\ prioQueue \in Seq(SoundMsg(ops, timeOf)) /\ secQueue \in Seq(SoundMsg(ops, timeOf))
           /\ raw \in [addr : Nat, len : Nat, data : Seq(Nat)] /\ raw.addr + raw.len <= FlashSize
           /\ waiting \in Message /\ got \in Seq(Nat) /\ clock.by \in 0..ops
           /\ indClosesSession \in BOOLEAN /\ waitForAnswer \in BOOLEAN /\ alive \in BOOLEAN
           /\ undisturbed \in BOOLEAN /\ mixed \in BOOLEAN /\ answered \in BOOLEAN
           /\ refused \in BOOLEAN
  BY DEF TypeOK, Sound

LEMMA PeerSteady ==
    ASSUME TypeOK, Sound
    PROVE  /\ peer \in Seq(SoundMsg(ops, timeOf)) /\ line \in Seq(SoundAnswer(ops, timeOf))
           /\ rtc \in [regs : Seq(0..255), by : 0..ops]
           /\ rtc.by # 0 => timeOf[rtc.by] \in Tm /\ rtc.regs = Registers(timeOf[rtc.by])
           /\ flash \in [Address -> Nat] /\ ackDue \in BOOLEAN
  BY DEF TypeOK, Sound

(* The head of a queue.                                                    *)
LEMMA SoundHead ==
    ASSUME TypeOK, Sound
    PROVE  /\ prioQueue # <<>> => /\ Head(prioQueue) \in SoundMsg(ops, timeOf)
                                  /\ Tail(prioQueue) \in Seq(SoundMsg(ops, timeOf))
           /\ secQueue # <<>> => /\ Head(secQueue) \in SoundMsg(ops, timeOf)
                                 /\ Tail(secQueue) \in Seq(SoundMsg(ops, timeOf))
           /\ peer # <<>> => /\ Head(peer) \in SoundMsg(ops, timeOf)
                             /\ Tail(peer) \in Seq(SoundMsg(ops, timeOf))
           /\ line # <<>> => /\ Head(line) \in SoundAnswer(ops, timeOf)
                             /\ Tail(line) \in Seq(SoundAnswer(ops, timeOf))
  BY HeadTailSeq DEF Sound

LEMMA SendSound ==
    ASSUME TypeOK, Sound, SendPrio \/ SendSec
    PROVE  TypeOK' /\ Sound'
  <1> USE HostSteady, PeerSteady
  <1>1. ASSUME NEW m \in SoundMsg(ops, timeOf), Send(m)
        PROVE  /\ peer' \in Seq(SoundMsg(ops, timeOf)) /\ waiting' \in Message /\ ackDue' \in BOOLEAN
               /\ UNCHANGED <<ops, timeOf, session, indClosesSession, raw, alive, flash, rtc, line,
                              undisturbed, mixed, answered, refused, got, clock>>
    BY <1>1, AppendSeq, SoundIsMessage DEF Send, rawVars, countVars, historyVars
  <1>2. CASE SendPrio
    <2>1. /\ Head(prioQueue) \in SoundMsg(ops, timeOf) /\ Send(Head(prioQueue))
          /\ prioQueue' \in Seq(SoundMsg(ops, timeOf)) /\ UNCHANGED <<secQueue, waitForAnswer>>
      BY <1>2, SoundHead DEF SendPrio
    <2> QED
      BY <1>1, <2>1, SteadySound
  <1>3. CASE SendSec
    <2>1. /\ Head(secQueue) \in SoundMsg(ops, timeOf) /\ Send(Head(secQueue))
          /\ secQueue' \in Seq(SoundMsg(ops, timeOf)) /\ UNCHANGED prioQueue
      BY <1>3, SoundHead DEF SendSec
    <2>2. waitForAnswer' \in BOOLEAN
      BY <1>3, Zenon DEF SendSec
    <2> QED
      BY <1>1, <2>1, <2>2, SteadySound
  <1> QED
    BY <1>2, <1>3

LEMMA TimerSound ==
    ASSUME TypeOK, Sound, AnswerTimeout \/ GiveUp \/ ToggleError
    PROVE  TypeOK' /\ Sound'
  <1> USE HostSteady, PeerSteady
  <1>1. CASE AnswerTimeout
    <2>1. waitForAnswer' \in BOOLEAN
      BY <1>1, Zenon DEF AnswerTimeout
    <2>2. UNCHANGED <<ops, timeOf, session, indClosesSession, prioQueue, secQueue, waiting, raw,
                      alive, peer, ackDue, flash, rtc, line, undisturbed, mixed, answered, refused,
                      got, clock>>
      BY <1>1 DEF AnswerTimeout, rawVars, peerVars, countVars, historyVars
    <2> QED
      BY <2>1, <2>2, SteadySound
  <1>2. CASE GiveUp
    <2>1. peer' \in Seq(SoundMsg(ops, timeOf)) /\ waiting' \in Message /\ session' = 0
      BY <1>2, FrontSeq, NoneType DEF GiveUp
    <2>2. ackDue' \in BOOLEAN /\ undisturbed' \in BOOLEAN
      BY <1>2, Zenon DEF GiveUp
    <2>3. UNCHANGED <<ops, timeOf, indClosesSession, prioQueue, secQueue, waitForAnswer, raw,
                      alive, flash, rtc, line, mixed, answered, refused, got, clock>>
      BY <1>2 DEF GiveUp, rawVars
    <2> QED
      BY <2>1, <2>2, <2>3, SteadySound
  <1>3. CASE ToggleError
    <2>1. undisturbed' \in BOOLEAN
      BY <1>3, Zenon DEF ToggleError
    <2>2. /\ session' = 0
          /\ UNCHANGED <<ops, timeOf, indClosesSession, prioQueue, secQueue, waiting, waitForAnswer,
                         raw, alive, peer, ackDue, flash, rtc, line, mixed, answered, refused, got,
                         clock>>
      BY <1>3 DEF ToggleError, rawVars, peerVars
    <2> QED
      BY <2>1, <2>2, SteadySound
  <1> QED
    BY <1>1, <1>2, <1>3

(* An answer that is too short.                                            *)
LEMMA ShortAnswer ==
    ASSUME NEW n, NEW times, NEW m \in SoundAnswer(n, times)
    PROVE  /\ [m EXCEPT !.ok = FALSE] \in SoundAnswer(n, times)
           /\ [m EXCEPT !.ok = FALSE].cmd = m.cmd
           /\ [m EXCEPT !.ok = FALSE].op = m.op
           /\ [m EXCEPT !.ok = FALSE].ok = FALSE
  <1>1. ASSUME NEW b \in BOOLEAN
        PROVE  /\ [m EXCEPT !.ok = b] \in SoundAnswer(n, times)
               /\ [m EXCEPT !.ok = b].cmd = m.cmd /\ [m EXCEPT !.ok = b].op = m.op
               /\ [m EXCEPT !.ok = b].ok = b
    <2>1. m \in Message
      BY SoundIsMessage
    <2>2. m = [cmd |-> m.cmd, op |-> m.op, addr |-> m.addr, len |-> m.len, bytes |-> m.bytes,
               ok |-> m.ok]
      BY <2>1 DEF Message
    <2>3. [m EXCEPT !.ok = b] = [cmd |-> m.cmd, op |-> m.op, addr |-> m.addr, len |-> m.len,
                                 bytes |-> m.bytes, ok |-> b]
      BY ONLY <2>2
    <2>4. [m EXCEPT !.ok = b] \in Message
      BY <2>1, <2>3 DEF Message
    <2> QED
      BY <2>3, <2>4 DEF SoundAnswer
  <1> QED
    BY <1>1, Zenon

LEMMA PeerStepSound ==
    ASSUME TypeOK, Sound, PeerAck \/ PeerExecute \/ PeerRefuses \/ PeerAnswersShort
                          \/ \E e \in Events : PeerEvent(e)
    PROVE  TypeOK' /\ Sound'
  <1> USE HostSteady, PeerSteady
  <1>1. ASSUME NEW m \in Message, m.op = 0, m.cmd \notin {"RTC_READ", "RTC_SET"}
        PROVE  Append(line, m) \in Seq(SoundAnswer(ops, timeOf))
    <2>1. m \in SoundAnswer(ops, timeOf)
      BY <1>1 DEF SoundAnswer, Sound
    <2> QED
      BY <2>1, AppendSeq
  <1>2. CASE PeerAck
    <2>1. ackDue' \in BOOLEAN
      BY <1>2, Zenon DEF PeerAck
    <2>2. line' \in Seq(SoundAnswer(ops, timeOf))
      BY <1>1, <1>2, AckType DEF PeerAck
    <2>3. UNCHANGED <<ops, timeOf, session, indClosesSession, prioQueue, secQueue, waiting,
                      waitForAnswer, raw, alive, peer, flash, rtc, undisturbed, mixed, answered,
                      refused, got, clock>>
      BY <1>2 DEF PeerAck, hostVars, rawVars, countVars, historyVars
    <2> QED
      BY <2>1, <2>2, <2>3, SteadySound
  <1>3. CASE PeerExecute
    <2>1. /\ Head(peer) \in SoundMsg(ops, timeOf) /\ peer' \in Seq(SoundMsg(ops, timeOf))
          /\ flash' = FlashAfter(Head(peer)) /\ rtc' = RtcAfter(Head(peer))
          /\ line' \in {line, Append(line, AnswerTo(Head(peer)))}
      BY <1>3, SoundHead DEF PeerExecute
    <2>2. /\ flash' \in [Address -> Nat] /\ rtc' \in [regs : Seq(0..255), by : 0..ops]
          /\ rtc'.by # 0 => timeOf[rtc'.by] \in Tm /\ rtc'.regs = Registers(timeOf[rtc'.by])
          /\ line' \in Seq(SoundAnswer(ops, timeOf))
      <3> DEFINE m == Head(peer)
      <3> HIDE DEF m
      <3>1. /\ FlashAfter(m) \in [Address -> Nat]
            /\ RtcAfter(m) \in [regs : Seq(0..255), by : 0..ops]
            /\ RtcAfter(m).by # 0 => timeOf[RtcAfter(m).by] \in Tm
                                     /\ RtcAfter(m).regs = Registers(timeOf[RtcAfter(m).by])
            /\ AnswerTo(m) \in SoundAnswer(ops, timeOf)
        BY <2>1, PeerSound DEF m
      <3>2. Append(line, AnswerTo(m)) \in Seq(SoundAnswer(ops, timeOf))
        BY <3>1, AppendSeq
      <3> QED
        BY <2>1, <3>1, <3>2 DEF m
    <2>3. UNCHANGED <<ops, timeOf, session, indClosesSession, prioQueue, secQueue, waiting,
                      waitForAnswer, raw, alive, ackDue, undisturbed, mixed, answered, refused, got,
                      clock>>
      BY <1>3 DEF PeerExecute, hostVars, rawVars, countVars, historyVars
    <2> QED
      BY <2>1, <2>2, <2>3, SteadySound
  <1>4. ASSUME NEW m \in SoundAnswer(ops, timeOf), PeerFails(m), refused' \in BOOLEAN
        PROVE  TypeOK' /\ Sound'
    <2>1. undisturbed' \in BOOLEAN
      BY <1>4, Zenon DEF PeerFails
    <2>2. peer' \in Seq(SoundMsg(ops, timeOf)) /\ line' \in Seq(SoundAnswer(ops, timeOf))
      BY <1>4, SoundHead, AppendSeq DEF PeerFails
    <2>3. UNCHANGED <<ops, timeOf, session, indClosesSession, prioQueue, secQueue, waiting,
                      waitForAnswer, raw, alive, ackDue, flash, rtc, mixed, answered, got, clock>>
      BY <1>4 DEF PeerFails, hostVars, rawVars
    <2> QED
      BY <1>4, <2>1, <2>2, <2>3, SteadySound
  <1>5. CASE PeerRefuses
    <2>1. Msg("SYNC_CMD_ERROR", 0, 0, <<>>) \in SoundAnswer(ops, timeOf)
      <3>1. Msg("SYNC_CMD_ERROR", 0, 0, <<>>) \in Message
            /\ Msg("SYNC_CMD_ERROR", 0, 0, <<>>).cmd = "SYNC_CMD_ERROR"
            /\ Msg("SYNC_CMD_ERROR", 0, 0, <<>>).op = 0
        BY EmptyMsgType, KindsDistinct
      <3> QED
        BY <3>1 DEF SoundAnswer, Sound
    <2>2. refused' \in BOOLEAN
      BY <1>5, Zenon DEF PeerRefuses
    <2> QED
      BY <1>4, <1>5, <2>1, <2>2 DEF PeerRefuses
  <1>6. CASE PeerAnswersShort
    <2> DEFINE m == AnswerTo(Head(peer))
    <2>1. m \in SoundAnswer(ops, timeOf)
      BY <1>6, SoundHead, PeerSound DEF PeerAnswersShort
    <2>2. PeerFails([m EXCEPT !.ok = FALSE]) /\ refused' \in BOOLEAN
      BY <1>6 DEF PeerAnswersShort
    <2> HIDE DEF m
    <2>3. [m EXCEPT !.ok = FALSE] \in SoundAnswer(ops, timeOf)
      BY <2>1, ShortAnswer
    <2> QED
      BY <1>4, <2>2, <2>3
  <1>7. ASSUME NEW e \in Events, PeerEvent(e) PROVE TypeOK' /\ Sound'
    <2>1. undisturbed' \in BOOLEAN
      BY <1>7, Zenon DEF PeerEvent
    <2>2. line' \in Seq(SoundAnswer(ops, timeOf))
      <3>1. e \in Kinds /\ e \notin {"RTC_READ", "RTC_SET"}
        BY DEF Kinds, Events
      <3>2. Msg(e, 0, 0, <<>>) \in Message /\ Msg(e, 0, 0, <<>>).cmd = e /\ Msg(e, 0, 0, <<>>).op = 0
        BY <3>1, EmptyMsgType
      <3> QED
        BY <1>1, <1>7, <3>1, <3>2 DEF PeerEvent
    <2>3. UNCHANGED <<ops, timeOf, session, indClosesSession, prioQueue, secQueue, waiting,
                      waitForAnswer, raw, alive, peer, ackDue, flash, rtc, mixed, answered, refused,
                      got, clock>>
      BY <1>7 DEF PeerEvent, hostVars, rawVars, peerVars
    <2> QED
      BY <2>1, <2>2, <2>3, SteadySound
  <1> QED
    BY <1>2, <1>3, <1>5, <1>6, <1>7

(* What comes back: an acknowledgement, and the messages.                  *)
LEMMA RecvAckSound ==
    ASSUME TypeOK, Sound, RecvAck
    PROVE  TypeOK' /\ Sound'
  <1> USE HostSteady, PeerSteady
  <1>1. line' \in Seq(SoundAnswer(ops, timeOf)) /\ waiting' \in Message /\ session' \in {0, session}
    BY SoundHead, NoneType DEF RecvAck
  <1>2. answered' \in BOOLEAN
    BY Zenon DEF RecvAck
  <1>3. UNCHANGED <<ops, timeOf, indClosesSession, prioQueue, secQueue, waitForAnswer, raw, alive,
                    peer, ackDue, flash, rtc, undisturbed, mixed, refused, got, clock>>
    BY DEF RecvAck, rawVars, peerVars, countVars
  <1> QED
    BY <1>1, <1>2, <1>3, SteadySound

LEMMA RecvKeeps ==
    ASSUME TypeOK, Sound, NEW m, Recv(m)
    PROVE  /\ m \in SoundAnswer(ops, timeOf)
           /\ line' \in Seq(SoundAnswer(ops, timeOf))
           /\ waitForAnswer' \in BOOLEAN /\ answered' \in BOOLEAN
           /\ UNCHANGED <<ops, timeOf, waiting, peer, ackDue, flash, rtc, undisturbed, mixed,
                          refused>>
  <1>1. m \in SoundAnswer(ops, timeOf) /\ line' \in Seq(SoundAnswer(ops, timeOf))
    BY SoundHead DEF Recv
  <1>2. waitForAnswer' \in BOOLEAN /\ answered' \in BOOLEAN
    BY Zenon DEF Recv
  <1> QED
    BY <1>1, <1>2 DEF Recv, peerVars, countVars

LEMMA FlashWriteSound ==
    ASSUME TypeOK, Sound, NEW op \in 0..ops, FlashWrite(op)
    PROVE  /\ secQueue' \in Seq(SoundMsg(ops, timeOf))
           /\ raw' \in [addr : Nat, len : Nat, data : Seq(Nat)]
           /\ raw'.addr + raw'.len <= FlashSize
           /\ alive' \in BOOLEAN
  <1> DEFINE size == IF raw.len >= Chunk THEN Chunk ELSE raw.len
  <1>1. raw.addr \in Nat /\ raw.len \in Nat /\ raw.data \in Seq(Nat)
        /\ raw.addr + raw.len <= FlashSize
    BY HostSteady
  <1>2. size \in 0..Chunk /\ size <= raw.len
    BY <1>1, SizesType
  <1>3. /\ secQueue' = Append(secQueue, Msg("WRITE", op, raw.addr, FirstOf(raw.data, size)))
        /\ raw' = [addr |-> raw.addr + size, len |-> raw.len - size, data |-> RestOf(raw.data, size)]
    BY DEF FlashWrite
  <1>4. alive' \in BOOLEAN
    BY Zenon DEF FlashWrite
  <1> HIDE DEF size
  <1>5. size \in Nat
    BY <1>2, SizesType
  <1>6. Msg("WRITE", op, raw.addr, FirstOf(raw.data, size)) \in SoundMsg(ops, timeOf)
    <2>1. FirstOf(raw.data, size) \in Seq(Nat) /\ Len(FirstOf(raw.data, size)) <= Chunk
      <3>1. FirstOf(raw.data, size) \in Seq(Nat) /\ Len(FirstOf(raw.data, size)) = size
        BY <1>1, <1>5, FirstSeq
      <3> QED
        BY <1>2, <3>1
    <2>2. ops \in 0..MaxOps
      BY DEF Sound
    <2> QED
      BY <1>1, <2>1, <2>2, WriteSound
  <1>7. secQueue' \in Seq(SoundMsg(ops, timeOf))
    BY <1>3, <1>6, HostSteady, AppendSeq
  <1>8. RestOf(raw.data, size) \in Seq(Nat)
    BY <1>1, <1>5, RestSeq
  <1>9. raw.addr + size \in Nat /\ raw.len - size \in Nat
        /\ (raw.addr + size) + (raw.len - size) = raw.addr + raw.len
    BY <1>1, <1>2, <1>5
  <1>10. raw' \in [addr : Nat, len : Nat, data : Seq(Nat)] /\ raw'.addr + raw'.len <= FlashSize
    BY <1>1, <1>3, <1>8, <1>9
  <1> QED
    BY <1>4, <1>7, <1>10

LEMMA RecvSound ==
    ASSUME TypeOK, Sound, NEW m,
           \/ RecvAnswer(m) \/ RecvRtc(m) \/ RecvStatus(m) \/ RecvRead(m)
           \/ RecvWrite(m) \/ RecvAsk(m) \/ RecvOther(m)
    PROVE  TypeOK' /\ Sound'
  <1> DEFINE Soundly == Seq(SoundMsg(ops, timeOf))
             Kept == /\ line' \in Seq(SoundAnswer(ops, timeOf))
                     /\ waitForAnswer' \in BOOLEAN /\ answered' \in BOOLEAN
                     /\ UNCHANGED <<ops, timeOf, waiting, peer, ackDue, flash, rtc, undisturbed,
                                    mixed, refused>>
  <1>1. Recv(m) => Kept /\ m \in SoundAnswer(ops, timeOf)
    BY RecvKeeps
  <1>2. ASSUME Kept, session' \in {0, session}, prioQueue' \in Soundly, secQueue' \in Soundly,
               raw' \in [addr : Nat, len : Nat, data : Seq(Nat)], raw'.addr + raw'.len <= FlashSize,
               clock'.by \in 0..ops, got' \in Seq(Nat), alive' \in BOOLEAN,
               indClosesSession' \in BOOLEAN
        PROVE  TypeOK' /\ Sound'
    BY <1>2, HostSteady, PeerSteady, SteadySound
  <1> HIDE DEF Kept
  <1> USE HostSteady
  <1>3. CASE RecvAnswer(m)
    <2>1. /\ Recv(m) /\ session' = 0
          /\ UNCHANGED <<indClosesSession, prioQueue, secQueue, raw, alive, got, clock>>
      BY <1>3 DEF RecvAnswer, rawVars
    <2> QED
      BY <1>1, <1>2, <2>1
  <1>4. CASE RecvRtc(m)
    <2>1. /\ Recv(m) /\ session' = 0 /\ m.cmd \in {"RTC_READ", "RTC_SET"}
          /\ UNCHANGED <<indClosesSession, prioQueue, secQueue, raw, alive, got>>
      BY <1>4 DEF RecvRtc, rawVars
    <2>2. m.addr \in 0..ops
      BY <1>1, <2>1 DEF SoundAnswer
    <2>3. clock'.by \in 0..ops
      BY <1>4, <2>2 DEF RecvRtc
    <2> QED
      BY <1>1, <1>2, <2>1, <2>3
  <1>5. CASE RecvStatus(m)
    <2>1. Recv(m) /\ UNCHANGED <<prioQueue, secQueue, raw, alive, got, clock>>
      BY <1>5 DEF RecvStatus, rawVars
    <2>2. session' \in {0, session}
      BY <1>5 DEF RecvStatus
    <2>3. indClosesSession' \in BOOLEAN
      BY <1>5, Zenon DEF RecvStatus
    <2> QED
      BY <1>1, <1>2, <2>1, <2>2, <2>3
  <1>6. CASE RecvRead(m)
    <2>1. Recv(m) /\ UNCHANGED <<indClosesSession, prioQueue, alive, clock>>
      BY <1>6 DEF RecvRead
    <2>2. m.bytes \in Seq(Nat) /\ m.op \in 0..ops /\ ops \in 0..MaxOps
      BY <1>1, <2>1 DEF SoundAnswer, Message, Sound
    <2>3. got' \in Seq(Nat)
      BY <1>6, <2>2, ConcatSeq DEF RecvRead
    <2>4. CASE m.ok /\ raw.len # 0
      <3>1. FlashRead(m.op, raw.addr, raw.len) /\ UNCHANGED session
        BY <1>6, <2>4 DEF RecvRead
      <3>2. raw.addr \in Nat /\ raw.len \in Nat
        OBVIOUS
      <3> QED
        BY <1>1, <1>2, <2>1, <2>2, <2>3, <3>1, <3>2, FlashReadSound
    <2>5. CASE ~(m.ok /\ raw.len # 0)
      <3>1. session' = 0 /\ UNCHANGED <<secQueue, raw>>
        BY <1>6, <2>5 DEF RecvRead
      <3> QED
        BY <1>1, <1>2, <2>1, <2>3, <3>1
    <2> QED
      BY <2>4, <2>5
  <1>7. CASE RecvWrite(m)
    <2>1. Recv(m) /\ UNCHANGED <<indClosesSession, prioQueue, got, clock>>
      BY <1>7 DEF RecvWrite
    <2>2. m.op \in 0..ops /\ ops \in 0..MaxOps
      BY <1>1, <2>1 DEF SoundAnswer, Sound
    <2>3. CASE m.ok /\ raw.len # 0
      <3>1. FlashWrite(m.op) /\ UNCHANGED session
        BY <1>7, <2>3 DEF RecvWrite
      <3> QED
        BY <1>1, <1>2, <2>1, <2>2, <3>1, FlashWriteSound
    <2>4. CASE ~(m.ok /\ raw.len # 0)
      <3>1. session' = 0 /\ raw' \in {raw, [raw EXCEPT !.data = <<>>]} /\ UNCHANGED <<secQueue, alive>>
        BY <1>7, <2>4 DEF RecvWrite
      <3>2. /\ [raw EXCEPT !.data = <<>>] \in [addr : Nat, len : Nat, data : Seq(Nat)]
            /\ [raw EXCEPT !.data = <<>>].addr = raw.addr /\ [raw EXCEPT !.data = <<>>].len = raw.len
        BY EmptySeq
      <3>3. raw' \in [addr : Nat, len : Nat, data : Seq(Nat)] /\ raw'.addr + raw'.len <= FlashSize
        BY <3>1, <3>2
      <3> QED
        BY <1>1, <1>2, <2>1, <3>1, <3>3
    <2> QED
      BY <2>3, <2>4
  <1>8. CASE RecvAsk(m)
    <2>1. /\ Recv(m) /\ prioQueue' = Append(prioQueue, Msg("REPLY", 0, 0, <<>>))
          /\ UNCHANGED <<session, indClosesSession, secQueue, raw, alive, got, clock>>
      BY <1>8 DEF RecvAsk, rawVars
    <2>2. Msg("REPLY", 0, 0, <<>>) \in SoundMsg(ops, timeOf)
      <3>1. "REPLY" \in Kinds \ {"READ", "RTC_SET"} /\ ops \in 0..MaxOps /\ 0 \in 0..ops
        BY KindsDistinct DEF Sound
      <3> QED
        BY <3>1, EmptySound
    <2>3. prioQueue' \in Soundly
      BY <2>1, <2>2, AppendSeq
    <2> QED
      BY <1>1, <1>2, <2>1, <2>3
  <1>9. CASE RecvOther(m)
    <2>1. /\ Recv(m)
          /\ UNCHANGED <<session, indClosesSession, prioQueue, secQueue, raw, alive, got, clock>>
      BY <1>9 DEF RecvOther, rawVars
    <2> QED
      BY <1>1, <1>2, <2>1
  <1> QED
    BY <1>3, <1>4, <1>5, <1>6, <1>7, <1>8, <1>9

(* Every step keeps the types and Sound.                                   *)
LEMMA NextSound == TypeOK /\ Sound /\ [Next]_vars => TypeOK' /\ Sound'
  <1> SUFFICES ASSUME TypeOK, Sound, [Next]_vars PROVE TypeOK' /\ Sound'
    OBVIOUS
  <1>1. CASE SimpleRequest
    BY <1>1, SimpleRequests, RequestSound
  <1>2. CASE FlashRequest
    BY <1>2, ReadRequestSound, WriteRequestSound, EraseRequestSound DEF FlashRequest
  <1>3. CASE \E t \in Times : drbcc_set_rtc(t)
    BY <1>3, SetRtcSound
  <1>4. CASE Trigger
    BY <1>4, SendSound, TimerSound, RecvAckSound, RecvSound DEF Trigger
  <1>5. CASE Peer
    BY <1>5, PeerStepSound DEF Peer
  <1>6. CASE Fault
    BY <1>6, TimerSound, PeerStepSound DEF Fault
  <1>7. CASE \E e \in Events : PeerEvent(e)
    BY <1>7, PeerStepSound
  <1>8. CASE UNCHANGED vars
    <2>1. TypeOK'
      BY <1>8 DEF TypeOK, vars, hostVars, rawVars, peerVars, countVars, historyVars
    <2>2. Sound'
      BY <1>8 DEF Sound, vars, hostVars, rawVars, peerVars, countVars, historyVars
    <2> QED
      BY <2>1, <2>2
  <1> QED
    BY <1>1, <1>2, <1>3, <1>4, <1>5, <1>6, <1>7, <1>8 DEF Next

(* The handle, the queues and the clock keep their types: no flash message *)
(* of the library is longer than a chunk, and what the controller reads or *)
(* writes for it lies in the flash.                                        *)
THEOREM SessionTypeCorrect == Spec => []TypeOK
  <1>1. Init => TypeOK /\ Sound
    BY InitSound
  <1>2. TypeOK /\ Sound /\ [Next]_vars => TypeOK' /\ Sound'
    BY NextSound
  <1> QED
    BY <1>1, <1>2, PTL DEF Spec

-----------------------------------------------------------------------------
(* The round trip of the clock.                                            *)

LEMMA NextRoundTrip == TypeOK /\ Sound /\ RtcRoundTrip /\ [Next]_vars => RtcRoundTrip'
  <1> SUFFICES ASSUME TypeOK, Sound, RtcRoundTrip, [Next]_vars PROVE RtcRoundTrip'
    OBVIOUS
  <1>1. CASE UNCHANGED <<clock, timeOf>>
    BY <1>1 DEF RtcRoundTrip
  <1>2. ASSUME NEW t \in Times, drbcc_set_rtc(t) PROVE RtcRoundTrip'
    <2>1. clock' = clock /\ timeOf' = [timeOf EXCEPT ![ops + 1] = t]
      BY <1>2 DEF drbcc_set_rtc, Begin
    <2>2. clock.by \in 0..ops /\ timeOf \in [1..MaxOps -> Tm \cup {<<>>}] /\ ops \in 0..MaxOps
      BY DEF Sound
    <2>3. clock.by # 0 => clock.by \in 1..MaxOps /\ clock.by # ops + 1
      BY <2>2, SizesType
    <2>4. clock.by # 0 => timeOf'[clock.by] = timeOf[clock.by]
      BY <2>1, <2>2, <2>3
    <2> QED
      BY <2>1, <2>4 DEF RtcRoundTrip
  <1>3. ASSUME NEW m, RecvRtc(m) PROVE RtcRoundTrip'
    <2>1. m \in SoundAnswer(ops, timeOf) /\ timeOf' = timeOf
      BY <1>3, RecvKeeps DEF RecvRtc
    <2>2. CASE m.ok
      <3>1. clock' = [tm |-> Time(m.bytes), by |-> m.addr]
        BY <1>3, <2>2 DEF RecvRtc
      <3>2. m.addr # 0 => timeOf[m.addr] \in Tm /\ m.bytes = Registers(timeOf[m.addr])
        BY <1>3, <2>1 DEF RecvRtc, SoundAnswer
      <3>3. m.addr # 0 => Time(m.bytes) = timeOf[m.addr]
        BY <3>2, TimeOfRegisters
      <3> QED
        BY <2>1, <3>1, <3>3 DEF RtcRoundTrip
    <2>3. CASE ~m.ok
      BY <1>1, <1>3, <2>1, <2>3 DEF RecvRtc
    <2> QED
      BY <2>2, <2>3
  <1>4. SimpleRequest => UNCHANGED <<clock, timeOf>>
    BY SimpleRequests DEF Request, Begin
  <1>5. FlashRequest => UNCHANGED <<clock, timeOf>>
    BY DEF FlashRequest, drbcc_req_flash_read, drbcc_req_flash_write, drbcc_req_flash_erase_block,
           Begin
  <1>6. ASSUME Trigger PROVE UNCHANGED <<clock, timeOf>> \/ \E m : RecvRtc(m)
    <2>1. SendPrio \/ SendSec \/ AnswerTimeout \/ RecvAck => UNCHANGED <<clock, timeOf>>
      BY DEF SendPrio, SendSec, Send, AnswerTimeout, RecvAck, historyVars
    <2>2. ASSUME NEW m, RecvAnswer(m) \/ RecvStatus(m) \/ RecvRead(m) \/ RecvWrite(m)
                        \/ RecvAsk(m) \/ RecvOther(m)
          PROVE  UNCHANGED <<clock, timeOf>>
      BY <2>2 DEF RecvAnswer, RecvStatus, RecvRead, RecvWrite, RecvAsk, RecvOther, Recv
    <2> QED
      BY <1>6, <2>1, <2>2 DEF Trigger
  <1>7. Peer \/ Fault \/ (\E e \in Events : PeerEvent(e)) => UNCHANGED <<clock, timeOf>>
    BY DEF Peer, PeerAck, PeerExecute, Fault, GiveUp, PeerRefuses, PeerAnswersShort, PeerFails,
           ToggleError, PeerEvent, historyVars
  <1>8. UNCHANGED vars => UNCHANGED <<clock, timeOf>>
    BY DEF vars, historyVars
  <1> QED
    BY <1>1, <1>2, <1>3, <1>4, <1>5, <1>6, <1>7, <1>8 DEF Next

(* The time that rtc_cb reports is the one that the request set, for every *)
(* time of the two centuries that the registers know, through the BCD      *)
(* conversions of drbcc_set_rtc and libdrbcc_proc_msg.                     *)
THEOREM ClockComesBack == Spec => []RtcRoundTrip
  <1>1. Init => TypeOK /\ Sound /\ RtcRoundTrip
    BY InitSound DEF Init, RtcRoundTrip, NoClock
  <1>2. TypeOK /\ Sound /\ RtcRoundTrip /\ [Next]_vars => TypeOK' /\ Sound' /\ RtcRoundTrip'
    BY NextSound, NextRoundTrip
  <1> QED
    BY <1>1, <1>2, PTL DEF Spec

-----------------------------------------------------------------------------
(* A session that nothing disturbed meets only messages of its own.        *)

LEMMA OwnFacts ==
    ASSUME NEW n
    PROVE  /\ OwnMsg(n) \subseteq Message
           /\ None \in OwnMsg(n) /\ Ack \in OwnMsg(n)
           /\ \A m \in Message : m.op = n => m \in OwnMsg(n)
           /\ \A m \in Message : m.cmd \notin Commands => m \in OwnMsg(n)
           /\ \A m \in OwnMsg(n) : m.cmd \in Commands => m.op = n
  BY NoneType, AckType, KindsDistinct DEF OwnMsg

LEMMA OwnNew ==
    ASSUME NEW cmd \in Kinds, NEW op \in 0..MaxOps, NEW addr \in Nat, NEW bytes \in Seq(Nat),
           Len(bytes) <= Chunk
    PROVE  Msg(cmd, op, addr, bytes) \in OwnMsg(op)
  <1>1. Msg(cmd, op, addr, bytes) \in Message /\ Msg(cmd, op, addr, bytes).op = op
    BY MsgType
  <1> QED
    BY <1>1, OwnFacts

(* The first message of a request that finds nothing under way.            *)
LEMMA BeginOwn ==
    ASSUME TypeOK, TypeOK', UNCHANGED <<waiting, peer, line>>, undisturbed' = Idle,
           NEW m \in OwnMsg(session'),
           prioQueue' \in {prioQueue, Append(prioQueue, m)},
           secQueue' \in {secQueue, Append(secQueue, m)}
    PROVE  Own'
  <1> SUFFICES ASSUME undisturbed'
               PROVE  /\ prioQueue' \in Seq(OwnMsg(session'))
                      /\ secQueue' \in Seq(OwnMsg(session'))
                      /\ waiting' \in OwnMsg(session')
                      /\ peer' \in Seq(OwnMsg(session'))
                      /\ line' \in Seq(OwnMsg(session'))
    BY DEF Own
  <1>1. prioQueue = <<>> /\ secQueue = <<>> /\ waiting = None /\ peer = <<>> /\ line = <<>>
    <2>1. Idle
      BY Zenon DEF TypeOK
    <2> QED
      BY <2>1 DEF Idle
  <1>2. <<>> \in Seq(OwnMsg(session')) /\ Append(<<>>, m) \in Seq(OwnMsg(session'))
    BY EmptySeq, AppendSeq
  <1> QED
    BY <1>1, <1>2, OwnFacts

LEMMA RequestOwn ==
    ASSUME TypeOK, TypeOK', Sound,
           SimpleRequest \/ FlashRequest \/ \E t \in Times : drbcc_set_rtc(t)
    PROVE  Own'
  <1>1. ASSUME NEW cmd \in Simple, Request(cmd) PROVE Own'
    <2>1. /\ undisturbed' = Idle /\ session' = ops + 1 /\ ops < MaxOps
          /\ UNCHANGED <<waiting, peer, line, secQueue>>
          /\ prioQueue' = Append(prioQueue, Msg(cmd, ops + 1, 0, <<>>))
      BY <1>1 DEF Request, Begin, peerVars
    <2>2. Msg(cmd, ops + 1, 0, <<>>) \in OwnMsg(session')
      <3>1. cmd \in Kinds
        BY DEF Simple, Kinds, Commands
      <3>2. ops + 1 \in 0..MaxOps /\ Len(<<>>) <= Chunk
        BY <2>1, SizesType DEF Sound
      <3> QED
        BY <2>1, <3>1, <3>2, EmptySeq, OwnNew
    <2> QED
      BY <2>1, <2>2, BeginOwn
  <1>2. ASSUME NEW t \in Times, drbcc_set_rtc(t) PROVE Own'
    <2>1. /\ undisturbed' = Idle /\ session' = ops + 1 /\ ops < MaxOps
          /\ UNCHANGED <<waiting, peer, line, secQueue>>
          /\ prioQueue' = Append(prioQueue, Msg("RTC_SET", ops + 1, 0, Registers(t)))
      BY <1>2 DEF drbcc_set_rtc, Begin, peerVars
    <2>2. Msg("RTC_SET", ops + 1, 0, Registers(t)) \in OwnMsg(session')
      <3>1. "RTC_SET" \in Kinds
        BY KindsDistinct
      <3>2. Registers(t) \in Seq(Nat) /\ Len(Registers(t)) = 7
        BY RegistersType, SessionAssumption
      <3>3. ops + 1 \in 0..MaxOps /\ Len(Registers(t)) <= Chunk
        BY <2>1, <3>2, SizesType DEF Sound
      <3> QED
        BY <2>1, <3>1, <3>2, <3>3, OwnNew
    <2> QED
      BY <2>1, <2>2, BeginOwn
  <1>3. ASSUME NEW t \in Transfers, drbcc_req_flash_read(t[1], t[2]) PROVE Own'
    <2> DEFINE size == IF t[2] >= Chunk THEN Chunk ELSE t[2] % Chunk
    <2>1. /\ undisturbed' = Idle /\ session' = ops + 1 /\ ops < MaxOps
          /\ UNCHANGED <<waiting, peer, line, prioQueue>>
          /\ secQueue' = Append(secQueue, ReadMsg(ops + 1, t[1], size))
      BY <1>3 DEF drbcc_req_flash_read, Begin, FlashRead, peerVars
    <2>2. ReadMsg(ops + 1, t[1], size) \in OwnMsg(session')
      <3>1. t[1] \in Nat /\ t[2] \in Nat
        BY SessionAssumption
      <3>2. size \in 0..Chunk
        <4>1. t[2] % Chunk \in 0..(Chunk - 1)
          BY <3>1, ChunkSize
        <4> QED
          BY <4>1, SizesType
      <3>3. ops + 1 \in 0..MaxOps
        BY <2>1, SizesType DEF Sound
      <3> QED
        BY <2>1, <3>1, <3>2, <3>3, ReadMsgType, OwnFacts
    <2> QED
      BY <2>1, <2>2, BeginOwn
  <1>4. ASSUME NEW t \in Transfers, drbcc_req_flash_write(t[1], t[2]) PROVE Own'
    <2> DEFINE bytes == FirstOf(Bytes(ops + 1, t[2]), FirstSize(t[1], t[2]))
    <2>1. /\ undisturbed' = Idle /\ session' = ops + 1 /\ ops < MaxOps
          /\ UNCHANGED <<waiting, peer, line, prioQueue>>
          /\ secQueue' \in {secQueue, Append(secQueue, Msg("WRITE", ops + 1, t[1], bytes))}
      BY <1>4 DEF drbcc_req_flash_write, peerVars
    <2>2. Msg("WRITE", ops + 1, t[1], bytes) \in OwnMsg(session')
      <3>1. t[1] \in Nat /\ t[2] \in Nat
        BY SessionAssumption
      <3>2. ops + 1 \in 0..MaxOps /\ ops + 1 \in Nat
        BY <2>1, SizesType DEF Sound
      <3>3. bytes \in Seq(Nat) /\ Len(bytes) <= Chunk
        <4>1. FirstSize(t[1], t[2]) \in 0..Chunk
          BY <3>1, FirstSizeType
        <4>2. Bytes(ops + 1, t[2]) \in Seq(Nat)
          BY <3>1, <3>2, BytesSeq
        <4>3. bytes \in Seq(Nat) /\ Len(bytes) = FirstSize(t[1], t[2])
          BY <4>1, <4>2, FirstSeq
        <4> QED
          BY <4>1, <4>3
      <3>4. "WRITE" \in Kinds
        BY KindsDistinct
      <3> HIDE DEF bytes
      <3> QED
        BY <2>1, <3>1, <3>2, <3>3, <3>4, OwnNew
    <2> QED
      BY <2>1, <2>2, BeginOwn
  <1>5. ASSUME NEW b \in 0..(NumBlocks - 1), drbcc_req_flash_erase_block(b) PROVE Own'
    <2>1. /\ undisturbed' = Idle /\ session' = ops + 1 /\ ops < MaxOps
          /\ UNCHANGED <<waiting, peer, line, prioQueue>>
          /\ secQueue' = Append(secQueue, Msg("ERASE", ops + 1, b, <<>>))
      BY <1>5 DEF drbcc_req_flash_erase_block, Begin, peerVars
    <2>2. Msg("ERASE", ops + 1, b, <<>>) \in OwnMsg(session')
      <3>1. "ERASE" \in Kinds
        BY KindsDistinct
      <3>2. ops + 1 \in 0..MaxOps /\ Len(<<>>) <= Chunk /\ b \in Nat
        BY <2>1, SizesType, SessionAssumption DEF Sound
      <3> QED
        BY <2>1, <3>1, <3>2, EmptySeq, OwnNew
    <2> QED
      BY <2>1, <2>2, BeginOwn
  <1> QED
    BY <1>1, <1>2, <1>3, <1>4, <1>5, SimpleRequests DEF FlashRequest

(* What Own says of a session that goes on.                                *)
LEMMA OwnGoesOn ==
    ASSUME TypeOK, Own, session' \in {0, session}, undisturbed' => undisturbed,
           session # 0 /\ undisturbed /\ undisturbed' =>
              /\ prioQueue' \in Seq(OwnMsg(session))
              /\ secQueue' \in Seq(OwnMsg(session))
              /\ waiting' \in OwnMsg(session)
              /\ peer' \in Seq(OwnMsg(session))
              /\ line' \in Seq(OwnMsg(session))
    PROVE  Own'
  BY DEF Own

LEMMA OwnQueues ==
    ASSUME Own, session # 0, undisturbed
    PROVE  /\ prioQueue \in Seq(OwnMsg(session)) /\ secQueue \in Seq(OwnMsg(session))
           /\ waiting \in OwnMsg(session)
           /\ peer \in Seq(OwnMsg(session)) /\ line \in Seq(OwnMsg(session))
           /\ prioQueue # <<>> => /\ Head(prioQueue) \in OwnMsg(session)
                                  /\ Tail(prioQueue) \in Seq(OwnMsg(session))
           /\ secQueue # <<>> => /\ Head(secQueue) \in OwnMsg(session)
                                 /\ Tail(secQueue) \in Seq(OwnMsg(session))
           /\ peer # <<>> => /\ Head(peer) \in OwnMsg(session)
                             /\ Tail(peer) \in Seq(OwnMsg(session))
           /\ line # <<>> => /\ Head(line) \in OwnMsg(session)
                             /\ Tail(line) \in Seq(OwnMsg(session))
  BY HeadTailSeq DEF Own

LEMMA TriggerOwn ==
    ASSUME TypeOK, Sound, Own, Trigger
    PROVE  Own'
  <1>1. CASE SendPrio
    <2>1. /\ prioQueue # <<>> /\ prioQueue' = Tail(prioQueue) /\ waiting' = Head(prioQueue)
          /\ peer' = Append(peer, Head(prioQueue))
          /\ UNCHANGED <<session, undisturbed, secQueue, line>>
      BY <1>1 DEF SendPrio, Send, historyVars
    <2> QED
      BY <2>1, OwnQueues, AppendSeq, OwnGoesOn
  <1>2. CASE SendSec
    <2>1. /\ secQueue # <<>> /\ secQueue' = Tail(secQueue) /\ waiting' = Head(secQueue)
          /\ peer' = Append(peer, Head(secQueue))
          /\ UNCHANGED <<session, undisturbed, prioQueue, line>>
      BY <1>2 DEF SendSec, Send, historyVars
    <2> QED
      BY <2>1, OwnQueues, AppendSeq, OwnGoesOn
  <1>3. CASE AnswerTimeout
    <2>1. UNCHANGED <<session, undisturbed, prioQueue, secQueue, waiting, peer, line>>
      BY <1>3 DEF AnswerTimeout, peerVars, historyVars
    <2> QED
      BY <2>1, OwnQueues, OwnGoesOn
  <1>4. CASE RecvAck
    <2>1. /\ line # <<>> /\ line' = Tail(line) /\ waiting' = None /\ session' \in {0, session}
          /\ UNCHANGED <<undisturbed, prioQueue, secQueue, peer>>
      BY <1>4 DEF RecvAck, peerVars
    <2> QED
      BY <2>1, OwnQueues, OwnFacts, OwnGoesOn
  <1>5. ASSUME NEW m, Recv(m), session' \in {0, session},
               session # 0 /\ undisturbed /\ m \in OwnMsg(session) =>
                  prioQueue' \in Seq(OwnMsg(session)) /\ secQueue' \in Seq(OwnMsg(session))
        PROVE  Own'
    <2>1. line # <<>> /\ m = Head(line) /\ line' = Tail(line) /\ UNCHANGED <<undisturbed, waiting, peer>>
      BY <1>5 DEF Recv, peerVars
    <2> QED
      BY <1>5, <2>1, OwnQueues, OwnGoesOn
  <1>6. ASSUME NEW m, RecvAnswer(m) \/ RecvRtc(m) \/ RecvOther(m) PROVE Own'
    <2>1. Recv(m) /\ session' \in {0, session} /\ UNCHANGED <<prioQueue, secQueue>>
      BY <1>6 DEF RecvAnswer, RecvRtc, RecvOther
    <2> QED
      BY <1>5, <2>1, OwnQueues
  <1>7. ASSUME NEW m, RecvStatus(m) PROVE Own'
    <2>1. Recv(m) /\ session' \in {0, session} /\ UNCHANGED <<prioQueue, secQueue>>
      BY <1>7 DEF RecvStatus
    <2> QED
      BY <1>5, <2>1, OwnQueues
  <1>8. ASSUME NEW m, RecvRead(m) PROVE Own'
    <2>1. Recv(m) /\ m.cmd = "READ" /\ prioQueue' = prioQueue
      BY <1>8 DEF RecvRead
    <2>2. CASE m.ok /\ raw.len # 0
      <3> DEFINE size == IF raw.len >= Chunk THEN Chunk ELSE raw.len % Chunk
      <3>1. session' = session /\ secQueue' = Append(secQueue, ReadMsg(m.op, raw.addr, size))
        BY <1>8, <2>2 DEF RecvRead, FlashRead
      <3>2. size \in 0..Chunk /\ raw.addr \in Nat
        <4>1. raw.len \in Nat /\ raw.addr \in Nat
          BY DEF TypeOK
        <4>2. raw.len % Chunk \in 0..(Chunk - 1)
          BY <4>1, ChunkSize
        <4> QED
          BY <4>1, <4>2, SizesType
      <3> HIDE DEF size
      <3>3. ASSUME session # 0, undisturbed, m \in OwnMsg(session)
            PROVE  secQueue' \in Seq(OwnMsg(session))
        <4>1. m.op = session
          BY <2>1, <3>3, OwnFacts, KindsDistinct DEF Commands
        <4>2. session \in 0..MaxOps
          BY DEF TypeOK
        <4>3. ReadMsg(m.op, raw.addr, size) \in OwnMsg(session)
          BY <3>2, <4>1, <4>2, ReadMsgType, OwnFacts
        <4> QED
          BY <3>1, <3>3, <4>3, OwnQueues, AppendSeq
      <3> QED
        BY <1>5, <2>1, <3>1, <3>3, OwnQueues
    <2>3. CASE ~(m.ok /\ raw.len # 0)
      <3>1. session' = 0 /\ secQueue' = secQueue
        BY <1>8, <2>3 DEF RecvRead
      <3> QED
        BY <1>5, <2>1, <3>1, OwnQueues
    <2> QED
      BY <2>2, <2>3
  <1>9. ASSUME NEW m, RecvWrite(m) PROVE Own'
    <2>1. Recv(m) /\ m.cmd = "WRITE" /\ prioQueue' = prioQueue
      BY <1>9 DEF RecvWrite
    <2>2. CASE m.ok /\ raw.len # 0
      <3> DEFINE size == IF raw.len >= Chunk THEN Chunk ELSE raw.len
                 bytes == FirstOf(raw.data, size)
      <3>1. session' = session /\ secQueue' = Append(secQueue, Msg("WRITE", m.op, raw.addr, bytes))
        BY <1>9, <2>2 DEF RecvWrite, FlashWrite
      <3>2. bytes \in Seq(Nat) /\ Len(bytes) <= Chunk /\ raw.addr \in Nat
        <4>1. raw.len \in Nat /\ raw.addr \in Nat /\ raw.data \in Seq(Nat)
          BY DEF TypeOK
        <4>2. size \in Nat /\ size <= Chunk
          BY <4>1, SizesType
        <4> HIDE DEF size
        <4>3. bytes \in Seq(Nat) /\ Len(bytes) = size
          BY <4>1, <4>2, FirstSeq
        <4> QED
          BY <4>1, <4>2, <4>3
      <3> HIDE DEF size, bytes
      <3>3. ASSUME session # 0, undisturbed, m \in OwnMsg(session)
            PROVE  secQueue' \in Seq(OwnMsg(session))
        <4>1. m.op = session
          BY <2>1, <3>3, OwnFacts, KindsDistinct DEF Commands
        <4>2. session \in 0..MaxOps /\ "WRITE" \in Kinds
          BY KindsDistinct DEF TypeOK
        <4>3. Msg("WRITE", m.op, raw.addr, bytes) \in OwnMsg(session)
          BY <3>2, <4>1, <4>2, OwnNew
        <4> QED
          BY <3>1, <3>3, <4>3, OwnQueues, AppendSeq
      <3> QED
        BY <1>5, <2>1, <3>1, <3>3, OwnQueues
    <2>3. CASE ~(m.ok /\ raw.len # 0)
      <3>1. session' = 0 /\ secQueue' = secQueue
        BY <1>9, <2>3 DEF RecvWrite
      <3> QED
        BY <1>5, <2>1, <3>1, OwnQueues
    <2> QED
      BY <2>2, <2>3
  <1>10. ASSUME NEW m, RecvAsk(m) PROVE Own'
    <2>1. /\ Recv(m) /\ prioQueue' = Append(prioQueue, Msg("REPLY", 0, 0, <<>>))
          /\ UNCHANGED <<session, secQueue>>
      BY <1>10 DEF RecvAsk
    <2>2. Msg("REPLY", 0, 0, <<>>) \in OwnMsg(session)
      <3>1. "REPLY" \in Kinds /\ "REPLY" \notin Commands
        BY KindsDistinct
      <3> QED
        BY <3>1, EmptyMsgType, OwnFacts
    <2> QED
      BY <1>5, <2>1, <2>2, OwnQueues, AppendSeq
  <1> QED
    BY <1>1, <1>2, <1>3, <1>4, <1>6, <1>7, <1>8, <1>9, <1>10 DEF Trigger

LEMMA PeerOwn ==
    ASSUME TypeOK, TypeOK', Sound, Own, Peer \/ Fault \/ \E e \in Events : PeerEvent(e)
    PROVE  Own'
  <1>1. CASE PeerAck
    <2>1. line' = Append(line, Ack)
          /\ UNCHANGED <<session, undisturbed, prioQueue, secQueue, waiting, peer>>
      BY <1>1 DEF PeerAck, hostVars, historyVars
    <2> QED
      BY <2>1, OwnQueues, OwnFacts, AppendSeq, OwnGoesOn
  <1>2. CASE PeerExecute
    <2> DEFINE m == Head(peer)
    <2>1. /\ peer # <<>> /\ peer' = Tail(peer) /\ line' \in {line, Append(line, AnswerTo(m))}
          /\ UNCHANGED <<session, undisturbed, prioQueue, secQueue, waiting>>
      BY <1>2 DEF PeerExecute, hostVars, historyVars
    <2>2. m \in SoundMsg(ops, timeOf)
      BY <2>1, SoundHead
    <2>3. /\ AnswerTo(m) \in Message /\ AnswerTo(m).op = m.op
          /\ m.cmd \in Commands <=> AnswerTo(m).cmd \in Commands
      BY <2>2, PeerSound, SoundIsMessage
    <2>4. ASSUME session # 0, undisturbed PROVE line' \in Seq(OwnMsg(session))
      <3>1. m \in OwnMsg(session) /\ line \in Seq(OwnMsg(session))
        BY <2>1, <2>4, OwnQueues
      <3> HIDE DEF m
      <3>2. AnswerTo(m) \in OwnMsg(session)
        BY <2>3, <3>1, OwnFacts
      <3> QED
        BY <2>1, <3>1, <3>2, AppendSeq
    <2> QED
      BY <2>1, <2>4, OwnQueues, OwnGoesOn
  <1>3. CASE Fault
    <2>1. undisturbed' = FALSE
      BY <1>3 DEF Fault, GiveUp, PeerRefuses, PeerAnswersShort, PeerFails, ToggleError
    <2> QED
      BY <2>1 DEF Own
  <1>4. ASSUME NEW e \in Events, PeerEvent(e) PROVE Own'
    <2>1. /\ line' = Append(line, Msg(e, 0, 0, <<>>)) /\ (undisturbed' => undisturbed /\ e # "STATUS")
          /\ UNCHANGED <<session, prioQueue, secQueue, waiting, peer>>
      BY <1>4 DEF PeerEvent, hostVars, peerVars
    <2>2. ASSUME undisturbed' PROVE Msg(e, 0, 0, <<>>) \in OwnMsg(session)
      <3>1. e \in Kinds /\ e \notin Commands
        BY <2>1, <2>2, KindsDistinct DEF Events
      <3> QED
        BY <3>1, EmptyMsgType, OwnFacts
    <2> QED
      BY <2>1, <2>2, OwnQueues, AppendSeq, OwnGoesOn
  <1> QED
    BY <1>1, <1>2, <1>3, <1>4 DEF Peer

LEMMA NextOwn == TypeOK /\ Sound /\ Own /\ TypeOK' /\ [Next]_vars => Own'
  <1> SUFFICES ASSUME TypeOK, Sound, Own, TypeOK', [Next]_vars PROVE Own'
    OBVIOUS
  <1>1. CASE SimpleRequest \/ FlashRequest \/ \E t \in Times : drbcc_set_rtc(t)
    BY <1>1, RequestOwn
  <1>2. CASE Trigger
    BY <1>2, TriggerOwn
  <1>3. CASE Peer \/ Fault \/ \E e \in Events : PeerEvent(e)
    BY <1>3, PeerOwn
  <1>4. CASE UNCHANGED vars
    BY <1>4 DEF Own, vars, hostVars, peerVars, historyVars
  <1> QED
    BY <1>1, <1>2, <1>3, <1>4 DEF Next

(* A step that ends such a session brings its acknowledgement or answer.   *)
LEMMA EndsAnswered ==
    ASSUME TypeOK, Sound, Own, TypeOK', [Next]_vars, Closes, undisturbed'
    PROVE  answered'
  <1>1. session # 0 /\ session' = 0
    BY DEF Closes
  <1>2. ~(SimpleRequest \/ FlashRequest \/ \E t \in Times : drbcc_set_rtc(t))
    BY <1>1, SimpleRequests DEF FlashRequest, Request, Begin, drbcc_set_rtc, drbcc_req_flash_read,
       drbcc_req_flash_write, drbcc_req_flash_erase_block
  <1>3. ~(Peer \/ Fault \/ \E e \in Events : PeerEvent(e))
    BY <1>1 DEF Peer, PeerAck, PeerExecute, Fault, GiveUp, PeerRefuses, PeerAnswersShort, PeerFails,
       ToggleError, PeerEvent, hostVars
  <1>4. session' # session
    BY <1>1
  <1>5. ~UNCHANGED vars
    BY <1>4 DEF vars, hostVars
  <1>6. CASE RecvAck
    <2>1. undisturbed /\ waiting.cmd \in AckEnds
      BY <1>1, <1>6 DEF RecvAck, AckCloses
    <2>2. waiting.op = session
      BY <1>1, <2>1, OwnQueues, OwnFacts DEF Commands
    <2> QED
      BY <1>6, <2>1, <2>2 DEF RecvAck
  <1>7. ASSUME NEW m, Recv(m), m.cmd \in Commands PROVE answered'
    <2>1. undisturbed /\ line # <<>> /\ m = Head(line)
      BY <1>7 DEF Recv
    <2>2. m.op = session
      BY <1>1, <1>7, <2>1, OwnQueues, OwnFacts
    <2> QED
      BY <1>1, <1>7, <2>2 DEF Recv
  <1>8. ASSUME NEW m, RecvAnswer(m) \/ RecvRtc(m) \/ RecvStatus(m) \/ RecvRead(m) \/ RecvWrite(m)
        PROVE  answered'
    <2>1. Recv(m) /\ m.cmd \in Commands
      BY <1>8, KindsDistinct DEF RecvAnswer, RecvRtc, RecvStatus, RecvRead, RecvWrite, Commands
    <2> QED
      BY <1>7, <2>1
  <1>9. ~(\E m : RecvAsk(m) \/ RecvOther(m))
    BY <1>4 DEF RecvAsk, RecvOther
  <1>10. ~(SendPrio \/ SendSec \/ AnswerTimeout)
    BY <1>4 DEF SendPrio, SendSec, Send, AnswerTimeout
  <1> QED
    BY <1>2, <1>3, <1>5, <1>6, <1>8, <1>9, <1>10 DEF Next, Trigger

(* A session that nothing disturbed is only reported as ended with its own *)
(* acknowledgement or answer: whatever it asked for, whoever asked before, *)
(* and however the controller's own messages came in between, session_cb   *)
(* is never early.                                                         *)
THEOREM SessionNotEarly == Spec => EndsWithItsAnswer
  <1>1. Init => TypeOK /\ Sound /\ Own
    BY InitSound DEF Init, Own
  <1>2. TypeOK /\ Sound /\ Own /\ [Next]_vars => TypeOK' /\ Sound' /\ Own'
    BY NextSound, NextOwn
  <1>3. TypeOK /\ Sound /\ Own /\ [Next]_vars => [Closes /\ undisturbed' => answered']_vars
    BY NextSound, EndsAnswered
  <1> QED
    BY <1>1, <1>2, <1>3, PTL DEF Spec, EndsWithItsAnswer

-----------------------------------------------------------------------------
(* Requests that do not overlap: every part of a write is within a page.   *)

(* What is missing to the next multiple.                                   *)
LEMMA UpToMultiple ==
    ASSUME NEW n \in Nat \ {0}, NEW a \in Nat
    PROVE  (a + (n - (a % n))) % n = 0
  <1> DEFINE q == a \div n
             r == a % n
  <1>1. q \in Nat /\ r \in 0..(n - 1) /\ a = (n * q) + r
    OBVIOUS
  <1> HIDE DEF q, r
  <1>2. a + (n - r) = n * (q + 1)
    BY <1>1
  <1>3. \A k \in Nat : (n * k) % n = 0
    OBVIOUS
  <1>4. (n * (q + 1)) % n = 0
    BY <1>1, <1>3
  <1>5. (a + (n - r)) % n = 0
    BY <1>2, <1>4
  <1> QED
    BY <1>5 DEF r

(* The next boundary, and the one behind a boundary.                       *)
LEMMA NextBoundary ==
    ASSUME NEW a \in Nat
    PROVE  /\ a % Chunk \in 0..(Chunk - 1)
           /\ (a + (Chunk - (a % Chunk))) % Chunk = 0
           /\ a % Chunk = 0 => (a + Chunk) % Chunk = 0
  <1>1. (a + (Chunk - (a % Chunk))) % Chunk = 0 /\ a % Chunk \in 0..(Chunk - 1)
    <2>1. Chunk \in Nat \ {0}
      BY SizesType
    <2>2. a % Chunk \in 0..(Chunk - 1)
      BY <2>1
    <2> QED
      BY <2>1, <2>2, UpToMultiple
  <1>2. ASSUME a % Chunk = 0 PROVE (a + Chunk) % Chunk = 0
    <2>1. Chunk - (a % Chunk) = Chunk
      BY <1>2, SizesType
    <2> QED
      BY <1>1, <2>1
  <1> QED
    BY <1>1, <1>2

LEMMA MsgKind ==
    ASSUME NEW cmd \in Kinds, NEW op \in 0..MaxOps, NEW addr \in Nat, NEW bytes \in Seq(Nat),
           Len(bytes) <= Chunk
    PROVE  Msg(cmd, op, addr, bytes) \in Message /\ Msg(cmd, op, addr, bytes).cmd = cmd
  BY MsgType

LEMMA JobFacts ==
    ASSUME NEW cmd
    PROVE  /\ JobMsg(cmd) \subseteq Message /\ PartMsg(cmd) \subseteq JobMsg(cmd)
           /\ \A m \in Message : m.cmd \notin {"READ", "WRITE"} => m \in PartMsg(cmd)
           /\ \A m \in Message : m.cmd = "READ" /\ cmd = "READ" => m \in PartMsg(cmd)
           /\ \A m \in Message : m.cmd = "WRITE" /\ cmd = "WRITE" /\ InPage(m) => m \in PartMsg(cmd)
           /\ \A m \in JobMsg(cmd) : m.cmd \in {"READ", "WRITE"} => m.cmd = cmd
           /\ \A m \in Message : \A m2 \in JobMsg(cmd) : m.cmd = m2.cmd => m \in JobMsg(cmd)
  BY DEF JobMsg, PartMsg

(* The first message of a request that finds nothing under way.            *)
LEMMA BeginPaged ==
    ASSUME TypeOK, TypeOK', Paged, UNCHANGED <<peer, line, alive>>, mixed' = (mixed \/ ~Idle),
           NEW m, Idle => m \in PartMsg(job'.cmd),
           prioQueue' \in {prioQueue, Append(prioQueue, m)},
           secQueue' \in {secQueue, Append(secQueue, m)},
           Idle /\ job'.cmd = "WRITE" /\ raw'.len # 0 =>
              Len(raw'.data) = raw'.len /\ raw'.addr % Chunk = 0
    PROVE  Paged'
  <1> SUFFICES ASSUME ~mixed'
               PROVE  /\ alive'
                      /\ prioQueue' \in Seq(JobMsg(job'.cmd))
                      /\ secQueue' \in Seq(PartMsg(job'.cmd))
                      /\ peer' \in Seq(JobMsg(job'.cmd))
                      /\ line' \in Seq(JobMsg(job'.cmd))
                      /\ job'.cmd = "WRITE" /\ raw'.len # 0 =>
                            Len(raw'.data) = raw'.len /\ raw'.addr % Chunk = 0
    BY DEF Paged
  <1>1. ~mixed /\ Idle
    BY Zenon DEF TypeOK
  <1>2. prioQueue = <<>> /\ secQueue = <<>> /\ peer = <<>> /\ line = <<>>
    BY <1>1 DEF Idle
  <1>3. /\ <<>> \in Seq(PartMsg(job'.cmd)) /\ Append(<<>>, m) \in Seq(PartMsg(job'.cmd))
        /\ <<>> \in Seq(JobMsg(job'.cmd)) /\ Append(<<>>, m) \in Seq(JobMsg(job'.cmd))
    <2>1. m \in PartMsg(job'.cmd) /\ m \in JobMsg(job'.cmd)
      BY <1>1, JobFacts
    <2> QED
      BY <2>1, EmptySeq, AppendSeq
  <1>4. alive'
    BY <1>1 DEF Paged
  <1> QED
    BY <1>1, <1>2, <1>3, <1>4

LEMMA RequestPaged ==
    ASSUME TypeOK, TypeOK', Sound, Paged,
           SimpleRequest \/ FlashRequest \/ \E t \in Times : drbcc_set_rtc(t)
    PROVE  Paged'
  <1>1. ASSUME NEW cmd \in Simple, Request(cmd) PROVE Paged'
    <2>1. /\ mixed' = (mixed \/ ~Idle) /\ ops < MaxOps /\ UNCHANGED <<alive, peer, line, secQueue, raw>>
          /\ prioQueue' = Append(prioQueue, Msg(cmd, ops + 1, 0, <<>>)) /\ job'.cmd = cmd
      BY <1>1 DEF Request, Begin, peerVars
    <2>2. Msg(cmd, ops + 1, 0, <<>>) \in PartMsg(cmd) /\ cmd # "WRITE"
      <3>1. cmd \in Kinds /\ cmd \notin {"READ", "WRITE"}
        BY KindsDistinct DEF Simple, Kinds, Commands
      <3>2. ops + 1 \in 0..MaxOps /\ Len(<<>>) <= Chunk
        BY <2>1, SizesType DEF Sound
      <3>3. Msg(cmd, ops + 1, 0, <<>>) \in Message /\ Msg(cmd, ops + 1, 0, <<>>).cmd = cmd
        BY <3>1, <3>2, MsgKind, EmptySeq
      <3> QED
        BY <3>1, <3>3, JobFacts
    <2> QED
      BY <2>1, <2>2, BeginPaged
  <1>2. ASSUME NEW t \in Times, drbcc_set_rtc(t) PROVE Paged'
    <2>1. /\ mixed' = (mixed \/ ~Idle) /\ ops < MaxOps /\ UNCHANGED <<alive, peer, line, secQueue, raw>>
          /\ prioQueue' = Append(prioQueue, Msg("RTC_SET", ops + 1, 0, Registers(t)))
          /\ job'.cmd = "RTC_SET"
      BY <1>2 DEF drbcc_set_rtc, Begin, peerVars
    <2>2. Msg("RTC_SET", ops + 1, 0, Registers(t)) \in PartMsg("RTC_SET")
      <3>1. "RTC_SET" \in Kinds
        BY KindsDistinct
      <3>2. Registers(t) \in Seq(Nat) /\ Len(Registers(t)) = 7
        BY RegistersType, SessionAssumption
      <3>3. ops + 1 \in 0..MaxOps /\ Len(Registers(t)) <= Chunk
        BY <2>1, <3>2, SizesType DEF Sound
      <3>4. /\ Msg("RTC_SET", ops + 1, 0, Registers(t)) \in Message
            /\ Msg("RTC_SET", ops + 1, 0, Registers(t)).cmd = "RTC_SET"
        <4>1. \A op \in 0..MaxOps, bytes \in Seq(Nat) : Len(bytes) <= Chunk =>
                 /\ Msg("RTC_SET", op, 0, bytes) \in Message
                 /\ Msg("RTC_SET", op, 0, bytes).cmd = "RTC_SET"
          BY ONLY <3>1, MsgKind
        <4> QED
          BY ONLY <3>2, <3>3, <4>1
      <3> QED
        BY <3>4, JobFacts
    <2> QED
      BY <2>1, <2>2, BeginPaged
  <1>3. ASSUME NEW t \in Transfers, drbcc_req_flash_read(t[1], t[2]) PROVE Paged'
    <2> DEFINE size == IF t[2] >= Chunk THEN Chunk ELSE t[2] % Chunk
    <2>1. /\ mixed' = (mixed \/ ~Idle) /\ ops < MaxOps /\ UNCHANGED <<alive, peer, line, prioQueue>>
          /\ secQueue' = Append(secQueue, ReadMsg(ops + 1, t[1], size)) /\ job'.cmd = "READ"
      BY <1>3 DEF drbcc_req_flash_read, Begin, FlashRead, peerVars
    <2>2. ReadMsg(ops + 1, t[1], size) \in PartMsg("READ")
      <3>1. t[1] \in Nat /\ t[2] \in Nat
        BY SessionAssumption
      <3>2. size \in 0..Chunk
        <4>1. t[2] % Chunk \in 0..(Chunk - 1)
          BY <3>1, ChunkSize
        <4> QED
          BY <4>1, SizesType
      <3>3. ops + 1 \in 0..MaxOps
        BY <2>1, SizesType DEF Sound
      <3> QED
        BY <3>1, <3>2, <3>3, ReadMsgType, JobFacts
    <2> QED
      BY <2>1, <2>2, BeginPaged
  <1>4. ASSUME NEW t \in Transfers, drbcc_req_flash_write(t[1], t[2]) PROVE Paged'
    <2> DEFINE addr == t[1]
               len == t[2]
               data == Bytes(ops + 1, len)
               size == FirstSize(addr, len)
               m == Msg("WRITE", ops + 1, addr, FirstOf(data, size))
    <2>1. /\ mixed' = (mixed \/ ~Idle) /\ ops < MaxOps /\ UNCHANGED <<alive, peer, line, prioQueue>>
          /\ secQueue' \in {secQueue, Append(secQueue, m)} /\ job'.cmd = "WRITE"
          /\ \/ raw' = raw
             \/ /\ ~(len <= size)
                /\ raw' = [addr |-> addr + size, len |-> len - size, data |-> RestOf(data, size)]
      BY <1>4 DEF drbcc_req_flash_write, peerVars
    <2>2. addr \in Nat /\ len \in Nat
      BY SessionAssumption
    <2>3. data \in Seq(Nat) /\ Len(data) = len
      <3>1. ops + 1 \in Nat
        BY DEF Sound
      <3> QED
        BY <2>2, <3>1, BytesSeq
    <2>4. /\ size \in 0..Chunk /\ size \in Nat
          /\ (addr % Chunk) + size <= Chunk
          /\ ~(len <= size) => (addr + size) % Chunk = 0
      <3> HIDE DEF addr, len
      <3>1. addr % Chunk \in 0..(Chunk - 1)
        BY <2>2, NextBoundary
      <3>2. CASE addr % Chunk # 0
        <4>1. size = Chunk - (addr % Chunk)
          BY <3>2 DEF FirstSize
        <4>2. (addr + size) % Chunk = 0
          BY <2>2, <4>1, NextBoundary
        <4> QED
          BY <3>1, <4>1, <4>2, SizesType
      <3>3. CASE addr % Chunk = 0 /\ len >= Chunk
        <4>1. size = Chunk
          BY <3>3 DEF FirstSize
        <4>2. (addr + size) % Chunk = 0
          BY <2>2, <3>3, <4>1, NextBoundary
        <4> QED
          BY <3>3, <4>1, <4>2, SizesType
      <3>4. CASE addr % Chunk = 0 /\ ~(len >= Chunk)
        <4>1. size = len
          BY <3>4 DEF FirstSize
        <4> QED
          BY <2>2, <3>4, <4>1, SizesType
      <3> QED
        BY <3>2, <3>3, <3>4
    <2> HIDE DEF addr, len, data, size
    <2>5. m \in PartMsg("WRITE")
      <3>1. FirstOf(data, size) \in Seq(Nat) /\ Len(FirstOf(data, size)) = size
        BY <2>3, <2>4, FirstSeq
      <3>2. ops + 1 \in 0..MaxOps /\ "WRITE" \in Kinds
        BY <2>1, SizesType, KindsDistinct DEF Sound
      <3>3. m \in Message /\ m.cmd = "WRITE" /\ m.addr = addr /\ m.len = size
        BY <2>2, <2>4, <3>1, <3>2, MsgType
      <3>4. InPage(m)
        BY <2>4, <3>3 DEF InPage
      <3> QED
        BY <3>3, <3>4, JobFacts
    <2>6. Idle /\ raw'.len # 0 => Len(raw'.data) = raw'.len /\ raw'.addr % Chunk = 0
      <3>1. CASE raw' = raw
        BY <3>1 DEF Idle
      <3>2. CASE /\ ~(len <= size)
                 /\ raw' = [addr |-> addr + size, len |-> len - size, data |-> RestOf(data, size)]
        <4>1. Len(RestOf(data, size)) = len - size
          <5>1. size <= Len(data)
            BY <2>2, <2>3, <2>4, <3>2
          <5> QED
            BY <2>3, <2>4, <5>1, RestSeq
        <4> QED
          BY <2>4, <3>2, <4>1
      <3> QED
        BY <2>1, <3>1, <3>2
    <2> HIDE DEF m
    <2> QED
      BY <2>1, <2>5, <2>6, BeginPaged
  <1>5. ASSUME NEW b \in 0..(NumBlocks - 1), drbcc_req_flash_erase_block(b) PROVE Paged'
    <2>1. /\ mixed' = (mixed \/ ~Idle) /\ ops < MaxOps /\ UNCHANGED <<alive, peer, line, prioQueue, raw>>
          /\ secQueue' = Append(secQueue, Msg("ERASE", ops + 1, b, <<>>)) /\ job'.cmd = "ERASE"
      BY <1>5 DEF drbcc_req_flash_erase_block, Begin, peerVars
    <2>2. Msg("ERASE", ops + 1, b, <<>>) \in PartMsg("ERASE")
      <3>1. "ERASE" \in Kinds
        BY KindsDistinct
      <3>2. ops + 1 \in 0..MaxOps /\ Len(<<>>) <= Chunk /\ b \in Nat
        BY <2>1, SizesType, SessionAssumption DEF Sound
      <3>3. Msg("ERASE", ops + 1, b, <<>>) \in Message /\ Msg("ERASE", ops + 1, b, <<>>).cmd = "ERASE"
        BY <3>1, <3>2, MsgKind, EmptySeq
      <3> QED
        BY <3>3, JobFacts
    <2> QED
      BY <2>1, <2>2, BeginPaged
  <1> QED
    BY <1>1, <1>2, <1>3, <1>4, <1>5, SimpleRequests DEF FlashRequest

(* What Paged says while no request begins.                                *)
LEMMA PagedGoesOn ==
    ASSUME TypeOK, Paged, mixed' = mixed, job' = job,
           ~mixed => /\ alive'
                     /\ prioQueue' \in Seq(JobMsg(job.cmd))
                     /\ secQueue' \in Seq(PartMsg(job.cmd))
                     /\ peer' \in Seq(JobMsg(job.cmd))
                     /\ line' \in Seq(JobMsg(job.cmd))
                     /\ job.cmd = "WRITE" /\ raw'.len # 0 =>
                           Len(raw'.data) = raw'.len /\ raw'.addr % Chunk = 0
    PROVE  Paged'
  BY DEF Paged

LEMMA PagedQueues ==
    ASSUME Paged, ~mixed
    PROVE  /\ alive
           /\ prioQueue \in Seq(JobMsg(job.cmd)) /\ secQueue \in Seq(PartMsg(job.cmd))
           /\ peer \in Seq(JobMsg(job.cmd)) /\ line \in Seq(JobMsg(job.cmd))
           /\ job.cmd = "WRITE" /\ raw.len # 0 => Len(raw.data) = raw.len /\ raw.addr % Chunk = 0
           /\ prioQueue # <<>> => /\ Head(prioQueue) \in JobMsg(job.cmd)
                                  /\ Tail(prioQueue) \in Seq(JobMsg(job.cmd))
           /\ secQueue # <<>> => /\ Head(secQueue) \in JobMsg(job.cmd)
                                 /\ Tail(secQueue) \in Seq(PartMsg(job.cmd))
           /\ peer # <<>> => /\ Head(peer) \in JobMsg(job.cmd)
                             /\ Tail(peer) \in Seq(JobMsg(job.cmd))
           /\ line # <<>> => /\ Head(line) \in JobMsg(job.cmd)
                             /\ Tail(line) \in Seq(JobMsg(job.cmd))
  <1>1. /\ prioQueue \in Seq(JobMsg(job.cmd)) /\ secQueue \in Seq(PartMsg(job.cmd))
        /\ peer \in Seq(JobMsg(job.cmd)) /\ line \in Seq(JobMsg(job.cmd)) /\ alive
        /\ job.cmd = "WRITE" /\ raw.len # 0 => Len(raw.data) = raw.len /\ raw.addr % Chunk = 0
    BY DEF Paged
  <1> QED
    BY <1>1, HeadTailSeq, JobFacts

LEMMA TriggerPaged ==
    ASSUME TypeOK, Sound, Paged, Trigger
    PROVE  Paged'
  <1>1. CASE SendPrio
    <2>1. /\ prioQueue # <<>> /\ prioQueue' = Tail(prioQueue) /\ peer' = Append(peer, Head(prioQueue))
          /\ UNCHANGED <<mixed, job, secQueue, line, raw, alive>>
      BY <1>1 DEF SendPrio, Send, rawVars, historyVars
    <2> QED
      BY <2>1, PagedQueues, AppendSeq, PagedGoesOn
  <1>2. CASE SendSec
    <2>1. /\ secQueue # <<>> /\ secQueue' = Tail(secQueue) /\ peer' = Append(peer, Head(secQueue))
          /\ UNCHANGED <<mixed, job, prioQueue, line, raw, alive>>
      BY <1>2 DEF SendSec, Send, rawVars, historyVars
    <2> QED
      BY <2>1, PagedQueues, AppendSeq, PagedGoesOn
  <1>3. CASE AnswerTimeout
    <2>1. UNCHANGED <<mixed, job, prioQueue, secQueue, peer, line, raw, alive>>
      BY <1>3 DEF AnswerTimeout, rawVars, peerVars, historyVars
    <2> QED
      BY <2>1, PagedQueues, PagedGoesOn
  <1>4. CASE RecvAck
    <2>1. /\ line # <<>> /\ line' = Tail(line)
          /\ UNCHANGED <<mixed, job, prioQueue, secQueue, peer, raw, alive>>
      BY <1>4 DEF RecvAck, rawVars, peerVars
    <2> QED
      BY <2>1, PagedQueues, PagedGoesOn
  <1>5. ASSUME NEW m, Recv(m),
               ~mixed /\ m \in JobMsg(job.cmd) =>
                  /\ alive' /\ prioQueue' \in Seq(JobMsg(job.cmd))
                  /\ secQueue' \in Seq(PartMsg(job.cmd))
                  /\ job.cmd = "WRITE" /\ raw'.len # 0 =>
                        Len(raw'.data) = raw'.len /\ raw'.addr % Chunk = 0
        PROVE  Paged'
    <2>1. line # <<>> /\ m = Head(line) /\ line' = Tail(line) /\ UNCHANGED <<mixed, job, peer>>
      BY <1>5 DEF Recv, peerVars
    <2> QED
      BY <1>5, <2>1, PagedQueues, PagedGoesOn
  <1>6. ASSUME NEW m, RecvAnswer(m) \/ RecvRtc(m) \/ RecvOther(m) \/ RecvStatus(m) PROVE Paged'
    <2>1. Recv(m) /\ UNCHANGED <<prioQueue, secQueue, raw, alive>>
      BY <1>6 DEF RecvAnswer, RecvRtc, RecvOther, RecvStatus, rawVars
    <2> QED
      BY <1>5, <2>1, PagedQueues
  <1>7. ASSUME NEW m, RecvRead(m) PROVE Paged'
    <2>1. Recv(m) /\ m.cmd = "READ" /\ UNCHANGED <<prioQueue, alive>>
      BY <1>7 DEF RecvRead
    <2>2. CASE m.ok /\ raw.len # 0
      <3> DEFINE size == IF raw.len >= Chunk THEN Chunk ELSE raw.len % Chunk
      <3>1. secQueue' = Append(secQueue, ReadMsg(m.op, raw.addr, size))
        BY <1>7, <2>2 DEF RecvRead, FlashRead
      <3>2. size \in 0..Chunk /\ raw.addr \in Nat
        <4>1. raw.len \in Nat /\ raw.addr \in Nat
          BY DEF TypeOK
        <4>2. raw.len % Chunk \in 0..(Chunk - 1)
          BY <4>1, ChunkSize
        <4> QED
          BY <4>1, <4>2, SizesType
      <3> HIDE DEF size
      <3>3. ASSUME ~mixed, m \in JobMsg(job.cmd)
            PROVE  job.cmd = "READ" /\ secQueue' \in Seq(PartMsg(job.cmd))
        <4>1. job.cmd = "READ" /\ m \in Message
          BY <2>1, <3>3, JobFacts
        <4>2. m.op \in 0..MaxOps
          BY <4>1 DEF Message
        <4>3. ReadMsg(m.op, raw.addr, size) \in PartMsg(job.cmd)
          BY <3>2, <4>1, <4>2, ReadMsgType, JobFacts
        <4> QED
          BY <3>1, <3>3, <4>1, <4>3, PagedQueues, AppendSeq
      <3> QED
        BY <1>5, <2>1, <3>3, PagedQueues
    <2>3. CASE ~(m.ok /\ raw.len # 0)
      <3>1. UNCHANGED <<secQueue, raw>>
        BY <1>7, <2>3 DEF RecvRead
      <3> QED
        BY <1>5, <2>1, <3>1, PagedQueues
    <2> QED
      BY <2>2, <2>3
  <1>8. ASSUME NEW m, RecvWrite(m) PROVE Paged'
    <2>1. Recv(m) /\ m.cmd = "WRITE" /\ prioQueue' = prioQueue
      BY <1>8 DEF RecvWrite
    <2>2. CASE m.ok /\ raw.len # 0
      <3> DEFINE size == IF raw.len >= Chunk THEN Chunk ELSE raw.len
                 bytes == FirstOf(raw.data, size)
                 part == Msg("WRITE", m.op, raw.addr, bytes)
      <3>1. /\ secQueue' = Append(secQueue, part)
            /\ raw' = [addr |-> raw.addr + size, len |-> raw.len - size,
                       data |-> RestOf(raw.data, size)]
            /\ alive' = (raw.data # <<>>)
        BY <1>8, <2>2 DEF RecvWrite, FlashWrite
      <3>2. raw.len \in Nat /\ raw.addr \in Nat /\ raw.data \in Seq(Nat)
        BY DEF TypeOK
      <3>3. /\ size \in Nat /\ size <= Chunk /\ size <= raw.len
            /\ raw.len - size # 0 => size = Chunk
        BY <3>2, SizesType
      <3> HIDE DEF size
      <3>4. bytes \in Seq(Nat) /\ Len(bytes) = size
        BY <3>2, <3>3, FirstSeq
      <3> HIDE DEF bytes
      <3>5. ASSUME ~mixed, m \in JobMsg(job.cmd)
            PROVE  /\ alive' /\ secQueue' \in Seq(PartMsg(job.cmd))
                   /\ raw'.len # 0 => Len(raw'.data) = raw'.len /\ raw'.addr % Chunk = 0
        <4>1. job.cmd = "WRITE" /\ m \in Message
          BY <2>1, <3>5, JobFacts
        <4>2. m.op \in 0..MaxOps /\ "WRITE" \in Kinds
          BY <4>1, KindsDistinct DEF Message
        <4>3. Len(raw.data) = raw.len /\ raw.addr % Chunk = 0
          BY <2>2, <3>5, <4>1, PagedQueues
        <4>4. part \in Message /\ part.cmd = "WRITE" /\ part.addr = raw.addr /\ part.len = size
          BY <3>2, <3>3, <3>4, <4>2, MsgType
        <4>5. InPage(part)
          BY <3>3, <4>3, <4>4, SizesType DEF InPage
        <4> HIDE DEF part
        <4>6. part \in PartMsg(job.cmd)
          BY <4>1, <4>4, <4>5, JobFacts
        <4>7. secQueue' \in Seq(PartMsg(job.cmd))
          BY <3>1, <3>5, <4>6, PagedQueues, AppendSeq
        <4>8. raw.data # <<>>
          <5>1. Len(<<>>) = 0
            OBVIOUS
          <5> QED
            BY <2>2, <4>3, <5>1
        <4>9. alive'
          BY <3>1, <4>8
        <4>10. Len(RestOf(raw.data, size)) = raw.len - size
          <5>1. size <= Len(raw.data)
            BY <3>3, <4>3
          <5> QED
            BY <3>2, <3>3, <4>3, <5>1, RestSeq
        <4>11. raw'.len # 0 => raw'.addr % Chunk = 0
          BY <3>1, <3>2, <3>3, <4>3, NextBoundary
        <4> QED
          BY <3>1, <4>7, <4>9, <4>10, <4>11
      <3> QED
        BY <1>5, <2>1, <3>5, PagedQueues
    <2>3. CASE ~(m.ok /\ raw.len # 0)
      <3>1. UNCHANGED <<secQueue, alive>> /\ raw' \in {raw, [raw EXCEPT !.data = <<>>]}
        BY <1>8, <2>3 DEF RecvWrite
      <3>2. raw'.len # 0 => raw' = raw
        <4>1. CASE m.ok
          <5>1. raw.len = 0 /\ raw' = [raw EXCEPT !.data = <<>>]
            BY <1>8, <2>3, <4>1 DEF RecvWrite, TypeOK
          <5>2. [raw EXCEPT !.data = <<>>].len = raw.len
            BY DEF TypeOK
          <5> QED
            BY <5>1, <5>2
        <4>2. CASE ~m.ok
          BY <1>8, <4>2 DEF RecvWrite
        <4> QED
          BY <4>1, <4>2
      <3> QED
        BY <1>5, <2>1, <3>1, <3>2, PagedQueues
    <2> QED
      BY <2>2, <2>3
  <1>9. ASSUME NEW m, RecvAsk(m) PROVE Paged'
    <2>1. /\ Recv(m) /\ prioQueue' = Append(prioQueue, Msg("REPLY", 0, 0, <<>>))
          /\ UNCHANGED <<secQueue, raw, alive>>
      BY <1>9 DEF RecvAsk, rawVars
    <2>2. Msg("REPLY", 0, 0, <<>>) \in JobMsg(job.cmd)
      <3>1. "REPLY" \in Kinds
        BY KindsDistinct
      <3>2. Msg("REPLY", 0, 0, <<>>) \in Message /\ Msg("REPLY", 0, 0, <<>>).cmd = "REPLY"
        BY <3>1, EmptyMsgType
      <3> QED
        BY <3>2, JobFacts
    <2> QED
      BY <1>5, <2>1, <2>2, PagedQueues, AppendSeq
  <1> QED
    BY <1>1, <1>2, <1>3, <1>4, <1>6, <1>7, <1>8, <1>9 DEF Trigger

LEMMA PeerPaged ==
    ASSUME TypeOK, Sound, Paged, Peer \/ Fault \/ \E e \in Events : PeerEvent(e)
    PROVE  Paged'
  <1>1. CASE PeerAck
    <2>1. line' = Append(line, Ack)
          /\ UNCHANGED <<mixed, job, prioQueue, secQueue, peer, raw, alive>>
      BY <1>1 DEF PeerAck, hostVars, rawVars, historyVars
    <2>2. Ack \in JobMsg(job.cmd)
      BY AckType, JobFacts
    <2> QED
      BY <2>1, <2>2, PagedQueues, AppendSeq, PagedGoesOn
  <1>2. ASSUME peer # <<>>
        PROVE  LET m == Head(peer)
               IN /\ AnswerTo(m) \in Message
                  /\ m \in JobMsg(job.cmd) => AnswerTo(m) \in JobMsg(job.cmd)
                  /\ [AnswerTo(m) EXCEPT !.ok = FALSE] \in Message
                  /\ m \in JobMsg(job.cmd) => [AnswerTo(m) EXCEPT !.ok = FALSE] \in JobMsg(job.cmd)
    <2> DEFINE m == Head(peer)
    <2>1. m \in SoundMsg(ops, timeOf)
      BY <1>2, SoundHead
    <2> HIDE DEF m
    <2>2. /\ AnswerTo(m) \in SoundAnswer(ops, timeOf)
          /\ m.cmd \notin StatusEnds => AnswerTo(m).cmd = m.cmd
          /\ m.cmd \in StatusEnds => AnswerTo(m).cmd = "STATUS"
      BY <2>1, PeerSound
    <2>3. /\ [AnswerTo(m) EXCEPT !.ok = FALSE] \in SoundAnswer(ops, timeOf)
          /\ [AnswerTo(m) EXCEPT !.ok = FALSE].cmd = AnswerTo(m).cmd
      BY <2>2, ShortAnswer
    <2>4. ASSUME m \in JobMsg(job.cmd), NEW m2 \in Message, m2.cmd = AnswerTo(m).cmd
          PROVE  m2 \in JobMsg(job.cmd)
      BY <2>2, <2>4, JobFacts
    <2>5. AnswerTo(m) \in Message /\ [AnswerTo(m) EXCEPT !.ok = FALSE] \in Message
      BY <2>2, <2>3, SoundIsMessage
    <2> QED
      BY <2>3, <2>4, <2>5 DEF m
  <1>3. CASE PeerExecute
    <2>1. /\ peer # <<>> /\ peer' = Tail(peer) /\ line' \in {line, Append(line, AnswerTo(Head(peer)))}
          /\ UNCHANGED <<mixed, job, prioQueue, secQueue, raw, alive>>
      BY <1>3 DEF PeerExecute, hostVars, rawVars, historyVars
    <2>2. ASSUME ~mixed PROVE line' \in Seq(JobMsg(job.cmd))
      BY <1>2, <2>1, <2>2, PagedQueues, AppendSeq
    <2> QED
      BY <2>1, <2>2, PagedQueues, PagedGoesOn
  <1>4. CASE GiveUp
    <2>1. /\ peer' = SubSeq(peer, 1, Len(peer) - 1)
          /\ UNCHANGED <<mixed, job, prioQueue, secQueue, line, raw, alive>>
      BY <1>4 DEF GiveUp, rawVars
    <2> QED
      BY <2>1, PagedQueues, FrontSeq, PagedGoesOn
  <1>5. CASE ToggleError
    <2>1. UNCHANGED <<mixed, job, prioQueue, secQueue, peer, line, raw, alive>>
      BY <1>5 DEF ToggleError, rawVars, peerVars
    <2> QED
      BY <2>1, PagedQueues, PagedGoesOn
  <1>6. ASSUME NEW m, PeerFails(m), peer # <<>> /\ Head(peer) \in JobMsg(job.cmd) => m \in JobMsg(job.cmd)
        PROVE  Paged'
    <2>1. /\ peer # <<>> /\ peer' = Tail(peer) /\ line' = Append(line, m)
          /\ UNCHANGED <<mixed, job, prioQueue, secQueue, raw, alive>>
      BY <1>6 DEF PeerFails, hostVars, rawVars
    <2>2. ASSUME ~mixed PROVE line' \in Seq(JobMsg(job.cmd))
      BY <1>6, <2>1, <2>2, PagedQueues, AppendSeq
    <2> QED
      BY <2>1, <2>2, PagedQueues, PagedGoesOn
  <1>7. CASE PeerRefuses
    <2>1. Msg("SYNC_CMD_ERROR", 0, 0, <<>>) \in JobMsg(job.cmd)
      <3>1. "SYNC_CMD_ERROR" \in Kinds
        BY KindsDistinct
      <3>2. /\ Msg("SYNC_CMD_ERROR", 0, 0, <<>>) \in Message
            /\ Msg("SYNC_CMD_ERROR", 0, 0, <<>>).cmd = "SYNC_CMD_ERROR"
        BY <3>1, EmptyMsgType
      <3> QED
        BY <3>2, JobFacts
    <2> QED
      BY <1>6, <1>7, <2>1 DEF PeerRefuses
  <1>8. CASE PeerAnswersShort
    <2>1. PeerFails([AnswerTo(Head(peer)) EXCEPT !.ok = FALSE])
      BY <1>8 DEF PeerAnswersShort
    <2> QED
      BY <1>2, <1>6, <2>1
  <1>9. ASSUME NEW e \in Events, PeerEvent(e) PROVE Paged'
    <2>1. /\ line' = Append(line, Msg(e, 0, 0, <<>>))
          /\ UNCHANGED <<mixed, job, prioQueue, secQueue, peer, raw, alive>>
      BY <1>9 DEF PeerEvent, hostVars, rawVars, peerVars
    <2>2. Msg(e, 0, 0, <<>>) \in JobMsg(job.cmd)
      <3>1. e \in Kinds /\ e \notin {"READ", "WRITE"}
        BY DEF Events, Kinds
      <3>2. Msg(e, 0, 0, <<>>) \in Message /\ Msg(e, 0, 0, <<>>).cmd = e
        BY <3>1, EmptyMsgType
      <3> QED
        BY <3>1, <3>2, JobFacts
    <2> QED
      BY <2>1, <2>2, PagedQueues, AppendSeq, PagedGoesOn
  <1> QED
    BY <1>1, <1>3, <1>4, <1>5, <1>7, <1>8, <1>9 DEF Peer, Fault

LEMMA NextPaged == TypeOK /\ Sound /\ Paged /\ TypeOK' /\ [Next]_vars => Paged'
  <1> SUFFICES ASSUME TypeOK, Sound, Paged, TypeOK', [Next]_vars PROVE Paged'
    OBVIOUS
  <1>1. CASE SimpleRequest \/ FlashRequest \/ \E t \in Times : drbcc_set_rtc(t)
    BY <1>1, RequestPaged
  <1>2. CASE Trigger
    BY <1>2, TriggerPaged
  <1>3. CASE Peer \/ Fault \/ \E e \in Events : PeerEvent(e)
    BY <1>3, PeerPaged
  <1>4. CASE UNCHANGED vars
    BY <1>4 DEF Paged, vars, hostVars, rawVars, peerVars, historyVars
  <1> QED
    BY <1>1, <1>2, <1>3, <1>4 DEF Next

(* While requests do not overlap, every write that the library queues is   *)
(* within a page of the flash, wherever the application's range starts and *)
(* however long it is, and flashData is there when its rest is sent.       *)
THEOREM WritesWithinPage == Spec => []WithinPage
  <1>1. Init => TypeOK /\ Sound /\ Paged
    <2>1. Init => Paged
      BY EmptySeq DEF Init, Paged
    <2> QED
      BY <2>1, InitSound
  <1>2. TypeOK /\ Sound /\ Paged /\ [Next]_vars => TypeOK' /\ Sound' /\ Paged'
    BY NextSound, NextPaged
  <1>3. Paged => WithinPage
    <2> SUFFICES ASSUME Paged, ~mixed, NEW i \in DOMAIN secQueue, secQueue[i].cmd = "WRITE"
                 PROVE  (secQueue[i].addr % Chunk) + secQueue[i].len <= Chunk
      BY DEF Paged, WithinPage
    <2>1. secQueue[i] \in PartMsg(job.cmd)
      BY DEF Paged
    <2> QED
      BY <2>1 DEF PartMsg, InPage
  <1> QED
    BY <1>1, <1>2, <1>3, PTL DEF Spec

-----------------------------------------------------------------------------
(* A raw transfer does what it was asked for.                              *)

(* At most one message of a queue is a command.                            *)
LEMMA AsideAtMostOne ==
    ASSUME NEW q \in Seq(Aside)
    PROVE  AtMostOne(q)
  BY DEF AtMostOne, Aside

LEMMA AppendToAside ==
    ASSUME NEW q \in Seq(Aside), NEW m
    PROVE  AtMostOne(Append(q, m))
  <1> SUFFICES ASSUME NEW i \in DOMAIN Append(q, m), NEW j \in DOMAIN Append(q, m),
                      Append(q, m)[i].cmd \in Commands, Append(q, m)[j].cmd \in Commands
               PROVE  i = j
    BY DEF AtMostOne
  <1>1. ASSUME NEW k \in DOMAIN Append(q, m), Append(q, m)[k].cmd \in Commands
        PROVE  k = Len(q) + 1
    <2>1. Len(q) \in Nat /\ k \in 1..(Len(q) + 1) /\ (k \in 1..Len(q) => Append(q, m)[k] = q[k])
      BY <1>1
    <2>2. \A n \in 1..Len(q) : q[n].cmd \notin Commands
      BY DEF Aside
    <2> QED
      BY <1>1, <2>1, <2>2
  <1> QED
    BY <1>1

LEMMA AppendAside ==
    ASSUME NEW q \in Seq(Message), AtMostOne(q), NEW m \in Aside
    PROVE  AtMostOne(Append(q, m))
  <1> SUFFICES ASSUME NEW i \in DOMAIN Append(q, m), NEW j \in DOMAIN Append(q, m),
                      Append(q, m)[i].cmd \in Commands, Append(q, m)[j].cmd \in Commands
               PROVE  i = j
    BY DEF AtMostOne
  <1>1. ASSUME NEW k \in DOMAIN Append(q, m), Append(q, m)[k].cmd \in Commands
        PROVE  k \in DOMAIN q /\ q[k].cmd \in Commands
    <2>1. /\ Len(q) \in Nat /\ k \in 1..(Len(q) + 1) /\ (k \in 1..Len(q) => Append(q, m)[k] = q[k])
          /\ Append(q, m)[Len(q) + 1] = m /\ DOMAIN q = 1..Len(q)
      BY <1>1
    <2>2. m.cmd \notin Commands
      BY DEF Aside
    <2> QED
      BY <1>1, <2>1, <2>2
  <1> QED
    BY <1>1 DEF AtMostOne

LEMMA TailAtMostOne ==
    ASSUME NEW q \in Seq(Message), AtMostOne(q), q # <<>>
    PROVE  /\ AtMostOne(Tail(q))
           /\ Head(q).cmd \in Commands => Tail(q) \in Seq(Aside)
  <1>1. /\ Len(q) \in Nat \ {0} /\ DOMAIN q = 1..Len(q) /\ Head(q) = q[1]
        /\ DOMAIN Tail(q) = 1..(Len(q) - 1)
        /\ \A k \in 1..(Len(q) - 1) : Tail(q)[k] = q[k + 1]
        /\ Tail(q) \in Seq(Message) /\ Len(Tail(q)) = Len(q) - 1
    OBVIOUS
  <1>2. AtMostOne(Tail(q))
    <2> SUFFICES ASSUME NEW i \in DOMAIN Tail(q), NEW j \in DOMAIN Tail(q),
                        Tail(q)[i].cmd \in Commands, Tail(q)[j].cmd \in Commands
                 PROVE  i = j
      BY DEF AtMostOne
    <2>1. i + 1 \in DOMAIN q /\ j + 1 \in DOMAIN q /\ i \in Nat /\ j \in Nat
          /\ q[i + 1].cmd \in Commands /\ q[j + 1].cmd \in Commands
      BY <1>1
    <2>2. i + 1 = j + 1
      BY <2>1 DEF AtMostOne
    <2> QED
      BY <2>1, <2>2
  <1>3. ASSUME Head(q).cmd \in Commands PROVE Tail(q) \in Seq(Aside)
    <2>1. \A k \in 1..Len(Tail(q)) : Tail(q)[k] \in Aside
      <3> SUFFICES ASSUME NEW k \in 1..Len(Tail(q)) PROVE Tail(q)[k] \in Aside
        OBVIOUS
      <3>1. k + 1 \in DOMAIN q /\ 1 \in DOMAIN q /\ k + 1 # 1 /\ Tail(q)[k] = q[k + 1]
            /\ q[k + 1] \in Message
        BY <1>1
      <3>2. q[k + 1].cmd \notin Commands
        BY <1>1, <1>3, <3>1 DEF AtMostOne
      <3> QED
        BY <3>1, <3>2 DEF Aside
    <2> QED
      BY <1>1, <2>1, ElementsSeq
  <1> QED
    BY <1>2, <1>3

(* Other messages say nothing of the transfer, and what it depends on.     *)
LEMMA AsideFacts ==
    /\ Aside \subseteq Message /\ Aside \subseteq Asked /\ Aside \subseteq Answered
    /\ Asked \subseteq Message /\ Answered \subseteq Message
    /\ Aside \subseteq Asked' /\ Aside \subseteq Answered'
    /\ Ack \in Aside /\ None \in Aside
    /\ \A m \in Message : m.cmd \notin Commands => m \in Aside
    /\ \A m \in Aside : m.cmd \notin Commands
  <1>1. Ack \in Aside /\ None \in Aside
    BY AckType, NoneType, KindsDistinct DEF Aside
  <1>2. Aside \subseteq Asked /\ Aside \subseteq Answered
    BY DEF Aside, Asked, Answered
  <1>3. Aside \subseteq Asked' /\ Aside \subseteq Answered'
    BY DEF Aside, Asked, Answered
  <1> QED
    BY <1>1, <1>2, <1>3 DEF Aside, Asked, Answered

LEMMA SameTransfer ==
    ASSUME UNCHANGED <<session, flash, raw, job, got>>
    PROVE  Asked' = Asked /\ Answered' = Answered
  BY DEF Asked, Answered, Reading, Writing, Joins, Data

(* What Exact says.                                                        *)
Undisturbed == session # 0 /\ undisturbed /\ job.cmd \in FlashCommands

LEMMA ExactQueues ==
    ASSUME TypeOK, Exact, Undisturbed
    PROVE  /\ job.addr \in Nat /\ job.len \in Nat /\ job.before \in [Address -> Nat]
           /\ waiting.cmd \notin AckEnds
           /\ prioQueue \in Seq(Aside) /\ Len(secQueue) <= 1
           /\ secQueue # <<>> => peer \in Seq(Aside) /\ line \in Seq(Aside)
           /\ peer \in Seq(Aside) \/ line \in Seq(Aside)
           /\ AtMostOne(peer) /\ AtMostOne(line)
           /\ secQueue \in Seq(Asked) /\ peer \in Seq(Asked) /\ line \in Seq(Answered)
  BY DEF Exact, OneUnderWay, Undisturbed

(* The controller executes the part of a transfer.                         *)
LEMMA ExecuteExact ==
    ASSUME TypeOK, Sound, job.cmd \in FlashCommands, job.addr \in Nat, job.len \in Nat,
           NEW m \in Asked, m \in SoundMsg(ops, timeOf), m.cmd \in Commands,
           flash' = FlashAfter(m), UNCHANGED <<session, raw, job, got>>
    PROVE  AnswerTo(m) \in Answered'
  <1>1. /\ m \in Message /\ m.cmd = job.cmd /\ m.ok
        /\ m.cmd = "READ" => Reading(m)
        /\ m.cmd = "WRITE" /\ Fits(job.addr, job.len) =>
              Writing(m) /\ Written(flash, job, session, m.addr)
        /\ m.cmd = "ERASE" => m.addr = job.addr /\ flash = job.before
    BY DEF Asked
  <1>2. m.addr \in Nat /\ m.len \in Nat /\ m.bytes \in Seq(Nat) /\ m.op \in 0..MaxOps
    <2>1. m.addr \in Nat /\ m.len \in 0..Chunk /\ m.bytes \in Seq(Nat) /\ m.op \in 0..MaxOps
      BY <1>1 DEF Message
    <2> QED
      BY <2>1, SizesType
  <1>3. AnswerTo(m) \in Message
    BY PeerSound, SoundIsMessage
  <1>4. CASE m.cmd = "READ"
    <2> DEFINE bytes == [k \in 1..m.len |-> flash[m.addr + k - 1]]
    <2>1. flash' = flash
      BY <1>4 DEF FlashAfter
    <2>2. AnswerTo(m) = [m EXCEPT !.bytes = bytes]
      BY <1>4 DEF AnswerTo
    <2>3. m = [cmd |-> m.cmd, op |-> m.op, addr |-> m.addr, len |-> m.len, bytes |-> m.bytes,
               ok |-> m.ok]
      BY <1>1 DEF Message
    <2>4. Len(bytes) = m.len /\ \A k \in 1..m.len : bytes[k] = flash[m.addr + k - 1]
      BY <1>2
    <2> HIDE DEF bytes
    <2>5. AnswerTo(m) = [cmd |-> m.cmd, op |-> m.op, addr |-> m.addr, len |-> m.len,
                         bytes |-> bytes, ok |-> m.ok]
      BY <2>2, <2>3
    <2> DEFINE r == AnswerTo(m)
    <2>6. r.cmd = "READ" /\ r.addr = m.addr /\ r.len = m.len /\ r.bytes = bytes /\ r.ok = m.ok
      BY <1>4, <2>5
    <2>7. flash = job.before /\ Reading(m)
      BY <1>1, <1>4 DEF Reading
    <2>8. Len(r.bytes) = r.len /\ \A k \in 1..r.len : r.bytes[k] = job.before[r.addr + k - 1]
      BY <2>4, <2>6, <2>7
    <2> HIDE DEF r
    <2>9. /\ r.addr >= job.addr
          /\ r.addr + r.len + raw.len = job.addr + job.len
          /\ raw.len # 0 => raw.addr = r.addr + r.len
          /\ job.addr + Len(got) = r.addr
          /\ \A k \in 1..Len(got) : got[k] = job.before[job.addr + k - 1]
      BY <2>6, <2>7 DEF Reading, Joins
    <2>10. r \in Message /\ r.ok /\ r.cmd = job.cmd
      BY <1>1, <1>3, <1>4, <2>6 DEF r
    <2>11. r \in Answered'
      BY <2>1, <2>6, <2>7, <2>8, <2>9, <2>10 DEF Answered, Reading, Joins
    <2> QED
      BY <2>11 DEF r
  <1>5. CASE m.cmd = "WRITE"
    <2>1. AnswerTo(m) = m
      BY <1>5 DEF AnswerTo, StatusEnds
    <2>2. \A a \in Address : flash'[a] = IF a \in m.addr..(m.addr + m.len - 1)
                                         THEN m.bytes[a - m.addr + 1] ELSE flash[a]
      BY <1>5 DEF FlashAfter
    <2>3. ASSUME Fits(job.addr, job.len) PROVE Writing(m)' /\ Written(flash', job', session', m.addr + m.len)
      <3>1. Writing(m) /\ Written(flash, job, session, m.addr)
        BY <1>1, <1>5, <2>3
      <3>2. Writing(m)'
        BY <3>1 DEF Writing, Joins, Data
      <3>3. ASSUME NEW a \in Address
            PROVE  flash'[a] = IF a \in job.addr..((m.addr + m.len) - 1) THEN Data(a - job.addr + 1)
                               ELSE job.before[a]
        <4>1. a \in Nat /\ m.addr >= job.addr
          BY <3>1, SizesType DEF Writing, Joins
        <4>2. CASE a \in m.addr..(m.addr + m.len - 1)
          <5>1. a - m.addr + 1 \in 1..m.len
            BY <1>2, <4>1, <4>2
          <5>2. m.bytes[a - m.addr + 1] = Data(m.addr - job.addr + (a - m.addr + 1))
            BY <3>1, <5>1 DEF Writing
          <5>3. m.addr - job.addr + (a - m.addr + 1) = a - job.addr + 1
            <6>1. \A x, y, z \in Nat : y - x + (z - y + 1) = z - x + 1
              OBVIOUS
            <6> QED
              BY <1>2, <4>1, <6>1
          <5>4. a \in job.addr..((m.addr + m.len) - 1)
            BY <1>2, <4>1, <4>2
          <5> QED
            BY <2>2, <4>2, <5>2, <5>3, <5>4
        <4>3. CASE a \notin m.addr..(m.addr + m.len - 1)
          <5>1. flash'[a] = flash[a]
            BY <2>2, <4>3
          <5>2. flash[a] = IF a \in job.addr..(m.addr - 1) THEN Data(a - job.addr + 1)
                           ELSE job.before[a]
            BY <3>1 DEF Written, Data
          <5>3. a \in job.addr..(m.addr - 1) <=> a \in job.addr..((m.addr + m.len) - 1)
            BY <1>2, <4>1, <4>3
          <5> QED
            BY <5>1, <5>2, <5>3
        <4> QED
          BY <4>2, <4>3
      <3>4. Written(flash', job', session', m.addr + m.len)
        BY <3>3 DEF Written, Data
      <3> QED
        BY <3>2, <3>4
    <2> QED
      BY <1>1, <1>5, <2>1, <2>3 DEF Answered
  <1>6. CASE m.cmd = "ERASE"
    <2>1. AnswerTo(m) = m
      BY <1>6 DEF AnswerTo, StatusEnds
    <2>2. m.addr = job.addr /\ flash = job.before
      BY <1>1, <1>6
    <2>3. \A a \in Address : flash'[a] = IF a \div BlockSize = job.addr THEN 0 ELSE job.before[a]
      BY <1>6, <2>2 DEF FlashAfter
    <2> QED
      BY <1>1, <1>6, <2>1, <2>3 DEF Answered
  <1> QED
    BY <1>1, <1>4, <1>5, <1>6 DEF FlashCommands

(* read_flash_cb is given the next bytes of the range.                     *)
LEMMA GotGrows ==
    ASSUME TypeOK, job.addr \in Nat, NEW m \in Message, Reading(m), Len(m.bytes) = m.len,
           \A k \in 1..m.len : m.bytes[k] = job.before[m.addr + k - 1]
    PROVE  /\ got \o m.bytes \in Seq(Nat)
           /\ job.addr + Len(got \o m.bytes) = m.addr + m.len
           /\ \A k \in 1..Len(got \o m.bytes) :
                 (got \o m.bytes)[k] = job.before[job.addr + k - 1]
  <1> DEFINE b == m.bytes
             g == got \o b
  <1>1. got \in Seq(Nat) /\ b \in Seq(Nat) /\ m.addr \in Nat
    BY DEF TypeOK, Message
  <1>2. job.addr + Len(got) = m.addr /\ \A k \in 1..Len(got) : got[k] = job.before[job.addr + k - 1]
    BY DEF Reading
  <1>3. Len(b) = m.len /\ \A k \in 1..m.len : b[k] = job.before[m.addr + k - 1]
    OBVIOUS
  <1> HIDE DEF b
  <1>4. /\ g \in Seq(Nat) /\ Len(g) = Len(got) + Len(b) /\ Len(got) \in Nat /\ Len(b) \in Nat
        /\ \A k \in 1..Len(got) : g[k] = got[k]
        /\ \A k \in 1..(Len(got) + Len(b)) : k > Len(got) => g[k] = b[k - Len(got)]
    BY <1>1
  <1> HIDE DEF g
  <1>5. job.addr + Len(g) = m.addr + m.len
    BY <1>1, <1>2, <1>3, <1>4
  <1>6. ASSUME NEW k \in 1..Len(g) PROVE g[k] = job.before[job.addr + k - 1]
    <2>1. CASE k <= Len(got)
      BY <1>2, <1>4, <2>1
    <2>2. CASE k > Len(got)
      <3>1. k - Len(got) \in 1..m.len /\ g[k] = b[k - Len(got)]
        BY <1>3, <1>4, <2>2, SMTT(30)
      <3>2. m.addr + (k - Len(got)) - 1 = job.addr + k - 1
        BY <1>1, <1>2, <1>4
      <3> QED
        BY <1>3, <3>1, <3>2
    <2> QED
      BY <1>4, <2>1, <2>2
  <1> QED
    BY <1>4, <1>5, <1>6 DEF g, b

(* The next part of a read.                                                *)
LEMMA ReadOnExact ==
    ASSUME TypeOK, job.addr \in Nat, job.len \in Nat, job.cmd = "READ",
           NEW m \in Answered, m.cmd = "READ", raw.len # 0,
           got' = got \o m.bytes, UNCHANGED <<session, flash, job>>,
           NEW size \in 0..Chunk, size <= raw.len,
           raw' = [raw EXCEPT !.addr = raw.addr + size, !.len = raw.len - size],
           NEW p, p = ReadMsg(m.op, raw.addr, size)
    PROVE  p \in Asked'
  <1>1. /\ m \in Message /\ Reading(m) /\ Len(m.bytes) = m.len
        /\ \A k \in 1..m.len : m.bytes[k] = job.before[m.addr + k - 1]
    BY KindsDistinct DEF Answered, Commands
  <1>2. m.addr \in Nat /\ m.len \in Nat /\ m.op \in 0..MaxOps /\ size \in Nat
    <2>1. m.addr \in Nat /\ m.len \in 0..Chunk /\ m.op \in 0..MaxOps
      BY <1>1 DEF Message
    <2> QED
      BY <2>1, SizesType
  <1>3. raw.addr \in Nat /\ raw.len \in Nat /\ raw'.addr = raw.addr + size /\ raw'.len = raw.len - size
    BY DEF TypeOK
  <1>4. p \in Message /\ p.cmd = "READ" /\ p.addr = raw.addr /\ p.len = size /\ p.ok
    BY <1>2, <1>3, ReadMsgType DEF ReadMsg
  <1>5. /\ m.addr >= job.addr /\ m.addr + m.len + raw.len = job.addr + job.len
        /\ raw.addr = m.addr + m.len /\ flash = job.before
    BY <1>1 DEF Reading, Joins
  <1>6. Joins(p)'
    <2>1. /\ p.addr >= job.addr /\ p.addr + p.len + raw'.len = job.addr + job.len
          /\ raw'.addr = p.addr + p.len
      BY <1>2, <1>3, <1>4, <1>5, SMTT(30)
    <2> QED
      BY <2>1 DEF Joins
  <1>7. /\ job.addr + Len(got') = p.addr
        /\ \A k \in 1..Len(got') : got'[k] = job.before[job.addr + k - 1]
    BY <1>1, <1>4, <1>5, GotGrows
  <1>8. Reading(p)'
    BY <1>5, <1>6, <1>7 DEF Reading
  <1> QED
    BY <1>4, <1>8 DEF Asked

(* The next part of a write.                                               *)
LEMMA WriteOnExact ==
    ASSUME TypeOK, job.addr \in Nat, job.len \in Nat, job.cmd = "WRITE",
           NEW m \in Answered, m.cmd = "WRITE", raw.len # 0, UNCHANGED <<session, flash, job>>,
           NEW size \in 0..Chunk, size <= raw.len,
           raw' = [addr |-> raw.addr + size, len |-> raw.len - size, data |-> RestOf(raw.data, size)],
           NEW p, p = Msg("WRITE", m.op, raw.addr, FirstOf(raw.data, size))
    PROVE  p \in Asked'
  <1> DEFINE b == FirstOf(raw.data, size)
  <1>1. /\ m \in Message
        /\ Fits(job.addr, job.len) => Writing(m) /\ Written(flash, job, session, m.addr + m.len)
    BY KindsDistinct DEF Answered, Commands
  <1>2. m.addr \in Nat /\ m.len \in Nat /\ m.op \in 0..MaxOps /\ size \in Nat
    <2>1. m.addr \in Nat /\ m.len \in 0..Chunk /\ m.op \in 0..MaxOps
      BY <1>1 DEF Message
    <2> QED
      BY <2>1, SizesType
  <1>3. /\ raw.addr \in Nat /\ raw.len \in Nat /\ raw.data \in Seq(Nat)
        /\ raw'.addr = raw.addr + size /\ raw'.len = raw.len - size
        /\ raw'.data = RestOf(raw.data, size)
    BY DEF TypeOK
  <1>4. b \in Seq(Nat) /\ Len(b) = size
    BY <1>2, <1>3, FirstSeq
  <1>5. p \in Message /\ p.cmd = "WRITE" /\ p.addr = raw.addr /\ p.len = size /\ p.bytes = b /\ p.ok
    <2>1. "WRITE" \in Kinds /\ Len(b) <= Chunk
      BY <1>2, <1>4, KindsDistinct, SizesType
    <2>2. p \in Message
      BY <1>2, <1>3, <1>4, <2>1, MsgKind
    <2> QED
      BY <1>4, <2>2 DEF Msg
  <1>6. ASSUME Fits(job.addr, job.len)
        PROVE  Writing(p)' /\ Written(flash', job', session', p.addr)
    <2>1. Writing(m) /\ Written(flash, job, session, m.addr + m.len)
      BY <1>1, <1>6
    <2>2. /\ m.addr >= job.addr /\ m.addr + m.len + raw.len = job.addr + job.len
          /\ raw.addr = m.addr + m.len /\ Len(raw.data) = raw.len
          /\ \A k \in 1..raw.len : raw.data[k] = Data(raw.addr - job.addr + k)
      BY <2>1 DEF Writing, Joins
    <2>3. Joins(p)'
      <3>1. /\ p.addr >= job.addr /\ p.addr + p.len + raw'.len = job.addr + job.len
            /\ raw'.addr = p.addr + p.len
        <4>1. job.addr \in Nat /\ job.len \in Nat
          OBVIOUS
        <4>2. raw.addr >= job.addr
          BY ONLY <1>2, <2>2, <4>1
        <4>3. raw.addr + size + (raw.len - size) = job.addr + job.len
          BY ONLY <1>2, <1>3, <2>2, <4>1
        <4> QED
          BY ONLY <1>3, <1>5, <4>2, <4>3
      <3> QED
        BY <3>1 DEF Joins
    <2>4. \A k \in 1..size : b[k] = Data(raw.addr - job.addr + k)
      <3> SUFFICES ASSUME NEW k \in 1..size PROVE b[k] = Data(raw.addr - job.addr + k)
        OBVIOUS
      <3>1. k \in 1..raw.len /\ k <= Len(raw.data)
        BY <1>2, <1>3, <2>2
      <3>2. b[k] = raw.data[k]
        BY <3>1 DEF FirstOf
      <3> QED
        BY <2>2, <3>1, <3>2
    <2>5. /\ Len(raw'.data) = raw'.len
          /\ \A k \in 1..raw'.len : raw'.data[k] = Data(raw'.addr - job.addr + k)
      <3>1. Len(RestOf(raw.data, size)) = raw.len - size
        BY <1>2, <1>3, <2>2, RestSeq
      <3>2. ASSUME NEW k \in 1..(raw.len - size)
            PROVE  RestOf(raw.data, size)[k] = Data((raw.addr + size) - job.addr + k)
        <4>1. size + k \in 1..raw.len
          BY <1>2, <1>3
        <4>2. RestOf(raw.data, size)[k] = raw.data[size + k]
          <5>1. \A s \in Seq(Nat) : \A n \in Nat : n <= Len(s) =>
                   \A i \in 1..(Len(s) - n) : SubSeq(s, n + 1, Len(s))[i] = s[n + i]
            OBVIOUS
          <5> QED
            BY <1>2, <1>3, <2>2, <5>1 DEF RestOf
        <4>3. raw.addr - job.addr + (size + k) = (raw.addr + size) - job.addr + k
          BY <1>2, <1>3
        <4> QED
          BY <2>2, <4>1, <4>2, <4>3
      <3> QED
        BY <1>3, <3>1, <3>2
    <2>7. Writing(p)'
      BY <1>4, <1>5, <2>3, <2>4, <2>5 DEF Writing, Data
    <2>8. Written(flash', job', session', p.addr)
      BY <1>5, <2>1, <2>2
    <2> QED
      BY <2>7, <2>8
  <1> QED
    BY <1>5, <1>6 DEF Asked

(* The first part of a transfer that finds nothing under way.              *)
LEMMA BeginExact ==
    ASSUME TypeOK, TypeOK', UNCHANGED <<waiting, peer, line, prioQueue>>, undisturbed' = Idle,
           job'.addr \in Nat, job'.len \in Nat, job'.before \in [Address -> Nat],
           NEW p, Idle => p \in Asked', secQueue' \in {secQueue, Append(secQueue, p)}
    PROVE  Exact'
  <1> SUFFICES ASSUME undisturbed' PROVE Exact'
    BY DEF Exact
  <1>1. Idle
    BY Zenon DEF TypeOK
  <1>2. prioQueue = <<>> /\ secQueue = <<>> /\ waiting = None /\ peer = <<>> /\ line = <<>>
    BY <1>1 DEF Idle
  <1>3. /\ <<>> \in Seq(Aside) /\ <<>> \in Seq(Asked') /\ <<>> \in Seq(Answered')
        /\ Append(<<>>, p) \in Seq(Asked')
    BY <1>1, EmptySeq, AppendSeq
  <1>4. Len(secQueue') <= 1
    <2>1. Len(<<>>) <= 1 /\ Len(Append(<<>>, p)) <= 1
      OBVIOUS
    <2> QED
      BY <1>2, <2>1
  <1>5. waiting'.cmd \notin AckEnds
    BY <1>2, NoneType, KindsDistinct DEF Commands
  <1>6. prioQueue' \in Seq(Aside) /\ peer' \in Seq(Aside) /\ line' \in Seq(Aside)
    BY <1>2, <1>3
  <1>7. AtMostOne(peer') /\ AtMostOne(line')
    BY <1>6, AsideAtMostOne
  <1>8. OneUnderWay'
    BY <1>4, <1>6, <1>7 DEF OneUnderWay, AtMostOne, Aside
  <1>9. secQueue' \in Seq(Asked') /\ peer' \in Seq(Asked') /\ line' \in Seq(Answered')
    BY <1>2, <1>3
  <1> QED
    BY <1>5, <1>8, <1>9 DEF Exact

LEMMA ReadBeginsExact ==
    ASSUME TypeOK, Sound, NEW t \in Transfers, drbcc_req_flash_read(t[1], t[2]),
           NEW size, size = IF t[2] >= Chunk THEN Chunk ELSE t[2] % Chunk,
           NEW p, p = ReadMsg(ops + 1, t[1], size)
    PROVE  p \in Asked'
  <1>1. t[1] \in Nat /\ t[2] \in Nat
    BY SessionAssumption
  <1>2. size \in 0..Chunk /\ size <= t[2]
    <2>1. t[2] % Chunk \in 0..(Chunk - 1) /\ (t[2] < Chunk => t[2] % Chunk = t[2])
      BY <1>1, ChunkSize
    <2> QED
      BY <1>1, <2>1, SizesType
  <1>3. size \in Nat
    BY <1>2, SizesType
  <1>4. /\ raw' = [raw EXCEPT !.addr = t[1] + size, !.len = t[2] - size] /\ flash' = flash
        /\ job' = [cmd |-> "READ", addr |-> t[1], len |-> t[2], before |-> flash] /\ got' = <<>>
        /\ ops < MaxOps
    BY DEF drbcc_req_flash_read, Begin, FlashRead, peerVars
  <1>5. raw'.addr = t[1] + size /\ raw'.len = t[2] - size
    BY <1>4 DEF TypeOK
  <1>6. p \in Message /\ p.cmd = "READ" /\ p.addr = t[1] /\ p.len = size /\ p.ok
    <2>1. ops + 1 \in 0..MaxOps
      BY <1>4, SizesType DEF Sound
    <2> QED
      BY <1>1, <1>2, <2>1, ReadMsgType DEF ReadMsg
  <1>7. Joins(p)'
    <2>1. t[1] + size + (t[2] - size) = t[1] + t[2] /\ t[1] >= t[1]
      BY ONLY <1>1, <1>3
    <2> QED
      BY <1>4, <1>5, <1>6, <2>1 DEF Joins
  <1>8. Len(got') = 0
    BY <1>4
  <1>9. Reading(p)'
    <2>1. job'.addr + Len(got') = p.addr
      BY <1>1, <1>4, <1>6, <1>8
    <2> QED
      BY <1>4, <1>7, <1>8, <2>1 DEF Reading
  <1> QED
    BY <1>4, <1>6, <1>9 DEF Asked

LEMMA WriteBeginsExact ==
    ASSUME TypeOK, Sound, NEW t \in Transfers, drbcc_req_flash_write(t[1], t[2]), Idle,
           ~(t[1] % 2 # 0 \/ t[2] % 2 # 0),
           NEW p, p = Msg("WRITE", ops + 1, t[1], FirstOf(Bytes(ops + 1, t[2]), FirstSize(t[1], t[2])))
    PROVE  p \in Asked'
  <1> DEFINE addr == t[1]
             len == t[2]
             data == Bytes(ops + 1, len)
             size == FirstSize(addr, len)
             b == FirstOf(data, size)
  <1>1. addr \in Nat /\ len \in Nat
    BY SessionAssumption
  <1>2. size \in 0..Chunk
    BY <1>1, FirstSizeType
  <1>3. size \in Nat
    BY <1>2, SizesType
  <1>4. /\ raw' = IF len <= size THEN raw
                  ELSE [addr |-> addr + size, len |-> len - size, data |-> RestOf(data, size)]
        /\ flash' = flash /\ session' = ops + 1 /\ ops < MaxOps
        /\ job' = [cmd |-> "WRITE", addr |-> addr, len |-> len, before |-> flash]
    BY DEF drbcc_req_flash_write, peerVars
  <1>5. Fits(addr, len) => size <= len
    <2>1. addr % Chunk \in 0..(Chunk - 1)
      BY <1>1, NextBoundary
    <2> QED
      BY <1>1, <2>1, SizesType DEF Fits, FirstSize
  <1>6. ops + 1 \in 0..MaxOps /\ ops + 1 \in Nat
    BY <1>4, SizesType DEF Sound
  <1>7. data \in Seq(Nat) /\ Len(data) = len
    BY <1>1, <1>6, BytesSeq
  <1>8. raw.len = 0
    BY DEF Idle
  <1> HIDE DEF addr, len, size, data
  <1>9. b \in Seq(Nat) /\ Len(b) = size
    BY <1>3, <1>7, FirstSeq
  <1>10. p \in Message /\ p.cmd = "WRITE" /\ p.addr = addr /\ p.len = size /\ p.bytes = b /\ p.ok
    <2>1. "WRITE" \in Kinds /\ Len(b) <= Chunk
      BY <1>2, <1>9, KindsDistinct, SizesType
    <2>2. p = Msg("WRITE", ops + 1, addr, b)
      BY DEF addr, len, size, data
    <2> HIDE DEF b
    <2>3. p \in Message
      BY <1>1, <1>6, <1>9, <2>1, <2>2, MsgKind
    <2> QED
      BY <1>9, <2>2, <2>3 DEF Msg
  <1>11. job'.addr = addr /\ job'.len = len /\ job'.before = flash /\ job'.cmd = "WRITE"
    BY <1>4
  <1>12. ASSUME Fits(addr, len) PROVE Writing(p)' /\ Written(flash', job', session', p.addr)
    <2>1. size <= len
      BY <1>5, <1>12
    <2>2. Written(flash', job', session', p.addr)
      <3>1. ASSUME NEW a \in Address PROVE a \notin addr..(addr - 1)
        BY <1>1
      <3> QED
        BY <1>4, <1>10, <1>11, <3>1 DEF Written
    <2>3. \A k \in 1..size : b[k] = data[k]
      BY <1>1, <1>3, <1>7, <2>1 DEF FirstOf
    <2>4. \A k : Bytes(session', job'.len)[k] = data[k]
      BY <1>4, <1>11 DEF data
    <2>5. \A k \in 1..size : addr - addr + k = k
      BY <1>1, <1>3
    <2>6. p.len = Len(p.bytes) /\ \A k \in 1..p.len :
             p.bytes[k] = Bytes(session', job'.len)[p.addr - job'.addr + k]
      BY <1>9, <1>10, <1>11, <2>3, <2>4, <2>5
    <2>7. CASE len <= size
      <3>1. raw' = raw /\ len = size
        BY <1>1, <1>3, <1>4, <2>1, <2>7
      <3>2. Joins(p)'
        <4>1. addr + size + 0 = addr + len /\ addr >= addr
          BY <1>1, <3>1
        <4> QED
          BY <1>8, <1>10, <1>11, <3>1, <4>1 DEF Joins
      <3> QED
        BY <1>8, <2>2, <2>6, <3>1, <3>2 DEF Writing, Data
    <2>8. CASE ~(len <= size)
      <3>1. raw'.addr = addr + size /\ raw'.len = len - size /\ raw'.data = RestOf(data, size)
        BY <1>4, <2>8
      <3>2. Joins(p)'
        <4>1. addr + size + (len - size) = addr + len /\ addr >= addr
          BY <1>1, <1>3
        <4> QED
          BY <1>10, <1>11, <3>1, <4>1 DEF Joins
      <3>3. Len(raw'.data) = raw'.len
        BY <1>3, <1>7, <2>1, <3>1, RestSeq
      <3>4. ASSUME NEW k \in 1..raw'.len
            PROVE  raw'.data[k] = Bytes(session', job'.len)[raw'.addr - job'.addr + k]
        <4>1. \A s \in Seq(Nat) : \A n \in Nat : n <= Len(s) =>
                 \A i \in 1..(Len(s) - n) : SubSeq(s, n + 1, Len(s))[i] = s[n + i]
          OBVIOUS
        <4>2. raw'.data[k] = data[size + k]
          BY <1>3, <1>7, <2>1, <3>1, <4>1 DEF RestOf
        <4>3. (addr + size) - addr + k = size + k
          BY <1>1, <1>3, <3>1
        <4> QED
          BY <1>11, <2>4, <3>1, <4>2, <4>3
      <3> QED
        BY <2>2, <2>6, <3>2, <3>3, <3>4 DEF Writing, Data
    <2> QED
      BY <2>7, <2>8
  <1> QED
    BY <1>10, <1>11, <1>12 DEF Asked

LEMMA RequestExact ==
    ASSUME TypeOK, TypeOK', Sound,
           SimpleRequest \/ FlashRequest \/ \E t \in Times : drbcc_set_rtc(t)
    PROVE  Exact'
  <1>1. ASSUME NEW cmd \in Simple, Request(cmd) PROVE Exact'
    <2>1. job'.cmd = cmd /\ cmd \notin FlashCommands
      BY <1>1, KindsDistinct DEF Request, Begin, Simple
    <2> QED
      BY <2>1 DEF Exact
  <1>2. ASSUME NEW t \in Times, drbcc_set_rtc(t) PROVE Exact'
    <2>1. job'.cmd = "RTC_SET" /\ "RTC_SET" \notin FlashCommands
      BY <1>2, KindsDistinct DEF drbcc_set_rtc, Begin
    <2> QED
      BY <2>1 DEF Exact
  <1>3. ASSUME NEW t \in Transfers, drbcc_req_flash_read(t[1], t[2]) PROVE Exact'
    <2> DEFINE size == IF t[2] >= Chunk THEN Chunk ELSE t[2] % Chunk
               p == ReadMsg(ops + 1, t[1], size)
    <2>1. /\ undisturbed' = Idle /\ UNCHANGED <<waiting, peer, line, prioQueue>>
          /\ secQueue' = Append(secQueue, p)
          /\ job' = [cmd |-> "READ", addr |-> t[1], len |-> t[2], before |-> flash]
      BY <1>3 DEF drbcc_req_flash_read, Begin, FlashRead, peerVars
    <2>2. job'.addr \in Nat /\ job'.len \in Nat /\ job'.before \in [Address -> Nat]
      BY <2>1, SessionAssumption DEF TypeOK
    <2>3. p \in Asked'
      BY <1>3, ReadBeginsExact
    <2> HIDE DEF p
    <2> QED
      BY <2>1, <2>2, <2>3, BeginExact
  <1>4. ASSUME NEW t \in Transfers, drbcc_req_flash_write(t[1], t[2]) PROVE Exact'
    <2> DEFINE p == Msg("WRITE", ops + 1, t[1],
                        FirstOf(Bytes(ops + 1, t[2]), FirstSize(t[1], t[2])))
               odd == t[1] % 2 # 0 \/ t[2] % 2 # 0
    <2>1. /\ undisturbed' = Idle /\ UNCHANGED <<waiting, peer, line, prioQueue>>
          /\ secQueue' = IF odd THEN secQueue ELSE Append(secQueue, p)
          /\ job' = [cmd |-> "WRITE", addr |-> t[1], len |-> t[2], before |-> flash]
      BY <1>4 DEF drbcc_req_flash_write, peerVars
    <2>2. job'.addr \in Nat /\ job'.len \in Nat /\ job'.before \in [Address -> Nat]
      BY <2>1, SessionAssumption DEF TypeOK
    <2>3. Idle /\ ~odd => p \in Asked'
      BY <1>4, WriteBeginsExact
    <2> HIDE DEF p, odd
    <2>4. CASE odd
      <3>1. None \in Asked' /\ secQueue' = secQueue
        BY <2>1, <2>4, AsideFacts
      <3> QED
        BY <2>1, <2>2, <3>1, BeginExact
    <2>5. CASE ~odd
      <3>1. secQueue' = Append(secQueue, p) /\ (Idle => p \in Asked')
        BY <2>1, <2>3, <2>5
      <3> QED
        BY <2>1, <2>2, <3>1, BeginExact
    <2> QED
      BY <2>4, <2>5
  <1>5. ASSUME NEW b \in 0..(NumBlocks - 1), drbcc_req_flash_erase_block(b) PROVE Exact'
    <2> DEFINE p == Msg("ERASE", ops + 1, b, <<>>)
    <2>1. /\ undisturbed' = Idle /\ UNCHANGED <<waiting, peer, line, prioQueue, flash>>
          /\ secQueue' = Append(secQueue, p) /\ ops < MaxOps
          /\ job' = [cmd |-> "ERASE", addr |-> b, len |-> 0, before |-> flash]
      BY <1>5 DEF drbcc_req_flash_erase_block, Begin, peerVars
    <2>2. b \in Nat
      BY SessionAssumption
    <2>3. job'.addr \in Nat /\ job'.len \in Nat /\ job'.before \in [Address -> Nat]
      BY <2>1, <2>2 DEF TypeOK
    <2>4. p \in Message /\ p.cmd = "ERASE" /\ p.addr = b /\ p.ok
      <3>1. ops + 1 \in 0..MaxOps /\ "ERASE" \in Kinds /\ Len(<<>>) <= Chunk
        BY <2>1, SizesType, KindsDistinct DEF Sound
      <3>2. p \in Message
        BY <2>2, <3>1, MsgKind, EmptySeq
      <3> QED
        BY <3>2 DEF Msg
    <2> HIDE DEF p
    <2>5. p \in Asked'
      BY <2>1, <2>4 DEF Asked
    <2> QED
      BY <2>1, <2>3, <2>5, BeginExact
  <1> QED
    BY <1>1, <1>2, <1>3, <1>4, <1>5, SimpleRequests DEF FlashRequest

(* What Exact says while no request begins.                                *)
LEMMA ExactGoesOn ==
    ASSUME TypeOK, Exact, session' \in {0, session}, undisturbed' => undisturbed, job' = job,
           Undisturbed /\ undisturbed' /\ session' = session =>
              /\ waiting'.cmd \notin AckEnds
              /\ prioQueue' \in Seq(Aside) /\ Len(secQueue') <= 1
              /\ secQueue' # <<>> => peer' \in Seq(Aside) /\ line' \in Seq(Aside)
              /\ peer' \in Seq(Aside) \/ line' \in Seq(Aside)
              /\ AtMostOne(peer') /\ AtMostOne(line')
              /\ secQueue' \in Seq(Asked') /\ peer' \in Seq(Asked') /\ line' \in Seq(Answered')
    PROVE  Exact'
  <1> SUFFICES ASSUME session' # 0, undisturbed', job'.cmd \in FlashCommands PROVE Exact'
    BY DEF Exact
  <1>1. Undisturbed /\ session' = session
    BY DEF Undisturbed
  <1>2. job'.addr \in Nat /\ job'.len \in Nat /\ job'.before \in [Address -> Nat]
    BY <1>1, ExactQueues
  <1>3. /\ waiting'.cmd \notin AckEnds
        /\ prioQueue' \in Seq(Aside) /\ Len(secQueue') <= 1
        /\ secQueue' # <<>> => peer' \in Seq(Aside) /\ line' \in Seq(Aside)
        /\ peer' \in Seq(Aside) \/ line' \in Seq(Aside)
        /\ AtMostOne(peer') /\ AtMostOne(line')
        /\ secQueue' \in Seq(Asked') /\ peer' \in Seq(Asked') /\ line' \in Seq(Answered')
    BY <1>1
  <1>4. OneUnderWay'
    BY <1>3 DEF OneUnderWay, AtMostOne, Aside
  <1> QED
    BY <1>2, <1>3, <1>4 DEF Exact

(* A queue loses its head.                                                 *)
LEMMA TailExact ==
    ASSUME TypeOK, Exact, Undisturbed
    PROVE  /\ prioQueue # <<>> => /\ Head(prioQueue) \in Aside
                                  /\ Tail(prioQueue) \in Seq(Aside)
           /\ peer # <<>> => /\ Head(peer) \in Asked /\ Tail(peer) \in Seq(Asked)
                             /\ peer \in Seq(Aside) => Tail(peer) \in Seq(Aside)
                             /\ AtMostOne(Tail(peer))
                             /\ Head(peer).cmd \in Commands =>
                                   /\ Tail(peer) \in Seq(Aside) /\ line \in Seq(Aside)
                                   /\ secQueue = <<>>
           /\ line # <<>> => /\ Head(line) \in Answered /\ Tail(line) \in Seq(Answered)
                             /\ line \in Seq(Aside) => Tail(line) \in Seq(Aside)
                             /\ AtMostOne(Tail(line))
                             /\ Head(line).cmd \in Commands =>
                                   /\ Tail(line) \in Seq(Aside) /\ peer \in Seq(Aside)
                                   /\ secQueue = <<>>
  <1>1. /\ prioQueue \in Seq(Aside) /\ (secQueue # <<>> => peer \in Seq(Aside) /\ line \in Seq(Aside))
        /\ (peer \in Seq(Aside) \/ line \in Seq(Aside)) /\ AtMostOne(peer) /\ AtMostOne(line)
        /\ peer \in Seq(Asked) /\ line \in Seq(Answered)
        /\ peer \in Seq(Message) /\ line \in Seq(Message)
    BY ExactQueues DEF TypeOK
  <1>2. ASSUME NEW q \in Seq(Aside), q # <<>>
        PROVE  Head(q) \in Aside /\ Tail(q) \in Seq(Aside) /\ Head(q).cmd \notin Commands
    BY <1>2, HeadTailSeq, AsideFacts
  <1>3. prioQueue # <<>> => Head(prioQueue) \in Aside /\ Tail(prioQueue) \in Seq(Aside)
    BY <1>1, <1>2
  <1>4. ASSUME peer # <<>>
        PROVE  /\ Head(peer) \in Asked /\ Tail(peer) \in Seq(Asked)
               /\ peer \in Seq(Aside) => Tail(peer) \in Seq(Aside)
               /\ AtMostOne(Tail(peer))
               /\ Head(peer).cmd \in Commands =>
                     /\ Tail(peer) \in Seq(Aside) /\ line \in Seq(Aside)
                     /\ secQueue = <<>>
    BY <1>1, <1>2, <1>4, HeadTailSeq, TailAtMostOne
  <1>5. ASSUME line # <<>>
        PROVE  /\ Head(line) \in Answered /\ Tail(line) \in Seq(Answered)
               /\ line \in Seq(Aside) => Tail(line) \in Seq(Aside)
               /\ AtMostOne(Tail(line))
               /\ Head(line).cmd \in Commands =>
                     /\ Tail(line) \in Seq(Aside) /\ peer \in Seq(Aside)
                     /\ secQueue = <<>>
    BY <1>1, <1>2, <1>5, HeadTailSeq, TailAtMostOne
  <1> QED
    BY <1>3, <1>4, <1>5

(* A queue gets a message that is none of the transfer's.                  *)
LEMMA AsideExact ==
    ASSUME TypeOK, Exact, Undisturbed, NEW m \in Aside
    PROVE  /\ Append(prioQueue, m) \in Seq(Aside)
           /\ Append(peer, m) \in Seq(Asked) /\ AtMostOne(Append(peer, m))
           /\ peer \in Seq(Aside) => Append(peer, m) \in Seq(Aside)
           /\ Append(line, m) \in Seq(Answered) /\ AtMostOne(Append(line, m))
           /\ line \in Seq(Aside) => Append(line, m) \in Seq(Aside)
  <1>1. /\ prioQueue \in Seq(Aside) /\ AtMostOne(peer) /\ AtMostOne(line)
        /\ peer \in Seq(Asked) /\ line \in Seq(Answered)
        /\ peer \in Seq(Message) /\ line \in Seq(Message)
    BY ExactQueues DEF TypeOK
  <1>2. m \in Asked /\ m \in Answered
    BY AsideFacts
  <1>3. AtMostOne(Append(peer, m)) /\ AtMostOne(Append(line, m))
    BY <1>1, AppendAside
  <1> QED
    BY <1>1, <1>2, <1>3, AppendSeq

LEMMA SendExact ==
    ASSUME TypeOK, Exact, SendPrio \/ SendSec \/ AnswerTimeout
    PROVE  Exact'
  <1>1. CASE SendPrio
    <2>1. /\ prioQueue # <<>> /\ prioQueue' = Tail(prioQueue) /\ waiting' = Head(prioQueue)
          /\ peer' = Append(peer, Head(prioQueue))
          /\ UNCHANGED <<session, undisturbed, secQueue, line, flash, raw, job, got>>
      BY <1>1 DEF SendPrio, Send, rawVars, historyVars
    <2>2. Asked' = Asked /\ Answered' = Answered
      BY <2>1, SameTransfer
    <2>3. ASSUME Undisturbed
          PROVE  /\ waiting'.cmd \notin AckEnds /\ prioQueue' \in Seq(Aside) /\ AtMostOne(peer')
                 /\ peer' \in Seq(Asked) /\ (peer \in Seq(Aside) => peer' \in Seq(Aside))
      <3>1. Head(prioQueue) \in Aside /\ Tail(prioQueue) \in Seq(Aside)
        BY <2>1, <2>3, TailExact
      <3> QED
        BY <2>1, <2>3, <3>1, AsideExact, AsideFacts DEF Commands
    <2> QED
      BY <2>1, <2>2, <2>3, ExactQueues, ExactGoesOn
  <1>2. CASE SendSec
    <2> DEFINE m == Head(secQueue)
    <2>1. /\ secQueue # <<>> /\ secQueue' = Tail(secQueue) /\ waiting' = m
          /\ peer' = Append(peer, m)
          /\ UNCHANGED <<session, undisturbed, prioQueue, line, flash, raw, job, got>>
      BY <1>2 DEF SendSec, Send, rawVars, historyVars
    <2>2. Asked' = Asked /\ Answered' = Answered
      BY <2>1, SameTransfer
    <2>3. ASSUME Undisturbed
          PROVE  /\ waiting'.cmd \notin AckEnds /\ secQueue' = <<>> /\ AtMostOne(peer')
                 /\ peer' \in Seq(Asked) /\ line \in Seq(Aside) /\ <<>> \in Seq(Asked)
      <3>1. /\ secQueue \in Seq(Asked) /\ Len(secQueue) <= 1 /\ peer \in Seq(Aside)
            /\ line \in Seq(Aside) /\ peer \in Seq(Asked)
        BY <2>1, <2>3, ExactQueues
      <3>2. m \in Asked
        BY <2>1, <3>1, HeadTailSeq
      <3>3. secQueue' = <<>>
        BY <2>1, <3>1
      <3> HIDE DEF m
      <3>4. AtMostOne(peer') /\ peer' \in Seq(Asked)
        BY <2>1, <3>1, <3>2, AppendToAside, AppendSeq
      <3>5. m.cmd \notin AckEnds
        <4>1. m.cmd \in Commands => m.cmd \in FlashCommands
          BY <2>3, <3>2 DEF Asked, Undisturbed
        <4> QED
          BY <4>1, KindsDistinct DEF Commands
      <3> QED
        BY <2>1, <3>1, <3>3, <3>4, <3>5, EmptySeq
    <2>4. Len(<<>>) <= 1
      OBVIOUS
    <2> QED
      BY <2>1, <2>2, <2>3, <2>4, ExactQueues, ExactGoesOn
  <1>3. CASE AnswerTimeout
    <2>1. UNCHANGED <<session, undisturbed, prioQueue, secQueue, waiting, peer, line, flash, raw, job,
                      got>>
      BY <1>3 DEF AnswerTimeout, rawVars, peerVars, historyVars
    <2>2. Asked' = Asked /\ Answered' = Answered
      BY <2>1, SameTransfer
    <2> QED
      BY <2>1, <2>2, ExactQueues, ExactGoesOn
  <1> QED
    BY <1>1, <1>2, <1>3

LEMMA RecvExact ==
    ASSUME TypeOK, Sound, Exact,
           \/ RecvAck
           \/ \E m : \/ RecvAnswer(m) \/ RecvRtc(m) \/ RecvStatus(m) \/ RecvRead(m)
                     \/ RecvWrite(m) \/ RecvAsk(m) \/ RecvOther(m)
    PROVE  Exact'
  <1>1. CASE RecvAck
    <2>1. /\ line # <<>> /\ line' = Tail(line) /\ waiting' = None /\ session' \in {0, session}
          /\ UNCHANGED <<undisturbed, prioQueue, secQueue, peer, flash, raw, job, got>>
      BY <1>1 DEF RecvAck, rawVars, peerVars
    <2>2. ASSUME session' = session PROVE Asked' = Asked /\ Answered' = Answered
      BY <2>1, <2>2, SameTransfer
    <2>3. waiting'.cmd \notin AckEnds
      BY <2>1, NoneType, KindsDistinct DEF Commands
    <2> QED
      BY <2>1, <2>2, <2>3, ExactQueues, TailExact, ExactGoesOn
  <1>2. ASSUME NEW m, Recv(m)
        PROVE  /\ line # <<>> /\ m = Head(line) /\ line' = Tail(line)
               /\ UNCHANGED <<undisturbed, waiting, peer, flash, job>>
    BY <1>2 DEF Recv, peerVars
  <1>3. ASSUME NEW m, Recv(m), session' \in {0, session},
               session' = session => UNCHANGED <<secQueue, raw, got>>,
               Undisturbed => prioQueue' \in Seq(Aside)
        PROVE  Exact'
    <2>1. ASSUME session' = session PROVE Asked' = Asked /\ Answered' = Answered
      BY <1>2, <1>3, <2>1, SameTransfer
    <2> QED
      BY <1>2, <1>3, <2>1, ExactQueues, TailExact, ExactGoesOn
  <1>4. ASSUME NEW m, RecvAnswer(m) \/ RecvRtc(m) \/ RecvOther(m) \/ RecvStatus(m) PROVE Exact'
    <2>1. /\ Recv(m) /\ session' \in {0, session} /\ UNCHANGED <<prioQueue, secQueue>>
          /\ session' = session => UNCHANGED <<raw, got>>
      BY <1>4 DEF RecvAnswer, RecvRtc, RecvOther, RecvStatus, rawVars
    <2> QED
      BY <1>3, <2>1, ExactQueues
  <1>5. ASSUME NEW m, RecvAsk(m) PROVE Exact'
    <2>1. /\ Recv(m) /\ UNCHANGED <<session, secQueue, raw, got>>
          /\ prioQueue' = Append(prioQueue, Msg("REPLY", 0, 0, <<>>))
      BY <1>5 DEF RecvAsk, rawVars
    <2>2. Msg("REPLY", 0, 0, <<>>) \in Aside
      <3>1. "REPLY" \in Kinds /\ "REPLY" \notin Commands
        BY KindsDistinct
      <3> QED
        BY <3>1, EmptyMsgType, AsideFacts
    <2> QED
      BY <1>3, <2>1, <2>2, AsideExact
  (* The next part of a transfer.                                          *)
  <1>6. ASSUME NEW m, Recv(m), m.cmd \in Commands, UNCHANGED <<session, prioQueue>>,
               NEW p, secQueue' = Append(secQueue, p),
               Undisturbed /\ m \in Answered => p \in Asked'
        PROVE  Exact'
    <2>1. ASSUME Undisturbed
          PROVE  /\ waiting'.cmd \notin AckEnds
                 /\ prioQueue' \in Seq(Aside) /\ Len(secQueue') <= 1
                 /\ peer' \in Seq(Aside) /\ line' \in Seq(Aside)
                 /\ AtMostOne(peer') /\ AtMostOne(line')
                 /\ secQueue' \in Seq(Asked') /\ peer' \in Seq(Asked') /\ line' \in Seq(Answered')
      <3>1. /\ m \in Answered /\ Tail(line) \in Seq(Aside) /\ peer \in Seq(Aside) /\ secQueue = <<>>
        BY <1>2, <1>6, <2>1, TailExact
      <3>2. peer' \in Seq(Aside) /\ line' \in Seq(Aside)
        BY <1>2, <1>6, <3>1
      <3>3. AtMostOne(peer') /\ AtMostOne(line')
        BY <3>2, AsideAtMostOne
      <3>4. peer' \in Seq(Asked') /\ line' \in Seq(Answered')
        BY <3>2, AsideFacts, WiderSeq
      <3>5. Append(<<>>, p) \in Seq(Asked')
        BY <1>6, <2>1, <3>1, EmptySeq, AppendSeq
      <3>6. Len(Append(<<>>, p)) <= 1
        OBVIOUS
      <3> QED
        BY <1>2, <1>6, <2>1, <3>1, <3>2, <3>3, <3>4, <3>5, <3>6, ExactQueues
    <2> QED
      BY <1>2, <1>6, <2>1, ExactGoesOn
  <1>7. ASSUME NEW m, RecvRead(m) PROVE Exact'
    <2>1. Recv(m) /\ m.cmd = "READ" /\ prioQueue' = prioQueue /\ m.cmd \in Commands
      BY <1>7, KindsDistinct DEF RecvRead, Commands
    <2>2. CASE m.ok /\ raw.len # 0
      <3> DEFINE size == IF raw.len >= Chunk THEN Chunk ELSE raw.len % Chunk
                 p == ReadMsg(m.op, raw.addr, size)
      <3>1. /\ session' = session /\ secQueue' = Append(secQueue, p) /\ got' = got \o m.bytes
            /\ raw' = [raw EXCEPT !.addr = raw.addr + size, !.len = raw.len - size]
        BY <1>7, <2>2 DEF RecvRead, FlashRead
      <3>2. size \in 0..Chunk /\ size <= raw.len
        <4>1. raw.len \in Nat
          BY DEF TypeOK
        <4>2. raw.len % Chunk \in 0..(Chunk - 1) /\ (raw.len < Chunk => raw.len % Chunk = raw.len)
          BY <4>1, ChunkSize
        <4> QED
          BY <4>1, <4>2, SizesType
      <3> HIDE DEF size
      <3>3. ASSUME Undisturbed, m \in Answered PROVE p \in Asked'
        <4>1. job.cmd = "READ"
          BY <2>1, <3>3 DEF Answered
        <4>2. job.addr \in Nat /\ job.len \in Nat /\ UNCHANGED <<flash, job>>
          BY <1>2, <2>1, <3>3, ExactQueues
        <4> QED
          BY <2>1, <2>2, <3>1, <3>2, <3>3, <4>1, <4>2, ReadOnExact
      <3> HIDE DEF p
      <3> QED
        BY <1>6, <2>1, <3>1, <3>3
    <2>3. CASE ~(m.ok /\ raw.len # 0)
      <3>1. session' = 0
        BY <1>7, <2>3 DEF RecvRead
      <3> QED
        BY <3>1 DEF Exact
    <2> QED
      BY <2>2, <2>3
  <1>8. ASSUME NEW m, RecvWrite(m) PROVE Exact'
    <2>1. Recv(m) /\ m.cmd = "WRITE" /\ prioQueue' = prioQueue /\ got' = got /\ m.cmd \in Commands
      BY <1>8, KindsDistinct DEF RecvWrite, Commands
    <2>2. CASE m.ok /\ raw.len # 0
      <3> DEFINE size == IF raw.len >= Chunk THEN Chunk ELSE raw.len
                 p == Msg("WRITE", m.op, raw.addr, FirstOf(raw.data, size))
      <3>1. /\ session' = session /\ secQueue' = Append(secQueue, p)
            /\ raw' = [addr |-> raw.addr + size, len |-> raw.len - size,
                       data |-> RestOf(raw.data, size)]
        BY <1>8, <2>2 DEF RecvWrite, FlashWrite
      <3>2. size \in 0..Chunk /\ size <= raw.len
        BY SizesType DEF TypeOK
      <3> HIDE DEF size
      <3>3. ASSUME Undisturbed, m \in Answered PROVE p \in Asked'
        <4>1. job.cmd = "WRITE"
          BY <2>1, <3>3 DEF Answered
        <4>2. job.addr \in Nat /\ job.len \in Nat /\ UNCHANGED <<flash, job>>
          BY <1>2, <2>1, <3>3, ExactQueues
        <4> QED
          BY <2>1, <2>2, <3>1, <3>2, <3>3, <4>1, <4>2, WriteOnExact
      <3> HIDE DEF p
      <3> QED
        BY <1>6, <2>1, <3>1, <3>3
    <2>3. CASE ~(m.ok /\ raw.len # 0)
      <3>1. session' = 0
        BY <1>8, <2>3 DEF RecvWrite
      <3> QED
        BY <3>1 DEF Exact
    <2> QED
      BY <2>2, <2>3
  <1> QED
    BY <1>1, <1>4, <1>5, <1>7, <1>8

LEMMA PeerExact ==
    ASSUME TypeOK, TypeOK', Sound, Exact, Peer \/ Fault \/ \E e \in Events : PeerEvent(e)
    PROVE  Exact'
  <1>1. ASSUME NEW m, line' = Append(line, m), undisturbed' => undisturbed /\ m \in Aside,
               UNCHANGED <<session, prioQueue, secQueue, waiting, peer, flash, raw, job, got>>
        PROVE  Exact'
    <2>1. Asked' = Asked /\ Answered' = Answered
      BY <1>1, SameTransfer
    <2> QED
      BY <1>1, <2>1, ExactQueues, AsideExact, ExactGoesOn
  <1>2. CASE PeerAck
    <2>1. /\ line' = Append(line, Ack)
          /\ UNCHANGED <<session, undisturbed, prioQueue, secQueue, waiting, peer, flash, raw, job, got>>
      BY <1>2 DEF PeerAck, hostVars, rawVars, historyVars
    <2> QED
      BY <1>1, <2>1, AsideFacts
  <1>3. ASSUME NEW e \in Events, PeerEvent(e) PROVE Exact'
    <2> DEFINE m == Msg(e, 0, 0, <<>>)
    <2>1. /\ line' = Append(line, m) /\ (undisturbed' => undisturbed /\ e # "STATUS")
          /\ UNCHANGED <<session, prioQueue, secQueue, waiting, peer, flash, raw, job, got>>
      BY <1>3 DEF PeerEvent, hostVars, rawVars, peerVars
    <2>2. e # "STATUS" => m \in Aside
      <3>1. e # "STATUS" => e \in Kinds /\ e \notin Commands
        BY KindsDistinct DEF Events
      <3> QED
        BY <3>1, EmptyMsgType, AsideFacts
    <2> HIDE DEF m
    <2> QED
      BY <1>1, <2>1, <2>2
  <1>4. CASE Fault
    <2>1. undisturbed' = FALSE
      BY <1>4 DEF Fault, GiveUp, PeerRefuses, PeerAnswersShort, PeerFails, ToggleError
    <2> QED
      BY <2>1 DEF Exact
  <1>5. CASE PeerExecute
    <2> DEFINE m == Head(peer)
               r == AnswerTo(m)
    <2>1. /\ peer # <<>> /\ peer' = Tail(peer) /\ flash' = FlashAfter(m)
          /\ line' = IF m.cmd \in AckEnds \cup {"REPLY"} THEN line ELSE Append(line, r)
          /\ UNCHANGED <<session, undisturbed, prioQueue, secQueue, waiting, raw, job, got>>
      BY <1>5 DEF PeerExecute, hostVars, rawVars, historyVars
    <2>2. m \in SoundMsg(ops, timeOf)
      BY <2>1, SoundHead
    <2>3. r \in Message /\ (m.cmd \in Commands <=> r.cmd \in Commands)
      BY <2>2, PeerSound, SoundIsMessage
    <2>4. ASSUME Undisturbed, m.cmd \in Commands PROVE Exact'
      <3>1. /\ m \in Asked /\ peer' \in Seq(Aside) /\ line \in Seq(Aside) /\ secQueue = <<>>
        BY <2>1, <2>4, TailExact
      <3>2. job.cmd \in FlashCommands /\ m.cmd = job.cmd /\ job.addr \in Nat /\ job.len \in Nat
        BY <2>4, <3>1, ExactQueues DEF Asked, Undisturbed
      <3>3. r \in Answered'
        BY <2>1, <2>2, <2>4, <3>1, <3>2, ExecuteExact
      <3>4. line' = Append(line, r)
        <4>1. m.cmd \notin AckEnds \cup {"REPLY"}
          BY <3>2 DEF FlashCommands, AckEnds
        <4> HIDE DEF m, r
        <4> QED
          BY <2>1, <4>1
      <3> HIDE DEF m, r
      <3>5. line \in Seq(Answered') /\ peer' \in Seq(Asked')
        BY <3>1, AsideFacts, WiderSeq
      <3>6. line' \in Seq(Answered') /\ AtMostOne(line') /\ AtMostOne(peer')
        BY <3>1, <3>3, <3>4, <3>5, AppendSeq, AppendToAside, AsideAtMostOne
      <3>7. secQueue' = <<>> /\ <<>> \in Seq(Asked') /\ Len(<<>>) <= 1
        BY <2>1, <3>1, EmptySeq
      <3>8. waiting'.cmd \notin AckEnds /\ prioQueue' \in Seq(Aside)
        BY <2>1, <2>4, ExactQueues
      <3> QED
        BY <2>1, <3>1, <3>5, <3>6, <3>7, <3>8, ExactGoesOn
    <2>5. ASSUME Undisturbed, m.cmd \notin Commands PROVE Exact'
      <3>1. flash' = flash
        BY <2>1, <2>5, KindsDistinct DEF FlashAfter, Commands
      <3>2. Asked' = Asked /\ Answered' = Answered
        BY <2>1, <3>1, SameTransfer
      <3>3. r \in Aside
        BY <2>3, <2>5, AsideFacts
      <3>4. line' \in {line, Append(line, r)}
        BY <2>1
      <3> HIDE DEF r, m
      <3>5. line' \in Seq(Answered) /\ AtMostOne(line') /\ (line \in Seq(Aside) => line' \in Seq(Aside))
        BY <2>5, <3>3, <3>4, ExactQueues, AsideExact
      <3>6. peer' \in Seq(Asked) /\ AtMostOne(peer') /\ (peer \in Seq(Aside) => peer' \in Seq(Aside))
        BY <2>1, <2>5, TailExact
      <3> QED
        BY <2>1, <2>5, <3>2, <3>5, <3>6, ExactQueues, ExactGoesOn
    <2>6. ASSUME ~Undisturbed PROVE Exact'
      BY <2>1, <2>6 DEF Exact, Undisturbed
    <2> QED
      BY <2>4, <2>5, <2>6
  <1> QED
    BY <1>2, <1>3, <1>4, <1>5 DEF Peer

LEMMA NextExact == TypeOK /\ Sound /\ Exact /\ TypeOK' /\ [Next]_vars => Exact'
  <1> SUFFICES ASSUME TypeOK, Sound, Exact, TypeOK', [Next]_vars PROVE Exact'
    OBVIOUS
  <1>1. CASE SimpleRequest \/ FlashRequest \/ \E t \in Times : drbcc_set_rtc(t)
    BY <1>1, RequestExact
  <1>2. CASE Trigger
    BY <1>2, SendExact, RecvExact DEF Trigger
  <1>3. CASE Peer \/ Fault \/ \E e \in Events : PeerEvent(e)
    BY <1>3, PeerExact
  <1>4. CASE UNCHANGED vars
    <2>1. UNCHANGED <<session, undisturbed, prioQueue, secQueue, waiting, peer, line, flash, raw, job, got>>
      BY <1>4 DEF vars, hostVars, rawVars, peerVars, historyVars
    <2>2. Asked' = Asked /\ Answered' = Answered
      BY <2>1, SameTransfer
    <2> QED
      BY <2>1, <2>2 DEF Exact, OneUnderWay, AtMostOne
  <1> QED
    BY <1>1, <1>2, <1>3, <1>4 DEF Next

(* What the application finds when the session of a transfer ends: the     *)
(* body of TransferExact.                                                  *)
AsAsked ==
    LET range == job.addr..(job.addr + job.len - 1)
    IN /\ job.cmd = "READ" => got' = [k \in 1..job.len |-> job.before[job.addr + k - 1]]
       /\ job.cmd = "WRITE" /\ Fits(job.addr, job.len) =>
             \A a \in Address :
                flash'[a] = IF a \in range THEN Bytes(session, job.len)[a - job.addr + 1]
                            ELSE job.before[a]
       /\ job.cmd = "ERASE" =>
             \A a \in Address :
                flash'[a] = IF a \div BlockSize = job.addr THEN 0 ELSE job.before[a]

(* The last answer of a transfer: nothing is left of it.                   *)
LEMMA LastAnswer ==
    ASSUME TypeOK, job.addr \in Nat, job.len \in Nat, NEW m \in Answered,
           m.cmd \in Commands, m.cmd \in {"READ", "WRITE"} => raw.len = 0,
           m.cmd = "READ" => got' = got \o m.bytes, flash' = flash
    PROVE  AsAsked
  <1>1. m \in Message /\ m.cmd = job.cmd /\ m.addr \in Nat /\ m.len \in Nat
    <2>1. m \in Message /\ m.cmd = job.cmd
      BY DEF Answered
    <2>2. m.addr \in Nat /\ m.len \in 0..Chunk
      BY <2>1 DEF Message
    <2> QED
      BY <2>1, <2>2, SizesType
  <1>2. CASE m.cmd = "READ"
    <2>1. /\ Reading(m) /\ Len(m.bytes) = m.len
          /\ \A k \in 1..m.len : m.bytes[k] = job.before[m.addr + k - 1]
      BY <1>2 DEF Answered
    <2> DEFINE g == got \o m.bytes
    <2>2. /\ g \in Seq(Nat) /\ job.addr + Len(g) = m.addr + m.len
          /\ \A k \in 1..Len(g) : g[k] = job.before[job.addr + k - 1]
      BY <1>1, <2>1, GotGrows
    <2>3. got' = g
      BY <1>2
    <2> HIDE DEF g
    <2>4. Len(g) = job.len
      <3>1. m.addr + m.len + raw.len = job.addr + job.len /\ raw.len = 0
        BY <1>2, <2>1 DEF Reading, Joins
      <3>2. Len(g) \in Nat
        BY <2>2
      <3> QED
        BY <1>1, <2>2, <3>1, <3>2
    <2>5. g = [k \in 1..job.len |-> job.before[job.addr + k - 1]]
      BY <2>2, <2>4
    <2> QED
      BY <1>1, <1>2, <2>3, <2>5 DEF AsAsked
  <1>3. CASE m.cmd = "WRITE"
    <2> SUFFICES ASSUME Fits(job.addr, job.len), NEW a \in Address
                 PROVE  flash'[a] = IF a \in job.addr..(job.addr + job.len - 1)
                                      THEN Bytes(session, job.len)[a - job.addr + 1]
                                    ELSE job.before[a]
      BY <1>1, <1>3 DEF AsAsked
    <2>1. Joins(m) /\ Written(flash, job, session, m.addr + m.len)
      BY <1>1, <1>3 DEF Answered, Writing
    <2>2. m.addr + m.len = job.addr + job.len
      BY <1>1, <1>3, <2>1 DEF Joins
    <2>3. (m.addr + m.len) - 1 = job.addr + job.len - 1
      BY <1>1, <2>2
    <2>4. flash[a] = IF a \in job.addr..((m.addr + m.len) - 1)
                       THEN Bytes(session, job.len)[a - job.addr + 1] ELSE job.before[a]
      BY <2>1 DEF Written
    <2> QED
      BY <2>3, <2>4
  <1>4. CASE m.cmd = "ERASE"
    BY <1>1, <1>4 DEF Answered, AsAsked
  <1>5. CASE m.cmd \notin FlashCommands
    BY <1>1, <1>5 DEF AsAsked, FlashCommands
  <1> QED
    BY <1>2, <1>3, <1>4, <1>5 DEF FlashCommands

(* A step that ends such a session brings the last answer of its transfer. *)
LEMMA EndsExact ==
    ASSUME TypeOK, Sound, Exact, TypeOK', [Next]_vars, Closes, undisturbed'
    PROVE  AsAsked
  <1>1. session # 0 /\ session' = 0 /\ session' # session
    BY DEF Closes
  <1>2. ~(SimpleRequest \/ FlashRequest \/ \E t \in Times : drbcc_set_rtc(t))
    BY <1>1, SimpleRequests DEF FlashRequest, Request, Begin, drbcc_set_rtc, drbcc_req_flash_read,
       drbcc_req_flash_write, drbcc_req_flash_erase_block
  <1>3. ~(Peer \/ Fault \/ \E e \in Events : PeerEvent(e))
    BY <1>1 DEF Peer, PeerAck, PeerExecute, Fault, GiveUp, PeerRefuses, PeerAnswersShort, PeerFails,
       ToggleError, PeerEvent, hostVars
  <1>4. ~UNCHANGED vars
    BY <1>1 DEF vars, hostVars
  <1>5. ~(\E m : RecvAsk(m) \/ RecvOther(m))
    BY <1>1 DEF RecvAsk, RecvOther
  <1>6. ~(SendPrio \/ SendSec \/ AnswerTimeout)
    BY <1>1 DEF SendPrio, SendSec, Send, AnswerTimeout
  <1>7. CASE job.cmd \notin FlashCommands
    BY <1>7 DEF AsAsked, FlashCommands
  <1>8. CASE job.cmd \in FlashCommands /\ RecvAck
    <2>1. undisturbed /\ waiting.cmd \in AckEnds
      BY <1>1, <1>8 DEF RecvAck, AckCloses
    <2> QED
      BY <1>1, <1>8, <2>1 DEF Exact
  <1>9. ASSUME NEW m, job.cmd \in FlashCommands,
               RecvAnswer(m) \/ RecvRtc(m) \/ RecvStatus(m) \/ RecvRead(m) \/ RecvWrite(m)
        PROVE  AsAsked
    <2>1. Recv(m) /\ m.cmd \in Commands
      BY <1>9, KindsDistinct DEF RecvAnswer, RecvRtc, RecvStatus, RecvRead, RecvWrite, Commands
    <2>2. undisturbed /\ line # <<>> /\ m = Head(line) /\ flash' = flash
      BY <2>1 DEF Recv, peerVars
    <2>3. Undisturbed
      BY <1>1, <1>9, <2>2 DEF Undisturbed
    <2>4. m \in Answered /\ job.addr \in Nat /\ job.len \in Nat
      BY <2>2, <2>3, TailExact, ExactQueues
    <2>5. m.ok
      BY <2>1, <2>4 DEF Answered
    <2>6. m.cmd \in {"READ", "WRITE"} => raw.len = 0
      BY <1>1, <1>9, <2>5 DEF RecvAnswer, RecvRtc, RecvStatus, RecvRead, RecvWrite, AnswerEnds
    <2>7. m.cmd = "READ" => got' = got \o m.bytes
      BY <1>9, <2>5 DEF RecvAnswer, RecvRtc, RecvStatus, RecvRead, RecvWrite, AnswerEnds
    <2> QED
      BY <2>1, <2>2, <2>4, <2>6, <2>7, LastAnswer
  <1> QED
    BY <1>2, <1>3, <1>4, <1>5, <1>6, <1>7, <1>8, <1>9 DEF Next, Trigger

(* An application that sees the session of a raw transfer end, with no     *)
(* fault and no unasked status on the way, finds what it asked for,        *)
(* whatever the range and however it is cut into chunks: read_flash_cb was *)
(* given all bytes in order, the flash holds what was written, or the      *)
(* block is erased, and the rest of the flash is as it was.                *)
THEOREM TransfersExact == Spec => TransferExact
  <1>1. Init => TypeOK /\ Sound /\ Exact
    BY InitSound DEF Init, Exact
  <1>2. TypeOK /\ Sound /\ Exact /\ [Next]_vars => TypeOK' /\ Sound' /\ Exact'
    BY NextSound, NextExact
  <1>3. TypeOK /\ Sound /\ Exact /\ [Next]_vars => [Closes /\ undisturbed' => AsAsked]_vars
    BY NextSound, EndsExact
  <1>4. TransferExact <=> [][Closes /\ undisturbed' => AsAsked]_vars
    BY DEF TransferExact, AsAsked
  <1> QED
    BY <1>1, <1>2, <1>3, <1>4, PTL DEF Spec
=============================================================================
