------------------------------ MODULE DrbccLog ------------------------------
(***************************************************************************)
(* Reading the ring log (lib/drbcc_files.c): drbcc_get_log asks the board  *)
(* controller for its log position (DRBCC_IND_RINGLOG_POS), then for the   *)
(* partition table, then for the log area, chunk by chunk, in which        *)
(* libdrbcc_get_log looks for entries and for the end; drbcc_get_pos,      *)
(* drbcc_clear_log and drbcc_put_log are the other requests.  An entry is  *)
(* one cell of 16 bytes, or a head with extension cells behind it.         *)
(*                                                                         *)
(* The table is read from block 0, and restored from its backup in block 1 *)
(* when it has no magic (libdrbcc_readflash_cb).  Flash addresses count    *)
(* chunks from the start of the flash; positions count cells.  Both are    *)
(* cut off as in the code: an unsigned has 32 bits, an address that is     *)
(* sent 24.  No fact of the code keeps them in the log area.               *)
(*                                                                         *)
(* The controller (external) writes cells in ring order, erases a block    *)
(* when it enters it, and may write, or restart, at any time.              *)
(***************************************************************************)
EXTENDS Integers, Sequences

CONSTANTS
    ChunkCells,     \* cells of one flash read (8 in the code)
    BlockChunks,    \* flash reads of one block (32 in the code)
    Blocks,         \* blocks of the log area (508 in the code)
    AreaStart,      \* the first block of the log area
    PersStart,      \* the first block of the persistent log's area
    PersBlocks,     \* its blocks
    FlashBlocks,    \* blocks that a 24-bit flash address reaches (4096 in the code)
    AddrBlocks,     \* blocks that 32 bits reach (2^20 in the code)
    Tables,         \* what the two table blocks may hold at first
    Entries,        \* the values of "entries" that the application uses
    LongIds,        \* which entries the controller writes are long ones
    ExtCells,       \* extension cells of a long entry
    MaxIds,         \* bound: entries written
    MaxSessions,    \* bound: requests of the application
    MaxFaults       \* bound: restarts of the controller and faults of the link

ASSUME LogAssumption ==
    /\ ChunkCells \in Nat \ {0}
    /\ BlockChunks \in Nat \ {0}
    /\ Blocks \in Nat \ {0, 1}
    /\ AreaStart \in Nat \ {0, 1}
    /\ PersStart \in Nat \ {0, 1}
    /\ PersBlocks \in Nat \ {0}
    /\ FlashBlocks \in Nat /\ AddrBlocks \in Nat
    /\ AreaStart + Blocks <= FlashBlocks
    /\ PersStart + PersBlocks <= FlashBlocks
    /\ FlashBlocks <= AddrBlocks /\ AddrBlocks % FlashBlocks = 0
    /\ Tables \subseteq {"none", "files", "log"} \X {"none", "files", "log"}
    /\ Entries \subseteq Int
    /\ LongIds \subseteq Nat
    /\ ExtCells \in Nat \ {0}
    /\ MaxIds \in Nat
    /\ MaxSessions \in Nat
    /\ MaxFaults \in Nat

BlockCells == BlockChunks * ChunkCells
NumCells == Blocks * BlockCells
CellPos == 0..(NumCells - 1)
Chunks == 0..((Blocks * BlockChunks) - 1)
Base == AreaStart * BlockCells

(* The 32-bit values: bytes (16 of each cell), cells, and a block number   *)
(* with a cell in it.                                                      *)
AddrCells == AddrBlocks * BlockCells
Word == 16 * AddrCells
Positions == 0..((Word * BlockCells) - 1)

(* The requests of the second queue: a read of a chunk of the flash, of    *)
(* which Table and Backup are the first ones of blocks 0 and 1, and the    *)
(* two that restore the table.                                             *)
FlashChunks == FlashBlocks * BlockChunks
Table == 0
Backup == BlockChunks
EraseTable == -1
WriteTable == -2
Reads == 0..(FlashChunks - 1)
AreaFirst == AreaStart * BlockChunks
AreaReads == AreaFirst..((AreaFirst + (Blocks * BlockChunks)) - 1)

(* A cell: its entry, and which part of it; part 0 is the first one.       *)
Empty == [id |-> 0, part |-> 0, parts |-> 0]
Cell(id, part) == [id |-> id, part |-> part, parts |-> IF id \in LongIds THEN ExtCells ELSE 0]
IsEmpty(c) == c.id = 0
IsExtension(c) == c.part > 0
IsLong(c) == c.part = 0 /\ c.parts > 0

VARIABLES
    \* the controller
    cells,          \* the log area
    wpos,           \* the cell it writes next
    wrapped,        \* it has reached the end of the area once
    lastId,         \* the entry it wrote last
    part,           \* how many extension cells of that entry it has written
    \* the handle
    state,          \* "USER" or "GET_LOG"
    session,        \* 0, or the number of the request
    opened,         \* requests so far
    entries,        \* entries
    logtype,        \* logtype: the ring log is asked for
    area,           \* curFilestart and maxFilelength: of the "ring" or "pers" area
    curr,           \* curFileIndex * BlockCells + logentry
    wrapflag,       \* logwrapflag # 0xFF
    start,          \* start
    logdata,        \* the entry being put together: None, or its parts so far
    delivered,      \* getlog_cb: what it was called with in this session, while
                    \* the history variables below are FALSE
    \* requests under way
    prio,           \* the first queue: REQ_RINGLOG_POS, CLEAR_RINGLOG_REQ, REQ_PUT_LOG
    reads,          \* the second queue
    \* the partition table
    tab0,           \* block 0: "none" (no magic), "files" (no log entries), or "log"
    tab1,           \* block 1
    retry,          \* retry of libdrbcc_readflash_cb
    faults,
    \* history
    disturbed,      \* the log was written or cleared since its position was reported
    crossed,        \* a get_log began with requests of an earlier one under way
    rebased,        \* and with a position or a table among them
    leftover        \* a get_log began with a part of an earlier one's entry

logVars == <<cells, wpos, wrapped, lastId, part>>
getVars == <<entries, logtype, start, logdata, delivered>>
posVars == <<area, curr, wrapflag>>
reqVars == <<prio, reads>>
tableVars == <<tab0, tab1, retry>>
historyVars == <<disturbed, crossed, rebased, leftover>>
vars == <<logVars, state, session, opened, getVars, posVars, reqVars, tableVars, faults,
          historyVars>>

None == [pos |-> 0, parts |-> <<>>, rest |-> 0]

Init ==
    /\ cells = [p \in CellPos |-> Empty]
    /\ wpos = 0
    /\ wrapped = FALSE
    /\ lastId = 0
    /\ part = 0
    /\ state = "USER"
    /\ session = 0
    /\ opened = 0
    /\ entries = 0
    /\ logtype = TRUE
    /\ area = "ring"
    /\ curr = 0
    /\ wrapflag = FALSE
    /\ start = 0
    /\ logdata = None
    /\ delivered = <<>>
    /\ prio = <<>>
    /\ reads = <<>>
    /\ \E t \in Tables : tab0 = t[1] /\ tab1 = t[2]
    /\ retry = FALSE
    /\ faults = 0
    /\ disturbed = FALSE
    /\ crossed = FALSE
    /\ rebased = FALSE
    /\ leftover = FALSE

-----------------------------------------------------------------------------
(* The controller (external).                                              *)

InEntry == lastId \in LongIds /\ part < ExtCells

(* It writes the next cell; a block is erased as it is entered.            *)
WriteCell ==
    LET c == IF InEntry THEN Cell(lastId, part + 1) ELSE Cell(lastId + 1, 0)
        next == (wpos + 1) % NumCells
    IN /\ cells' = [p \in CellPos |->
                       IF p = wpos THEN c
                       ELSE IF next % BlockCells = 0 /\ p \div BlockCells = next \div BlockCells
                              THEN Empty
                       ELSE cells[p]]
       /\ wpos' = next
       /\ wrapped' = (wrapped \/ next = 0)
       /\ lastId' = c.id
       /\ part' = c.part
       /\ disturbed' = TRUE

(* An entry that it logs itself.                                           *)
LogEvent ==
    /\ InEntry \/ lastId < MaxIds
    /\ WriteCell
    /\ UNCHANGED <<state, session, opened, getVars, posVars, reqVars, tableVars, faults, crossed,
                   rebased, leftover>>

(* It restarts: a long entry stays incomplete.                             *)
RestartController ==
    /\ InEntry
    /\ faults < MaxFaults
    /\ faults' = faults + 1
    /\ part' = ExtCells
    /\ UNCHANGED <<cells, wpos, wrapped, lastId, state, session, opened, getVars, posVars,
                   reqVars, tableVars, historyVars>>

-----------------------------------------------------------------------------
(* The requests of the application.                                        *)

(* An answer to come, with which a get_log goes on.                        *)
PosUnderWay == \E i \in DOMAIN prio : prio[i] # "put"
TableUnderWay == \E i \in DOMAIN reads : reads[i] \in {Table, Backup}

Open == session' = opened + 1 /\ opened' = opened + 1

(* drbcc_get_log: the persistent log opens a session without a request.    *)
(* Nothing but the session is tested: requests of an earlier one, its      *)
(* position and its table included, may still be on their way.             *)
GetLog(ring, n) ==
    /\ session = 0
    /\ opened < MaxSessions
    /\ Open
    /\ state' = "GET_LOG"
    /\ logtype' = ring
    /\ start' = 0
    /\ entries' = n
    /\ prio' = IF ring THEN Append(prio, "pos") ELSE prio
    /\ curr' = curr % BlockCells
    /\ delivered' = <<>>
    /\ crossed' = (crossed \/ prio # <<>> \/ reads # <<>>)
    /\ rebased' = (rebased \/ PosUnderWay \/ TableUnderWay)
    /\ leftover' = (leftover \/ logdata # None)
    /\ UNCHANGED <<logVars, logdata, area, wrapflag, reads, tableVars, faults, disturbed>>

(* drbcc_get_pos and drbcc_clear_log                                       *)
AskPos(kind) ==
    /\ session = 0
    /\ opened < MaxSessions
    /\ Open
    /\ state' = "USER"
    /\ prio' = Append(prio, kind)
    /\ UNCHANGED <<logVars, getVars, posVars, reads, tableVars, faults, historyVars>>

GetPos == AskPos("pos")
ClearLog == AskPos("clear")

(* drbcc_put_log, whether or not a session is active                       *)
PutLog ==
    /\ opened < MaxSessions
    /\ Open
    /\ state' = "USER"
    /\ prio' = Append(prio, "put")
    /\ UNCHANGED <<logVars, getVars, posVars, reads, tableVars, faults, historyVars>>

-----------------------------------------------------------------------------
(* The answers.                                                            *)

(* DRBCC_IND_PUT_LOG, after the controller has written the entry.          *)
PutLogAnswer ==
    /\ prio # <<>> /\ Head(prio) = "put"
    /\ ~InEntry
    /\ WriteCell
    /\ prio' = Tail(prio)
    /\ session' = 0
    /\ UNCHANGED <<state, opened, getVars, posVars, reads, tableVars, faults, crossed, rebased,
                   leftover>>

(* DRBCC_IND_RINGLOG_POS: the position, with the block counted from the    *)
(* start of the flash, is taken over in every state; a get_log asks for    *)
(* the table (libdrbcc_logpos_cb).                                         *)
PosAnswer ==
    /\ prio # <<>> /\ Head(prio) \in {"pos", "clear"}
    /\ prio' = Tail(prio)
    /\ IF Head(prio) = "clear"
         THEN /\ cells' = [p \in CellPos |-> Empty]
              /\ wpos' = 0
              /\ wrapped' = FALSE
              /\ UNCHANGED <<lastId, part>>
         ELSE UNCHANGED logVars
    /\ curr' = Base + wpos'
    /\ wrapflag' = wrapped'
    /\ disturbed' = FALSE
    /\ IF state = "USER"
         THEN session' = 0 /\ UNCHANGED reads
         ELSE reads' = Append(reads, Table) /\ UNCHANGED session
    /\ UNCHANGED <<state, opened, getVars, area, tableVars, faults, crossed, rebased, leftover>>

(* The area that the table gives for the log, in blocks.                   *)
FirstBlock(a) == IF a = "ring" THEN AreaStart ELSE PersStart
AreaBlocks(a) == IF a = "ring" THEN Blocks ELSE PersBlocks

(* curr_log_pos, of curFileIndex and logentry                              *)
LogPos(c) == c % AddrCells
NextBlock(blocks, c) == (((c \div BlockCells) + 1) % Word) % blocks

(* Mutant: the start of a wrapped log is taken as it is asked for.         *)
StartWrapAsAsked(from, blocks, c) == from

(* calculate_start_addr_wrap: what lies between the position and the next  *)
(* block is erased.                                                        *)
StartWrap(from, blocks, c) ==
    LET next == NextBlock(blocks, c) * BlockCells
    IN IF from < LogPos(c) THEN from
       ELSE IF next = 0 THEN 0
       ELSE IF next < from THEN from
       ELSE next

(* All of an area is asked for.                                            *)
All(blocks) == entries >= blocks * BlockCells \/ -entries >= blocks * BlockCells

(* Mutant: more cells than the log holds are taken back.                   *)
FromLastUnchecked(last, pos) == pos - last

(* The last cells of a log that has not wrapped.                           *)
FromLast(last, pos) == IF last >= pos THEN 0 ELSE pos - last

(* The first cell that the request asks for, in a log up to c.             *)
StartFor(blocks, c) ==
    LET last == 0 - entries
        pos == LogPos(c)
    IN IF ~wrapflag
         THEN IF All(blocks) THEN start
              ELSE IF entries < 0 THEN FromLast(last, pos)
              ELSE IF entries >= pos THEN 0 ELSE entries
         ELSE IF All(blocks) THEN NextBlock(blocks, c) * BlockCells
              ELSE IF entries >= 0 THEN StartWrap(entries, blocks, c)
              ELSE IF last > pos
                THEN StartWrap(((blocks * BlockCells) - 1) - (last - pos), blocks, c)
              ELSE StartWrap(pos - last, blocks, c)

(* start_addr, from which the first chunk is read                          *)
ReadFrom(blocks, c) == IF ~wrapflag /\ All(blocks) THEN 0 ELSE StartFor(blocks, c)

-----------------------------------------------------------------------------
(* libdrbcc_readflash_cb                                                   *)

(* A table without magic, for the first time: the backup is asked for.     *)
ReadNoMagic ==
    /\ reads # <<>> /\ Head(reads) = Table
    /\ tab0 = "none" /\ ~retry
    /\ retry' = TRUE
    /\ reads' = Append(Tail(reads), Backup)
    /\ UNCHANGED <<logVars, state, session, opened, getVars, posVars, prio, tab0, tab1, faults,
                   historyVars>>

(* The backup has one: block 0 is restored from it, and read again.        *)
ReadBackup ==
    /\ reads # <<>> /\ Head(reads) = Backup
    /\ tab1 # "none"
    /\ reads' = Tail(reads) \o <<EraseTable, WriteTable, Table>>
    /\ UNCHANGED <<logVars, state, session, opened, getVars, posVars, prio, tableVars, faults,
                   historyVars>>

(* The result of the erase ends a session in DRBCC_STATE_USER.             *)
EraseResult ==
    /\ reads # <<>> /\ Head(reads) = EraseTable
    /\ reads' = Tail(reads)
    /\ tab0' = "none"
    /\ session' = IF state = "USER" THEN 0 ELSE session
    /\ UNCHANGED <<logVars, state, opened, getVars, posVars, prio, tab1, retry, faults,
                   historyVars>>

(* The result of the write finds no handler (libdrbcc_writeflash_cb),      *)
(* whatever it is: the session ends, also that of a get_log, which reads   *)
(* on without one.                                                         *)
WriteResult ==
    /\ reads # <<>> /\ Head(reads) = WriteTable
    /\ reads' = Tail(reads)
    /\ tab0' \in {tab0, tab1}
    /\ session' = 0
    /\ UNCHANGED <<logVars, state, opened, getVars, posVars, prio, tab1, retry, faults,
                   historyVars>>

(* Every other read goes to the handler of the state.                      *)
Handled ==
    /\ reads # <<>> /\ Head(reads) \in Reads
    /\ ~(Head(reads) = Table /\ tab0 = "none" /\ ~retry)
    /\ ~(Head(reads) = Backup /\ tab1 # "none")
    /\ retry' = FALSE

(* What a read of the table finds.  A backup without magic is treated as a *)
(* table (with an error_cb, as the applications have one).                 *)
TableIn(r) == IF r = Table THEN tab0 ELSE tab1

(* libdrbcc_get_log, for the table: the position, an absolute one as the   *)
(* code takes it, is counted from the start of the area, and the read      *)
(* starts at a chunk.                                                      *)
GetLogTable ==
    LET a == IF logtype THEN "ring" ELSE "pers"
        c == (curr - (FirstBlock(a) * BlockCells)) % (Word * BlockCells)
        chunk == ReadFrom(AreaBlocks(a), c) \div ChunkCells
    IN /\ Handled
       /\ state = "GET_LOG"
       /\ Head(reads) \in {Table, Backup} /\ TableIn(Head(reads)) = "log"
       /\ area' = a
       /\ curr' = c
       /\ start' = StartFor(AreaBlocks(a), c)
       /\ reads' = Append(Tail(reads), ((FirstBlock(a) * BlockChunks) + chunk) % FlashChunks)
       /\ UNCHANGED <<logVars, state, session, opened, entries, logtype, logdata, delivered,
                      wrapflag, prio, tab0, tab1, faults, historyVars>>

(* The table has no magic, or no entry for the log.                        *)
GetLogNoTable ==
    /\ Handled
    /\ state = "GET_LOG"
    /\ Head(reads) \in {Table, Backup} /\ TableIn(Head(reads)) # "log"
    /\ state' = "USER"
    /\ session' = 0
    /\ reads' = Tail(reads)
    /\ UNCHANGED <<logVars, opened, getVars, posVars, prio, tab0, tab1, faults, historyVars>>

(* Mutant: the log is taken for one that has not wrapped.                  *)
LeftOutUnwrapped(p) == p < start

(* handle_logentry: which entries are left out.                            *)
LeftOut(p) == IF ~wrapflag \/ LogPos(curr) > start THEN p < start
              ELSE LogPos(curr) < p /\ p < start

Deliver(out, p, parts) ==
    IF LeftOut(p) THEN out ELSE Append(out, [pos |-> p, parts |-> parts])

(* Mutant: the position is taken for the last entry.                       *)
StopsBefore(p) == p + 1 = LogPos(curr)

(* An empty cell ends the log at the position, not elsewhere.              *)
StopsAt(p) == p = LogPos(curr)

(* The loop of libdrbcc_get_log over the cells of a chunk, for the cell at *)
(* p: it stops at the empty cell at the position.                          *)
ScanCell(acc, p) ==
    LET c == cells[p]
        ld == acc.logdata
    IN IF acc.stop THEN acc
       ELSE IF IsEmpty(c) THEN [acc EXCEPT !.stop = StopsAt(p)]
       ELSE IF IsLong(c)
         THEN [acc EXCEPT !.logdata = [pos |-> p, parts |-> <<c>>, rest |-> c.parts]]
       ELSE IF ~IsExtension(c) \/ ld = None
         THEN [acc EXCEPT !.out = Deliver(@, p, <<c>>)]
       ELSE IF ld.rest > 1
         THEN [acc EXCEPT !.logdata = [pos |-> ld.pos, parts |-> Append(ld.parts, c),
                                       rest |-> ld.rest - 1]]
       ELSE [acc EXCEPT !.logdata = None,
                        !.out = Deliver(@, ld.pos, Append(ld.parts, c))]

ScanUpTo(chunk) ==
    LET scan[i \in 0..ChunkCells] ==
          IF i = 0 THEN [logdata |-> logdata, out |-> delivered, stop |-> FALSE]
          ELSE ScanCell(scan[i - 1], ((chunk * ChunkCells) + i) - 1)
    IN scan

Scan(chunk) == ScanUpTo(chunk)[ChunkCells]

(* The position is the first cell behind the chunk.                        *)
AtEnd(chunk) == (chunk + 1) * ChunkCells = LogPos(curr)

(* Mutant: the end of the ring is not taken into account.                  *)
NextReadBehind(r) == (r + 1) % FlashChunks

(* The read behind r: the first chunk of the area behind its last one.     *)
NextRead(r) ==
    IF r + 1 = (FirstBlock(area) + AreaBlocks(area)) * BlockChunks
      THEN FirstBlock(area) * BlockChunks
      ELSE (r + 1) % FlashChunks

(* The session ends.                                                       *)
EndRead == state' = "USER" /\ session' = 0 /\ reads' = Tail(reads)
ReadOn == reads' = Append(Tail(reads), NextRead(Head(reads))) /\ UNCHANGED <<state, session>>

(* libdrbcc_get_log, for a chunk of the ring log: the session ends or the  *)
(* next chunk is asked for, in ring order.                                 *)
GetLogChunk ==
    LET chunk == Head(reads) - AreaFirst
        s == Scan(chunk)
    IN /\ Handled
       /\ state = "GET_LOG"
       /\ area = "ring" /\ Head(reads) \in AreaReads
       /\ logdata' = s.logdata
       /\ delivered' = IF disturbed \/ crossed \/ leftover THEN <<>> ELSE s.out
       /\ IF s.stop \/ AtEnd(chunk) THEN EndRead ELSE ReadOn
       /\ UNCHANGED <<logVars, opened, entries, logtype, start, posVars, prio, tab0, tab1, faults,
                      historyVars>>

(* For any other chunk of the flash: what is in it is not known, so that   *)
(* the cell at the position may be empty, and a part of an entry may be    *)
(* left.                                                                   *)
GetLogForeign ==
    LET r == Head(reads)
        end == ((FirstBlock(area) * BlockCells) + LogPos(curr)) % AddrCells
        first == r * ChunkCells
    IN /\ Handled
       /\ state = "GET_LOG"
       /\ r \notin {Table, Backup} /\ ~(area = "ring" /\ r \in AreaReads)
       /\ logdata' \in {None, [pos |-> 0, parts |-> <<>>, rest |-> ExtCells]}
       /\ delivered' = <<>>
       /\ \/ end \in first..(first + ChunkCells) /\ EndRead
          \/ end # first + ChunkCells /\ ReadOn
       /\ UNCHANGED <<logVars, opened, entries, logtype, start, posVars, prio, tab0, tab1, faults,
                      historyVars>>

(* A read that is answered in DRBCC_STATE_USER: "No handler for read flash *)
(* callback" ends whatever session there is.                               *)
StrayRead ==
    /\ Handled
    /\ state = "USER"
    /\ session' = 0
    /\ reads' = Tail(reads)
    /\ UNCHANGED <<logVars, state, opened, getVars, posVars, prio, tab0, tab1, faults,
                   historyVars>>

-----------------------------------------------------------------------------
(* The link.                                                               *)

(* A message of the controller is repeated: the session ends.              *)
ToggleError ==
    /\ faults < MaxFaults
    /\ session # 0
    /\ faults' = faults + 1
    /\ state' = "USER"
    /\ session' = 0
    /\ UNCHANGED <<logVars, opened, getVars, posVars, reqVars, tableVars, historyVars>>

(* An unsolicited DRBCC_IND_STATUS ends it and leaves the state; so does a *)
(* request that is given up after the controller has taken it, which       *)
(* answers it all the same.                                                *)
StatusEnds ==
    /\ faults < MaxFaults
    /\ session # 0
    /\ faults' = faults + 1
    /\ session' = 0
    /\ UNCHANGED <<logVars, state, opened, getVars, posVars, reqVars, tableVars, historyVars>>

(* A request that no message of reached the controller is given up.        *)
GiveUp ==
    /\ faults < MaxFaults
    /\ faults' = faults + 1
    /\ \/ prio # <<>> /\ prio' = Tail(prio) /\ UNCHANGED reads
       \/ reads # <<>> /\ reads' = Tail(reads) /\ UNCHANGED prio
    /\ session' = 0
    /\ UNCHANGED <<logVars, state, opened, getVars, posVars, tableVars, historyVars>>

-----------------------------------------------------------------------------
Request == \/ \E n \in Entries : GetLog(TRUE, n)
           \/ GetLog(FALSE, 0)
           \/ GetPos \/ ClearLog \/ PutLog

ReadAnswer == \/ ReadNoMagic \/ ReadBackup \/ EraseResult \/ WriteResult
              \/ GetLogTable \/ GetLogNoTable \/ GetLogChunk \/ GetLogForeign \/ StrayRead

Answer == ReadAnswer \/ PosAnswer \/ PutLogAnswer

LinkFault == ToggleError \/ StatusEnds \/ GiveUp

Next == Request \/ Answer \/ LinkFault \/ LogEvent \/ RestartController

Spec == Init /\ [][Next]_vars

(* The controller answers, and completes an entry that it has begun.       *)
Fairness ==
    /\ WF_vars(ReadAnswer)
    /\ WF_vars(PosAnswer)
    /\ WF_vars(PutLogAnswer)
    /\ WF_vars(InEntry /\ LogEvent)

FairSpec == Spec /\ Fairness

-----------------------------------------------------------------------------
CellType == [id : Nat, part : 0..ExtCells, parts : 0..ExtCells]

TableType == {"none", "files", "log"}

(* The type invariant: what the unsigned variables and the addresses of    *)
(* the messages can hold.                                                  *)
TypeOK ==
    /\ cells \in [CellPos -> CellType]
    /\ wpos \in CellPos
    /\ wrapped \in BOOLEAN
    /\ lastId \in Nat
    /\ part \in 0..ExtCells
    /\ state \in {"USER", "GET_LOG"}
    /\ session \in 0..MaxSessions
    /\ opened \in 0..MaxSessions
    /\ entries \in Entries \cup {0}
    /\ logtype \in BOOLEAN
    /\ area \in {"ring", "pers"}
    /\ curr \in Positions
    /\ wrapflag \in BOOLEAN
    /\ start \in 0..(AddrCells - 1)
    /\ logdata \in [pos : CellPos, parts : Seq(CellType), rest : 0..ExtCells]
    /\ delivered \in Seq([pos : CellPos, parts : Seq(CellType)])
    /\ prio \in Seq({"pos", "clear", "put"})
    /\ reads \in Seq(Reads \cup {EraseTable, WriteTable})
    /\ tab0 \in TableType
    /\ tab1 \in TableType
    /\ retry \in BOOLEAN
    /\ faults \in 0..MaxFaults
    /\ disturbed \in BOOLEAN
    /\ crossed \in BOOLEAN
    /\ rebased \in BOOLEAN
    /\ leftover \in BOOLEAN

(* A get_log reads nothing but the two table blocks and the ring log, and  *)
(* starts at a cell of it: after ended sessions and given-up requests, with *)
(* chunks of earlier sessions still coming, a table restored on the way,   *)
(* and whatever the ring log does.  One thing is excluded (rebased), since *)
(* the code does not keep it: that a get_log begins while the position or  *)
(* the table of an earlier request is still on its way.  The table is then *)
(* handled twice, or before the position has come, and the subtraction at  *)
(* "cur pos in drbcc->curFileIndex as abs block number" wraps around.      *)
ReadsInArea ==
    ~rebased => /\ \A i \in DOMAIN reads :
                      reads[i] \in AreaReads \cup {Table, Backup, EraseTable, WriteTable}
                /\ start \in CellPos
                /\ area = "ring"

(* The position that lies n cells behind p in ring order, and how far q    *)
(* lies behind p.                                                          *)
Behind(p, n) == (p + n) % NumCells
Distance(p, q) == ((q - p) + NumCells) % NumCells

(* The oldest cell of a log up to pos, and how many cells it holds.        *)
Oldest(pos) == IF wrapflag THEN (((pos \div BlockCells) + 1) % Blocks) * BlockCells ELSE 0
Available(pos) == Distance(Oldest(pos), pos)

AtMost(n, bound) == IF n < bound THEN n ELSE bound

(* For -x, the cells that libdrbcc_get_log goes back: x, but one more when *)
(* that leads it back over the end of the ring ("-1, because pos is an     *)
(* index"), against the help text of the tool, "I<0: last I entries".      *)
CellsBack(pos) == IF wrapflag /\ -entries > pos THEN 1 - entries ELSE -entries

(* Where libdrbcc_get_log starts to read, by its "entries": at the oldest  *)
(* cell for a number as large as the area, at cell x for a number x that   *)
(* is in the log, and for -x exactly CellsBack cells before the position,  *)
(* or at the oldest cell when the log does not hold so many.  So no cell   *)
(* that was asked for is left out, at every place of the ring end, of the  *)
(* position and of its block, and one too many is read only there.         *)
StartsWhereAsked ==
    [][ GetLogTable /\ ~rebased =>
          LET n == Distance(start', curr')
              held == Available(curr')
          IN /\ n <= held
             /\ (entries >= NumCells \/ -entries >= NumCells) => n = held
             /\ (entries < 0 /\ -entries < NumCells) => n = AtMost(CellsBack(curr'), held)
             /\ (entries \in CellPos /\ Distance(Oldest(curr'), entries) < held)
                   => start' = entries
      ]_vars

(* A complete entry is in the log at p when all its cells follow p.        *)
CompleteAt(p) ==
    /\ ~IsEmpty(cells[p])
    /\ cells[p].part = 0
    /\ \A k \in 1..cells[p].parts : cells[Behind(p, k)] = Cell(cells[p].id, k)

EntryAt(p) == [pos |-> p, parts |-> [k \in 1..(cells[p].parts + 1) |-> cells[Behind(p, k - 1)]]]

(* The positions of the complete entries from start to the position.       *)
InRange(p) == Distance(start, p) < Distance(start, LogPos(curr))
Whole == {EntryAt(p) : p \in {q \in CellPos : InRange(q) /\ CompleteAt(q)}}

(* A get_log that reads to the end of its log has delivered every complete *)
(* entry from start to the position, and whatever it delivered came in     *)
(* ring order, from that range, once each; what is not a complete entry is *)
(* a lone extension cell.  That holds too when the session has ended       *)
(* before (WriteResult, StatusEnds, GiveUp) and the reading went on.       *)
(* Excluded are a log that was written or cleared since its position was   *)
(* reported, a get_log that met requests of an earlier one, and one that   *)
(* began with a part of an entry that an earlier one had not completed.    *)
LogComplete ==
    [][ (GetLogChunk /\ state' = "USER" /\ logtype /\ ~disturbed /\ ~crossed /\ ~leftover) =>
          LET out == delivered'
              range == {out[i] : i \in DOMAIN out}
          IN /\ Whole \subseteq range
             /\ \A i \in DOMAIN out : \/ out[i] \in Whole
                                      \/ Len(out[i].parts) = 1 /\ IsExtension(out[i].parts[1])
             /\ \A i, j \in DOMAIN out :
                   i < j => Distance(start, out[i].pos) < Distance(start, out[j].pos)
      ]_vars

(* Every session ends: that of a get_log at the position or because there  *)
(* is no table, wherever the ring end lies, the others with their answer.  *)
(* Three things excuse one: the log was written or cleared since its       *)
(* position was reported (the cell there is no longer empty), a get_log    *)
(* met requests of an earlier one, or it is a get_log of the persistent    *)
(* log, which asks the controller for nothing.                             *)
SessionEnds ==
    \A n \in 1..MaxSessions :
        (session = n) ~> \/ session # n
                         \/ disturbed \/ crossed
                         \/ state = "GET_LOG" /\ ~logtype
=============================================================================
