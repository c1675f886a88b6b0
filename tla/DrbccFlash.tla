----------------------------- MODULE DrbccFlash -----------------------------
(***************************************************************************)
(* Files in the external flash (lib/drbcc_files.c): drbcc_put_file,        *)
(* drbcc_delete_file, drbcc_get_file and drbcc_get_partitiontable queue    *)
(* flash requests in the second queue; each result that comes back calls   *)
(* libdrbcc_readflash_cb, libdrbcc_writeflash_cb or the erase branch of    *)
(* libdrbcc_proc_msg, which act on the current state of the handle and     *)
(* queue the next requests.  The table is kept in block 0 and, as a        *)
(* backup, in block 1.                                                     *)
(*                                                                         *)
(* The link delivers requests and results in order (see DrbccLink); the    *)
(* board controller executes them one by one (external).  A crash is a     *)
(* power failure or the end of the host process: what was not executed is  *)
(* lost.  The chunks of one block are one read or one write.               *)
(***************************************************************************)
EXTENDS DrbccTable, Sequences

CONSTANTS
    Sizes,          \* file sizes, in blocks
    Api,            \* the kinds of request that the application makes
    MaxOps,         \* bound: requests of the application
    ResultCap,      \* results under way: 2 when the answer timer expires early
    Faults,         \* the faults that may happen
    MaxFaults       \* bound: number of faults

ApiKinds == {"part", "delete", "deleteindex", "get", "getindex", "put", "log"}
FaultKinds == {"crash", "tear", "badwrite", "hostfile", "toggle"}

ASSUME FlashAssumption ==
    /\ Sizes \subseteq Nat \ {0}
    /\ Api \subseteq ApiKinds
    /\ MaxOps \in Nat
    /\ ResultCap \in Nat \ {0}
    /\ Faults \subseteq FaultKinds
    /\ MaxFaults \in Nat

(* A table block: erased (no magic), or a table whose CRC is right or not. *)
Blank == [magic |-> FALSE, crc |-> FALSE, entries |-> [i \in Slot |-> EmptyEntry]]
Valid(t) == [magic |-> TRUE, crc |-> TRUE, entries |-> t]
TableBlock == [magic : BOOLEAN, crc : BOOLEAN, entries : Table]

(* Flash requests.  A data block's content is <<version, position>>, with  *)
(* <<0, 0>> for an erased one.                                             *)
NoData == <<0, 0>>
EraseReq(b) == [op |-> "erase", block |-> b, table |-> Blank, content |-> NoData]
ReadReq(b) == [op |-> "read", block |-> b, table |-> Blank, content |-> NoData]
TableReq(b, t) == [op |-> "table", block |-> b, table |-> t, content |-> NoData]
DataReq(b, c) == [op |-> "data", block |-> b, table |-> Blank, content |-> c]

(* The block that stands for the address of a read of no bytes, which is   *)
(* neither that of a table nor of data: what libdrbcc_req_flash_read asks  *)
(* for when flashLen is 0.                                                 *)
NoBytes == 2

VARIABLES
    table,          \* table[0], table[1]: block 0 and its backup, block 1
    data,           \* data[b]: content of data block b
    queue,          \* secQueue: the requests not yet executed
    results,        \* results on their way to the host
    state,          \* state of the handle
    session,        \* session: 0, or the number of the request
    cur,            \* curFileType, curFileIndex, maxFilelength, content
    curFilelength,  \* curFilelength, in blocks
    curFilestart,   \* curFilestart, as a block
    flashAddr,      \* flashAddr, as a block: 0 when flashLen is 0
    logRequest,     \* DRBCC_REQ_PUT_LOG is in the first queue
    retry,          \* the static variable of libdrbcc_readflash_cb
    hostFile,       \* hostFile[k]: block k of the file that get_file writes
    ops,            \* requests made
    faults,         \* faults so far
    \* history
    formatted,      \* a table has been written since the flash was blank
    damaged,        \* a table write has failed or was cut off by a power failure
    overlap,        \* what was under way when a request began: "none" of an
                    \* earlier one, its "rest", or its table "read"
    asked,          \* puts and deletes that the application asked for
    begun,          \* contents that a put has begun to store
    touched,        \* contents that a put began to replace or to store again,
                    \* or could not store
    reported        \* what session_cb last said, and of which request

hostVars == <<state, session, cur, curFilelength, curFilestart, flashAddr, logRequest,
              retry, hostFile>>
historyVars == <<formatted, damaged, overlap, asked, begun, touched, reported>>
vars == <<table, data, queue, results, hostVars, ops, faults, historyVars>>

(* cur.name is the type and number of a file, cur.index an index into the  *)
(* table, or 0 when the file is given by its name.                         *)
NoFile == [name |-> NoName, index |-> 0, size |-> 0, ver |-> 0]
NotReported == [kind |-> "none", name |-> NoName, ver |-> 0]
States == {"USER", "PARTITION_REQ", "DELETE_FILE", "GET_FILE", "PUT_FILE"}

(* The table that libdrbcc_readflash_cb works with.                        *)
Effective == IF table[0].magic THEN table[0] ELSE table[1]

(* A flash that was never used, or one with a fresh table.                 *)
Init ==
    /\ formatted \in BOOLEAN
    /\ table = [b \in {0, 1} |-> IF formatted THEN Valid(FreshTable) ELSE Blank]
    /\ data = [b \in DataBlocks |-> NoData]
    /\ queue = <<>>
    /\ results = <<>>
    /\ state = "USER"
    /\ session = 0
    /\ cur = NoFile
    /\ curFilelength = 0
    /\ curFilestart = 0
    /\ flashAddr = 0
    /\ logRequest = FALSE
    /\ retry = FALSE
    /\ hostFile = <<>>
    /\ ops = 0
    /\ faults = 0
    /\ damaged = FALSE
    /\ overlap = "none"
    /\ asked = {}
    /\ begun = {}
    /\ touched = {}
    /\ reported = NotReported

-----------------------------------------------------------------------------
(* The requests of the application: refused while a session is active.     *)
(* Each first reads the table (libdrbcc_request_partition).                *)

TableReadPending ==
    \/ \E i \in DOMAIN queue : queue[i].op = "read" /\ queue[i].block \in {0, 1}
    \/ \E i \in DOMAIN results : results[i].op = "read" /\ results[i].block \in {0, 1}

Begin(kind, newState) ==
    /\ kind \in Api
    /\ session = 0
    /\ ops < MaxOps
    /\ ops' = ops + 1
    /\ session' = ops + 1
    /\ state' = newState
    /\ queue' = Append(queue, ReadReq(0))
    /\ flashAddr' = 0
    /\ reported' = NotReported
    /\ overlap' = IF overlap = "read" \/ TableReadPending THEN "read"
                  ELSE IF overlap = "rest" \/ queue # <<>> \/ results # <<>> THEN "rest" ELSE "none"

(* drbcc_get_partitiontable *)
GetPartitiontable ==
    /\ Begin("part", "PARTITION_REQ")
    /\ UNCHANGED <<table, data, results, cur, curFilelength, curFilestart, logRequest, retry,
                   hostFile, faults, formatted, damaged, begun, touched, asked>>

(* Mutant: the index of the entry is counted from one.                     *)
DeleteFileOffByOne(n, index) ==
    /\ Begin(IF index = 0 THEN "delete" ELSE "deleteindex", "DELETE_FILE")
    /\ cur' = [cur EXCEPT !.name = IF index = 0 THEN n ELSE @,
                          !.index = IF index = 0 THEN 0 ELSE index + 1]
    /\ asked' = asked \cup {[op |-> "delete", name |-> n, ver |-> 0]}
    /\ UNCHANGED <<table, data, results, curFilelength, curFilestart, logRequest, retry,
                   hostFile, faults, formatted, damaged, begun, touched>>

(* drbcc_delete_file_type, and drbcc_delete_file with a table index        *)
DeleteFile(n, index) ==
    /\ Begin(IF index = 0 THEN "delete" ELSE "deleteindex", "DELETE_FILE")
    /\ cur' = [cur EXCEPT !.name = IF index = 0 THEN n ELSE @, !.index = index]
    /\ asked' = asked \cup {[op |-> "delete", name |-> n, ver |-> 0]}
    /\ UNCHANGED <<table, data, results, curFilelength, curFilestart, logRequest, retry,
                   hostFile, faults, formatted, damaged, begun, touched>>

(* drbcc_get_file_type, and drbcc_get_file with a table index: truncates   *)
(* the file of the host.                                                   *)
GetFile(n, index) ==
    /\ Begin(IF index = 0 THEN "get" ELSE "getindex", "GET_FILE")
    /\ cur' = [cur EXCEPT !.name = IF index = 0 THEN n ELSE @, !.index = index]
    /\ hostFile' = <<>>
    /\ UNCHANGED <<table, data, results, curFilelength, curFilestart, logRequest, retry,
                   faults, formatted, damaged, begun, touched, asked>>

(* Mutant: the length written so far is not reset.                         *)
PutFileKeepsLength(n, size) ==
    /\ Begin("put", "PUT_FILE")
    /\ cur' = [name |-> n, index |-> 0, size |-> size, ver |-> ops + 1]
    /\ asked' = asked \cup {[op |-> "put", name |-> n, ver |-> ops + 1]}
    /\ UNCHANGED <<table, data, results, curFilelength, curFilestart, logRequest, retry,
                   hostFile, faults, formatted, damaged, begun, touched>>

(* drbcc_put_file, drbcc_put_file_type, drbcc_upload_firmware,             *)
(* drbcc_upload_bootloader                                                 *)
PutFile(n, size) ==
    /\ Begin("put", "PUT_FILE")
    /\ cur' = [name |-> n, index |-> 0, size |-> size, ver |-> ops + 1]
    /\ curFilelength' = 0
    /\ asked' = asked \cup {[op |-> "put", name |-> n, ver |-> ops + 1]}
    /\ UNCHANGED <<table, data, results, curFilestart, logRequest, retry, hostFile,
                   faults, formatted, damaged, begun, touched>>

(* drbcc_put_log: it does not ask for an active session, and replaces it.  *)
PutLog ==
    /\ "log" \in Api
    /\ ~logRequest
    /\ ops < MaxOps
    /\ ops' = ops + 1
    /\ session' = ops + 1
    /\ state' = "USER"
    /\ logRequest' = TRUE
    /\ reported' = NotReported
    /\ UNCHANGED <<table, data, queue, results, cur, curFilelength, curFilestart, flashAddr,
                   retry, hostFile, faults, formatted, damaged, overlap, asked, begun,
                   touched>>

-----------------------------------------------------------------------------
(* The board controller executes the next request (external).              *)

Result(r, ok) == [op |-> r.op, block |-> r.block, ok |-> ok,
                  table |-> IF r.op = "read" /\ r.block \in {0, 1} THEN table[r.block] ELSE Blank,
                  content |-> IF r.op = "read" /\ r.block \in DataBlocks
                                THEN data[r.block] ELSE NoData]

(* The effect of a request on the flash.                                   *)
Apply(r) ==
    /\ table' = IF r.op = "erase" /\ r.block \in {0, 1} THEN [table EXCEPT ![r.block] = Blank]
                ELSE IF r.op = "table" THEN [table EXCEPT ![r.block] = r.table]
                ELSE table
    /\ data' = IF r.op = "erase" /\ r.block \in DataBlocks THEN [data EXCEPT ![r.block] = NoData]
               ELSE IF r.op = "data" THEN [data EXCEPT ![r.block] = r.content]
               ELSE data

Execute ==
    /\ queue # <<>>
    /\ Len(results) < ResultCap
    /\ Apply(Head(queue))
    /\ queue' = Tail(queue)
    /\ results' = Append(results, Result(Head(queue), TRUE))
    /\ formatted' = (formatted \/ (Head(queue).op = "table" /\ Head(queue).block = 0))
    /\ UNCHANGED <<hostVars, ops, faults, damaged, overlap, asked, begun, touched, reported>>

(* The log entry: the first queue does not wait for the second.            *)
ExecuteLog ==
    /\ logRequest
    /\ Len(results) < ResultCap
    /\ logRequest' = FALSE
    /\ results' = Append(results, [op |-> "log", block |-> 0, ok |-> TRUE, table |-> Blank,
                                   content |-> NoData])
    /\ UNCHANGED <<table, data, queue, state, session, cur, curFilelength, curFilestart,
                   flashAddr, retry, hostFile, ops, faults, historyVars>>

(* A write that fails: the block stays as it is, the result says so.       *)
BadWrite ==
    /\ "badwrite" \in Faults
    /\ faults < MaxFaults
    /\ queue # <<>>
    /\ Len(results) < ResultCap
    /\ Head(queue).op \in {"table", "data"}
    /\ queue' = Tail(queue)
    /\ results' = Append(results, Result(Head(queue), FALSE))
    /\ faults' = faults + 1
    /\ touched' = touched \cup {Head(queue).content[1]}
    /\ damaged' = (damaged \/ Head(queue).op = "table")
    /\ UNCHANGED <<table, data, hostVars, ops, formatted, overlap, asked, begun, reported>>

(* The state that a new process starts with.                               *)
Restart ==
    /\ queue' = <<>>
    /\ results' = <<>>
    /\ state' = "USER"
    /\ session' = 0
    /\ cur' = NoFile
    /\ curFilelength' = 0
    /\ curFilestart' = 0
    /\ flashAddr' = 0
    /\ logRequest' = FALSE
    /\ retry' = FALSE
    /\ hostFile' = <<>>
    /\ reported' = NotReported
    /\ faults' = faults + 1
    /\ UNCHANGED ops

Crash ==
    /\ "crash" \in Faults
    /\ faults < MaxFaults
    /\ Restart
    /\ UNCHANGED <<table, data, formatted, damaged, overlap, asked, begun, touched>>

(* Power fails while a table is written: the magic and the first entries   *)
(* are programmed, the rest is still erased.                               *)
CrashInWrite ==
    /\ "tear" \in Faults
    /\ faults < MaxFaults
    /\ queue # <<>>
    /\ Head(queue).op = "table"
    /\ \E k \in 0..(Slots - 1) :
          table' = [table EXCEPT ![Head(queue).block] =
                      [magic |-> TRUE, crc |-> FALSE,
                       entries |-> [i \in Slot |-> IF i <= k THEN Head(queue).table.entries[i]
                                                             ELSE EmptyEntry]]]
    /\ Restart
    /\ damaged' = TRUE
    /\ UNCHANGED <<data, formatted, overlap, asked, begun, touched>>

-----------------------------------------------------------------------------
(* The host handles the next result.                                       *)

(* session_cb (the session may be 0: the calls do not test it), session=0. *)
Close(kind) ==
    /\ session' = 0
    /\ reported' = [kind |-> kind, name |-> cur.name, ver |-> cur.ver]

(* Mutant: the table is replaced in place, the backup follows.             *)
StoreTableInPlace(t) == <<EraseReq(0), TableReq(0, t), EraseReq(1), TableReq(1, t)>>

(* The new table goes to the backup first, then to block 0.                *)
StoreTable(t) == <<EraseReq(1), TableReq(1, t), EraseReq(0), TableReq(0, t)>>

Unchanged == UNCHANGED <<table, data, logRequest, ops, faults, formatted, damaged, overlap,
                          asked>>

(* A message of the controller comes a second time, its ack being lost:    *)
(* the toggle bit is wrong, and libdrbcc_receive ends the session that is  *)
(* active and leaves the state of the operation.  Its requests stay queued.*)
(* The link has two more ways to end a session, a given-up request and an  *)
(* unsolicited status; they are in DrbccSession and DrbccLog.              *)
ToggleError ==
    /\ "toggle" \in Faults
    /\ faults < MaxFaults
    /\ faults' = faults + 1
    /\ state' = "USER"
    /\ IF session # 0 THEN Close("failed") ELSE UNCHANGED <<session, reported>>
    /\ UNCHANGED <<table, data, queue, results, cur, curFilelength, curFilestart, flashAddr,
                   logRequest, retry, hostFile, ops, formatted, damaged, overlap, asked,
                   begun, touched>>

(* libdrbcc_got_partition *)
GotPartition(blk, t) ==
    \/ /\ blk # 0
       /\ Close("failed")
       /\ UNCHANGED <<queue, state, flashAddr>>
    \/ /\ blk = 0
       /\ ~t.magic
       /\ queue' = queue \o StoreTable(Valid(FreshTable)) \o <<ReadReq(0)>>
       /\ flashAddr' = 0
       /\ UNCHANGED <<state, session, reported>>
    \/ /\ blk = 0
       /\ t.magic
       /\ state' = "USER"
       /\ Close("listed")
       /\ UNCHANGED <<queue, flashAddr>>

SelectedEntry(t) == Selected(t, cur.index, cur.name)

(* Mutant: only the backup gets the new table.                             *)
DeleteFromBackup(blk, t) ==
    \/ /\ blk # 0 \/ ~t.magic
       /\ Close("failed")
       /\ UNCHANGED <<queue, state>>
    \/ /\ blk = 0
       /\ t.magic
       /\ queue' = queue \o <<EraseReq(1), TableReq(1, Valid(Deleted(t.entries,
                                                            SelectedEntry(t.entries))))>>
       /\ UNCHANGED <<state, session, reported>>

(* libdrbcc_delete: a broken CRC is only reported.                         *)
Delete(blk, t) ==
    \/ /\ blk # 0 \/ ~t.magic
       /\ Close("failed")
       /\ UNCHANGED <<queue, state>>
    \/ /\ blk = 0
       /\ t.magic
       /\ queue' = queue \o StoreTable(Valid(Deleted(t.entries, SelectedEntry(t.entries))))
       /\ UNCHANGED <<state, session, reported>>

(* libdrbcc_get_file, for the table: the entry is looked up and read.      *)
GetFileTable(t) ==
    \/ /\ ~t.magic
       /\ Close("failed")
       /\ UNCHANGED <<queue, state, cur, curFilelength, curFilestart, flashAddr>>
    \/ /\ t.magic
       /\ \A i \in SelectedEntry(t.entries) : isEmpty(t.entries[i]) \/ t.entries[i].len = 0
       /\ Close("failed")
       /\ state' = "USER"
       /\ cur' = [cur EXCEPT !.size = IF cur.index # 0 THEN t.entries[cur.index].len ELSE @]
       /\ curFilelength' = IF cur.index # 0 THEN 0 ELSE curFilelength
       /\ UNCHANGED <<queue, curFilestart, flashAddr>>
    \/ /\ t.magic
       /\ \E i \in SelectedEntry(t.entries) :
             /\ ~isEmpty(t.entries[i])
             /\ t.entries[i].len > 0
             /\ queue' = Append(queue, ReadReq(t.entries[i].start))
             /\ cur' = [cur EXCEPT !.size = t.entries[i].len]
             /\ curFilestart' = t.entries[i].start
             /\ flashAddr' = IF t.entries[i].len = 1 THEN 0 ELSE t.entries[i].start + 1
       /\ curFilelength' = 0
       /\ UNCHANGED <<state, session, reported>>

(* Mutant: the last block is not waited for.                               *)
GetDoneEarly(len) == len + 1 >= cur.size

GetDone(len) == len = cur.size

(* libdrbcc_get_file, for data: the block goes to its place in the file of *)
(* the host, and the next one is requested until the file is complete.     *)
(* The result of an earlier get that was given up is handled the same way: *)
(* flashLen is then 0, and the next request asks for no bytes.             *)
GetFileData(blk, content) ==
    LET len == IF blk = NoBytes THEN curFilelength ELSE curFilelength + 1
    IN /\ hostFile' = IF blk # NoBytes /\ blk - curFilestart \in 0..Len(hostFile)
                        THEN [k \in 1..(IF blk - curFilestart = Len(hostFile)
                                          THEN Len(hostFile) + 1 ELSE Len(hostFile)) |->
                                IF k = (blk - curFilestart) + 1 THEN content ELSE hostFile[k]]
                        ELSE hostFile
       /\ curFilelength' = len
       /\ IF GetDone(len)
            THEN /\ state' = "USER"
                 /\ Close("got")
                 /\ UNCHANGED <<queue, flashAddr>>
            ELSE /\ queue' = Append(queue, ReadReq(IF flashAddr = 0 THEN NoBytes ELSE flashAddr))
                 /\ flashAddr' = IF flashAddr = 0 \/ flashAddr + 1 = curFilestart + cur.size
                                   THEN 0 ELSE flashAddr + 1
                 /\ UNCHANGED <<state, session, reported>>

(* The file of the host cannot be opened, positioned or written.           *)
GetHostFile(blk) ==
    /\ "hostfile" \in Faults
    /\ faults < MaxFaults
    /\ blk # 0
    /\ Close("failed")
    /\ faults' = faults + 1
    /\ UNCHANGED <<queue, state, curFilelength, flashAddr, hostFile>>

(* Mutant: the last block is erased and not written.                       *)
FileRequestsShort(start, size, ver) ==
    [k \in 1..((2 * size) - 1) |->
        IF k % 2 = 1 THEN EraseReq(start + (k \div 2))
                     ELSE DataReq(start + (k \div 2) - 1, <<ver, k \div 2>>)]

(* The data of a new file: every block is erased, then written.            *)
FileRequests(start, size, ver) ==
    [k \in 1..(2 * size) |->
        IF k % 2 = 1 THEN EraseReq(start + (k \div 2))
                     ELSE DataReq(start + (k \div 2) - 1, <<ver, k \div 2>>)]

(* libdrbcc_put_file: refused on a bad table or without room; otherwise    *)
(* all data is queued, then the new table.  The blocks of a file that is   *)
(* replaced count as free.                                                 *)
FileSlots(t) == SlotsFor(t, cur.name)
Placement(t) == StartFor(UsedBlocks(t, Matching(t, cur.name)), cur.size)

(* History: which contents this put may damage if it is interrupted.       *)
BeginStore(t) ==
    /\ touched' = touched \cup {t[i].ver : i \in Matching(t, cur.name)}
                          \cup (begun \cap {cur.ver})
    /\ begun' = begun \cup {cur.ver}

PutFails(blk, t) ==
    \/ /\ blk # 0 \/ ~t.magic
       /\ Close("failed")
       /\ UNCHANGED <<queue, state, begun, touched>>
    \/ /\ blk = 0
       /\ t.magic
       /\ FileSlots(t.entries) = {} \/ Placement(t.entries) = {}
       /\ Close("failed")
       /\ state' = "USER"
       /\ UNCHANGED <<queue, begun, touched>>

PutStores(blk, t) ==
    /\ blk = 0
    /\ t.magic
    /\ \E slot \in FileSlots(t.entries), start \in Placement(t.entries) :
          queue' = queue \o FileRequests(start, cur.size, cur.ver)
                         \o StoreTable(Valid(WithFile(t.entries, slot, cur.name, start,
                                                      cur.size, cur.ver)))
    /\ BeginStore(t.entries)
    /\ UNCHANGED <<state, session, reported>>

(* The file of the host can no longer be opened (nothing happens), or ends *)
(* early: what was queued stays queued, and session is not reset.          *)
PutHostFile(blk, t) ==
    /\ "hostfile" \in Faults
    /\ faults < MaxFaults
    /\ blk = 0
    /\ t.magic
    /\ \E slot \in FileSlots(t.entries), start \in Placement(t.entries) :
          \/ UNCHANGED <<queue, state, reported, begun, touched>>
          \/ \E k \in 1..(2 * cur.size) :
                /\ k % 2 = 1
                /\ queue' = queue \o SubSeq(FileRequests(start, cur.size, cur.ver), 1, k)
                /\ state' = "USER"
                /\ reported' = [kind |-> "failed", name |-> cur.name, ver |-> cur.ver]
                /\ BeginStore(t.entries)
    /\ faults' = faults + 1
    /\ UNCHANGED session

(* libdrbcc_readflash_cb, first part: a table without magic is looked for  *)
(* in the backup, and a good backup is written back.                       *)
ReadBackup ==
    /\ results # <<>>
    /\ Head(results).op = "read"
    /\ ~retry
    /\ Head(results).block = 0
    /\ ~Head(results).table.magic
    /\ results' = Tail(results)
    /\ queue' = Append(queue, ReadReq(1))
    /\ flashAddr' = 0
    /\ retry' = TRUE
    /\ UNCHANGED <<state, session, cur, curFilelength, curFilestart, hostFile, reported,
                   begun, touched>>
    /\ Unchanged

RestoreTable ==
    /\ results # <<>>
    /\ Head(results).op = "read"
    /\ Head(results).block = 1
    /\ Head(results).table.magic
    /\ results' = Tail(results)
    /\ queue' = queue \o <<EraseReq(0), TableReq(0, Head(results).table), ReadReq(0)>>
    /\ flashAddr' = 0
    /\ UNCHANGED <<state, session, cur, curFilelength, curFilestart, retry, hostFile,
                   reported, begun, touched>>
    /\ Unchanged

(* libdrbcc_readflash_cb, second part: the handler of the current state.   *)
(* A backup without magic is handled as a table without magic in block 0.  *)
Dispatch ==
    LET r == Head(results)
        blk == IF r.block = 1 THEN 0 ELSE r.block
    IN /\ results # <<>>
       /\ r.op = "read"
       /\ r.block = 0 => retry \/ r.table.magic
       /\ r.block = 1 => ~r.table.magic
       /\ results' = Tail(results)
       /\ retry' = FALSE
       /\ UNCHANGED <<table, data, logRequest, ops, formatted, damaged, overlap, asked>>
       /\ \/ /\ state = "PARTITION_REQ"
             /\ GotPartition(blk, r.table)
             /\ UNCHANGED <<cur, curFilelength, curFilestart, hostFile, begun, touched, faults>>
          \/ /\ state = "DELETE_FILE"
             /\ Delete(blk, r.table)
             /\ UNCHANGED <<cur, curFilelength, curFilestart, flashAddr, hostFile, begun,
                            touched, faults>>
          \/ /\ state = "GET_FILE"
             /\ \/ blk = 0 /\ GetFileTable(r.table) /\ UNCHANGED <<hostFile, faults>>
                \/ /\ blk # 0
                   /\ GetFileData(blk, r.content)
                   /\ UNCHANGED <<cur, curFilestart, faults>>
                \/ GetHostFile(blk) /\ UNCHANGED <<cur, curFilestart>>
             /\ UNCHANGED <<begun, touched>>
          \/ /\ state = "PUT_FILE"
             /\ \/ (PutFails(blk, r.table) \/ PutStores(blk, r.table)) /\ UNCHANGED faults
                \/ PutHostFile(blk, r.table)
             /\ UNCHANGED <<cur, curFilelength, curFilestart, flashAddr, hostFile>>
          \/ /\ state = "USER"
             /\ Close("failed")
             /\ UNCHANGED <<queue, state, cur, curFilelength, curFilestart, flashAddr,
                            hostFile, begun, touched, faults>>

(* Mutant: the backup's result ends the put as well.                       *)
PutDoneAtBackup(r, total) == r.op = "table" /\ total = cur.size

(* A put is done when its data and the table in block 0 are written.       *)
PutDone(r, total) == r.op = "table" /\ r.block = 0 /\ total = cur.size

(* libdrbcc_writeflash_cb                                                  *)
WriteResult ==
    LET r == Head(results)
        total == IF r.op = "data" THEN curFilelength + 1 ELSE curFilelength
    IN /\ results # <<>>
       /\ r.op \in {"table", "data"}
       /\ results' = Tail(results)
       /\ \/ /\ state = "PARTITION_REQ"
             /\ UNCHANGED <<state, session, curFilelength, reported>>
          \/ /\ state = "DELETE_FILE"
             /\ state' = "USER"
             /\ Close(IF r.ok THEN "deleted" ELSE "failed")
             /\ UNCHANGED curFilelength
          \/ /\ state = "PUT_FILE"
             /\ r.ok
             /\ curFilelength' = total
             /\ IF PutDone(r, total)
                  THEN Close("put")
                  ELSE UNCHANGED <<session, reported>>
             /\ UNCHANGED state
          \/ /\ state = "PUT_FILE"
             /\ ~r.ok
             /\ Close("failed")
             /\ UNCHANGED <<state, curFilelength>>
          \/ /\ state \in {"USER", "GET_FILE"}
             /\ Close("failed")
             /\ UNCHANGED <<state, curFilelength>>
       /\ UNCHANGED <<queue, cur, curFilestart, flashAddr, retry, hostFile, begun, touched>>
       /\ Unchanged

(* DRBCC_IND_EXTFLASH_BLOCKERASE_RESULT of libdrbcc_proc_msg               *)
EraseResult ==
    /\ results # <<>>
    /\ Head(results).op = "erase"
    /\ results' = Tail(results)
    /\ IF state = "USER" THEN Close("erased") ELSE UNCHANGED <<session, reported>>
    /\ UNCHANGED <<queue, state, cur, curFilelength, curFilestart, flashAddr, retry,
                   hostFile, begun, touched>>
    /\ Unchanged

(* DRBCC_IND_PUT_LOG of libdrbcc_proc_msg                                  *)
LogResult ==
    /\ results # <<>>
    /\ Head(results).op = "log"
    /\ results' = Tail(results)
    /\ IF session # 0 THEN Close("logged") ELSE UNCHANGED <<session, reported>>
    /\ UNCHANGED <<queue, state, cur, curFilelength, curFilestart, flashAddr, retry,
                   hostFile, begun, touched>>
    /\ Unchanged

-----------------------------------------------------------------------------
HostRequest == \/ GetPartitiontable \/ PutLog
               \/ \E n \in Names : DeleteFile(n, 0) \/ GetFile(n, 0)
               \/ \E i \in Slot : DeleteFile(NoName, i) \/ GetFile(NoName, i)
               \/ \E n \in Names, size \in Sizes : PutFile(n, size)

HostResult == \/ ReadBackup \/ RestoreTable \/ Dispatch
              \/ WriteResult \/ EraseResult \/ LogResult

Fault == BadWrite \/ Crash \/ CrashInWrite \/ ToggleError

Next == HostRequest \/ HostResult \/ Execute \/ ExecuteLog \/ Fault

Spec == Init /\ [][Next]_vars

(* The controller executes what it gets and the host handles what comes.   *)
Fairness == WF_vars(Execute) /\ WF_vars(ExecuteLog) /\ WF_vars(HostResult)

FairSpec == Spec /\ Fairness

-----------------------------------------------------------------------------
FlashReq == [op : {"erase", "read", "table", "data"}, block : Nat, table : TableBlock,
             content : Nat \X Nat]
FlashResult == [op : {"erase", "read", "table", "data", "log"}, block : Nat, ok : BOOLEAN,
                table : TableBlock, content : Nat \X Nat]
Reports == {"none", "failed", "listed", "deleted", "got", "put", "erased",
            "logged"}

(* The type invariant.                                                     *)
TypeOK ==
    /\ table \in [{0, 1} -> TableBlock]
    /\ data \in [DataBlocks -> Nat \X Nat]
    /\ queue \in Seq(FlashReq)
    /\ results \in Seq(FlashResult)
    /\ state \in States
    /\ session \in Nat
    /\ cur \in [name : Names \cup {NoName}, index : 0..Slots, size : Nat, ver : Nat]
    /\ curFilelength \in Nat
    /\ curFilestart \in Nat
    /\ flashAddr \in Nat
    /\ logRequest \in BOOLEAN
    /\ retry \in BOOLEAN
    /\ hostFile \in Seq(Nat \X Nat)
    /\ ops \in Nat
    /\ faults \in Nat
    /\ formatted \in BOOLEAN
    /\ damaged \in BOOLEAN
    /\ overlap \in {"none", "rest", "read"}
    /\ asked \subseteq [op : {"put", "delete"}, name : Names \cup {NoName}, ver : Nat]
    /\ begun \subseteq Nat
    /\ touched \subseteq Nat
    /\ reported \in [kind : Reports, name : Names \cup {NoName}, ver : Nat]

(* The files of a table, by name and content.                              *)
FilesOf(t) == {[name |-> t[i].name, ver |-> t[i].ver] : i \in {j \in Slot : t[j].name \in Names}}

(* The file of an entry is in the flash.                                   *)
Stored(e) == \A k \in 1..e.len : data[e.start + k - 1] = <<e.ver, k>>

(* Writing the backup first keeps a good table in the flash whenever the   *)
(* host or the power fails: between any two of the requests that           *)
(* libdrbcc_put_file, libdrbcc_delete, libdrbcc_create_partition and the   *)
(* restore of libdrbcc_readflash_cb queue, one of the two blocks holds a   *)
(* complete table, unless a write of a table itself went wrong or a        *)
(* request began with the table read of an earlier one under way.          *)
TableSafe == (formatted /\ ~damaged /\ overlap # "read") => Effective.magic /\ Effective.crc

(* libdrbcc_put_file destroys no file but the one it replaces: whichever   *)
(* writes fail and wherever a crash falls, every entry of the table that   *)
(* will be used describes blocks that hold its file, unless a put began to *)
(* replace that very file or, its table being read twice, began to store   *)
(* it a second time.  The exception is overlap = "read": a put that works  *)
(* with a table read for an earlier request does not know the files stored *)
(* since.                                                                  *)
OtherFilesIntact ==
    overlap # "read" => \A i \in Slot :
        LET e == Effective.entries[i]
        IN (e.name \in Names /\ e.ver \notin touched) => Stored(e)

(* The table as its user sees it changes like the abstract store: by one   *)
(* put or one delete that the application asked for, all or nothing,       *)
(* through every crash, every session that ends early and every restore of *)
(* the backup, under the two conditions of TableSafe.                      *)
Store == INSTANCE DrbccStore WITH Name <- Names, AnyName <- NoName, Content <- 1..MaxOps,
                                  files <- FilesOf(Effective.entries),
                                  damaged <- damaged \/ overlap = "read"
AtomicStore == Store!Spec

(* "Put flash file successfully done" (libdrbcc_writeflash_cb): the table  *)
(* in block 0 has the file and the flash holds its content, unless some    *)
(* request began before the flash requests of an earlier one were done.    *)
(* It is about this report only: a session that the link itself ends, as   *)
(* drbcc_trigger does for a request it has given up, reports no put.       *)
PutDurable ==
    [][ (overlap = "none" /\ reported' # reported /\ reported'.kind = "put") =>
          \E i \in Slot : LET e == table[0].entries[i]
                          IN e.name = cur.name /\ e.ver = cur.ver /\ Stored(e) ]_vars

(* "Get flash file successfully done" (libdrbcc_get_file): the file of the *)
(* host has the whole content of the file in the flash, on the same        *)
(* condition, and likewise about this report only.                         *)
GetComplete ==
    [][ (overlap = "none" /\ reported' # reported /\ reported'.kind = "got") =>
          \E i \in SelectedEntry(Effective.entries) :
              LET e == Effective.entries[i]
              IN hostFile' = [k \in 1..e.len |-> data[e.start + k - 1]] ]_vars

(* Every request's session ends when no fault happens, so that the         *)
(* application can go on.                                                  *)
SessionEnds == \A n \in 1..MaxOps : (session = n) ~> (session # n)

(* A delete is reported when the backup is written: the table in block 0   *)
(* follows, whatever the application requests in the meantime, if nothing  *)
(* of an earlier request was under way when the delete began.              *)
DeleteCompletes ==
    \A n \in Names : (overlap = "none" /\ reported.kind = "deleted" /\ reported.name = n)
                       ~> (Matching(table[0].entries, n) = {})

(* "Flash file successfully deleted." (libdrbcc_writeflash_cb): the file   *)
(* that it is reported of is removed from the table.                       *)
ReportedIsDeleted ==
    \A n \in Names : (reported.kind = "deleted" /\ reported.name = n)
                       ~> (Matching(table[0].entries, n) = {})
=============================================================================
