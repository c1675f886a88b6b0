-------------------------- MODULE DrbccFlashProofs --------------------------
(***************************************************************************)
(* The theorems about DrbccFlash, for any flash, table, files, number of   *)
(* requests and number of faults.                                          *)
(***************************************************************************)
EXTENDS DrbccFlash, DrbccTableProofs

(* A request that changes table block b, and a read of a table block.      *)
Writes(r, b) == r.op \in {"erase", "table"} /\ r.block = b
TableOf(r, b) == r.op = "table" /\ r.block = b
TableRead(r) == r.op = "read" /\ r.block \in {0, 1}

(* The states in which a read table makes the host write a new one.        *)
Busy == state \in {"PARTITION_REQ", "DELETE_FILE", "PUT_FILE"}

-----------------------------------------------------------------------------
(* The parts of the inductive invariant.                                   *)

(* What the application asked for is what the handle works on.             *)
CurAsked ==
    /\ state = "PUT_FILE" =>
          /\ cur.name \in Names /\ cur.size \in Nat \ {0} /\ cur.ver \in 1..MaxOps
          /\ [op |-> "put", name |-> cur.name, ver |-> cur.ver] \in asked
    /\ state = "DELETE_FILE" =>
          \/ cur.index # 0 /\ [op |-> "delete", name |-> NoName, ver |-> 0] \in asked
          \/ /\ cur.index = 0 /\ cur.name \in Names
             /\ [op |-> "delete", name |-> cur.name, ver |-> 0] \in asked

(* Tables in the queue and in the flash are complete, name a file once,    *)
(* and a table block that is to be erased will be written again.           *)
NamesOnce(t) == \A i, j \in Slot : (t[i].name \in Names /\ t[i].name = t[j].name) => i = j

TablesGood ==
    /\ \A b \in {0, 1} : table[b].magic => table[b].crc
    /\ \A b \in {0, 1} : NamesOnce(table[b].entries)
    /\ \A i \in 1..Len(queue) : queue[i].op = "table" =>
          /\ queue[i].block \in {0, 1}
          /\ queue[i].table.magic /\ queue[i].table.crc
          /\ NamesOnce(queue[i].table.entries)

EraseThenWrite ==
    \A b \in {0, 1}, i \in 1..Len(queue) :
        (queue[i].op = "erase" /\ queue[i].block = b) =>
            \E j \in 1..Len(queue) : i < j /\ TableOf(queue[j], b)

(* A write of the backup is in front of all that depends on it.            *)
BackupFirst ==
    \A i \in 1..Len(queue) : Writes(queue[i], 1) =>
        /\ \A k \in 1..Len(results) : ~TableRead(results[k])
        /\ \A j \in 1..Len(queue) : j < i => ~TableRead(queue[j]) /\ ~Writes(queue[j], 0)

(* Which block holds a table at any time.                                  *)
OneTable ==
    /\ (\E i \in 1..Len(queue) : Writes(queue[i], 1)) => (formatted => table[0].magic)
    /\ ((\E i \in 1..Len(queue) : Writes(queue[i], 0))
          /\ \A i \in 1..Len(queue) : ~Writes(queue[i], 1)) => table[1].magic
    /\ (\A i \in 1..Len(queue) : ~Writes(queue[i], 0) /\ ~Writes(queue[i], 1)) =>
          (formatted => Effective.magic)

(* What is written to block 0 is what the backup holds by then, and what   *)
(* has been read of the backup is what it holds.                           *)
CopyOfBackup ==
    /\ \A i, j \in 1..Len(queue) : (TableOf(queue[i], 0) /\ TableOf(queue[j], 1)) =>
          queue[i].table = queue[j].table
    /\ \A i \in 1..Len(queue) :
          (TableOf(queue[i], 0) /\ \A j \in 1..Len(queue) : ~TableOf(queue[j], 1)) =>
              queue[i].table = table[1]
    /\ \A k \in 1..Len(results) : (TableRead(results[k]) /\ results[k].block = 1) =>
          results[k].table = table[1]

(* How the files of a new table differ from those of the old one.          *)
OneStep(a, b, requests) ==
    \/ b = a
    \/ \E n \in Names :
          /\ \E m \in {n, NoName} : [op |-> "delete", name |-> m, ver |-> 0] \in requests
          /\ b = {f \in a : f.name # n}
    \/ \E n \in Names, c \in 1..MaxOps :
          /\ [op |-> "put", name |-> n, ver |-> c] \in requests
          /\ b = {f \in a : f.name # n} \cup {[name |-> n, ver |-> c]}

StepsOnly ==
    /\ (table[0].magic /\ table[1].magic) =>
          OneStep(FilesOf(table[0].entries), FilesOf(table[1].entries), asked)
    /\ \A i \in 1..Len(queue) : (table[0].magic /\ TableOf(queue[i], 1)) =>
          OneStep(FilesOf(table[0].entries), FilesOf(queue[i].table.entries), asked)

(* A flash that was not formatted has no files.                            *)
NoFilesYet ==
    /\ table[0].magic => formatted
    /\ ~formatted => /\ FilesOf(table[1].entries) = {}
                     /\ \A i \in 1..Len(queue) : queue[i].op = "table" =>
                           FilesOf(queue[i].table.entries) = {}

(* A table read is the last thing under way while its result may make the  *)
(* host write a table.                                                     *)
ReadIsLast ==
    Busy =>
        /\ \A i \in 1..Len(queue) : TableRead(queue[i]) =>
              /\ i = Len(queue)
              /\ \A k \in 1..Len(results) : ~TableRead(results[k])
              /\ queue[i].block = 1 => i = 1 /\ ~table[0].magic
        /\ \A k \in 1..Len(results) : TableRead(results[k]) =>
              /\ queue = <<>>
              /\ results[k].table = table[results[k].block]
              /\ \A l \in 1..Len(results) : l > k => results[l].op # "read"
              /\ results[k].block = 1 => ~table[0].magic

(* retry stands for a backup that is being looked for or written back.     *)
RetryMeans ==
    /\ retry => TableReadPending
    /\ (retry /\ Busy) =>
          \/ \A i \in 1..Len(queue) : ~(TableRead(queue[i]) /\ queue[i].block = 0)
          \/ table[0].magic
          \/ \E i \in 1..Len(queue) : TableOf(queue[i], 0)
    /\ (retry /\ Busy) =>
          \A k \in 1..Len(results) : (TableRead(results[k]) /\ results[k].block = 0) =>
              table[0].magic

Safe ==
    /\ TablesGood
    /\ EraseThenWrite
    /\ BackupFirst
    /\ OneTable
    /\ CopyOfBackup
    /\ StepsOnly
    /\ NoFilesYet
    /\ ReadIsLast
    /\ RetryMeans

(* Nothing is promised once a table write has failed or a request began    *)
(* with the table read of an earlier one under way.                        *)
Promised == ~damaged /\ overlap # "read"

IInv ==
    /\ TypeOK
    /\ CurAsked
    /\ Promised => Safe

-----------------------------------------------------------------------------
(* The types of what the model is built from.                              *)

LEMMA TableTypes ==
    /\ EmptyEntry \in Entry
    /\ FreshTable \in Table
    /\ Blank \in TableBlock /\ ~Blank.magic
    /\ Blank.entries = [i \in Slot |-> EmptyEntry]
    /\ \A t \in Table : /\ Valid(t) \in TableBlock /\ Valid(t).magic /\ Valid(t).crc
                         /\ Valid(t).entries = t
  <1>1. EmptyEntry \in Entry
    BY DEF EmptyEntry, Entry
  <1>2. [i \in Slot |-> EmptyEntry] \in Table
    BY <1>1 DEF Table
  <1>3. FreshTable \in Table
    <2>1. LogBlocks \in Nat /\ PersBlocks \in Nat /\ FirstBlock \in Nat
             /\ FirstBlock + LogBlocks \in Nat
      BY TableAssumption DEF FirstBlock
    <2>2. /\ [name |-> RingLog, start |-> FirstBlock, len |-> LogBlocks, ver |-> 0] \in Entry
          /\ [name |-> PersLog, start |-> FirstBlock + LogBlocks,
               len |-> PersBlocks, ver |-> 0] \in Entry
      BY <2>1 DEF Entry
    <2> QED
      BY <1>1, <2>2 DEF FreshTable, Table
  <1>4. Blank \in TableBlock /\ ~Blank.magic /\ Blank.entries = [i \in Slot |-> EmptyEntry]
    BY <1>2 DEF Blank, TableBlock
  <1>5. \A t \in Table : /\ Valid(t) \in TableBlock /\ Valid(t).magic /\ Valid(t).crc
                         /\ Valid(t).entries = t
    BY DEF Valid, TableBlock
  <1> QED
    BY <1>1, <1>3, <1>4, <1>5

LEMMA DeletedType ==
    ASSUME NEW t \in Table, NEW sel
    PROVE  Deleted(t, sel) \in Table
  BY TableTypes DEF Deleted, Table

LEMMA WithFileType ==
    ASSUME NEW t \in Table, NEW slot, NEW n \in Names, NEW start \in Nat, NEW len \in Nat,
           NEW ver \in Nat
    PROVE  WithFile(t, slot, n, start, len, ver) \in Table
  <1>1. [name |-> n, start |-> start, len |-> len, ver |-> ver] \in Entry
    BY DEF Entry
  <1> QED
    BY <1>1, TableTypes DEF WithFile, Table

LEMMA BlockType ==
    ASSUME NEW x \in TableBlock
    PROVE  x.entries \in Table /\ x.magic \in BOOLEAN /\ x.crc \in BOOLEAN
  BY DEF TableBlock

LEMMA RequestTypes ==
    /\ NoData \in Nat \X Nat
    /\ \A b \in Nat : EraseReq(b) \in FlashReq /\ ReadReq(b) \in FlashReq
    /\ \A b \in Nat, x \in TableBlock : TableReq(b, x) \in FlashReq
    /\ \A b \in Nat, c \in Nat \X Nat : DataReq(b, c) \in FlashReq
  <1>1. NoData \in Nat \X Nat
    BY DEF NoData
  <1> QED
    BY <1>1, TableTypes DEF EraseReq, ReadReq, TableReq, DataReq, FlashReq

LEMMA StoreTableType ==
    ASSUME NEW x \in TableBlock
    PROVE  StoreTable(x) \in Seq(FlashReq)
  <1>1. /\ EraseReq(1) \in FlashReq /\ TableReq(1, x) \in FlashReq
        /\ EraseReq(0) \in FlashReq /\ TableReq(0, x) \in FlashReq
    BY RequestTypes
  <1> QED
    BY <1>1 DEF StoreTable

(* The requests for a file's data concern its blocks only.                 *)
LEMMA FileRequestsType ==
    ASSUME NEW start \in Nat, NEW size \in Nat, NEW ver \in Nat
    PROVE  /\ FileRequests(start, size, ver) \in Seq(FlashReq)
           /\ Len(FileRequests(start, size, ver)) = 2 * size
           /\ \A k \in 1..(2 * size) :
                 LET r == FileRequests(start, size, ver)[k]
                 IN r.op \in {"erase", "data"} /\ r.block \in Nat /\ r.block >= start
  <1> DEFINE F == FileRequests(start, size, ver)
  <1>1. \A k \in 1..(2 * size) : k % 2 = 1 => F[k] = EraseReq(start + (k \div 2))
    BY DEF FileRequests
  <1>2. \A k \in 1..(2 * size) :
           k % 2 # 1 => F[k] = DataReq(start + (k \div 2) - 1, <<ver, k \div 2>>)
    BY DEF FileRequests
  <1>3. \A k \in 1..(2 * size) : /\ k \div 2 \in Nat
                                 /\ start + (k \div 2) \in Nat
                                 /\ start + (k \div 2) >= start
    OBVIOUS
  <1>4. \A k \in 1..(2 * size) : k % 2 # 1 => /\ start + (k \div 2) - 1 \in Nat
                                             /\ start + (k \div 2) - 1 >= start
    OBVIOUS
  <1>5. F = [k \in 1..(2 * size) |-> F[k]]
    BY DEF FileRequests
  <1> HIDE DEF F
  <1>6. ASSUME NEW k \in 1..(2 * size)
        PROVE  /\ F[k] \in FlashReq /\ F[k].op \in {"erase", "data"}
               /\ F[k].block \in Nat /\ F[k].block >= start
    <2>1. CASE k % 2 = 1
      <3>1. /\ EraseReq(start + (k \div 2)) \in FlashReq
            /\ EraseReq(start + (k \div 2)).op = "erase"
            /\ EraseReq(start + (k \div 2)).block = start + (k \div 2)
        BY <1>3, RequestTypes DEF EraseReq
      <3> QED
        BY <1>1, <1>3, <2>1, <3>1
    <2>2. CASE k % 2 # 1
      <3> DEFINE d == DataReq(start + (k \div 2) - 1, <<ver, k \div 2>>)
      <3>1. d \in FlashReq /\ d.op = "data" /\ d.block = start + (k \div 2) - 1
        BY <1>3, <1>4, <2>2, RequestTypes DEF DataReq
      <3>2. F[k] = d
        BY <1>2, <2>2
      <3> HIDE DEF d
      <3> QED
        BY <1>4, <2>2, <3>1, <3>2
    <2> QED
      BY <2>1, <2>2
  <1>7. 2 * size \in Nat
    OBVIOUS
  <1>8. F \in Seq(FlashReq) /\ Len(F) = 2 * size
    BY <1>5, <1>6, <1>7
  <1> QED
    BY <1>6, <1>8 DEF F

-----------------------------------------------------------------------------
(* Type correctness.                                                       *)

LEMMA InitType == Init => TypeOK /\ CurAsked
  <1> SUFFICES ASSUME Init PROVE TypeOK /\ CurAsked
    OBVIOUS
  <1>1. table \in [{0, 1} -> TableBlock]
    BY TableTypes DEF Init
  <1>2. data \in [DataBlocks -> Nat \X Nat]
    BY RequestTypes DEF Init
  <1>3. cur \in [name : Names \cup {NoName}, index : 0..Slots, size : Nat, ver : Nat]
    BY TableAssumption DEF Init, NoFile
  <1>4. reported \in [kind : Reports, name : Names \cup {NoName}, ver : Nat]
    BY DEF Init, NotReported, Reports
  <1> QED
    <2>1. /\ formatted \in BOOLEAN /\ queue = <<>> /\ results = <<>> /\ state = "USER"
          /\ session = 0 /\ curFilelength = 0 /\ curFilestart = 0 /\ flashAddr = 0
          /\ logRequest = FALSE /\ retry = FALSE /\ hostFile = <<>> /\ ops = 0
          /\ faults = 0 /\ damaged = FALSE /\ overlap = "none" /\ asked = {}
          /\ begun = {} /\ touched = {}
      BY DEF Init
    <2> QED
      <3>1. CurAsked
        BY <2>1 DEF CurAsked
      <3>2. <<>> \in Seq(FlashReq) /\ <<>> \in Seq(FlashResult) /\ <<>> \in Seq(Nat \X Nat)
        OBVIOUS
      <3>3. TypeOK
        BY <1>1, <1>2, <1>3, <1>4, <2>1, <3>2, Zenon DEF TypeOK, States
      <3> QED
        BY <3>1, <3>3

LEMMA ReportTypes ==
    /\ NotReported \in [kind : Reports, name : Names \cup {NoName}, ver : Nat]
    /\ TypeOK => \A kind \in Reports :
          [kind |-> kind, name |-> cur.name, ver |-> cur.ver]
             \in [kind : Reports, name : Names \cup {NoName}, ver : Nat]
  BY DEF NotReported, Reports, TypeOK

LEMMA BeginType ==
    ASSUME TypeOK, NEW kind, NEW new \in States, Begin(kind, new)
    PROVE  /\ ops' \in Nat /\ session' \in Nat /\ state' \in States
           /\ queue' \in Seq(FlashReq) /\ flashAddr' \in Nat
           /\ reported' \in [kind : Reports, name : Names \cup {NoName}, ver : Nat]
           /\ overlap' \in {"none", "rest", "read"}
           /\ ops + 1 \in 1..MaxOps /\ state' = new
           /\ queue' = Append(queue, ReadReq(0))
           /\ overlap' # "read" => overlap # "read" /\ ~TableReadPending
  <1>1. ReadReq(0) \in FlashReq
    BY RequestTypes
  <1>2. ops \in Nat /\ queue \in Seq(FlashReq)
    BY DEF TypeOK
  <1>3. queue' \in Seq(FlashReq)
    BY <1>1, <1>2 DEF Begin
  <1>4. overlap' \in {"none", "rest", "read"}
        /\ (overlap' # "read" => overlap # "read" /\ ~TableReadPending)
    BY DEF Begin
  <1>5. /\ ops' = ops + 1 /\ session' = ops + 1 /\ state' = new /\ flashAddr' = 0
        /\ reported' = NotReported /\ ops < MaxOps
        /\ queue' = Append(queue, ReadReq(0))
    BY DEF Begin
  <1> QED
    BY <1>2, <1>3, <1>4, <1>5, ReportTypes, FlashAssumption

LEMMA AskType ==
    ASSUME NEW n \in Names \cup {NoName}, NEW v \in Nat, NEW op \in {"put", "delete"}
    PROVE  [op |-> op, name |-> n, ver |-> v]
              \in [op : {"put", "delete"}, name : Names \cup {NoName}, ver : Nat]
  OBVIOUS

LEMMA GetPartitiontableType ==
    ASSUME TypeOK, CurAsked, GetPartitiontable
    PROVE  TypeOK' /\ CurAsked'
  <1>1. Begin("part", "PARTITION_REQ")
    BY DEF GetPartitiontable
  <1>2. UNCHANGED <<table, data, results, cur, curFilelength, curFilestart, logRequest, retry,
                    hostFile, faults, formatted, damaged, begun, touched, asked>>
    BY DEF GetPartitiontable
  <1>3. "PARTITION_REQ" \in States
    BY DEF States
  <1>4. TypeOK'
    BY <1>1, <1>2, <1>3, BeginType DEF TypeOK
  <1>5. state' = "PARTITION_REQ"
    BY <1>1, <1>3, BeginType
  <1> QED
    BY <1>4, <1>5 DEF CurAsked

LEMMA DeleteFileType ==
    ASSUME TypeOK, NEW n \in Names \cup {NoName}, NEW index \in 0..Slots,
           index = 0 => n \in Names, index # 0 => n = NoName,
           DeleteFile(n, index)
    PROVE  TypeOK' /\ CurAsked'
  <1>1. Begin(IF index = 0 THEN "delete" ELSE "deleteindex", "DELETE_FILE")
    BY DEF DeleteFile
  <1>2. UNCHANGED <<table, data, results, curFilelength, curFilestart, logRequest, retry,
                    hostFile, faults, formatted, damaged, begun, touched>>
    BY DEF DeleteFile
  <1>3. "DELETE_FILE" \in States
    BY DEF States
  <1>4. /\ cur' \in [name : Names \cup {NoName}, index : 0..Slots, size : Nat, ver : Nat]
        /\ cur'.index = index
        /\ index = 0 => cur'.name = n
    BY DEF DeleteFile, TypeOK
  <1>5. /\ asked' \subseteq [op : {"put", "delete"}, name : Names \cup {NoName}, ver : Nat]
        /\ [op |-> "delete", name |-> n, ver |-> 0] \in asked'
    BY DEF DeleteFile, TypeOK
  <1> QED
    BY <1>1, <1>2, <1>3, <1>4, <1>5, BeginType DEF TypeOK, CurAsked

LEMMA GetFileType ==
    ASSUME TypeOK, NEW n \in Names \cup {NoName}, NEW index \in 0..Slots, GetFile(n, index)
    PROVE  TypeOK' /\ CurAsked'
  <1>1. Begin(IF index = 0 THEN "get" ELSE "getindex", "GET_FILE")
    BY DEF GetFile
  <1>2. UNCHANGED <<table, data, results, curFilelength, curFilestart, logRequest, retry,
                   faults, formatted, damaged, begun, touched, asked>>
    BY DEF GetFile
  <1>3. "GET_FILE" \in States
    BY DEF States
  <1>4. cur' \in [name : Names \cup {NoName}, index : 0..Slots, size : Nat, ver : Nat]
    BY DEF GetFile, TypeOK
  <1>5. hostFile' = <<>> /\ <<>> \in Seq(Nat \X Nat)
    BY DEF GetFile
  <1>6. TypeOK'
    BY <1>1, <1>2, <1>3, <1>4, <1>5, BeginType DEF TypeOK
  <1>7. state' = "GET_FILE"
    BY <1>1, <1>3, BeginType
  <1> QED
    BY <1>6, <1>7 DEF CurAsked

LEMMA PutFileType ==
    ASSUME TypeOK, NEW n \in Names, NEW size \in Sizes, PutFile(n, size)
    PROVE  TypeOK' /\ CurAsked'
  <1>1. Begin("put", "PUT_FILE")
    BY DEF PutFile
  <1>2. UNCHANGED <<table, data, results, curFilestart, logRequest, retry, hostFile,
                   faults, formatted, damaged, begun, touched>>
    BY DEF PutFile
  <1>3. "PUT_FILE" \in States
    BY DEF States
  <1>4. size \in Nat \ {0} /\ ops + 1 \in 1..MaxOps /\ ops + 1 \in Nat
    BY <1>1, <1>3, BeginType, FlashAssumption
  <1>5. /\ cur' = [name |-> n, index |-> 0, size |-> size, ver |-> ops + 1]
        /\ curFilelength' = 0
        /\ asked' = asked \cup {[op |-> "put", name |-> n, ver |-> ops + 1]}
    BY DEF PutFile
  <1>6. /\ cur' \in [name : Names \cup {NoName}, index : 0..Slots, size : Nat, ver : Nat]
        /\ cur'.name = n /\ cur'.size = size /\ cur'.ver = ops + 1
    BY <1>4, <1>5, TableAssumption
  <1>7. /\ asked' \subseteq [op : {"put", "delete"}, name : Names \cup {NoName}, ver : Nat]
        /\ [op |-> "put", name |-> n, ver |-> ops + 1] \in asked'
    BY <1>4, <1>5, AskType DEF TypeOK
  <1> QED
    <2>1. /\ ops' \in Nat /\ session' \in Nat /\ state' \in States
          /\ queue' \in Seq(FlashReq) /\ flashAddr' \in Nat
          /\ reported' \in [kind : Reports, name : Names \cup {NoName}, ver : Nat]
          /\ overlap' \in {"none", "rest", "read"}
          /\ state' = "PUT_FILE"
      BY <1>1, <1>3, BeginType
    <2>2. TypeOK'
      BY <1>2, <1>5, <1>6, <1>7, <2>1 DEF TypeOK
    <2>3. CurAsked'
      BY <1>4, <1>6, <1>7, <2>1 DEF CurAsked
    <2> QED
      BY <2>2, <2>3

LEMMA PutLogType ==
    ASSUME TypeOK, PutLog
    PROVE  TypeOK' /\ CurAsked'
  BY ReportTypes DEF TypeOK, CurAsked, PutLog, States

LEMMA CloseType ==
    ASSUME TypeOK, NEW kind \in Reports, Close(kind)
    PROVE  /\ session' \in Nat
           /\ reported' \in [kind : Reports, name : Names \cup {NoName}, ver : Nat]
  BY ReportTypes DEF Close

(* A step that leaves the operation alone or ends it.                      *)
LEMMA CurKept ==
    ASSUME CurAsked, asked' = asked,
           state' \in {"USER", "GET_FILE"} \/ (state' = state /\ cur' = cur)
    PROVE  CurAsked'
  BY DEF CurAsked

LEMMA HeadType ==
    ASSUME NEW T, NEW q \in Seq(T), q # <<>>
    PROVE  /\ Head(q) \in T /\ Head(q) = q[1] /\ Tail(q) \in Seq(T)
           /\ Len(q) \in Nat /\ Len(q) > 0 /\ Len(Tail(q)) = Len(q) - 1
           /\ \A i \in 1..Len(Tail(q)) : i + 1 \in 1..Len(q) /\ Tail(q)[i] = q[i + 1]
  OBVIOUS

LEMMA AppendType ==
    ASSUME NEW T, NEW q \in Seq(T), NEW x \in T
    PROVE  /\ Append(q, x) \in Seq(T) /\ Len(Append(q, x)) = Len(q) + 1
           /\ Append(q, x)[Len(q) + 1] = x
           /\ \A i \in 1..Len(q) : Append(q, x)[i] = q[i]
           /\ Len(q) \in Nat
           /\ \A i \in 1..(Len(q) + 1) : i \in 1..Len(q) \/ i = Len(q) + 1
  OBVIOUS

LEMMA ResultType ==
    ASSUME TypeOK, NEW r \in FlashReq, NEW ok \in BOOLEAN
    PROVE  Result(r, ok) \in FlashResult
  <1>1. /\ r.op \in {"erase", "read", "table", "data", "log"} /\ r.block \in Nat
    BY DEF FlashReq
  <1>2. (IF r.op = "read" /\ r.block \in {0, 1} THEN table[r.block] ELSE Blank) \in TableBlock
    BY TableTypes DEF TypeOK
  <1>3. (IF r.op = "read" /\ r.block \in DataBlocks THEN data[r.block] ELSE NoData)
           \in Nat \X Nat
    BY RequestTypes DEF TypeOK
  <1> QED
    BY <1>1, <1>2, <1>3 DEF Result, FlashResult

LEMMA ExecuteType ==
    ASSUME TypeOK, CurAsked, Execute
    PROVE  TypeOK' /\ CurAsked'
  <1> DEFINE r == Head(queue)
  <1>1. queue # <<>> /\ queue \in Seq(FlashReq) /\ results \in Seq(FlashResult)
    BY DEF Execute, TypeOK
  <1>2. r \in FlashReq /\ queue' \in Seq(FlashReq)
    BY <1>1, HeadType DEF Execute
  <1>3. Result(r, TRUE) \in FlashResult
    BY <1>2, ResultType
  <1>4. results' = Append(results, Result(r, TRUE))
    BY DEF Execute
  <1> HIDE DEF r
  <1>5. results' \in Seq(FlashResult)
    BY <1>1, <1>3, <1>4, AppendType
  <1>6. r.table \in TableBlock /\ r.content \in Nat \X Nat
    BY <1>2 DEF FlashReq
  <1>7. Apply(r)
    BY DEF Execute, r
  <1>8. table' \in [{0, 1} -> TableBlock]
    BY <1>6, <1>7, TableTypes DEF Apply, TypeOK
  <1>9. data' \in [DataBlocks -> Nat \X Nat]
    BY <1>6, <1>7, RequestTypes DEF Apply, TypeOK
  <1>10. formatted' \in BOOLEAN
    BY DEF Execute, TypeOK
  <1>11. UNCHANGED <<hostVars, ops, faults, damaged, overlap, asked, begun, touched, reported>>
    BY DEF Execute
  <1>12. TypeOK'
    BY <1>2, <1>5, <1>8, <1>9, <1>10, <1>11 DEF TypeOK, hostVars
  <1> QED
    BY <1>11, <1>12, CurKept DEF hostVars

LEMMA ExecuteLogType ==
    ASSUME TypeOK, CurAsked, ExecuteLog
    PROVE  TypeOK' /\ CurAsked'
  <1>1. [op |-> "log", block |-> 0, ok |-> TRUE, table |-> Blank, content |-> NoData]
           \in FlashResult
    BY TableTypes, RequestTypes DEF FlashResult
  <1>2. results' \in Seq(FlashResult)
    BY <1>1 DEF ExecuteLog, TypeOK
  <1> QED
    BY <1>2, CurKept DEF ExecuteLog, TypeOK, historyVars

LEMMA BadWriteType ==
    ASSUME TypeOK, CurAsked, BadWrite
    PROVE  TypeOK' /\ CurAsked'
  <1> DEFINE r == Head(queue)
  <1>1. queue # <<>> /\ queue \in Seq(FlashReq) /\ results \in Seq(FlashResult)
    BY DEF BadWrite, TypeOK
  <1>2. r \in FlashReq /\ queue' \in Seq(FlashReq)
    BY <1>1, HeadType DEF BadWrite
  <1>3. Result(r, FALSE) \in FlashResult
    BY <1>2, ResultType
  <1>4. results' = Append(results, Result(r, FALSE))
    BY DEF BadWrite
  <1>5. touched' = touched \cup {r.content[1]}
    BY DEF BadWrite
  <1> HIDE DEF r
  <1>6. results' \in Seq(FlashResult)
    BY <1>1, <1>3, <1>4, AppendType
  <1>7. r.content[1] \in Nat
    BY <1>2 DEF FlashReq
  <1>8. touched' \subseteq Nat
    BY <1>5, <1>7 DEF TypeOK
  <1>9. damaged' \in BOOLEAN
    BY DEF BadWrite, TypeOK
  <1>10. faults' \in Nat
    BY DEF BadWrite, TypeOK
  <1>11. UNCHANGED <<table, data, hostVars, ops, formatted, overlap, asked, begun, reported>>
    BY DEF BadWrite
  <1>12. TypeOK'
    BY <1>2, <1>6, <1>8, <1>9, <1>10, <1>11 DEF TypeOK, hostVars
  <1> QED
    BY <1>11, <1>12, CurKept DEF hostVars

LEMMA RestartType ==
    ASSUME TypeOK, Restart, table' \in [{0, 1} -> TableBlock], damaged' \in BOOLEAN,
           UNCHANGED <<data, formatted, overlap, asked, begun, touched>>
    PROVE  TypeOK' /\ CurAsked'
  <1>1. NoFile \in [name : Names \cup {NoName}, index : 0..Slots, size : Nat, ver : Nat]
    BY TableAssumption DEF NoFile
  <1>2. /\ queue' \in Seq(FlashReq) /\ results' \in Seq(FlashResult)
        /\ hostFile' \in Seq(Nat \X Nat)
    BY DEF Restart
  <1>3. state' = "USER"
    BY DEF Restart
  <1>4. TypeOK'
    <2>1. /\ session' = 0 /\ cur' = NoFile /\ curFilelength' = 0 /\ curFilestart' = 0
          /\ flashAddr' = 0 /\ logRequest' = FALSE /\ retry' = FALSE
          /\ reported' = NotReported /\ ops' = ops /\ faults' = faults + 1
      BY DEF Restart
    <2>2. faults' \in Nat /\ "USER" \in States
      BY <2>1 DEF TypeOK, States
    <2> QED
      BY <1>1, <1>2, <1>3, <2>1, <2>2, ReportTypes DEF TypeOK
  <1> QED
    BY <1>3, <1>4 DEF CurAsked

LEMMA CrashType ==
    ASSUME TypeOK, Crash
    PROVE  TypeOK' /\ CurAsked'
  BY RestartType DEF Crash, TypeOK

LEMMA CrashInWriteType ==
    ASSUME TypeOK, CrashInWrite
    PROVE  TypeOK' /\ CurAsked'
  <1>1. Head(queue).table.entries \in Table
    <2>1. queue # <<>> /\ queue \in Seq(FlashReq)
      BY DEF CrashInWrite, TypeOK
    <2>2. Head(queue) \in FlashReq
      BY <2>1, HeadType
    <2> QED
      BY <2>2, BlockType DEF FlashReq
  <1>2. \A k \in 0..(Slots - 1) :
           [magic |-> TRUE, crc |-> FALSE,
            entries |-> [i \in Slot |-> IF i <= k THEN Head(queue).table.entries[i]
                                       ELSE EmptyEntry]] \in TableBlock
    BY <1>1, TableTypes DEF TableBlock, Table
  <1>3. table' \in [{0, 1} -> TableBlock]
    BY <1>2 DEF CrashInWrite, TypeOK
  <1> QED
    BY <1>3, RestartType DEF CrashInWrite

LEMMA ToggleErrorType ==
    ASSUME TypeOK, CurAsked, ToggleError
    PROVE  TypeOK' /\ CurAsked'
  <1>1. "failed" \in Reports
    BY DEF Reports
  <1>2. /\ session' \in Nat
        /\ reported' \in [kind : Reports, name : Names \cup {NoName}, ver : Nat]
    BY <1>1, CloseType DEF ToggleError, TypeOK
  <1> QED
    BY <1>2, CurKept DEF ToggleError, TypeOK, States

LEMMA ConcatType ==
    ASSUME NEW T, NEW q \in Seq(T), NEW p \in Seq(T)
    PROVE  /\ q \o p \in Seq(T) /\ Len(q \o p) = Len(q) + Len(p)
           /\ \A i \in 1..Len(q) : (q \o p)[i] = q[i]
           /\ \A k \in 1..Len(p) : (q \o p)[Len(q) + k] = p[k]
           /\ Len(q) \in Nat /\ Len(p) \in Nat
           /\ \A i \in 1..(Len(q) + Len(p)) :
                 i \in 1..Len(q) \/ (i - Len(q) \in 1..Len(p) /\ Len(q) + (i - Len(q)) = i)
  OBVIOUS

LEMMA FirstResult ==
    ASSUME TypeOK, results # <<>>
    PROVE  /\ Head(results) \in FlashResult /\ Head(results).block \in Nat
           /\ Head(results).ok \in BOOLEAN
           /\ Head(results).table \in TableBlock /\ Head(results).table.entries \in Table
           /\ Head(results).content \in Nat \X Nat
           /\ Tail(results) \in Seq(FlashResult)
  <1>1. results \in Seq(FlashResult)
    BY DEF TypeOK
  <1>2. Head(results) \in FlashResult /\ Tail(results) \in Seq(FlashResult)
    BY <1>1, HeadType
  <1>3. \A r \in FlashResult : /\ r.block \in Nat /\ r.ok \in BOOLEAN
                               /\ r.table \in TableBlock /\ r.content \in Nat \X Nat
    BY DEF FlashResult
  <1> QED
    BY <1>2, <1>3, BlockType

LEMMA ReadBackupType ==
    ASSUME TypeOK, CurAsked, ReadBackup
    PROVE  TypeOK' /\ CurAsked'
  <1>1. results' \in Seq(FlashResult)
    BY FirstResult DEF ReadBackup
  <1>2. queue' \in Seq(FlashReq)
    <2>1. ReadReq(1) \in FlashReq /\ queue \in Seq(FlashReq)
      BY RequestTypes DEF TypeOK
    <2> QED
      BY <2>1, AppendType DEF ReadBackup
  <1>3. TypeOK'
    BY <1>1, <1>2 DEF ReadBackup, TypeOK, Unchanged
  <1> QED
    BY <1>3, CurKept DEF ReadBackup, Unchanged

LEMMA RestoreSeq ==
    ASSUME NEW x \in TableBlock
    PROVE  /\ <<EraseReq(0), TableReq(0, x), ReadReq(0)>> \in Seq(FlashReq)
           /\ Len(<<EraseReq(0), TableReq(0, x), ReadReq(0)>>) = 3
  <1>1. EraseReq(0) \in FlashReq /\ TableReq(0, x) \in FlashReq /\ ReadReq(0) \in FlashReq
    BY RequestTypes
  <1> QED
    BY <1>1

LEMMA RestoreTableType ==
    ASSUME TypeOK, CurAsked, RestoreTable
    PROVE  TypeOK' /\ CurAsked'
  <1>1. results' \in Seq(FlashResult) /\ Head(results).table \in TableBlock
    BY FirstResult DEF RestoreTable
  <1>2. queue' \in Seq(FlashReq)
    <2> DEFINE p == <<EraseReq(0), TableReq(0, Head(results).table), ReadReq(0)>>
    <2>1. p \in Seq(FlashReq)
      BY <1>1, RestoreSeq
    <2>2. queue \in Seq(FlashReq) /\ queue' = queue \o p
      BY DEF TypeOK, RestoreTable
    <2> HIDE DEF p
    <2> QED
      BY <2>1, <2>2, ConcatType
  <1>3. TypeOK'
    BY <1>1, <1>2 DEF RestoreTable, TypeOK, Unchanged
  <1> QED
    BY <1>3, CurKept DEF RestoreTable, Unchanged

(* Every handler of Dispatch leaves what is not its own.                   *)
LEMMA GotPartitionType ==
    ASSUME TypeOK, NEW blk, NEW x \in TableBlock, state = "PARTITION_REQ", GotPartition(blk, x)
    PROVE  /\ queue' \in Seq(FlashReq) /\ state' \in {state, "USER"}
           /\ session' \in Nat /\ flashAddr' \in Nat
           /\ reported' \in [kind : Reports, name : Names \cup {NoName}, ver : Nat]
  <1>1. queue \in Seq(FlashReq)
    BY DEF TypeOK
  <1>2. "failed" \in Reports /\ "listed" \in Reports
    BY DEF Reports
  <1>3. queue \o StoreTable(Valid(FreshTable)) \o <<ReadReq(0)>> \in Seq(FlashReq)
    <2>1. StoreTable(Valid(FreshTable)) \in Seq(FlashReq)
      BY TableTypes, StoreTableType
    <2>2. <<ReadReq(0)>> \in Seq(FlashReq)
      BY RequestTypes
    <2>3. queue \o StoreTable(Valid(FreshTable)) \in Seq(FlashReq)
      BY <1>1, <2>1, ConcatType
    <2> QED
      BY <2>2, <2>3, ConcatType
  <1>4. /\ session \in Nat /\ flashAddr \in Nat
        /\ reported \in [kind : Reports, name : Names \cup {NoName}, ver : Nat]
    BY DEF TypeOK
  <1>5. CASE Close("failed") /\ UNCHANGED <<queue, state, flashAddr>>
    BY <1>1, <1>2, <1>4, <1>5, CloseType
  <1>6. CASE /\ queue' = queue \o StoreTable(Valid(FreshTable)) \o <<ReadReq(0)>>
             /\ flashAddr' = 0
             /\ UNCHANGED <<state, session, reported>>
    BY <1>3, <1>4, <1>6
  <1>7. CASE state' = "USER" /\ Close("listed") /\ UNCHANGED <<queue, flashAddr>>
    BY <1>1, <1>2, <1>4, <1>7, CloseType
  <1> QED
    BY <1>5, <1>6, <1>7 DEF GotPartition

LEMMA DeleteType ==
    ASSUME TypeOK, NEW blk, NEW x \in TableBlock, Delete(blk, x)
    PROVE  /\ queue' \in Seq(FlashReq) /\ state' = state
           /\ session' \in Nat
           /\ reported' \in [kind : Reports, name : Names \cup {NoName}, ver : Nat]
  <1>1. queue \in Seq(FlashReq)
    BY DEF TypeOK
  <1>2. "failed" \in Reports
    BY DEF Reports
  <1>3. queue \o StoreTable(Valid(Deleted(x.entries, SelectedEntry(x.entries))))
           \in Seq(FlashReq)
    <2>1. Valid(Deleted(x.entries, SelectedEntry(x.entries))) \in TableBlock
      BY BlockType, DeletedType, TableTypes
    <2> QED
      BY <1>1, <2>1, StoreTableType, ConcatType
  <1> QED
    BY <1>1, <1>2, <1>3, CloseType DEF Delete, TypeOK

LEMMA GetFileTableType ==
    ASSUME TypeOK, NEW x \in TableBlock, GetFileTable(x), state = "GET_FILE"
    PROVE  /\ queue' \in Seq(FlashReq) /\ state' \in {"USER", "GET_FILE"}
           /\ cur' \in [name : Names \cup {NoName}, index : 0..Slots, size : Nat, ver : Nat]
           /\ curFilelength' \in Nat /\ curFilestart' \in Nat /\ flashAddr' \in Nat
           /\ session' \in Nat
           /\ reported' \in [kind : Reports, name : Names \cup {NoName}, ver : Nat]
  <1>1. /\ queue \in Seq(FlashReq)
        /\ cur \in [name : Names \cup {NoName}, index : 0..Slots, size : Nat, ver : Nat]
        /\ curFilelength \in Nat /\ curFilestart \in Nat /\ flashAddr \in Nat
        /\ session \in Nat
        /\ reported \in [kind : Reports, name : Names \cup {NoName}, ver : Nat]
    BY DEF TypeOK
  <1>2. "failed" \in Reports
    BY DEF Reports
  <1>3. /\ x.entries \in Table
        /\ \A i \in Slot : x.entries[i].start \in Nat /\ x.entries[i].len \in Nat
    <2>1. x.entries \in Table
      BY BlockType
    <2> QED
      BY <2>1 DEF Table, Entry
  <1>4. cur.index # 0 => cur.index \in Slot
    BY <1>1 DEF Slot
  <1>5. SelectedEntry(x.entries) \subseteq Slot
    BY <1>4 DEF SelectedEntry, Selected, FirstMatching, Matching
  <1>6. CASE /\ ~x.magic
             /\ Close("failed")
             /\ UNCHANGED <<queue, state, cur, curFilelength, curFilestart, flashAddr>>
    BY <1>1, <1>2, <1>6, CloseType
  <1>7. CASE /\ Close("failed")
             /\ state' = "USER"
             /\ cur' = [cur EXCEPT !.size = IF cur.index # 0 THEN x.entries[cur.index].len
                                            ELSE @]
             /\ curFilelength' = IF cur.index # 0 THEN 0 ELSE curFilelength
             /\ UNCHANGED <<queue, curFilestart, flashAddr>>
    <2>1. (IF cur.index # 0 THEN x.entries[cur.index].len ELSE cur.size) \in Nat
      BY <1>1, <1>3, <1>4
    <2>2. cur' \in [name : Names \cup {NoName}, index : 0..Slots, size : Nat, ver : Nat]
      BY <1>1, <1>7, <2>1
    <2> QED
      BY <1>1, <1>2, <1>7, <2>2, CloseType
  <1>8. ASSUME NEW i \in SelectedEntry(x.entries),
               queue' = Append(queue, ReadReq(x.entries[i].start)),
               cur' = [cur EXCEPT !.size = x.entries[i].len],
               curFilestart' = x.entries[i].start,
               flashAddr' \in {0, x.entries[i].start + 1},
               curFilelength' = 0, UNCHANGED <<state, session, reported>>
        PROVE  /\ queue' \in Seq(FlashReq) /\ state' \in {"USER", "GET_FILE"}
               /\ cur' \in [name : Names \cup {NoName}, index : 0..Slots, size : Nat, ver : Nat]
               /\ curFilelength' \in Nat /\ curFilestart' \in Nat /\ flashAddr' \in Nat
               /\ session' \in Nat
               /\ reported' \in [kind : Reports, name : Names \cup {NoName}, ver : Nat]
    <2>1. x.entries[i].start \in Nat /\ x.entries[i].len \in Nat
      BY <1>3, <1>5
    <2>2. cur' \in [name : Names \cup {NoName}, index : 0..Slots, size : Nat, ver : Nat]
      BY <1>1, <1>8, <2>1
    <2>3. queue' \in Seq(FlashReq)
      BY <1>1, <1>8, <2>1, RequestTypes, AppendType
    <2>4. curFilelength' \in Nat /\ curFilestart' \in Nat /\ flashAddr' \in Nat
      BY <1>8, <2>1
    <2>5. /\ state' \in {"USER", "GET_FILE"} /\ session' \in Nat
          /\ reported' \in [kind : Reports, name : Names \cup {NoName}, ver : Nat]
      BY <1>1, <1>8
    <2> QED
      BY <2>2, <2>3, <2>4, <2>5
  <1> QED
    BY <1>6, <1>7, <1>8 DEF GetFileTable

LEMMA GetFileDataType ==
    ASSUME TypeOK, NEW blk \in Nat, NEW content \in Nat \X Nat, GetFileData(blk, content),
           state = "GET_FILE"
    PROVE  /\ queue' \in Seq(FlashReq) /\ state' \in {"USER", "GET_FILE"}
           /\ hostFile' \in Seq(Nat \X Nat)
           /\ curFilelength' \in Nat /\ flashAddr' \in Nat
           /\ session' \in Nat
           /\ reported' \in [kind : Reports, name : Names \cup {NoName}, ver : Nat]
  <1>1. /\ queue \in Seq(FlashReq) /\ hostFile \in Seq(Nat \X Nat) /\ curFilestart \in Nat
        /\ curFilelength \in Nat /\ flashAddr \in Nat /\ session \in Nat
        /\ reported \in [kind : Reports, name : Names \cup {NoName}, ver : Nat]
    BY DEF TypeOK
  <1>2. "got" \in Reports
    BY DEF Reports
  <1>3. hostFile' \in Seq(Nat \X Nat)
    <2> DEFINE pos == blk - curFilestart
               n == Len(hostFile)
               new == IF pos = n THEN n + 1 ELSE n
    <2>1. n \in Nat /\ new \in Nat /\ pos \in Int
      BY <1>1
    <2>2. CASE blk # NoBytes /\ pos \in 0..n
      <3>1. hostFile' = [k \in 1..new |-> IF k = pos + 1 THEN content ELSE hostFile[k]]
        BY <2>2 DEF GetFileData
      <3>2. \A k \in 1..new : k # pos + 1 => k \in 1..n
        BY <2>1, <2>2
      <3>3. \A k \in 1..n : hostFile[k] \in Nat \X Nat
        BY <1>1
      <3> HIDE DEF pos, n, new
      <3>4. \A k \in 1..new : (IF k = pos + 1 THEN content ELSE hostFile[k]) \in Nat \X Nat
        BY <3>2, <3>3
      <3> QED
        BY <2>1, <3>1, <3>4
    <2>3. CASE ~(blk # NoBytes /\ pos \in 0..n)
      BY <1>1, <2>3 DEF GetFileData
    <2> QED
      BY <2>2, <2>3
  <1>4. curFilelength' \in Nat
    BY <1>1 DEF GetFileData
  <1>5. CASE state' = "USER" /\ Close("got") /\ UNCHANGED <<queue, flashAddr>>
    BY <1>1, <1>2, <1>3, <1>4, <1>5, CloseType
  <1>6. ASSUME NEW b \in Nat, queue' = Append(queue, ReadReq(b)),
               flashAddr' \in {0, flashAddr + 1}, UNCHANGED <<state, session, reported>>
        PROVE  /\ queue' \in Seq(FlashReq) /\ state' \in {"USER", "GET_FILE"}
               /\ flashAddr' \in Nat /\ session' \in Nat
               /\ reported' \in [kind : Reports, name : Names \cup {NoName}, ver : Nat]
    <2>1. queue' \in Seq(FlashReq)
      BY <1>1, <1>6, RequestTypes, AppendType
    <2> QED
      BY <1>1, <1>6, <2>1
  <1>7. NoBytes \in Nat
    BY DEF NoBytes
  <1> QED
    BY <1>1, <1>3, <1>4, <1>5, <1>6, <1>7 DEF GetFileData

LEMMA GetHostFileType ==
    ASSUME TypeOK, NEW blk, GetHostFile(blk)
    PROVE  /\ faults' \in Nat /\ session' \in Nat
           /\ reported' \in [kind : Reports, name : Names \cup {NoName}, ver : Nat]
           /\ UNCHANGED <<queue, state, curFilelength, flashAddr, hostFile>>
  <1>1. "failed" \in Reports /\ faults \in Nat
    BY DEF Reports, TypeOK
  <1> QED
    BY <1>1, CloseType DEF GetHostFile

(* What libdrbcc_put_file works with when it has found room.               *)
LEMMA RoomFound ==
    ASSUME TypeOK, CurAsked, state = "PUT_FILE", NEW x \in TableBlock,
           NEW slot \in FileSlots(x.entries), NEW start \in Placement(x.entries)
    PROVE  /\ slot \in Slot /\ start \in Nat /\ start >= 4
           /\ FileRequests(start, cur.size, cur.ver) \in Seq(FlashReq)
           /\ Len(FileRequests(start, cur.size, cur.ver)) = 2 * cur.size
           /\ \A k \in 1..(2 * cur.size) :
                 LET r == FileRequests(start, cur.size, cur.ver)[k]
                 IN r.op \in {"erase", "data"} /\ r.block \in Nat /\ r.block >= 4
           /\ WithFile(x.entries, slot, cur.name, start, cur.size, cur.ver) \in Table
  <1>1. cur.name \in Names /\ cur.size \in Nat \ {0} /\ cur.ver \in Nat
    BY DEF CurAsked, TypeOK
  <1>2. slot \in Slot
    BY DEF FileSlots, SlotsFor, Matching
  <1>3. start \in Nat /\ start..(start + cur.size - 1) \subseteq DataBlocks
    BY <1>1, StartForFree DEF Placement
  <1>4. start >= 4
    <2>1. start \in start..(start + cur.size - 1)
      BY <1>1, <1>3
    <2>2. start \in DataBlocks
      BY <1>3, <2>1
    <2> QED
      BY <2>2, Blocks DEF DataBlocks
  <1>5. x.entries \in Table
    BY BlockType
  <1>6. WithFile(x.entries, slot, cur.name, start, cur.size, cur.ver) \in Table
    BY <1>1, <1>3, <1>5, WithFileType
  <1> DEFINE F == FileRequests(start, cur.size, cur.ver)
  <1>7. /\ F \in Seq(FlashReq) /\ Len(F) = 2 * cur.size
        /\ \A k \in 1..(2 * cur.size) :
              F[k].op \in {"erase", "data"} /\ F[k].block \in Nat /\ F[k].block >= start
    BY <1>1, <1>3, FileRequestsType
  <1> HIDE DEF F
  <1>8. \A k \in 1..(2 * cur.size) :
           F[k].op \in {"erase", "data"} /\ F[k].block \in Nat /\ F[k].block >= 4
    BY <1>3, <1>4, <1>7
  <1> QED
    BY <1>2, <1>3, <1>4, <1>6, <1>7, <1>8 DEF F

LEMMA BeginStoreType ==
    ASSUME TypeOK, NEW x \in TableBlock, BeginStore(x.entries)
    PROVE  touched' \subseteq Nat /\ begun' \subseteq Nat
  <1>1. \A i \in Slot : x.entries[i].ver \in Nat
    <2>1. x.entries \in Table
      BY BlockType
    <2> QED
      BY <2>1 DEF Table, Entry
  <1>2. cur.ver \in Nat /\ touched \subseteq Nat /\ begun \subseteq Nat
    BY DEF TypeOK
  <1> QED
    BY <1>1, <1>2 DEF BeginStore, Matching

LEMMA PutHandlerType ==
    ASSUME TypeOK, CurAsked, state = "PUT_FILE", NEW blk, NEW x \in TableBlock,
           \/ (PutFails(blk, x) \/ PutStores(blk, x)) /\ UNCHANGED faults
           \/ PutHostFile(blk, x)
    PROVE  /\ queue' \in Seq(FlashReq) /\ state' \in {state, "USER"}
           /\ session' \in Nat /\ faults' \in Nat
           /\ reported' \in [kind : Reports, name : Names \cup {NoName}, ver : Nat]
           /\ begun' \subseteq Nat /\ touched' \subseteq Nat
  <1> DEFINE Goal == /\ queue' \in Seq(FlashReq) /\ state' \in {state, "USER"}
                     /\ session' \in Nat /\ faults' \in Nat
                     /\ reported' \in [kind : Reports, name : Names \cup {NoName}, ver : Nat]
                     /\ begun' \subseteq Nat /\ touched' \subseteq Nat
  <1>1. /\ queue \in Seq(FlashReq) /\ session \in Nat /\ faults \in Nat
        /\ reported \in [kind : Reports, name : Names \cup {NoName}, ver : Nat]
        /\ begun \subseteq Nat /\ touched \subseteq Nat
    BY DEF TypeOK
  <1>2. "failed" \in Reports
    BY DEF Reports
  <1>3. CASE PutFails(blk, x) /\ UNCHANGED faults
    <2>1. Close("failed") /\ UNCHANGED <<queue, begun, touched>> /\ state' \in {state, "USER"}
      BY <1>3 DEF PutFails
    <2> QED
      BY <1>1, <1>2, <1>3, <2>1, CloseType
  <1>4. CASE PutStores(blk, x) /\ UNCHANGED faults
    <2>1. PICK slot \in FileSlots(x.entries), start \in Placement(x.entries) :
             queue' = queue \o FileRequests(start, cur.size, cur.ver)
                         \o StoreTable(Valid(WithFile(x.entries, slot, cur.name, start,
                                                      cur.size, cur.ver)))
      BY <1>4 DEF PutStores
    <2> DEFINE F == FileRequests(start, cur.size, cur.ver)
               W == WithFile(x.entries, slot, cur.name, start, cur.size, cur.ver)
    <2>2. F \in Seq(FlashReq) /\ W \in Table
      BY RoomFound
    <2>3. queue' = queue \o F \o StoreTable(Valid(W))
      BY <2>1
    <2> HIDE DEF F, W
    <2>4. queue \o F \in Seq(FlashReq) /\ StoreTable(Valid(W)) \in Seq(FlashReq)
      BY <1>1, <2>2, ConcatType, TableTypes, StoreTableType
    <2>5. queue' \in Seq(FlashReq)
      BY <2>3, <2>4, ConcatType
    <2>6. BeginStore(x.entries) /\ UNCHANGED <<state, session, reported>>
      BY <1>4 DEF PutStores
    <2> QED
      BY <1>1, <1>4, <2>5, <2>6, BeginStoreType
  <1>5. CASE PutHostFile(blk, x)
    <2>1. PICK slot \in FileSlots(x.entries), start \in Placement(x.entries) :
          \/ UNCHANGED <<queue, state, reported, begun, touched>>
          \/ \E k \in 1..(2 * cur.size) :
                /\ k % 2 = 1
                /\ queue' = queue \o SubSeq(FileRequests(start, cur.size, cur.ver), 1, k)
                /\ state' = "USER"
                /\ reported' = [kind |-> "failed", name |-> cur.name, ver |-> cur.ver]
                /\ BeginStore(x.entries)
      BY <1>5 DEF PutHostFile
    <2>2. faults' = faults + 1 /\ session' = session
      BY <1>5 DEF PutHostFile
    <2>3. CASE UNCHANGED <<queue, state, reported, begun, touched>>
      BY <1>1, <2>2, <2>3
    <2>4. ASSUME NEW k \in 1..(2 * cur.size),
                 queue' = queue \o SubSeq(FileRequests(start, cur.size, cur.ver), 1, k),
                 state' = "USER",
                 reported' = [kind |-> "failed", name |-> cur.name, ver |-> cur.ver],
                 BeginStore(x.entries)
          PROVE  Goal
      <3> DEFINE F == FileRequests(start, cur.size, cur.ver)
      <3>1. F \in Seq(FlashReq) /\ Len(F) = 2 * cur.size
        BY RoomFound
      <3>2. cur.size \in Nat
        BY DEF TypeOK
      <3>3. queue' = queue \o SubSeq(F, 1, k)
        BY <2>4
      <3> HIDE DEF F
      <3>4. SubSeq(F, 1, k) \in Seq(FlashReq)
        BY <3>1, <3>2
      <3>5. queue' \in Seq(FlashReq)
        BY <1>1, <3>3, <3>4, ConcatType
      <3>6. reported' \in [kind : Reports, name : Names \cup {NoName}, ver : Nat]
        BY <1>2, <2>4, ReportTypes
      <3> QED
        BY <1>1, <2>2, <2>4, <3>5, <3>6, BeginStoreType
    <2> QED
      BY <2>1, <2>3, <2>4
  <1> QED
    BY <1>3, <1>4, <1>5

LEMMA DispatchType ==
    ASSUME TypeOK, CurAsked, Dispatch
    PROVE  TypeOK' /\ CurAsked'
  <1> DEFINE r == Head(results)
             blk == IF r.block = 1 THEN 0 ELSE r.block
  <1>1. /\ results # <<>> /\ results' = Tail(results) /\ retry' = FALSE
        /\ UNCHANGED <<table, data, logRequest, ops, formatted, damaged, overlap, asked>>
    BY DEF Dispatch
  <1>2. /\ r.block \in Nat /\ r.table \in TableBlock /\ r.content \in Nat \X Nat
        /\ results' \in Seq(FlashResult)
    BY <1>1, FirstResult
  <1>3. blk \in Nat
    BY <1>2
  <1>4. \/ /\ state = "PARTITION_REQ"
           /\ GotPartition(blk, r.table)
           /\ UNCHANGED <<cur, curFilelength, curFilestart, hostFile, begun, touched, faults>>
        \/ /\ state = "DELETE_FILE"
           /\ Delete(blk, r.table)
           /\ UNCHANGED <<cur, curFilelength, curFilestart, flashAddr, hostFile, begun,
                          touched, faults>>
        \/ /\ state = "GET_FILE"
           /\ \/ blk = 0 /\ GetFileTable(r.table) /\ UNCHANGED <<hostFile, faults>>
              \/ /\ blk # 0
                 /\ GetFileData(blk, r.content)
                 /\ UNCHANGED <<cur, curFilestart, faults>>
              \/ GetHostFile(blk) /\ UNCHANGED <<cur, curFilestart>>
           /\ UNCHANGED <<begun, touched>>
        \/ /\ state = "PUT_FILE"
           /\ \/ (PutFails(blk, r.table) \/ PutStores(blk, r.table)) /\ UNCHANGED faults
              \/ PutHostFile(blk, r.table)
           /\ UNCHANGED <<cur, curFilelength, curFilestart, flashAddr, hostFile>>
        \/ /\ state = "USER"
           /\ Close("failed")
           /\ UNCHANGED <<queue, state, cur, curFilelength, curFilestart, flashAddr,
                          hostFile, begun, touched, faults>>
    BY DEF Dispatch
  <1>5. "failed" \in Reports /\ "USER" \in States /\ "GET_FILE" \in States
    BY DEF Reports, States
  <1> HIDE DEF r, blk
  <1>6. CASE /\ state = "PARTITION_REQ"
             /\ GotPartition(blk, r.table)
             /\ UNCHANGED <<cur, curFilelength, curFilestart, hostFile, begun, touched, faults>>
    <2>1. TypeOK'
      BY <1>1, <1>2, <1>5, <1>6, GotPartitionType DEF TypeOK
    <2> QED
      BY <1>1, <1>2, <1>6, <2>1, GotPartitionType, CurKept
  <1>7. CASE /\ state = "DELETE_FILE"
             /\ Delete(blk, r.table)
             /\ UNCHANGED <<cur, curFilelength, curFilestart, flashAddr, hostFile, begun,
                            touched, faults>>
    <2>1. TypeOK'
      BY <1>1, <1>2, <1>7, DeleteType DEF TypeOK
    <2> QED
      BY <1>1, <1>2, <1>7, <2>1, DeleteType, CurKept
  <1>8. CASE /\ state = "GET_FILE"
             /\ blk = 0 /\ GetFileTable(r.table) /\ UNCHANGED <<hostFile, faults>>
             /\ UNCHANGED <<begun, touched>>
    <2>1. TypeOK'
      BY <1>1, <1>2, <1>5, <1>8, GetFileTableType DEF TypeOK
    <2> QED
      BY <1>1, <1>2, <1>8, <2>1, GetFileTableType, CurKept
  <1>9. CASE /\ state = "GET_FILE"
             /\ blk # 0
             /\ GetFileData(blk, r.content)
             /\ UNCHANGED <<cur, curFilestart, faults>>
             /\ UNCHANGED <<begun, touched>>
    <2>1. TypeOK'
      BY <1>1, <1>2, <1>3, <1>5, <1>9, GetFileDataType DEF TypeOK
    <2> QED
      BY <1>1, <1>2, <1>3, <1>9, <2>1, GetFileDataType, CurKept
  <1>10. CASE /\ state = "PUT_FILE"
              /\ \/ (PutFails(blk, r.table) \/ PutStores(blk, r.table)) /\ UNCHANGED faults
                 \/ PutHostFile(blk, r.table)
              /\ UNCHANGED <<cur, curFilelength, curFilestart, flashAddr, hostFile>>
    <2>1. /\ queue' \in Seq(FlashReq) /\ state' \in {state, "USER"}
          /\ session' \in Nat /\ faults' \in Nat
          /\ reported' \in [kind : Reports, name : Names \cup {NoName}, ver : Nat]
          /\ begun' \subseteq Nat /\ touched' \subseteq Nat
      BY <1>2, <1>10, PutHandlerType
    <2>2. TypeOK'
      BY <1>1, <1>2, <1>5, <1>10, <2>1 DEF TypeOK
    <2> QED
      BY <1>1, <1>10, <2>1, <2>2, CurKept
  <1>11. CASE /\ state = "USER"
              /\ Close("failed")
              /\ UNCHANGED <<queue, state, cur, curFilelength, curFilestart, flashAddr,
                             hostFile, begun, touched, faults>>
    <2>1. TypeOK'
      BY <1>1, <1>2, <1>5, <1>11, CloseType DEF TypeOK
    <2> QED
      BY <1>1, <1>11, <2>1, CurKept
  <1>12. CASE /\ state = "GET_FILE"
              /\ GetHostFile(blk) /\ UNCHANGED <<cur, curFilestart>>
              /\ UNCHANGED <<begun, touched>>
    <2>1. TypeOK'
      BY <1>1, <1>2, <1>12, GetHostFileType DEF TypeOK
    <2> QED
      BY <1>1, <1>12, <2>1, GetHostFileType, CurKept
  <1> QED
    BY <1>4, <1>6, <1>7, <1>8, <1>9, <1>10, <1>11, <1>12

LEMMA WriteResultType ==
    ASSUME TypeOK, CurAsked, WriteResult
    PROVE  TypeOK' /\ CurAsked'
  <1>1. /\ results # <<>> /\ results' = Tail(results) /\ asked' = asked
        /\ UNCHANGED <<queue, cur, curFilestart, flashAddr, retry, hostFile, begun, touched>>
        /\ Unchanged
    BY DEF WriteResult, Unchanged
  <1>2. results' \in Seq(FlashResult)
    BY <1>1, FirstResult
  <1>3. {"deleted", "failed", "put"} \subseteq Reports /\ "USER" \in States
    BY DEF Reports, States
  <1>4. curFilelength \in Nat /\ curFilelength + 1 \in Nat /\ session \in Nat
        /\ reported \in [kind : Reports, name : Names \cup {NoName}, ver : Nat]
    BY DEF TypeOK
  <1>5. /\ state' \in {state, "USER"}
        /\ curFilelength' \in {curFilelength, curFilelength + 1}
        /\ \/ UNCHANGED <<session, reported>>
           \/ Close("deleted") \/ Close("failed") \/ Close("put")
    BY DEF WriteResult
  <1>6. /\ session' \in Nat
        /\ reported' \in [kind : Reports, name : Names \cup {NoName}, ver : Nat]
    BY <1>3, <1>4, <1>5, CloseType
  <1>7. TypeOK'
    BY <1>1, <1>2, <1>3, <1>4, <1>5, <1>6 DEF TypeOK, Unchanged
  <1> QED
    BY <1>1, <1>5, <1>7, CurKept

LEMMA EraseResultType ==
    ASSUME TypeOK, CurAsked, EraseResult
    PROVE  TypeOK' /\ CurAsked'
  <1>1. results' \in Seq(FlashResult)
    BY FirstResult DEF EraseResult
  <1>2. "erased" \in Reports
    BY DEF Reports
  <1>3. /\ session' \in Nat
        /\ reported' \in [kind : Reports, name : Names \cup {NoName}, ver : Nat]
    BY <1>2, CloseType DEF EraseResult, TypeOK
  <1>4. TypeOK'
    BY <1>1, <1>3 DEF EraseResult, TypeOK, Unchanged
  <1> QED
    BY <1>4, CurKept DEF EraseResult, Unchanged

LEMMA LogResultType ==
    ASSUME TypeOK, CurAsked, LogResult
    PROVE  TypeOK' /\ CurAsked'
  <1>1. results' \in Seq(FlashResult)
    BY FirstResult DEF LogResult
  <1>2. "logged" \in Reports
    BY DEF Reports
  <1>3. /\ session' \in Nat
        /\ reported' \in [kind : Reports, name : Names \cup {NoName}, ver : Nat]
    BY <1>2, CloseType DEF LogResult, TypeOK
  <1>4. TypeOK'
    BY <1>1, <1>3 DEF LogResult, TypeOK, Unchanged
  <1> QED
    BY <1>4, CurKept DEF LogResult, Unchanged

LEMMA NextType == TypeOK /\ CurAsked /\ [Next]_vars => TypeOK' /\ CurAsked'
  <1> SUFFICES ASSUME TypeOK, CurAsked, [Next]_vars PROVE TypeOK' /\ CurAsked'
    OBVIOUS
  <1>1. CASE HostRequest
    <2>1. \A n \in Names : n \in Names \cup {NoName} /\ 0 \in 0..Slots
      BY TableAssumption
    <2>2. \A i \in Slot : i \in 0..Slots /\ i # 0
      BY TableAssumption DEF Slot
    <2>3. ASSUME NEW n \in Names, DeleteFile(n, 0) \/ GetFile(n, 0) PROVE TypeOK' /\ CurAsked'
      BY <2>1, <2>3, DeleteFileType, GetFileType
    <2>4. ASSUME NEW i \in Slot, DeleteFile(NoName, i) \/ GetFile(NoName, i)
          PROVE  TypeOK' /\ CurAsked'
      BY <2>2, <2>4, DeleteFileType, GetFileType
    <2> QED
      BY <1>1, <2>3, <2>4, GetPartitiontableType, PutLogType, PutFileType DEF HostRequest
  <1>2. CASE HostResult
    BY <1>2, ReadBackupType, RestoreTableType, DispatchType, WriteResultType,
       EraseResultType, LogResultType DEF HostResult
  <1>3. CASE Execute \/ ExecuteLog
    BY <1>3, ExecuteType, ExecuteLogType
  <1>4. CASE Fault
    BY <1>4, BadWriteType, CrashType, CrashInWriteType, ToggleErrorType DEF Fault
  <1>5. CASE UNCHANGED vars
    BY <1>5 DEF vars, hostVars, historyVars, TypeOK, CurAsked
  <1> QED
    BY <1>1, <1>2, <1>3, <1>4, <1>5 DEF Next

(* The types of all variables, for any flash and any sequence of requests, *)
(* results and faults.                                                     *)
THEOREM FlashTypeCorrect == Spec => []TypeOK
  BY InitType, NextType, PTL DEF Spec

-----------------------------------------------------------------------------
(* The safety of the table: one lemma per kind of step.                    *)

LEMMA SeqTypes ==
    ASSUME TypeOK
    PROVE  /\ Len(queue) \in Nat /\ DOMAIN queue = 1..Len(queue)
           /\ Len(results) \in Nat /\ DOMAIN results = 1..Len(results)
           /\ \A i \in 1..Len(queue) : queue[i] \in FlashReq
           /\ \A k \in 1..Len(results) : results[k] \in FlashResult
  BY DEF TypeOK

LEMMA Pending ==
    ASSUME TypeOK
    PROVE  TableReadPending <=> \/ \E i \in 1..Len(queue) : TableRead(queue[i])
                                \/ \E k \in 1..Len(results) : TableRead(results[k])
  BY SeqTypes DEF TableReadPending, TableRead

LEMMA OneStepMore ==
    ASSUME NEW a, NEW b, NEW p, NEW q, p \subseteq q, OneStep(a, b, p)
    PROVE  OneStep(a, b, q)
  BY DEF OneStep

LEMMA FreshFiles ==
    /\ FilesOf(FreshTable) = {} /\ NamesOnce(FreshTable)
    /\ FilesOf(Blank.entries) = {} /\ NamesOnce(Blank.entries)
  <1>1. RingLog \notin Names /\ PersLog \notin Names /\ NoName \notin Names
    BY TableAssumption
  <1>2. \A i \in Slot : FreshTable[i].name \in {RingLog, PersLog, NoName}
    BY DEF FreshTable, EmptyEntry
  <1>3. \A i \in Slot : Blank.entries[i].name = NoName
    BY TableTypes DEF EmptyEntry
  <1> QED
    BY <1>1, <1>2, <1>3 DEF FilesOf, NamesOnce

(* No table is queued that was not queued before.                          *)
LEMMA NoFilesKept ==
    ASSUME NoFilesYet, UNCHANGED <<table, formatted>>,
           \A i \in 1..Len(queue') : queue'[i].op = "table" =>
               \E j \in 1..Len(queue) : queue[j] = queue'[i]
    PROVE  NoFilesYet'
  BY DEF NoFilesYet

LEMMA InitSafe == Init => Safe
  <1> SUFFICES ASSUME Init PROVE Safe
    OBVIOUS
  <1>1. /\ queue = <<>> /\ results = <<>> /\ Len(queue) = 0 /\ Len(results) = 0
        /\ retry = FALSE /\ state = "USER" /\ formatted \in BOOLEAN
    BY DEF Init
  <1>2. \A b \in {0, 1} : table[b] = IF formatted THEN Valid(FreshTable) ELSE Blank
    BY DEF Init
  <1>3. /\ Valid(FreshTable).magic /\ Valid(FreshTable).crc /\ ~Blank.magic
        /\ Valid(FreshTable).entries = FreshTable
    BY TableTypes
  <1>4. 0 \in {0, 1} /\ 1 \in {0, 1}
    OBVIOUS
  <1>5. table[0] = table[1]
    BY <1>2, <1>4
  <1>6. \A i \in 1..0 : FALSE
    OBVIOUS
  <1>7. TablesGood
    BY <1>1, <1>2, <1>3, <1>6, FreshFiles DEF TablesGood
  <1>8. EraseThenWrite /\ BackupFirst
    BY <1>1, <1>6 DEF EraseThenWrite, BackupFirst
  <1>9. OneTable
    BY <1>1, <1>2, <1>3, <1>4, <1>6 DEF OneTable, Effective
  <1>10. CopyOfBackup
    BY <1>1, <1>6 DEF CopyOfBackup
  <1>11. StepsOnly
    BY <1>1, <1>5, <1>6 DEF StepsOnly, OneStep
  <1>12. NoFilesYet
    BY <1>1, <1>2, <1>3, <1>4, <1>6, FreshFiles DEF NoFilesYet
  <1>13. ReadIsLast /\ RetryMeans
    BY <1>1 DEF ReadIsLast, RetryMeans, Busy
  <1> QED
    BY <1>7, <1>8, <1>9, <1>10, <1>11, <1>12, <1>13 DEF Safe

(* A step that changes neither the flash nor the queue, and the results    *)
(* only by one that is not of a read.                                      *)
LEMMA QuietSafe ==
    ASSUME TypeOK, TypeOK', Safe,
           UNCHANGED <<table, queue, retry, formatted, asked>>,
           state' \in {state, "USER"}, NEW d \in {0, 1},
           \A k \in 1..Len(results') : results'[k].op = "read" =>
               k + d \in 1..Len(results) /\ results[k + d] = results'[k],
           \A k \in 1..Len(results) : results[k].op = "read" =>
               k - d \in 1..Len(results') /\ results'[k - d] = results[k]
    PROVE  Safe'
  <1>1. Len(queue) \in Nat /\ Len(results) \in Nat /\ Len(results') \in Nat
    BY SeqTypes, SMTT(30) DEF TypeOK
  <1>2. \A k \in 1..Len(results') : TableRead(results'[k]) =>
           k + d \in 1..Len(results) /\ results[k + d] = results'[k] /\ TableRead(results[k + d])
    BY DEF TableRead
  <1>3. \A k \in 1..Len(results) : TableRead(results[k]) =>
           k - d \in 1..Len(results') /\ results'[k - d] = results[k]
    BY DEF TableRead
  <1>4. TablesGood'
    BY DEF Safe, TablesGood
  <1>5. EraseThenWrite'
    BY DEF Safe, EraseThenWrite
  <1>6. BackupFirst'
    BY <1>2 DEF Safe, BackupFirst
  <1>7. OneTable'
    BY DEF Safe, OneTable, Effective
  <1>8. CopyOfBackup'
    BY <1>2 DEF Safe, CopyOfBackup
  <1>9. StepsOnly'
    BY DEF Safe, StepsOnly
  <1>10. NoFilesYet'
    BY DEF Safe, NoFilesYet
  <1>11. Busy' => Busy
    BY DEF Busy
  <1>12. ReadIsLast'
    <2> SUFFICES ASSUME Busy'
                 PROVE  /\ \A i \in 1..Len(queue) : TableRead(queue[i]) =>
                              /\ i = Len(queue)
                              /\ \A k \in 1..Len(results') : ~TableRead(results'[k])
                              /\ queue[i].block = 1 => i = 1 /\ ~table[0].magic
                        /\ \A k \in 1..Len(results') : TableRead(results'[k]) =>
                              /\ queue = <<>>
                              /\ results'[k].table = table[results'[k].block]
                              /\ \A l \in 1..Len(results') : l > k => results'[l].op # "read"
                              /\ results'[k].block = 1 => ~table[0].magic
      BY DEF ReadIsLast
    <2>1. ReadIsLast /\ Busy
      BY <1>11 DEF Safe
    <2>2. ASSUME NEW k \in 1..Len(results'), TableRead(results'[k]),
                 NEW l \in 1..Len(results'), l > k
          PROVE  results'[l].op # "read"
      <3>1. SUFFICES ASSUME results'[l].op = "read" PROVE FALSE
        OBVIOUS
      <3>2. l + d \in 1..Len(results) /\ results[l + d].op = "read"
        BY <3>1
      <3>3. k + d \in 1..Len(results) /\ TableRead(results[k + d]) /\ l + d > k + d
        BY <1>2, <2>2
      <3> QED
        BY <2>1, <3>2, <3>3 DEF ReadIsLast
    <2> QED
      BY <1>2, <2>1, <2>2 DEF ReadIsLast
  <1>13. RetryMeans'
    <2>1. TableReadPending => TableReadPending'
      <3>1. TableReadPending' <=> \/ \E i \in 1..Len(queue') : TableRead(queue'[i])
                                  \/ \E k \in 1..Len(results') : TableRead(results'[k])
        <4>1. DOMAIN queue' = 1..Len(queue') /\ DOMAIN results' = 1..Len(results')
          BY DEF TypeOK
        <4> QED
          BY <4>1 DEF TableReadPending, TableRead
      <3> QED
        BY <1>3, <3>1, Pending
    <2> QED
      BY <1>2, <1>11, <2>1 DEF Safe, RetryMeans
  <1> QED
    BY <1>4, <1>5, <1>6, <1>7, <1>8, <1>9, <1>10, <1>12, <1>13 DEF Safe

(* A request begins while no table read of an earlier one is under way.    *)
LEMMA BeginSafe ==
    ASSUME TypeOK, TypeOK', Safe, ~TableReadPending,
           UNCHANGED <<table, results, retry, formatted>>, asked \subseteq asked',
           queue' = Append(queue, ReadReq(0))
    PROVE  Safe'
  <1> DEFINE n == Len(queue)
  <1>1. /\ n \in Nat /\ Len(queue') = n + 1 /\ queue'[n + 1] = ReadReq(0)
        /\ \A i \in 1..n : queue'[i] = queue[i]
        /\ \A i \in 1..(n + 1) : i \in 1..n \/ i = n + 1
        /\ \A i \in 1..n : i \in 1..(n + 1)
        /\ n + 1 \in 1..(n + 1)
    <2>1. queue \in Seq(FlashReq) /\ ReadReq(0) \in FlashReq
      BY RequestTypes DEF TypeOK
    <2>2. n \in Nat
      BY <2>1
    <2>3. \A i \in 1..n : i \in 1..(n + 1)
      BY <2>2
    <2>4. n + 1 \in 1..(n + 1)
      BY <2>2
    <2> QED
      BY <2>1, <2>2, <2>3, <2>4, AppendType
  <1>2. /\ \A i \in 1..n : ~TableRead(queue[i])
        /\ \A k \in 1..Len(results) : ~TableRead(results[k])
    BY Pending
  <1>3. /\ ReadReq(0).op = "read" /\ ReadReq(0).block = 0 /\ TableRead(ReadReq(0))
        /\ ~Writes(ReadReq(0), 0) /\ ~Writes(ReadReq(0), 1)
        /\ ~TableOf(ReadReq(0), 0) /\ ~TableOf(ReadReq(0), 1)
    BY DEF ReadReq, TableRead, Writes, TableOf
  <1> HIDE DEF n
  <1>4. TablesGood'
    BY <1>1, <1>3 DEF Safe, TablesGood, n
  <1>5. EraseThenWrite'
    <2> SUFFICES ASSUME NEW b \in {0, 1}, NEW i \in 1..(n + 1),
                        queue'[i].op = "erase" /\ queue'[i].block = b
                 PROVE  \E j \in 1..(n + 1) : i < j /\ TableOf(queue'[j], b)
      BY <1>1 DEF EraseThenWrite
    <2>1. i \in 1..n /\ queue[i].op = "erase" /\ queue[i].block = b
      BY <1>1, <1>3
    <2>2. PICK j \in 1..n : i < j /\ TableOf(queue[j], b)
      BY <2>1 DEF Safe, EraseThenWrite, n
    <2> QED
      BY <1>1, <2>2
  <1>6. BackupFirst'
    <2> SUFFICES ASSUME NEW i \in 1..(n + 1), Writes(queue'[i], 1),
                        NEW j \in 1..(n + 1), j < i
                 PROVE  ~TableRead(queue'[j]) /\ ~Writes(queue'[j], 0)
      BY <1>1, <1>2 DEF BackupFirst
    <2>1. i \in 1..n /\ Writes(queue[i], 1)
      BY <1>1, <1>3
    <2>2. j \in 1..n
      BY <1>1, <2>1
    <2> QED
      BY <1>1, <2>1, <2>2 DEF Safe, BackupFirst, n
  <1>7. OneTable'
    BY <1>1, <1>3 DEF Safe, OneTable, Effective, n
  <1>8. CopyOfBackup'
    BY <1>1, <1>3 DEF Safe, CopyOfBackup, n
  <1>9. StepsOnly'
    BY <1>1, <1>3, OneStepMore DEF Safe, StepsOnly, n
  <1>10. NoFilesYet'
    BY <1>1, <1>3 DEF Safe, NoFilesYet, n
  <1>11. ReadIsLast'
    BY <1>1, <1>2, <1>3 DEF ReadIsLast
  <1>12. RetryMeans'
    BY DEF Safe, RetryMeans
  <1> QED
    BY <1>4, <1>5, <1>6, <1>7, <1>8, <1>9, <1>10, <1>11, <1>12 DEF Safe

(* The host process ends: whatever was under way, the flash has a table.   *)
LEMMA CrashSafe ==
    ASSUME TypeOK, Safe, UNCHANGED <<table, formatted, asked>>,
           queue' = <<>>, results' = <<>>, retry' = FALSE, state' = "USER"
    PROVE  Safe'
  <1>1. Len(queue') = 0 /\ Len(results') = 0 /\ \A i \in 1..0 : FALSE
    OBVIOUS
  <1>2. formatted => Effective.magic
    BY DEF Safe, OneTable, Effective
  <1>3. TablesGood' /\ EraseThenWrite' /\ BackupFirst'
    BY <1>1 DEF Safe, TablesGood, EraseThenWrite, BackupFirst
  <1>4. OneTable'
    BY <1>1, <1>2 DEF OneTable, Effective
  <1>5. CopyOfBackup' /\ StepsOnly' /\ NoFilesYet'
    BY <1>1 DEF Safe, CopyOfBackup, StepsOnly, NoFilesYet
  <1>6. ReadIsLast' /\ RetryMeans'
    BY <1>1 DEF ReadIsLast, RetryMeans, Busy
  <1> QED
    BY <1>3, <1>4, <1>5, <1>6 DEF Safe

(* The result of a read is handled and no table is written: what is queued *)
(* are requests for data blocks and reads.                                 *)
LEMMA ExtendSafe ==
    ASSUME TypeOK, TypeOK', Safe, UNCHANGED <<table, formatted, asked>>,
           results # <<>>, results' = Tail(results), retry' = FALSE,
           Len(queue') >= Len(queue),
           \A i \in 1..Len(queue) : queue'[i] = queue[i],
           \A i \in 1..Len(queue') : i > Len(queue) =>
               queue'[i].op # "table" /\ ~Writes(queue'[i], 0) /\ ~Writes(queue'[i], 1),
           Busy' => Busy /\ queue' = queue
    PROVE  Safe'
  <1> DEFINE n == Len(queue)
             m == Len(queue')
  <1>1. n \in Nat /\ m \in Nat /\ n <= m
    BY SeqTypes, SMTT(30) DEF TypeOK
  <1>2. /\ Len(results) \in Nat /\ Len(results') = Len(results) - 1
        /\ \A k \in 1..Len(results') : k + 1 \in 1..Len(results) /\ results'[k] = results[k + 1]
    <2>1. results \in Seq(FlashResult)
      BY DEF TypeOK
    <2> QED
      BY <2>1, HeadType
  <1>3. \A i \in 1..m : i \in 1..n \/ i > n
    BY <1>1
  <1>4. \A i \in 1..n : i \in 1..m
    BY <1>1
  <1>5. \A r, b : TableOf(r, b) => Writes(r, b) /\ r.op = "table"
    BY DEF TableOf, Writes
  <1>6. \A b \in {0, 1}, i \in 1..m : Writes(queue'[i], b) => i \in 1..n /\ queue'[i] = queue[i]
    BY <1>3
  <1>7. \A i \in 1..m : queue'[i].op = "table" => i \in 1..n /\ queue'[i] = queue[i]
    BY <1>3
  <1> HIDE DEF n, m
  <1>8. TablesGood'
    BY <1>7 DEF Safe, TablesGood, n, m
  <1>9. EraseThenWrite'
    <2> SUFFICES ASSUME NEW b \in {0, 1}, NEW i \in 1..m,
                        queue'[i].op = "erase" /\ queue'[i].block = b
                 PROVE  \E j \in 1..m : i < j /\ TableOf(queue'[j], b)
      BY DEF EraseThenWrite, m
    <2>1. i \in 1..n /\ queue[i].op = "erase" /\ queue[i].block = b
      BY <1>6 DEF Writes
    <2>2. PICK j \in 1..n : i < j /\ TableOf(queue[j], b)
      BY <2>1 DEF Safe, EraseThenWrite, n
    <2> QED
      BY <1>4, <2>2 DEF n
  <1>10. BackupFirst'
    <2> SUFFICES ASSUME NEW i \in 1..m, Writes(queue'[i], 1)
                 PROVE  /\ \A k \in 1..Len(results') : ~TableRead(results'[k])
                        /\ \A j \in 1..m : j < i =>
                              ~TableRead(queue'[j]) /\ ~Writes(queue'[j], 0)
      BY DEF BackupFirst, m
    <2>1. i \in 1..n /\ Writes(queue[i], 1)
      BY <1>6
    <2>2. \A j \in 1..m : j < i => j \in 1..n /\ queue'[j] = queue[j]
      BY <1>1, <1>3, <2>1 DEF n
    <2>3. BackupFirst
      BY DEF Safe
    <2> QED
      BY <1>2, <2>1, <2>2, <2>3 DEF BackupFirst, n
  <1>11. OneTable'
    BY <1>4, <1>6 DEF Safe, OneTable, Effective, n, m
  <1>12. CopyOfBackup'
    <2>1. \A i \in 1..m, b \in {0, 1} : TableOf(queue'[i], b) =>
             i \in 1..n /\ queue'[i] = queue[i]
      BY <1>5, <1>7
    <2>2. CopyOfBackup
      BY DEF Safe
    <2>3. \A i, j \in 1..m : (TableOf(queue'[i], 0) /\ TableOf(queue'[j], 1)) =>
             queue'[i].table = queue'[j].table
      BY <2>1, <2>2 DEF CopyOfBackup, n
    <2>4. ASSUME NEW i \in 1..m, TableOf(queue'[i], 0),
                 \A j \in 1..m : ~TableOf(queue'[j], 1)
          PROVE  queue'[i].table = table[1]
      <3>1. \A j \in 1..n : ~TableOf(queue[j], 1)
        BY <1>4, <2>4 DEF n
      <3> QED
        BY <2>1, <2>2, <2>4, <3>1 DEF CopyOfBackup, n
    <2>5. \A k \in 1..Len(results') : (TableRead(results'[k]) /\ results'[k].block = 1) =>
             results'[k].table = table[1]
      BY <1>2, <2>2 DEF CopyOfBackup
    <2> QED
      BY <2>3, <2>4, <2>5 DEF CopyOfBackup, m
  <1>13. StepsOnly'
    BY <1>5, <1>7 DEF Safe, StepsOnly, n, m
  <1>14. NoFilesYet'
    BY <1>7 DEF Safe, NoFilesYet, n, m
  <1>15. ReadIsLast'
    <2>1. CASE ~Busy'
      BY <2>1 DEF ReadIsLast
    <2>2. CASE Busy'
      <3>1. Busy /\ queue' = queue /\ ReadIsLast
        BY <2>2 DEF Safe
      <3>2. ASSUME NEW k \in 1..Len(results'), TableRead(results'[k]),
                   NEW l \in 1..Len(results'), l > k
            PROVE  results'[l].op # "read"
        <4>1. k + 1 \in 1..Len(results) /\ l + 1 \in 1..Len(results) /\ l + 1 > k + 1
          BY <1>2, <3>2
        <4> QED
          BY <1>2, <3>1, <3>2, <4>1 DEF ReadIsLast
      <3> QED
        BY <1>2, <3>1, <3>2 DEF ReadIsLast
    <2> QED
      BY <2>1, <2>2
  <1>16. RetryMeans'
    BY DEF RetryMeans
  <1> QED
    BY <1>8, <1>9, <1>10, <1>11, <1>12, <1>13, <1>14, <1>15, <1>16 DEF Safe

LEMMA PendingNow ==
    ASSUME TypeOK'
    PROVE  TableReadPending' <=> \/ \E i \in 1..Len(queue') : TableRead(queue'[i])
                                 \/ \E k \in 1..Len(results') : TableRead(results'[k])
  <1>1. DOMAIN queue' = 1..Len(queue') /\ DOMAIN results' = 1..Len(results')
    BY DEF TypeOK
  <1> QED
    BY <1>1 DEF TableReadPending, TableRead

(* The result of a table read that is handled is the only one under way.   *)
LEMMA HandledRead ==
    ASSUME TypeOK, Safe, results # <<>>, TableRead(Head(results))
    PROVE  /\ Len(results) \in Nat /\ 1 \in 1..Len(results) /\ Head(results) = results[1]
           /\ Len(Tail(results)) = Len(results) - 1
           /\ \A k \in 1..Len(Tail(results)) :
                 k + 1 \in 1..Len(results) /\ Tail(results)[k] = results[k + 1]
           /\ \A i \in 1..Len(queue) : ~Writes(queue[i], 1)
           /\ Busy => /\ queue = <<>>
                      /\ Head(results).table = table[Head(results).block]
                      /\ \A k \in 1..Len(Tail(results)) : ~TableRead(Tail(results)[k])
                      /\ Head(results).block = 1 => ~table[0].magic
           /\ Head(results).block = 1 => Head(results).table = table[1]
  <1>1. results \in Seq(FlashResult)
    BY DEF TypeOK
  <1>2. /\ Len(results) \in Nat /\ 1 \in 1..Len(results) /\ Head(results) = results[1]
        /\ Len(Tail(results)) = Len(results) - 1
        /\ \A k \in 1..Len(Tail(results)) :
              k + 1 \in 1..Len(results) /\ Tail(results)[k] = results[k + 1]
    <2>1. Len(results) \in Nat /\ Len(results) > 0
      BY <1>1, HeadType
    <2>2. 1 \in 1..Len(results)
      BY <2>1
    <2> QED
      BY <1>1, <2>1, <2>2, HeadType
  <1>3. \A i \in 1..Len(queue) : ~Writes(queue[i], 1)
    BY <1>2 DEF Safe, BackupFirst
  <1>4. Head(results).block = 1 => Head(results).table = table[1]
    BY <1>2 DEF Safe, CopyOfBackup
  <1>5. ASSUME Busy
        PROVE  /\ queue = <<>>
               /\ Head(results).table = table[Head(results).block]
               /\ \A k \in 1..Len(Tail(results)) : ~TableRead(Tail(results)[k])
               /\ Head(results).block = 1 => ~table[0].magic
    <2>1. /\ queue = <<>>
          /\ results[1].table = table[results[1].block]
          /\ \A l \in 1..Len(results) : l > 1 => results[l].op # "read"
          /\ results[1].block = 1 => ~table[0].magic
      BY <1>2, <1>5 DEF Safe, ReadIsLast
    <2>2. \A k \in 1..Len(Tail(results)) : k + 1 > 1
      BY <1>2
    <2> QED
      BY <1>2, <2>1, <2>2 DEF TableRead
  <1> QED
    BY <1>2, <1>3, <1>4, <1>5

(* Block 0 has no table: the backup is read.                               *)
LEMMA ReadBackupSafe ==
    ASSUME TypeOK, TypeOK', Safe, ReadBackup
    PROVE  Safe'
  <1> DEFINE n == Len(queue)
  <1>1. /\ UNCHANGED <<table, state, formatted, asked>> /\ retry' = TRUE
        /\ results # <<>> /\ results' = Tail(results)
        /\ queue' = Append(queue, ReadReq(1))
        /\ TableRead(Head(results)) /\ Head(results).block = 0 /\ ~Head(results).table.magic
    BY DEF ReadBackup, Unchanged, TableRead
  <1>2. /\ n \in Nat /\ Len(queue') = n + 1 /\ queue'[n + 1] = ReadReq(1)
        /\ \A i \in 1..n : queue'[i] = queue[i]
        /\ \A i \in 1..(n + 1) : i \in 1..n \/ i = n + 1
        /\ \A i \in 1..n : i \in 1..(n + 1)
        /\ n + 1 \in 1..(n + 1)
    <2>1. queue \in Seq(FlashReq) /\ ReadReq(1) \in FlashReq
      BY RequestTypes DEF TypeOK
    <2>2. n \in Nat
      BY <2>1
    <2>3. \A i \in 1..n : i \in 1..(n + 1)
      BY <2>2
    <2>4. n + 1 \in 1..(n + 1)
      BY <2>2
    <2> QED
      BY <1>1, <2>1, <2>2, <2>3, <2>4, AppendType
  <1>3. /\ ReadReq(1).op = "read" /\ ReadReq(1).block = 1 /\ TableRead(ReadReq(1))
        /\ ~Writes(ReadReq(1), 0) /\ ~Writes(ReadReq(1), 1)
        /\ ~TableOf(ReadReq(1), 0) /\ ~TableOf(ReadReq(1), 1)
    BY DEF ReadReq, TableRead, Writes, TableOf
  <1>4. /\ \A k \in 1..Len(results') : k + 1 \in 1..Len(results) /\ results'[k] = results[k + 1]
        /\ \A i \in 1..n : ~Writes(queue[i], 1)
        /\ Busy => /\ queue = <<>>
                   /\ Head(results).table = table[Head(results).block]
                   /\ \A k \in 1..Len(results') : ~TableRead(results'[k])
    BY <1>1, HandledRead
  <1>5. Busy => n = 0 /\ ~table[0].magic
    BY <1>1, <1>4
  <1> HIDE DEF n
  <1>6. TablesGood'
    BY <1>1, <1>2, <1>3 DEF Safe, TablesGood, n
  <1>7. EraseThenWrite'
    <2> SUFFICES ASSUME NEW b \in {0, 1}, NEW i \in 1..(n + 1),
                        queue'[i].op = "erase" /\ queue'[i].block = b
                 PROVE  \E j \in 1..(n + 1) : i < j /\ TableOf(queue'[j], b)
      BY <1>2 DEF EraseThenWrite
    <2>1. i \in 1..n /\ queue[i].op = "erase" /\ queue[i].block = b
      BY <1>2, <1>3
    <2>2. PICK j \in 1..n : i < j /\ TableOf(queue[j], b)
      BY <2>1 DEF Safe, EraseThenWrite, n
    <2> QED
      BY <1>2, <2>2
  <1>8. \A i \in 1..(n + 1) : ~Writes(queue'[i], 1)
    BY <1>2, <1>3, <1>4
  <1>9. BackupFirst'
    BY <1>2, <1>8 DEF BackupFirst
  <1>10. OneTable'
    BY <1>1, <1>2, <1>3 DEF Safe, OneTable, Effective, n
  <1>11. CopyOfBackup'
    BY <1>1, <1>2, <1>3, <1>4 DEF Safe, CopyOfBackup, n
  <1>12. StepsOnly'
    BY <1>1, <1>2, <1>3 DEF Safe, StepsOnly, n
  <1>13. NoFilesYet'
    <2>1. \A i \in 1..Len(queue') : queue'[i].op = "table" =>
             \E j \in 1..Len(queue) : queue[j] = queue'[i]
      BY ONLY <1>2, <1>3, "table" # "read" DEF n
    <2> QED
      BY ONLY <1>1, <2>1, Safe, NoFilesKept DEF Safe
  <1>14. Busy' <=> Busy
    BY <1>1 DEF Busy
  <1>15. ReadIsLast'
    <2>1. CASE ~Busy
      BY <1>14, <2>1 DEF ReadIsLast
    <2>2. CASE Busy
      <3>1. \A i \in 1..Len(queue') : i = 1 /\ i = Len(queue')
        BY <1>2, <1>5, <2>2
      <3> QED
        BY <1>1, <1>4, <1>5, <2>2, <3>1 DEF ReadIsLast
    <2> QED
      BY <2>1, <2>2
  <1>16. RetryMeans'
    <2>1. TableReadPending'
      BY <1>2, <1>3, PendingNow
    <2>2. Busy => \A i \in 1..Len(queue') : ~(TableRead(queue'[i]) /\ queue'[i].block = 0)
      <3>1. Busy => \A i \in 1..Len(queue') : i = n + 1
        BY <1>2, <1>5
      <3> QED
        BY <1>2, <1>3, <3>1
    <2> QED
      BY <1>4, <1>14, <2>1, <2>2 DEF RetryMeans
  <1> QED
    BY <1>6, <1>7, <1>9, <1>10, <1>11, <1>12, <1>13, <1>15, <1>16 DEF Safe

(* The backup has a table: it is written to block 0, which is then read.   *)
LEMMA RestoreTableSafe ==
    ASSUME TypeOK, TypeOK', Safe, RestoreTable
    PROVE  Safe'
  <1> DEFINE n == Len(queue)
             x == Head(results).table
             p == <<EraseReq(0), TableReq(0, x), ReadReq(0)>>
  <1>1. /\ UNCHANGED <<table, state, formatted, asked, retry>>
        /\ results # <<>> /\ results' = Tail(results)
        /\ queue' = queue \o p
        /\ TableRead(Head(results)) /\ Head(results).block = 1 /\ x.magic
    BY DEF RestoreTable, Unchanged, TableRead
  <1>2. x \in TableBlock
    BY <1>1, FirstResult
  <1>3. /\ n \in Nat /\ Len(queue') = n + 3
        /\ \A i \in 1..n : queue'[i] = queue[i]
        /\ queue'[n + 1] = EraseReq(0) /\ queue'[n + 2] = TableReq(0, x)
        /\ queue'[n + 3] = ReadReq(0)
    <2>1. queue \in Seq(FlashReq) /\ p \in Seq(FlashReq) /\ Len(p) = 3
      BY <1>2, RestoreSeq DEF TypeOK
    <2>2. p[1] = EraseReq(0) /\ p[2] = TableReq(0, x) /\ p[3] = ReadReq(0)
      OBVIOUS
    <2> HIDE DEF p
    <2>3. 1 \in 1..Len(p) /\ 2 \in 1..Len(p) /\ 3 \in 1..Len(p)
      BY <2>1
    <2>4. /\ Len(queue \o p) = n + 3
          /\ \A i \in 1..n : (queue \o p)[i] = queue[i]
          /\ \A k \in 1..Len(p) : (queue \o p)[n + k] = p[k]
          /\ n \in Nat
      BY <2>1, ConcatType
    <2> QED
      BY <1>1, <2>2, <2>3, <2>4
  <1>4. /\ \A i \in 1..(n + 3) : i \in 1..n \/ i = n + 1 \/ i = n + 2 \/ i = n + 3
        /\ \A i \in 1..n : i \in 1..(n + 3)
        /\ n + 1 \in 1..(n + 3) /\ n + 2 \in 1..(n + 3) /\ n + 3 \in 1..(n + 3)
        /\ n + 1 < n + 2
    BY <1>3
  <1>5. /\ EraseReq(0).op = "erase" /\ EraseReq(0).block = 0 /\ Writes(EraseReq(0), 0)
        /\ ~Writes(EraseReq(0), 1) /\ ~TableRead(EraseReq(0))
        /\ TableReq(0, x).op = "table" /\ TableReq(0, x).block = 0
        /\ Writes(TableReq(0, x), 0) /\ ~Writes(TableReq(0, x), 1)
        /\ ~TableRead(TableReq(0, x)) /\ TableReq(0, x).table = x
        /\ TableOf(TableReq(0, x), 0) /\ ~TableOf(TableReq(0, x), 1)
        /\ ReadReq(0).op = "read" /\ ReadReq(0).block = 0 /\ TableRead(ReadReq(0))
        /\ ~Writes(ReadReq(0), 0) /\ ~Writes(ReadReq(0), 1)
        /\ \A b : ~TableOf(EraseReq(0), b) /\ ~TableOf(ReadReq(0), b)
    BY DEF EraseReq, TableReq, ReadReq, TableRead, Writes, TableOf
  <1>6. /\ \A k \in 1..Len(results') : k + 1 \in 1..Len(results) /\ results'[k] = results[k + 1]
        /\ \A i \in 1..n : ~Writes(queue[i], 1)
        /\ Busy => /\ queue = <<>>
                   /\ \A k \in 1..Len(results') : ~TableRead(results'[k])
        /\ x = table[1]
    BY <1>1, HandledRead
  <1>7. Busy => n = 0
    BY <1>6
  <1>8. \A r : TableOf(r, 1) => Writes(r, 1)
    BY DEF TableOf, Writes
  <1> HIDE DEF n, x, p
  <1>9. \A i \in 1..(n + 3) : ~Writes(queue'[i], 1)
    BY <1>3, <1>4, <1>5, <1>6
  <1>10. TablesGood'
    <2>1. TablesGood /\ 1 \in {0, 1} /\ 0 \in {0, 1}
      BY DEF Safe
    <2>2. x.magic /\ x.crc /\ NamesOnce(x.entries)
      BY <1>1, <1>6, <2>1 DEF TablesGood
    <2>3. ASSUME NEW i \in 1..(n + 3), queue'[i].op = "table"
          PROVE  /\ queue'[i].block \in {0, 1}
                 /\ queue'[i].table.magic /\ queue'[i].table.crc
                 /\ NamesOnce(queue'[i].table.entries)
      <3>1. CASE i \in 1..n
        BY <1>3, <2>1, <2>3, <3>1 DEF TablesGood, n
      <3>2. CASE i = n + 2
        BY <1>3, <1>5, <2>2, <3>2
      <3>3. CASE i = n + 1 \/ i = n + 3
        BY <1>3, <1>5, <2>3, <3>3
      <3> QED
        BY <1>4, <3>1, <3>2, <3>3
    <2> QED
      BY <1>1, <1>3, <2>1, <2>3 DEF TablesGood
  <1>11. EraseThenWrite'
    <2> SUFFICES ASSUME NEW b \in {0, 1}, NEW i \in 1..(n + 3),
                        queue'[i].op = "erase" /\ queue'[i].block = b
                 PROVE  \E j \in 1..(n + 3) : i < j /\ TableOf(queue'[j], b)
      BY <1>3 DEF EraseThenWrite
    <2>1. CASE i \in 1..n
      <3>1. PICK j \in 1..n : i < j /\ TableOf(queue[j], b)
        BY <1>3, <2>1 DEF Safe, EraseThenWrite, n
      <3> QED
        BY <1>3, <1>4, <3>1
    <2>2. CASE i = n + 1
      BY <1>3, <1>4, <1>5, <2>2
    <2>3. CASE i = n + 2 \/ i = n + 3
      BY <1>3, <1>5, <2>3
    <2> QED
      BY <1>4, <2>1, <2>2, <2>3
  <1>12. BackupFirst'
    BY <1>3, <1>9 DEF BackupFirst
  <1>13. OneTable'
    <2>1. \E i \in 1..(n + 3) : Writes(queue'[i], 0)
      BY <1>3, <1>4, <1>5
    <2>2. table'[1].magic
      BY <1>1, <1>6
    <2> QED
      BY <1>3, <1>9, <2>1, <2>2 DEF OneTable
  <1>14. CopyOfBackup'
    <2>1. CopyOfBackup
      BY DEF Safe
    <2>2. \A i \in 1..(n + 3) : ~TableOf(queue'[i], 1)
      BY <1>8, <1>9
    <2>3. \A i \in 1..n : ~TableOf(queue[i], 1)
      BY <1>6, <1>8
    <2>4. ASSUME NEW i \in 1..(n + 3), TableOf(queue'[i], 0)
          PROVE  queue'[i].table = table[1]
      <3>1. CASE i \in 1..n
        BY <1>3, <2>1, <2>3, <2>4, <3>1 DEF CopyOfBackup, n
      <3>2. CASE i = n + 2
        BY <1>3, <1>5, <1>6, <3>2
      <3>3. CASE i = n + 1 \/ i = n + 3
        BY <1>3, <1>5, <2>4, <3>3
      <3> QED
        BY <1>4, <3>1, <3>2, <3>3
    <2>5. \A k \in 1..Len(results') : (TableRead(results'[k]) /\ results'[k].block = 1) =>
             results'[k].table = table[1]
      BY <1>6, <2>1 DEF CopyOfBackup
    <2> QED
      BY <1>1, <1>3, <2>2, <2>4, <2>5 DEF CopyOfBackup
  <1>15. StepsOnly'
    BY <1>1, <1>3, <1>8, <1>9 DEF Safe, StepsOnly
  <1>16. NoFilesYet'
    <2>1. NoFilesYet
      BY DEF Safe
    <2>2. ASSUME ~formatted, NEW i \in 1..(n + 3), queue'[i].op = "table"
          PROVE  FilesOf(queue'[i].table.entries) = {}
      <3>1. CASE i \in 1..n
        BY <1>3, <2>1, <2>2, <3>1 DEF NoFilesYet, n
      <3>2. CASE i = n + 2
        BY <1>3, <1>5, <1>6, <2>1, <2>2, <3>2 DEF NoFilesYet
      <3>3. CASE i = n + 1 \/ i = n + 3
        BY <1>3, <1>5, <2>2, <3>3
      <3> QED
        BY <1>4, <3>1, <3>2, <3>3
    <2> QED
      BY <1>1, <1>3, <2>1, <2>2 DEF NoFilesYet
  <1>17. Busy' <=> Busy
    BY <1>1 DEF Busy
  <1>18. ReadIsLast'
    <2>1. CASE ~Busy
      BY <1>17, <2>1 DEF ReadIsLast
    <2>2. CASE Busy
      <3>1. \A i \in 1..(n + 3) : TableRead(queue'[i]) => i = n + 3 /\ queue'[i].block = 0
        <4>1. \A i \in 1..n : FALSE
          BY <1>7, <2>2
        <4> QED
          BY <1>3, <1>4, <1>5, <4>1
      <3> QED
        BY <1>3, <1>6, <2>2, <3>1 DEF ReadIsLast
    <2> QED
      BY <2>1, <2>2
  <1>19. RetryMeans'
    <2>1. TableReadPending'
      BY <1>3, <1>4, <1>5, PendingNow
    <2>2. \E i \in 1..(n + 3) : TableOf(queue'[i], 0)
      BY <1>3, <1>4, <1>5
    <2> QED
      BY <1>3, <1>6, <1>17, <2>1, <2>2 DEF RetryMeans
  <1> QED
    BY <1>10, <1>11, <1>12, <1>13, <1>14, <1>15, <1>16, <1>18, <1>19 DEF Safe

(* A new table is queued behind the data of its file, and nothing else is  *)
(* under way.                                                              *)
LEMMA StoreSafe ==
    ASSUME TypeOK, TypeOK', Safe, UNCHANGED <<table, formatted, asked>>, retry' = FALSE,
           \A k \in 1..Len(results') : ~TableRead(results'[k]),
           formatted => table[0].magic,
           NEW x, x.magic, x.crc, NamesOnce(x.entries),
           ~formatted => FilesOf(x.entries) = {},
           table[0].magic => OneStep(FilesOf(table[0].entries), FilesOf(x.entries), asked),
           NEW m \in Nat, Len(queue') \in {m + 4, m + 5},
           \A i \in 1..m : /\ queue'[i].op \in {"erase", "data"}
                           /\ queue'[i].block \in Nat /\ queue'[i].block >= 4,
           queue'[m + 1] = EraseReq(1), queue'[m + 2] = TableReq(1, x),
           queue'[m + 3] = EraseReq(0), queue'[m + 4] = TableReq(0, x),
           Len(queue') = m + 5 => queue'[m + 5] = ReadReq(0)
    PROVE  Safe'
  <1> DEFINE n == Len(queue')
  <1>1. /\ \A i \in 1..n : \/ i \in 1..m \/ i = m + 1 \/ i = m + 2 \/ i = m + 3 \/ i = m + 4
                           \/ i = m + 5 /\ n = m + 5
        /\ m + 1 \in 1..n /\ m + 2 \in 1..n /\ m + 3 \in 1..n /\ m + 4 \in 1..n
        /\ m + 1 < m + 2 /\ m + 3 < m + 4
    OBVIOUS
  <1>2. /\ Writes(EraseReq(1), 1) /\ ~Writes(EraseReq(1), 0) /\ ~TableRead(EraseReq(1))
        /\ EraseReq(1).op = "erase" /\ EraseReq(1).block = 1
        /\ \A b : ~TableOf(EraseReq(1), b)
    BY DEF EraseReq, TableRead, Writes, TableOf
  <1>3. /\ Writes(EraseReq(0), 0) /\ ~Writes(EraseReq(0), 1) /\ ~TableRead(EraseReq(0))
        /\ EraseReq(0).op = "erase" /\ EraseReq(0).block = 0
        /\ \A b : ~TableOf(EraseReq(0), b)
    BY DEF EraseReq, TableRead, Writes, TableOf
  <1>4. /\ Writes(TableReq(1, x), 1) /\ ~Writes(TableReq(1, x), 0) /\ ~TableRead(TableReq(1, x))
        /\ TableReq(1, x).op = "table" /\ TableReq(1, x).block = 1
        /\ TableOf(TableReq(1, x), 1) /\ ~TableOf(TableReq(1, x), 0)
        /\ TableReq(1, x).table = x
    BY DEF TableReq, TableRead, Writes, TableOf
  <1>5. /\ Writes(TableReq(0, x), 0) /\ ~Writes(TableReq(0, x), 1) /\ ~TableRead(TableReq(0, x))
        /\ TableReq(0, x).op = "table" /\ TableReq(0, x).block = 0
        /\ TableOf(TableReq(0, x), 0) /\ ~TableOf(TableReq(0, x), 1)
        /\ TableReq(0, x).table = x
    BY DEF TableReq, TableRead, Writes, TableOf
  <1>6. /\ ~Writes(ReadReq(0), 0) /\ ~Writes(ReadReq(0), 1) /\ TableRead(ReadReq(0))
        /\ ReadReq(0).op = "read" /\ ReadReq(0).block = 0
        /\ \A b : ~TableOf(ReadReq(0), b)
    BY DEF ReadReq, TableRead, Writes, TableOf
  <1>7. \A i \in 1..m : /\ ~Writes(queue'[i], 0) /\ ~Writes(queue'[i], 1)
                        /\ ~TableRead(queue'[i]) /\ queue'[i].op # "table"
                        /\ queue'[i].block # 0 /\ queue'[i].block # 1
                        /\ \A b : ~TableOf(queue'[i], b)
    BY DEF Writes, TableRead, TableOf
  <1> HIDE DEF n
  <1>8. ASSUME NEW i \in 1..n
        PROVE  /\ queue'[i].op = "table" => queue'[i].block \in {0, 1} /\ queue'[i].table = x
               /\ \A b \in {0, 1} : (queue'[i].op = "erase" /\ queue'[i].block = b) =>
                     (i = m + 1 /\ b = 1) \/ (i = m + 3 /\ b = 0)
               /\ Writes(queue'[i], 1) => i = m + 1 \/ i = m + 2
               /\ \A b \in {0, 1} : TableOf(queue'[i], b) => queue'[i].table = x
               /\ TableRead(queue'[i]) => i = n /\ queue'[i].block = 0
    <2>1. CASE i \in 1..m
      BY <1>7, <2>1
    <2>2. CASE i = m + 1
      BY <1>2, <2>2
    <2>3. CASE i = m + 2
      BY <1>4, <2>3
    <2>4. CASE i = m + 3
      BY <1>3, <2>4
    <2>5. CASE i = m + 4
      BY <1>5, <2>5
    <2>6. CASE i = m + 5 /\ n = m + 5
      BY <1>6, <2>6 DEF n
    <2> QED
      BY <1>1, <2>1, <2>2, <2>3, <2>4, <2>5, <2>6
  <1>9. TablesGood'
    BY <1>8 DEF Safe, TablesGood, n
  <1>10. EraseThenWrite'
    <2> SUFFICES ASSUME NEW b \in {0, 1}, NEW i \in 1..n,
                        queue'[i].op = "erase" /\ queue'[i].block = b
                 PROVE  \E j \in 1..n : i < j /\ TableOf(queue'[j], b)
      BY DEF EraseThenWrite, n
    <2>1. (i = m + 1 /\ b = 1) \/ (i = m + 3 /\ b = 0)
      BY <1>8
    <2> QED
      BY <1>1, <1>4, <1>5, <2>1
  <1>11. BackupFirst'
    <2> SUFFICES ASSUME NEW i \in 1..n, Writes(queue'[i], 1), NEW j \in 1..n, j < i
                 PROVE  ~TableRead(queue'[j]) /\ ~Writes(queue'[j], 0)
      BY DEF BackupFirst, n
    <2>1. i = m + 1 \/ i = m + 2
      BY <1>8
    <2>2. j \in 1..m \/ j = m + 1
      BY <2>1
    <2> QED
      BY <1>2, <1>7, <2>2
  <1>12. OneTable'
    BY <1>1, <1>2 DEF OneTable, n
  <1>13. CopyOfBackup'
    BY <1>1, <1>4, <1>8 DEF CopyOfBackup, n
  <1>14. StepsOnly'
    BY <1>8 DEF Safe, StepsOnly, n
  <1>15. NoFilesYet'
    BY <1>8 DEF Safe, NoFilesYet, n
  <1>16. ReadIsLast'
    BY <1>8 DEF ReadIsLast, n
  <1>17. RetryMeans'
    BY DEF RetryMeans
  <1> QED
    BY <1>9, <1>10, <1>11, <1>12, <1>13, <1>14, <1>15, <1>16, <1>17 DEF Safe

-----------------------------------------------------------------------------
(* The controller executes the first request.                              *)

LEMMA TailFacts ==
    ASSUME TypeOK, queue # <<>>, queue' = Tail(queue), NEW x \in FlashResult,
           results' = Append(results, x)
    PROVE  /\ Len(queue) \in Nat /\ 1 \in 1..Len(queue) /\ Head(queue) = queue[1]
           /\ Head(queue) \in FlashReq
           /\ Len(queue') = Len(queue) - 1
           /\ \A i \in 1..Len(queue') : i + 1 \in 1..Len(queue) /\ queue'[i] = queue[i + 1]
           /\ \A i \in 1..Len(queue) : i # 1 => i - 1 \in 1..Len(queue') /\ queue'[i - 1] = queue[i]
           /\ Len(results) \in Nat /\ Len(results') = Len(results) + 1
           /\ results'[Len(results) + 1] = x
           /\ \A k \in 1..Len(results) : results'[k] = results[k] /\ k \in 1..Len(results')
           /\ \A k \in 1..Len(results') : k \in 1..Len(results) \/ k = Len(results) + 1
           /\ Len(results) + 1 \in 1..Len(results')
  <1>1. queue \in Seq(FlashReq) /\ results \in Seq(FlashResult)
    BY DEF TypeOK
  <1>2. /\ Head(queue) \in FlashReq /\ Head(queue) = queue[1]
        /\ Len(queue) \in Nat /\ Len(queue) > 0 /\ Len(queue') = Len(queue) - 1
        /\ \A i \in 1..Len(queue') : i + 1 \in 1..Len(queue) /\ queue'[i] = queue[i + 1]
    BY <1>1, HeadType
  <1>3. 1 \in 1..Len(queue)
    BY <1>2
  <1>4. \A i \in 1..Len(queue) : i # 1 => i - 1 \in 1..Len(queue') /\ (i - 1) + 1 = i
    BY <1>2
  <1>5. /\ Len(results) \in Nat /\ Len(results') = Len(results) + 1
        /\ results'[Len(results) + 1] = x
        /\ \A k \in 1..Len(results) : results'[k] = results[k]
        /\ \A k \in 1..(Len(results) + 1) : k \in 1..Len(results) \/ k = Len(results) + 1
    BY <1>1, AppendType
  <1>6. /\ \A k \in 1..Len(results) : k \in 1..Len(results')
        /\ Len(results) + 1 \in 1..Len(results')
    BY <1>5
  <1> QED
    BY <1>2, <1>3, <1>4, <1>5, <1>6

(* What a request for a table block leaves behind in the queue.            *)
LEMMA NeutralSafe ==
    ASSUME TypeOK, TypeOK', Safe, queue # <<>>, queue' = Tail(queue),
           NEW x \in FlashResult, results' = Append(results, x), ~TableRead(x),
           UNCHANGED <<table, formatted, asked, retry, state>>,
           ~TableRead(Head(queue)), ~Writes(Head(queue), 0), ~Writes(Head(queue), 1)
    PROVE  Safe'
  <1> DEFINE n == Len(queue)
             m == Len(queue')
             h == Len(results)
  <1>1. /\ n \in Nat /\ 1 \in 1..n /\ m = n - 1
        /\ \A i \in 1..m : i + 1 \in 1..n /\ queue'[i] = queue[i + 1]
        /\ \A i \in 1..n : i # 1 => i - 1 \in 1..m /\ queue'[i - 1] = queue[i]
    BY TailFacts
  <1>2. /\ h \in Nat /\ results'[h + 1] = x
        /\ \A k \in 1..h : results'[k] = results[k] /\ k \in 1..Len(results')
        /\ \A k \in 1..Len(results') : k \in 1..h \/ k = h + 1
    BY TailFacts
  <1>3. ~TableRead(queue[1]) /\ ~Writes(queue[1], 0) /\ ~Writes(queue[1], 1)
    BY TailFacts
  <1>4. \A r, b : TableOf(r, b) => Writes(r, b)
    BY DEF TableOf, Writes
  <1>5. \A k \in 1..Len(results') : TableRead(results'[k]) =>
           k \in 1..h /\ results'[k] = results[k]
    BY <1>2
  <1> HIDE DEF n, m, h
  <1>6. TablesGood'
    BY <1>1 DEF Safe, TablesGood, n, m
  <1>7. EraseThenWrite'
    <2> SUFFICES ASSUME NEW b \in {0, 1}, NEW i \in 1..m,
                        queue'[i].op = "erase" /\ queue'[i].block = b
                 PROVE  \E j \in 1..m : i < j /\ TableOf(queue'[j], b)
      BY DEF EraseThenWrite, m
    <2>1. PICK j \in 1..n : i + 1 < j /\ TableOf(queue[j], b)
      BY <1>1 DEF Safe, EraseThenWrite, n
    <2>2. j # 1 /\ i < j - 1
      BY <1>1, <2>1
    <2> QED
      BY <1>1, <2>1, <2>2
  <1>8. BackupFirst'
    <2> SUFFICES ASSUME NEW i \in 1..m, Writes(queue'[i], 1)
                 PROVE  /\ \A k \in 1..Len(results') : ~TableRead(results'[k])
                        /\ \A j \in 1..m : j < i =>
                              ~TableRead(queue'[j]) /\ ~Writes(queue'[j], 0)
      BY DEF BackupFirst, m
    <2>1. i + 1 \in 1..n /\ Writes(queue[i + 1], 1) /\ BackupFirst
      BY <1>1 DEF Safe
    <2>2. \A j \in 1..m : j < i => j + 1 < i + 1
      BY <1>1
    <2> QED
      BY <1>1, <1>5, <2>1, <2>2 DEF BackupFirst, n, h
  <1>9. OneTable'
    <2>1. \A b \in {0, 1} : (\E i \in 1..m : Writes(queue'[i], b)) <=>
                            (\E i \in 1..n : Writes(queue[i], b))
      BY <1>1, <1>3
    <2> QED
      BY <2>1 DEF Safe, OneTable, Effective, n, m
  <1>10. CopyOfBackup'
    <2>1. CopyOfBackup
      BY DEF Safe
    <2>2. (\E i \in 1..n : TableOf(queue[i], 1)) => \E i \in 1..m : TableOf(queue'[i], 1)
      BY <1>1, <1>3, <1>4
    <2>3. \A i, j \in 1..m : (TableOf(queue'[i], 0) /\ TableOf(queue'[j], 1)) =>
             queue'[i].table = queue'[j].table
      BY <1>1, <2>1 DEF CopyOfBackup, n
    <2>4. \A i \in 1..m :
             (TableOf(queue'[i], 0) /\ \A j \in 1..m : ~TableOf(queue'[j], 1)) =>
                 queue'[i].table = table[1]
      BY <1>1, <2>1, <2>2 DEF CopyOfBackup, n
    <2>5. \A k \in 1..Len(results') : (TableRead(results'[k]) /\ results'[k].block = 1) =>
             results'[k].table = table[1]
      BY <1>5, <2>1 DEF CopyOfBackup, h
    <2> QED
      BY <2>3, <2>4, <2>5 DEF CopyOfBackup, m
  <1>11. StepsOnly'
    BY <1>1 DEF Safe, StepsOnly, n, m
  <1>12. NoFilesYet'
    <2>1. \A i \in 1..Len(queue') : queue'[i].op = "table" =>
             \E j \in 1..Len(queue) : queue[j] = queue'[i]
      BY ONLY <1>1 DEF n, m
    <2> QED
      BY ONLY <2>1, Safe, NoFilesKept, UNCHANGED <<table, formatted>> DEF Safe
  <1>13. Busy' <=> Busy
    BY DEF Busy
  <1>14. Busy => \A k \in 1..h : ~TableRead(results[k])
    BY DEF Safe, ReadIsLast, h
  <1>15. ReadIsLast'
    <2>1. CASE ~Busy
      BY <1>13, <2>1 DEF ReadIsLast
    <2>2. CASE Busy
      <3>1. \A k \in 1..Len(results') : ~TableRead(results'[k])
        BY <1>5, <1>14, <2>2
      <3>2. ASSUME NEW i \in 1..m, TableRead(queue'[i])
            PROVE  i = m /\ queue'[i].block # 1
        <4>1. i + 1 \in 1..n /\ TableRead(queue[i + 1]) /\ queue'[i] = queue[i + 1]
          BY <1>1, <3>2
        <4>2. i + 1 = n /\ (queue[i + 1].block = 1 => i + 1 = 1)
          BY <2>2, <4>1 DEF Safe, ReadIsLast, n
        <4>3. i \in Nat /\ i >= 1 /\ i = m
          BY <1>1, <4>2
        <4>4. i + 1 # 1
          BY <4>3
        <4> QED
          BY <4>1, <4>2, <4>3, <4>4
      <3> QED
        BY <3>1, <3>2 DEF ReadIsLast, m
    <2> QED
      BY <2>1, <2>2
  <1>16. RetryMeans'
    <2>1. retry => TableReadPending'
      <3>1. TableReadPending => \/ \E i \in 1..m : TableRead(queue'[i])
                                \/ \E k \in 1..Len(results') : TableRead(results'[k])
        BY <1>1, <1>2, <1>3, Pending DEF n, h
      <3> QED
        BY <3>1, PendingNow DEF Safe, RetryMeans, m
    <2>2. (\E i \in 1..n : TableOf(queue[i], 0)) => \E i \in 1..m : TableOf(queue'[i], 0)
      BY <1>1, <1>3, <1>4
    <2>3. ASSUME \A i \in 1..n : ~(TableRead(queue[i]) /\ queue[i].block = 0),
                 NEW i \in 1..m
          PROVE  ~(TableRead(queue'[i]) /\ queue'[i].block = 0)
      <3>1. i + 1 \in 1..n /\ queue'[i] = queue[i + 1]
        BY <1>1
      <3> QED
        BY <2>3, <3>1
    <2> QED
      BY <1>5, <1>13, <2>1, <2>2, <2>3 DEF Safe, RetryMeans, n, m, h
  <1> QED
    BY <1>6, <1>7, <1>8, <1>9, <1>10, <1>11, <1>12, <1>15, <1>16 DEF Safe

(* What holds of the queue and of the results whatever request is executed *)
(* that is not a table read.                                               *)
LEMMA TailSafe ==
    ASSUME TypeOK, TypeOK', Safe, queue # <<>>, queue' = Tail(queue),
           NEW x \in FlashResult, results' = Append(results, x),
           ~TableRead(x), ~TableRead(Head(queue)), UNCHANGED <<retry, state>>
    PROVE  /\ \A i \in 1..Len(queue') : queue'[i].op = "table" =>
                 /\ queue'[i].block \in {0, 1}
                 /\ queue'[i].table.magic /\ queue'[i].table.crc
                 /\ NamesOnce(queue'[i].table.entries)
           /\ EraseThenWrite' /\ BackupFirst' /\ ReadIsLast'
           /\ retry => TableReadPending'
           /\ Busy => \A k \in 1..Len(results') : ~TableRead(results'[k])
  <1> DEFINE n == Len(queue)
             m == Len(queue')
             h == Len(results)
  <1>1. /\ n \in Nat /\ 1 \in 1..n /\ m = n - 1
        /\ \A i \in 1..m : i + 1 \in 1..n /\ queue'[i] = queue[i + 1]
        /\ \A i \in 1..n : i # 1 => i - 1 \in 1..m /\ queue'[i - 1] = queue[i]
    BY TailFacts
  <1>2. /\ h \in Nat /\ results'[h + 1] = x
        /\ \A k \in 1..h : results'[k] = results[k] /\ k \in 1..Len(results')
        /\ \A k \in 1..Len(results') : k \in 1..h \/ k = h + 1
    BY TailFacts
  <1>3. ~TableRead(queue[1])
    BY TailFacts
  <1>5. \A k \in 1..Len(results') : TableRead(results'[k]) =>
           k \in 1..h /\ results'[k] = results[k]
    BY <1>2
  <1> HIDE DEF n, m, h
  <1>6. \A i \in 1..m : queue'[i].op = "table" =>
                 /\ queue'[i].block \in {0, 1}
                 /\ queue'[i].table.magic /\ queue'[i].table.crc
                 /\ NamesOnce(queue'[i].table.entries)
    BY <1>1 DEF Safe, TablesGood, n
  <1>7. EraseThenWrite'
    <2> SUFFICES ASSUME NEW b \in {0, 1}, NEW i \in 1..m,
                        queue'[i].op = "erase" /\ queue'[i].block = b
                 PROVE  \E j \in 1..m : i < j /\ TableOf(queue'[j], b)
      BY DEF EraseThenWrite, m
    <2>1. PICK j \in 1..n : i + 1 < j /\ TableOf(queue[j], b)
      BY <1>1 DEF Safe, EraseThenWrite, n
    <2>2. j # 1 /\ i < j - 1
      BY <1>1, <2>1
    <2> QED
      BY <1>1, <2>1, <2>2
  <1>8. BackupFirst'
    <2> SUFFICES ASSUME NEW i \in 1..m, Writes(queue'[i], 1)
                 PROVE  /\ \A k \in 1..Len(results') : ~TableRead(results'[k])
                        /\ \A j \in 1..m : j < i =>
                              ~TableRead(queue'[j]) /\ ~Writes(queue'[j], 0)
      BY DEF BackupFirst, m
    <2>1. i + 1 \in 1..n /\ Writes(queue[i + 1], 1) /\ BackupFirst
      BY <1>1 DEF Safe
    <2>2. \A j \in 1..m : j < i => j + 1 < i + 1
      BY <1>1
    <2> QED
      BY <1>1, <1>5, <2>1, <2>2 DEF BackupFirst, n, h
  <1>13. Busy' <=> Busy
    BY DEF Busy
  <1>14. Busy => \A k \in 1..Len(results') : ~TableRead(results'[k])
    BY <1>5 DEF Safe, ReadIsLast, h
  <1>15. ReadIsLast'
    <2>1. CASE ~Busy
      BY <1>13, <2>1 DEF ReadIsLast
    <2>2. CASE Busy
      <3>2. ASSUME NEW i \in 1..m, TableRead(queue'[i])
            PROVE  i = m /\ queue'[i].block # 1
        <4>1. i + 1 \in 1..n /\ TableRead(queue[i + 1]) /\ queue'[i] = queue[i + 1]
          BY <1>1, <3>2
        <4>2. i + 1 = n /\ (queue[i + 1].block = 1 => i + 1 = 1)
          BY <2>2, <4>1 DEF Safe, ReadIsLast, n
        <4>3. i \in Nat /\ i >= 1 /\ i = m
          BY <1>1, <4>2
        <4>4. i + 1 # 1
          BY <4>3
        <4> QED
          BY <4>1, <4>2, <4>3, <4>4
      <3> QED
        BY <1>14, <2>2, <3>2 DEF ReadIsLast, m
    <2> QED
      BY <2>1, <2>2
  <1>16. retry => TableReadPending'
    <2>1. TableReadPending => \/ \E i \in 1..m : TableRead(queue'[i])
                              \/ \E k \in 1..Len(results') : TableRead(results'[k])
      BY <1>1, <1>2, <1>3, Pending DEF n, h
    <2> QED
      BY <2>1, PendingNow DEF Safe, RetryMeans, m
  <1> QED
    BY <1>6, <1>7, <1>8, <1>14, <1>15, <1>16 DEF m

(* A read of a table block is executed.                                    *)
LEMMA ReadSafe ==
    ASSUME TypeOK, TypeOK', Safe, queue # <<>>, queue' = Tail(queue),
           NEW x \in FlashResult, results' = Append(results, x),
           TableRead(Head(queue)), x.op = "read", x.block = Head(queue).block,
           x.table = table[Head(queue).block],
           UNCHANGED <<table, formatted, asked, retry, state>>
    PROVE  Safe'
  <1> DEFINE n == Len(queue)
             m == Len(queue')
             h == Len(results)
             b == Head(queue).block
  <1>1. /\ n \in Nat /\ 1 \in 1..n /\ m = n - 1
        /\ \A i \in 1..m : i + 1 \in 1..n /\ queue'[i] = queue[i + 1]
        /\ \A i \in 1..n : i # 1 => i - 1 \in 1..m /\ queue'[i - 1] = queue[i]
        /\ queue[1] = Head(queue)
    BY TailFacts
  <1>2. /\ h \in Nat /\ results'[h + 1] = x /\ Len(results') = h + 1
        /\ \A k \in 1..h : results'[k] = results[k] /\ k \in 1..Len(results')
        /\ \A k \in 1..Len(results') : k \in 1..h \/ k = h + 1
        /\ h + 1 \in 1..Len(results')
    BY TailFacts
  <1>3. /\ TableRead(queue[1]) /\ ~Writes(queue[1], 0) /\ ~Writes(queue[1], 1)
        /\ queue[1].block = b /\ TableRead(x) /\ b \in {0, 1}
    BY <1>1 DEF TableRead, Writes
  <1>4. \A r, c : TableOf(r, c) => Writes(r, c)
    BY DEF TableOf, Writes
  <1> HIDE DEF n, m, h, b
  <1>5. \A i \in 1..n : ~Writes(queue[i], 1)
    <2>1. \A i \in 1..n : i # 1 => 1 < i
      BY <1>1
    <2> QED
      BY <1>1, <1>3, <2>1 DEF Safe, BackupFirst, n
  <1>6. TablesGood'
    BY <1>1 DEF Safe, TablesGood, n, m
  <1>7. EraseThenWrite'
    <2> SUFFICES ASSUME NEW c \in {0, 1}, NEW i \in 1..m,
                        queue'[i].op = "erase" /\ queue'[i].block = c
                 PROVE  \E j \in 1..m : i < j /\ TableOf(queue'[j], c)
      BY DEF EraseThenWrite, m
    <2>1. PICK j \in 1..n : i + 1 < j /\ TableOf(queue[j], c)
      BY <1>1 DEF Safe, EraseThenWrite, n
    <2>2. j # 1 /\ i < j - 1
      BY <1>1, <2>1
    <2> QED
      BY <1>1, <2>1, <2>2
  <1>8. BackupFirst'
    BY <1>1, <1>5 DEF BackupFirst, m
  <1>9. OneTable'
    <2>1. \A c \in {0, 1} : (\E i \in 1..m : Writes(queue'[i], c)) <=>
                            (\E i \in 1..n : Writes(queue[i], c))
      BY <1>1, <1>3
    <2> QED
      BY <2>1 DEF Safe, OneTable, Effective, n, m
  <1>10. CopyOfBackup'
    <2>1. CopyOfBackup
      BY DEF Safe
    <2>2. /\ \A i \in 1..n : ~TableOf(queue[i], 1)
          /\ \A i \in 1..m : ~TableOf(queue'[i], 1)
      BY <1>1, <1>4, <1>5
    <2>3. \A i \in 1..m : TableOf(queue'[i], 0) => queue'[i].table = table[1]
      BY <1>1, <2>1, <2>2 DEF CopyOfBackup, n
    <2>4. ASSUME NEW k \in 1..Len(results'), TableRead(results'[k]), results'[k].block = 1
          PROVE  results'[k].table = table[1]
      <3>1. CASE k \in 1..h
        BY <1>2, <2>1, <2>4, <3>1 DEF CopyOfBackup, h
      <3>2. CASE k = h + 1
        BY <1>2, <2>4, <3>2
      <3> QED
        BY <1>2, <3>1, <3>2
    <2> QED
      BY <2>2, <2>3, <2>4 DEF CopyOfBackup, m
  <1>11. StepsOnly'
    BY <1>1 DEF Safe, StepsOnly, n, m
  <1>12. NoFilesYet'
    <2>1. \A i \in 1..Len(queue') : queue'[i].op = "table" =>
             \E j \in 1..Len(queue) : queue[j] = queue'[i]
      BY ONLY <1>1 DEF n, m
    <2> QED
      BY ONLY <2>1, Safe, NoFilesKept, UNCHANGED <<table, formatted>> DEF Safe
  <1>13. Busy' <=> Busy
    BY DEF Busy
  <1>14. ASSUME Busy
         PROVE  /\ n = 1 /\ m = 0 /\ \A k \in 1..h : ~TableRead(results[k])
                /\ b = 1 => ~table[0].magic
    <2>1. 1 = n /\ (\A k \in 1..h : ~TableRead(results[k])) /\ (b = 1 => ~table[0].magic)
      BY <1>1, <1>3, <1>14 DEF Safe, ReadIsLast, n, h
    <2> QED
      BY <1>1, <2>1
  <1>15. ASSUME Busy, NEW k \in 1..Len(results'), TableRead(results'[k])
         PROVE  k = h + 1 /\ results'[k] = x
    BY <1>2, <1>14, <1>15
  <1>16. ReadIsLast'
    <2>1. CASE ~Busy
      BY <1>13, <2>1 DEF ReadIsLast
    <2>2. CASE Busy
      <3>1. \A i \in 1..m : FALSE
        BY <1>14, <2>2
      <3>2. queue' = <<>>
        <4>1. queue' \in Seq(FlashReq) /\ Len(queue') = 0
          BY <1>14, <2>2 DEF m, TypeOK
        <4> QED
          BY <4>1
      <3>3. \A k \in 1..Len(results') : ~(k > h + 1)
        BY <1>2
      <3> QED
        BY <1>3, <1>14, <1>15, <2>2, <3>1, <3>2, <3>3 DEF ReadIsLast, m, b
    <2> QED
      BY <2>1, <2>2
  <1>17. RetryMeans'
    <2>1. TableReadPending'
      BY <1>2, <1>3, PendingNow
    <2>2. Busy => \A i \in 1..m : FALSE
      BY <1>14
    <2>3. ASSUME Busy, retry, b = 0
          PROVE  table[0].magic
      <3>1. \A i \in 1..n : i = 1
        BY <1>14, <2>3
      <3>2. \A i \in 1..n : ~TableOf(queue[i], 0)
        BY <1>3, <1>4, <3>1
      <3> QED
        BY <1>1, <1>3, <2>3, <3>2 DEF Safe, RetryMeans, n
    <2> QED
      BY <1>13, <1>15, <2>1, <2>2, <2>3 DEF RetryMeans, m, b
  <1> QED
    BY <1>6, <1>7, <1>8, <1>9, <1>10, <1>11, <1>12, <1>16, <1>17 DEF Safe

(* A table block is erased or written: what a crash finds afterwards is    *)
(* the old table or the new one.                                           *)
LEMMA WriteSafe ==
    ASSUME TypeOK, TypeOK', Safe, queue # <<>>, queue' = Tail(queue),
           NEW x \in FlashResult, results' = Append(results, x), ~TableRead(x),
           UNCHANGED <<asked, retry, state>>,
           NEW b \in {0, 1}, Writes(Head(queue), b), NEW y,
           y = IF Head(queue).op = "erase" THEN Blank ELSE Head(queue).table,
           table' = [table EXCEPT ![b] = y],
           formatted' = (formatted \/ (Head(queue).op = "table" /\ b = 0))
    PROVE  /\ Safe'
           /\ OneStep(FilesOf(Effective.entries), FilesOf(Effective'.entries), asked)
  <1> DEFINE n == Len(queue)
             m == Len(queue')
             q == queue[1]
  <1>1. /\ n \in Nat /\ 1 \in 1..n /\ m = n - 1
        /\ \A i \in 1..m : i + 1 \in 1..n /\ queue'[i] = queue[i + 1]
        /\ \A i \in 1..n : i # 1 => i - 1 \in 1..m /\ queue'[i - 1] = queue[i]
        /\ Head(queue) = q /\ q \in FlashReq
    BY TailFacts
  <1>2. ~TableRead(Head(queue))
    BY DEF Writes, TableRead
  <1>3. /\ \A i \in 1..m : queue'[i].op = "table" =>
              /\ queue'[i].block \in {0, 1}
              /\ queue'[i].table.magic /\ queue'[i].table.crc
              /\ NamesOnce(queue'[i].table.entries)
        /\ EraseThenWrite' /\ BackupFirst' /\ ReadIsLast'
        /\ retry => TableReadPending'
        /\ Busy => \A k \in 1..Len(results') : ~TableRead(results'[k])
    BY <1>2, TailSafe
  <1>4. /\ \A k \in 1..Len(results') : TableRead(results'[k]) =>
              k \in 1..Len(results) /\ results'[k] = results[k]
    BY TailFacts
  <1>5. /\ \A r, c : TableOf(r, c) => Writes(r, c) /\ r.op = "table" /\ r.block = c
        /\ \A r, c : (r.op = "table" /\ r.block = c) => TableOf(r, c)
        /\ q.op \in {"erase", "table"} /\ q.block = b /\ Writes(q, b)
        /\ \A r : ~(Writes(r, 0) /\ Writes(r, 1))
    BY <1>1 DEF TableOf, Writes
  <1>6. /\ table'[b] = y /\ \A c \in {0, 1} : c # b => table'[c] = table[c]
        /\ 0 \in {0, 1} /\ 1 \in {0, 1}
        /\ b = 1 => table'[0] = table[0]
        /\ b = 0 => table'[1] = table[1]
    BY DEF TypeOK
  <1>7. /\ q.op = "erase" => y = Blank
        /\ q.op = "table" => y = q.table /\ TableOf(q, b)
        /\ formatted' = (formatted \/ (q.op = "table" /\ b = 0))
    BY <1>1, <1>5
  <1>8. ~Blank.magic /\ FilesOf(Blank.entries) = {} /\ NamesOnce(Blank.entries)
    BY TableTypes, FreshFiles
  <1> HIDE DEF n, m, q
  <1>9. TablesGood /\ EraseThenWrite /\ BackupFirst /\ OneTable /\ CopyOfBackup /\ StepsOnly
            /\ NoFilesYet /\ ReadIsLast /\ RetryMeans
    BY DEF Safe
  <1>10. /\ q.op = "table" => y.magic /\ y.crc /\ NamesOnce(y.entries)
         /\ y.magic => y.crc
         /\ NamesOnce(y.entries)
    BY <1>1, <1>5, <1>7, <1>8, <1>9 DEF TablesGood, n, q
  <1>11. TablesGood'
    BY <1>3, <1>6, <1>9, <1>10 DEF TablesGood, m
  <1>12. q.op = "erase" => \E i \in 1..m : TableOf(queue'[i], b)
    <2> SUFFICES ASSUME q.op = "erase" PROVE \E i \in 1..m : TableOf(queue'[i], b)
      OBVIOUS
    <2>1. PICK j \in 1..n : 1 < j /\ TableOf(queue[j], b)
      BY <1>1, <1>5, <1>9 DEF EraseThenWrite, n, q
    <2>2. j # 1
      BY <2>1
    <2>3. j - 1 \in 1..m /\ queue'[j - 1] = queue[j]
      BY <1>1, <2>2
    <2> QED
      BY <2>1, <2>3
  <1>13. b = 0 => /\ \A i \in 1..n : ~Writes(queue[i], 1)
                  /\ \A i \in 1..m : ~Writes(queue'[i], 1)
    <2> SUFFICES ASSUME b = 0, NEW i \in 1..n PROVE ~Writes(queue[i], 1)
      BY <1>1
    <2>1. CASE i = 1
      BY <1>5, <2>1 DEF q
    <2>2. CASE i # 1
      <3>1. 1 < i
        BY <2>2, <1>1
      <3> QED
        BY <1>1, <1>5, <1>9, <3>1 DEF BackupFirst, n, q
    <2> QED
      BY <2>1, <2>2
  <1>14. b = 1 => /\ \A k \in 1..Len(results') : ~TableRead(results'[k])
                  /\ formatted => table[0].magic
    <2>1. b = 1 => \A k \in 1..Len(results) : ~TableRead(results[k])
      BY <1>1, <1>5, <1>9 DEF BackupFirst, n, q
    <2> QED
      BY <1>1, <1>4, <1>5, <1>9, <2>1 DEF OneTable, n, q
  <1>15. b = 0 => table[1].magic
    BY <1>1, <1>5, <1>9, <1>13 DEF OneTable, n, q
  <1>16. (b = 0 /\ q.op = "table") => y = table[1]
    BY <1>1, <1>5, <1>7, <1>9, <1>13 DEF CopyOfBackup, n, q
  <1>17. OneTable'
    <2>1. CASE b = 1 /\ q.op = "erase"
      <3>1. \E i \in 1..m : Writes(queue'[i], 1)
        <4>1. \E i \in 1..m : TableOf(queue'[i], 1)
          BY ONLY <1>12, <2>1
        <4> QED
          BY ONLY <1>5, <4>1
      <3>2. table'[0] = table[0] /\ formatted' = formatted
        BY <1>6, <1>7, <2>1 DEF TypeOK
      <3>3. formatted' => table'[0].magic
        BY <1>14, <2>1, <3>2
      <3> QED
        BY <3>1, <3>3 DEF OneTable, m
    <2>2. CASE b = 1 /\ q.op = "table"
      <3>1. table'[1].magic /\ (formatted' => table'[0].magic)
        BY <1>6, <1>7, <1>10, <1>14, <2>2
      <3> QED
        BY <3>1 DEF OneTable, Effective
    <2>3. CASE b = 0
      <3>1. table'[1].magic
        BY <1>6, <1>15, <2>3
      <3> QED
        BY <1>13, <2>3, <3>1 DEF OneTable, Effective, m
    <2> QED
      BY <1>5, <2>1, <2>2, <2>3
  <1>18. CopyOfBackup'
    <2>1. ASSUME NEW i \in 1..m, NEW j \in 1..m, TableOf(queue'[i], 0), TableOf(queue'[j], 1)
          PROVE  queue'[i].table = queue'[j].table
      <3>1. /\ i + 1 \in 1..n /\ queue'[i] = queue[i + 1]
            /\ j + 1 \in 1..n /\ queue'[j] = queue[j + 1]
        BY <1>1
      <3> QED
        BY <1>9, <2>1, <3>1 DEF CopyOfBackup, n
    <2>2. ASSUME NEW i \in 1..m, TableOf(queue'[i], 0),
                 \A j \in 1..m : ~TableOf(queue'[j], 1)
          PROVE  queue'[i].table = table'[1]
      <3>1. CASE b = 1
        <4>1. q.op # "erase"
          BY <1>12, <2>2, <3>1
        <4>2. q.op = "table"
          BY <1>5, <4>1
        <4>3. i + 1 \in 1..n /\ queue'[i] = queue[i + 1]
          BY <1>1
        <4>4. queue[i + 1].table = q.table
          BY <1>1, <1>7, <1>9, <2>2, <3>1, <4>2, <4>3 DEF CopyOfBackup, n, q
        <4> QED
          BY <1>6, <1>7, <3>1, <4>2, <4>3, <4>4
      <3>2. CASE b = 0
        <4>1. \A j \in 1..n : ~TableOf(queue[j], 1)
          BY <1>5, <1>13, <3>2
        <4>2. i + 1 \in 1..n /\ queue'[i] = queue[i + 1] /\ table'[1] = table[1]
          BY <1>1, <1>6, <3>2
        <4> QED
          BY <1>9, <2>2, <4>1, <4>2 DEF CopyOfBackup, n
      <3> QED
        BY <3>1, <3>2
    <2>3. \A k \in 1..Len(results') : (TableRead(results'[k]) /\ results'[k].block = 1) =>
             results'[k].table = table'[1]
      BY <1>4, <1>6, <1>9, <1>14 DEF CopyOfBackup
    <2> QED
      BY <2>1, <2>2, <2>3 DEF CopyOfBackup, m
  <1>19. StepsOnly'
    <2>1. CASE b = 1 /\ q.op = "erase"
      BY <1>1, <1>6, <1>7, <1>8, <1>9, <2>1 DEF StepsOnly, n, m
    <2>2. CASE b = 1 /\ q.op = "table"
      <3>1. table[0].magic =>
               OneStep(FilesOf(table[0].entries), FilesOf(y.entries), asked)
        BY <1>1, <1>7, <1>9, <2>2 DEF StepsOnly, n, q
      <3> QED
        BY <1>1, <1>6, <1>9, <2>2, <3>1 DEF StepsOnly, n, m
    <2>3. CASE b = 0 /\ q.op = "erase"
      BY <1>6, <1>7, <1>8, <2>3 DEF StepsOnly
    <2>4. CASE b = 0 /\ q.op = "table"
      <3>1. table'[0] = table'[1]
        BY <1>6, <1>16, <2>4
      <3>2. \A i \in 1..m : ~TableOf(queue'[i], 1)
        BY <1>5, <1>13, <2>4
      <3> QED
        BY <3>1, <3>2 DEF StepsOnly, OneStep, m
    <2> QED
      BY <1>5, <2>1, <2>2, <2>3, <2>4
  <1>20. NoFilesYet'
    <2>1. table'[0].magic => formatted'
      BY <1>5, <1>6, <1>7, <1>8, <1>9 DEF NoFilesYet
    <2>2. ASSUME ~formatted'
          PROVE  /\ ~formatted
                 /\ FilesOf(table'[1].entries) = {}
      <3>1. ~formatted /\ ~(q.op = "table" /\ b = 0)
        BY <1>7, <2>2
      <3>2. CASE b = 1 /\ q.op = "table"
        BY <1>1, <1>6, <1>7, <1>9, <3>1, <3>2 DEF NoFilesYet, n, q
      <3>3. CASE b = 1 /\ q.op = "erase"
        BY <1>6, <1>7, <1>8, <3>1, <3>3
      <3>4. CASE b = 0
        BY <1>6, <1>9, <3>1, <3>4 DEF NoFilesYet
      <3> QED
        BY <1>5, <3>1, <3>2, <3>3, <3>4
    <2>3. ~formatted => \A i \in 1..m : queue'[i].op = "table" =>
             FilesOf(queue'[i].table.entries) = {}
      <3>1. \A i \in 1..m : i + 1 \in 1..Len(queue) /\ queue'[i] = queue[i + 1]
        BY ONLY <1>1 DEF n
      <3> QED
        BY ONLY <1>9, <3>1 DEF NoFilesYet
    <2> QED
      BY <2>1, <2>2, <2>3 DEF NoFilesYet, m
  <1>21. Busy' <=> Busy
    BY DEF Busy
  <1>22. RetryMeans'
    <2> SUFFICES ASSUME retry, Busy
                 PROVE  \/ \A i \in 1..m : ~(TableRead(queue'[i]) /\ queue'[i].block = 0)
                        \/ table'[0].magic
                        \/ \E i \in 1..m : TableOf(queue'[i], 0)
      BY <1>3, <1>21 DEF RetryMeans, m
    <2>1. CASE b = 0
      <3>1. CASE q.op = "erase"
        BY ONLY <1>12, <2>1, <3>1
      <3>2. CASE q.op = "table"
        BY ONLY <1>6, <1>10, <2>1, <3>2
      <3> QED
        BY <1>5, <3>1, <3>2
    <2>2. CASE b = 1 /\ table[0].magic
      BY <1>6, <2>2
    <2>3. CASE b = 1 /\ \E i \in 1..n : TableOf(queue[i], 0)
      <3>1. PICK i \in 1..n : TableOf(queue[i], 0)
        BY <2>3
      <3>2. i # 1
        BY <1>5, <2>3, <3>1 DEF q
      <3> QED
        BY <1>1, <3>1, <3>2
    <2>4. CASE \A i \in 1..n : ~(TableRead(queue[i]) /\ queue[i].block = 0)
      <3>1. ASSUME NEW i \in 1..m
            PROVE  ~(TableRead(queue'[i]) /\ queue'[i].block = 0)
        <4>1. i + 1 \in 1..n /\ queue'[i] = queue[i + 1]
          BY <1>1
        <4> QED
          BY <2>4, <4>1
      <3> QED
        BY <3>1
    <2> QED
      BY <1>9, <2>1, <2>2, <2>3, <2>4 DEF RetryMeans, n
  <1>23. OneStep(FilesOf(Effective.entries), FilesOf(Effective'.entries), asked)
    <2>1. CASE b = 1 /\ table[0].magic
      <3>1. Effective = table[0] /\ Effective' = table[0]
        BY <1>6, <2>1 DEF Effective
      <3> QED
        BY <3>1 DEF OneStep
    <2>2. CASE b = 1 /\ ~table[0].magic
      <3>1. ~formatted
        BY <1>14, <2>2
      <3>2. FilesOf(table[1].entries) = {} /\ FilesOf(y.entries) = {}
        BY <1>1, <1>5, <1>7, <1>8, <1>9, <3>1 DEF NoFilesYet, n, q
      <3>3. Effective = table[1] /\ Effective' = y
        BY <1>6, <2>2 DEF Effective
      <3> QED
        BY <3>2, <3>3 DEF OneStep
    <2>3. CASE b = 0
      <3>1. Effective' = table[1]
        BY <1>5, <1>6, <1>7, <1>8, <1>16, <2>3 DEF Effective
      <3>2. CASE table[0].magic
        BY <1>9, <1>15, <2>3, <3>1, <3>2 DEF Effective, StepsOnly
      <3>3. CASE ~table[0].magic
        BY <3>1, <3>3 DEF Effective, OneStep
      <3> QED
        BY <3>2, <3>3
    <2> QED
      BY <2>1, <2>2, <2>3
  <1> QED
    BY <1>3, <1>11, <1>17, <1>18, <1>19, <1>20, <1>22, <1>23 DEF Safe

LEMMA ExecuteSafe ==
    ASSUME TypeOK, TypeOK', Safe, Execute
    PROVE  /\ Safe'
           /\ OneStep(FilesOf(Effective.entries), FilesOf(Effective'.entries), asked)
  <1> DEFINE q == Head(queue)
             x == Result(q, TRUE)
  <1>1. /\ queue # <<>> /\ queue' = Tail(queue) /\ results' = Append(results, x)
        /\ UNCHANGED <<asked, retry, state>>
        /\ formatted' = (formatted \/ (q.op = "table" /\ q.block = 0))
    BY DEF Execute, hostVars
  <1>2. q \in FlashReq
    <2>1. queue \in Seq(FlashReq)
      BY DEF TypeOK
    <2> QED
      BY <1>1, <2>1, HeadType
  <1>3. x \in FlashResult
    BY <1>2, ResultType
  <1>4. table' = IF q.op = "erase" /\ q.block \in {0, 1} THEN [table EXCEPT ![q.block] = Blank]
                ELSE IF q.op = "table" THEN [table EXCEPT ![q.block] = q.table]
                ELSE table
    BY DEF Execute, Apply
  <1>5. /\ x.op = q.op /\ x.block = q.block
        /\ TableRead(q) => x.table = table[q.block]
    BY DEF Result, TableRead
  <1>6. q.op = "table" => q.block \in {0, 1}
    <2>1. queue \in Seq(FlashReq)
      BY DEF TypeOK
    <2>2. Len(queue) \in Nat /\ Len(queue) > 0 /\ q = queue[1]
      BY <1>1, <2>1, HeadType
    <2>3. 1 \in 1..Len(queue)
      BY <2>2
    <2> QED
      BY <2>2, <2>3 DEF Safe, TablesGood
  <1> HIDE DEF q, x
  <1>7. CASE TableRead(q)
    <2>1. x.op = "read" /\ UNCHANGED <<table, formatted>>
      BY <1>1, <1>4, <1>5, <1>7 DEF TableRead, TypeOK
    <2>2. Safe'
      BY <1>1, <1>3, <1>5, <1>7, <2>1, ReadSafe DEF q
    <2> QED
      BY <2>1, <2>2 DEF Effective, OneStep
  <1>8. CASE Writes(q, 0) \/ Writes(q, 1)
    <2> DEFINE b == q.block
               y == IF q.op = "erase" THEN Blank ELSE q.table
    <2>1. b \in {0, 1} /\ Writes(q, b) /\ q.op \in {"erase", "table"}
      BY <1>8 DEF Writes
    <2>2. ~TableRead(x)
      BY <1>5, <2>1 DEF TableRead
    <2>3. table' = [table EXCEPT ![b] = y]
      BY <1>4, <2>1
    <2>4. formatted' = (formatted \/ (q.op = "table" /\ b = 0))
      BY <1>1
    <2>5. y = IF q.op = "erase" THEN Blank ELSE q.table
      OBVIOUS
    <2> HIDE DEF b, y
    <2> QED
      BY <1>1, <1>3, <2>1, <2>2, <2>3, <2>4, <2>5, WriteSafe DEF q
  <1>9. CASE ~TableRead(q) /\ ~Writes(q, 0) /\ ~Writes(q, 1)
    <2>1. q.op # "table" /\ ~(q.op = "erase" /\ q.block \in {0, 1})
      BY <1>6, <1>9 DEF Writes
    <2>2. UNCHANGED <<table, formatted>>
      BY <1>1, <1>4, <2>1 DEF TypeOK
    <2>3. ~TableRead(x)
      BY <1>5, <1>9 DEF TableRead
    <2>4. Safe'
      BY <1>1, <1>3, <1>9, <2>2, <2>3, NeutralSafe DEF q
    <2> QED
      BY <2>2, <2>4 DEF Effective, OneStep
  <1> QED
    BY <1>7, <1>8, <1>9

(* A write fails; nothing is promised after the write of a table.          *)
LEMMA BadWriteSafe ==
    ASSUME TypeOK, TypeOK', Safe, BadWrite, ~damaged'
    PROVE  Safe'
  <1> DEFINE q == Head(queue)
             x == Result(q, FALSE)
  <1>1. /\ queue # <<>> /\ queue' = Tail(queue) /\ results' = Append(results, x)
        /\ UNCHANGED <<table, formatted, asked, retry, state>>
        /\ q.op = "data"
    BY DEF BadWrite, hostVars
  <1>2. q \in FlashReq
    <2>1. queue \in Seq(FlashReq)
      BY DEF TypeOK
    <2> QED
      BY <1>1, <2>1, HeadType
  <1>3. x \in FlashResult /\ ~TableRead(x)
    BY <1>1, <1>2, ResultType DEF Result, TableRead
  <1>4. ~TableRead(q) /\ ~Writes(q, 0) /\ ~Writes(q, 1)
    BY <1>1 DEF TableRead, Writes
  <1> HIDE DEF q, x
  <1> QED
    BY <1>1, <1>3, <1>4, NeutralSafe DEF q

-----------------------------------------------------------------------------
(* What a delete and a put make of the files of a table.                   *)

LEMMA FileIn ==
    ASSUME NEW t, NEW f
    PROVE  f \in FilesOf(t) <=> \E i \in Slot : /\ t[i].name \in Names
                                                /\ f = [name |-> t[i].name, ver |-> t[i].ver]
  BY DEF FilesOf

(* The entries of one name are emptied.                                    *)
LEMMA FilesDropped ==
    ASSUME NEW t, NEW s, NEW n \in Names,
           \A i \in Slot : s[i] = IF t[i].name = n THEN EmptyEntry ELSE t[i]
    PROVE  /\ FilesOf(s) = {f \in FilesOf(t) : f.name # n}
           /\ NamesOnce(t) => NamesOnce(s)
  <1>1. EmptyEntry.name \notin Names
    BY TableAssumption DEF EmptyEntry
  <1>2. \A i \in Slot : s[i].name \in Names <=> (t[i].name \in Names /\ t[i].name # n)
    BY <1>1
  <1>3. \A i \in Slot : s[i].name \in Names => s[i] = t[i]
    BY <1>1
  <1>4. ASSUME NEW f \in FilesOf(s)
        PROVE  f \in FilesOf(t) /\ f.name # n
    <2>1. PICK i \in Slot : s[i].name \in Names /\ f = [name |-> s[i].name, ver |-> s[i].ver]
      BY FileIn
    <2>2. s[i] = t[i] /\ t[i].name \in Names /\ t[i].name # n
      BY <1>2, <1>3, <2>1
    <2>3. f.name = t[i].name /\ f = [name |-> t[i].name, ver |-> t[i].ver]
      BY <2>1, <2>2
    <2> QED
      BY <2>2, <2>3, FileIn
  <1>5. ASSUME NEW f \in FilesOf(t), f.name # n
        PROVE  f \in FilesOf(s)
    <2>1. PICK i \in Slot : t[i].name \in Names /\ f = [name |-> t[i].name, ver |-> t[i].ver]
      BY FileIn
    <2>2. t[i].name # n
      BY <1>5, <2>1
    <2>3. s[i].name \in Names /\ s[i] = t[i]
      BY <1>2, <1>3, <2>1, <2>2
    <2> QED
      BY <2>1, <2>3, FileIn
  <1>6. NamesOnce(t) => NamesOnce(s)
    BY <1>2, <1>3 DEF NamesOnce
  <1> QED
    BY <1>4, <1>5, <1>6

LEMMA IndexType ==
    ASSUME TypeOK
    PROVE  cur.index \in 0..Slots /\ (cur.index # 0 => cur.index \in Slot)
  BY TableAssumption DEF TypeOK, Slot

LEMMA DeletedFiles ==
    ASSUME TypeOK, CurAsked, state = "DELETE_FILE", NEW t \in Table, NamesOnce(t)
    PROVE  /\ OneStep(FilesOf(t), FilesOf(Deleted(t, SelectedEntry(t))), asked)
           /\ NamesOnce(Deleted(t, SelectedEntry(t)))
  <1> DEFINE sel == SelectedEntry(t)
             s == Deleted(t, sel)
  <1>1. \A i \in Slot : s[i] = IF i \in sel THEN EmptyEntry ELSE t[i]
    BY DEF Deleted
  <1>2. EmptyEntry.name \notin Names
    BY TableAssumption DEF EmptyEntry
  <1>3. cur.index \in 0..Slots /\ (cur.index # 0 => cur.index \in Slot)
    BY IndexType
  <1>4. cur.index # 0 => sel = {cur.index}
    BY DEF SelectedEntry, Selected
  <1>5. cur.index = 0 => sel = FirstMatching(t, cur.name)
    BY DEF SelectedEntry, Selected
  <1> HIDE DEF s, sel
  <1>6. ASSUME NEW n \in Names, \A i \in Slot : i \in sel <=> t[i].name = n,
               \E m \in {n, NoName} : [op |-> "delete", name |-> m, ver |-> 0] \in asked
        PROVE  OneStep(FilesOf(t), FilesOf(s), asked) /\ NamesOnce(s)
    <2>1. \A i \in Slot : s[i] = IF t[i].name = n THEN EmptyEntry ELSE t[i]
      BY <1>1, <1>6
    <2>2. FilesOf(s) = {f \in FilesOf(t) : f.name # n} /\ NamesOnce(s)
      BY <2>1, FilesDropped
    <2> QED
      BY <1>6, <2>2 DEF OneStep
  <1>7. CASE cur.index # 0
    <2>1. [op |-> "delete", name |-> NoName, ver |-> 0] \in asked
      BY <1>7 DEF CurAsked
    <2>2. CASE t[cur.index].name \in Names
      <3>1. \A i \in Slot : i \in sel <=> t[i].name = t[cur.index].name
        BY <1>3, <1>4, <1>7, <2>2 DEF NamesOnce
      <3> QED
        BY <1>6, <2>1, <2>2, <3>1 DEF s, sel
    <2>3. CASE t[cur.index].name \notin Names
      <3>1. \A i \in Slot : /\ s[i].name \in Names <=> t[i].name \in Names
                            /\ s[i].name \in Names => s[i] = t[i]
                            /\ t[i].name \in Names => s[i] = t[i]
        BY <1>1, <1>2, <1>4, <1>7, <2>3
      <3>2. \A f : f \in FilesOf(s) <=> f \in FilesOf(t)
        BY <3>1, FileIn
      <3>3. FilesOf(s) = FilesOf(t)
        BY <3>2
      <3> QED
        BY <3>1, <3>3 DEF OneStep, NamesOnce, s, sel
    <2> QED
      BY <2>2, <2>3
  <1>8. CASE cur.index = 0
    <2>1. cur.name \in Names /\ [op |-> "delete", name |-> cur.name, ver |-> 0] \in asked
      BY <1>8 DEF CurAsked
    <2>2. ASSUME NEW i \in Slot PROVE i \in sel <=> t[i].name = cur.name
      <3>1. i \in sel => t[i].name = cur.name
        BY <1>5, <1>8 DEF FirstMatching, Matching
      <3>2. ASSUME t[i].name = cur.name PROVE i \in sel
        <4>1. \A j \in Slot : t[j].name = cur.name => j = i
          BY <2>1, <3>2 DEF NamesOnce
        <4>2. i <= i
          BY TableAssumption DEF Slot
        <4> QED
          BY <1>5, <1>8, <3>2, <4>1, <4>2 DEF FirstMatching, Matching
      <3> QED
        BY <3>1, <3>2
    <2> QED
      BY <1>6, <2>1, <2>2 DEF s, sel
  <1> QED
    BY <1>3, <1>7, <1>8

LEMMA PutFiles ==
    ASSUME NEW t \in Table, NamesOnce(t), NEW n \in Names, NEW slot \in SlotsFor(t, n),
           NEW start, NEW len, NEW c \in 1..MaxOps,
           [op |-> "put", name |-> n, ver |-> c] \in asked
    PROVE  /\ OneStep(FilesOf(t), FilesOf(WithFile(t, slot, n, start, len, c)), asked)
           /\ NamesOnce(WithFile(t, slot, n, start, len, c))
  <1> DEFINE e == [name |-> n, start |-> start, len |-> len, ver |-> c]
             w == WithFile(t, slot, n, start, len, c)
             s == [i \in Slot |-> IF t[i].name = n THEN EmptyEntry ELSE t[i]]
  <1>1. e.name = n /\ e.ver = c
    OBVIOUS
  <1>2. slot \in Slot /\ t[slot].name \in {n, NoName}
    BY DEF SlotsFor, Matching, isEmpty
  <1>3. EmptyEntry.name \notin Names /\ NoName \notin Names
    BY TableAssumption DEF EmptyEntry
  <1>4. \A i \in Slot : i # slot => w[i] = s[i]
    BY DEF WithFile
  <1>5. w[slot] = e
    BY <1>2 DEF WithFile
  <1>6. \A i \in Slot : s[i] = IF t[i].name = n THEN EmptyEntry ELSE t[i]
    OBVIOUS
  <1> HIDE DEF e, w, s
  <1>7. FilesOf(s) = {f \in FilesOf(t) : f.name # n} /\ NamesOnce(s)
    BY <1>6, FilesDropped
  <1>8. s[slot].name \notin Names
    BY <1>2, <1>3, <1>6
  <1>9. \A i \in Slot : s[i].name # n
    BY <1>3, <1>6
  <1>10. NamesOnce(w)
    <2> SUFFICES ASSUME NEW i \in Slot, NEW j \in Slot, w[i].name \in Names,
                        w[i].name = w[j].name
                 PROVE  i = j
      BY DEF NamesOnce
    <2>1. CASE i = slot
      BY <1>1, <1>4, <1>5, <1>9, <2>1
    <2>2. CASE i # slot
      BY <1>1, <1>4, <1>5, <1>7, <1>9, <2>2 DEF NamesOnce
    <2> QED
      BY <2>1, <2>2
  <1>11. FilesOf(w) = FilesOf(s) \cup {[name |-> n, ver |-> c]}
    <2>1. ASSUME NEW f \in FilesOf(w)
          PROVE  f \in FilesOf(s) \cup {[name |-> n, ver |-> c]}
      <3>1. PICK i \in Slot : w[i].name \in Names /\ f = [name |-> w[i].name, ver |-> w[i].ver]
        BY FileIn
      <3>2. CASE i = slot
        BY <1>1, <1>5, <3>1, <3>2
      <3>3. CASE i # slot
        <4>1. w[i] = s[i]
          BY <1>4, <3>3
        <4>2. f \in FilesOf(s)
          BY <3>1, <4>1, FileIn
        <4> QED
          BY <4>2
      <3> QED
        BY <3>2, <3>3
    <2>2. ASSUME NEW f \in FilesOf(s) PROVE f \in FilesOf(w)
      <3>1. PICK i \in Slot : s[i].name \in Names /\ f = [name |-> s[i].name, ver |-> s[i].ver]
        BY FileIn
      <3>2. i # slot
        BY <1>8, <3>1
      <3>3. w[i] = s[i]
        BY <1>4, <3>2
      <3> QED
        BY <3>1, <3>3, FileIn
    <2>3. [name |-> n, ver |-> c] \in FilesOf(w)
      BY <1>1, <1>2, <1>5, FileIn
    <2> QED
      BY <2>1, <2>2, <2>3
  <1> QED
    BY <1>7, <1>10, <1>11 DEF OneStep, w

(* The requests that store a table, behind others.                         *)
LEMMA StoreQueue ==
    ASSUME NEW q \in Seq(FlashReq), NEW x \in TableBlock
    PROVE  /\ q \o StoreTable(x) \in Seq(FlashReq)
           /\ Len(q) \in Nat /\ Len(q \o StoreTable(x)) = Len(q) + 4
           /\ \A i \in 1..Len(q) : (q \o StoreTable(x))[i] = q[i]
           /\ (q \o StoreTable(x))[Len(q) + 1] = EraseReq(1)
           /\ (q \o StoreTable(x))[Len(q) + 2] = TableReq(1, x)
           /\ (q \o StoreTable(x))[Len(q) + 3] = EraseReq(0)
           /\ (q \o StoreTable(x))[Len(q) + 4] = TableReq(0, x)
  <1> DEFINE p == StoreTable(x)
  <1>1. p \in Seq(FlashReq)
    BY StoreTableType
  <1>2. /\ Len(p) = 4 /\ p[1] = EraseReq(1) /\ p[2] = TableReq(1, x)
        /\ p[3] = EraseReq(0) /\ p[4] = TableReq(0, x)
    BY DEF StoreTable
  <1> HIDE DEF p
  <1>3. 1 \in 1..Len(p) /\ 2 \in 1..Len(p) /\ 3 \in 1..Len(p) /\ 4 \in 1..Len(p)
    BY <1>2
  <1>4. /\ q \o p \in Seq(FlashReq) /\ Len(q \o p) = Len(q) + Len(p)
        /\ \A i \in 1..Len(q) : (q \o p)[i] = q[i]
        /\ \A k \in 1..Len(p) : (q \o p)[Len(q) + k] = p[k]
        /\ Len(q) \in Nat
    BY <1>1, ConcatType
  <1> QED
    BY <1>2, <1>3, <1>4 DEF p

LEMMA StoreQueueOnly ==
    ASSUME NEW q \in Seq(FlashReq), q = <<>>, NEW x \in TableBlock
    PROVE  /\ q \o StoreTable(x) \in Seq(FlashReq)
           /\ Len(q \o StoreTable(x)) = 4
           /\ (q \o StoreTable(x))[1] = EraseReq(1)
           /\ (q \o StoreTable(x))[2] = TableReq(1, x)
           /\ (q \o StoreTable(x))[3] = EraseReq(0)
           /\ (q \o StoreTable(x))[4] = TableReq(0, x)
  <1> DEFINE p == q \o StoreTable(x)
             n == Len(q)
  <1>1. n = 0
    OBVIOUS
  <1>2. /\ p \in Seq(FlashReq) /\ Len(p) = n + 4
        /\ p[n + 1] = EraseReq(1) /\ p[n + 2] = TableReq(1, x)
        /\ p[n + 3] = EraseReq(0) /\ p[n + 4] = TableReq(0, x)
    BY StoreQueue
  <1> HIDE DEF p, n
  <1>3. n + 1 = 1 /\ n + 2 = 2 /\ n + 3 = 3 /\ n + 4 = 4
    BY <1>1
  <1>4. /\ p \in Seq(FlashReq) /\ Len(p) = 4
        /\ p[1] = EraseReq(1) /\ p[2] = TableReq(1, x)
        /\ p[3] = EraseReq(0) /\ p[4] = TableReq(0, x)
    BY <1>2, <1>3
  <1> QED
    BY <1>4 DEF p

-----------------------------------------------------------------------------
(* The host handles a table.                                               *)

(* libdrbcc_readflash_cb hands a table over: what it has read is what the  *)
(* flash holds, and a table without magic is one that never was.           *)
LEMMA TableHandled ==
    ASSUME TypeOK, Safe, Busy, results # <<>>, TableRead(Head(results)),
           Head(results).block = 0 => retry \/ Head(results).table.magic,
           Head(results).block = 1 => ~Head(results).table.magic
    PROVE  /\ queue = <<>>
           /\ \A k \in 1..Len(Tail(results)) : ~TableRead(Tail(results)[k])
           /\ Head(results).table.magic =>
                 Head(results).table = table[0] /\ table[0].magic /\ formatted
           /\ ~Head(results).table.magic => ~formatted /\ ~table[0].magic
  <1> DEFINE r == Head(results)
  <1>1. /\ Len(results) \in Nat /\ 1 \in 1..Len(results) /\ r = results[1]
        /\ queue = <<>> /\ r.table = table[r.block]
        /\ \A k \in 1..Len(Tail(results)) : ~TableRead(Tail(results)[k])
        /\ r.block = 1 => ~table[0].magic
    BY HandledRead
  <1>2. r.block \in {0, 1} /\ TableRead(r)
    BY DEF TableRead
  <1> HIDE DEF r
  <1>3. r.table.magic => r.table = table[0] /\ table[0].magic
    BY <1>1, <1>2 DEF r
  <1>4. ASSUME ~r.table.magic PROVE r.block = 1
    <2>1. CASE r.block = 0
      <3>1. retry
        BY <1>4, <2>1 DEF r
      <3>2. table[0].magic
        BY <1>1, <1>2, <2>1, <3>1 DEF Safe, RetryMeans
      <3> QED
        BY <1>1, <1>4, <2>1, <3>2
    <2> QED
      BY <1>2, <2>1
  <1>5. ASSUME ~r.table.magic PROVE ~formatted /\ ~table[0].magic
    <2>1. ~table[0].magic /\ ~table[1].magic
      BY <1>1, <1>4, <1>5
    <2>2. \A i \in 1..Len(queue) : FALSE
      BY <1>1
    <2>3. formatted => Effective.magic
      BY <2>2 DEF Safe, OneTable
    <2> QED
      BY <2>1, <2>3 DEF Effective
  <1> QED
    BY <1>1, <1>3, <1>5 DEF Safe, NoFilesYet, r

LEMMA DispatchSafe ==
    ASSUME TypeOK, TypeOK', CurAsked, Safe, Dispatch
    PROVE  Safe'
  <1> DEFINE r == Head(results)
             blk == IF r.block = 1 THEN 0 ELSE r.block
             x == r.table
  <1>1. /\ results # <<>> /\ results' = Tail(results) /\ retry' = FALSE
        /\ UNCHANGED <<table, formatted, asked>>
        /\ r.op = "read"
        /\ r.block = 0 => retry \/ x.magic
        /\ r.block = 1 => ~x.magic
    BY DEF Dispatch
  <1>2. /\ r.block \in Nat /\ x \in TableBlock /\ x.entries \in Table
        /\ queue \in Seq(FlashReq)
    BY <1>1, FirstResult DEF TypeOK
  <1>3. blk = 0 => TableRead(r)
    BY <1>1 DEF TableRead
  <1>4. \/ state = "PARTITION_REQ" /\ GotPartition(blk, x)
        \/ state = "DELETE_FILE" /\ Delete(blk, x)
        \/ state = "GET_FILE" /\ blk = 0 /\ GetFileTable(x)
        \/ state = "GET_FILE" /\ blk # 0 /\ GetFileData(blk, r.content)
        \/ /\ state = "PUT_FILE"
           /\ PutFails(blk, x) \/ PutStores(blk, x) \/ PutHostFile(blk, x)
        \/ state \in {"USER", "GET_FILE"} /\ UNCHANGED <<queue, state>>
    BY DEF Dispatch, GetHostFile
  <1>5. ASSUME blk = 0, Busy
        PROVE  /\ queue = <<>>
               /\ \A k \in 1..Len(results') : ~TableRead(results'[k])
               /\ x.magic => x = table[0] /\ table[0].magic /\ formatted
               /\ ~x.magic => ~formatted /\ ~table[0].magic
    BY <1>1, <1>3, <1>5, TableHandled
  <1>6. Len(queue) \in Nat
    BY <1>2
  <1> HIDE DEF r, blk, x
  <1>7. ASSUME queue' = queue, state' \in {state, "USER"}
        PROVE  Safe'
    <2>1. Busy' => Busy
      BY <1>7 DEF Busy
    <2>2. \A i \in 1..Len(queue') : ~(i > Len(queue))
      BY <1>6, <1>7
    <2>3. Len(queue') >= Len(queue)
      BY <1>6, <1>7
    <2> QED
      BY <1>1, <1>7, <2>1, <2>2, <2>3, ExtendSafe
  <1>8. ASSUME NEW a \in Nat, queue' = Append(queue, ReadReq(a)), ~Busy'
        PROVE  Safe'
    <2>1. /\ Len(queue') = Len(queue) + 1 /\ queue'[Len(queue) + 1] = ReadReq(a)
          /\ \A i \in 1..Len(queue) : queue'[i] = queue[i]
          /\ \A i \in 1..(Len(queue) + 1) : i \in 1..Len(queue) \/ i = Len(queue) + 1
      BY <1>2, <1>8, AppendType, RequestTypes
    <2>2. ReadReq(a).op = "read" /\ ~Writes(ReadReq(a), 0) /\ ~Writes(ReadReq(a), 1)
      BY DEF ReadReq, Writes
    <2>3. \A i \in 1..Len(queue') : i > Len(queue) => queue'[i] = ReadReq(a)
      BY <1>6, <2>1
    <2>4. Len(queue') >= Len(queue)
      BY <1>6, <2>1
    <2> QED
      BY <1>1, <1>8, <2>1, <2>2, <2>3, <2>4, ExtendSafe
  <1>9. CASE state = "PARTITION_REQ" /\ GotPartition(blk, x)
    <2>1. CASE queue' = queue /\ state' \in {state, "USER"}
      BY <1>7, <2>1
    <2>2. CASE /\ blk = 0 /\ ~x.magic /\ state' = state
               /\ queue' = queue \o StoreTable(Valid(FreshTable)) \o <<ReadReq(0)>>
      <3> DEFINE v == Valid(FreshTable)
                 q == queue \o StoreTable(v)
      <3>1. Busy
        BY <1>9 DEF Busy
      <3>2. /\ queue = <<>> /\ ~formatted /\ ~table[0].magic
            /\ \A k \in 1..Len(results') : ~TableRead(results'[k])
        BY <1>5, <2>2, <3>1
      <3>3. /\ v \in TableBlock /\ v.magic /\ v.crc /\ NamesOnce(v.entries)
            /\ FilesOf(v.entries) = {}
        BY TableTypes, FreshFiles
      <3>4. queue' = q \o <<ReadReq(0)>> /\ ReadReq(0) \in FlashReq
        BY <2>2, RequestTypes
      <3> HIDE DEF v
      <3>5. /\ q \in Seq(FlashReq) /\ Len(q) = 4
            /\ q[1] = EraseReq(1) /\ q[2] = TableReq(1, v)
            /\ q[3] = EraseReq(0) /\ q[4] = TableReq(0, v)
        <4>1. queue = <<>> /\ q = queue \o StoreTable(v)
          BY <3>2
        <4> HIDE DEF q
        <4> QED
          BY <1>2, <3>3, <4>1, StoreQueueOnly
      <3> HIDE DEF q
      <3>6. <<ReadReq(0)>> \in Seq(FlashReq) /\ Len(<<ReadReq(0)>>) = 1
              /\ <<ReadReq(0)>>[1] = ReadReq(0)
        BY <3>4
      <3>7. /\ Len(queue') = 5 /\ queue'[5] = ReadReq(0)
            /\ queue'[1] = EraseReq(1) /\ queue'[2] = TableReq(1, v)
            /\ queue'[3] = EraseReq(0) /\ queue'[4] = TableReq(0, v)
        <4> DEFINE p == <<ReadReq(0)>>
        <4>0. p \in Seq(FlashReq) /\ Len(p) = 1 /\ p[1] = ReadReq(0) /\ queue' = q \o p
          BY <3>4, <3>6
        <4> HIDE DEF p
        <4>1. /\ Len(q \o p) = Len(q) + Len(p)
              /\ \A i \in 1..Len(q) : (q \o p)[i] = q[i]
              /\ \A k \in 1..Len(p) : (q \o p)[Len(q) + k] = p[k]
          <5>1. q \in Seq(FlashReq) /\ p \in Seq(FlashReq)
            BY <3>5, <4>0
          <5> QED
            BY ONLY <5>1, ConcatType
        <4>2. /\ 1 \in 1..Len(q) /\ 2 \in 1..Len(q) /\ 3 \in 1..Len(q) /\ 4 \in 1..Len(q)
              /\ 1 \in 1..Len(p) /\ Len(q) + 1 = 5 /\ Len(q) + Len(p) = 5
          BY <3>5, <4>0
        <4> QED
          BY <3>5, <4>0, <4>1, <4>2
      <3>8. /\ queue'[0 + 1] = EraseReq(1) /\ queue'[0 + 2] = TableReq(1, v)
            /\ queue'[0 + 3] = EraseReq(0) /\ queue'[0 + 4] = TableReq(0, v)
            /\ Len(queue') \in {0 + 4, 0 + 5}
            /\ Len(queue') = 0 + 5 => queue'[0 + 5] = ReadReq(0)
            /\ 0 \in Nat /\ \A i \in 1..0 : FALSE
        BY <3>7
      <3> QED
        BY ONLY <1>1, <3>2, <3>3, <3>8, TypeOK, TypeOK', Safe, StoreSafe
    <2> QED
      BY <1>9, <2>1, <2>2 DEF GotPartition
  <1>10. CASE state = "DELETE_FILE" /\ Delete(blk, x)
    <2>1. CASE UNCHANGED <<queue, state>>
      BY <1>7, <2>1
    <2>2. CASE /\ blk = 0 /\ x.magic
               /\ queue' = queue \o StoreTable(Valid(Deleted(x.entries,
                                                            SelectedEntry(x.entries))))
      <3> DEFINE t == Deleted(x.entries, SelectedEntry(x.entries))
                 v == Valid(t)
      <3>1. Busy
        BY <1>10 DEF Busy
      <3>2. /\ queue = <<>> /\ formatted /\ table[0].magic /\ x = table[0]
            /\ \A k \in 1..Len(results') : ~TableRead(results'[k])
        BY <1>5, <2>2, <3>1
      <3>3. NamesOnce(x.entries)
        BY <3>2 DEF Safe, TablesGood
      <3>4. OneStep(FilesOf(x.entries), FilesOf(t), asked) /\ NamesOnce(t)
        BY <1>2, <1>10, <3>3, DeletedFiles
      <3>5. t \in Table
        BY <1>2, DeletedType
      <3>6. v \in TableBlock /\ v.magic /\ v.crc /\ v.entries = t
        BY <3>5, TableTypes
      <3>7. queue' = queue \o StoreTable(v)
        BY <2>2
      <3> HIDE DEF t, v
      <3>8. /\ Len(queue') = 4
            /\ queue'[1] = EraseReq(1) /\ queue'[2] = TableReq(1, v)
            /\ queue'[3] = EraseReq(0) /\ queue'[4] = TableReq(0, v)
        BY <1>2, <3>2, <3>6, <3>7, StoreQueueOnly
      <3>9. /\ queue'[0 + 1] = EraseReq(1) /\ queue'[0 + 2] = TableReq(1, v)
            /\ queue'[0 + 3] = EraseReq(0) /\ queue'[0 + 4] = TableReq(0, v)
            /\ Len(queue') \in {0 + 4, 0 + 5} /\ Len(queue') # 0 + 5
            /\ 0 \in Nat /\ \A i \in 1..0 : FALSE
        BY <3>8
      <3>10. /\ v.magic /\ v.crc /\ NamesOnce(v.entries)
             /\ OneStep(FilesOf(table[0].entries), FilesOf(v.entries), asked)
        BY <3>2, <3>4, <3>6
      <3> QED
        BY ONLY <1>1, <3>2, <3>9, <3>10, TypeOK, TypeOK', Safe, StoreSafe
    <2> QED
      BY <1>10, <2>1, <2>2 DEF Delete
  <1>11. CASE state = "GET_FILE" /\ blk = 0 /\ GetFileTable(x)
    <2>1. state' \in {state, "USER"}
      BY <1>11 DEF GetFileTable
    <2>2. ~Busy'
      BY <1>11, <2>1 DEF Busy
    <2>3. CASE queue' = queue
      BY <1>7, <2>1, <2>3
    <2>4. CASE \E i \in SelectedEntry(x.entries) :
                  x.entries[i].len > 0 /\ queue' = Append(queue, ReadReq(x.entries[i].start))
      <3>1. PICK i \in SelectedEntry(x.entries) :
               queue' = Append(queue, ReadReq(x.entries[i].start))
        BY <2>4
      <3>2. i \in Slot
        BY IndexType DEF SelectedEntry, Selected, FirstMatching, Matching
      <3>3. x.entries[i].start \in Nat
        BY <1>2, <3>2 DEF Table, Entry
      <3> QED
        BY <1>8, <2>2, <3>1, <3>3
    <2> QED
      BY <1>11, <2>3, <2>4 DEF GetFileTable
  <1>12. CASE state = "GET_FILE" /\ blk # 0 /\ GetFileData(blk, r.content)
    <2>1. state' \in {state, "USER"}
      BY <1>12 DEF GetFileData
    <2>2. ~Busy'
      BY <1>12, <2>1 DEF Busy
    <2>3. CASE queue' = queue
      BY <1>7, <2>1, <2>3
    <2>4. ASSUME NEW b \in Nat, queue' = Append(queue, ReadReq(b)) PROVE Safe'
      BY <1>8, <2>2, <2>4
    <2>5. flashAddr \in Nat /\ NoBytes \in Nat
      BY DEF TypeOK, NoBytes
    <2> QED
      BY <1>12, <2>3, <2>4, <2>5 DEF GetFileData
  <1>13. CASE state = "PUT_FILE" /\ PutFails(blk, x)
    BY <1>7, <1>13 DEF PutFails
  <1>14. CASE state = "PUT_FILE" /\ PutStores(blk, x)
    <2>1. PICK slot \in FileSlots(x.entries), start \in Placement(x.entries) :
             queue' = queue \o FileRequests(start, cur.size, cur.ver)
                         \o StoreTable(Valid(WithFile(x.entries, slot, cur.name, start,
                                                      cur.size, cur.ver)))
      BY <1>14 DEF PutStores
    <2> DEFINE F == FileRequests(start, cur.size, cur.ver)
               t == WithFile(x.entries, slot, cur.name, start, cur.size, cur.ver)
               v == Valid(t)
               m == 2 * cur.size
    <2>2. Busy /\ blk = 0 /\ x.magic
      BY <1>14 DEF Busy, PutStores
    <2>3. /\ queue = <<>> /\ formatted /\ table[0].magic /\ x = table[0]
          /\ \A k \in 1..Len(results') : ~TableRead(results'[k])
      BY <1>5, <2>2
    <2>4. /\ F \in Seq(FlashReq) /\ Len(F) = m
          /\ \A k \in 1..m : F[k].op \in {"erase", "data"} /\ F[k].block \in Nat
                              /\ F[k].block >= 4
          /\ t \in Table
      BY <1>2, <1>14, RoomFound
    <2>5. /\ cur.name \in Names /\ cur.ver \in 1..MaxOps
          /\ [op |-> "put", name |-> cur.name, ver |-> cur.ver] \in asked
      BY <1>14 DEF CurAsked
    <2>6. NamesOnce(x.entries)
      BY <2>3 DEF Safe, TablesGood
    <2>7. OneStep(FilesOf(x.entries), FilesOf(t), asked) /\ NamesOnce(t)
      BY <1>2, <2>5, <2>6, PutFiles DEF FileSlots
    <2>8. v \in TableBlock /\ v.magic /\ v.crc /\ v.entries = t
      BY <2>4, TableTypes
    <2>9. queue' = (queue \o F) \o StoreTable(v)
      BY <2>1
    <2>10. m \in Nat
      <3>1. cur.size \in Nat
        BY SMTT(30) DEF TypeOK
      <3> QED
        BY ONLY <3>1
    <2> HIDE DEF F, t, v, m
    <2>11. queue \o F = F
      BY <2>3, <2>4
    <2>12. queue' = F \o StoreTable(v)
      BY <2>9, <2>11
    <2>13. /\ Len(queue') = m + 4 /\ \A i \in 1..m : queue'[i] = F[i]
           /\ queue'[m + 1] = EraseReq(1) /\ queue'[m + 2] = TableReq(1, v)
           /\ queue'[m + 3] = EraseReq(0) /\ queue'[m + 4] = TableReq(0, v)
      BY <2>4, <2>8, <2>12, StoreQueue
    <2>14. Len(queue') \in {m + 4, m + 5} /\ Len(queue') # m + 5
      BY <2>10, <2>13
    <2>15. \A i \in 1..m : /\ queue'[i].op \in {"erase", "data"}
                           /\ queue'[i].block \in Nat /\ queue'[i].block >= 4
      BY <2>4, <2>13
    <2>16. /\ v.magic /\ v.crc /\ NamesOnce(v.entries)
           /\ OneStep(FilesOf(table[0].entries), FilesOf(v.entries), asked)
      BY <2>3, <2>7, <2>8
    <2> QED
      BY ONLY <1>1, <2>3, <2>10, <2>13, <2>14, <2>15, <2>16, TypeOK, TypeOK', Safe, StoreSafe
  <1>15. CASE state = "PUT_FILE" /\ PutHostFile(blk, x)
    <2>1. PICK slot \in FileSlots(x.entries), start \in Placement(x.entries) :
          \/ UNCHANGED <<queue, state>>
          \/ \E k \in 1..(2 * cur.size) :
                /\ queue' = queue \o SubSeq(FileRequests(start, cur.size, cur.ver), 1, k)
                /\ state' = "USER"
      BY <1>15 DEF PutHostFile
    <2>2. CASE UNCHANGED <<queue, state>>
      BY <1>7, <2>2
    <2>3. ASSUME NEW k \in 1..(2 * cur.size),
                 queue' = queue \o SubSeq(FileRequests(start, cur.size, cur.ver), 1, k),
                 state' = "USER"
          PROVE  Safe'
      <3> DEFINE F == FileRequests(start, cur.size, cur.ver)
                 m == 2 * cur.size
                 G == SubSeq(F, 1, k)
      <3>1. /\ F \in Seq(FlashReq) /\ Len(F) = m
            /\ \A i \in 1..m : F[i].op \in {"erase", "data"} /\ F[i].block \in Nat
                                /\ F[i].block >= 4
        BY <1>2, <1>15, RoomFound
      <3>2. m \in Nat /\ k \in 1..m /\ queue' = queue \o G
        <4>1. cur.size \in Nat
          BY DEF TypeOK
        <4> QED
          BY <2>3, <4>1
      <3> HIDE DEF F, m
      <3>3. /\ G \in Seq(FlashReq) /\ Len(G) = k
            /\ \A i \in 1..k : i \in 1..m /\ G[i] = F[i]
        BY <3>1, <3>2
      <3> HIDE DEF G
      <3>4. /\ Len(queue') = Len(queue) + k
            /\ \A i \in 1..Len(queue) : queue'[i] = queue[i]
            /\ \A i \in 1..k : queue'[Len(queue) + i] = G[i]
            /\ \A i \in 1..(Len(queue) + k) :
                 i \in 1..Len(queue) \/ (i - Len(queue) \in 1..k /\ Len(queue) + (i - Len(queue)) = i)
        BY <1>2, <3>2, <3>3, ConcatType
      <3>5. ASSUME NEW i \in 1..Len(queue'), i > Len(queue)
            PROVE  queue'[i].op # "table" /\ ~Writes(queue'[i], 0) /\ ~Writes(queue'[i], 1)
        <4>1. i - Len(queue) \in 1..k /\ Len(queue) + (i - Len(queue)) = i
          BY <1>6, <3>4, <3>5
        <4> DEFINE j == i - Len(queue)
        <4>2. queue'[i] = F[j] /\ j \in 1..m
          BY <3>3, <3>4, <4>1
        <4> HIDE DEF j
        <4>3. F[j].op \in {"erase", "data"} /\ F[j].block # 0 /\ F[j].block # 1
          BY <3>1, <4>2
        <4> QED
          BY <4>2, <4>3 DEF Writes
      <3>6. ~Busy'
        BY <2>3 DEF Busy
      <3>7. Len(queue') >= Len(queue)
        BY <1>6, <3>2, <3>4
      <3> QED
        BY <1>1, <3>4, <3>5, <3>6, <3>7, ExtendSafe
    <2> QED
      BY <2>1, <2>2, <2>3
  <1>16. CASE state \in {"USER", "GET_FILE"} /\ UNCHANGED <<queue, state>>
    BY <1>7, <1>16
  <1> QED
    BY <1>4, <1>9, <1>10, <1>11, <1>12, <1>13, <1>14, <1>15, <1>16

-----------------------------------------------------------------------------
(* Every step keeps the table safe.                                        *)

LEMMA BeginKeeps ==
    ASSUME TypeOK, TypeOK', Safe, NEW kind, NEW newState, Begin(kind, newState),
           overlap' # "read", UNCHANGED <<table, results, retry, formatted>>,
           asked \subseteq asked'
    PROVE  Safe'
  <1>1. ~TableReadPending /\ queue' = Append(queue, ReadReq(0))
    BY DEF Begin
  <1> QED
    BY <1>1, BeginSafe

(* A result of a write, an erase or a log entry is taken off, or nothing.  *)
LEMMA TakenOff ==
    ASSUME TypeOK, TypeOK', Safe, results # <<>>, Head(results).op # "read",
           results' = Tail(results),
           UNCHANGED <<table, queue, retry, formatted, asked>>, state' \in {state, "USER"}
    PROVE  Safe'
  <1>1. results \in Seq(FlashResult)
    BY DEF TypeOK
  <1>2. /\ Head(results) = results[1] /\ Len(results) \in Nat /\ Len(results) > 0
        /\ Len(results') = Len(results) - 1
        /\ \A k \in 1..Len(results') : k + 1 \in 1..Len(results) /\ results'[k] = results[k + 1]
    BY <1>1, HeadType
  <1>3. \A k \in 1..Len(results) : k # 1 => k - 1 \in 1..Len(results') /\ (k - 1) + 1 = k
    BY <1>2
  <1>4. \A k \in 1..Len(results) : results[k].op = "read" =>
           k - 1 \in 1..Len(results') /\ results'[k - 1] = results[k]
    BY <1>2, <1>3
  <1>5. \A k \in 1..Len(results') : results'[k].op = "read" =>
           k + 1 \in 1..Len(results) /\ results[k + 1] = results'[k]
    BY <1>2
  <1>6. 1 \in {0, 1}
    OBVIOUS
  <1> QED
    BY <1>4, <1>5, <1>6, QuietSafe

(* Nothing of what the table depends on changes.                           *)
LEMMA NothingChanged ==
    ASSUME TypeOK, TypeOK', Safe,
           UNCHANGED <<table, queue, results, retry, formatted, asked>>,
           state' \in {state, "USER"}
    PROVE  Safe'
  <1>1. Len(results) \in Nat /\ 0 \in {0, 1}
    BY SeqTypes
  <1>2. \A k \in 1..Len(results) : k + 0 = k /\ k - 0 = k
    BY <1>1
  <1>3. /\ \A k \in 1..Len(results') : k + 0 \in 1..Len(results) /\ results[k + 0] = results'[k]
        /\ \A k \in 1..Len(results) : k - 0 \in 1..Len(results') /\ results'[k - 0] = results[k]
    BY <1>2
  <1> QED
    BY <1>1, <1>3, QuietSafe

(* The result of a log entry comes after those that are under way.         *)
LEMMA ExecuteLogSafe ==
    ASSUME TypeOK, TypeOK', Safe, ExecuteLog
    PROVE  Safe'
  <1> DEFINE x == [op |-> "log", block |-> 0, ok |-> TRUE, table |-> Blank,
                   content |-> NoData]
             h == Len(results)
  <1>1. x.op = "log"
    OBVIOUS
  <1>2. results' = Append(results, x)
        /\ UNCHANGED <<table, queue, retry, formatted, asked, state>>
    BY DEF ExecuteLog, historyVars
  <1>3. x \in FlashResult
    BY RequestTypes, TableTypes DEF FlashResult
  <1> HIDE DEF x
  <1>4. results \in Seq(FlashResult)
    BY DEF TypeOK
  <1>5. /\ Len(results') = h + 1 /\ results'[h + 1] = x /\ h \in Nat
        /\ \A k \in 1..h : results'[k] = results[k]
        /\ \A k \in 1..(h + 1) : k \in 1..h \/ k = h + 1
    BY <1>2, <1>3, <1>4, AppendType
  <1> HIDE DEF h
  <1>6. \A k \in 1..h : k \in 1..(h + 1) /\ k + 0 = k /\ k - 0 = k
    BY <1>5
  <1>7. \A k \in 1..Len(results') : results'[k].op = "read" =>
           k + 0 \in 1..h /\ results[k + 0] = results'[k]
    BY <1>1, <1>5, <1>6
  <1>8. \A k \in 1..h : results[k].op = "read" =>
           k - 0 \in 1..Len(results') /\ results'[k - 0] = results[k]
    BY <1>5, <1>6
  <1>9. 0 \in {0, 1}
    OBVIOUS
  <1> QED
    BY <1>2, <1>7, <1>8, <1>9, QuietSafe DEF h

(* What has gone wrong stays so.                                           *)
LEMMA NeverPromisedAgain ==
    ASSUME TypeOK, [Next]_vars
    PROVE  (damaged => damaged') /\ (overlap = "read" => overlap' = "read")
  <1> DEFINE Goal == (damaged => damaged') /\ (overlap = "read" => overlap' = "read")
  <1>1. ASSUME NEW kind, NEW newState, Begin(kind, newState), damaged' = damaged
        PROVE  Goal
    BY <1>1 DEF Begin
  <1>2. ASSUME UNCHANGED <<damaged, overlap>>
        PROVE  Goal
    BY <1>2
  <1>3. CASE HostRequest
    <2>1. ASSUME GetPartitiontable PROVE Goal
      BY <1>1, <2>1 DEF GetPartitiontable
    <2>2. ASSUME PutLog PROVE Goal
      BY <1>2, <2>2 DEF PutLog
    <2>3. ASSUME NEW n, NEW i, DeleteFile(n, i) PROVE Goal
      BY <1>1, <2>3 DEF DeleteFile
    <2>4. ASSUME NEW n, NEW i, GetFile(n, i) PROVE Goal
      BY <1>1, <2>4 DEF GetFile
    <2>5. ASSUME NEW n, NEW i, PutFile(n, i) PROVE Goal
      BY <1>1, <2>5 DEF PutFile
    <2> HIDE DEF Goal
    <2>6. Goal
      BY <1>3, <2>1, <2>2, <2>3, <2>4, <2>5 DEF HostRequest
    <2> QED
      BY <2>6 DEF Goal
  <1>4. CASE HostResult
    BY <1>4 DEF HostResult, ReadBackup, RestoreTable, Dispatch, WriteResult, EraseResult,
       LogResult, Unchanged
  <1>5. CASE Execute
    BY <1>2, <1>5 DEF Execute
  <1>6. CASE ExecuteLog
    BY <1>2, <1>6 DEF ExecuteLog, historyVars
  <1>7. CASE BadWrite
    <2>1. overlap' = overlap /\ damaged' = (damaged \/ Head(queue).op = "table")
      BY <1>7 DEF BadWrite
    <2> QED
      BY <2>1
  <1>8. CASE Crash
    BY <1>2, <1>8 DEF Crash
  <1>9. CASE CrashInWrite
    BY <1>9 DEF CrashInWrite
  <1>10. CASE ToggleError
    BY <1>2, <1>10 DEF ToggleError
  <1>11. CASE UNCHANGED vars
    BY <1>2, <1>11 DEF vars, historyVars
  <1> HIDE DEF Goal
  <1>12. Goal
    BY <1>3, <1>4, <1>5, <1>6, <1>7, <1>8, <1>9, <1>10, <1>11 DEF Next, Fault, Goal
  <1> QED
    BY <1>12 DEF Goal

(* How a step changes the files that the user sees, and what was asked.    *)
StepOfStore ==
    \/ /\ asked' = asked
       /\ OneStep(FilesOf(Effective.entries), FilesOf(Effective'.entries), asked)
    \/ /\ table' = table
       /\ \E r \in Store!Request : asked' = asked \cup {r}

LEMMA SameTable ==
    ASSUME UNCHANGED <<table, asked>>
    PROVE  StepOfStore
  BY DEF StepOfStore, OneStep, Effective

LEMMA NextSafe ==
    ASSUME TypeOK, TypeOK', CurAsked, Safe, [Next]_vars, ~damaged', overlap' # "read"
    PROVE  Safe' /\ StepOfStore
  <1>1. CASE GetPartitiontable
    <2>1. UNCHANGED <<table, results, retry, formatted, asked>> /\ Begin("part", "PARTITION_REQ")
      BY <1>1 DEF GetPartitiontable
    <2> QED
      BY <2>1, BeginKeeps, SameTable
  <1>2. ASSUME NEW n \in Names \cup {NoName}, NEW index, DeleteFile(n, index)
        PROVE  Safe' /\ StepOfStore
    <2> DEFINE r == [op |-> "delete", name |-> n, ver |-> 0]
    <2>1. /\ UNCHANGED <<table, results, retry, formatted>>
          /\ asked' = asked \cup {r}
          /\ Begin(IF index = 0 THEN "delete" ELSE "deleteindex", "DELETE_FILE")
      BY <1>2 DEF DeleteFile
    <2>2. r \in Store!Request
      BY DEF Store!Request
    <2> HIDE DEF r
    <2>3. Safe'
      BY <2>1, BeginKeeps
    <2> QED
      BY <2>1, <2>2, <2>3 DEF StepOfStore
  <1>3. ASSUME NEW n, NEW index, GetFile(n, index)
        PROVE  Safe' /\ StepOfStore
    <2>1. /\ UNCHANGED <<table, results, retry, formatted, asked>>
          /\ Begin(IF index = 0 THEN "get" ELSE "getindex", "GET_FILE")
      BY <1>3 DEF GetFile
    <2> QED
      BY <2>1, BeginKeeps, SameTable
  <1>4. ASSUME NEW n \in Names, NEW size, PutFile(n, size)
        PROVE  Safe' /\ StepOfStore
    <2> DEFINE r == [op |-> "put", name |-> n, ver |-> ops + 1]
    <2>1. /\ UNCHANGED <<table, results, retry, formatted>>
          /\ asked' = asked \cup {r}
          /\ Begin("put", "PUT_FILE")
      BY <1>4 DEF PutFile
    <2>2. ops + 1 \in 1..MaxOps
      BY <2>1, FlashAssumption DEF Begin, TypeOK
    <2>3. r \in Store!Request
      BY <2>2 DEF Store!Request
    <2> HIDE DEF r
    <2>4. Safe'
      BY <2>1, BeginKeeps
    <2> QED
      BY <2>1, <2>3, <2>4 DEF StepOfStore
  <1>5. CASE PutLog
    <2>1. UNCHANGED <<table, queue, results, retry, formatted, asked>> /\ state' = "USER"
      BY <1>5 DEF PutLog
    <2> QED
      BY <2>1, NothingChanged, SameTable
  <1>6. CASE HostRequest
    <2>1. \A n \in Names : n \in Names \cup {NoName}
      OBVIOUS
    <2> QED
      BY <1>1, <1>2, <1>3, <1>4, <1>5, <1>6, <2>1 DEF HostRequest
  <1>7. CASE ReadBackup
    <2>1. UNCHANGED <<table, asked>>
      BY <1>7 DEF ReadBackup, Unchanged
    <2> QED
      BY <1>7, <2>1, ReadBackupSafe, SameTable
  <1>8. CASE RestoreTable
    <2>1. UNCHANGED <<table, asked>>
      BY <1>8 DEF RestoreTable, Unchanged
    <2> QED
      BY <1>8, <2>1, RestoreTableSafe, SameTable
  <1>9. CASE Dispatch
    <2>1. UNCHANGED <<table, asked>>
      BY <1>9 DEF Dispatch
    <2> QED
      BY <1>9, <2>1, DispatchSafe, SameTable
  <1>10. CASE WriteResult
    <2>1. /\ results # <<>> /\ Head(results).op # "read" /\ results' = Tail(results)
          /\ UNCHANGED <<table, queue, retry, formatted, asked>> /\ state' \in {state, "USER"}
      BY <1>10 DEF WriteResult, Unchanged
    <2> QED
      BY <2>1, TakenOff, SameTable
  <1>11. CASE EraseResult
    <2>1. /\ results # <<>> /\ Head(results).op # "read" /\ results' = Tail(results)
          /\ UNCHANGED <<table, queue, retry, formatted, asked>> /\ state' \in {state, "USER"}
      BY <1>11 DEF EraseResult, Unchanged
    <2> QED
      BY <2>1, TakenOff, SameTable
  <1>12. CASE LogResult
    <2>1. /\ results # <<>> /\ Head(results).op # "read" /\ results' = Tail(results)
          /\ UNCHANGED <<table, queue, retry, formatted, asked>> /\ state' \in {state, "USER"}
      BY <1>12 DEF LogResult, Unchanged
    <2> QED
      BY <2>1, TakenOff, SameTable
  <1>13. CASE Execute
    <2>1. asked' = asked
      BY <1>13 DEF Execute
    <2> QED
      BY <1>13, <2>1, ExecuteSafe DEF StepOfStore
  <1>14. CASE ExecuteLog
    <2>1. UNCHANGED <<table, asked>>
      BY <1>14 DEF ExecuteLog, historyVars
    <2> QED
      BY <1>14, <2>1, ExecuteLogSafe, SameTable
  <1>15. CASE BadWrite
    <2>1. UNCHANGED <<table, asked>>
      BY <1>15 DEF BadWrite
    <2> QED
      BY <1>15, <2>1, BadWriteSafe, SameTable
  <1>16. CASE Crash
    <2>1. /\ UNCHANGED <<table, formatted, asked>>
          /\ queue' = <<>> /\ results' = <<>> /\ retry' = FALSE /\ state' = "USER"
      BY <1>16 DEF Crash, Restart
    <2> QED
      BY <2>1, CrashSafe, SameTable
  <1>17. CASE CrashInWrite
    BY <1>17 DEF CrashInWrite
  <1>18. CASE ToggleError
    <2>1. UNCHANGED <<table, queue, results, retry, formatted, asked>> /\ state' = "USER"
      BY <1>18 DEF ToggleError
    <2> QED
      BY <2>1, NothingChanged, SameTable
  <1>19. CASE UNCHANGED vars
    <2>1. UNCHANGED <<table, queue, results, retry, formatted, asked, state>>
      BY <1>19 DEF vars, hostVars, historyVars
    <2> QED
      BY <2>1, NothingChanged, SameTable
  <1> QED
    BY <1>6, <1>7, <1>8, <1>9, <1>10, <1>11, <1>12, <1>13, <1>14, <1>15, <1>16, <1>17,
       <1>18, <1>19 DEF Next, HostResult, Fault

(* The inductive invariant, and what a step is while something is promised.*)
LEMMA IInvInit == Init => IInv
  BY InitType, InitSafe DEF IInv

LEMMA IInvNext ==
    ASSUME IInv, [Next]_vars
    PROVE  IInv' /\ (Promised' => Promised /\ StepOfStore)
  <1>1. TypeOK /\ CurAsked /\ TypeOK' /\ CurAsked'
    BY NextType DEF IInv
  <1>2. Promised' => Promised
    BY <1>1, NeverPromisedAgain DEF Promised
  <1>3. Promised' => Safe' /\ StepOfStore
    <2> SUFFICES ASSUME Promised' PROVE Safe' /\ StepOfStore
      OBVIOUS
    <2>1. Safe /\ ~damaged' /\ overlap' # "read"
      BY <1>2 DEF IInv, Promised
    <2> QED
      BY <1>1, <2>1, NextSafe
  <1> QED
    BY <1>1, <1>2, <1>3 DEF IInv

(* Whatever the requests, results, crashes and bad data writes: one of the *)
(* two table blocks holds a complete table once the flash is formatted,    *)
(* because libdrbcc_put_file, libdrbcc_delete, libdrbcc_create_partition   *)
(* and the restore of libdrbcc_readflash_cb never queue the erase of one   *)
(* block before the other has what the first is to become.                 *)
THEOREM TableAlwaysSafe == Spec => []TableSafe
  <1>1. IInv => TableSafe
    <2> SUFFICES ASSUME IInv, formatted, ~damaged, overlap # "read"
                 PROVE  Effective.magic /\ Effective.crc
      BY DEF TableSafe
    <2>1. OneTable /\ TablesGood
      BY DEF IInv, Promised, Safe
    <2>2. Effective.magic
      BY <2>1 DEF OneTable, Effective
    <2>3. Effective = table[0] \/ Effective = table[1]
      BY DEF Effective
    <2> QED
      BY <2>1, <2>2, <2>3 DEF TablesGood
  <1>2. IInv /\ [Next]_vars => IInv'
    BY IInvNext
  <1> QED
    BY <1>1, <1>2, IInvInit, PTL DEF Spec

(* The two table blocks and the requests on them implement the abstract    *)
(* store: the table that libdrbcc_readflash_cb will use changes by one put *)
(* or one delete that the application asked for, all or nothing, in the    *)
(* single step in which block 0 is erased (or the backup is, in a flash    *)
(* without files); every other step of host, controller or fault leaves it *)
(* as it is.                                                               *)
THEOREM ImplementsStore == Spec => AtomicStore
  <1>1. Init => Store!Init
    <2> SUFFICES ASSUME Init PROVE Store!Init
      OBVIOUS
    <2>1. /\ table[0] \in {Valid(FreshTable), Blank} /\ table[1] \in {Valid(FreshTable), Blank}
          /\ asked = {} /\ damaged = FALSE /\ overlap = "none"
      BY DEF Init
    <2>2. Effective \in {Valid(FreshTable), Blank}
      BY <2>1 DEF Effective
    <2>3. FilesOf(Effective.entries) = {}
      BY <2>2, TableTypes, FreshFiles
    <2> QED
      BY <2>1, <2>3 DEF Store!Init
  <1>2. ASSUME IInv, [Next]_vars
        PROVE  [Store!Next]_<<FilesOf(Effective.entries), asked, damaged \/ overlap = "read">>
    <2>1. CASE ~Promised'
      <3>1. (damaged' \/ overlap' = "read") = TRUE
        BY <2>1 DEF Promised
      <3>2. Store!Damage
        BY <3>1 DEF Store!Damage
      <3> QED
        BY <3>2 DEF Store!Next
    <2>2. CASE Promised'
      <3>1. Promised /\ StepOfStore
        BY <1>2, <2>2, IInvNext
      <3>2. (damaged' \/ overlap' = "read") = (damaged \/ overlap = "read")
        BY <2>2, <3>1 DEF Promised
      <3>3. CASE /\ table' = table
                 /\ \E r \in Store!Request : asked' = asked \cup {r}
        <4>1. FilesOf(Effective'.entries) = FilesOf(Effective.entries)
          BY <3>3 DEF Effective
        <4>2. Store!Ask
          BY <3>2, <3>3, <4>1 DEF Store!Ask
        <4> QED
          BY <4>2 DEF Store!Next
      <3>4. CASE /\ asked' = asked
                 /\ OneStep(FilesOf(Effective.entries), FilesOf(Effective'.entries), asked)
        <4> DEFINE a == FilesOf(Effective.entries)
                   b == FilesOf(Effective'.entries)
        <4>1. CASE b = a
          BY <3>2, <3>4, <4>1
        <4>2. ASSUME NEW n \in Names,
                     \E m \in {n, NoName} : [op |-> "delete", name |-> m, ver |-> 0] \in asked,
                     b = {f \in a : f.name # n}
              PROVE  Store!Next
          <5>1. Store!Delete(n)
            BY <3>2, <3>4, <4>2 DEF Store!Delete
          <5> QED
            BY <5>1 DEF Store!Next
        <4>3. ASSUME NEW n \in Names, NEW c \in 1..MaxOps,
                     [op |-> "put", name |-> n, ver |-> c] \in asked,
                     b = {f \in a : f.name # n} \cup {[name |-> n, ver |-> c]}
              PROVE  Store!Next
          <5>1. Store!Put(n, c)
            BY <3>2, <3>4, <4>3 DEF Store!Put
          <5> QED
            BY <5>1 DEF Store!Next
        <4> QED
          BY <3>4, <4>1, <4>2, <4>3 DEF OneStep
      <3> QED
        BY <3>1, <3>3, <3>4 DEF StepOfStore
    <2> QED
      BY <2>1, <2>2
  <1>3. IInv /\ [Next]_vars => IInv'
    BY IInvNext
  <1> QED
    BY <1>1, <1>2, <1>3, IInvInit, PTL DEF Spec, AtomicStore, Store!Spec
-----------------------------------------------------------------------------
(* The contents of the files.  Their part of the inductive invariant needs *)
(* no good table: it holds after a table write has failed as well.  It is  *)
(* written over the tables tb, the data blocks d, the queue q, the results *)
(* rs and the contents tc that a put has touched.                          *)

(* A request that changes data block b, any data block, a table block.     *)
Hits(r, b) == r.op \in {"erase", "data"} /\ r.block = b
DataOp(r) == r.op \in {"erase", "data"} /\ r.block \in DataBlocks
TableOp(r) == Writes(r, 0) \/ Writes(r, 1)

(* A data block holds its content for good, or is going to.                *)
Settled(b, c, d, q) ==
    /\ b \in DataBlocks
    /\ d[b] = c
    /\ \A j \in 1..Len(q) : ~Hits(q[j], b)

Coming(b, c, q) ==
    \E j \in 1..Len(q) :
        /\ q[j].op = "data" /\ q[j].block = b /\ q[j].content = c
        /\ \A l \in 1..Len(q) : l > j => ~Hits(q[l], b)

(* The files of table t that no put began to replace are in the flash, or  *)
(* will be when what is queued is done.                                    *)
Kept(e, tc) == e.name \in Names /\ e.ver \notin tc

Good(t, d, q, tc) ==
    \A s \in Slot : Kept(t[s], tc) =>
        \A k \in 1..t[s].len : Settled(t[s].start + k - 1, <<t[s].ver, k>>, d, q)

WillBeGood(t, d, q, tc) ==
    \A s \in Slot : Kept(t[s], tc) =>
        \A k \in 1..t[s].len : \/ Settled(t[s].start + k - 1, <<t[s].ver, k>>, d, q)
                               \/ Coming(t[s].start + k - 1, <<t[s].ver, k>>, q)

(* Requests are for the blocks they are meant for.                         *)
InBlocks(t) == \A s \in Slot : ~isEmpty(t[s]) => t[s].start >= FirstBlock

RequestsFit(tb, q) ==
    /\ \A i \in 1..Len(q) :
          /\ q[i].op = "table" => q[i].block \in {0, 1} /\ InBlocks(q[i].table.entries)
          /\ q[i].op = "data" => q[i].block \in DataBlocks
          /\ q[i].op = "erase" => q[i].block \in {0, 1} \cup DataBlocks
    /\ \A b \in {0, 1} : InBlocks(tb[b].entries)

(* One table read is under way at a time, nothing is written behind it,    *)
(* and its result is what the block holds.                                 *)
OneRead(q, rs) ==
    /\ \A i, j \in 1..Len(q) : (TableRead(q[i]) /\ TableRead(q[j])) => i = j
    /\ \A k, l \in 1..Len(rs) : (TableRead(rs[k]) /\ TableRead(rs[l])) => k = l
    /\ \A i \in 1..Len(q), k \in 1..Len(rs) : ~(TableRead(q[i]) /\ TableRead(rs[k]))

ReadsBehindWrites(tb, q, rs) ==
    /\ \A i, j \in 1..Len(q) : (TableRead(q[i]) /\ i < j) => q[j].op = "read"
    /\ \A k \in 1..Len(rs) : TableRead(rs[k]) =>
          /\ \A j \in 1..Len(q) : q[j].op = "read"
          /\ rs[k].table = tb[rs[k].block]

(* The order of the writes: data, the backup, block 0.                     *)
WriteOrder(tb, q) ==
    /\ \A i, j \in 1..Len(q) : (DataOp(q[i]) /\ TableOp(q[j])) => i < j
    /\ \A i, j \in 1..Len(q) : (Writes(q[i], 1) /\ Writes(q[j], 0)) => i < j
    /\ \A i, j \in 1..Len(q) : (TableOf(q[i], 1) /\ Writes(q[j], 1)) => j <= i
    /\ \A i \in 1..Len(q) : TableOf(q[i], 1) =>
          \/ tb[1] = Blank
          \/ \E j \in 1..Len(q) : q[j] = EraseReq(1)

(* Something under way may make the backup the table that is used.         *)
BackupWanted(q, rs) ==
    \/ \E i \in 1..Len(q) : Writes(q[i], 0) \/ (TableRead(q[i]) /\ q[i].block = 1)
    \/ \E k \in 1..Len(rs) : TableRead(rs[k]) /\ (rs[k].block = 1 \/ ~rs[k].table.magic)

BackupSettled(q) == \A i \in 1..Len(q) : ~Writes(q[i], 1)

(* The table that is used, as Effective.                                   *)
InUseOf(tb) == IF tb[0].magic THEN tb[0] ELSE tb[1]

FilesGood(tb, d, q, rs, tc) ==
    /\ Good(InUseOf(tb).entries, d, q, tc)
    /\ \A i \in 1..Len(q) : q[i].op = "table" => WillBeGood(q[i].table.entries, d, q, tc)
    /\ (BackupWanted(q, rs) /\ BackupSettled(q)) => Good(tb[1].entries, d, q, tc)

Intact(tb, d, q, rs, tc) ==
    /\ RequestsFit(tb, q)
    /\ OneRead(q, rs)
    /\ ReadsBehindWrites(tb, q, rs)
    /\ WriteOrder(tb, q)
    /\ FilesGood(tb, d, q, rs, tc)

DataSafe ==
    /\ Intact(table, data, queue, results, touched)
    /\ flashAddr # 0 => flashAddr >= FirstBlock

-----------------------------------------------------------------------------
(* The first request leaves the queue.                                     *)

Popped(q, q2) ==
    /\ Len(q) \in Nat /\ 1 \in 1..Len(q) /\ Len(q2) = Len(q) - 1
    /\ \A i \in 1..Len(q2) : i + 1 \in 1..Len(q) /\ q2[i] = q[i + 1]
    /\ \A i \in 1..Len(q) : i # 1 => i - 1 \in 1..Len(q2) /\ q2[i - 1] = q[i]

(* Request h leaves alone the data blocks that it is not for.              *)
Applied(h, d, d2) == \A b \in DataBlocks : ~Hits(h, b) => d2[b] = d[b]

LEMMA SettledPop ==
    ASSUME NEW q, NEW q2, Popped(q, q2), NEW d, NEW d2, Applied(q[1], d, d2), NEW b, NEW c,
           Settled(b, c, d, q)
    PROVE  Settled(b, c, d2, q2)
  BY DEF Settled, Popped, Applied

LEMMA ComingPop ==
    ASSUME NEW q, NEW q2, Popped(q, q2), NEW d2, NEW b \in DataBlocks, NEW c, Coming(b, c, q),
           q[1].op = "data" => (q[1].block = b /\ q[1].content = c => d2[b] = c)
    PROVE  Settled(b, c, d2, q2) \/ Coming(b, c, q2)
  <1>1. PICK j \in 1..Len(q) :
           /\ q[j].op = "data" /\ q[j].block = b /\ q[j].content = c
           /\ \A l \in 1..Len(q) : l > j => ~Hits(q[l], b)
    BY DEF Coming
  <1>2. CASE j = 1
    <2>1. \A i \in 1..Len(q2) : i + 1 > 1 /\ i + 1 \in 1..Len(q) /\ q2[i] = q[i + 1]
      BY DEF Popped
    <2>2. \A i \in 1..Len(q2) : ~Hits(q2[i], b)
      BY <1>1, <1>2, <2>1
    <2> QED
      BY <1>1, <1>2, <2>2 DEF Settled
  <1>3. CASE j # 1
    <2>1. j - 1 \in 1..Len(q2) /\ q2[j - 1] = q[j]
      BY <1>3 DEF Popped
    <2>2. \A l \in 1..Len(q2) : l > j - 1 => l + 1 > j /\ l + 1 \in 1..Len(q) /\ q2[l] = q[l + 1]
      BY DEF Popped
    <2> QED
      BY <1>1, <2>1, <2>2 DEF Coming
  <1> QED
    BY <1>2, <1>3

LEMMA GoodPop ==
    ASSUME NEW q, NEW q2, Popped(q, q2), NEW d, NEW d2, Applied(q[1], d, d2),
           NEW tc, NEW tc2, tc \subseteq tc2, NEW t, Good(t, d, q, tc)
    PROVE  Good(t, d2, q2, tc2)
  <1>1. \A s \in Slot : Kept(t[s], tc2) => Kept(t[s], tc)
    BY DEF Kept
  <1> QED
    BY <1>1, SettledPop DEF Good

(* A data request that is executed settles its block; one that fails makes *)
(* its content touched.                                                    *)
LEMMA WillPop ==
    ASSUME NEW q, NEW q2, Popped(q, q2), NEW d, NEW d2, Applied(q[1], d, d2),
           NEW tb, RequestsFit(tb, q),
           NEW tc, NEW tc2, tc \subseteq tc2, NEW t, WillBeGood(t, d, q, tc),
           q[1].op = "data" =>
               d2[q[1].block] = q[1].content \/ q[1].content[1] \in tc2
    PROVE  WillBeGood(t, d2, q2, tc2)
  <1> SUFFICES ASSUME NEW s \in Slot, Kept(t[s], tc2), NEW k \in 1..t[s].len
               PROVE  \/ Settled(t[s].start + k - 1, <<t[s].ver, k>>, d2, q2)
                      \/ Coming(t[s].start + k - 1, <<t[s].ver, k>>, q2)
    BY DEF WillBeGood
  <1> DEFINE b == t[s].start + k - 1
             c == <<t[s].ver, k>>
  <1>1. Kept(t[s], tc) /\ c[1] \notin tc2
    BY DEF Kept
  <1>2. Settled(b, c, d, q) \/ Coming(b, c, q)
    BY <1>1 DEF WillBeGood
  <1> HIDE DEF b, c
  <1>3. CASE Settled(b, c, d, q)
    BY <1>3, SettledPop DEF b, c
  <1>4. CASE Coming(b, c, q)
    <2>1. b \in DataBlocks
      BY <1>4 DEF Coming, RequestsFit
    <2>2. q[1].op = "data" => (q[1].block = b /\ q[1].content = c => d2[b] = c)
      BY <1>1
    <2>3. Settled(b, c, d2, q2) \/ Coming(b, c, q2)
      BY <1>4, <2>1, <2>2, ComingPop
    <2> QED
      BY <2>3 DEF b, c
  <1> QED
    BY <1>2, <1>3, <1>4

(* Without data requests under way a table is good now.                    *)
LEMMA WillIsGood ==
    ASSUME NEW q, NEW tb, RequestsFit(tb, q), \A i \in 1..Len(q) : ~DataOp(q[i]),
           NEW t, NEW d, NEW tc, WillBeGood(t, d, q, tc)
    PROVE  Good(t, d, q, tc)
  <1>1. \A b, c : ~Coming(b, c, q)
    BY DEF Coming, RequestsFit, DataOp
  <1> QED
    BY <1>1 DEF Good, WillBeGood

LEMMA BlankGood ==
    ASSUME NEW d, NEW q, NEW tc
    PROVE  Good(Blank.entries, d, q, tc) /\ InBlocks(Blank.entries)
  <1>1. NoName \notin Names /\ Blank.entries = [i \in Slot |-> EmptyEntry]
    BY TableAssumption, TableTypes
  <1>2. EmptyEntry.name = NoName
    BY DEF EmptyEntry
  <1> QED
    BY <1>1, <1>2 DEF Good, Kept, InBlocks, isEmpty


(* A result joins the others.                                              *)
Added(rs, rs2, x) ==
    /\ Len(rs) \in Nat /\ Len(rs2) = Len(rs) + 1 /\ rs2[Len(rs) + 1] = x
    /\ \A k \in 1..Len(rs) : rs2[k] = rs[k] /\ k \in 1..Len(rs2)
    /\ \A k \in 1..Len(rs2) : k \in 1..Len(rs) \/ k = Len(rs) + 1
    /\ Len(rs) + 1 \in 1..Len(rs2)

(* x is the result of request h, and tb2 what h makes of the tables: an    *)
(* erase does not fail, a write may.                                       *)
ResultOf(h, x, tb) ==
    /\ TableRead(x) <=> TableRead(h)
    /\ TableRead(h) => x.block = h.block /\ x.table = tb[h.block]

TablesAfter(h, tb, tb2) ==
    \A b \in {0, 1} :
        /\ ~Writes(h, b) => tb2[b] = tb[b]
        /\ (h.op = "erase" /\ h.block = b) => tb2[b] = Blank
        /\ TableOf(h, b) => tb2[b] \in {tb[b], h.table}

LEMMA PopFit ==
    ASSUME NEW q, NEW q2, Popped(q, q2), NEW tb, NEW tb2, TablesAfter(q[1], tb, tb2),
           RequestsFit(tb, q)
    PROVE  RequestsFit(tb2, q2)
  <1>1. 1 \in 1..Len(q) /\ \A i \in 1..Len(q2) : i + 1 \in 1..Len(q) /\ q2[i] = q[i + 1]
    BY DEF Popped
  <1>2. ASSUME NEW b \in {0, 1} PROVE InBlocks(tb2[b].entries)
    <2>1. tb2[b] \in {tb[b], Blank, q[1].table}
      BY <1>2 DEF TablesAfter, Writes, TableOf
    <2>2. InBlocks(Blank.entries)
      BY BlankGood
    <2>3. CASE tb2[b] = q[1].table /\ TableOf(q[1], b)
      BY <1>1, <2>3 DEF RequestsFit, TableOf
    <2>4. CASE ~TableOf(q[1], b) \/ tb2[b] = tb[b]
      <3>1. tb2[b] \in {tb[b], Blank}
        BY <1>2, <2>4 DEF TablesAfter, Writes, TableOf
      <3> QED
        BY <2>2, <3>1 DEF RequestsFit
    <2> QED
      BY <2>3, <2>4 DEF TablesAfter
  <1> QED
    BY <1>1, <1>2 DEF RequestsFit

LEMMA PopReads ==
    ASSUME NEW q, NEW q2, Popped(q, q2), NEW rs, NEW rs2, NEW x, Added(rs, rs2, x),
           NEW tb, NEW tb2, TablesAfter(q[1], tb, tb2), ResultOf(q[1], x, tb),
           OneRead(q, rs), ReadsBehindWrites(tb, q, rs)
    PROVE  OneRead(q2, rs2) /\ ReadsBehindWrites(tb2, q2, rs2)
  <1>1. /\ 1 \in 1..Len(q)
        /\ \A i \in 1..Len(q2) : i + 1 \in 1..Len(q) /\ q2[i] = q[i + 1] /\ i + 1 > 1
    BY DEF Popped
  <1>2. q[1].op = "read" => \A b \in {0, 1} : tb2[b] = tb[b]
    BY DEF TablesAfter, Writes
  <1>3. ASSUME TableRead(q[1]) PROVE \A i \in 1..Len(q2) : ~TableRead(q2[i]) /\ q2[i].op = "read"
    <2>1. \A i \in 1..Len(q2) : i + 1 # 1 /\ 1 < i + 1
      BY <1>1
    <2> QED
      BY <1>1, <1>3, <2>1 DEF OneRead, ReadsBehindWrites
  <1>4. \A k \in 1..Len(rs2) : TableRead(rs2[k]) =>
           \/ k \in 1..Len(rs) /\ rs2[k] = rs[k] /\ TableRead(rs[k])
           \/ k = Len(rs) + 1 /\ rs2[k] = x /\ TableRead(q[1])
    BY DEF Added, ResultOf
  <1>5. ASSUME TableRead(q[1]) PROVE \A k \in 1..Len(rs) : ~TableRead(rs[k])
    BY <1>1, <1>5 DEF OneRead
  <1>6. OneRead(q2, rs2)
    <2>1. \A i, j \in 1..Len(q2) : (TableRead(q2[i]) /\ TableRead(q2[j])) => i = j
      <3> SUFFICES ASSUME NEW i \in 1..Len(q2), NEW j \in 1..Len(q2),
                          TableRead(q2[i]), TableRead(q2[j])
                   PROVE  i = j
        OBVIOUS
      <3>1. i + 1 = j + 1
        BY <1>1 DEF OneRead
      <3>2. i \in Int /\ j \in Int
        OBVIOUS
      <3> QED
        BY <3>1, <3>2
    <2>2. \A k, l \in 1..Len(rs2) : (TableRead(rs2[k]) /\ TableRead(rs2[l])) => k = l
      BY <1>4, <1>5 DEF OneRead
    <2>3. \A i \in 1..Len(q2), k \in 1..Len(rs2) : ~(TableRead(q2[i]) /\ TableRead(rs2[k]))
      BY <1>1, <1>3, <1>4 DEF OneRead
    <2> QED
      BY <2>1, <2>2, <2>3 DEF OneRead
  <1>7. ReadsBehindWrites(tb2, q2, rs2)
    <2>1. \A i, j \in 1..Len(q2) : (TableRead(q2[i]) /\ i < j) => q2[j].op = "read"
      <3>1. \A i, j \in 1..Len(q2) : i < j => i + 1 < j + 1
        OBVIOUS
      <3> QED
        BY <1>1, <3>1 DEF ReadsBehindWrites
    <2>2. ASSUME NEW k \in 1..Len(rs2), TableRead(rs2[k])
          PROVE  /\ \A j \in 1..Len(q2) : q2[j].op = "read"
                 /\ rs2[k].table = tb2[rs2[k].block]
      <3>1. CASE k \in 1..Len(rs) /\ rs2[k] = rs[k] /\ TableRead(rs[k])
        <4>1. /\ \A j \in 1..Len(q) : q[j].op = "read"
              /\ rs[k].table = tb[rs[k].block] /\ rs[k].block \in {0, 1}
          BY <3>1 DEF ReadsBehindWrites, TableRead
        <4> QED
          BY <1>1, <1>2, <3>1, <4>1
      <3>2. CASE k = Len(rs) + 1 /\ rs2[k] = x /\ TableRead(q[1])
        <4>1. q[1].op = "read" /\ x.block \in {0, 1} /\ x.table = tb[x.block]
          BY <3>2 DEF ResultOf, TableRead
        <4> QED
          BY <1>2, <1>3, <3>2, <4>1
      <3> QED
        BY <1>4, <2>2, <3>1, <3>2
    <2> QED
      BY <2>1, <2>2 DEF ReadsBehindWrites
  <1> QED
    BY <1>6, <1>7

LEMMA EraseOne == /\ EraseReq(1).op = "erase" /\ EraseReq(1).block = 1 /\ Writes(EraseReq(1), 1)
                  /\ ~TableOf(EraseReq(1), 1) /\ ~TableOf(EraseReq(1), 0)
  BY DEF EraseReq, Writes, TableOf

LEMMA PopOrder ==
    ASSUME NEW q, NEW q2, Popped(q, q2), NEW tb, NEW tb2, TablesAfter(q[1], tb, tb2),
           WriteOrder(tb, q)
    PROVE  WriteOrder(tb2, q2)
  <1>1. /\ 1 \in 1..Len(q)
        /\ \A i \in 1..Len(q2) : i + 1 \in 1..Len(q) /\ q2[i] = q[i + 1] /\ i + 1 > 1
    BY DEF Popped
  <1>2. \A i, j \in 1..Len(q2) : (i + 1 < j + 1 => i < j) /\ (j + 1 <= i + 1 => j <= i)
    OBVIOUS
  <1>3. \A i, j \in 1..Len(q2) : (DataOp(q2[i]) /\ TableOp(q2[j])) => i < j
    BY <1>1, <1>2 DEF WriteOrder
  <1>4. \A i, j \in 1..Len(q2) : (Writes(q2[i], 1) /\ Writes(q2[j], 0)) => i < j
    BY <1>1, <1>2 DEF WriteOrder
  <1>5. \A i, j \in 1..Len(q2) : (TableOf(q2[i], 1) /\ Writes(q2[j], 1)) => j <= i
    BY <1>1, <1>2 DEF WriteOrder
  <1>6. ASSUME NEW i \in 1..Len(q2), TableOf(q2[i], 1), tb2[1] # Blank
        PROVE  \E j \in 1..Len(q2) : q2[j] = EraseReq(1)
    <2>1. i + 1 \in 1..Len(q) /\ TableOf(q[i + 1], 1) /\ Writes(q[i + 1], 1) /\ ~(i + 1 <= 1)
      BY <1>1, <1>6 DEF TableOf, Writes
    <2>2. ~TableOf(q[1], 1)
      BY <1>1, <2>1 DEF WriteOrder
    <2>3. q[1] # EraseReq(1) /\ tb2[1] = tb[1]
      BY <1>6, <2>2, EraseOne DEF TablesAfter, TableOf, Writes
    <2>4. PICK j \in 1..Len(q) : q[j] = EraseReq(1)
      BY <1>6, <2>1, <2>3 DEF WriteOrder
    <2>5. j # 1 /\ j - 1 \in 1..Len(q2) /\ q2[j - 1] = q[j]
      BY <2>3, <2>4 DEF Popped
    <2> QED
      BY <2>4, <2>5
  <1> QED
    BY <1>3, <1>4, <1>5, <1>6 DEF WriteOrder


(* The first request leaves the queue, executed or failed, and the files   *)
(* stay: one step of the controller.                                       *)
LEMMA PopFiles ==
    ASSUME NEW q, NEW q2, Popped(q, q2), NEW rs, NEW rs2, NEW x, Added(rs, rs2, x),
           NEW tb, NEW tb2, TablesAfter(q[1], tb, tb2), ResultOf(q[1], x, tb),
           NEW d, NEW d2, Applied(q[1], d, d2), NEW tc, NEW tc2, tc \subseteq tc2,
           Intact(tb, d, q, rs, tc),
           q[1].op = "data" => d2[q[1].block] = q[1].content \/ q[1].content[1] \in tc2
    PROVE  FilesGood(tb2, d2, q2, rs2, tc2)
  <1>1. /\ RequestsFit(tb, q) /\ OneRead(q, rs) /\ WriteOrder(tb, q)
        /\ Good(InUseOf(tb).entries, d, q, tc)
        /\ \A i \in 1..Len(q) : q[i].op = "table" => WillBeGood(q[i].table.entries, d, q, tc)
        /\ (BackupWanted(q, rs) /\ BackupSettled(q)) => Good(tb[1].entries, d, q, tc)
    BY DEF Intact, FilesGood
  <1>2. 1 \in 1..Len(q) /\ \A i \in 1..Len(q2) : i + 1 \in 1..Len(q) /\ q2[i] = q[i + 1]
    BY DEF Popped
  <1>3. \A i \in 1..Len(q) : ~(i < 1)
    BY DEF Popped
  <1>4. \A t : Good(t, d, q, tc) => Good(t, d2, q2, tc2)
    BY GoodPop
  <1>5. \A i \in 1..Len(q2) : q2[i].op = "table" => WillBeGood(q2[i].table.entries, d2, q2, tc2)
    BY <1>1, <1>2, WillPop
  <1>6. BackupWanted(q2, rs2) =>
           BackupWanted(q, rs) \/ (TableRead(q[1]) /\ ~tb[0].magic)
    <2>1. ASSUME NEW i \in 1..Len(q2), Writes(q2[i], 0) \/ (TableRead(q2[i]) /\ q2[i].block = 1)
          PROVE  BackupWanted(q, rs)
      BY <1>2, <2>1 DEF BackupWanted
    <2>2. ASSUME NEW k \in 1..Len(rs2), TableRead(rs2[k]), rs2[k].block = 1 \/ ~rs2[k].table.magic
          PROVE  BackupWanted(q, rs) \/ (TableRead(q[1]) /\ ~tb[0].magic)
      <3>1. CASE k \in 1..Len(rs) /\ rs2[k] = rs[k]
        BY <2>2, <3>1 DEF BackupWanted
      <3>2. CASE rs2[k] = x
        <4>1. TableRead(q[1]) /\ x.block = q[1].block /\ x.table = tb[q[1].block]
          BY <2>2, <3>2 DEF ResultOf
        <4>2. q[1].block = 1 \/ q[1].block = 0
          BY <4>1 DEF TableRead
        <4>3. CASE q[1].block = 1
          BY <1>2, <4>1, <4>3 DEF BackupWanted
        <4>4. CASE q[1].block = 0
          BY <2>2, <3>2, <4>1, <4>4
        <4> QED
          BY <4>2, <4>3, <4>4
      <3> QED
        BY <3>1, <3>2 DEF Added
    <2> QED
      BY <2>1, <2>2 DEF BackupWanted
  <1>7. (BackupSettled(q2) /\ ~Writes(q[1], 1)) => BackupSettled(q)
    BY DEF BackupSettled, Popped
  <1>8. ASSUME NEW b \in {0, 1}, TableOf(q[1], b)
        PROVE  Good(q[1].table.entries, d2, q2, tc2)
    <2>1. TableOp(q[1]) /\ q[1].op = "table"
      BY <1>8 DEF TableOp, TableOf, Writes
    <2>2. \A i \in 1..Len(q) : ~DataOp(q[i])
      BY <1>1, <1>2, <1>3, <2>1 DEF WriteOrder
    <2>3. Good(q[1].table.entries, d, q, tc)
      BY <1>1, <1>2, <2>1, <2>2, WillIsGood
    <2> QED
      BY <1>4, <2>3
  <1>9. Good(Blank.entries, d2, q2, tc2) /\ ~Blank.magic
    BY BlankGood, TableTypes
  <1>10. CASE ~Writes(q[1], 0) /\ ~Writes(q[1], 1)
    <2>1. tb2[0] = tb[0] /\ tb2[1] = tb[1]
      BY <1>10 DEF TablesAfter
    <2>2. Good(InUseOf(tb2).entries, d2, q2, tc2)
      BY <1>1, <1>4, <2>1 DEF InUseOf
    <2>3. ASSUME BackupWanted(q2, rs2), BackupSettled(q2) PROVE Good(tb2[1].entries, d2, q2, tc2)
      <3>1. CASE BackupWanted(q, rs)
        BY <1>1, <1>4, <1>7, <1>10, <2>1, <2>3, <3>1
      <3>2. CASE ~tb[0].magic
        BY <2>1, <2>2, <3>2 DEF InUseOf
      <3> QED
        BY <1>6, <2>3, <3>1, <3>2
    <2> QED
      BY <1>5, <2>2, <2>3 DEF FilesGood
  <1>11. CASE Writes(q[1], 0)
    <2>1. BackupWanted(q, rs)
      BY <1>2, <1>11 DEF BackupWanted
    <2>2. BackupSettled(q)
      BY <1>1, <1>2, <1>3, <1>11 DEF BackupSettled, WriteOrder
    <2>3. ~Writes(q[1], 1)
      BY <1>11 DEF Writes
    <2>4. tb2[1] = tb[1] /\ Good(tb2[1].entries, d2, q2, tc2)
      BY <1>1, <1>4, <2>1, <2>2, <2>3 DEF TablesAfter
    <2>5. tb2[0].magic => Good(tb2[0].entries, d2, q2, tc2)
      <3>1. CASE q[1].op = "erase"
        BY <1>9, <1>11, <3>1 DEF TablesAfter, Writes
      <3>2. CASE TableOf(q[1], 0)
        <4>1. tb2[0] \in {tb[0], q[1].table}
          BY <3>2 DEF TablesAfter
        <4>2. Good(q[1].table.entries, d2, q2, tc2)
          BY <1>8, <3>2
        <4>3. tb[0].magic => Good(tb[0].entries, d2, q2, tc2)
          BY <1>1, <1>4 DEF InUseOf
        <4> QED
          BY <4>1, <4>2, <4>3
      <3> QED
        BY <1>11, <3>1, <3>2 DEF Writes, TableOf
    <2> QED
      BY <1>5, <2>4, <2>5 DEF FilesGood, InUseOf
  <1>12. CASE Writes(q[1], 1)
    <2>1. ~Writes(q[1], 0)
      BY <1>12 DEF Writes
    <2>2. tb2[0] = tb[0]
      BY <2>1 DEF TablesAfter
    <2>3. Good(tb2[1].entries, d2, q2, tc2)
      <3>1. CASE q[1].op = "erase"
        BY <1>9, <1>12, <3>1 DEF TablesAfter, Writes
      <3>2. CASE TableOf(q[1], 1)
        <4>1. tb2[1] \in {tb[1], q[1].table}
          BY <3>2 DEF TablesAfter
        <4>2. Good(q[1].table.entries, d2, q2, tc2)
          BY <1>8, <3>2
        <4>3. tb[1] = Blank
          <5>1. ASSUME NEW j \in 1..Len(q), q[j] = EraseReq(1) PROVE FALSE
            <6>1. j <= 1
              BY <1>1, <1>2, <3>2, <5>1, EraseOne DEF WriteOrder
            <6>2. j = 1
              BY <6>1
            <6> QED
              BY <3>2, <5>1, <6>2, EraseOne
          <5> QED
            BY <1>1, <1>2, <3>2, <5>1 DEF WriteOrder
        <4> QED
          BY <1>9, <4>1, <4>2, <4>3
      <3> QED
        BY <1>12, <3>1, <3>2 DEF Writes, TableOf
    <2>4. tb[0].magic => Good(tb[0].entries, d2, q2, tc2)
      BY <1>1, <1>4 DEF InUseOf
    <2> QED
      BY <1>5, <2>2, <2>3, <2>4 DEF FilesGood, InUseOf
  <1> QED
    BY <1>10, <1>11, <1>12

LEMMA PopIntact ==
    ASSUME NEW q, NEW q2, Popped(q, q2), NEW rs, NEW rs2, NEW x, Added(rs, rs2, x),
           NEW tb, NEW tb2, TablesAfter(q[1], tb, tb2), ResultOf(q[1], x, tb),
           NEW d, NEW d2, Applied(q[1], d, d2), NEW tc, NEW tc2, tc \subseteq tc2,
           Intact(tb, d, q, rs, tc),
           q[1].op = "data" => d2[q[1].block] = q[1].content \/ q[1].content[1] \in tc2
    PROVE  Intact(tb2, d2, q2, rs2, tc2)
  <1>1. /\ RequestsFit(tb, q) /\ OneRead(q, rs) /\ ReadsBehindWrites(tb, q, rs)
        /\ WriteOrder(tb, q)
    BY DEF Intact
  <1>2. FilesGood(tb2, d2, q2, rs2, tc2)
    BY PopFiles
  <1> QED
    BY <1>1, <1>2, PopFit, PopReads, PopOrder DEF Intact

(* Nothing is under way any more: a crash.  A table that was being written *)
(* has the first entries of the new one.                                   *)
Torn(t, u) == \A s \in Slot : t[s] \in {u[s], EmptyEntry}

LEMMA TornGood ==
    ASSUME NEW t, NEW u, Torn(t, u), NEW d, NEW q, NEW tc
    PROVE  /\ Good(u, d, q, tc) => Good(t, d, q, tc)
           /\ InBlocks(u) => InBlocks(t)
  <1>1. ~Kept(EmptyEntry, tc) /\ isEmpty(EmptyEntry)
    BY TableAssumption DEF Kept, EmptyEntry, isEmpty
  <1>2. \A s \in Slot : t[s] = u[s] \/ t[s] = EmptyEntry
    BY DEF Torn
  <1> QED
    BY <1>1, <1>2 DEF Good, InBlocks

LEMMA GoodAlone ==
    ASSUME NEW t, NEW d, NEW q, NEW tc, Good(t, d, q, tc), NEW q2, Len(q2) = 0
    PROVE  Good(t, d, q2, tc)
  <1>1. \A j \in 1..Len(q2) : FALSE
    OBVIOUS
  <1> QED
    BY <1>1 DEF Good, Settled

LEMMA CrashIntact ==
    ASSUME NEW q, NEW q2, NEW rs, NEW rs2, Len(q2) = 0, Len(rs2) = 0,
           NEW tb, NEW tb2, NEW d, NEW tc, Intact(tb, d, q, rs, tc),
           Len(q) \in Nat,
           \/ tb2 = tb
           \/ /\ Len(q) > 0
              /\ \E b \in {0, 1} : /\ TableOf(q[1], b)
                                   /\ \A c \in {0, 1} : c # b => tb2[c] = tb[c]
                                   /\ tb2[b].magic
                                   /\ Torn(tb2[b].entries, q[1].table.entries)
    PROVE  Intact(tb2, d, q2, rs2, tc)
  <1>1. /\ \A j \in 1..Len(q2) : FALSE
        /\ \A j \in 1..Len(rs2) : FALSE
    OBVIOUS
  <1>2. /\ RequestsFit(tb, q) /\ WriteOrder(tb, q)
        /\ Good(InUseOf(tb).entries, d, q, tc)
        /\ \A i \in 1..Len(q) : q[i].op = "table" => WillBeGood(q[i].table.entries, d, q, tc)
    BY DEF Intact, FilesGood
  <1>3. OneRead(q2, rs2) /\ ReadsBehindWrites(tb2, q2, rs2) /\ WriteOrder(tb2, q2)
    BY <1>1 DEF OneRead, ReadsBehindWrites, WriteOrder
  <1>4. ~BackupWanted(q2, rs2)
    BY <1>1 DEF BackupWanted
  <1>5. /\ \A b \in {0, 1} : InBlocks(tb2[b].entries)
        /\ Good(InUseOf(tb2).entries, d, q, tc)
    <2>1. CASE tb2 = tb
      BY <1>2, <2>1 DEF RequestsFit
    <2>2. ASSUME Len(q) > 0, NEW b \in {0, 1}, TableOf(q[1], b),
                 \A c \in {0, 1} : c # b => tb2[c] = tb[c], tb2[b].magic,
                 Torn(tb2[b].entries, q[1].table.entries)
          PROVE  /\ \A c \in {0, 1} : InBlocks(tb2[c].entries)
                 /\ Good(InUseOf(tb2).entries, d, q, tc)
      <3>1. 1 \in 1..Len(q) /\ \A i \in 1..Len(q) : ~(i < 1)
        BY <2>2
      <3>2. TableOp(q[1]) /\ q[1].op = "table"
        BY <2>2 DEF TableOp, TableOf, Writes
      <3>3. \A i \in 1..Len(q) : ~DataOp(q[i])
        BY <1>2, <3>1, <3>2 DEF WriteOrder
      <3>4. Good(q[1].table.entries, d, q, tc) /\ InBlocks(q[1].table.entries)
        BY <1>2, <3>1, <3>2, <3>3, WillIsGood DEF RequestsFit
      <3>5. Good(tb2[b].entries, d, q, tc) /\ InBlocks(tb2[b].entries)
        BY <2>2, <3>4, TornGood
      <3>6. \A c \in {0, 1} : InBlocks(tb2[c].entries)
        BY <1>2, <2>2, <3>5 DEF RequestsFit
      <3>7. CASE b = 0
        <4>1. InUseOf(tb2) = tb2[b]
          BY <2>2, <3>7 DEF InUseOf
        <4> QED
          BY <3>5, <3>6, <4>1
      <3>8. CASE b = 1
        <4>1. tb2[0] = tb[0]
          BY <2>2, <3>8
        <4>2. CASE tb[0].magic
          <5>1. InUseOf(tb2) = InUseOf(tb)
            BY <4>1, <4>2 DEF InUseOf
          <5> QED
            BY <1>2, <3>6, <5>1
        <4>3. CASE ~tb[0].magic
          <5>1. InUseOf(tb2) = tb2[b]
            BY <3>8, <4>1, <4>3 DEF InUseOf
          <5> QED
            BY <3>5, <3>6, <5>1
        <4> QED
          BY <4>2, <4>3
      <3> QED
        BY <3>6, <3>7, <3>8
    <2> QED
      BY <2>1, <2>2
  <1>6. Good(InUseOf(tb2).entries, d, q2, tc)
    BY <1>5, GoodAlone
  <1> QED
    BY <1>1, <1>3, <1>4, <1>5, <1>6 DEF Intact, RequestsFit, FilesGood

-----------------------------------------------------------------------------
(* The host takes a result and queues more requests.                       *)

Extended(q, q2) ==
    /\ Len(q) \in Nat /\ Len(q2) \in Nat
    /\ \A i \in 1..Len(q) : i \in 1..Len(q2) /\ q2[i] = q[i]
    /\ \A i \in 1..Len(q2) : i \in 1..Len(q) \/ i > Len(q)

(* The table reads among the results rs2 are those of rs, moved up by one  *)
(* when the first result is taken.                                         *)
Fewer(rs, rs2) ==
    \E o \in {0, 1} : \A k \in 1..Len(rs2) :
        TableRead(rs2[k]) => k + o \in 1..Len(rs) /\ rs2[k] = rs[k + o]

NoReads(q, rs) == /\ \A i \in 1..Len(q) : ~TableRead(q[i])
                  /\ \A k \in 1..Len(rs) : ~TableRead(rs[k])

LEMMA GoodExtend ==
    ASSUME NEW q, NEW q2, Extended(q, q2), NEW d, NEW tc, NEW tc2, tc \subseteq tc2,
           \A i \in 1..Len(q2) : i > Len(q) => ~DataOp(q2[i]), NEW t
    PROVE  /\ Good(t, d, q, tc) => Good(t, d, q2, tc2)
           /\ \A tb : (RequestsFit(tb, q) /\ WillBeGood(t, d, q, tc)) => WillBeGood(t, d, q2, tc2)
  <1>1. \A s \in Slot : Kept(t[s], tc2) => Kept(t[s], tc)
    BY DEF Kept
  <1>2. \A b \in DataBlocks : \A i \in 1..Len(q2) : i > Len(q) => ~Hits(q2[i], b)
    BY DEF DataOp, Hits
  <1>3. \A b, c : Settled(b, c, d, q) => Settled(b, c, d, q2)
    BY <1>2 DEF Settled, Extended
  <1>4. ASSUME NEW b \in DataBlocks, NEW c, Coming(b, c, q) PROVE Coming(b, c, q2)
    <2>1. PICK j \in 1..Len(q) :
             /\ q[j].op = "data" /\ q[j].block = b /\ q[j].content = c
             /\ \A l \in 1..Len(q) : l > j => ~Hits(q[l], b)
      BY <1>4 DEF Coming
    <2>2. \A l \in 1..Len(q2) : l > j => ~Hits(q2[l], b)
      BY <1>2, <2>1 DEF Extended
    <2>3. j \in 1..Len(q2) /\ q2[j] = q[j]
      BY DEF Extended
    <2> QED
      BY <2>1, <2>2, <2>3 DEF Coming
  <1>5. Good(t, d, q, tc) => Good(t, d, q2, tc2)
    BY <1>1, <1>3 DEF Good
  <1>6. ASSUME NEW tb, RequestsFit(tb, q), WillBeGood(t, d, q, tc) PROVE WillBeGood(t, d, q2, tc2)
    <2>1. \A b, c : Coming(b, c, q) => b \in DataBlocks
      BY <1>6 DEF Coming, RequestsFit
    <2> QED
      BY <1>1, <1>3, <1>4, <1>6, <2>1 DEF WillBeGood
  <1> QED
    BY <1>5, <1>6

LEMMA FewerReads ==
    ASSUME NEW q, NEW rs, NEW rs2, Fewer(rs, rs2), NEW tb, OneRead(q, rs),
           ReadsBehindWrites(tb, q, rs)
    PROVE  /\ OneRead(q, rs2) /\ ReadsBehindWrites(tb, q, rs2)
           /\ BackupWanted(q, rs2) => BackupWanted(q, rs)
  <1>1. PICK o \in {0, 1} : \A k \in 1..Len(rs2) :
           TableRead(rs2[k]) => k + o \in 1..Len(rs) /\ rs2[k] = rs[k + o]
    BY DEF Fewer
  <1>2. ASSUME NEW k \in 1..Len(rs2), NEW l \in 1..Len(rs2), TableRead(rs2[k]), TableRead(rs2[l])
        PROVE  k = l
    <2>1. /\ k + o \in 1..Len(rs) /\ TableRead(rs[k + o])
          /\ l + o \in 1..Len(rs) /\ TableRead(rs[l + o])
      BY <1>1, <1>2
    <2>2. k + o = l + o
      BY <2>1 DEF OneRead
    <2> QED
      BY <2>2
  <1>3. OneRead(q, rs2)
    BY <1>1, <1>2 DEF OneRead
  <1>4. ReadsBehindWrites(tb, q, rs2)
    BY <1>1 DEF ReadsBehindWrites
  <1>5. BackupWanted(q, rs2) => BackupWanted(q, rs)
    BY <1>1 DEF BackupWanted
  <1> QED
    BY <1>3, <1>4, <1>5

(* A result is taken, or one that is not of a table read comes.            *)
LEMMA QuietIntact ==
    ASSUME NEW q, NEW rs, NEW rs2, Fewer(rs, rs2), NEW tb, NEW d, NEW tc, NEW tc2,
           tc \subseteq tc2, Len(q) \in Nat, Intact(tb, d, q, rs, tc)
    PROVE  Intact(tb, d, q, rs2, tc2)
  <1>1. /\ RequestsFit(tb, q) /\ OneRead(q, rs) /\ ReadsBehindWrites(tb, q, rs)
        /\ WriteOrder(tb, q) /\ FilesGood(tb, d, q, rs, tc)
    BY DEF Intact
  <1>2. /\ OneRead(q, rs2) /\ ReadsBehindWrites(tb, q, rs2)
        /\ BackupWanted(q, rs2) => BackupWanted(q, rs)
    BY <1>1, FewerReads
  <1>3. Extended(q, q) /\ \A i \in 1..Len(q) : ~(i > Len(q))
    BY DEF Extended
  <1>4. \A t : /\ Good(t, d, q, tc) => Good(t, d, q, tc2)
               /\ WillBeGood(t, d, q, tc) => WillBeGood(t, d, q, tc2)
    BY <1>1, <1>3, GoodExtend
  <1>5. FilesGood(tb, d, q, rs2, tc2)
    BY <1>1, <1>2, <1>4 DEF FilesGood
  <1> QED
    BY <1>1, <1>2, <1>5 DEF Intact

(* A read is queued: of a data block, or of a table when no table read is  *)
(* under way.                                                              *)
LEMMA ReadIntact ==
    ASSUME NEW q, NEW q2, Extended(q, q2), Len(q2) = Len(q) + 1, NEW r, q2[Len(q) + 1] = r,
           r.op = "read", NEW rs, NEW rs2, Fewer(rs, rs2), NEW tb, NEW d, NEW tc,
           Intact(tb, d, q, rs, tc),
           TableRead(r) => NoReads(q, rs2),
           (TableRead(r) /\ r.block = 1) => Good(tb[1].entries, d, q, tc)
    PROVE  Intact(tb, d, q2, rs2, tc)
  <1>1. /\ RequestsFit(tb, q) /\ OneRead(q, rs) /\ ReadsBehindWrites(tb, q, rs)
        /\ WriteOrder(tb, q) /\ FilesGood(tb, d, q, rs, tc)
    BY DEF Intact
  <1>2. /\ OneRead(q, rs2) /\ ReadsBehindWrites(tb, q, rs2)
        /\ BackupWanted(q, rs2) => BackupWanted(q, rs)
    BY <1>1, FewerReads
  <1>3. \A i \in 1..Len(q2) : (i \in 1..Len(q) /\ q2[i] = q[i]) \/ (i = Len(q) + 1 /\ q2[i] = r)
    BY DEF Extended
  <1>4. \A b : ~Writes(r, b) /\ ~TableOf(r, b)
    BY DEF Writes, TableOf
  <1>5. ~DataOp(r) /\ ~TableOp(r) /\ r.op # "table" /\ r.op # "data" /\ r.op # "erase"
    BY <1>4 DEF DataOp, TableOp
  <1>6. \A i \in 1..Len(q2) : i > Len(q) => ~DataOp(q2[i])
    BY <1>3, <1>5 DEF Extended
  <1>7. \A t : /\ Good(t, d, q, tc) => Good(t, d, q2, tc)
               /\ WillBeGood(t, d, q, tc) => WillBeGood(t, d, q2, tc)
    BY <1>1, <1>6, GoodExtend
  <1>8. RequestsFit(tb, q2)
    BY <1>1, <1>3, <1>5 DEF RequestsFit
  <1>9. OneRead(q2, rs2)
    BY <1>2, <1>3 DEF OneRead, NoReads
  <1>10. ReadsBehindWrites(tb, q2, rs2)
    <2>1. ASSUME NEW i \in 1..Len(q2), NEW j \in 1..Len(q2), TableRead(q2[i]), i < j
          PROVE  q2[j].op = "read"
      <3>1. CASE j = Len(q) + 1
        BY <1>3, <3>1
      <3>2. CASE j \in 1..Len(q)
        <4>1. i \in 1..Len(q)
          BY <2>1, <3>2
        <4> QED
          BY <1>2, <2>1, <3>2, <4>1 DEF ReadsBehindWrites, Extended
      <3> QED
        BY <1>3, <3>1, <3>2
    <2>2. ASSUME NEW k \in 1..Len(rs2), TableRead(rs2[k])
          PROVE  (\A j \in 1..Len(q2) : q2[j].op = "read") /\ rs2[k].table = tb[rs2[k].block]
      BY <1>2, <1>3, <2>2 DEF ReadsBehindWrites
    <2> QED
      BY <2>1, <2>2 DEF ReadsBehindWrites
  <1>11. WriteOrder(tb, q2)
    <2>1. \A i \in 1..Len(q2) : (DataOp(q2[i]) \/ TableOp(q2[i])) => i \in 1..Len(q) /\ q2[i] = q[i]
      BY <1>3, <1>5
    <2>2. \A i \in 1..Len(q2), b \in {0, 1} :
             (Writes(q2[i], b) \/ TableOf(q2[i], b)) => i \in 1..Len(q) /\ q2[i] = q[i]
      BY <1>3, <1>4
    <2>3. \A j \in 1..Len(q) : q[j] = EraseReq(1) => j \in 1..Len(q2) /\ q2[j] = EraseReq(1)
      BY DEF Extended
    <2>4. \A i \in 1..Len(q2) : TableOf(q2[i], 1) =>
             (tb[1] = Blank \/ \E j \in 1..Len(q2) : q2[j] = EraseReq(1))
      BY <1>1, <2>2, <2>3 DEF WriteOrder
    <2>5. \A i, j \in 1..Len(q2) : (DataOp(q2[i]) /\ TableOp(q2[j])) => i < j
      BY <1>1, <2>1 DEF WriteOrder
    <2>6. \A i, j \in 1..Len(q2) : (Writes(q2[i], 1) /\ Writes(q2[j], 0)) => i < j
      BY <1>1, <2>2 DEF WriteOrder
    <2>7. \A i, j \in 1..Len(q2) : (TableOf(q2[i], 1) /\ Writes(q2[j], 1)) => j <= i
      BY <1>1, <2>2 DEF WriteOrder
    <2> QED
      BY <2>4, <2>5, <2>6, <2>7 DEF WriteOrder
  <1>12. FilesGood(tb, d, q2, rs2, tc)
    <2>1. \A i \in 1..Len(q2) : q2[i].op = "table" => WillBeGood(q2[i].table.entries, d, q2, tc)
      BY <1>1, <1>3, <1>5, <1>7 DEF FilesGood
    <2>2. ASSUME BackupWanted(q2, rs2), BackupSettled(q2) PROVE Good(tb[1].entries, d, q2, tc)
      <3>1. BackupSettled(q)
        BY <2>2 DEF BackupSettled, Extended
      <3>2. BackupWanted(q, rs2) \/ (TableRead(r) /\ r.block = 1)
        BY <1>3, <1>4, <2>2 DEF BackupWanted
      <3> QED
        BY <1>1, <1>2, <1>7, <3>1, <3>2 DEF FilesGood
    <2> QED
      BY <1>1, <1>7, <2>1, <2>2 DEF FilesGood
  <1> QED
    BY <1>8, <1>9, <1>10, <1>11, <1>12 DEF Intact

(* The result of a table read is taken: nothing is written any more, no    *)
(* other table read is under way, and the result is what the block holds.  *)
Idle(q, rs) ==
    /\ \A i \in 1..Len(q) : q[i].op = "read" /\ ~TableRead(q[i])
    /\ \A k \in 1..Len(rs) : ~TableRead(rs[k])

LEMMA IdleNow ==
    ASSUME NEW tb, NEW d, NEW q, NEW rs, NEW rs2, NEW tc, Intact(tb, d, q, rs, tc),
           Popped(rs, rs2), TableRead(rs[1])
    PROVE  /\ Idle(q, rs2)
           /\ rs[1].table = tb[rs[1].block]
           /\ (rs[1].block = 1 \/ ~rs[1].table.magic) => Good(tb[1].entries, d, q, tc)
  <1>1. /\ OneRead(q, rs) /\ ReadsBehindWrites(tb, q, rs) /\ FilesGood(tb, d, q, rs, tc)
        /\ 1 \in 1..Len(rs)
    BY DEF Intact, Popped
  <1>2. \A j \in 1..Len(q) : q[j].op = "read" /\ ~TableRead(q[j])
    BY <1>1 DEF OneRead, ReadsBehindWrites
  <1>3. \A k \in 1..Len(rs2) : ~TableRead(rs2[k])
    <2>1. \A k \in 1..Len(rs2) : k + 1 # 1 /\ k + 1 \in 1..Len(rs) /\ rs2[k] = rs[k + 1]
      BY DEF Popped
    <2> QED
      BY <1>1, <2>1 DEF OneRead
  <1>4. rs[1].table = tb[rs[1].block]
    BY <1>1 DEF ReadsBehindWrites
  <1>5. BackupSettled(q)
    BY <1>2 DEF BackupSettled, Writes
  <1>6. (rs[1].block = 1 \/ ~rs[1].table.magic) => BackupWanted(q, rs)
    BY <1>1 DEF BackupWanted
  <1> QED
    BY <1>1, <1>2, <1>3, <1>4, <1>5, <1>6 DEF Idle, FilesGood

LEMMA WriteRequests ==
    ASSUME NEW v
    PROVE  \A b \in {0, 1} :
             /\ EraseReq(b).op = "erase" /\ EraseReq(b).block = b
             /\ TableReq(b, v).op = "table" /\ TableReq(b, v).block = b /\ TableReq(b, v).table = v
             /\ ReadReq(b).op = "read" /\ ReadReq(b).block = b
  BY DEF EraseReq, TableReq, ReadReq

(* The backup is written back to block 0, and block 0 read again.          *)
LEMMA RestoreIntact ==
    ASSUME NEW q, NEW q2, Extended(q, q2), NEW m \in Nat, m = Len(q), Len(q2) = m + 3,
           NEW tb, q2[m + 1] = EraseReq(0), q2[m + 2] = TableReq(0, tb[1]),
           q2[m + 3] = ReadReq(0), NEW rs, NEW rs2, Idle(q, rs2), NEW d, NEW tc,
           Intact(tb, d, q, rs, tc), Good(tb[1].entries, d, q, tc)
    PROVE  Intact(tb, d, q2, rs2, tc)
  <1>1. RequestsFit(tb, q) /\ Good(InUseOf(tb).entries, d, q, tc)
    BY DEF Intact, FilesGood
  <1>2. \A i \in 1..Len(q2) :
           \/ i < m + 1 /\ q2[i].op = "read" /\ ~TableRead(q2[i])
           \/ i = m + 1 /\ q2[i].op = "erase" /\ q2[i].block = 0
           \/ i = m + 2 /\ q2[i].op = "table" /\ q2[i].block = 0 /\ q2[i].table = tb[1]
           \/ i = m + 3 /\ q2[i].op = "read" /\ q2[i].block = 0
    <2> SUFFICES ASSUME NEW i \in 1..Len(q2)
                 PROVE  \/ i < m + 1 /\ q2[i].op = "read" /\ ~TableRead(q2[i])
                        \/ i = m + 1 /\ q2[i].op = "erase" /\ q2[i].block = 0
                        \/ i = m + 2 /\ q2[i].op = "table" /\ q2[i].block = 0
                           /\ q2[i].table = tb[1]
                        \/ i = m + 3 /\ q2[i].op = "read" /\ q2[i].block = 0
      OBVIOUS
    <2>1. i \in 1..Len(q) \/ i = m + 1 \/ i = m + 2 \/ i = m + 3
      OBVIOUS
    <2>2. i \in 1..Len(q) => i < m + 1 /\ q2[i].op = "read" /\ ~TableRead(q2[i])
      BY DEF Extended, Idle
    <2> QED
      BY <2>1, <2>2, WriteRequests
  <1>3. \A i \in 1..Len(q2) : ~DataOp(q2[i]) /\ ~Writes(q2[i], 1) /\ ~TableOf(q2[i], 1)
    <2>1. 0 \notin DataBlocks
      BY DEF DataBlocks, FirstBlock
    <2> QED
      BY <1>2, <2>1 DEF DataOp, Writes, TableOf
  <1>4. \A t : Good(t, d, q, tc) => Good(t, d, q2, tc)
    BY <1>3, GoodExtend
  <1>5. RequestsFit(tb, q2)
    BY <1>1, <1>2 DEF RequestsFit
  <1>6. \A i \in 1..Len(q2) : TableRead(q2[i]) => i = m + 3
    BY <1>2 DEF TableRead
  <1>7. OneRead(q2, rs2)
    BY <1>6 DEF OneRead, Idle
  <1>8. ReadsBehindWrites(tb, q2, rs2)
    BY <1>6 DEF ReadsBehindWrites, Idle
  <1>9. WriteOrder(tb, q2)
    BY <1>3 DEF WriteOrder
  <1>10. \A i \in 1..Len(q2) : q2[i].op = "table" => WillBeGood(q2[i].table.entries, d, q2, tc)
    BY <1>2, <1>4 DEF Good, WillBeGood
  <1>11. FilesGood(tb, d, q2, rs2, tc)
    BY <1>1, <1>4, <1>10 DEF FilesGood
  <1> QED
    BY <1>5, <1>7, <1>8, <1>9, <1>11 DEF Intact

(* Data may be written, and a table is stored behind it.                   *)
DataOrRead(r) == /\ r.op \in {"read", "erase", "data"} /\ ~TableRead(r)
                 /\ r.op # "read" => r.block \in DataBlocks

LEMMA StoreIntact ==
    ASSUME NEW q2, NEW m \in Nat, Len(q2) \in {m + 4, m + 5}, NEW v,
           \A i \in 1..m : DataOrRead(q2[i]),
           q2[m + 1] = EraseReq(1), q2[m + 2] = TableReq(1, v),
           q2[m + 3] = EraseReq(0), q2[m + 4] = TableReq(0, v),
           Len(q2) = m + 5 => q2[m + 5] = ReadReq(0),
           NEW rs2, \A k \in 1..Len(rs2) : ~TableRead(rs2[k]), NEW tb, NEW d, NEW tc,
           \A b \in {0, 1} : InBlocks(tb[b].entries), InBlocks(v.entries),
           Good(InUseOf(tb).entries, d, q2, tc), WillBeGood(v.entries, d, q2, tc)
    PROVE  Intact(tb, d, q2, rs2, tc)
  <1>1. \A i \in 1..Len(q2) :
           \/ i < m + 1 /\ DataOrRead(q2[i])
           \/ i = m + 1 /\ q2[i].op = "erase" /\ q2[i].block = 1 /\ q2[i] = EraseReq(1)
           \/ i = m + 2 /\ q2[i].op = "table" /\ q2[i].block = 1 /\ q2[i].table = v
           \/ i = m + 3 /\ q2[i].op = "erase" /\ q2[i].block = 0
           \/ i = m + 4 /\ q2[i].op = "table" /\ q2[i].block = 0 /\ q2[i].table = v
           \/ i = m + 5 /\ i = Len(q2) /\ q2[i].op = "read" /\ q2[i].block = 0
    <2> SUFFICES ASSUME NEW i \in 1..Len(q2)
                 PROVE
           \/ i < m + 1 /\ DataOrRead(q2[i])
           \/ i = m + 1 /\ q2[i].op = "erase" /\ q2[i].block = 1 /\ q2[i] = EraseReq(1)
           \/ i = m + 2 /\ q2[i].op = "table" /\ q2[i].block = 1 /\ q2[i].table = v
           \/ i = m + 3 /\ q2[i].op = "erase" /\ q2[i].block = 0
           \/ i = m + 4 /\ q2[i].op = "table" /\ q2[i].block = 0 /\ q2[i].table = v
           \/ i = m + 5 /\ i = Len(q2) /\ q2[i].op = "read" /\ q2[i].block = 0
      OBVIOUS
    <2>1. \/ i \in 1..m /\ i < m + 1
          \/ i = m + 1 \/ i = m + 2 \/ i = m + 3 \/ i = m + 4
          \/ i = m + 5 /\ Len(q2) = m + 5
      OBVIOUS
    <2> QED
      BY <2>1, WriteRequests
  <1>2. 0 \notin DataBlocks /\ 1 \notin DataBlocks
    BY DEF DataBlocks, FirstBlock
  <1>3. \A i \in 1..Len(q2) : /\ DataOp(q2[i]) => i < m + 1
                              /\ TableOp(q2[i]) => i >= m + 1
                              /\ Writes(q2[i], 1) => i \in {m + 1, m + 2}
                              /\ Writes(q2[i], 0) => i \in {m + 3, m + 4}
                              /\ TableOf(q2[i], 1) => i = m + 2
                              /\ TableRead(q2[i]) => i = m + 5 /\ i = Len(q2)
    <2> SUFFICES ASSUME NEW i \in 1..Len(q2)
                 PROVE  /\ DataOp(q2[i]) => i < m + 1
                        /\ TableOp(q2[i]) => i >= m + 1
                        /\ Writes(q2[i], 1) => i \in {m + 1, m + 2}
                        /\ Writes(q2[i], 0) => i \in {m + 3, m + 4}
                        /\ TableOf(q2[i], 1) => i = m + 2
                        /\ TableRead(q2[i]) => i = m + 5 /\ i = Len(q2)
      OBVIOUS
    <2>1. CASE i < m + 1 /\ DataOrRead(q2[i])
      BY <1>2, <2>1 DEF DataOrRead, TableOp, Writes, TableOf
    <2>2. CASE ~(i < m + 1)
      BY <1>1, <1>2, <2>2 DEF DataOp, Writes, TableOf, TableRead
    <2> QED
      BY <1>1, <2>1, <2>2
  <1>4. m + 1 \in 1..Len(q2) /\ q2[m + 1] = EraseReq(1) /\ Writes(q2[m + 1], 1)
    BY EraseOne
  <1>5. RequestsFit(tb, q2)
    BY <1>1, <1>2 DEF RequestsFit, DataOrRead
  <1>6. OneRead(q2, rs2)
    BY <1>3 DEF OneRead
  <1>7. ReadsBehindWrites(tb, q2, rs2)
    BY <1>3 DEF ReadsBehindWrites
  <1>8. WriteOrder(tb, q2)
    <2> SUFFICES ASSUME NEW i \in 1..Len(q2), NEW j \in 1..Len(q2)
                 PROVE  /\ (DataOp(q2[i]) /\ TableOp(q2[j])) => i < j
                        /\ (Writes(q2[i], 1) /\ Writes(q2[j], 0)) => i < j
                        /\ (TableOf(q2[i], 1) /\ Writes(q2[j], 1)) => j <= i
      BY <1>4 DEF WriteOrder
    <2>1. (DataOp(q2[i]) /\ TableOp(q2[j])) => i < j
      <3>1. (DataOp(q2[i]) /\ TableOp(q2[j])) => i < m + 1 /\ j >= m + 1
        BY <1>3
      <3> QED
        BY <3>1
    <2>2. (Writes(q2[i], 1) /\ Writes(q2[j], 0)) => i < j
      <3>1. Writes(q2[i], 1) => i \in {m + 1, m + 2}
        BY <1>3
      <3>2. Writes(q2[j], 0) => j \in {m + 3, m + 4}
        BY <1>3
      <3> QED
        BY <3>1, <3>2
    <2>3. (TableOf(q2[i], 1) /\ Writes(q2[j], 1)) => j <= i
      <3>1. TableOf(q2[i], 1) => i = m + 2
        BY <1>3
      <3>2. Writes(q2[j], 1) => j \in {m + 1, m + 2}
        BY <1>3
      <3> QED
        BY <3>1, <3>2
    <2> QED
      BY <2>1, <2>2, <2>3
  <1>9. \A i \in 1..Len(q2) : q2[i].op = "table" => q2[i].table = v
    BY <1>1 DEF DataOrRead
  <1>10. ~BackupSettled(q2)
    BY <1>4 DEF BackupSettled
  <1>11. FilesGood(tb, d, q2, rs2, tc)
    BY <1>9, <1>10 DEF FilesGood
  <1> QED
    BY <1>5, <1>6, <1>7, <1>8, <1>11 DEF Intact

(* Data is written, and no table follows.                                  *)
LEMMA DataIntact ==
    ASSUME NEW q2, \A i \in 1..Len(q2) : DataOrRead(q2[i]),
           NEW rs2, \A k \in 1..Len(rs2) : ~TableRead(rs2[k]), NEW tb, NEW d, NEW tc,
           \A b \in {0, 1} : InBlocks(tb[b].entries), Good(InUseOf(tb).entries, d, q2, tc)
    PROVE  Intact(tb, d, q2, rs2, tc)
  <1>1. 0 \notin DataBlocks /\ 1 \notin DataBlocks
    BY DEF DataBlocks, FirstBlock
  <1>2. \A i \in 1..Len(q2) : /\ ~TableRead(q2[i]) /\ ~TableOp(q2[i]) /\ q2[i].op # "table"
                              /\ ~Writes(q2[i], 0) /\ ~Writes(q2[i], 1) /\ ~TableOf(q2[i], 1)
    BY <1>1 DEF DataOrRead, TableOp, Writes, TableOf
  <1>3. RequestsFit(tb, q2)
    BY <1>2 DEF RequestsFit, DataOrRead
  <1>4. OneRead(q2, rs2) /\ ReadsBehindWrites(tb, q2, rs2) /\ WriteOrder(tb, q2)
    BY <1>2 DEF OneRead, ReadsBehindWrites, WriteOrder
  <1>5. ~BackupWanted(q2, rs2)
    BY <1>2 DEF BackupWanted
  <1> QED
    BY <1>2, <1>3, <1>4, <1>5 DEF Intact, FilesGood

(* The requests of a new file: its blocks only, and every block is written *)
(* after the last request that erases it.                                  *)
LEMMA FileData ==
    ASSUME NEW start \in Nat, NEW size \in Nat, NEW ver \in Nat, NEW F,
           F = FileRequests(start, size, ver), NEW k \in 1..(2 * size)
    PROVE  F[k].op \in {"erase", "data"} /\ F[k].block \in start..(start + size - 1)
  <1>1. \A b, c : EraseReq(b).op = "erase" /\ EraseReq(b).block = b
                  /\ DataReq(b, c).op = "data" /\ DataReq(b, c).block = b
    BY DEF EraseReq, DataReq
  <1>2. CASE k % 2 = 1
    <2>1. start + (k \div 2) \in start..(start + size - 1)
      BY <1>2
    <2>2. F[k] = EraseReq(start + (k \div 2))
      BY <1>2 DEF FileRequests
    <2>3. F[k].op = "erase" /\ F[k].block = start + (k \div 2)
      BY <1>1, <2>2
    <2> QED
      BY <2>1, <2>3
  <1>3. CASE k % 2 # 1
    <2> DEFINE b == start + (k \div 2) - 1
               c == <<ver, k \div 2>>
    <2>1. b \in start..(start + size - 1)
      BY <1>3
    <2>2. F[k] = DataReq(b, c)
      BY <1>3 DEF FileRequests
    <2> HIDE DEF b, c
    <2>3. F[k].op = "data" /\ F[k].block = b
      BY <1>1, <2>2
    <2> QED
      BY <2>1, <2>3
  <1> QED
    BY <1>2, <1>3

LEMMA LaterBlocks ==
    ASSUME NEW start \in Nat, NEW size \in Nat, NEW ver \in Nat,
           NEW k \in 1..size, NEW i \in 1..(2 * size), i > 2 * k
    PROVE  FileRequests(start, size, ver)[i].block # start + k - 1
  <1> DEFINE r == FileRequests(start, size, ver)[i]
  <1>1. CASE i % 2 = 1
    <2>1. r = EraseReq(start + (i \div 2))
      BY <1>1 DEF FileRequests
    <2>2. start + (i \div 2) # start + k - 1
      BY <1>1
    <2> HIDE DEF r
    <2>3. r.block # start + k - 1
      BY <2>1, <2>2 DEF EraseReq
    <2> QED
      BY <2>3 DEF r
  <1>2. CASE i % 2 # 1
    <2> DEFINE b == start + (i \div 2) - 1
               c == <<ver, i \div 2>>
    <2>1. r = DataReq(b, c)
      BY <1>2 DEF FileRequests
    <2>2. b # start + k - 1
      BY <1>2
    <2> HIDE DEF r, b, c
    <2>3. r.block # start + k - 1
      BY <2>1, <2>2 DEF DataReq
    <2> QED
      BY <2>3 DEF r
  <1> QED
    BY <1>1, <1>2

(* The blocks of a new file are not those of a file that stays.            *)
LEMMA PlacementFree ==
    ASSUME NEW t \in Table, NEW n, NEW size \in Nat \ {0},
           NEW start \in StartFor(UsedBlocks(t, Matching(t, n)), size),
           NEW tc, {t[i].ver : i \in Matching(t, n)} \subseteq tc,
           NEW s \in Slot, Kept(t[s], tc), NEW k \in 1..t[s].len
    PROVE  /\ t[s].name # n
           /\ t[s].start + k - 1 \notin start..(start + size - 1)
  <1>1. s \notin Matching(t, n)
    BY DEF Kept
  <1>2. t[s].name # n
    BY <1>1 DEF Matching
  <1>3. t[s].start \in Nat /\ t[s].len \in Nat
    BY DEF Table, Entry
  <1>4. t[s].name # NoName
    BY TableAssumption DEF Kept
  <1>5. EntryBlocks(t[s]) = t[s].start..(t[s].start + t[s].len - 1)
    BY <1>4 DEF EntryBlocks, isEmpty
  <1>6. t[s].start + k - 1 \in EntryBlocks(t[s])
    BY <1>3, <1>5
  <1>7. t[s].start + k - 1 \in UsedBlocks(t, Matching(t, n))
    BY <1>1, <1>6 DEF UsedBlocks
  <1> QED
    BY <1>2, <1>7, StartForFree

(* Behind the first l requests are the first p of F, and then no more for  *)
(* data.                                                                   *)
FileQueued(q2, l, p, F) ==
    \A i \in 1..Len(q2) : \/ i \in 1..l
                          \/ \E k \in 1..p : i = l + k /\ q2[i] = F[k]
                          \/ i > l + p /\ ~DataOp(q2[i])

(* The requests F are behind the first l requests of q2.                   *)
AllQueued(q2, l, n, F) == \A k \in 1..n : l + k \in 1..Len(q2) /\ q2[l + k] = F[k]

(* A put queues (a part of) its file behind reads, and then no more data.  *)
LEMMA PutGood ==
    ASSUME NEW t \in Table, NEW n, NEW size \in Nat \ {0}, NEW ver \in Nat,
           NEW start \in StartFor(UsedBlocks(t, Matching(t, n)), size),
           NEW tc, NEW tc2, tc \subseteq tc2, {t[i].ver : i \in Matching(t, n)} \subseteq tc2,
           NEW F, F = FileRequests(start, size, ver),
           NEW q, NEW q2, NEW l \in Nat, NEW p \in 0..(2 * size), Extended(q, q2), l = Len(q),
           FileQueued(q2, l, p, F),
           NEW d, Good(t, d, q, tc)
    PROVE  Good(t, d, q2, tc2)
  <1>0. start \in Nat
    BY StartForFree
  <1>1. \A k \in 1..p : k \in 1..(2 * size) /\ F[k].block \in start..(start + size - 1)
    <2>1. \A k \in 1..p : k \in 1..(2 * size)
      OBVIOUS
    <2>2. size \in Nat
      OBVIOUS
    <2>3. \A k \in 1..(2 * size) : F[k].block \in start..(start + size - 1)
      BY <1>0, <2>2, FileData
    <2> QED
      BY <2>1, <2>3
  <1> SUFFICES ASSUME NEW s \in Slot, Kept(t[s], tc2), NEW k \in 1..t[s].len
               PROVE  Settled(t[s].start + k - 1, <<t[s].ver, k>>, d, q2)
    BY DEF Good
  <1> DEFINE b == t[s].start + k - 1
             c == <<t[s].ver, k>>
  <1>2. b \notin start..(start + size - 1)
    BY PlacementFree
  <1>3. Settled(b, c, d, q)
    BY DEF Good, Kept
  <1> HIDE DEF b, c
  <1>4. ASSUME NEW i \in 1..Len(q2) PROVE ~Hits(q2[i], b)
    <2>1. CASE i \in 1..l
      BY <1>3, <2>1 DEF Settled, Extended
    <2>2. CASE \E j \in 1..p : i = l + j /\ q2[i] = F[j]
      BY <1>1, <1>2, <2>2 DEF Hits
    <2>3. CASE ~DataOp(q2[i])
      BY <1>3, <2>3 DEF Settled, Hits, DataOp
    <2> QED
      BY <2>1, <2>2, <2>3 DEF FileQueued
  <1> QED
    BY <1>3, <1>4 DEF Settled, b, c

LEMMA PutWillBeGood ==
    ASSUME NEW t \in Table, NEW n, NEW size \in Nat \ {0}, NEW ver \in Nat, NEW slot,
           NEW start \in StartFor(UsedBlocks(t, Matching(t, n)), size),
           NEW tc, NEW tc2, tc \subseteq tc2, {t[i].ver : i \in Matching(t, n)} \subseteq tc2,
           NEW F, F = FileRequests(start, size, ver),
           NEW q, NEW q2, NEW l \in Nat, Extended(q, q2), l = Len(q),
           AllQueued(q2, l, 2 * size, F),
           FileQueued(q2, l, 2 * size, F),
           NEW d, Good(t, d, q, tc)
    PROVE  WillBeGood(WithFile(t, slot, n, start, size, ver), d, q2, tc2)
  <1> DEFINE w == WithFile(t, slot, n, start, size, ver)
             e == [name |-> n, start |-> start, len |-> size, ver |-> ver]
  <1>0. /\ start \in Nat /\ start..(start + size - 1) \subseteq DataBlocks
        /\ 2 * size \in 0..(2 * size)
    BY StartForFree
  <1>1. Good(t, d, q2, tc2)
    <2> DEFINE p == 2 * size
    <2>1. p \in 0..(2 * size) /\ FileQueued(q2, l, p, F)
      BY <1>0
    <2> HIDE DEF p
    <2> QED
      BY <2>1, PutGood
  <1>2. \A s \in Slot : w[s] = IF s = slot THEN e ELSE IF t[s].name = n THEN EmptyEntry ELSE t[s]
    BY DEF WithFile
  <1>3. e.start = start /\ e.len = size /\ e.ver = ver
    OBVIOUS
  <1>4. ~Kept(EmptyEntry, tc2)
    BY TableAssumption DEF Kept, EmptyEntry
  <1>5. ASSUME NEW k \in 1..size PROVE Coming(start + k - 1, <<ver, k>>, q2)
    <2> DEFINE p == 2 * k
               b == start + k - 1
               c == <<ver, k>>
               j == l + p
    <2>1. /\ size \in Nat /\ p = 2 * k /\ p \in Nat
          /\ p \in 1..(2 * size) /\ p % 2 # 1 /\ p \div 2 = k
      OBVIOUS
    <2>2. b \in start..(start + size - 1) /\ b \in DataBlocks
      BY <1>0
    <2> HIDE DEF p
    <2>3. /\ p \in 1..(2 * size) /\ F[p] = DataReq(b, c)
          /\ \A i \in 1..(2 * size) : i > p => F[i].block # b
      <3>1. F[p] = DataReq(b, c)
        BY <2>1 DEF FileRequests
      <3>2. ASSUME NEW i \in 1..(2 * size), i > p PROVE F[i].block # b
        <4>1. i > 2 * k
          BY <2>1, <3>2
        <4>2. start \in Nat /\ size \in Nat
          BY <1>0, <2>1
        <4>3. FileRequests(start, size, ver)[i].block # start + k - 1
          BY ONLY <4>1, <4>2, ver \in Nat, k \in 1..size, i \in 1..(2 * size), LaterBlocks
        <4> QED
          BY <4>3
      <3> QED
        BY <2>1, <3>1, <3>2
    <2> HIDE DEF b, c
    <2>4. DataReq(b, c).op = "data" /\ DataReq(b, c).block = b /\ DataReq(b, c).content = c
      BY DEF DataReq
    <2>5. j \in 1..Len(q2) /\ q2[j] = DataReq(b, c)
      BY <2>3 DEF AllQueued
    <2>6. ASSUME NEW i \in 1..Len(q2), i > j PROVE ~Hits(q2[i], b)
      <3>1. i \notin 1..l
        BY <2>1, <2>6
      <3>2. CASE \E o \in 1..(2 * size) : i = l + o /\ q2[i] = F[o]
        <4>1. PICK o \in 1..(2 * size) : i = l + o /\ q2[i] = F[o]
          BY <3>2
        <4>2. o > p
          BY <2>1, <2>6, <4>1
        <4> QED
          BY <2>3, <4>1, <4>2 DEF Hits
      <3>3. CASE ~DataOp(q2[i])
        BY <2>2, <3>3 DEF Hits, DataOp
      <3> QED
        BY <3>1, <3>2, <3>3 DEF FileQueued
    <2> HIDE DEF j
    <2>7. Coming(b, c, q2)
      BY <2>4, <2>5, <2>6 DEF Coming
    <2> QED
      BY <2>7 DEF b, c
  <1> HIDE DEF w, e
  <1> SUFFICES ASSUME NEW s \in Slot, Kept(w[s], tc2), NEW k \in 1..w[s].len
               PROVE  \/ Settled(w[s].start + k - 1, <<w[s].ver, k>>, d, q2)
                      \/ Coming(w[s].start + k - 1, <<w[s].ver, k>>, q2)
    BY DEF WillBeGood, w
  <1>6. CASE s = slot
    <2>1. w[s].start = start /\ w[s].len = size /\ w[s].ver = ver
      BY <1>2, <1>3, <1>6
    <2> QED
      BY <1>5, <2>1
  <1>7. CASE s # slot
    <2>1. w[s] = t[s]
      BY <1>2, <1>4, <1>7
    <2> QED
      BY <1>1, <2>1 DEF Good
  <1> QED
    BY <1>6, <1>7

-----------------------------------------------------------------------------
(* The files stay: one lemma per kind of step.                             *)

LEMMA FreshIntact ==
    ASSUME NEW d, NEW q, NEW tc
    PROVE  /\ Good(FreshTable, d, q, tc) /\ WillBeGood(FreshTable, d, q, tc)
           /\ InBlocks(FreshTable)
  <1>1. \A i \in Slot : FreshTable[i].name \in {RingLog, PersLog, NoName}
    BY DEF FreshTable, EmptyEntry
  <1>2. \A i \in Slot : ~Kept(FreshTable[i], tc)
    BY <1>1, TableAssumption DEF Kept
  <1>3. \A i \in Slot : ~isEmpty(FreshTable[i]) => FreshTable[i].start >= FirstBlock
    BY TableAssumption DEF FreshTable, isEmpty, EmptyEntry, FirstBlock
  <1> QED
    BY <1>2, <1>3 DEF Good, WillBeGood, InBlocks

LEMMA InitIntact == Init => DataSafe
  <1> SUFFICES ASSUME Init PROVE DataSafe
    OBVIOUS
  <1>1. Len(queue) = 0 /\ Len(results) = 0 /\ flashAddr = 0
    BY DEF Init
  <1>2. \A b \in {0, 1} : table[b] = Valid(FreshTable) \/ table[b] = Blank
    BY DEF Init
  <1>3. \A b \in {0, 1} : InBlocks(table[b].entries) /\ Good(table[b].entries, data, queue, touched)
    BY <1>2, FreshIntact, BlankGood, TableTypes
  <1>4. \A i \in 1..0 : FALSE
    OBVIOUS
  <1>5. RequestsFit(table, queue) /\ WriteOrder(table, queue) /\ ~BackupWanted(queue, results)
    BY <1>1, <1>3, <1>4 DEF RequestsFit, WriteOrder, BackupWanted
  <1>6. OneRead(queue, results) /\ ReadsBehindWrites(table, queue, results)
    BY <1>1, <1>4 DEF OneRead, ReadsBehindWrites
  <1>7. FilesGood(table, data, queue, results, touched)
    BY <1>1, <1>3, <1>4, <1>5 DEF FilesGood, InUseOf
  <1> QED
    BY <1>1, <1>5, <1>6, <1>7 DEF DataSafe, Intact

LEMMA ResultTaken ==
    ASSUME TypeOK, results # <<>>, results' = Tail(results)
    PROVE  /\ Popped(results, results') /\ Fewer(results, results')
           /\ Head(results) = results[1]
  <1>1. /\ Head(results) = results[1] /\ Len(results) \in Nat /\ Len(results) > 0
        /\ Len(results') = Len(results) - 1
        /\ \A i \in 1..Len(results') : i + 1 \in 1..Len(results) /\ results'[i] = results[i + 1]
    <2>1. results \in Seq(FlashResult)
      BY DEF TypeOK
    <2> QED
      BY <2>1, HeadType
  <1>2. 1 \in 1..Len(results)
    BY <1>1
  <1>3. \A i \in 1..Len(results) : i # 1 => i - 1 \in 1..Len(results') /\ (i - 1) + 1 = i
    BY <1>1
  <1>4. Popped(results, results')
    BY <1>1, <1>2, <1>3 DEF Popped
  <1>5. Fewer(results, results')
    <2>1. 1 \in {0, 1}
      OBVIOUS
    <2> QED
      BY <1>1, <2>1 DEF Fewer
  <1> QED
    BY <1>1, <1>4, <1>5

LEMMA NotMore ==
    ASSUME NEW rs, NEW rs2,
           \A k \in 1..Len(rs2) : TableRead(rs2[k]) => k \in 1..Len(rs) /\ rs2[k] = rs[k]
    PROVE  Fewer(rs, rs2)
  <1>1. \A k \in 1..Len(rs2) : k + 0 = k
    OBVIOUS
  <1> QED
    BY <1>1 DEF Fewer

LEMMA Appended ==
    ASSUME TypeOK, NEW r \in FlashReq, queue' = Append(queue, r)
    PROVE  /\ Extended(queue, queue') /\ Len(queue') = Len(queue) + 1
           /\ queue'[Len(queue) + 1] = r
  <1>1. /\ Len(queue') = Len(queue) + 1 /\ queue'[Len(queue) + 1] = r
        /\ \A i \in 1..Len(queue) : queue'[i] = queue[i]
        /\ Len(queue) \in Nat
    <2>1. queue \in Seq(FlashReq)
      BY DEF TypeOK
    <2> QED
      BY <2>1, AppendType
  <1> QED
    BY <1>1 DEF Extended

LEMMA QuietSame ==
    ASSUME TypeOK, DataSafe, UNCHANGED <<table, data, queue>>, touched \subseteq touched',
           Fewer(results, results'), flashAddr' \in {flashAddr, 0}
    PROVE  DataSafe'
  <1>1. Len(queue) \in Nat
    BY SeqTypes
  <1>2. Intact(table, data, queue, results', touched')
    BY <1>1, QuietIntact DEF DataSafe
  <1>3. Intact(table', data', queue', results', touched')
    BY <1>2
  <1> QED
    BY <1>3 DEF DataSafe

LEMMA SameIntact ==
    ASSUME TypeOK, DataSafe, UNCHANGED <<table, data, queue, results, flashAddr, touched>>
    PROVE  DataSafe'
  <1>1. Fewer(results, results')
    BY NotMore
  <1> QED
    BY <1>1, QuietSame

LEMMA TakenIntact ==
    ASSUME TypeOK, DataSafe, results # <<>>, results' = Tail(results),
           UNCHANGED <<table, data, queue, touched>>, flashAddr' \in {flashAddr, 0}
    PROVE  DataSafe'
  BY ResultTaken, QuietSame

(* A read is queued, and perhaps a result taken.                           *)
LEMMA ReadQueued ==
    ASSUME TypeOK, DataSafe, UNCHANGED <<table, data, touched>>, Fewer(results, results'),
           NEW a \in Nat, queue' = Append(queue, ReadReq(a)),
           a \in {0, 1} => NoReads(queue, results'),
           a = 1 => Good(table[1].entries, data, queue, touched)
    PROVE  Intact(table', data', queue', results', touched')
  <1> DEFINE r == ReadReq(a)
  <1>1. r \in FlashReq /\ r.op = "read" /\ r.block = a
    BY RequestTypes DEF ReadReq
  <1>2. queue' = Append(queue, r)
    OBVIOUS
  <1> HIDE DEF r
  <1>3. /\ Extended(queue, queue') /\ Len(queue') = Len(queue) + 1
        /\ queue'[Len(queue) + 1] = r
    BY <1>1, <1>2, Appended
  <1>4. TableRead(r) => a \in {0, 1}
    BY <1>1 DEF TableRead
  <1>5. Intact(table, data, queue', results', touched)
    BY <1>1, <1>3, <1>4, ReadIntact DEF DataSafe
  <1> QED
    BY <1>5

LEMMA BeginIntact ==
    ASSUME TypeOK, DataSafe, NEW kind, NEW newState, Begin(kind, newState), overlap' # "read",
           UNCHANGED <<table, data, results, touched>>
    PROVE  DataSafe'
  <1>1. queue' = Append(queue, ReadReq(0)) /\ flashAddr' = 0 /\ ~TableReadPending
    BY DEF Begin
  <1>2. NoReads(queue, results')
    BY <1>1, Pending DEF NoReads
  <1>3. Fewer(results, results')
    BY NotMore
  <1>4. Intact(table', data', queue', results', touched')
    BY <1>1, <1>2, <1>3, ReadQueued
  <1> QED
    BY <1>1, <1>4 DEF DataSafe

LEMMA ExecuteIntact ==
    ASSUME TypeOK, DataSafe, Execute
    PROVE  DataSafe'
  <1> DEFINE h == Head(queue)
             x == Result(h, TRUE)
  <1>1. /\ queue # <<>> /\ queue' = Tail(queue) /\ results' = Append(results, x)
        /\ Apply(h) /\ UNCHANGED <<flashAddr, touched>>
    BY DEF Execute, hostVars
  <1>2. /\ queue \in Seq(FlashReq) /\ table \in [{0, 1} -> TableBlock]
        /\ data \in [DataBlocks -> Nat \X Nat]
    BY DEF TypeOK
  <1>3. h \in FlashReq /\ h = queue[1]
    BY <1>1, <1>2, HeadType
  <1>4. x \in FlashResult
    BY <1>3, ResultType
  <1>5. ResultOf(h, x, table)
    BY DEF ResultOf, TableRead, Result
  <1>6. TablesAfter(h, table, table')
    BY <1>1, <1>2 DEF TablesAfter, Writes, TableOf, Apply
  <1>7. Applied(h, data, data')
    BY <1>1, <1>2 DEF Applied, Hits, Apply
  <1>8. RequestsFit(table, queue)
    BY DEF DataSafe, Intact
  <1> HIDE DEF x
  <1>9. Popped(queue, queue') /\ Added(results, results', x)
    BY <1>1, <1>4, TailFacts DEF Popped, Added
  <1>10. h.op = "data" => data'[h.block] = h.content
    <2>1. 1 \in 1..Len(queue)
      BY <1>9 DEF Popped
    <2>2. h.op = "data" => h.block \in DataBlocks
      BY <1>3, <1>8, <2>1 DEF RequestsFit
    <2> QED
      BY <1>1, <1>2, <2>2 DEF Apply
  <1> HIDE DEF h
  <1>11. Intact(table', data', queue', results', touched)
    BY <1>3, <1>5, <1>6, <1>7, <1>9, <1>10, PopIntact DEF DataSafe
  <1> QED
    BY <1>1, <1>11 DEF DataSafe

LEMMA BadWriteIntact ==
    ASSUME TypeOK, DataSafe, BadWrite
    PROVE  DataSafe'
  <1> DEFINE h == Head(queue)
             x == Result(h, FALSE)
  <1>1. /\ queue # <<>> /\ queue' = Tail(queue) /\ results' = Append(results, x)
        /\ UNCHANGED <<table, data, flashAddr>>
        /\ touched' = touched \cup {h.content[1]} /\ h.op \in {"table", "data"}
    BY DEF BadWrite, hostVars
  <1>2. queue \in Seq(FlashReq)
    BY DEF TypeOK
  <1>3. h \in FlashReq /\ h = queue[1]
    BY <1>1, <1>2, HeadType
  <1>4. x \in FlashResult
    BY <1>3, ResultType
  <1>5. ResultOf(h, x, table)
    BY DEF ResultOf, TableRead, Result
  <1>6. TablesAfter(h, table, table')
    BY <1>1 DEF TablesAfter, Writes, TableOf
  <1>7. Applied(h, data, data')
    BY <1>1 DEF Applied
  <1> HIDE DEF x
  <1>8. Popped(queue, queue') /\ Added(results, results', x)
    BY <1>1, <1>4, TailFacts DEF Popped, Added
  <1>9. h.content[1] \in touched' /\ touched \subseteq touched'
    BY <1>1
  <1> HIDE DEF h
  <1>10. Intact(table', data', queue', results', touched')
    BY <1>3, <1>5, <1>6, <1>7, <1>8, <1>9, PopIntact DEF DataSafe
  <1> QED
    BY <1>1, <1>10 DEF DataSafe

LEMMA ExecuteLogIntact ==
    ASSUME TypeOK, DataSafe, ExecuteLog
    PROVE  DataSafe'
  <1> DEFINE x == [op |-> "log", block |-> 0, ok |-> TRUE, table |-> Blank, content |-> NoData]
  <1>1. /\ results' = Append(results, x)
        /\ UNCHANGED <<table, data, queue, flashAddr, touched>>
    BY DEF ExecuteLog, historyVars
  <1>2. x \in FlashResult /\ ~TableRead(x)
    BY TableTypes, RequestTypes DEF FlashResult, TableRead
  <1>3. results \in Seq(FlashResult)
    BY DEF TypeOK
  <1> HIDE DEF x
  <1>4. /\ Len(results') = Len(results) + 1 /\ results'[Len(results) + 1] = x
        /\ \A k \in 1..Len(results) : results'[k] = results[k]
        /\ \A k \in 1..(Len(results) + 1) : k \in 1..Len(results) \/ k = Len(results) + 1
    BY <1>1, <1>2, <1>3, AppendType
  <1>5. Fewer(results, results')
    BY <1>2, <1>4, NotMore
  <1> QED
    BY <1>1, <1>5, QuietSame

LEMMA RestartIntact ==
    ASSUME TypeOK, DataSafe, Crash \/ CrashInWrite
    PROVE  DataSafe'
  <1>1. /\ queue' = <<>> /\ results' = <<>> /\ flashAddr' = 0 /\ UNCHANGED <<data, touched>>
    BY DEF Crash, CrashInWrite, Restart
  <1>2. Len(queue') = 0 /\ Len(results') = 0
    BY <1>1
  <1>3. Len(queue) \in Nat
    BY SeqTypes
  <1>4. CASE table' = table
    <2>1. Intact(table', data, queue', results', touched)
      BY <1>2, <1>3, <1>4, CrashIntact DEF DataSafe
    <2> QED
      BY <1>1, <2>1 DEF DataSafe
  <1>5. CASE CrashInWrite
    <2>1. queue # <<>> /\ Head(queue).op = "table" /\ queue \in Seq(FlashReq)
      BY <1>5 DEF CrashInWrite, TypeOK
    <2>2. Len(queue) > 0 /\ Head(queue) = queue[1] /\ 1 \in 1..Len(queue)
      BY <2>1, HeadType
    <2> DEFINE h == queue[1]
    <2>3. PICK k \in 0..(Slots - 1) :
             table' = [table EXCEPT ![h.block] =
                      [magic |-> TRUE, crc |-> FALSE,
                       entries |-> [i \in Slot |-> IF i <= k THEN h.table.entries[i]
                                                             ELSE EmptyEntry]]]
      BY <1>5, <2>2 DEF CrashInWrite
    <2>4. h.op = "table" /\ h.block \in {0, 1}
      BY <2>1, <2>2 DEF DataSafe, Intact, RequestsFit
    <2>5. table \in [{0, 1} -> TableBlock]
      BY DEF TypeOK
    <2> DEFINE b == h.block
               t == [i \in Slot |-> IF i <= k THEN h.table.entries[i] ELSE EmptyEntry]
    <2>6. Torn(t, h.table.entries)
      BY DEF Torn
    <2>7. table' = [table EXCEPT ![b] = [magic |-> TRUE, crc |-> FALSE, entries |-> t]]
      BY <2>3
    <2>8. TableOf(h, b)
      BY <2>4 DEF TableOf
    <2> HIDE DEF t, h, b
    <2>9. /\ table'[b].magic /\ table'[b].entries = t
          /\ \A c \in {0, 1} : c # b => table'[c] = table[c]
      BY <2>4, <2>5, <2>7 DEF b
    <2>10. \E c \in {0, 1} : /\ TableOf(queue[1], c)
                             /\ \A e \in {0, 1} : e # c => table'[e] = table[e]
                             /\ table'[c].magic
                             /\ Torn(table'[c].entries, queue[1].table.entries)
      BY <2>4, <2>6, <2>8, <2>9 DEF h, b
    <2>11. Intact(table', data, queue', results', touched)
      BY <1>2, <1>3, <2>2, <2>10, CrashIntact DEF DataSafe
    <2> QED
      BY <1>1, <2>11 DEF DataSafe
  <1> QED
    BY <1>4, <1>5 DEF Crash

LEMMA TableTaken ==
    ASSUME TypeOK, DataSafe, results # <<>>, results' = Tail(results), TableRead(Head(results))
    PROVE  /\ Idle(queue, results') /\ NoReads(queue, results')
           /\ Head(results).block \in {0, 1}
           /\ Head(results).table = table[Head(results).block]
           /\ InBlocks(Head(results).table.entries)
           /\ (Head(results).block = 1 \/ ~Head(results).table.magic) =>
                 Good(table[1].entries, data, queue, touched)
  <1>1. Popped(results, results') /\ Head(results) = results[1]
    BY ResultTaken
  <1>2. Intact(table, data, queue, results, touched)
    BY DEF DataSafe
  <1>3. /\ Idle(queue, results') /\ results[1].table = table[results[1].block]
        /\ (results[1].block = 1 \/ ~results[1].table.magic) =>
              Good(table[1].entries, data, queue, touched)
    BY <1>1, <1>2, IdleNow
  <1>4. results[1].block \in {0, 1}
    BY <1>1 DEF TableRead
  <1>5. \A b \in {0, 1} : InBlocks(table[b].entries)
    BY <1>2 DEF Intact, RequestsFit
  <1>6. NoReads(queue, results')
    BY <1>3 DEF NoReads, Idle
  <1> QED
    BY <1>1, <1>3, <1>4, <1>5, <1>6

LEMMA ReadBackupIntact ==
    ASSUME TypeOK, DataSafe, ReadBackup
    PROVE  DataSafe'
  <1>1. /\ results # <<>> /\ results' = Tail(results) /\ queue' = Append(queue, ReadReq(1))
        /\ flashAddr' = 0 /\ UNCHANGED <<table, data, touched>>
        /\ Head(results).op = "read" /\ Head(results).block = 0 /\ ~Head(results).table.magic
    BY DEF ReadBackup, Unchanged
  <1>2. TableRead(Head(results))
    BY <1>1 DEF TableRead
  <1>3. NoReads(queue, results') /\ Good(table[1].entries, data, queue, touched)
    BY <1>1, <1>2, TableTaken
  <1>4. Fewer(results, results')
    BY <1>1, ResultTaken
  <1>5. Intact(table', data', queue', results', touched')
    BY <1>1, <1>3, <1>4, ReadQueued
  <1> QED
    BY <1>1, <1>5 DEF DataSafe

(* Requests are queued behind others.                                      *)
LEMMA Joined ==
    ASSUME NEW q \in Seq(FlashReq), NEW p \in Seq(FlashReq)
    PROVE  /\ Extended(q, q \o p) /\ Len(q) \in Nat /\ Len(p) \in Nat
           /\ Len(q \o p) = Len(q) + Len(p) /\ q \o p \in Seq(FlashReq)
           /\ \A k \in 1..Len(p) : (q \o p)[Len(q) + k] = p[k]
  <1>1. /\ q \o p \in Seq(FlashReq) /\ Len(q \o p) = Len(q) + Len(p)
        /\ \A i \in 1..Len(q) : (q \o p)[i] = q[i]
        /\ \A k \in 1..Len(p) : (q \o p)[Len(q) + k] = p[k]
        /\ Len(q) \in Nat /\ Len(p) \in Nat
    BY ConcatType
  <1> QED
    BY <1>1 DEF Extended

LEMMA RestoreTableIntact ==
    ASSUME TypeOK, DataSafe, RestoreTable
    PROVE  DataSafe'
  <1> DEFINE x == Head(results).table
             p == <<EraseReq(0), TableReq(0, x), ReadReq(0)>>
  <1>1. /\ results # <<>> /\ results' = Tail(results) /\ queue' = queue \o p
        /\ flashAddr' = 0 /\ UNCHANGED <<table, data, touched>>
        /\ Head(results).op = "read" /\ Head(results).block = 1
    BY DEF RestoreTable, Unchanged
  <1>2. TableRead(Head(results))
    BY <1>1 DEF TableRead
  <1>3. /\ Idle(queue, results') /\ Good(table[1].entries, data, queue, touched)
        /\ x = table[1]
    BY <1>1, <1>2, TableTaken
  <1>4. x \in TableBlock /\ queue \in Seq(FlashReq)
    BY <1>1, FirstResult DEF TypeOK
  <1> HIDE DEF x
  <1>5. p \in Seq(FlashReq) /\ Len(p) = 3
    BY <1>4, RestoreSeq
  <1>6. p[1] = EraseReq(0) /\ p[2] = TableReq(0, x) /\ p[3] = ReadReq(0)
    OBVIOUS
  <1> HIDE DEF p
  <1>7. /\ Extended(queue, queue') /\ Len(queue) \in Nat /\ Len(queue') = Len(queue) + 3
        /\ \A k \in 1..3 : queue'[Len(queue) + k] = p[k]
    <2>1. /\ Extended(queue, queue \o p) /\ Len(queue) \in Nat
          /\ Len(queue \o p) = Len(queue) + Len(p)
          /\ \A k \in 1..Len(p) : (queue \o p)[Len(queue) + k] = p[k]
      BY <1>4, <1>5, Joined
    <2> QED
      BY <1>1, <1>5, <2>1
  <1> DEFINE m == Len(queue)
  <1>8. 1 \in 1..3 /\ 2 \in 1..3 /\ 3 \in 1..3
    OBVIOUS
  <1>9. /\ m \in Nat /\ m = Len(queue) /\ Len(queue') = m + 3
        /\ queue'[m + 1] = EraseReq(0) /\ queue'[m + 2] = TableReq(0, table[1])
        /\ queue'[m + 3] = ReadReq(0)
    BY <1>3, <1>6, <1>7, <1>8
  <1> HIDE DEF m
  <1>10. Intact(table, data, queue', results', touched)
    BY <1>3, <1>7, <1>9, RestoreIntact DEF DataSafe
  <1> QED
    BY <1>1, <1>10 DEF DataSafe

LEMMA IdleFits ==
    ASSUME NEW q, NEW rs, Idle(q, rs)
    PROVE  \A i \in 1..Len(q) : DataOrRead(q[i])
  BY DEF Idle, DataOrRead

(* A table is stored behind the requests p, which are for data or reads.   *)
LEMMA StoreQueued ==
    ASSUME NEW p \in Seq(FlashReq), \A i \in 1..Len(p) : DataOrRead(p[i]),
           NEW v \in TableBlock, NEW q2,
           q2 = p \o StoreTable(v) \/ q2 = p \o StoreTable(v) \o <<ReadReq(0)>>,
           NEW rs2, \A k \in 1..Len(rs2) : ~TableRead(rs2[k]), NEW tb, NEW d, NEW tc,
           \A b \in {0, 1} : InBlocks(tb[b].entries), InBlocks(v.entries),
           Good(InUseOf(tb).entries, d, q2, tc), WillBeGood(v.entries, d, q2, tc)
    PROVE  Intact(tb, d, q2, rs2, tc)
  <1> DEFINE m == Len(p)
             q == p \o StoreTable(v)
  <1>1. /\ q \in Seq(FlashReq) /\ m \in Nat /\ Len(q) = m + 4
        /\ \A i \in 1..m : q[i] = p[i]
        /\ q[m + 1] = EraseReq(1) /\ q[m + 2] = TableReq(1, v)
        /\ q[m + 3] = EraseReq(0) /\ q[m + 4] = TableReq(0, v)
    BY StoreQueue
  <1>2. q2 = q \/ q2 = q \o <<ReadReq(0)>>
    OBVIOUS
  <1>3. \A i \in 1..m : DataOrRead(p[i])
    OBVIOUS
  <1> HIDE DEF q, m
  <1>4. /\ Len(q2) \in {m + 4, m + 5}
        /\ \A i \in 1..m : q2[i] = p[i]
        /\ q2[m + 1] = EraseReq(1) /\ q2[m + 2] = TableReq(1, v)
        /\ q2[m + 3] = EraseReq(0) /\ q2[m + 4] = TableReq(0, v)
        /\ Len(q2) = m + 5 => q2[m + 5] = ReadReq(0)
    <2>1. CASE q2 = q
      <3>1. m + 4 # m + 5
        BY <1>1
      <3> QED
        BY <1>1, <2>1, <3>1
    <2>2. CASE q2 = q \o <<ReadReq(0)>>
      <3> DEFINE z == <<ReadReq(0)>>
      <3>1. z \in Seq(FlashReq) /\ Len(z) = 1 /\ z[1] = ReadReq(0)
        BY RequestTypes
      <3> HIDE DEF z
      <3>2. /\ Extended(q, q \o z) /\ Len(q \o z) = Len(q) + Len(z)
            /\ \A k \in 1..Len(z) : (q \o z)[Len(q) + k] = z[k]
        BY <1>1, <3>1, Joined
      <3>3. q2 = q \o z
        BY <2>2 DEF z
      <3>4. Len(q2) = m + 5 /\ Len(q) + 1 = m + 5 /\ 1 \in 1..Len(z)
        BY <1>1, <3>1, <3>2, <3>3
      <3>5. q2[m + 5] = ReadReq(0)
        BY <3>1, <3>2, <3>3, <3>4
      <3>6. \A i \in 1..(m + 4) : q2[i] = q[i]
        BY <1>1, <3>2, <3>3 DEF Extended
      <3>7. m + 1 \in 1..(m + 4) /\ m + 2 \in 1..(m + 4) /\ m + 3 \in 1..(m + 4)
            /\ m + 4 \in 1..(m + 4) /\ \A i \in 1..m : i \in 1..(m + 4)
        BY <1>1
      <3> QED
        BY <1>1, <3>4, <3>5, <3>6, <3>7
    <2> QED
      BY <1>2, <2>1, <2>2
  <1>5. \A i \in 1..m : DataOrRead(q2[i])
    BY <1>3, <1>4
  <1> QED
    BY <1>1, <1>4, <1>5, StoreIntact

(* What is queued behind p to store a table is not for data.               *)
LEMMA NoDataBehind ==
    ASSUME NEW p \in Seq(FlashReq), NEW v \in TableBlock, NEW q2,
           q2 = p \o StoreTable(v) \/ q2 = p \o StoreTable(v) \o <<ReadReq(0)>>
    PROVE  /\ Extended(p, q2)
           /\ \A i \in 1..Len(q2) : i > Len(p) => ~DataOp(q2[i])
  <1> DEFINE s == StoreTable(v)
             z == <<ReadReq(0)>>
             q == p \o s
  <1>1. s \in Seq(FlashReq) /\ Len(s) = 4 /\ z \in Seq(FlashReq) /\ Len(z) = 1
    BY StoreTableType, RequestTypes DEF StoreTable
  <1>2. 0 \notin DataBlocks /\ 1 \notin DataBlocks
    BY DEF DataBlocks, FirstBlock
  <1>3. \A b \in {0, 1} : ~DataOp(EraseReq(b)) /\ ~DataOp(TableReq(b, v)) /\ ~DataOp(ReadReq(b))
    BY <1>2 DEF DataOp, EraseReq, TableReq, ReadReq
  <1>4. \A k \in 1..4 : ~DataOp(s[k])
    <2>1. s[1] = EraseReq(1) /\ s[2] = TableReq(1, v) /\ s[3] = EraseReq(0) /\ s[4] = TableReq(0, v)
      BY DEF StoreTable
    <2>2. \A k \in 1..4 : k = 1 \/ k = 2 \/ k = 3 \/ k = 4
      OBVIOUS
    <2> QED
      BY <1>3, <2>1, <2>2
  <1>5. ~DataOp(z[1]) /\ (q2 = q \/ q2 = q \o z)
    BY <1>3
  <1> HIDE DEF s, z
  <1>6. /\ Extended(p, q) /\ Len(p) \in Nat /\ Len(q) = Len(p) + 4 /\ q \in Seq(FlashReq)
        /\ \A k \in 1..4 : q[Len(p) + k] = s[k]
    <2>1. /\ Extended(p, p \o s) /\ Len(p) \in Nat /\ p \o s \in Seq(FlashReq)
          /\ Len(p \o s) = Len(p) + Len(s)
          /\ \A k \in 1..Len(s) : (p \o s)[Len(p) + k] = s[k]
      BY <1>1, Joined
    <2> QED
      BY <1>1, <2>1
  <1> HIDE DEF q
  <1>7. ASSUME NEW i \in 1..Len(q), i > Len(p) PROVE ~DataOp(q[i])
    <2> DEFINE k == i - Len(p)
    <2>1. k \in 1..4 /\ i = Len(p) + k
      BY <1>6, <1>7
    <2> HIDE DEF k
    <2> QED
      BY <1>4, <1>6, <2>1
  <1>8. CASE q2 = q
    BY <1>6, <1>7, <1>8
  <1>9. CASE q2 = q \o z
    <2>1. /\ Extended(q, q2) /\ Len(q2) = Len(q) + 1
          /\ \A k \in 1..1 : q2[Len(q) + k] = z[k]
      <3>1. /\ Extended(q, q \o z) /\ Len(q \o z) = Len(q) + Len(z)
            /\ \A k \in 1..Len(z) : (q \o z)[Len(q) + k] = z[k]
        BY <1>1, <1>6, Joined
      <3> QED
        BY <1>1, <1>9, <3>1
    <2>2. \A i \in 1..Len(q2) : i \in 1..Len(q) \/ i = Len(q) + 1
      BY <1>6, <2>1
    <2>3. q2[Len(q) + 1] = z[1]
      BY <2>1
    <2>4. \A i \in 1..Len(q2) : i > Len(p) => ~DataOp(q2[i])
      BY <1>5, <1>7, <2>1, <2>2, <2>3 DEF Extended
    <2>5. Extended(p, q2)
      BY <1>6, <2>1 DEF Extended
    <2> QED
      BY <2>4, <2>5
  <1> QED
    BY <1>5, <1>8, <1>9

(* Queue p is made of the first l requests, those of q, and those of F.    *)
MadeOf(p, l, q, F) ==
    \A i \in 1..Len(p) : \/ i \in 1..l /\ p[i] = q[i]
                         \/ \E k \in 1..Len(F) : i = l + k /\ p[i] = F[k]

(* The requests of a put in the queue: its data, then its table.           *)
LEMMA PutQueued ==
    ASSUME NEW q \in Seq(FlashReq), NEW F \in Seq(FlashReq), NEW v \in TableBlock, NEW p, NEW q2,
           p = q \o F, q2 = p \o StoreTable(v), NEW l, l = Len(q), NEW n, n = Len(F)
    PROVE  /\ p \in Seq(FlashReq) /\ l \in Nat /\ n \in Nat
           /\ MadeOf(p, l, q, F) /\ Extended(q, q2)
           /\ FileQueued(q2, l, n, F) /\ AllQueued(q2, l, n, F)
  <1>1. /\ Extended(q, p) /\ l \in Nat /\ n \in Nat /\ Len(p) = l + n /\ p \in Seq(FlashReq)
        /\ \A k \in 1..n : p[l + k] = F[k]
    <2>1. /\ Extended(q, q \o F) /\ Len(q) \in Nat /\ Len(F) \in Nat
          /\ Len(q \o F) = Len(q) + Len(F) /\ q \o F \in Seq(FlashReq)
          /\ \A k \in 1..Len(F) : (q \o F)[Len(q) + k] = F[k]
      BY Joined
    <2> QED
      BY <2>1
  <1>2. Extended(p, q2) /\ \A i \in 1..Len(q2) : i > Len(p) => ~DataOp(q2[i])
    BY <1>1, NoDataBehind
  <1>3. Extended(q, q2)
    BY <1>1, <1>2 DEF Extended
  <1>4. ASSUME NEW i \in 1..Len(p)
        PROVE  \/ i \in 1..l /\ p[i] = q[i]
               \/ \E k \in 1..n : i = l + k /\ p[i] = F[k]
    <2>1. CASE i \in 1..l
      BY <1>1, <2>1 DEF Extended
    <2>2. CASE i > l
      <3> DEFINE k == i - l
      <3>1. k \in 1..n /\ i = l + k
        BY <1>1, <2>2
      <3> HIDE DEF k
      <3>2. p[i] = F[k]
        BY <1>1, <3>1
      <3> QED
        BY <3>1, <3>2
    <2> QED
      BY <1>1, <2>1, <2>2
  <1>5. \A k \in 1..n : l + k \in 1..Len(q2) /\ q2[l + k] = F[k]
    <2> SUFFICES ASSUME NEW k \in 1..n PROVE l + k \in 1..Len(q2) /\ q2[l + k] = F[k]
      OBVIOUS
    <2>1. l + k \in 1..Len(p) /\ p[l + k] = F[k]
      BY <1>1
    <2> QED
      BY <1>2, <2>1 DEF Extended
  <1>6. ASSUME NEW i \in 1..Len(q2)
        PROVE  \/ i \in 1..l
               \/ \E k \in 1..n : i = l + k /\ q2[i] = F[k]
               \/ i > l + n /\ ~DataOp(q2[i])
    <2>1. CASE i \in 1..Len(p)
      BY <1>2, <1>4, <2>1 DEF Extended
    <2>2. CASE i > Len(p)
      BY <1>1, <1>2, <2>2
    <2> QED
      BY <1>2, <2>1, <2>2 DEF Extended
  <1> QED
    BY <1>1, <1>3, <1>4, <1>5, <1>6 DEF FileQueued, MadeOf, AllQueued

(* A put that ends early has queued the first k requests of its data.      *)
LEMMA PartQueued ==
    ASSUME NEW q \in Seq(FlashReq), NEW F \in Seq(FlashReq), NEW k \in 1..Len(F), NEW q2,
           q2 = q \o SubSeq(F, 1, k), NEW l, l = Len(q)
    PROVE  /\ Extended(q, q2) /\ l \in Nat /\ FileQueued(q2, l, k, F)
           /\ MadeOf(q2, l, q, F)
  <1> DEFINE G == SubSeq(F, 1, k)
  <1>1. G \in Seq(FlashReq) /\ Len(G) = k /\ \A i \in 1..k : i \in 1..Len(F) /\ G[i] = F[i]
    OBVIOUS
  <1>2. q2 = q \o G
    OBVIOUS
  <1> HIDE DEF G
  <1>3. /\ Extended(q, q2) /\ l \in Nat /\ Len(q2) = l + k
        /\ \A i \in 1..k : q2[l + i] = G[i]
    <2>1. /\ Extended(q, q \o G) /\ Len(q) \in Nat
          /\ Len(q \o G) = Len(q) + Len(G)
          /\ \A i \in 1..Len(G) : (q \o G)[Len(q) + i] = G[i]
      BY <1>1, Joined
    <2> QED
      BY <1>1, <1>2, <2>1
  <1>4. ASSUME NEW i \in 1..Len(q2)
        PROVE  \/ i \in 1..l /\ q2[i] = q[i]
               \/ \E j \in 1..k : i = l + j /\ j \in 1..Len(F) /\ q2[i] = F[j]
    <2>1. CASE i \in 1..l
      BY <1>3, <2>1 DEF Extended
    <2>2. CASE i > l
      <3> DEFINE j == i - l
      <3>1. j \in 1..k /\ i = l + j
        BY <1>3, <2>2
      <3> HIDE DEF j
      <3>2. q2[i] = F[j] /\ j \in 1..Len(F)
        BY <1>1, <1>3, <3>1
      <3> QED
        BY <3>1, <3>2
    <2> QED
      BY <1>3, <2>1, <2>2
  <1> QED
    BY <1>3, <1>4 DEF FileQueued, MadeOf

LEMMA FileFits ==
    ASSUME NEW used, NEW size \in Nat \ {0}, NEW start \in StartFor(used, size), NEW ver \in Nat,
           NEW F, F = FileRequests(start, size, ver), NEW k \in 1..(2 * size)
    PROVE  DataOrRead(F[k])
  <1>1. start \in Nat /\ start..(start + size - 1) \subseteq DataBlocks
    BY StartForFree
  <1>2. size \in Nat
    OBVIOUS
  <1>3. F[k].op \in {"erase", "data"} /\ F[k].block \in start..(start + size - 1)
    BY <1>1, <1>2, FileData
  <1> QED
    BY <1>1, <1>3 DEF DataOrRead, TableRead

LEMMA PutStoresIntact ==
    ASSUME TypeOK, CurAsked, DataSafe, state = "PUT_FILE", NEW x, x = table[0], x.magic,
           NEW rs2, Idle(queue, rs2), PutStores(0, x)
    PROVE  Intact(table, data, queue', rs2, touched')
  <1>1. PICK slot \in FileSlots(x.entries), start \in Placement(x.entries) :
             queue' = queue \o FileRequests(start, cur.size, cur.ver)
                         \o StoreTable(Valid(WithFile(x.entries, slot, cur.name, start,
                                                      cur.size, cur.ver)))
    BY DEF PutStores
  <1> DEFINE F == FileRequests(start, cur.size, cur.ver)
             t == WithFile(x.entries, slot, cur.name, start, cur.size, cur.ver)
             v == Valid(t)
             p == queue \o F
             l == Len(queue)
             n == 2 * cur.size
             used == UsedBlocks(x.entries, Matching(x.entries, cur.name))
  <1>2. /\ touched' = touched \cup {x.entries[i].ver : i \in Matching(x.entries, cur.name)}
                              \cup (begun \cap {cur.ver})
    BY DEF PutStores, BeginStore
  <1>3. /\ touched \subseteq touched'
        /\ {x.entries[i].ver : i \in Matching(x.entries, cur.name)} \subseteq touched'
    BY <1>2
  <1>4. x \in TableBlock /\ x.entries \in Table /\ queue \in Seq(FlashReq)
    BY BlockType DEF TypeOK
  <1>5. cur.name \in Names /\ cur.size \in Nat \ {0} /\ cur.ver \in Nat
    BY DEF CurAsked, TypeOK
  <1>6. /\ F \in Seq(FlashReq) /\ Len(F) = n /\ start \in Nat /\ start >= 4
        /\ t \in Table
    BY <1>4, RoomFound
  <1>7. v \in TableBlock /\ v.entries = t
    BY <1>6, TableTypes
  <1>8. start \in StartFor(used, cur.size)
    BY DEF Placement
  <1>9. queue' = p \o StoreTable(v)
    BY <1>1
  <1>10. /\ Good(x.entries, data, queue, touched) /\ InUseOf(table) = x
         /\ \A b \in {0, 1} : InBlocks(table[b].entries)
    BY DEF DataSafe, Intact, FilesGood, InUseOf, RequestsFit
  <1>11. InBlocks(x.entries)
    BY <1>10
  <1>12. InBlocks(t)
    <2>1. isEmpty(EmptyEntry)
      BY DEF isEmpty, EmptyEntry
    <2> QED
      BY <1>6, <1>11, <2>1 DEF InBlocks, WithFile, FirstBlock
  <1>13. \A k \in 1..n : DataOrRead(F[k])
    BY <1>5, <1>8, FileFits
  <1>14. F = FileRequests(start, cur.size, cur.ver) /\ p = queue \o F /\ n = 2 * cur.size
    OBVIOUS
  <1> HIDE DEF F, v, p, n
  <1>15. /\ p \in Seq(FlashReq) /\ l \in Nat
         /\ MadeOf(p, l, queue, F) /\ Extended(queue, queue')
         /\ FileQueued(queue', l, n, F) /\ AllQueued(queue', l, n, F)
    <2> HIDE DEF l
    <2>1. /\ queue \in Seq(FlashReq) /\ F \in Seq(FlashReq) /\ v \in TableBlock
          /\ p = queue \o F /\ queue' = p \o StoreTable(v) /\ l = Len(queue) /\ n = Len(F)
      BY <1>4, <1>6, <1>7, <1>9, <1>14 DEF l
    <2> QED
      BY ONLY <2>1, PutQueued
  <1>16. \A i \in 1..Len(p) : DataOrRead(p[i])
    BY <1>6, <1>13, <1>15, IdleFits DEF MadeOf
  <1>17. Good(x.entries, data, queue', touched')
    <2>1. n \in 0..(2 * cur.size)
      BY <1>5, <1>14
    <2> HIDE DEF l, used
    <2>2. l = Len(queue)
      BY DEF l
    <2>3. start \in StartFor(UsedBlocks(x.entries, Matching(x.entries, cur.name)), cur.size)
      BY <1>8 DEF used
    <2>4. /\ F = FileRequests(start, cur.size, cur.ver) /\ l \in Nat
          /\ Extended(queue, queue') /\ FileQueued(queue', l, n, F)
          /\ Good(x.entries, data, queue, touched)
      BY <1>10, <1>14, <1>15
    <2> QED
      BY ONLY <1>3, <1>4, <1>5, <2>1, <2>2, <2>3, <2>4, PutGood
  <1>18. WillBeGood(t, data, queue', touched')
    <2>1. start \in StartFor(UsedBlocks(x.entries, Matching(x.entries, cur.name)), cur.size)
      BY <1>8
    <2>2. AllQueued(queue', l, 2 * cur.size, F) /\ FileQueued(queue', l, 2 * cur.size, F)
      BY <1>14, <1>15
    <2> HIDE DEF l, used
    <2>3. l = Len(queue)
      BY DEF l
    <2>4. /\ F = FileRequests(start, cur.size, cur.ver) /\ l \in Nat
          /\ Extended(queue, queue') /\ Good(x.entries, data, queue, touched)
      BY <1>10, <1>14, <1>15
    <2> QED
      BY ONLY <1>3, <1>4, <1>5, <2>1, <2>2, <2>3, <2>4, PutWillBeGood
  <1>19. \A k \in 1..Len(rs2) : ~TableRead(rs2[k])
    BY DEF Idle
  <1> HIDE DEF t
  <1>20. Good(InUseOf(table).entries, data, queue', touched')
    BY <1>10, <1>17
  <1>21. InBlocks(v.entries) /\ WillBeGood(v.entries, data, queue', touched')
    BY <1>7, <1>12, <1>18
  <1> QED
    BY <1>7, <1>9, <1>10, <1>15, <1>16, <1>19, <1>20, <1>21, StoreQueued

LEMMA PutHostFileIntact ==
    ASSUME TypeOK, CurAsked, DataSafe, state = "PUT_FILE", NEW x, x = table[0], x.magic,
           NEW rs2, Idle(queue, rs2), PutHostFile(0, x), queue' # queue
    PROVE  Intact(table, data, queue', rs2, touched')
  <1>1. PICK start \in Placement(x.entries), k \in 1..(2 * cur.size) :
           /\ queue' = queue \o SubSeq(FileRequests(start, cur.size, cur.ver), 1, k)
           /\ BeginStore(x.entries)
           /\ FileSlots(x.entries) # {}
    BY DEF PutHostFile
  <1> DEFINE F == FileRequests(start, cur.size, cur.ver)
             l == Len(queue)
             n == 2 * cur.size
  <1>2. /\ touched' = touched \cup {x.entries[i].ver : i \in Matching(x.entries, cur.name)}
                              \cup (begun \cap {cur.ver})
    BY <1>1 DEF BeginStore
  <1>3. /\ touched \subseteq touched'
        /\ {x.entries[i].ver : i \in Matching(x.entries, cur.name)} \subseteq touched'
    BY <1>2
  <1>4. x \in TableBlock /\ x.entries \in Table /\ queue \in Seq(FlashReq)
    BY BlockType DEF TypeOK
  <1>5. cur.name \in Names /\ cur.size \in Nat \ {0} /\ cur.ver \in Nat
    BY DEF CurAsked, TypeOK
  <1>6. F \in Seq(FlashReq) /\ Len(F) = n
    BY <1>1, <1>4, RoomFound
  <1>7. start \in StartFor(UsedBlocks(x.entries, Matching(x.entries, cur.name)), cur.size)
    BY DEF Placement
  <1>8. queue' = queue \o SubSeq(F, 1, k)
    BY <1>1
  <1>9. /\ Good(x.entries, data, queue, touched) /\ InUseOf(table) = x
        /\ \A b \in {0, 1} : InBlocks(table[b].entries)
    BY DEF DataSafe, Intact, FilesGood, InUseOf, RequestsFit
  <1>10. \A i \in 1..n : DataOrRead(F[i])
    BY <1>5, <1>7, FileFits
  <1>11. F = FileRequests(start, cur.size, cur.ver) /\ k \in 1..n /\ k \in 0..(2 * cur.size)
    BY <1>5
  <1> HIDE DEF F, n
  <1>12. /\ Extended(queue, queue') /\ l \in Nat /\ FileQueued(queue', l, k, F)
         /\ MadeOf(queue', l, queue, F)
    <2> HIDE DEF l
    <2>1. /\ queue \in Seq(FlashReq) /\ F \in Seq(FlashReq) /\ k \in 1..Len(F)
          /\ queue' = queue \o SubSeq(F, 1, k) /\ l = Len(queue)
      BY <1>4, <1>6, <1>8, <1>11 DEF l
    <2> QED
      BY ONLY <2>1, PartQueued
  <1>13. \A i \in 1..Len(queue') : DataOrRead(queue'[i])
    BY <1>6, <1>10, <1>12, IdleFits DEF MadeOf
  <1>14. Good(x.entries, data, queue', touched')
    <2> HIDE DEF l
    <2>1. l = Len(queue)
      BY DEF l
    <2> QED
      BY <1>3, <1>4, <1>5, <1>7, <1>9, <1>11, <1>12, <2>1, PutGood
  <1>15. \A i \in 1..Len(rs2) : ~TableRead(rs2[i])
    BY DEF Idle
  <1> QED
    BY <1>9, <1>13, <1>14, <1>15, DataIntact

(* A table of files that are all in the flash is stored behind reads:      *)
(* create and delete.                                                      *)
LEMMA PlainStoreIntact ==
    ASSUME TypeOK, DataSafe, NEW rs2, Idle(queue, rs2), NEW v \in TableBlock,
           \/ queue' = queue \o StoreTable(v)
           \/ queue' = queue \o StoreTable(v) \o <<ReadReq(0)>>,
           InBlocks(v.entries), Good(v.entries, data, queue, touched)
    PROVE  Intact(table, data, queue', rs2, touched)
  <1>1. /\ Good(InUseOf(table).entries, data, queue, touched)
        /\ \A b \in {0, 1} : InBlocks(table[b].entries)
        /\ queue \in Seq(FlashReq)
    BY DEF DataSafe, Intact, FilesGood, RequestsFit, TypeOK
  <1>2. Extended(queue, queue') /\ \A i \in 1..Len(queue') : i > Len(queue) => ~DataOp(queue'[i])
    BY <1>1, NoDataBehind
  <1>3. \A t : Good(t, data, queue, touched) => Good(t, data, queue', touched)
    BY <1>2, GoodExtend
  <1>4. WillBeGood(v.entries, data, queue', touched)
    BY <1>3 DEF Good, WillBeGood
  <1>5. \A i \in 1..Len(queue) : DataOrRead(queue[i])
    BY IdleFits
  <1>6. \A k \in 1..Len(rs2) : ~TableRead(rs2[k])
    BY DEF Idle
  <1> QED
    BY <1>1, <1>3, <1>4, <1>5, <1>6, StoreQueued

LEMMA DeletedGood ==
    ASSUME NEW t, NEW sel, NEW d, NEW q, NEW tc
    PROVE  /\ Good(t, d, q, tc) => Good(Deleted(t, sel), d, q, tc)
           /\ InBlocks(t) => InBlocks(Deleted(t, sel))
  <1>1. Torn(Deleted(t, sel), t)
    BY DEF Torn, Deleted
  <1> QED
    BY <1>1, TornGood

LEMMA DispatchIntact ==
    ASSUME TypeOK, CurAsked, DataSafe, Dispatch
    PROVE  DataSafe'
  <1> DEFINE r == Head(results)
             blk == IF r.block = 1 THEN 0 ELSE r.block
             x == r.table
  <1>1. /\ results # <<>> /\ results' = Tail(results) /\ UNCHANGED <<table, data>>
        /\ r.op = "read"
        /\ r.block = 1 => ~x.magic
    BY DEF Dispatch
  <1>2. /\ r.block \in Nat /\ x \in TableBlock /\ x.entries \in Table
        /\ queue \in Seq(FlashReq) /\ flashAddr \in Nat
    BY <1>1, FirstResult DEF TypeOK
  <1>3. blk = 0 => TableRead(r)
    BY <1>1 DEF TableRead
  <1>4. \/ /\ state = "PARTITION_REQ" /\ GotPartition(blk, x) /\ UNCHANGED touched
        \/ /\ state = "DELETE_FILE" /\ Delete(blk, x) /\ UNCHANGED <<touched, flashAddr>>
        \/ /\ state = "GET_FILE" /\ blk = 0 /\ GetFileTable(x) /\ UNCHANGED touched
        \/ /\ state = "GET_FILE" /\ blk # 0 /\ GetFileData(blk, r.content) /\ UNCHANGED touched
        \/ /\ state = "PUT_FILE" /\ UNCHANGED flashAddr
           /\ PutFails(blk, x) \/ PutStores(blk, x) \/ PutHostFile(blk, x)
        \/ UNCHANGED <<queue, touched, flashAddr>>
    BY DEF Dispatch, GetHostFile
  <1>5. Fewer(results, results')
    BY <1>1, ResultTaken
  <1>6. blk = 0 => /\ Idle(queue, results') /\ InBlocks(x.entries)
                   /\ x.magic => x = table[0]
    <2> SUFFICES ASSUME blk = 0
                 PROVE  /\ Idle(queue, results') /\ InBlocks(x.entries)
                        /\ x.magic => x = table[0]
      OBVIOUS
    <2>1. /\ Idle(queue, results') /\ InBlocks(x.entries)
          /\ r.block \in {0, 1} /\ x = table[r.block]
      BY <1>1, <1>3, TableTaken
    <2> QED
      BY <1>1, <2>1
  <1>7. flashAddr # 0 => flashAddr >= FirstBlock
    BY DEF DataSafe
  <1> HIDE DEF r, blk, x
  <1>8. ASSUME UNCHANGED <<queue, touched>>, flashAddr' = flashAddr \/ flashAddr' = 0
        PROVE  DataSafe'
    BY <1>1, <1>5, <1>8, QuietSame
  <1>9. ASSUME NEW a \in Nat, a \notin {0, 1}, queue' = Append(queue, ReadReq(a)),
               UNCHANGED touched, flashAddr' # 0 => flashAddr' >= FirstBlock
        PROVE  DataSafe'
    <2>1. Intact(table', data', queue', results', touched')
      BY <1>1, <1>5, <1>9, ReadQueued
    <2> QED
      BY <1>9, <2>1 DEF DataSafe
  <1>10. ASSUME Intact(table, data, queue', results', touched'), flashAddr' \in {flashAddr, 0}
         PROVE  DataSafe'
    <2>1. Intact(table', data', queue', results', touched')
      BY <1>1, <1>10
    <2> QED
      BY <1>7, <1>10, <2>1 DEF DataSafe
  <1>11. CASE state = "PARTITION_REQ" /\ GotPartition(blk, x) /\ UNCHANGED touched
    <2>1. CASE UNCHANGED <<queue, flashAddr>>
      BY <1>8, <1>11, <2>1
    <2>2. CASE /\ blk = 0 /\ flashAddr' = 0
               /\ queue' = queue \o StoreTable(Valid(FreshTable)) \o <<ReadReq(0)>>
      <3> DEFINE v == Valid(FreshTable)
      <3>1. v \in TableBlock /\ v.entries = FreshTable
        BY TableTypes
      <3>2. InBlocks(v.entries) /\ Good(v.entries, data, queue, touched)
        BY <3>1, FreshIntact
      <3>3. queue' = queue \o StoreTable(v) \o <<ReadReq(0)>>
        BY <2>2
      <3> HIDE DEF v
      <3>4. Intact(table, data, queue', results', touched)
        BY <1>6, <2>2, <3>1, <3>2, <3>3, PlainStoreIntact
      <3> QED
        BY <1>10, <1>11, <2>2, <3>4
    <2> QED
      BY <1>11, <2>1, <2>2 DEF GotPartition
  <1>12. CASE state = "DELETE_FILE" /\ Delete(blk, x) /\ UNCHANGED <<touched, flashAddr>>
    <2>1. CASE queue' = queue
      BY <1>8, <1>12, <2>1
    <2>2. CASE /\ blk = 0 /\ x.magic
               /\ queue' = queue \o StoreTable(Valid(Deleted(x.entries,
                                                            SelectedEntry(x.entries))))
      <3> DEFINE t == Deleted(x.entries, SelectedEntry(x.entries))
                 v == Valid(t)
      <3>1. Idle(queue, results') /\ InBlocks(x.entries) /\ x = table[0]
        BY <1>6, <2>2
      <3>2. Good(x.entries, data, queue, touched)
        BY <2>2, <3>1 DEF DataSafe, Intact, FilesGood, InUseOf
      <3>3. InBlocks(t) /\ Good(t, data, queue, touched) /\ t \in Table
        BY <1>2, <3>1, <3>2, DeletedGood, DeletedType
      <3>4. v \in TableBlock /\ v.entries = t
        BY <3>3, TableTypes
      <3>5. queue' = queue \o StoreTable(v)
        BY <2>2
      <3> HIDE DEF t, v
      <3>6. Intact(table, data, queue', results', touched)
        BY <3>1, <3>3, <3>4, <3>5, PlainStoreIntact
      <3> QED
        BY <1>10, <1>12, <3>6
    <2> QED
      BY <1>12, <2>1, <2>2 DEF Delete
  <1>13. CASE state = "GET_FILE" /\ blk = 0 /\ GetFileTable(x) /\ UNCHANGED touched
    <2>1. CASE UNCHANGED <<queue, flashAddr>>
      BY <1>8, <1>13, <2>1
    <2>2. ASSUME NEW i \in SelectedEntry(x.entries), ~isEmpty(x.entries[i]),
                 queue' = Append(queue, ReadReq(x.entries[i].start)),
                 flashAddr' = IF x.entries[i].len = 1 THEN 0 ELSE x.entries[i].start + 1
          PROVE  DataSafe'
      <3>1. i \in Slot
        BY IndexType DEF SelectedEntry, Selected, FirstMatching, Matching
      <3> DEFINE a == x.entries[i].start
      <3>2. a \in Nat
        BY <1>2, <3>1 DEF Table, Entry
      <3>3. a >= 4
        BY <1>6, <1>13, <2>2, <3>1 DEF InBlocks, FirstBlock
      <3>4. queue' = Append(queue, ReadReq(a)) /\ flashAddr' \in {0, a + 1}
        BY <2>2
      <3> HIDE DEF a
      <3>5. a \notin {0, 1} /\ (flashAddr' # 0 => flashAddr' >= FirstBlock)
        BY <3>2, <3>3, <3>4 DEF FirstBlock
      <3> QED
        BY <1>9, <1>13, <3>2, <3>4, <3>5
    <2> QED
      BY <1>13, <2>1, <2>2 DEF GetFileTable
  <1>14. CASE state = "GET_FILE" /\ blk # 0 /\ GetFileData(blk, r.content) /\ UNCHANGED touched
    <2>1. CASE UNCHANGED <<queue, flashAddr>>
      BY <1>8, <1>14, <2>1
    <2>2. CASE /\ queue' = Append(queue, ReadReq(IF flashAddr = 0 THEN NoBytes ELSE flashAddr))
               /\ flashAddr' \in {0, flashAddr + 1} /\ (flashAddr = 0 => flashAddr' = 0)
      <3> DEFINE a == IF flashAddr = 0 THEN NoBytes ELSE flashAddr
      <3>1. a \in Nat /\ a \notin {0, 1} /\ (flashAddr' # 0 => flashAddr' >= FirstBlock)
        BY <1>2, <1>7, <2>2 DEF NoBytes, FirstBlock
      <3>2. queue' = Append(queue, ReadReq(a))
        BY <2>2
      <3> HIDE DEF a
      <3> QED
        BY <1>9, <1>14, <3>1, <3>2
    <2> QED
      BY <1>14, <2>1, <2>2 DEF GetFileData
  <1>15. CASE state = "PUT_FILE" /\ UNCHANGED flashAddr /\ PutFails(blk, x)
    BY <1>8, <1>15 DEF PutFails
  <1>16. CASE state = "PUT_FILE" /\ UNCHANGED flashAddr /\ PutStores(blk, x)
    <2>1. blk = 0 /\ x.magic /\ PutStores(0, x)
      BY <1>16 DEF PutStores
    <2>2. Intact(table, data, queue', results', touched')
      BY <1>6, <1>16, <2>1, PutStoresIntact
    <2> QED
      BY <1>10, <1>16, <2>2
  <1>17. CASE state = "PUT_FILE" /\ UNCHANGED flashAddr /\ PutHostFile(blk, x)
    <2>1. blk = 0 /\ x.magic /\ PutHostFile(0, x)
      BY <1>17 DEF PutHostFile
    <2>2. CASE queue' # queue
      <3>1. Intact(table, data, queue', results', touched')
        BY <1>6, <1>17, <2>1, <2>2, PutHostFileIntact
      <3> QED
        BY <1>10, <1>17, <3>1
    <2>3. CASE queue' = queue
      <3>1. touched \subseteq touched'
        BY <1>17 DEF PutHostFile, BeginStore
      <3> QED
        BY <1>1, <1>5, <1>17, <2>3, <3>1, QuietSame
    <2> QED
      BY <2>2, <2>3
  <1>18. CASE UNCHANGED <<queue, touched, flashAddr>>
    BY <1>8, <1>18
  <1> QED
    BY <1>4, <1>11, <1>12, <1>13, <1>14, <1>15, <1>16, <1>17, <1>18

LEMMA NextIntact ==
    ASSUME TypeOK, CurAsked, DataSafe, [Next]_vars, overlap' # "read"
    PROVE  DataSafe'
  <1>1. ASSUME NEW kind, NEW newState, Begin(kind, newState),
               UNCHANGED <<table, data, results, touched>>
        PROVE  DataSafe'
    BY <1>1, BeginIntact
  <1>2. CASE HostRequest
    <2>1. ASSUME GetPartitiontable PROVE DataSafe'
      BY <1>1, <2>1 DEF GetPartitiontable
    <2>2. ASSUME PutLog PROVE DataSafe'
      BY <2>2, SameIntact DEF PutLog
    <2>3. ASSUME NEW n, NEW i, DeleteFile(n, i) PROVE DataSafe'
      BY <1>1, <2>3 DEF DeleteFile
    <2>4. ASSUME NEW n, NEW i, GetFile(n, i) PROVE DataSafe'
      BY <1>1, <2>4 DEF GetFile
    <2>5. ASSUME NEW n, NEW i, PutFile(n, i) PROVE DataSafe'
      BY <1>1, <2>5 DEF PutFile
    <2> QED
      BY <1>2, <2>1, <2>2, <2>3, <2>4, <2>5 DEF HostRequest
  <1>3. CASE ReadBackup
    BY <1>3, ReadBackupIntact
  <1>4. CASE RestoreTable
    BY <1>4, RestoreTableIntact
  <1>5. CASE Dispatch
    BY <1>5, DispatchIntact
  <1>6. CASE WriteResult \/ EraseResult \/ LogResult
    <2>1. /\ results # <<>> /\ results' = Tail(results)
          /\ UNCHANGED <<table, data, queue, touched, flashAddr>>
      BY <1>6 DEF WriteResult, EraseResult, LogResult, Unchanged
    <2> QED
      BY <2>1, TakenIntact
  <1>7. CASE Execute
    BY <1>7, ExecuteIntact
  <1>8. CASE ExecuteLog
    BY <1>8, ExecuteLogIntact
  <1>9. CASE BadWrite
    BY <1>9, BadWriteIntact
  <1>10. CASE Crash \/ CrashInWrite
    BY <1>10, RestartIntact
  <1>11. CASE ToggleError
    BY <1>11, SameIntact DEF ToggleError
  <1>12. CASE UNCHANGED vars
    BY <1>12, SameIntact DEF vars, hostVars, historyVars
  <1> QED
    BY <1>2, <1>3, <1>4, <1>5, <1>6, <1>7, <1>8, <1>9, <1>10, <1>11, <1>12
    DEF Next, HostResult, Fault

(* The inductive invariant of the files.                                   *)
FilesInv ==
    /\ TypeOK
    /\ CurAsked
    /\ overlap # "read" => DataSafe

LEMMA FilesInvInit == Init => FilesInv
  BY InitType, InitIntact DEF FilesInv

LEMMA FilesInvNext == FilesInv /\ [Next]_vars => FilesInv'
  <1> SUFFICES ASSUME FilesInv, [Next]_vars PROVE FilesInv'
    OBVIOUS
  <1>1. TypeOK /\ CurAsked /\ (overlap # "read" => DataSafe)
    BY DEF FilesInv
  <1>2. TypeOK' /\ CurAsked'
    BY <1>1, NextType
  <1>3. overlap = "read" => overlap' = "read"
    BY <1>1, NeverPromisedAgain
  <1>4. ASSUME overlap' # "read" PROVE DataSafe'
    BY <1>1, <1>3, <1>4, NextIntact
  <1> QED
    BY <1>2, <1>4 DEF FilesInv

LEMMA FilesInvMeans == FilesInv => OtherFilesIntact
  <1> SUFFICES ASSUME FilesInv, overlap # "read", NEW i \in Slot,
                      Effective.entries[i].name \in Names,
                      Effective.entries[i].ver \notin touched
               PROVE  Stored(Effective.entries[i])
    BY DEF OtherFilesIntact
  <1>1. Effective = InUseOf(table)
    BY DEF Effective, InUseOf
  <1>2. Good(Effective.entries, data, queue, touched)
    BY <1>1 DEF FilesInv, DataSafe, Intact, FilesGood
  <1> DEFINE e == Effective.entries[i]
  <1>3. Kept(e, touched)
    BY DEF Kept
  <1>4. \A k \in 1..e.len : Settled(e.start + k - 1, <<e.ver, k>>, data, queue)
    BY <1>2, <1>3 DEF Good
  <1> HIDE DEF e
  <1>5. Stored(e)
    BY <1>4 DEF Settled, Stored
  <1> QED
    BY <1>5 DEF e

(* libdrbcc_put_file destroys no file but the one it replaces: whichever   *)
(* writes fail, of tables too, and wherever a crash falls, every other     *)
(* file that the table in use describes is complete in its blocks, for any *)
(* number of slots, blocks, names and sizes, as long as no request begins  *)
(* while the table read of an earlier one is under way.                    *)
THEOREM FilesStayIntact == Spec => []OtherFilesIntact
  BY FilesInvInit, FilesInvNext, FilesInvMeans, PTL DEF Spec
-----------------------------------------------------------------------------
(* What put and get report.  Both speak of a request that began with       *)
(* nothing of an earlier one under way, and of what is under way since.    *)

(* The entries of all tables are within the flash.                         *)
InFlash(t) == \A s \in Slot : EntryBlocks(t[s]) \subseteq DataBlocks

AllFit(q) == \A i \in 1..Len(q) : InFlash(q[i].table.entries)

TablesFit ==
    /\ \A b \in {0, 1} : InFlash(table[b].entries)
    /\ AllFit(queue)
    /\ AllFit(results)

(* The table is still to be read, or to be restored first, or was of no    *)
(* use.  The read is the last request, and only log entries come behind    *)
(* its result.                                                             *)
Looking(tb, q, rs) ==
    /\ \A i \in 1..Len(q) :
          /\ q[i].op # "data"
          /\ q[i].op = "read" => i = Len(q) /\ q[i].block \in {0, 1}
    /\ \A k \in 1..Len(rs) :
          /\ rs[k].op # "data"
          /\ rs[k].op = "read" =>
                /\ Len(q) = 0
                /\ rs[k].block \in {0, 1}
                /\ rs[k].table = tb[rs[k].block]
                /\ \A l \in 1..Len(rs) : l > k => rs[l].op = "log"

(* Nothing but log entries is under way.                                   *)
OnlyLogs(q, rs) == Len(q) = 0 /\ \A k \in 1..Len(rs) : rs[k].op = "log"

(* Block b is being read, and only log entries are under way besides.      *)
BlockUnderWay(b, d, q, rs) ==
    /\ \A k \in 1..Len(rs) : rs[k].op = "read" =>
          rs[k].block = b /\ rs[k].content = d[b] /\ Len(q) = 0
    /\ \A k, l \in 1..Len(rs) : (rs[k].op = "read" /\ rs[l].op = "read") => k = l
    /\ \A k \in 1..Len(rs) : rs[k].op \in {"read", "log"}
    /\ Len(q) \in {0, 1} /\ (Len(q) = 1 => q[1] = ReadReq(b))

(* The file of the host has all blocks in front of the one under way.      *)
Fetching ==
    /\ curFilelength < cur.size
    /\ curFilestart..(curFilestart + cur.size - 1) \subseteq DataBlocks
    /\ \E i \in SelectedEntry(Effective.entries) :
          Effective.entries[i].start = curFilestart /\ Effective.entries[i].len = cur.size
    /\ hostFile = [k \in 1..curFilelength |-> data[curFilestart + k - 1]]
    /\ flashAddr = IF curFilelength + 1 = cur.size THEN 0 ELSE curFilestart + curFilelength + 1
    /\ BlockUnderWay(curFilestart + curFilelength, data, queue, results)

GetSound ==
    (overlap = "none" /\ state = "GET_FILE") =>
        \/ Looking(table, queue, results) /\ hostFile = <<>>
        \/ Fetching
        \/ OnlyLogs(queue, results)

(* The requests of the put whose file is f, an entry, in the table t.      *)
FileArea(f) == f.start..(f.start + f.len - 1)
Content(f, b) == <<f.ver, (b - f.start) + 1>>

PutQueue(f, t, q) ==
    \A i \in 1..Len(q) :
        /\ q[i].op # "read"
        /\ q[i].op = "data" => q[i].block \in FileArea(f) /\ q[i].content = Content(f, q[i].block)
        /\ (q[i].op = "erase" /\ q[i].block \in FileArea(f)) =>
              \E j \in 1..Len(q) : i < j /\ q[j].op = "data" /\ q[j].block = q[i].block
        /\ q[i].op = "table" => q[i].block \in {0, 1}
        /\ (q[i].op = "table" /\ q[i].block = 0) => i = Len(q) /\ q[i].table = t
        /\ \A j \in 1..Len(q) :
              (i < j /\ q[i].op = "data" /\ q[j].op = "data") => q[i].block < q[j].block

StoreResults(f, t, tb, d, q, rs) ==
    \A k \in 1..Len(rs) :
        /\ rs[k].op # "read"
        /\ rs[k].op = "data" =>
              /\ rs[k].block \in FileArea(f)
              /\ rs[k].ok => d[rs[k].block] = Content(f, rs[k].block)
              /\ \A l \in 1..Len(rs) : (k < l /\ rs[l].op = "data") => rs[k].block < rs[l].block
              /\ \A j \in 1..Len(q) : q[j].op = "data" => rs[k].block < q[j].block
        /\ (rs[k].op = "table" /\ rs[k].block = 0) =>
              /\ Len(q) = 0
              /\ \A l \in 1..Len(rs) : k < l => rs[l].op = "log"
              /\ rs[k].ok => tb[0] = t

(* How far curFilelength may be: no further than the data whose results    *)
(* were handled, and behind that if one of them failed.                    *)
Waiting(b, q) == \E i \in 1..Len(q) : q[i].op = "data" /\ q[i].block = b

StoreCount(f, d, q, rs, len) ==
    /\ len <= f.len
    /\ \A b \in FileArea(f) : Waiting(b, q) \/ Waiting(b, rs) => len <= b - f.start
    /\ \A b \in FileArea(f) : (~Waiting(b, q) /\ d[b] # Content(f, b)) =>
          /\ len < f.len
          /\ \A c \in FileArea(f) : (b < c /\ (Waiting(c, q) \/ Waiting(c, rs))) => len < c - f.start

Storing(f, t, tb, d, q, rs, len) ==
    /\ FileArea(f) \subseteq DataBlocks
    /\ \E s \in Slot : t.entries[s] = f
    /\ PutQueue(f, t, q)
    /\ StoreResults(f, t, tb, d, q, rs)
    /\ StoreCount(f, d, q, rs, len)

CurEntry(start) == [name |-> cur.name, start |-> start, len |-> cur.size, ver |-> cur.ver]

PutState ==
    \/ Looking(table, queue, results) /\ curFilelength = 0
    \/ \E start \in Nat, t \in TableBlock :
          Storing(CurEntry(start), t, table, data, queue, results, curFilelength)

PutSound == (overlap = "none" /\ state = "PUT_FILE") => PutState
-----------------------------------------------------------------------------
(* All tables keep to the flash.                                           *)

LEMMA FitTables ==
    /\ InFlash(Blank.entries)
    /\ InFlash(Valid(FreshTable).entries)
    /\ \A t, sel : InFlash(t) => InFlash(Deleted(t, sel))
  <1>1. EntryBlocks(EmptyEntry) = {}
    BY DEF EntryBlocks, isEmpty, EmptyEntry
  <1>2. InFlash(Blank.entries)
    BY <1>1, TableTypes DEF InFlash
  <1>3. InFlash(FreshTable)
    <2>1. /\ LogBlocks \in Nat /\ PersBlocks \in Nat /\ NumBlocks \in Nat
          /\ FirstBlock + LogBlocks + PersBlocks <= NumBlocks /\ FirstBlock = 4
      BY TableAssumption DEF FirstBlock
    <2>2. FirstBlock..(FirstBlock + LogBlocks - 1) \subseteq DataBlocks
      BY <2>1 DEF DataBlocks
    <2>3. (FirstBlock + LogBlocks)..(FirstBlock + LogBlocks + PersBlocks - 1)
             \subseteq DataBlocks
      BY <2>1 DEF DataBlocks
    <2> SUFFICES ASSUME NEW s \in Slot PROVE EntryBlocks(FreshTable[s]) \subseteq DataBlocks
      BY DEF InFlash
    <2>4. CASE s = 1
      <3>1. FreshTable[s] = [name |-> RingLog, start |-> FirstBlock, len |-> LogBlocks, ver |-> 0]
        BY <2>4 DEF FreshTable
      <3> QED
        BY <2>2, <3>1 DEF EntryBlocks
    <2>5. CASE s = 2
      <3>1. FreshTable[s] = [name |-> PersLog, start |-> FirstBlock + LogBlocks,
                             len |-> PersBlocks, ver |-> 0]
        BY <2>5 DEF FreshTable
      <3> QED
        BY <2>3, <3>1 DEF EntryBlocks
    <2>6. CASE s # 1 /\ s # 2
      BY <1>1, <2>6 DEF FreshTable
    <2> QED
      BY <2>4, <2>5, <2>6
  <1>4. InFlash(Valid(FreshTable).entries)
    BY <1>3, TableTypes
  <1>5. \A t, sel : InFlash(t) => InFlash(Deleted(t, sel))
    BY <1>1 DEF InFlash, Deleted
  <1> QED
    BY <1>2, <1>4, <1>5

LEMMA FitFile ==
    ASSUME TypeOK, CurAsked, state = "PUT_FILE", NEW x \in TableBlock, InFlash(x.entries),
           NEW slot \in FileSlots(x.entries), NEW start \in Placement(x.entries)
    PROVE  /\ slot \in Slot /\ start \in Nat
           /\ start..(start + cur.size - 1) \subseteq DataBlocks
           /\ InFlash(WithFile(x.entries, slot, cur.name, start, cur.size, cur.ver))
           /\ WithFile(x.entries, slot, cur.name, start, cur.size, cur.ver)[slot] = CurEntry(start)
  <1>1. cur.name \in Names /\ cur.size \in Nat \ {0} /\ cur.ver \in Nat
    BY DEF CurAsked, TypeOK
  <1>2. slot \in Slot
    BY RoomFound
  <1>3. start \in Nat /\ start..(start + cur.size - 1) \subseteq DataBlocks
    BY <1>1, StartForFree DEF Placement
  <1> DEFINE w == WithFile(x.entries, slot, cur.name, start, cur.size, cur.ver)
  <1>4. w[slot] = CurEntry(start)
    BY <1>2 DEF WithFile, CurEntry
  <1>5. EntryBlocks(EmptyEntry) = {}
    BY DEF EntryBlocks, isEmpty, EmptyEntry
  <1>6. EntryBlocks(CurEntry(start)) \subseteq DataBlocks
    BY <1>3 DEF EntryBlocks, CurEntry
  <1>7. \A s \in Slot : w[s] \in {CurEntry(start), EmptyEntry, x.entries[s]}
    BY DEF WithFile, CurEntry
  <1> HIDE DEF w
  <1>8. InFlash(w)
    BY <1>5, <1>6, <1>7 DEF InFlash
  <1> QED
    BY <1>2, <1>3, <1>4, <1>8 DEF w

LEMMA FitReqs ==
    /\ \A b : EraseReq(b).table = Blank /\ ReadReq(b).table = Blank
    /\ \A b, c : DataReq(b, c).table = Blank
    /\ \A b, t : TableReq(b, t).table = t
  BY DEF EraseReq, ReadReq, DataReq, TableReq

LEMMA FitTail ==
    ASSUME NEW T, NEW q \in Seq(T), q # <<>>, AllFit(q)
    PROVE  AllFit(Tail(q)) /\ InFlash(Head(q).table.entries)
  <1>1. /\ Head(q) = q[1] /\ Len(q) \in Nat /\ Len(q) > 0
        /\ \A i \in 1..Len(Tail(q)) : i + 1 \in 1..Len(q) /\ Tail(q)[i] = q[i + 1]
    BY HeadType
  <1>2. 1 \in 1..Len(q)
    BY <1>1
  <1> QED
    BY <1>1, <1>2 DEF AllFit

LEMMA FitAppend ==
    ASSUME NEW T, NEW q \in Seq(T), NEW x \in T, AllFit(q), InFlash(x.table.entries)
    PROVE  AllFit(Append(q, x))
  <1>1. /\ Len(Append(q, x)) = Len(q) + 1 /\ Append(q, x)[Len(q) + 1] = x
        /\ \A i \in 1..Len(q) : Append(q, x)[i] = q[i]
        /\ \A i \in 1..(Len(q) + 1) : i \in 1..Len(q) \/ i = Len(q) + 1
    BY AppendType
  <1> QED
    BY <1>1 DEF AllFit

LEMMA FitConcat ==
    ASSUME NEW T, NEW q \in Seq(T), NEW p \in Seq(T), AllFit(q), AllFit(p)
    PROVE  AllFit(q \o p)
  <1>1. /\ Len(q \o p) = Len(q) + Len(p)
        /\ \A i \in 1..Len(q) : (q \o p)[i] = q[i]
        /\ \A k \in 1..Len(p) : (q \o p)[Len(q) + k] = p[k]
        /\ \A i \in 1..(Len(q) + Len(p)) :
              i \in 1..Len(q) \/ (i - Len(q) \in 1..Len(p) /\ Len(q) + (i - Len(q)) = i)
    BY ConcatType
  <1>2. ASSUME NEW i \in 1..(Len(q) + Len(p)) PROVE InFlash((q \o p)[i].table.entries)
    <2>1. CASE i \in 1..Len(q)
      BY <1>1, <2>1 DEF AllFit
    <2>2. CASE i \notin 1..Len(q)
      <3> DEFINE k == i - Len(q)
      <3>1. k \in 1..Len(p) /\ Len(q) + k = i
        BY <1>1, <2>2
      <3> HIDE DEF k
      <3>2. (q \o p)[i] = p[k]
        BY <1>1, <3>1
      <3> QED
        BY <3>1, <3>2 DEF AllFit
    <2> QED
      BY <2>1, <2>2
  <1> QED
    BY <1>1, <1>2 DEF AllFit

LEMMA FitStore ==
    ASSUME NEW v \in TableBlock, InFlash(v.entries)
    PROVE  /\ StoreTable(v) \in Seq(FlashReq) /\ AllFit(StoreTable(v))
           /\ <<ReadReq(0)>> \in Seq(FlashReq) /\ AllFit(<<ReadReq(0)>>)
           /\ <<EraseReq(0), TableReq(0, v), ReadReq(0)>> \in Seq(FlashReq)
           /\ AllFit(<<EraseReq(0), TableReq(0, v), ReadReq(0)>>)
  <1>1. \A b \in {0, 1} : /\ InFlash(EraseReq(b).table.entries) /\ InFlash(ReadReq(b).table.entries)
                          /\ InFlash(TableReq(b, v).table.entries)
    BY FitTables, FitReqs
  <1>2. AllFit(StoreTable(v))
    <2> DEFINE s == StoreTable(v)
    <2>1. Len(s) = 4 /\ s[1] = EraseReq(1) /\ s[2] = TableReq(1, v) /\ s[3] = EraseReq(0)
          /\ s[4] = TableReq(0, v)
      BY DEF StoreTable
    <2>2. \A k \in 1..4 : k = 1 \/ k = 2 \/ k = 3 \/ k = 4
      OBVIOUS
    <2> HIDE DEF s
    <2>3. AllFit(s)
      BY <1>1, <2>1, <2>2 DEF AllFit
    <2> QED
      BY <2>3 DEF s
  <1>3. AllFit(<<ReadReq(0)>>) /\ <<ReadReq(0)>> \in Seq(FlashReq)
    BY <1>1, RequestTypes DEF AllFit
  <1>4. AllFit(<<EraseReq(0), TableReq(0, v), ReadReq(0)>>)
    <2> DEFINE s == <<EraseReq(0), TableReq(0, v), ReadReq(0)>>
    <2>1. Len(s) = 3 /\ s[1] = EraseReq(0) /\ s[2] = TableReq(0, v) /\ s[3] = ReadReq(0)
      OBVIOUS
    <2>2. \A k \in 1..3 : k = 1 \/ k = 2 \/ k = 3
      OBVIOUS
    <2> HIDE DEF s
    <2>3. AllFit(s)
      BY <1>1, <2>1, <2>2 DEF AllFit
    <2> QED
      BY <2>3 DEF s
  <1> QED
    BY <1>2, <1>3, <1>4, StoreTableType, RestoreSeq

LEMMA FitData ==
    ASSUME NEW start \in Nat, NEW size \in Nat, NEW ver \in Nat
    PROVE  AllFit(FileRequests(start, size, ver))
  <1> DEFINE F == FileRequests(start, size, ver)
  <1>1. \A k \in 1..(2 * size) : \E b, c : F[k] = EraseReq(b) \/ F[k] = DataReq(b, c)
    BY DEF FileRequests
  <1>2. Len(F) = 2 * size
    BY FileRequestsType
  <1> HIDE DEF F
  <1>3. \A k \in 1..(2 * size) : F[k].table = Blank
    BY <1>1, FitReqs
  <1>4. AllFit(F)
    BY <1>2, <1>3, FitTables DEF AllFit
  <1> QED
    BY <1>4 DEF F

LEMMA FitInit == Init => TablesFit
  <1> SUFFICES ASSUME Init PROVE TablesFit
    OBVIOUS
  <1>1. /\ queue = <<>> /\ results = <<>>
        /\ \A b \in {0, 1} : table[b] \in {Valid(FreshTable), Blank}
    BY DEF Init
  <1>2. Len(queue) = 0 /\ Len(results) = 0 /\ \A i \in 1..0 : FALSE
    BY <1>1
  <1> QED
    BY <1>1, <1>2, FitTables DEF TablesFit, AllFit

LEMMA FitBegin ==
    ASSUME TypeOK, TablesFit, NEW kind, NEW newState, Begin(kind, newState),
           UNCHANGED <<table, results>>
    PROVE  TablesFit'
  <1>1. ReadReq(0) \in FlashReq /\ queue \in Seq(FlashReq)
    BY RequestTypes DEF TypeOK
  <1>2. InFlash(ReadReq(0).table.entries)
    BY FitTables, FitReqs
  <1>3. AllFit(queue')
    BY <1>1, <1>2, FitAppend DEF Begin, TablesFit
  <1> QED
    BY <1>3 DEF TablesFit

(* The controller takes a request and sends its result.                    *)
LEMMA FitTaken ==
    ASSUME TypeOK, TablesFit, queue # <<>>, queue' = Tail(queue), NEW ok \in BOOLEAN,
           results' = Append(results, Result(Head(queue), ok)),
           \/ Apply(Head(queue))
           \/ UNCHANGED table
    PROVE  TablesFit'
  <1> DEFINE h == Head(queue)
             x == Result(h, ok)
  <1>1. /\ queue \in Seq(FlashReq) /\ results \in Seq(FlashResult)
        /\ table \in [{0, 1} -> TableBlock]
    BY DEF TypeOK
  <1>2. h \in FlashReq /\ AllFit(queue') /\ InFlash(h.table.entries)
    BY <1>1, HeadType, FitTail DEF TablesFit
  <1>3. x \in FlashResult
    BY <1>2, ResultType
  <1>4. InFlash(x.table.entries)
    <2>1. x.table = Blank \/ \E b \in {0, 1} : x.table = table[b]
      BY DEF Result
    <2> HIDE DEF x
    <2> QED
      BY <2>1, FitTables DEF TablesFit
  <1> HIDE DEF x
  <1>5. results' = Append(results, x)
    BY DEF x
  <1>6. AllFit(results')
    BY <1>1, <1>3, <1>4, <1>5, FitAppend DEF TablesFit
  <1> HIDE DEF h
  <1>7. Apply(h) \/ table' = table
    BY DEF h
  <1>8. \A b \in {0, 1} : table'[b] \in {table[b], Blank, h.table}
    BY <1>1, <1>7 DEF Apply
  <1>9. \A b \in {0, 1} : InFlash(table'[b].entries)
    BY <1>2, <1>8, FitTables DEF TablesFit
  <1> QED
    BY <1>2, <1>6, <1>9 DEF TablesFit

LEMMA FitRestart ==
    ASSUME TypeOK, TablesFit, Crash \/ CrashInWrite
    PROVE  TablesFit'
  <1>1. queue' = <<>> /\ results' = <<>>
    BY DEF Crash, CrashInWrite, Restart
  <1>2. AllFit(queue') /\ AllFit(results')
    <2>1. Len(queue') = 0 /\ Len(results') = 0 /\ \A i \in 1..0 : FALSE
      BY <1>1
    <2> QED
      BY <2>1 DEF AllFit
  <1>3. CASE Crash
    BY <1>2, <1>3 DEF Crash, TablesFit
  <1>4. CASE CrashInWrite
    <2> DEFINE h == Head(queue)
    <2>1. PICK k \in 0..(Slots - 1) :
             table' = [table EXCEPT ![h.block] =
                         [magic |-> TRUE, crc |-> FALSE,
                          entries |-> [i \in Slot |-> IF i <= k THEN h.table.entries[i]
                                                                ELSE EmptyEntry]]]
      BY <1>4 DEF CrashInWrite
    <2> DEFINE e == [i \in Slot |-> IF i <= k THEN h.table.entries[i] ELSE EmptyEntry]
    <2>2. queue # <<>> /\ queue \in Seq(FlashReq) /\ table \in [{0, 1} -> TableBlock]
      BY <1>4 DEF CrashInWrite, TypeOK
    <2>3. InFlash(h.table.entries)
      BY <2>2, FitTail DEF TablesFit
    <2>4. EntryBlocks(EmptyEntry) = {}
      BY DEF EntryBlocks, isEmpty, EmptyEntry
    <2>5. InFlash(e)
      BY <2>3, <2>4 DEF InFlash
    <2>6. table' = [table EXCEPT ![h.block] = [magic |-> TRUE, crc |-> FALSE, entries |-> e]]
      BY <2>1
    <2> HIDE DEF e, h
    <2>7. \A b \in {0, 1} : table'[b] = table[b] \/ table'[b].entries = e
      BY <2>2, <2>6
    <2> QED
      BY <1>2, <2>5, <2>7 DEF TablesFit
  <1> QED
    BY <1>3, <1>4

(* The host takes a result and queues p.                                   *)
LEMMA FitQueued ==
    ASSUME TypeOK, TablesFit, results # <<>>, results' = Tail(results), UNCHANGED table,
           NEW p \in Seq(FlashReq), AllFit(p), queue' = queue \o p
    PROVE  TablesFit'
  <1>1. queue \in Seq(FlashReq) /\ results \in Seq(FlashResult)
    BY DEF TypeOK
  <1>2. AllFit(results')
    BY <1>1, FitTail DEF TablesFit
  <1>3. AllFit(queue')
    BY <1>1, FitConcat DEF TablesFit
  <1> QED
    BY <1>2, <1>3 DEF TablesFit

LEMMA FitAdded ==
    ASSUME TypeOK, TablesFit, results # <<>>, results' = Tail(results), UNCHANGED table,
           \/ UNCHANGED queue
           \/ \E b \in Nat : queue' = Append(queue, ReadReq(b))
    PROVE  TablesFit'
  <1>1. queue \in Seq(FlashReq) /\ results \in Seq(FlashResult)
    BY DEF TypeOK
  <1>2. AllFit(results')
    BY <1>1, FitTail DEF TablesFit
  <1>3. ASSUME NEW b \in Nat, queue' = Append(queue, ReadReq(b)) PROVE AllFit(queue')
    <2>1. ReadReq(b) \in FlashReq /\ InFlash(ReadReq(b).table.entries)
      BY RequestTypes, FitTables, FitReqs
    <2> QED
      BY <1>1, <1>3, <2>1, FitAppend DEF TablesFit
  <1> QED
    BY <1>2, <1>3 DEF TablesFit

LEMMA FitPut ==
    ASSUME TypeOK, CurAsked, TablesFit, state = "PUT_FILE", results # <<>>,
           results' = Tail(results), UNCHANGED table, NEW blk,
           \/ PutFails(blk, Head(results).table) \/ PutStores(blk, Head(results).table)
           \/ PutHostFile(blk, Head(results).table)
    PROVE  TablesFit'
  <1> DEFINE x == Head(results).table
  <1>1. /\ queue \in Seq(FlashReq) /\ results \in Seq(FlashResult) /\ cur.ver \in Nat
        /\ cur.size \in Nat
    BY DEF TypeOK
  <1>2. x \in TableBlock /\ InFlash(x.entries)
    BY <1>1, FirstResult, FitTail DEF TablesFit
  <1>3. \/ UNCHANGED queue
        \/ \E slot \in FileSlots(x.entries), start \in Placement(x.entries) :
              \/ queue' = queue \o FileRequests(start, cur.size, cur.ver)
                         \o StoreTable(Valid(WithFile(x.entries, slot, cur.name, start,
                                                      cur.size, cur.ver)))
              \/ \E k \in 1..(2 * cur.size) :
                   queue' = queue \o SubSeq(FileRequests(start, cur.size, cur.ver), 1, k)
    BY DEF PutFails, PutStores, PutHostFile
  <1> HIDE DEF x
  <1>4. CASE UNCHANGED queue
    BY <1>4, FitAdded
  <1>5. ASSUME NEW slot \in FileSlots(x.entries), NEW start \in Placement(x.entries),
               \/ queue' = queue \o FileRequests(start, cur.size, cur.ver)
                         \o StoreTable(Valid(WithFile(x.entries, slot, cur.name, start,
                                                      cur.size, cur.ver)))
               \/ \E k \in 1..(2 * cur.size) :
                    queue' = queue \o SubSeq(FileRequests(start, cur.size, cur.ver), 1, k)
        PROVE  TablesFit'
    <2> DEFINE F == FileRequests(start, cur.size, cur.ver)
               w == WithFile(x.entries, slot, cur.name, start, cur.size, cur.ver)
               s == StoreTable(Valid(w))
    <2>1. F \in Seq(FlashReq) /\ Len(F) = 2 * cur.size /\ start \in Nat /\ w \in Table
      BY <1>2, RoomFound
    <2>2. InFlash(w)
      BY <1>2, FitFile
    <2>3. AllFit(F)
      BY <1>1, <2>1, FitData
    <2> HIDE DEF w
    <2>4. s \in Seq(FlashReq) /\ AllFit(s)
      BY <2>1, <2>2, TableTypes, FitStore
    <2>5. queue' = (queue \o F) \o s \/ \E k \in 1..Len(F) : queue' = queue \o SubSeq(F, 1, k)
      BY <1>5, <2>1 DEF w
    <2> HIDE DEF F, s
    <2>6. CASE queue' = (queue \o F) \o s
      <3>1. queue \o F \in Seq(FlashReq)
        BY <1>1, <2>1, ConcatType
      <3>2. AllFit(queue')
        BY <1>1, <2>1, <2>3, <2>4, <2>6, <3>1, FitConcat DEF TablesFit
      <3>3. AllFit(results')
        BY <1>1, FitTail DEF TablesFit
      <3> QED
        BY <3>2, <3>3 DEF TablesFit
    <2>7. ASSUME NEW k \in 1..Len(F), queue' = queue \o SubSeq(F, 1, k) PROVE TablesFit'
      <3> DEFINE p == SubSeq(F, 1, k)
      <3>1. p \in Seq(FlashReq) /\ Len(p) = k /\ \A i \in 1..k : i \in 1..Len(F) /\ p[i] = F[i]
        BY <2>1
      <3>2. AllFit(p)
        BY <2>3, <3>1 DEF AllFit
      <3>3. queue' = queue \o p
        BY <2>7
      <3> HIDE DEF p
      <3> QED
        BY <3>1, <3>2, <3>3, FitQueued
    <2> QED
      BY <2>5, <2>6, <2>7
  <1> QED
    BY <1>3, <1>4, <1>5

LEMMA SelectedSlots ==
    ASSUME TypeOK, NEW t
    PROVE  SelectedEntry(t) \subseteq Slot
  <1>1. cur.index \in 0..Slots
    BY DEF TypeOK
  <1>2. cur.index # 0 => cur.index \in Slot
    BY <1>1, TableAssumption DEF Slot
  <1> QED
    BY <1>2 DEF SelectedEntry, Selected, FirstMatching, Matching

LEMMA FitDispatch ==
    ASSUME TypeOK, CurAsked, TablesFit, Dispatch
    PROVE  TablesFit'
  <1> DEFINE r == Head(results)
             blk == IF r.block = 1 THEN 0 ELSE r.block
  <1>1. results # <<>> /\ results' = Tail(results) /\ UNCHANGED table
    BY DEF Dispatch
  <1>2. /\ queue \in Seq(FlashReq) /\ results \in Seq(FlashResult) /\ flashAddr \in Nat
    BY DEF TypeOK
  <1>3. r.table \in TableBlock /\ InFlash(r.table.entries) /\ r.table.entries \in Table
    BY <1>1, <1>2, FirstResult, FitTail DEF TablesFit
  <1>4. \/ GotPartition(blk, r.table) \/ Delete(blk, r.table) \/ GetFileTable(r.table)
        \/ GetFileData(blk, r.content) \/ UNCHANGED queue
        \/ state = "PUT_FILE" /\ (PutFails(blk, r.table) \/ PutStores(blk, r.table)
                                    \/ PutHostFile(blk, r.table))
    BY DEF Dispatch, GetHostFile
  <1> HIDE DEF blk
  <1>5. CASE UNCHANGED queue
    BY <1>1, <1>5, FitAdded
  <1>6. CASE GotPartition(blk, r.table)
    <2> DEFINE v == Valid(FreshTable)
               z == <<ReadReq(0)>>
    <2>1. queue' = (queue \o StoreTable(v)) \o z \/ UNCHANGED queue
      BY <1>6 DEF GotPartition
    <2>2. v \in TableBlock /\ InFlash(v.entries)
      BY TableTypes, FitTables
    <2> HIDE DEF v
    <2>3. /\ StoreTable(v) \in Seq(FlashReq) /\ AllFit(StoreTable(v))
          /\ z \in Seq(FlashReq) /\ AllFit(z)
      BY <2>2, FitStore
    <2> HIDE DEF z
    <2>4. CASE queue' = (queue \o StoreTable(v)) \o z
      <3>1. queue \o StoreTable(v) \in Seq(FlashReq)
        BY <1>2, <2>3, ConcatType
      <3>2. AllFit(queue')
        BY <1>2, <2>3, <2>4, <3>1, FitConcat DEF TablesFit
      <3>3. AllFit(results')
        BY <1>1, <1>2, FitTail DEF TablesFit
      <3> QED
        BY <1>1, <3>2, <3>3 DEF TablesFit
    <2> QED
      BY <1>1, <2>1, <2>4, FitAdded
  <1>7. CASE Delete(blk, r.table)
    <2> DEFINE w == Deleted(r.table.entries, SelectedEntry(r.table.entries))
               v == Valid(w)
    <2>1. queue' = queue \o StoreTable(v) \/ UNCHANGED queue
      BY <1>7 DEF Delete
    <2>2. w \in Table /\ InFlash(w)
      BY <1>3, DeletedType, FitTables
    <2> HIDE DEF w
    <2>3. v \in TableBlock /\ InFlash(v.entries)
      BY <2>2, TableTypes
    <2> HIDE DEF v
    <2>4. StoreTable(v) \in Seq(FlashReq) /\ AllFit(StoreTable(v))
      BY <2>3, FitStore
    <2> QED
      BY <1>1, <2>1, <2>4, FitQueued, FitAdded
  <1>8. CASE GetFileTable(r.table)
    <2>1. \/ UNCHANGED queue
          \/ \E i \in SelectedEntry(r.table.entries) :
                /\ ~isEmpty(r.table.entries[i])
                /\ queue' = Append(queue, ReadReq(r.table.entries[i].start))
      BY <1>8 DEF GetFileTable
    <2>2. \A i \in SelectedEntry(r.table.entries) : r.table.entries[i].start \in Nat
      BY <1>3, SelectedSlots DEF Table, Entry
    <2>3. UNCHANGED queue \/ \E b \in Nat : queue' = Append(queue, ReadReq(b))
      BY <2>1, <2>2
    <2> QED
      BY <1>1, <2>3, FitAdded
  <1>9. CASE GetFileData(blk, r.content)
    <2>1. NoBytes \in Nat
      BY DEF NoBytes
    <2>2. UNCHANGED queue \/ \E b \in Nat : queue' = Append(queue, ReadReq(b))
      BY <1>2, <1>9, <2>1 DEF GetFileData
    <2> QED
      BY <1>1, <2>2, FitAdded
  <1>10. CASE state = "PUT_FILE" /\ (PutFails(blk, r.table) \/ PutStores(blk, r.table)
                                       \/ PutHostFile(blk, r.table))
    BY <1>1, <1>10, FitPut
  <1> QED
    BY <1>4, <1>5, <1>6, <1>7, <1>8, <1>9, <1>10

LEMMA FitNext ==
    ASSUME TypeOK, CurAsked, TablesFit, [Next]_vars
    PROVE  TablesFit'
  <1>1. CASE HostRequest
    <2>1. CASE PutLog
      BY <2>1 DEF PutLog, TablesFit
    <2>2. CASE ~PutLog
      <3>1. \E kind, newState : Begin(kind, newState) /\ UNCHANGED <<table, results>>
        BY <1>1, <2>2 DEF HostRequest, GetPartitiontable, DeleteFile, GetFile, PutFile
      <3> QED
        BY <3>1, FitBegin
    <2> QED
      BY <2>1, <2>2
  <1>2. CASE ReadBackup
    <2>1. 1 \in Nat
      OBVIOUS
    <2> QED
      BY <1>2, <2>1, FitAdded DEF ReadBackup, Unchanged
  <1>3. CASE RestoreTable
    <2> DEFINE v == Head(results).table
    <2>1. /\ results # <<>> /\ results' = Tail(results) /\ UNCHANGED table
          /\ queue' = queue \o <<EraseReq(0), TableReq(0, v), ReadReq(0)>>
      BY <1>3 DEF RestoreTable, Unchanged
    <2>2. results \in Seq(FlashResult)
      BY DEF TypeOK
    <2>3. v \in TableBlock /\ InFlash(v.entries)
      BY <2>1, <2>2, FirstResult, FitTail DEF TablesFit
    <2> HIDE DEF v
    <2>4. /\ <<EraseReq(0), TableReq(0, v), ReadReq(0)>> \in Seq(FlashReq)
          /\ AllFit(<<EraseReq(0), TableReq(0, v), ReadReq(0)>>)
      BY <2>3, FitStore
    <2> QED
      BY <2>1, <2>4, FitQueued
  <1>4. CASE Dispatch
    BY <1>4, FitDispatch
  <1>5. CASE WriteResult \/ EraseResult \/ LogResult
    <2>1. results # <<>> /\ results' = Tail(results) /\ UNCHANGED <<table, queue>>
      BY <1>5 DEF WriteResult, EraseResult, LogResult, Unchanged
    <2> QED
      BY <2>1, FitAdded
  <1>6. CASE Execute
    <2>1. TRUE \in BOOLEAN
      OBVIOUS
    <2> QED
      BY <1>6, <2>1, FitTaken DEF Execute
  <1>7. CASE ExecuteLog
    <2> DEFINE x == [op |-> "log", block |-> 0, ok |-> TRUE, table |-> Blank, content |-> NoData]
    <2>1. results' = Append(results, x) /\ UNCHANGED <<table, queue>>
      BY <1>7 DEF ExecuteLog
    <2>2. x \in FlashResult /\ x.table = Blank /\ results \in Seq(FlashResult)
      BY TableTypes, RequestTypes DEF FlashResult, TypeOK
    <2> HIDE DEF x
    <2>3. AllFit(results')
      BY <2>1, <2>2, FitTables, FitAppend DEF TablesFit
    <2> QED
      BY <2>1, <2>3 DEF TablesFit
  <1>8. CASE BadWrite
    <2>1. FALSE \in BOOLEAN
      OBVIOUS
    <2> QED
      BY <1>8, <2>1, FitTaken DEF BadWrite
  <1>9. CASE Crash \/ CrashInWrite
    BY <1>9, FitRestart
  <1>10. CASE ToggleError \/ UNCHANGED vars
    BY <1>10 DEF ToggleError, vars, TablesFit
  <1> QED
    BY <1>1, <1>2, <1>3, <1>4, <1>5, <1>6, <1>7, <1>8, <1>9, <1>10 DEF Next, HostResult, Fault
-----------------------------------------------------------------------------
(* What is under way while the table is looked for.                        *)

LEMMA LookingPop ==
    ASSUME NEW q, NEW q2, Popped(q, q2), NEW rs, NEW rs2, NEW x, Added(rs, rs2, x),
           NEW tb, NEW tb2, TablesAfter(q[1], tb, tb2), ResultOf(q[1], x, tb), x.op = q[1].op,
           Looking(tb, q, rs)
    PROVE  Looking(tb2, q2, rs2)
  <1>1. /\ Len(q) \in Nat /\ 1 \in 1..Len(q) /\ Len(q2) = Len(q) - 1
        /\ \A i \in 1..Len(q2) : i + 1 \in 1..Len(q) /\ q2[i] = q[i + 1]
    BY DEF Popped
  <1>2. Len(q) # 0 /\ (1 = Len(q) => Len(q2) = 0)
    BY <1>1
  <1>3. \A k \in 1..Len(rs) : rs[k].op \notin {"data", "read"}
    BY <1>2 DEF Looking
  <1>4. q[1].op # "data" /\ (q[1].op = "read" => 1 = Len(q) /\ q[1].block \in {0, 1})
    BY <1>1 DEF Looking
  <1>5. \A i \in 1..Len(q2) : q2[i].op # "data"
                              /\ (q2[i].op = "read" => i = Len(q2) /\ q2[i].block \in {0, 1})
    <2> SUFFICES ASSUME NEW i \in 1..Len(q2)
                 PROVE  q2[i].op # "data"
                        /\ (q2[i].op = "read" => i = Len(q2) /\ q2[i].block \in {0, 1})
      OBVIOUS
    <2>1. i + 1 \in 1..Len(q) /\ q2[i] = q[i + 1]
      BY <1>1
    <2>2. i + 1 = Len(q) => i = Len(q2)
      BY <1>1
    <2> QED
      BY <2>1, <2>2 DEF Looking
  <1>6. ASSUME NEW k \in 1..Len(rs2)
        PROVE  /\ rs2[k].op # "data"
               /\ rs2[k].op = "read" =>
                     /\ Len(q2) = 0 /\ rs2[k].block \in {0, 1}
                     /\ rs2[k].table = tb2[rs2[k].block]
                     /\ \A l \in 1..Len(rs2) : l > k => rs2[l].op = "log"
    <2>1. CASE k \in 1..Len(rs)
      <3>1. rs2[k] = rs[k]
        BY <2>1 DEF Added
      <3> QED
        BY <1>3, <2>1, <3>1
    <2>2. CASE k = Len(rs) + 1
      <3>1. rs2[k] = x /\ \A l \in 1..Len(rs2) : ~(l > k)
        BY <2>2 DEF Added
      <3>2. ASSUME x.op = "read"
            PROVE  Len(q2) = 0 /\ x.block \in {0, 1} /\ x.table = tb2[x.block]
        <4>1. TableRead(q[1]) /\ 1 = Len(q)
          BY <1>4, <3>2 DEF TableRead
        <4>2. x.block = q[1].block /\ x.table = tb[q[1].block] /\ q[1].block \in {0, 1}
          BY <4>1 DEF ResultOf, TableRead
        <4>3. \A b \in {0, 1} : tb2[b] = tb[b]
          BY <3>2 DEF TablesAfter, Writes
        <4>4. Len(q2) = 0
          BY <1>2, <4>1
        <4> QED
          BY <4>2, <4>3, <4>4
      <3> QED
        BY <1>4, <3>1, <3>2
    <2> QED
      BY <2>1, <2>2 DEF Added
  <1> QED
    BY <1>5, <1>6 DEF Looking

LEMMA LookingLog ==
    ASSUME NEW q, NEW rs, NEW rs2, NEW x, Added(rs, rs2, x), x.op = "log", NEW tb,
           Looking(tb, q, rs)
    PROVE  Looking(tb, q, rs2)
  <1>1. ASSUME NEW k \in 1..Len(rs2), rs2[k].op # "log" PROVE k \in 1..Len(rs) /\ rs2[k] = rs[k]
    BY <1>1 DEF Added
  <1> QED
    BY <1>1 DEF Looking

LEMMA LookingTake ==
    ASSUME NEW q, NEW rs, NEW rs2, Popped(rs, rs2), NEW tb, Looking(tb, q, rs)
    PROVE  /\ Looking(tb, q, rs2)
           /\ rs[1].op = "read" => /\ OnlyLogs(q, rs2) /\ rs[1].block \in {0, 1}
                                   /\ rs[1].table = tb[rs[1].block]
  <1>1. /\ 1 \in 1..Len(rs)
        /\ \A k \in 1..Len(rs2) : k + 1 \in 1..Len(rs) /\ rs2[k] = rs[k + 1] /\ k + 1 > 1
    BY DEF Popped
  <1>2. rs[1].op = "read" => /\ OnlyLogs(q, rs2) /\ rs[1].block \in {0, 1}
                             /\ rs[1].table = tb[rs[1].block]
    BY <1>1 DEF OnlyLogs, Looking
  <1>3. ASSUME NEW k \in 1..Len(rs2), rs2[k].op = "read"
        PROVE  \A l \in 1..Len(rs2) : l > k => rs2[l].op = "log"
    <2>1. \A l \in 1..Len(rs2) : l > k => l + 1 > k + 1
      OBVIOUS
    <2> QED
      BY <1>1, <1>3, <2>1 DEF Looking
  <1>4. Looking(tb, q, rs2)
    BY <1>1, <1>3 DEF Looking
  <1> QED
    BY <1>2, <1>4

LEMMA LookingAgain ==
    ASSUME NEW q, NEW rs, OnlyLogs(q, rs), NEW tb, NEW q2,
           \A i \in 1..Len(q2) : /\ q2[i].op # "data"
                                 /\ q2[i].op = "read" => i = Len(q2) /\ q2[i].block \in {0, 1}
    PROVE  Looking(tb, q2, rs)
  BY DEF Looking, OnlyLogs

LEMMA LogsLook ==
    ASSUME NEW q, NEW rs, OnlyLogs(q, rs), NEW tb
    PROVE  Looking(tb, q, rs)
  <1>1. \A i \in 1..Len(q) : FALSE
    BY DEF OnlyLogs
  <1> QED
    BY <1>1, LookingAgain

(* What the controller does with the first request.                        *)
Did(h, x) ==
    /\ x.op = h.op /\ x.block = h.block
    /\ ResultOf(h, x, table) /\ TablesAfter(h, table, table') /\ Applied(h, data, data')
    /\ h.op = "read" => UNCHANGED <<table, data>>
    /\ (h.op = "read" /\ h.block \in DataBlocks) => x.content = data[h.block]
    /\ (h.op = "data" /\ h.block \in DataBlocks /\ x.ok) => data'[h.block] = h.content
    /\ (h.op = "table" /\ h.block \in {0, 1} /\ x.ok) => table'[h.block] = h.table

LEMMA Executed ==
    ASSUME TypeOK, Execute \/ BadWrite
    PROVE  /\ Popped(queue, queue')
           /\ \E x \in FlashResult : Added(results, results', x) /\ Did(queue[1], x)
  <1> DEFINE h == Head(queue)
  <1>1. /\ queue \in Seq(FlashReq) /\ table \in [{0, 1} -> TableBlock]
        /\ data \in [DataBlocks -> Nat \X Nat]
    BY DEF TypeOK
  <1>2. queue # <<>> /\ queue' = Tail(queue)
    BY DEF Execute, BadWrite
  <1>3. h \in FlashReq /\ h = queue[1]
    BY <1>1, <1>2, HeadType
  <1>4. PICK ok \in BOOLEAN :
           /\ results' = Append(results, Result(h, ok))
           /\ ok => Apply(h)
           /\ ~ok => UNCHANGED <<table, data>> /\ h.op \in {"table", "data"}
    <2>1. TRUE \in BOOLEAN /\ FALSE \in BOOLEAN
      OBVIOUS
    <2> QED
      BY <2>1 DEF Execute, BadWrite
  <1> DEFINE x == Result(h, ok)
  <1>5. x \in FlashResult
    BY <1>3, ResultType
  <1>6. /\ x.op = h.op /\ x.block = h.block /\ x.ok = ok
        /\ (h.op = "read" /\ h.block \in DataBlocks) => x.content = data[h.block]
    BY DEF Result
  <1>7. ResultOf(h, x, table)
    BY DEF ResultOf, TableRead, Result
  <1>8. TablesAfter(h, table, table')
    BY <1>1, <1>4 DEF TablesAfter, Writes, TableOf, Apply
  <1>9. Applied(h, data, data')
    BY <1>1, <1>4 DEF Applied, Hits, Apply
  <1>10. h.op = "read" => UNCHANGED <<table, data>>
    BY <1>4 DEF Apply
  <1>11. ok => /\ (h.op = "data" /\ h.block \in DataBlocks) => data'[h.block] = h.content
               /\ (h.op = "table" /\ h.block \in {0, 1}) => table'[h.block] = h.table
    BY <1>1, <1>4 DEF Apply
  <1>12. results' = Append(results, x)
    BY <1>4
  <1> HIDE DEF x
  <1>13. Popped(queue, queue') /\ Added(results, results', x)
    BY <1>2, <1>5, <1>12, TailFacts DEF Popped, Added
  <1>14. Did(h, x)
    <2> HIDE DEF h
    <2> QED
      BY <1>4, <1>6, <1>7, <1>8, <1>9, <1>10, <1>11 DEF Did
  <1> QED
    BY <1>3, <1>5, <1>13, <1>14

LEMMA LogAdded ==
    ASSUME TypeOK, ExecuteLog
    PROVE  \E x \in FlashResult : Added(results, results', x) /\ x.op = "log"
  <1> DEFINE x == [op |-> "log", block |-> 0, ok |-> TRUE, table |-> Blank, content |-> NoData]
  <1>1. results' = Append(results, x)
    BY DEF ExecuteLog
  <1>2. x \in FlashResult /\ x.op = "log"
    BY TableTypes, RequestTypes DEF FlashResult
  <1>3. results \in Seq(FlashResult)
    BY DEF TypeOK
  <1> HIDE DEF x
  <1>4. /\ Len(results') = Len(results) + 1 /\ results'[Len(results) + 1] = x
        /\ \A k \in 1..Len(results) : results'[k] = results[k]
        /\ \A k \in 1..(Len(results) + 1) : k \in 1..Len(results) \/ k = Len(results) + 1
        /\ Len(results) \in Nat
    BY <1>1, <1>2, <1>3, AppendType
  <1>5. Added(results, results', x)
    BY <1>4 DEF Added
  <1> QED
    BY <1>2, <1>5

(* How a request begins with nothing of an earlier one under way.          *)
LEMMA BeginLooking ==
    ASSUME TypeOK, NEW kind, NEW newState, Begin(kind, newState), overlap' = "none",
           UNCHANGED <<table, results>>
    PROVE  Looking(table', queue', results') /\ overlap = "none"
  <1>1. /\ queue' = Append(queue, ReadReq(0)) /\ queue = <<>> /\ results = <<>>
        /\ overlap = "none"
    BY DEF Begin, TypeOK
  <1>2. Len(queue') = 1 /\ queue'[1] = ReadReq(0)
    BY <1>1
  <1>3. OnlyLogs(queue, results')
    <2>1. Len(queue) = 0 /\ Len(results') = 0 /\ \A k \in 1..0 : FALSE
      BY <1>1
    <2> QED
      BY <2>1 DEF OnlyLogs
  <1>4. ReadReq(0).op = "read" /\ ReadReq(0).block = 0
    BY DEF ReadReq
  <1>5. \A i \in 1..1 : i = 1
    OBVIOUS
  <1>6. \A i \in 1..Len(queue') :
           /\ queue'[i].op # "data"
           /\ queue'[i].op = "read" => i = Len(queue') /\ queue'[i].block \in {0, 1}
    BY <1>2, <1>4, <1>5
  <1> QED
    BY <1>1, <1>3, <1>6, LookingAgain

(* Only requests begin an overlap or an operation.                         *)
LEMMA StepKeeps ==
    ASSUME TypeOK, [Next]_vars, ~HostRequest
    PROVE  overlap' = overlap /\ state' \in {state, "USER"}
  <1>1. CASE ReadBackup \/ RestoreTable \/ EraseResult \/ LogResult
    BY <1>1 DEF ReadBackup, RestoreTable, EraseResult, LogResult, Unchanged
  <1>2. CASE WriteResult
    BY <1>2 DEF WriteResult, Unchanged
  <1>3. CASE Dispatch
    BY <1>3 DEF Dispatch, GotPartition, Delete, GetFileTable, GetFileData, GetHostFile,
                PutFails, PutStores, PutHostFile
  <1>4. CASE Execute \/ ExecuteLog \/ BadWrite
    BY <1>4 DEF Execute, ExecuteLog, BadWrite, hostVars, historyVars
  <1>5. CASE Crash \/ CrashInWrite \/ ToggleError
    BY <1>5 DEF Crash, CrashInWrite, ToggleError, Restart
  <1>6. CASE UNCHANGED vars
    BY <1>6 DEF vars, hostVars, historyVars
  <1> QED
    BY <1>1, <1>2, <1>3, <1>4, <1>5, <1>6 DEF Next, HostResult, Fault

LEMMA TakenFirst ==
    ASSUME TypeOK, results # <<>>, results' = Tail(results)
    PROVE  Popped(results, results') /\ Head(results) = results[1]
  BY ResultTaken

(* The table is read again, or restored and read again.                    *)
LEMMA BackupLooking ==
    ASSUME TypeOK, ReadBackup \/ RestoreTable, Looking(table, queue, results)
    PROVE  Looking(table', queue', results')
  <1>1. /\ results # <<>> /\ results' = Tail(results) /\ UNCHANGED table
        /\ Head(results).op = "read"
    BY DEF ReadBackup, RestoreTable, Unchanged
  <1>2. OnlyLogs(queue, results')
    BY <1>1, TakenFirst, LookingTake
  <1>3. queue = <<>>
    BY <1>2 DEF OnlyLogs, TypeOK
  <1> DEFINE v == Head(results).table
             p == <<EraseReq(0), TableReq(0, v), ReadReq(0)>>
  <1>4. \A b : EraseReq(b).op = "erase" /\ TableReq(b, v).op = "table"
               /\ ReadReq(b).op = "read" /\ ReadReq(b).block = b
    BY DEF EraseReq, TableReq, ReadReq
  <1> HIDE DEF v
  <1>5. CASE queue' = Append(queue, ReadReq(1))
    <2>1. Len(queue') = 1 /\ queue'[1] = ReadReq(1)
      BY <1>3, <1>5
    <2>2. \A i \in 1..1 : i = 1
      OBVIOUS
    <2>3. \A i \in 1..Len(queue') :
             /\ queue'[i].op # "data"
             /\ queue'[i].op = "read" => i = Len(queue') /\ queue'[i].block \in {0, 1}
      BY <1>4, <2>1, <2>2
    <2> QED
      BY <1>1, <1>2, <2>3, LookingAgain
  <1>6. CASE queue' = queue \o p
    <2>1. v \in TableBlock
      BY <1>1, FirstResult DEF v
    <2>2. p \in Seq(FlashReq) /\ Len(p) = 3
      BY <2>1, RestoreSeq
    <2>3. p[1] = EraseReq(0) /\ p[2] = TableReq(0, v) /\ p[3] = ReadReq(0)
      OBVIOUS
    <2> HIDE DEF p
    <2>4. queue' = p
      BY <1>3, <1>6, <2>2
    <2>5. \A i \in 1..3 : i = 1 \/ i = 2 \/ i = 3
      OBVIOUS
    <2>6. p[1].op = "erase" /\ p[2].op = "table" /\ p[3].op = "read" /\ p[3].block = 0
      BY <1>4, <2>3
    <2>7. \A i \in 1..3 : p[i].op # "data" /\ (p[i].op = "read" => i = 3 /\ p[i].block \in {0, 1})
      BY <2>5, <2>6
    <2>8. \A i \in 1..Len(queue') :
             /\ queue'[i].op # "data"
             /\ queue'[i].op = "read" => i = Len(queue') /\ queue'[i].block \in {0, 1}
      BY <2>2, <2>4, <2>7
    <2> QED
      BY <1>1, <1>2, <2>8, LookingAgain
  <1>7. queue' = Append(queue, ReadReq(1)) \/ queue' = queue \o p
    BY DEF ReadBackup, RestoreTable, v
  <1> QED
    BY <1>5, <1>6, <1>7

(* The steps of the controller, the log, and the results that the host has *)
(* no use for.                                                             *)
LEMMA OthersLooking ==
    ASSUME TypeOK, Looking(table, queue, results),
           \/ Execute \/ BadWrite \/ ExecuteLog
           \/ WriteResult \/ EraseResult \/ LogResult
    PROVE  Looking(table', queue', results')
  <1>1. CASE Execute \/ BadWrite
    <2>1. PICK x \in FlashResult : Added(results, results', x) /\ Did(queue[1], x)
      BY <1>1, Executed
    <2>2. Popped(queue, queue')
      BY <1>1, Executed
    <2> QED
      BY <2>1, <2>2, LookingPop DEF Did
  <1>2. CASE ExecuteLog
    <2>1. UNCHANGED <<table, queue>>
      BY <1>2 DEF ExecuteLog
    <2> QED
      BY <1>2, <2>1, LogAdded, LookingLog
  <1>3. CASE WriteResult \/ EraseResult \/ LogResult
    <2>1. results # <<>> /\ results' = Tail(results) /\ UNCHANGED <<table, queue>>
      BY <1>3 DEF WriteResult, EraseResult, LogResult, Unchanged
    <2> QED
      BY <2>1, TakenFirst, LookingTake
  <1> QED
    BY <1>1, <1>2, <1>3

LEMMA OthersOnlyLogs ==
    ASSUME TypeOK, OnlyLogs(queue, results),
           \/ Execute \/ BadWrite \/ ExecuteLog \/ WriteResult \/ EraseResult \/ LogResult
           \/ ReadBackup \/ RestoreTable \/ Dispatch
    PROVE  OnlyLogs(queue', results') /\ ~Dispatch
  <1>1. queue = <<>>
    BY DEF OnlyLogs, TypeOK
  <1>2. ~Execute /\ ~BadWrite
    BY <1>1 DEF Execute, BadWrite
  <1>3. results # <<>> => Head(results).op = "log"
    <2>1. results \in Seq(FlashResult)
      BY DEF TypeOK
    <2>2. results # <<>> => Head(results) = results[1] /\ 1 \in 1..Len(results)
      BY <2>1
    <2> QED
      BY <2>2 DEF OnlyLogs
  <1>4. ~WriteResult /\ ~EraseResult /\ ~ReadBackup /\ ~RestoreTable /\ ~Dispatch
    BY <1>3 DEF WriteResult, EraseResult, ReadBackup, RestoreTable, Dispatch
  <1>5. CASE ExecuteLog
    <2>1. UNCHANGED queue
      BY <1>5 DEF ExecuteLog
    <2>2. PICK x \in FlashResult : Added(results, results', x) /\ x.op = "log"
      BY <1>5, LogAdded
    <2> QED
      BY <1>4, <2>1, <2>2 DEF OnlyLogs, Added
  <1>6. CASE LogResult
    <2>1. results # <<>> /\ results' = Tail(results) /\ UNCHANGED queue
      BY <1>6 DEF LogResult
    <2>2. Popped(results, results')
      BY <2>1, TakenFirst
    <2> QED
      BY <1>4, <2>1, <2>2 DEF OnlyLogs, Popped
  <1> QED
    BY <1>2, <1>4, <1>5, <1>6
-----------------------------------------------------------------------------
(* A get.                                                                  *)

LEMMA BlockPop ==
    ASSUME NEW q, NEW q2, Popped(q, q2), NEW rs, NEW rs2, NEW x, Added(rs, rs2, x),
           NEW b, NEW d, BlockUnderWay(b, d, q, rs),
           x.op = "read", x.block = b, x.content = d[b]
    PROVE  BlockUnderWay(b, d, q2, rs2)
  <1>1. Len(q) = 1 /\ Len(q2) = 0
    <2>1. Len(q) \in Nat /\ 1 \in 1..Len(q) /\ Len(q2) = Len(q) - 1
      BY DEF Popped
    <2>2. Len(q) \in {0, 1}
      BY DEF BlockUnderWay
    <2> QED
      BY <2>1, <2>2
  <1>2. \A k \in 1..Len(rs) : rs[k].op = "log"
    BY <1>1 DEF BlockUnderWay
  <1>3. \A k \in 1..Len(rs2) : rs2[k].op = "read" => k = Len(rs) + 1
    BY <1>2 DEF Added
  <1>4. rs2[Len(rs) + 1] = x /\ \A k \in 1..Len(rs2) : rs2[k].op \in {"read", "log"}
    BY <1>2 DEF Added
  <1> QED
    BY <1>1, <1>3, <1>4 DEF BlockUnderWay

LEMMA BlockLog ==
    ASSUME NEW q, NEW rs, NEW rs2, NEW x, Added(rs, rs2, x), x.op = "log",
           NEW b, NEW d, BlockUnderWay(b, d, q, rs)
    PROVE  BlockUnderWay(b, d, q, rs2)
  <1>1. \A k \in 1..Len(rs2) : rs2[k].op # "log" => k \in 1..Len(rs) /\ rs2[k] = rs[k]
    BY DEF Added
  <1> QED
    BY <1>1 DEF BlockUnderWay

LEMMA BlockTake ==
    ASSUME NEW q, NEW rs, NEW rs2, Popped(rs, rs2), NEW b, NEW d, BlockUnderWay(b, d, q, rs)
    PROVE  /\ BlockUnderWay(b, d, q, rs2) /\ rs[1].op \in {"read", "log"}
           /\ rs[1].op = "read" => /\ OnlyLogs(q, rs2)
                                   /\ rs[1].block = b /\ rs[1].content = d[b]
  <1>1. /\ 1 \in 1..Len(rs)
        /\ \A k \in 1..Len(rs2) : /\ k \in Nat /\ k + 1 \in 1..Len(rs) /\ rs2[k] = rs[k + 1]
                                  /\ k + 1 # 1
    BY DEF Popped
  <1>2. \A k, l \in 1..Len(rs2) : k + 1 = l + 1 => k = l
    OBVIOUS
  <1>3. \A k, l \in 1..Len(rs2) : (rs2[k].op = "read" /\ rs2[l].op = "read") => k = l
    BY <1>1, <1>2 DEF BlockUnderWay
  <1>4. BlockUnderWay(b, d, q, rs2)
    BY <1>1, <1>3 DEF BlockUnderWay
  <1>5. ASSUME rs[1].op = "read" PROVE OnlyLogs(q, rs2)
    <2>1. Len(q) = 0
      BY <1>1, <1>5 DEF BlockUnderWay
    <2>2. ASSUME NEW k \in 1..Len(rs2) PROVE rs2[k].op = "log"
      <3>1. k + 1 \in 1..Len(rs) /\ rs2[k] = rs[k + 1] /\ k + 1 # 1
        BY <1>1
      <3>2. rs[k + 1].op # "read"
        BY <1>1, <1>5, <3>1 DEF BlockUnderWay
      <3> QED
        BY <3>1, <3>2 DEF BlockUnderWay
    <2> QED
      BY <2>1, <2>2 DEF OnlyLogs
  <1> QED
    BY <1>1, <1>4, <1>5 DEF BlockUnderWay

LEMMA FetchingKept ==
    ASSUME Fetching, UNCHANGED <<curFilelength, curFilestart, cur, table, data, hostFile, flashAddr>>,
           BlockUnderWay(curFilestart + curFilelength, data, queue', results')
    PROVE  Fetching'
  BY DEF Fetching, Effective, SelectedEntry

LEMMA FetchedBlock ==
    ASSUME TypeOK, Fetching
    PROVE  /\ curFilestart \in Nat /\ curFilelength \in Nat /\ cur.size \in Nat
           /\ curFilestart + curFilelength \in DataBlocks
           /\ curFilestart + curFilelength \in Nat
           /\ curFilestart + curFilelength >= 4
  <1>1. curFilestart \in Nat /\ curFilelength \in Nat /\ cur.size \in Nat
    BY DEF TypeOK
  <1>2. curFilelength < cur.size
    BY DEF Fetching
  <1>3. curFilestart + curFilelength \in curFilestart..(curFilestart + cur.size - 1)
    BY <1>1, <1>2
  <1>4. curFilestart + curFilelength \in DataBlocks
    BY <1>3 DEF Fetching
  <1> QED
    BY <1>1, <1>4, Blocks DEF DataBlocks

LEMMA OthersFetching ==
    ASSUME TypeOK, Fetching,
           \/ Execute \/ BadWrite \/ ExecuteLog
           \/ WriteResult \/ EraseResult \/ LogResult \/ ReadBackup \/ RestoreTable
    PROVE  Fetching'
  <1> DEFINE b == curFilestart + curFilelength
  <1>1. b \in DataBlocks /\ b \in Nat /\ b >= 4
    BY FetchedBlock
  <1>2. BlockUnderWay(b, data, queue, results)
    BY DEF Fetching
  <1> HIDE DEF b
  <1>3. CASE Execute \/ BadWrite
    <2>1. PICK x \in FlashResult : Added(results, results', x) /\ Did(queue[1], x)
      BY <1>3, Executed
    <2>2. Popped(queue, queue')
      BY <1>3, Executed
    <2>3. queue[1] = ReadReq(b)
      <3>1. Len(queue) \in {0, 1} /\ Len(queue) # 0
        BY <1>2, <2>2 DEF Popped, BlockUnderWay
      <3> QED
        BY <1>2, <3>1 DEF BlockUnderWay
    <2>4. queue[1].op = "read" /\ queue[1].block = b
      BY <2>3 DEF ReadReq
    <2>5. x.op = "read" /\ x.block = b /\ x.content = data[b] /\ UNCHANGED <<table, data>>
      BY <1>1, <2>1, <2>4 DEF Did
    <2>6. BlockUnderWay(b, data, queue', results')
      BY <1>2, <2>1, <2>2, <2>5, BlockPop
    <2>7. UNCHANGED <<curFilelength, curFilestart, cur, hostFile, flashAddr>>
      BY <1>3 DEF Execute, BadWrite, hostVars
    <2> QED
      BY <2>5, <2>6, <2>7, FetchingKept DEF b
  <1>4. CASE ExecuteLog
    <2>1. UNCHANGED <<curFilelength, curFilestart, cur, table, data, hostFile, flashAddr, queue>>
      BY <1>4 DEF ExecuteLog
    <2>2. BlockUnderWay(b, data, queue', results')
      BY <1>2, <1>4, <2>1, LogAdded, BlockLog
    <2> QED
      BY <2>1, <2>2, FetchingKept DEF b
  <1>5. CASE WriteResult \/ EraseResult \/ LogResult \/ ReadBackup \/ RestoreTable
    <2>1. results # <<>> /\ results' = Tail(results)
      BY <1>5 DEF WriteResult, EraseResult, LogResult, ReadBackup, RestoreTable
    <2>2. /\ BlockUnderWay(b, data, queue, results') /\ Head(results).op \in {"read", "log"}
          /\ Head(results).op = "read" => Head(results).block = b
      <3>1. Popped(results, results') /\ Head(results) = results[1]
        BY <2>1, TakenFirst
      <3>2. /\ BlockUnderWay(b, data, queue, results') /\ results[1].op \in {"read", "log"}
            /\ results[1].op = "read" => results[1].block = b
        BY <1>2, <3>1, BlockTake
      <3> QED
        BY <3>1, <3>2
    <2>3. LogResult
      BY <1>1, <1>5, <2>2 DEF WriteResult, EraseResult, ReadBackup, RestoreTable
    <2>4. UNCHANGED <<curFilelength, curFilestart, cur, table, data, hostFile, flashAddr, queue>>
      BY <2>3 DEF LogResult, Unchanged
    <2> QED
      BY <2>2, <2>4, FetchingKept DEF b
  <1> QED
    BY <1>3, <1>4, <1>5

(* The table has been found, and the first block is asked for.             *)
LEMMA GetBegins ==
    ASSUME TypeOK, TablesFit, state = "GET_FILE", hostFile = <<>>, OnlyLogs(queue, results'),
           UNCHANGED <<table, data, hostFile>>,
           NEW x, x.magic => x = table[0], GetFileTable(x), state' = "GET_FILE", queue' # queue
    PROVE  Fetching'
  <1>1. PICK i \in SelectedEntry(x.entries) :
             /\ ~isEmpty(x.entries[i])
             /\ x.entries[i].len > 0
             /\ queue' = Append(queue, ReadReq(x.entries[i].start))
             /\ cur' = [cur EXCEPT !.size = x.entries[i].len]
             /\ curFilestart' = x.entries[i].start
             /\ flashAddr' = IF x.entries[i].len = 1 THEN 0 ELSE x.entries[i].start + 1
    BY DEF GetFileTable
  <1>2. curFilelength' = 0 /\ x.magic
    BY DEF GetFileTable
  <1>3. x = table[0] /\ Effective = x /\ Effective' = x
    BY <1>2 DEF Effective
  <1>4. x \in TableBlock /\ InFlash(x.entries)
    BY <1>3 DEF TypeOK, TablesFit
  <1>5. i \in Slot
    BY SelectedSlots
  <1> DEFINE e == x.entries[i]
  <1>6. e.start \in Nat /\ e.len \in Nat
    BY <1>4, <1>5, BlockType DEF Table, Entry
  <1>7. EntryBlocks(e) \subseteq DataBlocks
    BY <1>4, <1>5 DEF InFlash
  <1>8. e.start..(e.start + e.len - 1) \subseteq DataBlocks
    BY <1>1, <1>7 DEF EntryBlocks
  <1>9. /\ e.len > 0 /\ queue' = Append(queue, ReadReq(e.start)) /\ cur'.size = e.len
        /\ curFilestart' = e.start /\ flashAddr' = IF e.len = 1 THEN 0 ELSE e.start + 1
        /\ cur'.name = cur.name /\ cur'.index = cur.index
    BY <1>1 DEF TypeOK
  <1>10. i \in Selected(x.entries, cur'.index, cur'.name)
    BY <1>9 DEF SelectedEntry
  <1>11. x.entries[i] = e
    OBVIOUS
  <1> HIDE DEF e
  <1>12. queue = <<>>
    BY DEF OnlyLogs, TypeOK
  <1>13. Len(queue') = 1 /\ queue'[1] = ReadReq(e.start)
    BY <1>9, <1>12
  <1>14. e.start + 0 = e.start /\ 0 + 1 = 1
    BY <1>6
  <1>15. BlockUnderWay(e.start, data, queue', results')
    BY <1>13 DEF BlockUnderWay, OnlyLogs
  <1>16. hostFile' = [k \in 1..0 |-> data'[curFilestart' + k - 1]]
    OBVIOUS
  <1>17. curFilelength' < cur'.size
    BY <1>2, <1>6, <1>9
  <1>18. flashAddr' = IF curFilelength' + 1 = cur'.size THEN 0
                      ELSE curFilestart' + curFilelength' + 1
    BY <1>2, <1>6, <1>9, <1>14
  <1>19. curFilestart' + curFilelength' = e.start
    BY <1>2, <1>9, <1>14
  <1>20. BlockUnderWay(curFilestart' + curFilelength', data', queue', results')
    BY <1>15, <1>19
  <1>21. curFilestart'..(curFilestart' + cur'.size - 1) \subseteq DataBlocks
    BY <1>8, <1>9
  <1>22. \E j \in SelectedEntry(Effective.entries)' :
            Effective'.entries[j].start = curFilestart' /\ Effective'.entries[j].len = cur'.size
    BY <1>3, <1>9, <1>10, <1>11 DEF SelectedEntry
  <1>23. hostFile' = [k \in 1..curFilelength' |-> data'[curFilestart' + k - 1]]
    BY <1>2, <1>16
  <1> QED
    BY <1>17, <1>18, <1>20, <1>21, <1>22, <1>23 DEF Fetching

(* A block has arrived: it goes behind those that the host has.            *)
LEMMA GetContinues ==
    ASSUME TypeOK, Fetching, state = "GET_FILE", NEW b, b = curFilestart + curFilelength,
           GetFileData(b, data[b]), OnlyLogs(queue, results'),
           UNCHANGED <<cur, curFilestart, table, data>>
    PROVE  /\ hostFile' = [k \in 1..(curFilelength + 1) |-> data[curFilestart + k - 1]]
           /\ curFilelength + 1 # cur.size => Fetching' /\ UNCHANGED reported
  <1> DEFINE n == curFilelength
             g == [k \in 1..(n + 1) |-> data[curFilestart + k - 1]]
  <1>1. /\ curFilestart \in Nat /\ n \in Nat /\ cur.size \in Nat
        /\ b \in DataBlocks /\ b \in Nat /\ b >= 4
    BY FetchedBlock
  <1>2. hostFile = [k \in 1..n |-> data[curFilestart + k - 1]] /\ n < cur.size
    BY DEF Fetching
  <1>3. Len(hostFile) = n
    BY <1>1, <1>2
  <1>4. b # NoBytes /\ b - curFilestart = n /\ n \in 0..n
    BY <1>1 DEF NoBytes
  <1>5. hostFile' = [k \in 1..(n + 1) |-> IF k = n + 1 THEN data[b] ELSE hostFile[k]]
    BY <1>3, <1>4 DEF GetFileData
  <1>6. \A k \in 1..(n + 1) : (IF k = n + 1 THEN data[b] ELSE hostFile[k])
                                = data[curFilestart + k - 1]
    <2>1. \A k \in 1..(n + 1) : k # n + 1 => k \in 1..n
      BY <1>1
    <2>2. b = curFilestart + (n + 1) - 1
      BY <1>1
    <2>3. \A k \in 1..n : hostFile[k] = data[curFilestart + k - 1]
      BY <1>2
    <2> QED
      BY <2>1, <2>2, <2>3
  <1>7. hostFile' = g
    BY <1>5, <1>6
  <1>8. ASSUME n + 1 # cur.size PROVE Fetching' /\ UNCHANGED reported
    <2>1. /\ flashAddr = b + 1
      BY <1>8 DEF Fetching
    <2>2. b + 1 # 0 /\ b + 1 \in Nat
      BY <1>1
    <2>3. /\ curFilelength' = n + 1
          /\ queue' = Append(queue, ReadReq(b + 1))
          /\ flashAddr' = IF (b + 1) + 1 = curFilestart + cur.size THEN 0 ELSE (b + 1) + 1
          /\ UNCHANGED reported
      BY <1>4, <1>8, <2>1, <2>2 DEF GetFileData, GetDone
    <2>4. queue = <<>>
      BY DEF OnlyLogs, TypeOK
    <2>5. Len(queue') = 1 /\ queue'[1] = ReadReq(b + 1)
      BY <2>3, <2>4
    <2>6. BlockUnderWay(b + 1, data, queue', results')
      BY <2>5 DEF BlockUnderWay, OnlyLogs
    <2>7. curFilestart' + curFilelength' = b + 1
      BY <1>1, <2>3
    <2>8. curFilelength' < cur'.size
      BY <1>1, <1>2, <1>8, <2>3
    <2>9. flashAddr' = IF curFilelength' + 1 = cur'.size THEN 0
                       ELSE curFilestart' + curFilelength' + 1
      <3>1. (b + 1) + 1 = curFilestart + cur.size <=> (n + 1) + 1 = cur.size
        BY <1>1
      <3> QED
        BY <2>3, <2>7, <3>1
    <2>10. BlockUnderWay(curFilestart' + curFilelength', data', queue', results')
      BY <2>6, <2>7
    <2>11. hostFile' = [k \in 1..curFilelength' |-> data'[curFilestart' + k - 1]]
      BY <1>7, <2>3
    <2> QED
      BY <2>3, <2>8, <2>9, <2>10, <2>11 DEF Fetching, Effective, SelectedEntry
  <1> QED
    BY <1>7, <1>8

(* The handlers of a get.                                                  *)
LEMMA GetHandles ==
    ASSUME TypeOK, TablesFit, GetSound, overlap = "none", state = "GET_FILE", Dispatch
    PROVE  /\ \/ Looking(table', queue', results') /\ hostFile' = <<>>
              \/ Fetching'
              \/ OnlyLogs(queue', results')
              \/ state' = "USER"
           /\ (reported' # reported /\ reported'.kind = "got") =>
                 \E i \in SelectedEntry(Effective.entries) :
                    LET e == Effective.entries[i]
                    IN hostFile' = [k \in 1..e.len |-> data[e.start + k - 1]]
  <1> DEFINE r == Head(results)
             blk == IF r.block = 1 THEN 0 ELSE r.block
             Goal1 == \/ Looking(table', queue', results') /\ hostFile' = <<>>
                      \/ Fetching'
                      \/ OnlyLogs(queue', results')
                      \/ state' = "USER"
  <1>1. /\ results # <<>> /\ r.op = "read" /\ results' = Tail(results)
        /\ r.block = 0 => retry \/ r.table.magic
        /\ r.block = 1 => ~r.table.magic
        /\ UNCHANGED <<table, data>>
    BY DEF Dispatch
  <1>2. \/ blk = 0 /\ GetFileTable(r.table) /\ UNCHANGED <<hostFile, faults>>
        \/ /\ blk # 0
           /\ GetFileData(blk, r.content)
           /\ UNCHANGED <<cur, curFilestart, faults>>
        \/ GetHostFile(blk) /\ UNCHANGED <<cur, curFilestart>>
    BY DEF Dispatch
  <1>3. Popped(results, results') /\ r = results[1]
    BY <1>1, TakenFirst
  <1>4. ~OnlyLogs(queue, results)
    BY OthersOnlyLogs
  <1>5. CASE Looking(table, queue, results) /\ hostFile = <<>>
    <2>1. /\ Looking(table, queue, results') /\ OnlyLogs(queue, results')
          /\ r.block \in {0, 1} /\ r.table = table[r.block]
      <3>1. /\ Looking(table, queue, results')
            /\ results[1].op = "read" =>
                  /\ OnlyLogs(queue, results') /\ results[1].block \in {0, 1}
                  /\ results[1].table = table[results[1].block]
        BY <1>3, <1>5, LookingTake
      <3> QED
        BY <1>1, <1>3, <3>1
    <2>2. blk = 0
      BY <2>1
    <2>3. GetFileTable(r.table) /\ UNCHANGED hostFile
      BY <1>2, <2>2 DEF GetHostFile
    <2>4. r.table.magic => r.table = table[0]
      BY <1>1, <2>1
    <2> HIDE DEF r, blk
    <2>5. ~(reported' # reported /\ reported'.kind = "got")
      BY <2>3 DEF GetFileTable, Close
    <2>6. CASE queue' = queue
      BY <1>1, <1>5, <2>1, <2>3, <2>5, <2>6
    <2>7. CASE queue' # queue
      <3>1. state' = "GET_FILE"
        BY <2>3, <2>7 DEF GetFileTable
      <3>2. Fetching'
        BY <1>1, <1>5, <2>1, <2>3, <2>4, <2>7, <3>1, GetBegins
      <3> QED
        BY <2>5, <3>2
    <2> QED
      BY <2>6, <2>7
  <1>6. CASE Fetching
    <2> DEFINE b == curFilestart + curFilelength
    <2>1. b \in DataBlocks /\ b \in Nat /\ b >= 4
      BY <1>6, FetchedBlock
    <2>2. BlockUnderWay(b, data, queue, results)
      BY <1>6 DEF Fetching
    <2>3. OnlyLogs(queue, results') /\ r.block = b /\ r.content = data[b]
      <3> HIDE DEF b
      <3>1. results[1].op = "read" => /\ OnlyLogs(queue, results')
                                      /\ results[1].block = b /\ results[1].content = data[b]
        BY <1>3, <2>2, BlockTake
      <3> QED
        BY <1>1, <1>3, <3>1
    <2>4. blk = b /\ blk # 0
      BY <2>1, <2>3
    <2>5. b = curFilestart + curFilelength
      OBVIOUS
    <2> HIDE DEF r, blk, b
    <2>6. CASE GetHostFile(blk)
      <3>1. UNCHANGED queue /\ ~(reported' # reported /\ reported'.kind = "got")
        BY <2>6 DEF GetHostFile, Close
      <3> QED
        BY <2>3, <3>1
    <2>7. CASE GetFileData(blk, r.content) /\ UNCHANGED <<cur, curFilestart>>
      <3>1. GetFileData(b, data[b])
        BY <2>3, <2>4, <2>7
      <3>2. /\ hostFile' = [k \in 1..(curFilelength + 1) |-> data[curFilestart + k - 1]]
            /\ curFilelength + 1 # cur.size => Fetching' /\ UNCHANGED reported
        BY <1>1, <1>6, <2>3, <2>5, <2>7, <3>1, GetContinues
      <3>3. CASE curFilelength + 1 # cur.size
        BY <3>2, <3>3
      <3>4. CASE curFilelength + 1 = cur.size
        <4>1. b # NoBytes
          BY <2>1 DEF NoBytes
        <4>2. state' = "USER"
          BY <3>1, <3>4, <4>1 DEF GetFileData, GetDone
        <4>3. PICK i \in SelectedEntry(Effective.entries) :
                 /\ Effective.entries[i].start = curFilestart
                 /\ Effective.entries[i].len = cur.size
          BY <1>6 DEF Fetching
        <4>4. hostFile' = [k \in 1..Effective.entries[i].len |->
                             data[Effective.entries[i].start + k - 1]]
          BY <3>2, <3>4, <4>3
        <4> QED
          BY <4>2, <4>3, <4>4
      <3> QED
        BY <3>3, <3>4
    <2> QED
      BY <1>2, <2>4, <2>6, <2>7
  <1> QED
    BY <1>4, <1>5, <1>6 DEF GetSound

LEMMA GetSoundNext ==
    ASSUME TypeOK, TablesFit, GetSound, [Next]_vars
    PROVE  GetSound'
  <1> SUFFICES ASSUME overlap' = "none", state' = "GET_FILE"
               PROVE  \/ Looking(table', queue', results') /\ hostFile' = <<>>
                      \/ Fetching'
                      \/ OnlyLogs(queue', results')
    BY DEF GetSound
  <1>1. CASE HostRequest
    <2>1. PICK n, index : GetFile(n, index)
      BY <1>1 DEF HostRequest, GetPartitiontable, PutLog, DeleteFile, PutFile, Begin
    <2>2. /\ \E kind : Begin(kind, "GET_FILE")
          /\ UNCHANGED <<table, results>> /\ hostFile' = <<>>
      BY <2>1 DEF GetFile
    <2> QED
      BY <2>2, BeginLooking
  <1>2. CASE ~HostRequest
    <2>1. overlap = "none" /\ state = "GET_FILE"
      BY <1>2, StepKeeps
    <2>2. \/ Looking(table, queue, results) /\ hostFile = <<>>
          \/ Fetching
          \/ OnlyLogs(queue, results)
      BY <2>1 DEF GetSound
    <2>3. CASE \/ Execute \/ BadWrite \/ ExecuteLog
               \/ WriteResult \/ EraseResult \/ LogResult \/ ReadBackup \/ RestoreTable
      <3>1. UNCHANGED hostFile
        BY <2>3 DEF Execute, BadWrite, ExecuteLog, WriteResult, EraseResult, LogResult,
                    ReadBackup, RestoreTable, hostVars
      <3>2. CASE Looking(table, queue, results) /\ hostFile = <<>>
        BY <2>3, <3>1, <3>2, OthersLooking, BackupLooking
      <3>3. CASE Fetching
        BY <2>3, <3>3, OthersFetching
      <3>4. CASE OnlyLogs(queue, results)
        BY <2>3, <3>4, OthersOnlyLogs
      <3> QED
        BY <2>2, <3>2, <3>3, <3>4
    <2>4. CASE Dispatch
      BY <2>1, <2>4, GetHandles
    <2>5. CASE Crash \/ CrashInWrite \/ ToggleError
      BY <2>5 DEF Crash, CrashInWrite, ToggleError, Restart
    <2>6. CASE UNCHANGED vars
      BY <2>2, <2>6 DEF vars, hostVars, Looking, Fetching, OnlyLogs, Effective, SelectedEntry
    <2> QED
      BY <1>2, <2>3, <2>4, <2>5, <2>6 DEF Next, HostResult, Fault
  <1> QED
    BY <1>1, <1>2
-----------------------------------------------------------------------------
(* A put.                                                                  *)

LEMMA StoreQueuePop ==
    ASSUME NEW f, NEW t, NEW q, NEW q2, Popped(q, q2), PutQueue(f, t, q)
    PROVE  PutQueue(f, t, q2)
  <1>1. /\ Len(q) \in Nat /\ Len(q2) = Len(q) - 1
        /\ \A i \in 1..Len(q2) : i + 1 \in 1..Len(q) /\ q2[i] = q[i + 1]
        /\ \A i \in 1..Len(q) : i # 1 => i - 1 \in 1..Len(q2) /\ q2[i - 1] = q[i]
    BY DEF Popped
  <1> SUFFICES ASSUME NEW i \in 1..Len(q2)
               PROVE  /\ q2[i].op # "read"
                      /\ q2[i].op = "data" =>
                            q2[i].block \in FileArea(f) /\ q2[i].content = Content(f, q2[i].block)
                      /\ (q2[i].op = "erase" /\ q2[i].block \in FileArea(f)) =>
                            \E j \in 1..Len(q2) : /\ i < j /\ q2[j].op = "data"
                                                  /\ q2[j].block = q2[i].block
                      /\ q2[i].op = "table" => q2[i].block \in {0, 1}
                      /\ (q2[i].op = "table" /\ q2[i].block = 0) => i = Len(q2) /\ q2[i].table = t
                      /\ \A j \in 1..Len(q2) :
                            (i < j /\ q2[i].op = "data" /\ q2[j].op = "data") =>
                                q2[i].block < q2[j].block
    BY DEF PutQueue
  <1> DEFINE m == i + 1
  <1>2. m \in 1..Len(q) /\ q2[i] = q[m] /\ i \in Nat
    BY <1>1
  <1>3. m = Len(q) => i = Len(q2)
    BY <1>1
  <1>4. ASSUME NEW j \in 1..Len(q), m < j PROVE j - 1 \in 1..Len(q2) /\ q2[j - 1] = q[j] /\ i < j - 1
    <2>1. j # 1 /\ i < j - 1
      BY <1>2, <1>4
    <2> QED
      BY <1>1, <2>1
  <1>5. \A j \in 1..Len(q2) : i < j => m < j + 1
    BY <1>1
  <1> HIDE DEF m
  <1>6. (q2[i].op = "erase" /\ q2[i].block \in FileArea(f)) =>
            \E j \in 1..Len(q2) : i < j /\ q2[j].op = "data" /\ q2[j].block = q2[i].block
    <2> SUFFICES ASSUME q[m].op = "erase", q[m].block \in FileArea(f)
                 PROVE  \E j \in 1..Len(q2) : i < j /\ q2[j].op = "data" /\ q2[j].block = q[m].block
      BY <1>2
    <2>1. PICK j \in 1..Len(q) : m < j /\ q[j].op = "data" /\ q[j].block = q[m].block
      BY <1>2 DEF PutQueue
    <2>2. j - 1 \in 1..Len(q2) /\ q2[j - 1] = q[j] /\ i < j - 1
      BY <1>4, <2>1
    <2> QED
      BY <2>1, <2>2
  <1>7. \A j \in 1..Len(q2) :
           (i < j /\ q2[i].op = "data" /\ q2[j].op = "data") => q2[i].block < q2[j].block
    BY <1>1, <1>2, <1>5 DEF PutQueue
  <1>8. /\ q[m].op # "read"
        /\ q[m].op = "data" =>
              q[m].block \in FileArea(f) /\ q[m].content = Content(f, q[m].block)
        /\ q[m].op = "table" => q[m].block \in {0, 1}
        /\ (q[m].op = "table" /\ q[m].block = 0) => m = Len(q) /\ q[m].table = t
    BY <1>2 DEF PutQueue
  <1> QED
    BY <1>2, <1>3, <1>6, <1>7, <1>8

(* What is waiting when the first request has become a result.             *)
LEMMA WaitingPop ==
    ASSUME NEW q, NEW q2, Popped(q, q2), NEW rs, NEW rs2, NEW x, Added(rs, rs2, x),
           x.op = q[1].op, x.block = q[1].block, NEW b
    PROVE  /\ Waiting(b, q2) \/ Waiting(b, rs2) => Waiting(b, q) \/ Waiting(b, rs)
           /\ Waiting(b, q) => Waiting(b, q2) \/ (q[1].op = "data" /\ q[1].block = b)
  <1>1. /\ 1 \in 1..Len(q)
        /\ \A i \in 1..Len(q2) : i + 1 \in 1..Len(q) /\ q2[i] = q[i + 1]
        /\ \A i \in 1..Len(q) : i # 1 => i - 1 \in 1..Len(q2) /\ q2[i - 1] = q[i]
    BY DEF Popped
  <1>2. Waiting(b, q2) => Waiting(b, q)
    BY <1>1 DEF Waiting
  <1>3. Waiting(b, rs2) => Waiting(b, q) \/ Waiting(b, rs)
    BY <1>1 DEF Waiting, Added
  <1>4. Waiting(b, q) => Waiting(b, q2) \/ (q[1].op = "data" /\ q[1].block = b)
    BY <1>1 DEF Waiting
  <1> QED
    BY <1>2, <1>3, <1>4

LEMMA AreaFacts ==
    ASSUME NEW f, f.start \in Nat, f.len \in Nat
    PROVE  \A b \in FileArea(f) : /\ b \in Nat /\ b - f.start \in Nat /\ b - f.start < f.len
                                  /\ b - f.start >= 0
  BY DEF FileArea

LEMMA StoreCountPop ==
    ASSUME NEW f, f.start \in Nat, f.len \in Nat, FileArea(f) \subseteq DataBlocks, NEW t,
           NEW q, NEW q2, Popped(q, q2), NEW rs, NEW rs2, NEW x, Added(rs, rs2, x),
           x.op = q[1].op, x.block = q[1].block,
           NEW d, NEW d2, Applied(q[1], d, d2), NEW len \in Nat,
           PutQueue(f, t, q), StoreCount(f, d, q, rs, len)
    PROVE  StoreCount(f, d2, q2, rs2, len)
  <1>1. \A b : /\ Waiting(b, q2) \/ Waiting(b, rs2) => Waiting(b, q) \/ Waiting(b, rs)
               /\ Waiting(b, q) => Waiting(b, q2) \/ (q[1].op = "data" /\ q[1].block = b)
    BY WaitingPop
  <1>2. /\ len <= f.len
        /\ \A b \in FileArea(f) : Waiting(b, q2) \/ Waiting(b, rs2) => len <= b - f.start
    BY <1>1 DEF StoreCount
  <1>3. ASSUME NEW b \in FileArea(f), ~Waiting(b, q2), d2[b] # Content(f, b)
        PROVE  /\ len < f.len
               /\ \A c \in FileArea(f) :
                     (b < c /\ (Waiting(c, q2) \/ Waiting(c, rs2))) => len < c - f.start
    <2>1. CASE q[1].op = "data" /\ q[1].block = b
      <3>1. Waiting(b, q)
        BY <2>1 DEF Waiting, Popped
      <3>2. len <= b - f.start
        BY <3>1 DEF StoreCount
      <3>3. b \in Int /\ b - f.start < f.len /\ \A c \in FileArea(f) : c \in Int
        BY AreaFacts
      <3> QED
        BY <3>2, <3>3
    <2>2. CASE ~(q[1].op = "data" /\ q[1].block = b)
      <3>1. ~Waiting(b, q)
        BY <1>1, <1>3, <2>2
      <3>2. ~(q[1].op = "erase" /\ q[1].block = b)
        <4> SUFFICES ASSUME q[1].op = "erase", q[1].block = b PROVE FALSE
          OBVIOUS
        <4>1. 1 \in 1..Len(q)
          BY DEF Popped
        <4>2. \E j \in 1..Len(q) : q[j].op = "data" /\ q[j].block = b
          BY <4>1 DEF PutQueue
        <4> QED
          BY <3>1, <4>2 DEF Waiting
      <3>3. ~Hits(q[1], b) /\ b \in DataBlocks
        BY <2>2, <3>2 DEF Hits
      <3>4. d2[b] = d[b]
        BY <3>3 DEF Applied
      <3> QED
        BY <1>1, <1>3, <3>1, <3>4 DEF StoreCount
    <2> QED
      BY <2>1, <2>2
  <1> QED
    BY <1>2, <1>3 DEF StoreCount

LEMMA StoreResultsPop ==
    ASSUME NEW f, f.start \in Nat, f.len \in Nat, FileArea(f) \subseteq DataBlocks, NEW t,
           NEW q, NEW q2, Popped(q, q2), NEW rs, NEW rs2, NEW x, Added(rs, rs2, x),
           x.op = q[1].op, x.block = q[1].block,
           NEW d, NEW d2, Applied(q[1], d, d2), NEW tb, NEW tb2,
           (q[1].op = "data" /\ q[1].block \in DataBlocks /\ x.ok) => d2[q[1].block] = q[1].content,
           (q[1].op = "table" /\ q[1].block = 0 /\ x.ok) => tb2[0] = q[1].table,
           PutQueue(f, t, q), StoreResults(f, t, tb, d, q, rs)
    PROVE  StoreResults(f, t, tb2, d2, q2, rs2)
  <1>1. /\ 1 \in 1..Len(q) /\ Len(q) # 0 /\ (1 = Len(q) => Len(q2) = 0)
        /\ \A i \in 1..Len(q2) : i + 1 \in 1..Len(q) /\ q2[i] = q[i + 1] /\ 1 < i + 1
    BY DEF Popped
  <1>2. /\ rs2[Len(rs) + 1] = x
        /\ \A k \in 1..Len(rs2) : k \in 1..Len(rs) \/ (k = Len(rs) + 1 /\ k \notin 1..Len(rs))
        /\ \A k \in 1..Len(rs) : rs2[k] = rs[k]
        /\ \A l \in 1..Len(rs2) : ~(Len(rs) + 1 < l)
    BY DEF Added
  <1>3. \A b \in FileArea(f) : b \in Nat /\ b \in DataBlocks
    BY AreaFacts
  <1>4. ASSUME NEW k \in 1..Len(rs)
        PROVE  /\ rs[k].op # "read"
               /\ rs[k].op = "data" =>
                     /\ rs[k].block \in FileArea(f)
                     /\ rs[k].ok => d2[rs[k].block] = Content(f, rs[k].block)
                     /\ \A l \in 1..Len(rs2) :
                           (k < l /\ rs2[l].op = "data") => rs[k].block < rs2[l].block
                     /\ \A j \in 1..Len(q2) : q2[j].op = "data" => rs[k].block < q2[j].block
               /\ ~(rs[k].op = "table" /\ rs[k].block = 0)
    <2>1. rs[k].op # "read" /\ ~(rs[k].op = "table" /\ rs[k].block = 0)
      BY <1>1 DEF StoreResults
    <2>2. ASSUME rs[k].op = "data"
          PROVE  /\ rs[k].block \in FileArea(f)
                 /\ rs[k].ok => d2[rs[k].block] = Content(f, rs[k].block)
                 /\ \A l \in 1..Len(rs2) :
                       (k < l /\ rs2[l].op = "data") => rs[k].block < rs2[l].block
                 /\ \A j \in 1..Len(q2) : q2[j].op = "data" => rs[k].block < q2[j].block
      <3>1. /\ rs[k].block \in FileArea(f)
            /\ rs[k].ok => d[rs[k].block] = Content(f, rs[k].block)
            /\ \A l \in 1..Len(rs) : (k < l /\ rs[l].op = "data") => rs[k].block < rs[l].block
            /\ \A j \in 1..Len(q) : q[j].op = "data" => rs[k].block < q[j].block
        BY <2>2 DEF StoreResults
      <3>2. rs[k].block \in Nat /\ rs[k].block \in DataBlocks
        BY <1>3, <3>1
      <3>3. ~Hits(q[1], rs[k].block)
        <4> SUFFICES ASSUME q[1].op \in {"erase", "data"}, q[1].block = rs[k].block PROVE FALSE
          BY DEF Hits
        <4>1. \E j \in 1..Len(q) : q[j].op = "data" /\ q[j].block = rs[k].block
          BY <1>1, <3>1 DEF PutQueue
        <4> QED
          BY <3>1, <3>2, <4>1
      <3>4. d2[rs[k].block] = d[rs[k].block]
        BY <3>2, <3>3 DEF Applied
      <3>5. x.op = "data" => rs[k].block < x.block
        BY <1>1, <3>1
      <3>6. \A l \in 1..Len(rs2) : (k < l /\ rs2[l].op = "data") => rs[k].block < rs2[l].block
        BY <1>2, <3>1, <3>5
      <3>7. \A j \in 1..Len(q2) : q2[j].op = "data" => rs[k].block < q2[j].block
        BY <1>1, <3>1
      <3> QED
        BY <3>1, <3>4, <3>6, <3>7
    <2> QED
      BY <2>1, <2>2
  <1>5. /\ x.op # "read"
        /\ x.op = "data" =>
              /\ x.block \in FileArea(f)
              /\ x.ok => d2[x.block] = Content(f, x.block)
              /\ \A j \in 1..Len(q2) : q2[j].op = "data" => x.block < q2[j].block
        /\ (x.op = "table" /\ x.block = 0) => Len(q2) = 0 /\ (x.ok => tb2[0] = t)
    <2>1. /\ q[1].op # "read"
          /\ q[1].op = "data" =>
                q[1].block \in FileArea(f) /\ q[1].content = Content(f, q[1].block)
          /\ (q[1].op = "table" /\ q[1].block = 0) => 1 = Len(q) /\ q[1].table = t
          /\ \A j \in 1..Len(q) :
                (1 < j /\ q[1].op = "data" /\ q[j].op = "data") => q[1].block < q[j].block
      BY <1>1 DEF PutQueue
    <2>2. x.op = "data" => \A j \in 1..Len(q2) : q2[j].op = "data" => x.block < q2[j].block
      BY <1>1, <2>1
    <2> QED
      BY <1>1, <1>3, <2>1, <2>2
  <1>6. ASSUME NEW k \in 1..Len(rs2)
        PROVE  /\ rs2[k].op # "read"
               /\ rs2[k].op = "data" =>
                     /\ rs2[k].block \in FileArea(f)
                     /\ rs2[k].ok => d2[rs2[k].block] = Content(f, rs2[k].block)
                     /\ \A l \in 1..Len(rs2) :
                           (k < l /\ rs2[l].op = "data") => rs2[k].block < rs2[l].block
                     /\ \A j \in 1..Len(q2) : q2[j].op = "data" => rs2[k].block < q2[j].block
               /\ (rs2[k].op = "table" /\ rs2[k].block = 0) =>
                     /\ Len(q2) = 0
                     /\ \A l \in 1..Len(rs2) : k < l => rs2[l].op = "log"
                     /\ rs2[k].ok => tb2[0] = t
    <2>1. CASE k \in 1..Len(rs)
      BY <1>2, <1>4, <2>1
    <2>2. CASE k = Len(rs) + 1
      BY <1>2, <1>5, <2>2
    <2> QED
      BY <1>2, <2>1, <2>2
  <1> QED
    BY <1>6 DEF StoreResults

LEMMA StorePop ==
    ASSUME NEW f, f.start \in Nat, f.len \in Nat, NEW t,
           NEW q, NEW q2, Popped(q, q2), NEW rs, NEW rs2, NEW x, Added(rs, rs2, x),
           x.op = q[1].op, x.block = q[1].block,
           NEW d, NEW d2, Applied(q[1], d, d2), NEW tb, NEW tb2, NEW len \in Nat,
           (q[1].op = "data" /\ q[1].block \in DataBlocks /\ x.ok) => d2[q[1].block] = q[1].content,
           (q[1].op = "table" /\ q[1].block = 0 /\ x.ok) => tb2[0] = q[1].table,
           Storing(f, t, tb, d, q, rs, len)
    PROVE  Storing(f, t, tb2, d2, q2, rs2, len)
  <1>1. /\ FileArea(f) \subseteq DataBlocks /\ PutQueue(f, t, q)
        /\ StoreResults(f, t, tb, d, q, rs) /\ StoreCount(f, d, q, rs, len)
        /\ \E s \in Slot : t.entries[s] = f
    BY DEF Storing
  <1>2. PutQueue(f, t, q2)
    BY <1>1, StoreQueuePop
  <1>3. StoreResults(f, t, tb2, d2, q2, rs2)
    BY <1>1, StoreResultsPop
  <1>4. StoreCount(f, d2, q2, rs2, len)
    BY <1>1, StoreCountPop
  <1> QED
    BY <1>1, <1>2, <1>3, <1>4 DEF Storing

LEMMA StoreLog ==
    ASSUME NEW f, NEW t, NEW q, NEW rs, NEW rs2, NEW x, Added(rs, rs2, x), x.op = "log",
           NEW d, NEW tb, NEW len, Storing(f, t, tb, d, q, rs, len)
    PROVE  Storing(f, t, tb, d, q, rs2, len)
  <1>1. /\ FileArea(f) \subseteq DataBlocks /\ PutQueue(f, t, q)
        /\ StoreResults(f, t, tb, d, q, rs) /\ StoreCount(f, d, q, rs, len)
        /\ \E s \in Slot : t.entries[s] = f
    BY DEF Storing
  <1>2. \A k \in 1..Len(rs2) : rs2[k].op # "log" => k \in 1..Len(rs) /\ rs2[k] = rs[k]
    BY DEF Added
  <1>3. StoreResults(f, t, tb, d, q, rs2)
    BY <1>1, <1>2 DEF StoreResults
  <1>4. \A b : Waiting(b, rs2) => Waiting(b, rs)
    BY <1>2 DEF Waiting
  <1>5. StoreCount(f, d, q, rs2, len)
    BY <1>1, <1>4 DEF StoreCount
  <1> QED
    BY <1>1, <1>3, <1>5 DEF Storing

LEMMA StoreTake ==
    ASSUME NEW f, f.start \in Nat, f.len \in Nat, NEW t, NEW q, NEW rs, NEW rs2, Popped(rs, rs2),
           NEW d, NEW tb, NEW len \in Nat, NEW len2,
           len2 = IF rs[1].op = "data" /\ rs[1].ok THEN len + 1 ELSE len,
           Storing(f, t, tb, d, q, rs, len)
    PROVE  Storing(f, t, tb, d, q, rs2, len2)
  <1>1. /\ FileArea(f) \subseteq DataBlocks /\ PutQueue(f, t, q)
        /\ StoreResults(f, t, tb, d, q, rs) /\ StoreCount(f, d, q, rs, len)
        /\ \E s \in Slot : t.entries[s] = f
    BY DEF Storing
  <1>2. /\ 1 \in 1..Len(rs)
        /\ \A k \in 1..Len(rs2) : k + 1 \in 1..Len(rs) /\ rs2[k] = rs[k + 1] /\ 1 < k + 1
        /\ \A k, l \in 1..Len(rs2) : k < l => k + 1 < l + 1
    BY DEF Popped
  <1>3. StoreResults(f, t, tb, d, q, rs2)
    <2> SUFFICES ASSUME NEW k \in 1..Len(rs2)
                 PROVE  /\ rs2[k].op # "read"
                        /\ rs2[k].op = "data" =>
                              /\ rs2[k].block \in FileArea(f)
                              /\ rs2[k].ok => d[rs2[k].block] = Content(f, rs2[k].block)
                              /\ \A l \in 1..Len(rs2) : (k < l /\ rs2[l].op = "data") =>
                                    rs2[k].block < rs2[l].block
                              /\ \A j \in 1..Len(q) : q[j].op = "data" => rs2[k].block < q[j].block
                        /\ (rs2[k].op = "table" /\ rs2[k].block = 0) =>
                              /\ Len(q) = 0
                              /\ \A l \in 1..Len(rs2) : k < l => rs2[l].op = "log"
                              /\ rs2[k].ok => tb[0] = t
      BY DEF StoreResults
    <2> DEFINE m == k + 1
    <2>1. m \in 1..Len(rs) /\ rs2[k] = rs[m]
      BY <1>2
    <2>2. \A l \in 1..Len(rs2) : k < l => m < l + 1
      BY <1>2
    <2> HIDE DEF m
    <2>3. /\ rs[m].op # "read"
          /\ rs[m].op = "data" =>
                /\ rs[m].block \in FileArea(f)
                /\ rs[m].ok => d[rs[m].block] = Content(f, rs[m].block)
                /\ \A l \in 1..Len(rs) : (m < l /\ rs[l].op = "data") =>
                      rs[m].block < rs[l].block
                /\ \A j \in 1..Len(q) : q[j].op = "data" => rs[m].block < q[j].block
          /\ (rs[m].op = "table" /\ rs[m].block = 0) =>
                /\ Len(q) = 0
                /\ \A l \in 1..Len(rs) : m < l => rs[l].op = "log"
                /\ rs[m].ok => tb[0] = t
      BY <1>1, <2>1 DEF StoreResults
    <2>4. rs[m].op = "data" => \A l \in 1..Len(rs2) : (k < l /\ rs2[l].op = "data") =>
                                  rs[m].block < rs2[l].block
      BY <1>2, <2>2, <2>3
    <2>5. (rs[m].op = "table" /\ rs[m].block = 0) =>
             \A l \in 1..Len(rs2) : k < l => rs2[l].op = "log"
      BY <1>2, <2>2, <2>3
    <2> QED
      BY <2>1, <2>3, <2>4, <2>5
  <1>4. \A b : Waiting(b, rs2) => Waiting(b, rs)
    BY <1>2 DEF Waiting
  <1>5. CASE ~(rs[1].op = "data" /\ rs[1].ok)
    <2>1. len2 = len
      BY <1>5
    <2>2. StoreCount(f, d, q, rs2, len)
      BY <1>1, <1>4 DEF StoreCount
    <2> QED
      BY <1>1, <1>3, <2>1, <2>2 DEF Storing
  <1>6. CASE rs[1].op = "data" /\ rs[1].ok
    <2> DEFINE p == rs[1].block
    <2>1. /\ len2 = len + 1 /\ p \in FileArea(f) /\ d[p] = Content(f, p)
          /\ \A l \in 1..Len(rs) : (1 < l /\ rs[l].op = "data") => p < rs[l].block
          /\ \A j \in 1..Len(q) : q[j].op = "data" => p < q[j].block
          /\ Waiting(p, rs)
      BY <1>1, <1>2, <1>6 DEF StoreResults, Waiting
    <2> HIDE DEF p
    <2>2. \A c : Waiting(c, q) \/ Waiting(c, rs2) => p < c
      BY <1>2, <2>1 DEF Waiting
    <2>3. \A b \in FileArea(f) : b \in Nat /\ b - f.start \in Nat /\ b - f.start < f.len
      BY AreaFacts
    <2>4. p \in Nat /\ len <= p - f.start
      BY <1>1, <2>1, <2>3 DEF StoreCount
    <2>5. len2 <= f.len
      BY <2>1, <2>3, <2>4
    <2>6. \A c \in FileArea(f) : Waiting(c, q) \/ Waiting(c, rs2) => len2 <= c - f.start
      <3> SUFFICES ASSUME NEW c \in FileArea(f), Waiting(c, q) \/ Waiting(c, rs2)
                   PROVE  len2 <= c - f.start
        OBVIOUS
      <3>1. p < c /\ c \in Nat
        BY <2>2, <2>3
      <3> QED
        BY <2>1, <2>4, <3>1
    <2>7. ASSUME NEW b \in FileArea(f), ~Waiting(b, q), d[b] # Content(f, b)
          PROVE  /\ len2 < f.len
                 /\ \A c \in FileArea(f) :
                       (b < c /\ (Waiting(c, q) \/ Waiting(c, rs2))) => len2 < c - f.start
      <3>1. b \in Nat /\ b - f.start < f.len /\ b # p /\ p - f.start < f.len
        BY <2>1, <2>3, <2>7
      <3>2. CASE b < p
        <4>1. len < p - f.start
          BY <1>1, <2>1, <2>7, <3>2 DEF StoreCount
        <4>2. len2 < f.len
          BY <2>1, <2>4, <3>1, <4>1
        <4>3. ASSUME NEW c \in FileArea(f), Waiting(c, q) \/ Waiting(c, rs2)
              PROVE  len2 < c - f.start
          <5>1. p < c /\ c \in Nat
            BY <2>2, <2>3, <4>3
          <5> QED
            BY <2>1, <2>4, <4>1, <5>1
        <4> QED
          BY <4>2, <4>3
      <3>3. CASE p < b
        <4>1. len2 < f.len
          BY <2>1, <2>4, <3>1, <3>3
        <4>2. ASSUME NEW c \in FileArea(f), b < c PROVE len2 < c - f.start
          <5>1. c \in Nat
            BY <2>3
          <5> QED
            BY <2>1, <2>4, <3>1, <3>3, <4>2, <5>1
        <4> QED
          BY <4>1, <4>2
      <3> QED
        BY <2>4, <3>1, <3>2, <3>3
    <2>8. StoreCount(f, d, q, rs2, len2)
      BY <2>5, <2>6, <2>7 DEF StoreCount
    <2> QED
      BY <1>1, <1>3, <2>8 DEF Storing
  <1> QED
    BY <1>5, <1>6

(* The requests that a put queues.                                         *)
FileShape(F, start, size, ver) ==
    \A k \in 1..size :
        /\ (2 * k) - 1 \in 1..(2 * size) /\ F[(2 * k) - 1] = EraseReq(start + k - 1)
        /\ 2 * k \in 1..(2 * size) /\ F[2 * k] = DataReq(start + k - 1, <<ver, k>>)

LEMMA FileRequest ==
    ASSUME NEW start \in Nat, NEW size \in Nat, NEW ver \in Nat, NEW F,
           F = FileRequests(start, size, ver)
    PROVE  FileShape(F, start, size, ver)
  <1> SUFFICES ASSUME NEW k \in 1..size
               PROVE  /\ (2 * k) - 1 \in 1..(2 * size) /\ F[(2 * k) - 1] = EraseReq(start + k - 1)
                      /\ 2 * k \in 1..(2 * size) /\ F[2 * k] = DataReq(start + k - 1, <<ver, k>>)
    BY DEF FileShape
  <1>1. (2 * k) - 1 \in 1..(2 * size) /\ 2 * k \in 1..(2 * size)
    OBVIOUS
  <1>2. ((2 * k) - 1) % 2 = 1 /\ ((2 * k) - 1) \div 2 = k - 1 /\ (2 * k) % 2 = 0 /\ (2 * k) \div 2 = k
    OBVIOUS
  <1>3. F[(2 * k) - 1] = EraseReq(start + (k - 1)) /\ start + (k - 1) = start + k - 1
    BY <1>1, <1>2 DEF FileRequests
  <1>4. F[2 * k] = DataReq(start + k - 1, <<ver, k>>)
    BY <1>1, <1>2 DEF FileRequests
  <1> QED
    BY <1>1, <1>3, <1>4

LEMMA EveryRequest ==
    ASSUME NEW size \in Nat, NEW i \in 1..(2 * size)
    PROVE  \E k \in 1..size : i = 2 * k \/ i = (2 * k) - 1
  <1>1. CASE i % 2 = 1
    <2>1. (i \div 2) + 1 \in 1..size /\ i = (2 * ((i \div 2) + 1)) - 1
      BY <1>1
    <2> QED
      BY <2>1
  <1>2. CASE i % 2 # 1
    <2>1. i \div 2 \in 1..size /\ i = 2 * (i \div 2)
      BY <1>2
    <2> QED
      BY <2>1
  <1> QED
    BY <1>1, <1>2

(* The requests of a put, one by one.                                      *)
PutShape(q2, start, size, ver, v) ==
    /\ \A k \in 1..size :
          /\ (2 * k) - 1 \in 1..Len(q2) /\ 2 * k \in 1..Len(q2) /\ (2 * k) - 1 < 2 * k
          /\ q2[(2 * k) - 1].op = "erase" /\ q2[(2 * k) - 1].block = start + k - 1
          /\ q2[2 * k].op = "data" /\ q2[2 * k].block = start + k - 1
          /\ q2[2 * k].content = <<ver, k>>
    /\ \A i \in 1..Len(q2) :
          \/ \E k \in 1..size : i = 2 * k \/ i = (2 * k) - 1
          \/ q2[i].op = "erase" /\ q2[i].block \in {0, 1}
          \/ q2[i].op = "table" /\ q2[i].block = 1
          \/ q2[i].op = "table" /\ q2[i].block = 0 /\ q2[i].table = v /\ i = Len(q2)

LEMMA PutRequests ==
    ASSUME NEW start \in Nat, NEW size \in Nat, NEW ver \in Nat, NEW F,
           F = FileRequests(start, size, ver), F \in Seq(FlashReq), Len(F) = 2 * size,
           NEW v \in TableBlock, NEW q2, q2 = F \o StoreTable(v)
    PROVE  PutShape(q2, start, size, ver, v)
  <1> DEFINE m == 2 * size
  <1>1. /\ Len(q2) = m + 4 /\ \A i \in 1..m : q2[i] = F[i]
        /\ q2[m + 1] = EraseReq(1) /\ q2[m + 2] = TableReq(1, v)
        /\ q2[m + 3] = EraseReq(0) /\ q2[m + 4] = TableReq(0, v)
    <2> DEFINE z == F \o StoreTable(v)
    <2>1. /\ Len(z) = Len(F) + 4 /\ \A i \in 1..Len(F) : z[i] = F[i]
          /\ z[Len(F) + 1] = EraseReq(1) /\ z[Len(F) + 2] = TableReq(1, v)
          /\ z[Len(F) + 3] = EraseReq(0) /\ z[Len(F) + 4] = TableReq(0, v)
      BY StoreQueue
    <2>2. q2 = z
      OBVIOUS
    <2> HIDE DEF z
    <2> QED
      BY <2>1, <2>2
  <1>2. m \in Nat /\ \A k \in 1..size : (2 * k) - 1 < 2 * k
    OBVIOUS
  <1>3. \A b, c : /\ EraseReq(b).op = "erase" /\ EraseReq(b).block = b
                  /\ DataReq(b, c).op = "data" /\ DataReq(b, c).block = b
                  /\ DataReq(b, c).content = c
                  /\ TableReq(b, c).op = "table" /\ TableReq(b, c).block = b
                  /\ TableReq(b, c).table = c
    BY DEF EraseReq, DataReq, TableReq
  <1>4. \A k \in 1..size :
           /\ (2 * k) - 1 \in 1..m /\ F[(2 * k) - 1] = EraseReq(start + k - 1)
           /\ 2 * k \in 1..m /\ F[2 * k] = DataReq(start + k - 1, <<ver, k>>)
    <2>1. FileShape(F, start, size, ver)
      BY FileRequest
    <2> QED
      BY <2>1 DEF FileShape
  <1>5. \A i \in 1..m : \E k \in 1..size : i = 2 * k \/ i = (2 * k) - 1
    BY EveryRequest
  <1> HIDE DEF m
  <1>6. \A i \in 1..m : i \in 1..Len(q2)
    BY <1>1, <1>2
  <1>7. \A i \in 1..Len(q2) : i \in 1..m \/ i = m + 1 \/ i = m + 2 \/ i = m + 3 \/ i = m + 4
    BY <1>1, <1>2
  <1>8. \A k \in 1..size :
           /\ (2 * k) - 1 \in 1..Len(q2) /\ 2 * k \in 1..Len(q2) /\ (2 * k) - 1 < 2 * k
           /\ q2[(2 * k) - 1].op = "erase" /\ q2[(2 * k) - 1].block = start + k - 1
           /\ q2[2 * k].op = "data" /\ q2[2 * k].block = start + k - 1
           /\ q2[2 * k].content = <<ver, k>>
    <2> SUFFICES ASSUME NEW k \in 1..size, NEW i, i = (2 * k) - 1, NEW j, j = 2 * k
                 PROVE  /\ i \in 1..Len(q2) /\ j \in 1..Len(q2) /\ i < j
                        /\ q2[i].op = "erase" /\ q2[i].block = start + k - 1
                        /\ q2[j].op = "data" /\ q2[j].block = start + k - 1
                        /\ q2[j].content = <<ver, k>>
      OBVIOUS
    <2>1. /\ i \in 1..m /\ F[i] = EraseReq(start + k - 1)
          /\ j \in 1..m /\ F[j] = DataReq(start + k - 1, <<ver, k>>) /\ i < j
      BY <1>2, <1>4
    <2>2. /\ i \in 1..Len(q2) /\ q2[i] = EraseReq(start + k - 1)
          /\ j \in 1..Len(q2) /\ q2[j] = DataReq(start + k - 1, <<ver, k>>)
      BY <1>1, <1>6, <2>1
    <2> QED
      BY <1>3, <2>1, <2>2
  <1>9. ASSUME NEW i \in 1..Len(q2)
        PROVE  \/ \E k \in 1..size : i = 2 * k \/ i = (2 * k) - 1
               \/ q2[i].op = "erase" /\ q2[i].block \in {0, 1}
               \/ q2[i].op = "table" /\ q2[i].block = 1
               \/ q2[i].op = "table" /\ q2[i].block = 0 /\ q2[i].table = v /\ i = Len(q2)
    <2>1. CASE i \in 1..m
      BY <1>5, <2>1
    <2>2. (i = m + 1 \/ i = m + 3) => q2[i].op = "erase" /\ q2[i].block \in {0, 1}
      BY ONLY <1>1, <1>3
    <2>3. i = m + 2 => q2[i].op = "table" /\ q2[i].block = 1
      BY ONLY <1>1, <1>3
    <2>4. i = m + 4 => q2[i].op = "table" /\ q2[i].block = 0 /\ q2[i].table = v /\ i = Len(q2)
      BY ONLY <1>1, <1>3
    <2> QED
      BY <1>7, <2>1, <2>2, <2>3, <2>4, Zenon
  <1> QED
    BY <1>8, <1>9 DEF PutShape

(* What a put has queued, before anything of it is executed.               *)
LEMMA StoreBegins ==
    ASSUME NEW start \in Nat, NEW size \in Nat, NEW ver \in Nat, NEW f,
           f.start = start, f.len = size, f.ver = ver, FileArea(f) \subseteq DataBlocks,
           NEW v \in TableBlock, \E s \in Slot : v.entries[s] = f,
           NEW q, NEW rs, OnlyLogs(q, rs), NEW q2, PutShape(q2, start, size, ver, v),
           NEW tb, NEW d
    PROVE  Storing(f, v, tb, d, q2, rs, 0)
  <1>1. \A k \in 1..size :
           /\ (2 * k) - 1 \in 1..Len(q2) /\ 2 * k \in 1..Len(q2) /\ (2 * k) - 1 < 2 * k
           /\ q2[(2 * k) - 1].op = "erase" /\ q2[(2 * k) - 1].block = start + k - 1
           /\ q2[2 * k].op = "data" /\ q2[2 * k].block = start + k - 1
           /\ q2[2 * k].content = <<ver, k>>
    BY DEF PutShape
  <1>2. \A i \in 1..Len(q2) :
           \/ \E k \in 1..size : i = 2 * k \/ i = (2 * k) - 1
           \/ q2[i].op = "erase" /\ q2[i].block \in {0, 1}
           \/ q2[i].op = "table" /\ q2[i].block = 1
           \/ q2[i].op = "table" /\ q2[i].block = 0 /\ q2[i].table = v /\ i = Len(q2)
    BY DEF PutShape
  <1>3. 0 \notin FileArea(f) /\ 1 \notin FileArea(f)
    <2>1. 0 \notin DataBlocks /\ 1 \notin DataBlocks
      BY DEF DataBlocks, FirstBlock
    <2> QED
      BY <2>1
  <1>4. \A k \in 1..size : /\ start + k - 1 \in FileArea(f)
                           /\ Content(f, start + k - 1) = <<ver, k>>
    BY DEF FileArea, Content
  <1>5. PutQueue(f, v, q2)
    <2> SUFFICES ASSUME NEW i \in 1..Len(q2)
                 PROVE  /\ q2[i].op # "read"
                        /\ q2[i].op = "data" =>
                              q2[i].block \in FileArea(f) /\ q2[i].content = Content(f, q2[i].block)
                        /\ (q2[i].op = "erase" /\ q2[i].block \in FileArea(f)) =>
                              \E j \in 1..Len(q2) : /\ i < j /\ q2[j].op = "data"
                                                    /\ q2[j].block = q2[i].block
                        /\ q2[i].op = "table" => q2[i].block \in {0, 1}
                        /\ (q2[i].op = "table" /\ q2[i].block = 0) => i = Len(q2) /\ q2[i].table = v
                        /\ \A j \in 1..Len(q2) :
                              (i < j /\ q2[i].op = "data" /\ q2[j].op = "data") =>
                                  q2[i].block < q2[j].block
      BY DEF PutQueue
    <2>1. ASSUME NEW j \in 1..Len(q2), q2[j].op = "data"
          PROVE  \E k \in 1..size : /\ j = 2 * k /\ q2[j].block = start + k - 1
                                    /\ q2[j].content = <<ver, k>>
      <3>1. PICK k \in 1..size : j = 2 * k \/ j = (2 * k) - 1
        BY <1>2, <2>1
      <3>2. j = 2 * k
        BY <1>1, <2>1, <3>1
      <3> QED
        BY <1>1, <3>2
    <2>2. ASSUME NEW k \in 1..size, i = 2 * k, NEW j \in 1..Len(q2), i < j, q2[j].op = "data"
          PROVE  q2[i].block < q2[j].block
      <3>1. PICK l \in 1..size : j = 2 * l /\ q2[j].block = start + l - 1
        BY <2>1, <2>2
      <3>2. q2[i].block = start + k - 1
        BY <1>1, <2>2
      <3>3. k < l
        BY <2>2, <3>1
      <3>4. start + k - 1 < start + l - 1
        BY <3>3
      <3> QED
        BY <3>1, <3>2, <3>4
    <2>3. CASE \E k \in 1..size : i = 2 * k
      <3>1. PICK k \in 1..size : i = 2 * k
        BY <2>3
      <3>2. /\ q2[i].op = "data" /\ q2[i].block = start + k - 1 /\ q2[i].content = <<ver, k>>
        BY <1>1, <3>1
      <3>3. /\ q2[i].block \in FileArea(f) /\ q2[i].content = Content(f, q2[i].block)
        BY <1>4, <3>2
      <3>4. \A j \in 1..Len(q2) : (i < j /\ q2[j].op = "data") => q2[i].block < q2[j].block
        BY <2>2, <3>1
      <3> QED
        BY <3>2, <3>3, <3>4
    <2>4. CASE \E k \in 1..size : i = (2 * k) - 1
      <3>1. PICK k \in 1..size : i = (2 * k) - 1
        BY <2>4
      <3> DEFINE j == 2 * k
      <3>2. /\ q2[i].op = "erase" /\ q2[i].block = start + k - 1
            /\ j \in 1..Len(q2) /\ i < j /\ q2[j].op = "data" /\ q2[j].block = start + k - 1
        BY <1>1, <3>1
      <3> HIDE DEF j
      <3> QED
        BY <3>2
    <2>5. CASE q2[i].op = "erase" /\ q2[i].block \in {0, 1}
      BY <1>3, <2>5
    <2>6. CASE q2[i].op = "table" /\ q2[i].block = 1
      BY <2>6
    <2>7. CASE q2[i].op = "table" /\ q2[i].block = 0 /\ q2[i].table = v /\ i = Len(q2)
      BY <2>7
    <2>8. \/ \E k \in 1..size : i = 2 * k
          \/ \E k \in 1..size : i = (2 * k) - 1
          \/ q2[i].op = "erase" /\ q2[i].block \in {0, 1}
          \/ q2[i].op = "table" /\ q2[i].block = 1
          \/ q2[i].op = "table" /\ q2[i].block = 0 /\ q2[i].table = v /\ i = Len(q2)
      BY <1>2
    <2> QED
      BY <2>3, <2>4, <2>5, <2>6, <2>7, <2>8, Zenon
  <1>6. StoreResults(f, v, tb, d, q2, rs)
    BY DEF OnlyLogs, StoreResults
  <1>7. \A b \in FileArea(f) : b - f.start \in Nat /\ Waiting(b, q2)
    <2> SUFFICES ASSUME NEW b \in FileArea(f) PROVE b - f.start \in Nat /\ Waiting(b, q2)
      OBVIOUS
    <2> DEFINE k == (b - start) + 1
    <2>1. k \in 1..size /\ b = start + k - 1 /\ b - f.start \in Nat
      BY DEF FileArea
    <2> HIDE DEF k
    <2>2. 2 * k \in 1..Len(q2) /\ q2[2 * k].op = "data" /\ q2[2 * k].block = b
      BY <1>1, <2>1
    <2> QED
      BY <2>1, <2>2 DEF Waiting
  <1>8. StoreCount(f, d, q2, rs, 0)
    BY <1>7 DEF StoreCount
  <1> QED
    BY <1>5, <1>6, <1>8 DEF Storing

LEMMA CurEntryFacts ==
    ASSUME TypeOK, NEW start \in Nat
    PROVE  /\ CurEntry(start).start = start /\ CurEntry(start).start \in Nat
           /\ CurEntry(start).len = cur.size /\ CurEntry(start).len \in Nat
           /\ CurEntry(start).ver = cur.ver /\ CurEntry(start).ver \in Nat
           /\ CurEntry(start).name = cur.name
           /\ cur.size \in Nat /\ cur.ver \in Nat
  <1>1. cur.size \in Nat /\ cur.ver \in Nat
    BY DEF TypeOK
  <1> QED
    BY <1>1 DEF CurEntry

(* The table has been read, and there is room for the file.                *)
LEMMA PutBegins ==
    ASSUME TypeOK, CurAsked, state = "PUT_FILE", OnlyLogs(queue, results'),
           UNCHANGED <<table, data, cur, curFilelength>>, curFilelength = 0,
           NEW x \in TableBlock, InFlash(x.entries), NEW blk, PutStores(blk, x)
    PROVE  PutState'
  <1>1. PICK slot \in FileSlots(x.entries), start \in Placement(x.entries) :
           queue' = queue \o FileRequests(start, cur.size, cur.ver)
                       \o StoreTable(Valid(WithFile(x.entries, slot, cur.name, start,
                                                    cur.size, cur.ver)))
    BY DEF PutStores
  <1> DEFINE F == FileRequests(start, cur.size, cur.ver)
             w == WithFile(x.entries, slot, cur.name, start, cur.size, cur.ver)
             v == Valid(w)
             f == CurEntry(start)
             size == cur.size
             ver == cur.ver
  <1>2. /\ slot \in Slot /\ start \in Nat
        /\ start..(start + size - 1) \subseteq DataBlocks /\ w[slot] = f
    BY FitFile
  <1>3. F \in Seq(FlashReq) /\ Len(F) = 2 * size /\ w \in Table
    BY RoomFound
  <1>4. v \in TableBlock /\ v.entries = w
    BY <1>3, TableTypes
  <1>5. f.start = start /\ f.len = size /\ f.ver = ver /\ size \in Nat /\ ver \in Nat
    BY <1>2, CurEntryFacts
  <1>6. FileArea(f) \subseteq DataBlocks
    BY <1>2, <1>5 DEF FileArea
  <1>7. f' = f
    BY DEF CurEntry
  <1>8. F = FileRequests(start, size, ver) /\ queue' = (queue \o F) \o StoreTable(v)
    BY <1>1
  <1> HIDE DEF F, w, v, f, size, ver
  <1>9. queue = <<>>
    BY DEF OnlyLogs, TypeOK
  <1>10. queue \o F = F
    BY <1>3, <1>9
  <1>11. queue' = F \o StoreTable(v)
    BY <1>8, <1>10
  <1>12. PutShape(queue', start, size, ver, v)
    BY ONLY <1>2, <1>3, <1>4, <1>5, <1>8, <1>11, PutRequests
  <1>13. \E s \in Slot : v.entries[s] = f
    BY <1>2, <1>4
  <1>14. Storing(f, v, table, data, queue', results', 0)
    BY <1>2, <1>4, <1>5, <1>6, <1>12, <1>13, StoreBegins
  <1>15. Storing(CurEntry(start)', v, table', data', queue', results', curFilelength')
    BY <1>7, <1>14 DEF f
  <1> QED
    BY <1>2, <1>4, <1>15 DEF PutState

LEMMA StoringHead ==
    ASSUME TypeOK, results # <<>>, NEW f, NEW t, NEW len,
           Storing(f, t, table, data, queue, results, len)
    PROVE  Head(results).op # "read" /\ Head(results) = results[1] /\ 1 \in 1..Len(results)
  <1>1. Head(results) = results[1] /\ 1 \in 1..Len(results)
    BY DEF TypeOK
  <1> QED
    BY <1>1 DEF Storing, StoreResults

(* The handlers of a put.                                                  *)
LEMMA PutHandles ==
    ASSUME TypeOK, CurAsked, TablesFit, PutState, state = "PUT_FILE", Dispatch
    PROVE  PutState' \/ state' = "USER"
  <1> DEFINE r == Head(results)
             x == r.table
             blk == IF r.block = 1 THEN 0 ELSE r.block
  <1>1. /\ results # <<>> /\ r.op = "read" /\ results' = Tail(results)
        /\ UNCHANGED <<table, data, cur, curFilelength>>
    BY DEF Dispatch
  <1>2. PutFails(blk, x) \/ PutStores(blk, x) \/ PutHostFile(blk, x)
    BY DEF Dispatch
  <1>3. Looking(table, queue, results) /\ curFilelength = 0
    BY <1>1, StoringHead DEF PutState
  <1>4. Popped(results, results') /\ r = results[1]
    BY <1>1, TakenFirst
  <1>5. Looking(table, queue, results') /\ OnlyLogs(queue, results')
    <2>1. /\ Looking(table, queue, results')
          /\ results[1].op = "read" => OnlyLogs(queue, results')
      BY <1>3, <1>4, LookingTake
    <2> QED
      BY <1>1, <1>4, <2>1
  <1>6. x \in TableBlock /\ InFlash(x.entries)
    <2>1. r \in FlashResult
      BY <1>1, FirstResult
    <2>2. 1 \in 1..Len(results)
      BY <1>4 DEF Popped
    <2> QED
      BY <1>4, <2>1, <2>2 DEF FlashResult, TablesFit, AllFit
  <1> HIDE DEF r, x, blk
  <1>7. CASE PutStores(blk, x)
    BY <1>1, <1>3, <1>5, <1>6, <1>7, PutBegins
  <1>8. CASE queue' = queue
    BY <1>1, <1>3, <1>5, <1>8 DEF PutState
  <1>9. CASE PutFails(blk, x) \/ PutHostFile(blk, x)
    <2>1. queue' = queue \/ state' = "USER"
      BY <1>9 DEF PutFails, PutHostFile
    <2> QED
      BY <1>8, <2>1
  <1> QED
    BY <1>2, <1>7, <1>9

(* The requests of the put are executed, and their results are handled.    *)
LEMMA OthersStoring ==
    ASSUME TypeOK, state = "PUT_FILE", NEW start \in Nat, NEW t \in TableBlock,
           Storing(CurEntry(start), t, table, data, queue, results, curFilelength),
           \/ Execute \/ BadWrite \/ ExecuteLog
           \/ WriteResult \/ EraseResult \/ LogResult \/ ReadBackup \/ RestoreTable
    PROVE  PutState'
  <1> DEFINE f == CurEntry(start)
             len == curFilelength
  <1>1. f.start \in Nat /\ f.len \in Nat /\ len \in Nat
    BY CurEntryFacts DEF TypeOK
  <1>2. UNCHANGED cur
    BY DEF Execute, BadWrite, ExecuteLog, WriteResult, EraseResult, LogResult, ReadBackup,
           RestoreTable, hostVars
  <1>3. f' = f
    BY <1>2 DEF CurEntry
  <1>4. Storing(f, t, table, data, queue, results, len)
    OBVIOUS
  <1>5. SUFFICES Storing(f, t, table', data', queue', results', curFilelength')
    <2>1. ASSUME Storing(f, t, table', data', queue', results', curFilelength')
          PROVE  Storing(CurEntry(start)', t, table', data', queue', results', curFilelength')
      BY <1>3, <2>1
    <2> QED
      BY <2>1 DEF PutState
  <1> HIDE DEF f, len
  <1>6. CASE Execute \/ BadWrite
    <2>1. PICK y \in FlashResult : Added(results, results', y) /\ Did(queue[1], y)
      BY <1>6, Executed
    <2>2. Popped(queue, queue')
      BY <1>6, Executed
    <2>3. curFilelength' = len
      BY <1>6 DEF Execute, BadWrite, hostVars, len
    <2> DEFINE h == queue[1]
    <2>4. /\ y.op = h.op /\ y.block = h.block /\ Applied(h, data, data')
          /\ (h.op = "data" /\ h.block \in DataBlocks /\ y.ok) => data'[h.block] = h.content
          /\ (h.op = "table" /\ h.block = 0 /\ y.ok) => table'[0] = h.table
      BY <2>1 DEF Did
    <2>5. Storing(f, t, table', data', queue', results', len)
      BY <1>1, <1>4, <2>1, <2>2, <2>4, StorePop
    <2> QED
      BY <2>3, <2>5
  <1>7. CASE ExecuteLog
    <2>1. UNCHANGED <<table, data, queue>> /\ curFilelength' = len
      BY <1>7 DEF ExecuteLog, len
    <2>2. PICK y \in FlashResult : Added(results, results', y) /\ y.op = "log"
      BY <1>7, LogAdded
    <2>3. Storing(f, t, table, data, queue, results', len)
      BY <1>4, <2>2, StoreLog
    <2> QED
      BY <2>1, <2>3
  <1>8. CASE WriteResult \/ EraseResult \/ LogResult
    <2>1. results # <<>> /\ results' = Tail(results) /\ UNCHANGED <<table, data, queue>>
      BY <1>8 DEF WriteResult, EraseResult, LogResult, Unchanged
    <2>2. Popped(results, results') /\ Head(results) = results[1]
      BY <2>1, TakenFirst
    <2>3. curFilelength' = IF results[1].op = "data" /\ results[1].ok THEN len + 1 ELSE len
      BY <1>8, <2>2 DEF WriteResult, EraseResult, LogResult, len
    <2>4. Storing(f, t, table, data, queue, results', curFilelength')
      BY <1>1, <1>4, <2>2, <2>3, StoreTake
    <2> QED
      BY <2>1, <2>4
  <1>9. CASE ReadBackup \/ RestoreTable
    BY <1>4, <1>9, StoringHead DEF ReadBackup, RestoreTable
  <1> QED
    BY <1>6, <1>7, <1>8, <1>9

(* A put that is still to store anything has no data under way.            *)
LEMMA PutLooking ==
    ASSUME TypeOK, state = "PUT_FILE", Looking(table, queue, results), curFilelength = 0,
           \/ Execute \/ BadWrite \/ ExecuteLog
           \/ WriteResult \/ EraseResult \/ LogResult \/ ReadBackup \/ RestoreTable
    PROVE  PutState'
  <1>1. Looking(table', queue', results')
    BY OthersLooking, BackupLooking
  <1>2. CASE WriteResult
    <2>1. results # <<>> /\ results' = Tail(results)
      BY <1>2 DEF WriteResult
    <2>2. Head(results) = results[1] /\ 1 \in 1..Len(results)
      BY <2>1, TakenFirst DEF Popped
    <2>3. Head(results).op # "data"
      BY <2>2 DEF Looking
    <2>4. UNCHANGED curFilelength
      BY <1>2, <2>3 DEF WriteResult
    <2> QED
      BY <1>1, <2>4 DEF PutState
  <1>3. CASE ~WriteResult
    <2>1. UNCHANGED curFilelength
      BY <1>3 DEF Execute, BadWrite, ExecuteLog, EraseResult, LogResult, ReadBackup,
                  RestoreTable, hostVars
    <2> QED
      BY <1>1, <2>1 DEF PutState
  <1> QED
    BY <1>2, <1>3

LEMMA PutSoundNext ==
    ASSUME TypeOK, CurAsked, TablesFit, PutSound, [Next]_vars
    PROVE  PutSound'
  <1> SUFFICES ASSUME overlap' = "none", state' = "PUT_FILE"
               PROVE  PutState'
    BY DEF PutSound
  <1>1. CASE HostRequest
    <2>1. PICK n, size : PutFile(n, size)
      BY <1>1 DEF HostRequest, GetPartitiontable, PutLog, DeleteFile, GetFile, Begin
    <2>2. /\ \E kind : Begin(kind, "PUT_FILE")
          /\ UNCHANGED <<table, results>> /\ curFilelength' = 0
      BY <2>1 DEF PutFile
    <2> QED
      BY <2>2, BeginLooking DEF PutState
  <1>2. CASE ~HostRequest
    <2>1. overlap = "none" /\ state = "PUT_FILE"
      BY <1>2, StepKeeps
    <2>2. PutState
      BY <2>1 DEF PutSound
    <2>3. CASE \/ Execute \/ BadWrite \/ ExecuteLog
               \/ WriteResult \/ EraseResult \/ LogResult \/ ReadBackup \/ RestoreTable
      <3>1. CASE Looking(table, queue, results) /\ curFilelength = 0
        BY <2>1, <2>3, <3>1, PutLooking
      <3>2. CASE \E start \in Nat, t \in TableBlock :
                    Storing(CurEntry(start), t, table, data, queue, results, curFilelength)
        BY <2>1, <2>3, <3>2, OthersStoring
      <3> QED
        BY <2>2, <3>1, <3>2 DEF PutState
    <2>4. CASE Dispatch
      BY <2>1, <2>2, <2>4, PutHandles
    <2>5. CASE Crash \/ CrashInWrite \/ ToggleError
      BY <2>5 DEF Crash, CrashInWrite, ToggleError, Restart
    <2>6. CASE UNCHANGED vars
      <3>1. UNCHANGED <<table, data, queue, results, cur, curFilelength>>
        BY <2>6 DEF vars, hostVars
      <3>2. \A start : CurEntry(start)' = CurEntry(start)
        BY <3>1 DEF CurEntry
      <3> QED
        BY <2>2, <3>1, <3>2 DEF PutState
    <2> QED
      BY <1>2, <2>3, <2>4, <2>5, <2>6 DEF Next, HostResult, Fault
  <1> QED
    BY <1>1, <1>2

(* Who reports a put or a get.                                             *)
LEMMA WhoReports ==
    ASSUME [Next]_vars, reported' # reported
    PROVE  /\ reported'.kind = "put" => state = "PUT_FILE" /\ WriteResult
           /\ reported'.kind = "got" => state = "GET_FILE" /\ Dispatch
  <1>1. ASSUME NEW kind, Close(kind) PROVE reported'.kind = kind
    BY <1>1 DEF Close
  <1>2. NotReported.kind = "none"
    BY DEF NotReported
  <1>3. CASE HostRequest
    <2>1. reported' = NotReported
      BY <1>3 DEF HostRequest, GetPartitiontable, PutLog, DeleteFile, GetFile, PutFile, Begin
    <2> QED
      BY <1>2, <2>1
  <1>4. CASE \/ Execute \/ ExecuteLog \/ BadWrite \/ ReadBackup \/ RestoreTable
             \/ UNCHANGED vars
    BY <1>4 DEF Execute, ExecuteLog, BadWrite, ReadBackup, RestoreTable, vars, historyVars
  <1>5. CASE Crash \/ CrashInWrite
    <2>1. reported' = NotReported
      BY <1>5 DEF Crash, CrashInWrite, Restart
    <2> QED
      BY <1>2, <2>1
  <1>6. CASE ToggleError \/ EraseResult \/ LogResult
    <2>1. Close("failed") \/ Close("erased") \/ Close("logged")
      BY <1>6 DEF ToggleError, EraseResult, LogResult
    <2> QED
      BY <1>1, <2>1
  <1>7. CASE WriteResult
    <2>1. \/ state = "PUT_FILE" \/ Close("failed") \/ Close("deleted")
      BY <1>7 DEF WriteResult
    <2>2. state = "PUT_FILE" => Close("put") \/ Close("failed")
      BY <1>7 DEF WriteResult
    <2> QED
      BY <1>1, <1>7, <2>1, <2>2
  <1>8. CASE Dispatch
    <2>1. CASE state = "GET_FILE"
      <3>1. Close("failed") \/ Close("got")
        BY <1>8, <2>1 DEF Dispatch, GetFileTable, GetFileData, GetHostFile
      <3> QED
        BY <1>1, <1>8, <2>1, <3>1
    <2>2. CASE state = "PUT_FILE"
      <3>1. Close("failed") \/ reported'.kind = "failed"
        BY <1>8, <2>2 DEF Dispatch, PutFails, PutStores, PutHostFile
      <3> QED
        BY <1>1, <3>1
    <2>3. CASE state \notin {"GET_FILE", "PUT_FILE"}
      <3>1. Close("failed") \/ Close("listed")
        BY <1>8, <2>3 DEF Dispatch, GotPartition, Delete
      <3> QED
        BY <1>1, <3>1
    <2> QED
      BY <2>1, <2>2, <2>3
  <1> QED
    BY <1>3, <1>4, <1>5, <1>6, <1>7, <1>8 DEF Next, HostResult, Fault

(* All data of the put was written when its last table is.                 *)
LEMMA StoreEnds ==
    ASSUME NEW f, f.start \in Nat, f.len \in Nat, NEW t,
           Storing(f, t, table, data, queue, results, f.len), 1 \in 1..Len(results),
           results[1].op = "table", results[1].block = 0, results[1].ok
    PROVE  Stored(f) /\ \E s \in Slot : table[0].entries[s] = f
  <1>1. table[0] = t /\ Len(queue) = 0
    BY DEF Storing, StoreResults
  <1>2. \E s \in Slot : table[0].entries[s] = f
    BY <1>1 DEF Storing
  <1>3. \A b : ~Waiting(b, queue)
    <2>1. \A i \in 1..0 : FALSE
      OBVIOUS
    <2> QED
      BY <1>1, <2>1 DEF Waiting
  <1>4. ~(f.len < f.len)
    OBVIOUS
  <1>5. \A b \in FileArea(f) : data[b] = Content(f, b)
    BY <1>3, <1>4 DEF Storing, StoreCount
  <1>6. ASSUME NEW k \in 1..f.len PROVE data[f.start + k - 1] = <<f.ver, k>>
    <2> DEFINE b == f.start + k - 1
    <2>1. b \in FileArea(f) /\ (b - f.start) + 1 = k
      BY DEF FileArea
    <2> HIDE DEF b
    <2>2. data[b] = <<f.ver, k>>
      BY <1>5, <2>1 DEF Content
    <2> QED
      BY <2>2 DEF b
  <1> QED
    BY <1>2, <1>6 DEF Stored

LEMMA PutReports ==
    ASSUME TypeOK, CurAsked, PutSound, [Next]_vars, overlap = "none",
           reported' # reported, reported'.kind = "put"
    PROVE  \E i \in Slot : LET e == table[0].entries[i]
                           IN e.name = cur.name /\ e.ver = cur.ver /\ Stored(e)
  <1> DEFINE r == Head(results)
  <1>1. state = "PUT_FILE" /\ WriteResult
    BY WhoReports
  <1>2. r.op = "table" /\ r.block = 0 /\ r.ok /\ curFilelength = cur.size
    <2>1. r.ok /\ Close("put")
      <3>1. ~Close("failed")
        BY DEF Close
      <3> QED
        BY <1>1, <3>1 DEF WriteResult
    <2> QED
      BY <1>1, <2>1 DEF WriteResult, PutDone
  <1>3. results # <<>>
    BY <1>1 DEF WriteResult
  <1>4. cur.size \in Nat \ {0}
    BY <1>1 DEF CurAsked
  <1>5. PICK start \in Nat, t \in TableBlock :
           Storing(CurEntry(start), t, table, data, queue, results, curFilelength)
    BY <1>1, <1>2, <1>4 DEF PutSound, PutState
  <1> DEFINE f == CurEntry(start)
  <1>6. r = results[1] /\ 1 \in 1..Len(results)
    BY <1>3, <1>5, StoringHead
  <1>7. /\ f.start \in Nat /\ f.len \in Nat /\ f.len = cur.size
        /\ f.name = cur.name /\ f.ver = cur.ver
    BY CurEntryFacts
  <1> HIDE DEF f, r
  <1>8. Stored(f) /\ \E s \in Slot : table[0].entries[s] = f
    <2>1. Storing(f, t, table, data, queue, results, f.len)
      BY <1>2, <1>5, <1>7 DEF f
    <2>2. results[1].op = "table" /\ results[1].block = 0 /\ results[1].ok
      BY <1>2, <1>6
    <2> QED
      BY <1>6, <1>7, <2>1, <2>2, StoreEnds
  <1> QED
    BY <1>7, <1>8

LEMMA GetReports ==
    ASSUME TypeOK, TablesFit, GetSound, [Next]_vars, overlap = "none",
           reported' # reported, reported'.kind = "got"
    PROVE  \E i \in SelectedEntry(Effective.entries) :
              LET e == Effective.entries[i]
              IN hostFile' = [k \in 1..e.len |-> data[e.start + k - 1]]
  <1>1. state = "GET_FILE" /\ Dispatch
    BY WhoReports
  <1> QED
    BY <1>1, GetHandles

(* What the two theorems rest on.                                          *)
DoneInv == TypeOK /\ CurAsked /\ TablesFit /\ GetSound /\ PutSound

LEMMA DoneInit == Init => DoneInv
  <1> SUFFICES ASSUME Init PROVE DoneInv
    OBVIOUS
  <1>1. TypeOK /\ CurAsked /\ TablesFit
    BY InitType, FitInit
  <1>2. state = "USER"
    BY DEF Init
  <1> QED
    BY <1>1, <1>2 DEF DoneInv, GetSound, PutSound

LEMMA DoneNext == DoneInv /\ [Next]_vars => DoneInv'
  <1> SUFFICES ASSUME DoneInv, [Next]_vars PROVE DoneInv'
    OBVIOUS
  <1>1. TypeOK /\ CurAsked /\ TablesFit /\ GetSound /\ PutSound
    BY DEF DoneInv
  <1>2. TypeOK' /\ CurAsked'
    BY <1>1, NextType
  <1>3. TablesFit'
    BY <1>1, FitNext
  <1>4. GetSound'
    BY <1>1, GetSoundNext
  <1>5. PutSound'
    BY <1>1, PutSoundNext
  <1> QED
    BY <1>2, <1>3, <1>4, <1>5 DEF DoneInv

(* "Get flash file successfully done" (libdrbcc_get_file) is said only     *)
(* when the file of the host has every block of the file in the flash, in  *)
(* its place, whatever fails in the meantime, unless the get began before  *)
(* the requests of an earlier operation were done: for every number and    *)
(* size of files, blocks and requests.                                     *)
THEOREM GetsComplete == Spec => GetComplete
  <1>1. DoneInv /\ [Next]_vars =>
           [(overlap = "none" /\ reported' # reported /\ reported'.kind = "got") =>
               \E i \in SelectedEntry(Effective.entries) :
                  LET e == Effective.entries[i]
                  IN hostFile' = [k \in 1..e.len |-> data[e.start + k - 1]]]_vars
    BY GetReports DEF DoneInv
  <1> QED
    BY <1>1, DoneInit, DoneNext, PTL DEF Spec, GetComplete

(* "Put flash file successfully done" (libdrbcc_writeflash_cb) is said     *)
(* only when the table in block 0 has the file and all of its content is   *)
(* in the flash: curFilelength, which counts the blocks whose write was    *)
(* answered, reaches the length of the file only if none of them failed.   *)
THEOREM PutsDurable == Spec => PutDurable
  <1>1. DoneInv /\ [Next]_vars =>
           [(overlap = "none" /\ reported' # reported /\ reported'.kind = "put") =>
               \E i \in Slot : LET e == table[0].entries[i]
                               IN e.name = cur.name /\ e.ver = cur.ver /\ Stored(e)]_vars
    BY PutReports DEF DoneInv
  <1> QED
    BY <1>1, DoneInit, DoneNext, PTL DEF Spec, PutDurable
=============================================================================
