----------------------------- MODULE DrbccTable -----------------------------
(***************************************************************************)
(* The partition table of the external flash (lib/drbcc_files.c) and the   *)
(* questions that the library asks of it: which blocks a table uses, which *)
(* slot a file takes, where a file of a given size goes.                   *)
(*                                                                         *)
(* Sizes are in blocks of 4096 bytes.  Blocks 0 and 1 hold the table and   *)
(* its backup, blocks 2 and 3 are reserved, and data starts at block 4.    *)
(* An entry names its file (type and running number in one), and carries,  *)
(* as a history value, which content the file has.                         *)
(***************************************************************************)
EXTENDS Naturals, Sequences

CONSTANTS
    Slots,          \* number of table entries (20 in the code)
    NumBlocks,      \* number of flash blocks (1024 in the code)
    LogBlocks,      \* blocks of the ring log area (508 in the code)
    PersBlocks,     \* blocks of the persistent log area (64 in the code)
    Names           \* the files the application uses

FirstBlock == 4
RingLog == "ringlog"
PersLog == "perslog"
NoName == "none"

ASSUME TableAssumption ==
    /\ Slots \in Nat \ {0, 1}
    /\ NumBlocks \in Nat
    /\ LogBlocks \in Nat \ {0}
    /\ PersBlocks \in Nat \ {0}
    /\ FirstBlock + LogBlocks + PersBlocks <= NumBlocks
    /\ Names \cap {RingLog, PersLog, NoName} = {}

DataBlocks == FirstBlock..(NumBlocks - 1)
Slot == 1..Slots

EmptyEntry == [name |-> NoName, start |-> 0, len |-> 0, ver |-> 0]
Entry == [name : Names \cup {RingLog, PersLog, NoName}, start : Nat, len : Nat, ver : Nat]
Table == [Slot -> Entry]

isEmpty(e) == e.name = NoName

(* libdrbcc_create_partition: a table with the two log areas only.         *)
FreshTable ==
    [i \in Slot |->
        IF i = 1 THEN [name |-> RingLog, start |-> FirstBlock, len |-> LogBlocks, ver |-> 0]
        ELSE IF i = 2
          THEN [name |-> PersLog, start |-> FirstBlock + LogBlocks, len |-> PersBlocks, ver |-> 0]
        ELSE EmptyEntry]

(* Mutant: the last block of an entry is not marked as used.               *)
EntryBlocksShort(e) == IF isEmpty(e) \/ e.len = 0 THEN {} ELSE e.start..(e.start + e.len - 2)

(* The blocks of one entry, and of all entries but those in the set skip.  *)
EntryBlocks(e) == IF isEmpty(e) THEN {} ELSE e.start..(e.start + e.len - 1)
UsedBlocks(t, skip) == UNION {EntryBlocks(t[i]) : i \in Slot \ skip}

(* Mutant: the first entry is taken whatever its file.                     *)
FirstOfAny(t, n) ==
    LET files == {i \in Slot : t[i].name \in Names}
    IN {i \in files : \A j \in files : i <= j}

(* The entries that hold the file n, and the first of them.                *)
Matching(t, n) == {i \in Slot : t[i].name = n}
FirstMatching(t, n) == {i \in Matching(t, n) : \A j \in Matching(t, n) : i <= j}

(* The entry that libdrbcc_delete and libdrbcc_get_file act on: the entry  *)
(* with a given index, or (index 0 here) the first entry of the file n.    *)
Selected(t, index, n) == IF index # 0 THEN {index} ELSE FirstMatching(t, n)

(* libdrbcc_delete clears the selected entry.                              *)
Deleted(t, sel) == [i \in Slot |-> IF i \in sel THEN EmptyEntry ELSE t[i]]

(* libdrbcc_put_file: the slot for the file n is the last matching entry,  *)
(* or else the first empty one.                                            *)
SlotsFor(t, n) ==
    IF Matching(t, n) # {}
      THEN {i \in Matching(t, n) : \A j \in Matching(t, n) : j <= i}
      ELSE {i \in Slot : isEmpty(t[i]) /\ \A j \in Slot : isEmpty(t[j]) => i <= j}

(* Mutant: every used block begins an area of its own.                     *)
NextAreaNotJoined(prev, b, used) ==
    IF prev.last \/ b \in used
      THEN [last |-> b \in used,
            areas |-> Append(prev.areas, [start |-> b, end |-> b, free |-> b \notin used])]
      ELSE [prev EXCEPT !.areas[Len(prev.areas)].end = b]

(* One step of the scan over the block map: the block b begins an area     *)
(* when it differs from the block in front of it, and belongs to the last  *)
(* area otherwise.                                                         *)
NextArea(prev, b, used) ==
    IF prev.last # (b \in used)
      THEN [last |-> b \in used,
            areas |-> Append(prev.areas, [start |-> b, end |-> b, free |-> b \notin used])]
      ELSE IF prev.areas = <<>> THEN prev
      ELSE [prev EXCEPT !.areas[Len(prev.areas)].end = b]

(* libdrbcc_put_file collects the areas of free and of used blocks, in     *)
(* ascending order.  The array's element 0, which stands for the blocks    *)
(* before FirstBlock and is not initialised, is left out: found = 0 means  *)
(* that nothing was found, whatever that element holds.                    *)
NoAreas == [last |-> TRUE, areas |-> <<>>]

AreasUpTo(used) ==
    LET scan[b \in (FirstBlock - 1)..(NumBlocks - 1)] ==
          IF b = FirstBlock - 1 THEN NoAreas ELSE NextArea(scan[b - 1], b, used)
    IN scan

free_used(used) == AreasUpTo(used)[NumBlocks - 1].areas

AreaSize(a) == (a.end - a.start) + 1

(* Mutant: the last area that is large enough is taken.                    *)
BetterAny(a, b) == TRUE

(* "this one is better" *)
Better(a, b) == AreaSize(a) < AreaSize(b)

(* One step of the search for the best fitting area.                       *)
NextFound(found, i, areas, need) ==
    IF /\ areas[i].free
       /\ AreaSize(areas[i]) >= need
       /\ found = 0 \/ Better(areas[i], areas[found])
      THEN i ELSE found

(* The index of the best fitting area: 0 when there is none.               *)
FoundUpTo(areas, need) ==
    LET scan[i \in 0..Len(areas)] ==
          IF i = 0 THEN 0 ELSE NextFound(scan[i - 1], i, areas, need)
    IN scan

Found(areas, need) == FoundUpTo(areas, need)[Len(areas)]

(* The start blocks for need blocks: none when no space is left, and one   *)
(* otherwise.                                                              *)
StartFor(used, need) ==
    LET areas == free_used(used)
        found == Found(areas, need)
    IN IF found = 0 THEN {} ELSE {areas[found].start}

(* The table after a put: every other matching entry is marked empty (its  *)
(* type byte; the other bytes stay), and the slot describes the new file.  *)
WithFile(t, slot, n, start, len, ver) ==
    [i \in Slot |-> IF i = slot
                      THEN [name |-> n, start |-> start, len |-> len, ver |-> ver]
                      ELSE IF t[i].name = n THEN EmptyEntry ELSE t[i]]
=============================================================================
