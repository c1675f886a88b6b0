--------------------------- MODULE DrbccLogProofs ---------------------------
(***************************************************************************)
(* What DrbccLog promises, proved for a log area, chunks and entries of    *)
(* any size, tables of any content and any number of requests: the types,  *)
(* that no read leaves the log area as long as no get_log begins while the *)
(* position or the table of an earlier one is on its way, and where a      *)
(* get_log starts to read.                                                 *)
(***************************************************************************)
EXTENDS DrbccLog, WellFoundedInduction, TLAPS

(* At most one element of q is outside of S.                               *)
AtMostOne(q, S) == \A i, j \in DOMAIN q : q[i] \notin S /\ q[j] \notin S => i = j

(* A get_log that waits for its position or for its table waits for one of *)
(* them, once; the position that the table is for counts from the start of *)
(* the flash, and nothing has been read yet.                               *)
TableReqs == {Table, Backup, EraseTable, WriteTable}
Quiet == AreaReads \cup {EraseTable, WriteTable}
NoPos == prio \in Seq({"put"})
NoTable == reads \in Seq(Quiet)

OneTable ==
    state = "GET_LOG" =>
       /\ AtMostOne(prio, {"put"}) /\ AtMostOne(reads, Quiet)
       /\ NoPos \/ NoTable
       /\ ~NoTable => curr >= Base
       /\ ~(NoPos /\ NoTable) => start = 0 /\ logtype

InArea ==
    /\ area = "ring"
    /\ start \in CellPos
    /\ curr \in 0..(Base + NumCells - 1)
    /\ reads \in Seq(AreaReads \cup TableReqs)
    /\ OneTable

IInv == TypeOK /\ (~rebased => InArea)

-----------------------------------------------------------------------------
(* Sizes.                                                                  *)

LEMMA TimesNat ==
    ASSUME NEW a \in Nat \ {0}, NEW b \in Nat \ {0}
    PROVE  a * b \in Nat \ {0}
  OBVIOUS

LEMMA Times3 ==
    ASSUME NEW a \in Nat, NEW b \in Nat, NEW c \in Nat
    PROVE  a * (b * c) = (a * b) * c
  OBVIOUS

LEMMA TimesLeq ==
    ASSUME NEW a \in Nat, NEW b \in Nat, NEW c \in Nat, a <= b
    PROVE  a * c <= b * c /\ a * c \in Nat /\ b * c \in Nat
  <1>1. PICK d \in Nat : b = a + d
    BY Z3
  <1>2. b * c = (a * c) + (d * c) /\ d * c \in Nat /\ a * c \in Nat
    BY <1>1
  <1> QED
    BY <1>2

LEMMA TimesPlus ==
    ASSUME NEW a \in Nat, NEW b \in Nat
    PROVE  (a + 1) * b = (a * b) + b /\ a * b \in Nat
  OBVIOUS

LEMMA TimesMore ==
    ASSUME NEW a \in Nat \ {0}, NEW b \in Nat \ {0}
    PROVE  a <= a * b /\ b <= a * b
  <1>1. 1 * b <= a * b
    BY TimesLeq
  <1>2. 1 * a <= b * a
    BY TimesLeq
  <1> QED
    BY <1>1, <1>2

LEMMA LogSizes ==
    /\ ChunkCells \in Nat \ {0} /\ BlockCells \in Nat \ {0} /\ NumCells \in Nat \ {0}
    /\ Blocks \in Nat \ {0} /\ Blocks * BlockChunks \in Nat \ {0} /\ Base \in Nat
    /\ NumCells = Blocks * BlockCells
    /\ NumCells = (Blocks * BlockChunks) * ChunkCells
    /\ 0 \in CellPos
  <1>1. ChunkCells \in Nat \ {0} /\ Blocks \in Nat \ {0} /\ BlockChunks \in Nat \ {0} /\ AreaStart \in Nat \ {0}
    BY LogAssumption
  <1>2. BlockCells \in Nat \ {0} /\ Blocks * BlockChunks \in Nat \ {0}
    BY <1>1, TimesNat DEF BlockCells
  <1>3. NumCells \in Nat \ {0} /\ NumCells = Blocks * BlockCells
    BY <1>1, <1>2, TimesNat DEF NumCells
  <1>4. Base \in Nat
    BY <1>1, <1>2, TimesNat DEF Base
  <1>5. NumCells = (Blocks * BlockChunks) * ChunkCells
    BY <1>1, <1>3, Times3 DEF BlockCells
  <1>6. 0 \in CellPos
    BY <1>3 DEF CellPos
  <1> QED
    BY <1>1, <1>2, <1>3, <1>4, <1>5, <1>6

(* The areas lie in the flash, and the flash in what 32 bits address.      *)
LEMMA FlashSizes ==
    /\ AddrCells \in Nat \ {0} /\ Word \in Nat \ {0} /\ Word * BlockCells \in Nat \ {0}
    /\ Base + NumCells <= AddrCells /\ PersBlocks * BlockCells <= AddrCells
    /\ AddrCells <= Word * BlockCells /\ AddrBlocks <= AddrCells /\ 16 * AddrCells = Word
    /\ Blocks < Word
    /\ PersBlocks \in Nat \ {0} /\ AddrBlocks \in Nat
  <1>1. /\ AreaStart \in Nat /\ Blocks \in Nat /\ PersStart \in Nat /\ PersBlocks \in Nat \ {0}
        /\ AddrBlocks \in Nat \ {0} /\ AreaStart + Blocks <= AddrBlocks /\ PersBlocks <= AddrBlocks
        /\ Blocks <= AddrBlocks
    BY LogAssumption
  <1>2. BlockCells \in Nat \ {0}
    BY LogSizes
  <1>3. AddrCells \in Nat \ {0} /\ AddrBlocks <= AddrCells
    BY <1>1, <1>2, TimesNat, TimesMore DEF AddrCells
  <1>4. Word \in Nat \ {0} /\ Word = 16 * AddrCells
    BY <1>3 DEF Word
  <1>5. Word * BlockCells \in Nat \ {0} /\ Word <= Word * BlockCells
    BY <1>2, <1>4, TimesNat, TimesMore
  <1>6. (AreaStart + Blocks) * BlockCells <= AddrBlocks * BlockCells
    BY <1>1, <1>2, TimesLeq
  <1>7. (AreaStart + Blocks) * BlockCells = (AreaStart * BlockCells) + (Blocks * BlockCells)
    BY <1>1, <1>2
  <1>8. Base + NumCells <= AddrCells
    BY <1>6, <1>7 DEF Base, NumCells, AddrCells
  <1>9. PersBlocks * BlockCells <= AddrCells
    BY <1>1, <1>2, TimesLeq DEF AddrCells
  <1> HIDE DEF AddrCells, Word
  <1>10. AddrCells <= Word * BlockCells /\ Blocks < Word
    BY <1>1, <1>3, <1>4, <1>5
  <1> QED
    BY <1>1, <1>3, <1>4, <1>5, <1>8, <1>9, <1>10

(* The reads of the two areas.                                             *)
LEMMA ReadSizes ==
    /\ FlashChunks \in Nat \ {0} /\ AreaFirst \in Nat /\ BlockChunks \in Nat \ {0}
    /\ AreaFirst + (Blocks * BlockChunks) <= FlashChunks
    /\ (AreaStart + Blocks) * BlockChunks = AreaFirst + (Blocks * BlockChunks)
    /\ PersStart * BlockChunks \in Nat /\ PersStart * BlockChunks < FlashChunks
    /\ BlockChunks < AreaFirst
    /\ Blocks * BlockChunks \in Nat \ {0}
  <1>1. /\ AreaStart \in Nat /\ Blocks \in Nat \ {0} /\ PersStart \in Nat /\ BlockChunks \in Nat \ {0}
        /\ FlashBlocks \in Nat \ {0} /\ AreaStart + Blocks <= FlashBlocks /\ PersStart + 1 <= FlashBlocks
        /\ 2 <= AreaStart
    BY LogAssumption
  <1>2. FlashChunks \in Nat \ {0} /\ AreaFirst \in Nat /\ Blocks * BlockChunks \in Nat \ {0}
    BY <1>1, TimesNat DEF FlashChunks, AreaFirst
  <1>3. (AreaStart + Blocks) * BlockChunks <= FlashChunks
    BY <1>1, TimesLeq DEF FlashChunks
  <1>4. (AreaStart + Blocks) * BlockChunks = AreaFirst + (Blocks * BlockChunks)
    BY <1>1 DEF AreaFirst
  <1>5. (PersStart + 1) * BlockChunks <= FlashChunks
    BY <1>1, TimesLeq DEF FlashChunks
  <1>6. (PersStart + 1) * BlockChunks = (PersStart * BlockChunks) + BlockChunks /\ PersStart * BlockChunks \in Nat
    BY <1>1
  <1>7. 2 * BlockChunks <= AreaFirst
    BY <1>1, TimesLeq DEF AreaFirst
  <1> HIDE DEF FlashChunks, AreaFirst
  <1>8. PersStart * BlockChunks < FlashChunks /\ BlockChunks < AreaFirst
    BY <1>1, <1>2, <1>5, <1>6, <1>7
  <1> QED
    BY <1>1, <1>2, <1>3, <1>4, <1>6, <1>8

(* Quotients and products.                                                 *)
LEMMA DivUnique ==
    ASSUME NEW n \in Nat \ {0}, NEW q \in Nat, NEW k \in Nat, NEW a \in Nat,
           n * q <= a, a < n * (q + 1), a < n * k
    PROVE  q < k
  <1> SUFFICES ASSUME q >= k PROVE FALSE
    OBVIOUS
  <1>1. PICK d \in Nat : q = k + d
    BY Z3
  <1>2. n * q = (n * k) + (n * d) /\ n * d \in Nat /\ n * k \in Nat
    BY <1>1
  <1> QED
    BY <1>2

LEMMA Quotient ==
    ASSUME NEW n \in Nat \ {0}, NEW k \in Nat, NEW a \in Nat, a < n * k
    PROVE  /\ a \div n \in Nat /\ a \div n < k
           /\ n * (a \div n) <= a /\ a < n * ((a \div n) + 1)
  <1> DEFINE q == a \div n
             r == a % n
  <1>1. q \in Nat /\ r \in 0..(n - 1) /\ a = (n * q) + r
    OBVIOUS
  <1> HIDE DEF q, r
  <1>2. n * (q + 1) = (n * q) + n /\ n * q \in Nat
    BY <1>1
  <1>3. n * q <= a /\ a < n * (q + 1)
    BY <1>1, <1>2
  <1>4. q < k
    BY <1>1, <1>3, DivUnique
  <1> QED
    BY <1>1, <1>3, <1>4 DEF q

LEMMA SmallMod ==
    ASSUME NEW n \in Nat \ {0}, NEW a \in Nat, a < n
    PROVE  a % n = a /\ n % n = 0 /\ (a + n) % n = a
  OBVIOUS

(* Where the block behind the position begins.                             *)
LEMMA NextBlockStart ==
    ASSUME NEW pos \in CellPos
    PROVE  /\ NextBlock(Blocks, pos) \in Nat /\ NextBlock(Blocks, pos) * BlockCells \in CellPos
           /\ NextBlock(Blocks, pos) # 0 => NextBlock(Blocks, pos) * BlockCells > pos
           /\ NextBlock(Blocks, pos) = 0 => NextBlock(Blocks, pos) * BlockCells = 0
           /\ NextBlock(Blocks, pos) = ((pos \div BlockCells) + 1) % Blocks
           /\ LogPos(pos) = pos
  <1> DEFINE q == pos \div BlockCells
  <1>1. pos \in Nat /\ pos < BlockCells * Blocks
    BY LogSizes DEF CellPos
  <1>2. q \in Nat /\ q < Blocks /\ pos < BlockCells * (q + 1)
    BY <1>1, LogSizes, Quotient
  <1> HIDE DEF q
  <1>3. NextBlock(Blocks, pos) = (q + 1) % Blocks
    <2>1. q + 1 < Word /\ q + 1 \in Nat
      BY <1>2, LogSizes, FlashSizes
    <2>2. (q + 1) % Word = q + 1
      BY <2>1, FlashSizes, SmallMod
    <2> QED
      BY <2>2 DEF NextBlock, q
  <1>10. NextBlock(Blocks, pos) = ((pos \div BlockCells) + 1) % Blocks
    BY <1>3 DEF q
  <1>11. LogPos(pos) = pos
    <2>1. pos < AddrCells
      BY <1>1, LogSizes, FlashSizes DEF CellPos
    <2> QED
      BY <1>1, <2>1, FlashSizes, SmallMod DEF LogPos
  <1>4. CASE q + 1 = Blocks
    <2>1. NextBlock(Blocks, pos) = 0
      BY <1>3, <1>4, LogSizes, SmallMod
    <2> QED
      BY <1>10, <1>11, <2>1, LogSizes
  <1>5. CASE q + 1 # Blocks
    <2>1. NextBlock(Blocks, pos) = q + 1 /\ q + 1 < Blocks
      BY <1>2, <1>3, <1>5, LogSizes, SmallMod
    <2>2. PICK d \in Nat \ {0} : Blocks = (q + 1) + d
      BY <1>2, <2>1, LogSizes, Z3
    <2>3. /\ Blocks * BlockCells = ((q + 1) * BlockCells) + (d * BlockCells)
          /\ d * BlockCells \in Nat \ {0} /\ (q + 1) * BlockCells \in Nat
          /\ (q + 1) * BlockCells = BlockCells * (q + 1)
      BY <1>2, <2>2, LogSizes, TimesNat
    <2>4. (q + 1) * BlockCells \in CellPos
      BY <2>3, LogSizes DEF CellPos
    <2> QED
      BY <1>2, <1>10, <1>11, <2>1, <2>3, <2>4
  <1> QED
    BY <1>4, <1>5

-----------------------------------------------------------------------------
(* Where a get_log starts to read.                                         *)

LEMMA DistanceIs ==
    ASSUME NEW p \in CellPos, NEW q \in CellPos
    PROVE  Distance(p, q) = IF q >= p THEN q - p ELSE (q - p) + NumCells
  <1>1. p \in Nat /\ q \in Nat /\ p < NumCells /\ q < NumCells
    BY LogSizes DEF CellPos
  <1>2. CASE q >= p
    <2>1. q - p \in Nat /\ q - p < NumCells
      BY <1>1, <1>2, LogSizes
    <2> HIDE DEF Distance
    <2>2. ((q - p) + NumCells) % NumCells = q - p
      BY <2>1, LogSizes, SmallMod
    <2> QED
      BY <1>2, <2>2 DEF Distance
  <1>3. CASE ~(q >= p)
    <2>1. (q - p) + NumCells \in Nat /\ (q - p) + NumCells < NumCells
      BY <1>1, <1>3, LogSizes
    <2>2. ((q - p) + NumCells) % NumCells = (q - p) + NumCells
      BY <2>1, LogSizes, SmallMod
    <2> QED
      BY <1>3, <2>2 DEF Distance
  <1> QED
    BY <1>2, <1>3

(* The oldest cell is at the start of the area, or behind the position.    *)
LEMMA OldestIs ==
    ASSUME NEW pos \in CellPos
    PROVE  /\ Oldest(pos) \in CellPos
           /\ ~wrapflag => Oldest(pos) = 0
           /\ wrapflag => Oldest(pos) = NextBlock(Blocks, pos) * BlockCells
           /\ wrapflag /\ NextBlock(Blocks, pos) = 0 => Oldest(pos) = 0
           /\ wrapflag /\ NextBlock(Blocks, pos) # 0 => Oldest(pos) > pos
           /\ Available(pos) = IF pos >= Oldest(pos) THEN pos - Oldest(pos)
                               ELSE (pos - Oldest(pos)) + NumCells
  <1>1. Oldest(pos) = IF wrapflag THEN NextBlock(Blocks, pos) * BlockCells ELSE 0
    BY NextBlockStart DEF Oldest
  <1>2. Oldest(pos) \in CellPos
    BY <1>1, NextBlockStart, LogSizes
  <1> QED
    BY <1>1, <1>2, NextBlockStart, DistanceIs DEF Available

LEMMA StartWrapIs ==
    ASSUME NEW pos \in CellPos, NEW from \in CellPos, wrapflag
    PROVE  /\ StartWrap(from, Blocks, pos) \in CellPos
           /\ from < pos => StartWrap(from, Blocks, pos) = from
           /\ from >= pos /\ Oldest(pos) <= pos => StartWrap(from, Blocks, pos) = 0 /\ Oldest(pos) = 0
           /\ from >= pos /\ Oldest(pos) > pos =>
                 StartWrap(from, Blocks, pos) = IF Oldest(pos) < from THEN from ELSE Oldest(pos)
  <1> DEFINE nb == NextBlock(Blocks, pos)
             old == Oldest(pos)
  <1>1. /\ old \in CellPos /\ old = nb * BlockCells /\ (nb = 0 => old = 0) /\ (nb # 0 => old > pos)
    BY OldestIs
  <1>2. StartWrap(from, Blocks, pos) = IF from < pos THEN from ELSE IF old = 0 THEN 0
                               ELSE IF old < from THEN from ELSE old
    BY <1>1, NextBlockStart DEF StartWrap
  <1>3. pos \in Nat /\ from \in Nat /\ old \in Nat /\ 0 \in CellPos
    BY <1>1, LogSizes DEF CellPos
  <1> HIDE DEF nb, old
  <1>4. /\ StartWrap(from, Blocks, pos) \in CellPos
        /\ from < pos => StartWrap(from, Blocks, pos) = from
        /\ from >= pos /\ old <= pos => StartWrap(from, Blocks, pos) = 0 /\ old = 0
        /\ from >= pos /\ old > pos => StartWrap(from, Blocks, pos) = IF old < from THEN from ELSE old
    BY <1>1, <1>2, <1>3
  <1> QED
    BY <1>4 DEF old

(* The start is a cell of the area; what it leaves to read is what was     *)
(* asked for.                                                              *)
AsAsked(pos, first) ==
    LET n == Distance(first, pos)
        held == Available(pos)
    IN /\ n <= held
       /\ (entries >= NumCells \/ -entries >= NumCells) => n = held
       /\ (entries < 0 /\ -entries < NumCells) => n = AtMost(CellsBack(pos), held)
       /\ (entries \in CellPos /\ Distance(Oldest(pos), entries) < held) => first = entries

LEMMA StartIs ==
    ASSUME NEW pos \in CellPos, entries \in Int, start = 0, wrapflag \in BOOLEAN
    PROVE  StartFor(Blocks, pos) \in CellPos /\ AsAsked(pos, StartFor(Blocks, pos))
  <1> DEFINE old == Oldest(pos)
             held == Available(pos)
             last == 0 - entries
             back == IF wrapflag /\ last > pos THEN last + 1 ELSE last
             first == StartFor(Blocks, pos)
             n == IF pos >= first THEN pos - first ELSE (pos - first) + NumCells
             Right ==
                /\ n <= held
                /\ entries >= NumCells \/ last >= NumCells => n = held
                /\ entries < 0 /\ last < NumCells => n = IF back < held THEN back ELSE held
                /\ (/\ entries >= 0 /\ entries < NumCells
                    /\ (IF entries >= old THEN entries - old ELSE (entries - old) + NumCells) < held)
                   => first = entries
  <1>1. /\ pos \in Nat /\ pos < NumCells /\ NumCells \in Nat \ {0} /\ entries \in Int /\ last \in Int
        /\ last = -entries /\ 1 - entries = last + 1
    BY LogSizes DEF CellPos
  <1>2. old \in CellPos /\ old \in Nat /\ old < NumCells
    BY OldestIs, LogSizes DEF CellPos
  <1>3. /\ held = IF pos >= old THEN pos - old ELSE (pos - old) + NumCells
        /\ ~wrapflag => old = 0
        /\ wrapflag => old = 0 \/ old > pos
    BY OldestIs
  <1>4. entries \in CellPos <=> entries >= 0 /\ entries < NumCells
    BY <1>1, LogSizes DEF CellPos
  <1>5. entries \in CellPos =>
           Distance(old, entries) = IF entries >= old THEN entries - old ELSE (entries - old) + NumCells
    BY <1>2, DistanceIs
  <1>6. ASSUME first \in CellPos, Right
        PROVE  first \in CellPos /\ AsAsked(pos, first)
    <2>1. Distance(first, pos) = n
      BY <1>6, DistanceIs
    <2>2. CellsBack(pos) = back
      BY <1>1 DEF CellsBack
    <2>3. AtMost(CellsBack(pos), held) = (IF back < held THEN back ELSE held)
      BY <2>2 DEF AtMost
    <2> HIDE DEF old, held, last, first
    <2>4. /\ Distance(first, pos) <= held
          /\ (entries >= NumCells \/ -entries >= NumCells) => Distance(first, pos) = held
      BY <1>1, <1>6, <2>1
    <2>5. (entries < 0 /\ -entries < NumCells) =>
             Distance(first, pos) = AtMost(CellsBack(pos), held)
      <3>1. entries < 0 /\ last < NumCells => n = (IF back < held THEN back ELSE held)
        BY <1>6
      <3> HIDE DEF n, back
      <3> QED
        BY <1>1, <2>1, <2>3, <3>1
    <2>6. (entries \in CellPos /\ Distance(old, entries) < held) => first = entries
      BY <1>4, <1>5, <1>6
    <2> QED
      BY <1>6, <2>4, <2>5, <2>6 DEF AsAsked, held, old
  <1>7. ASSUME NEW f, f \in Int, first = f, f >= 0, f < NumCells
        PROVE  first \in CellPos /\ f \in Nat
    BY <1>1, <1>7, LogSizes DEF CellPos
  <1>8. CASE ~wrapflag
    <2>1. first = IF entries >= NumCells \/ last >= NumCells THEN 0
                  ELSE IF entries < 0 THEN (IF last >= pos THEN 0 ELSE pos - last)
                  ELSE IF entries >= pos THEN 0 ELSE entries
      BY <1>8, NextBlockStart DEF StartFor, FromLast, All, NumCells
    <2>2. old = 0 /\ held = pos
      BY <1>1, <1>3, <1>8
    <2> HIDE DEF old, held, last, first
    <2>3. first \in Int /\ first >= 0 /\ first < NumCells
      BY <1>1, <2>1
    <2>9. Right
      BY <1>1, <2>1, <2>2, <2>3
    <2> HIDE DEF Right
    <2> QED
      BY <1>6, <2>9, <2>3, <1>7 DEF first
  <1>9. CASE wrapflag
    <2> DEFINE fromLast == (NumCells - 1) - (last - pos)
               fromPos == pos - last
    <2>1. first = IF entries >= NumCells \/ last >= NumCells THEN old
                  ELSE IF entries >= 0 THEN StartWrap(entries, Blocks, pos)
                  ELSE IF last > pos THEN StartWrap(fromLast, Blocks, pos)
                  ELSE StartWrap(fromPos, Blocks, pos)
      BY <1>9, OldestIs, NextBlockStart DEF StartFor, All, NumCells
    <2>2. ASSUME NEW from \in CellPos
          PROVE  /\ StartWrap(from, Blocks, pos) \in CellPos
                 /\ from < pos => StartWrap(from, Blocks, pos) = from
                 /\ from >= pos /\ old <= pos => StartWrap(from, Blocks, pos) = 0 /\ old = 0
                 /\ from >= pos /\ old > pos =>
                       StartWrap(from, Blocks, pos) = IF old < from THEN from ELSE old
      BY <1>9, StartWrapIs
    <2> HIDE DEF old, held, last, first
    <2>3. CASE entries >= NumCells \/ last >= NumCells
      <3>1. first = old
        BY <2>1, <2>3
      <3>9. Right
        BY <1>1, <1>2, <1>3, <2>3, <3>1
      <3> HIDE DEF Right
      <3> QED
        BY <1>6, <3>9, <1>2, <3>1 DEF first
    <2>4. CASE entries >= 0 /\ entries < NumCells
      <3>1. first = StartWrap(entries, Blocks, pos) /\ entries \in CellPos
        BY <1>1, <1>4, <2>1, <2>4
      <3>2. /\ first \in CellPos
            /\ entries < pos => first = entries
            /\ entries >= pos /\ old <= pos => first = 0 /\ old = 0
            /\ entries >= pos /\ old > pos => first = IF old < entries THEN entries ELSE old
        BY <2>2, <3>1
      <3>9. Right
        BY <1>1, <1>2, <1>3, <2>4, <3>2
      <3> HIDE DEF Right
      <3> QED
        BY <1>6, <3>9, <3>2 DEF first
    <2>5. CASE entries < 0 /\ last < NumCells /\ last > pos
      <3>1. first = StartWrap(fromLast, Blocks, pos)
        BY <1>1, <2>1, <2>5
      <3>2. fromLast \in CellPos /\ fromLast \in Nat /\ fromLast >= pos
        BY <1>1, <2>5, LogSizes DEF CellPos
      <3>3. /\ first \in CellPos
            /\ old <= pos => first = 0 /\ old = 0
            /\ old > pos => first = IF old < fromLast THEN fromLast ELSE old
        BY <2>2, <3>1, <3>2
      <3>9. Right
        BY <1>1, <1>2, <1>3, <2>5, <3>2, <3>3
      <3> HIDE DEF Right
      <3> QED
        BY <1>6, <3>9, <3>3 DEF first
    <2>6. CASE entries < 0 /\ last < NumCells /\ last <= pos
      <3>1. first = StartWrap(fromPos, Blocks, pos)
        BY <1>1, <2>1, <2>6
      <3>2. fromPos \in CellPos /\ fromPos \in Nat /\ fromPos < pos
        BY <1>1, <2>6, LogSizes DEF CellPos
      <3>3. first \in CellPos /\ first = fromPos
        BY <2>2, <3>1, <3>2
      <3>9. Right
        BY <1>1, <1>2, <1>3, <2>6, <3>2, <3>3
      <3> HIDE DEF Right
      <3> QED
        BY <1>6, <3>9, <3>3 DEF first
    <2> QED
      BY <1>1, <2>3, <2>4, <2>5, <2>6
  <1> QED
    BY <1>8, <1>9

-----------------------------------------------------------------------------
(* Sequences.                                                              *)

LEMMA EmptySeq == ASSUME NEW S PROVE <<>> \in Seq(S)
  OBVIOUS

LEMMA AppendSeq ==
    ASSUME NEW S, NEW s \in Seq(S), NEW e \in S
    PROVE  Append(s, e) \in Seq(S)
  OBVIOUS

LEMMA HeadTailSeq ==
    ASSUME NEW S, NEW s \in Seq(S), s # <<>>
    PROVE  Head(s) \in S /\ Tail(s) \in Seq(S)
  OBVIOUS

LEMMA ElementsSeq ==
    ASSUME NEW S, NEW T, NEW s \in Seq(T), \A i \in DOMAIN s : s[i] \in S
    PROVE  s \in Seq(S)
  OBVIOUS

(* A queue with at most one other element.                                 *)
LEMMA NoneIsOther ==
    ASSUME NEW S, NEW q \in Seq(S)
    PROVE  AtMostOne(q, S)
  BY DEF AtMostOne

LEMMA AppendOther ==
    ASSUME NEW S, NEW q \in Seq(S), NEW x
    PROVE  AtMostOne(Append(q, x), S)
  <1> SUFFICES ASSUME NEW i \in DOMAIN Append(q, x), NEW j \in DOMAIN Append(q, x),
                      Append(q, x)[i] \notin S, Append(q, x)[j] \notin S
               PROVE  i = j
    BY DEF AtMostOne
  <1>1. ASSUME NEW k \in DOMAIN Append(q, x), Append(q, x)[k] \notin S PROVE k = Len(q) + 1
    <2>1. Len(q) \in Nat /\ k \in 1..(Len(q) + 1) /\ (k \in 1..Len(q) => Append(q, x)[k] = q[k])
      BY <1>1
    <2>2. \A n \in 1..Len(q) : q[n] \in S
      OBVIOUS
    <2> QED
      BY <1>1, <2>1, <2>2
  <1> QED
    BY <1>1

LEMMA AppendUsual ==
    ASSUME NEW S, NEW T, NEW q \in Seq(T), AtMostOne(q, S), NEW x \in S
    PROVE  AtMostOne(Append(q, x), S)
  <1> SUFFICES ASSUME NEW i \in DOMAIN Append(q, x), NEW j \in DOMAIN Append(q, x),
                      Append(q, x)[i] \notin S, Append(q, x)[j] \notin S
               PROVE  i = j
    BY DEF AtMostOne
  <1>1. ASSUME NEW k \in DOMAIN Append(q, x), Append(q, x)[k] \notin S
        PROVE  k \in DOMAIN q /\ q[k] \notin S
    <2>1. /\ Len(q) \in Nat /\ k \in 1..(Len(q) + 1) /\ (k \in 1..Len(q) => Append(q, x)[k] = q[k])
          /\ Append(q, x)[Len(q) + 1] = x /\ DOMAIN q = 1..Len(q)
      BY <1>1
    <2> QED
      BY <1>1, <2>1
  <1> QED
    BY <1>1 DEF AtMostOne

LEMMA TailOther ==
    ASSUME NEW S, NEW T, NEW q \in Seq(T), AtMostOne(q, S), q # <<>>
    PROVE  /\ AtMostOne(Tail(q), S)
           /\ Head(q) \notin S => Tail(q) \in Seq(S)
           /\ Head(q) \in S /\ Tail(q) \in Seq(S) => q \in Seq(S)
  <1>1. /\ Len(q) \in Nat \ {0} /\ DOMAIN q = 1..Len(q) /\ Head(q) = q[1]
        /\ DOMAIN Tail(q) = 1..(Len(q) - 1)
        /\ \A k \in 1..(Len(q) - 1) : Tail(q)[k] = q[k + 1]
        /\ Tail(q) \in Seq(T) /\ Len(Tail(q)) = Len(q) - 1
    OBVIOUS
  <1>2. AtMostOne(Tail(q), S)
    <2> SUFFICES ASSUME NEW i \in DOMAIN Tail(q), NEW j \in DOMAIN Tail(q),
                        Tail(q)[i] \notin S, Tail(q)[j] \notin S
                 PROVE  i = j
      BY DEF AtMostOne
    <2>1. i + 1 \in DOMAIN q /\ j + 1 \in DOMAIN q /\ i \in Nat /\ j \in Nat
          /\ q[i + 1] \notin S /\ q[j + 1] \notin S
      BY <1>1
    <2>2. i + 1 = j + 1
      BY <2>1 DEF AtMostOne
    <2> QED
      BY <2>1, <2>2
  <1>3. ASSUME Head(q) \notin S PROVE Tail(q) \in Seq(S)
    <2>1. ASSUME NEW k \in DOMAIN Tail(q) PROVE Tail(q)[k] \in S
      <3>1. k + 1 \in DOMAIN q /\ 1 \in DOMAIN q /\ k + 1 # 1 /\ Tail(q)[k] = q[k + 1]
        BY <1>1
      <3> QED
        BY <1>1, <1>3, <3>1 DEF AtMostOne
    <2> QED
      BY <1>1, <2>1, ElementsSeq
  <1>4. ASSUME Head(q) \in S, Tail(q) \in Seq(S) PROVE q \in Seq(S)
    <2>1. ASSUME NEW k \in DOMAIN q PROVE q[k] \in S
      <3>1. CASE k = 1
        BY <1>1, <1>4, <3>1
      <3>2. CASE k # 1
        <4>1. k - 1 \in DOMAIN Tail(q) /\ (k - 1) + 1 = k
          BY <1>1, <3>2
        <4> QED
          BY <1>1, <1>4, <4>1
      <3> QED
        BY <3>1, <3>2
    <2> QED
      BY <2>1, ElementsSeq
  <1> QED
    BY <1>2, <1>3, <1>4

-----------------------------------------------------------------------------
(* The loop over the cells of a chunk.                                     *)

NatLess == {p \in Nat \X Nat : p[1] < p[2]}

LEMMA NatLessWellFounded == IsWellFoundedOn(NatLess, Nat)
  <1>1. OpToRel(<, Nat) = NatLess
    BY DEF OpToRel, NatLess
  <1> QED
    BY <1>1, NatLessThanWellFounded

(* Induction, for the membership in a set.                                 *)
LEMMA NatSetInduction ==
    ASSUME NEW S, 0 \in S, \A n \in Nat : n \in S => n + 1 \in S
    PROVE  \A n \in Nat : n \in S
  <1> DEFINE T == {n \in Nat : n \notin S}
  <1>1. SUFFICES ASSUME T # {} PROVE FALSE
    OBVIOUS
  <1>2. T \subseteq Nat
    OBVIOUS
  <1> HIDE DEF T
  <1>3. PICK x \in T : \A y \in T : ~(<<y, x>> \in NatLess)
    BY NatLessWellFounded, WFMin, <1>1, <1>2
  <1>4. x \in Nat /\ x \notin S
    BY <1>3 DEF T
  <1>5. x # 0 /\ x - 1 \in Nat /\ x - 1 < x /\ (x - 1) + 1 = x
    BY <1>4
  <1>6. x - 1 \in S
    <2>1. <<x - 1, x>> \in NatLess
      BY <1>4, <1>5 DEF NatLess
    <2> QED
      BY <1>3, <1>5, <2>1 DEF T
  <1> QED
    BY <1>4, <1>5, <1>6

ScanStart == [logdata |-> logdata, out |-> delivered, stop |-> FALSE]
CellAt(chunk, i) == ((chunk * ChunkCells) + i) - 1

IsScan(g, last, chunk) ==
    g = [i \in 0..last |-> IF i = 0 THEN ScanStart ELSE ScanCell(g[i - 1], CellAt(chunk, i))]

LEMMA ScanExists ==
    ASSUME NEW chunk
    PROVE  \A k \in Nat : \E g : IsScan(g, k, chunk)
  <1> DEFINE S == {k \in Nat : \E g : IsScan(g, k, chunk)}
  <1>1. 0 \in S
    <2>1. IsScan([i \in 0..0 |-> ScanStart], 0, chunk)
      BY DEF IsScan
    <2> QED
      BY <2>1
  <1>2. ASSUME NEW k \in Nat, k \in S PROVE k + 1 \in S
    <2>1. PICK g : IsScan(g, k, chunk)
      BY <1>2
    <2> DEFINE h == [i \in 0..(k + 1) |->
                       IF i = k + 1 THEN ScanCell(g[i - 1], CellAt(chunk, i)) ELSE g[i]]
    <2>2. \A i \in 0..k :
             /\ h[i] = g[i]
             /\ g[i] = IF i = 0 THEN ScanStart ELSE ScanCell(g[i - 1], CellAt(chunk, i))
      BY <2>1 DEF IsScan
    <2>3. ASSUME NEW i \in 0..(k + 1)
          PROVE  h[i] = IF i = 0 THEN ScanStart ELSE ScanCell(h[i - 1], CellAt(chunk, i))
      <3>1. CASE i = 0
        <4>1. i \in 0..k
          BY <3>1
        <4> QED
          BY <2>2, <3>1, <4>1
      <3>2. CASE i # 0
        <4>1. i - 1 \in 0..k
          BY <3>2
        <4>2. h[i - 1] = g[i - 1]
          BY <2>2, <4>1
        <4>3. h[i] = ScanCell(g[i - 1], CellAt(chunk, i))
          <5>1. CASE i = k + 1
            BY <5>1
          <5>2. CASE i # k + 1
            <6>1. i \in 0..k
              BY <5>2
            <6> QED
              BY <2>2, <3>2, <6>1
          <5> QED
            BY <5>1, <5>2
        <4> HIDE DEF h
        <4> QED
          BY <3>2, <4>2, <4>3
      <3> QED
        BY <3>1, <3>2
    <2>4. h = [i \in 0..(k + 1) |-> h[i]]
      OBVIOUS
    <2> HIDE DEF h
    <2>5. IsScan(h, k + 1, chunk)
      BY <2>3, <2>4 DEF IsScan
    <2> QED
      BY <2>5
  <1>3. \A k \in Nat : k \in S
    <2> HIDE DEF S
    <2> QED
      BY <1>1, <1>2, NatSetInduction
  <1> QED
    BY <1>3

(* ScanUpTo satisfies its equation.                                        *)
LEMMA ScanEquation ==
    ASSUME NEW chunk
    PROVE  IsScan(ScanUpTo(chunk), ChunkCells, chunk)
  <1>1. \E g : IsScan(g, ChunkCells, chunk)
    BY LogSizes, ScanExists
  <1> DEFINE Fits(g) == g = [i \in 0..ChunkCells |->
                               IF i = 0 THEN [logdata |-> logdata, out |-> delivered, stop |-> FALSE]
                               ELSE ScanCell(g[i - 1], ((chunk * ChunkCells) + i) - 1)]
  <1>2. \A g : Fits(g) <=> IsScan(g, ChunkCells, chunk)
    BY DEF IsScan, ScanStart, CellAt
  <1>3. ScanUpTo(chunk) = CHOOSE g : Fits(g)
    BY DEF ScanUpTo
  <1> HIDE DEF Fits
  <1>4. \E g : Fits(g)
    BY <1>1, <1>2
  <1>5. Fits(ScanUpTo(chunk))
    BY <1>3, <1>4, Zenon
  <1> QED
    BY <1>2, <1>5

(* The loop, cell by cell.                                                 *)
LEMMA ScanSteps ==
    ASSUME NEW chunk
    PROVE  /\ ScanUpTo(chunk)[0] = ScanStart
           /\ \A i \in 0..ChunkCells : i # ChunkCells =>
                 ScanUpTo(chunk)[i + 1] = ScanCell(ScanUpTo(chunk)[i], CellAt(chunk, i + 1))
           /\ Scan(chunk) = ScanUpTo(chunk)[ChunkCells]
  <1> DEFINE g == ScanUpTo(chunk)
  <1>1. g = [i \in 0..ChunkCells |-> IF i = 0 THEN ScanStart ELSE ScanCell(g[i - 1], CellAt(chunk, i))]
    BY ScanEquation DEF IsScan
  <1> HIDE DEF g
  <1>2. \A i \in 0..ChunkCells : g[i] = IF i = 0 THEN ScanStart ELSE ScanCell(g[i - 1], CellAt(chunk, i))
    BY <1>1
  <1>3. 0 \in 0..ChunkCells /\ g[0] = ScanStart
    BY <1>2, LogSizes
  <1>4. ASSUME NEW i \in 0..ChunkCells, i # ChunkCells
        PROVE  g[i + 1] = ScanCell(g[i], CellAt(chunk, i + 1))
    <2>1. i + 1 \in 0..ChunkCells /\ i + 1 # 0 /\ (i + 1) - 1 = i
      BY <1>4, LogSizes
    <2> QED
      BY <1>2, <2>1
  <1> QED
    BY <1>3, <1>4 DEF g, Scan

Logdata == [pos : CellPos, parts : Seq(CellType), rest : 0..ExtCells]
Delivered == [pos : CellPos, parts : Seq(CellType)]
Scanned == [logdata : Logdata, out : Seq(Delivered), stop : BOOLEAN]

LEMMA CellTypes ==
    /\ ExtCells \in Nat \ {0}
    /\ Empty \in CellType
    /\ None \in Logdata
    /\ \A id \in Nat, k \in 0..ExtCells : Cell(id, k) \in CellType
  <1>1. ExtCells \in Nat \ {0}
    BY LogAssumption
  <1>2. Empty \in CellType
    BY <1>1 DEF Empty, CellType
  <1>3. None \in Logdata
    BY <1>1, LogSizes, EmptySeq DEF None, Logdata
  <1>4. \A id \in Nat, k \in 0..ExtCells : Cell(id, k) \in CellType
    BY <1>1 DEF Cell, CellType
  <1> QED
    BY <1>1, <1>2, <1>3, <1>4

LEMMA DeliverTyped ==
    ASSUME NEW out \in Seq(Delivered), NEW p \in CellPos, NEW parts \in Seq(CellType)
    PROVE  Deliver(out, p, parts) \in Seq(Delivered)
  <1>1. [pos |-> p, parts |-> parts] \in Delivered
    BY DEF Delivered
  <1> QED
    BY <1>1, AppendSeq DEF Deliver

LEMMA ScanCellTyped ==
    ASSUME TypeOK, NEW acc \in Scanned, NEW p \in CellPos
    PROVE  ScanCell(acc, p) \in Scanned
  <1> DEFINE c == cells[p]
             ld == acc.logdata
  <1>1. /\ c \in CellType /\ ld \in Logdata /\ acc.out \in Seq(Delivered)
        /\ acc = [logdata |-> ld, out |-> acc.out, stop |-> acc.stop] /\ acc.stop \in BOOLEAN
    BY DEF TypeOK, Scanned
  <1>2. /\ c.parts \in 0..ExtCells /\ ld.pos \in CellPos /\ ld.parts \in Seq(CellType)
        /\ ld.rest \in 0..ExtCells
    BY <1>1 DEF CellType, Logdata
  <1>3. ASSUME NEW l \in Logdata PROVE [acc EXCEPT !.logdata = l] \in Scanned
    BY <1>1, <1>3 DEF Scanned
  <1>4. ASSUME NEW o \in Seq(Delivered) PROVE [acc EXCEPT !.out = o] \in Scanned
    BY <1>1, <1>4 DEF Scanned
  <1>5. <<c>> \in Seq(CellType) /\ Append(ld.parts, c) \in Seq(CellType)
    BY <1>1, <1>2, AppendSeq
  <1> HIDE DEF c, ld
  <1>6. CASE acc.stop
    BY <1>6 DEF ScanCell
  <1>7. CASE ~acc.stop /\ IsEmpty(c)
    <2>1. ScanCell(acc, p) = [acc EXCEPT !.stop = StopsAt(p)] /\ StopsAt(p) \in BOOLEAN
      BY <1>7 DEF ScanCell, StopsAt, c
    <2> QED
      BY <1>1, <2>1 DEF Scanned
  <1>8. CASE ~acc.stop /\ ~IsEmpty(c) /\ IsLong(c)
    <2> DEFINE l == [pos |-> p, parts |-> <<c>>, rest |-> c.parts]
    <2>1. ScanCell(acc, p) = [acc EXCEPT !.logdata = l]
      BY <1>8 DEF ScanCell, c
    <2>2. l \in Logdata
      BY <1>2, <1>5 DEF Logdata
    <2> HIDE DEF l
    <2> QED
      BY <1>3, <2>1, <2>2
  <1>9. CASE ~acc.stop /\ ~IsEmpty(c) /\ ~IsLong(c) /\ (~IsExtension(c) \/ ld = None)
    <2> DEFINE o == Deliver(acc.out, p, <<c>>)
    <2>1. ScanCell(acc, p) = [acc EXCEPT !.out = o]
      BY <1>1, <1>9 DEF ScanCell, c, ld
    <2>2. o \in Seq(Delivered)
      BY <1>1, <1>5, DeliverTyped
    <2> HIDE DEF o
    <2> QED
      BY <1>4, <2>1, <2>2
  <1>10. CASE ~acc.stop /\ ~IsEmpty(c) /\ ~IsLong(c) /\ ~(~IsExtension(c) \/ ld = None) /\ ld.rest > 1
    <2> DEFINE l == [pos |-> ld.pos, parts |-> Append(ld.parts, c), rest |-> ld.rest - 1]
    <2>1. ScanCell(acc, p) = [acc EXCEPT !.logdata = l]
      BY <1>10 DEF ScanCell, c, ld
    <2>2. ld.rest - 1 \in 0..ExtCells
      BY <1>2, <1>10, CellTypes
    <2>3. l \in Logdata
      BY <1>2, <1>5, <2>2 DEF Logdata
    <2> HIDE DEF l
    <2> QED
      BY <1>3, <2>1, <2>3
  <1>11. CASE ~acc.stop /\ ~IsEmpty(c) /\ ~IsLong(c) /\ ~(~IsExtension(c) \/ ld = None) /\ ~(ld.rest > 1)
    <2> DEFINE o == Deliver(acc.out, ld.pos, Append(ld.parts, c))
    <2>1. ScanCell(acc, p) = [acc EXCEPT !.logdata = None, !.out = o]
      BY <1>1, <1>11 DEF ScanCell, c, ld
    <2>2. o \in Seq(Delivered)
      BY <1>1, <1>2, <1>5, DeliverTyped
    <2> HIDE DEF o
    <2> QED
      BY <1>1, <2>1, <2>2, CellTypes DEF Scanned
  <1> QED
    BY <1>6, <1>7, <1>8, <1>9, <1>10, <1>11

(* The cells of a chunk.                                                   *)
LEMMA ChunkInArea ==
    ASSUME NEW chunk \in Chunks, NEW i \in 1..ChunkCells
    PROVE  CellAt(chunk, i) \in CellPos
  <1> DEFINE n == Blocks * BlockChunks
  <1>1. n \in Nat \ {0} /\ chunk \in Nat /\ chunk < n /\ NumCells = n * ChunkCells
    BY LogSizes DEF Chunks
  <1> HIDE DEF n
  <1>2. PICK d \in Nat : n = (chunk + 1) + d
    BY <1>1, Z3
  <1>3. /\ n * ChunkCells = ((chunk * ChunkCells) + ChunkCells) + (d * ChunkCells)
        /\ chunk * ChunkCells \in Nat /\ d * ChunkCells \in Nat
    BY <1>1, <1>2, LogSizes
  <1> QED
    BY <1>1, <1>3, LogSizes DEF CellAt, CellPos

LEMMA ScanTyped ==
    ASSUME TypeOK, NEW chunk \in Chunks
    PROVE  Scan(chunk) \in Scanned
  <1> DEFINE S == {i \in Nat : i <= ChunkCells => ScanUpTo(chunk)[i] \in Scanned}
  <1>1. 0 \in S
    <2>1. ScanStart \in Scanned
      BY DEF ScanStart, Scanned, TypeOK, Logdata, Delivered
    <2> QED
      BY <2>1, ScanSteps
  <1>2. ASSUME NEW i \in Nat, i \in S PROVE i + 1 \in S
    <2> SUFFICES ASSUME i + 1 <= ChunkCells PROVE ScanUpTo(chunk)[i + 1] \in Scanned
      OBVIOUS
    <2>1. i \in 0..ChunkCells /\ i # ChunkCells /\ i + 1 \in 1..ChunkCells /\ i <= ChunkCells
      BY LogSizes
    <2>2. ScanUpTo(chunk)[i] \in Scanned
      BY <1>2, <2>1
    <2>3. ScanUpTo(chunk)[i + 1] = ScanCell(ScanUpTo(chunk)[i], CellAt(chunk, i + 1))
      BY <2>1, ScanSteps
    <2>4. CellAt(chunk, i + 1) \in CellPos
      BY <2>1, ChunkInArea
    <2> QED
      BY <2>2, <2>3, <2>4, ScanCellTyped
  <1>3. \A i \in Nat : i \in S
    <2> HIDE DEF S
    <2> QED
      BY <1>1, <1>2, NatSetInduction
  <1> QED
    BY <1>3, LogSizes, ScanSteps

-----------------------------------------------------------------------------
(* Reads and starts, in the area and out of it.                            *)

AllReads == Reads \cup {EraseTable, WriteTable}

LEMMA ReadKinds ==
    /\ AreaReads \subseteq Reads /\ Table \in Reads /\ Backup \in Reads
    /\ Table \notin Quiet /\ Backup \notin Quiet /\ Table # Backup
    /\ EraseTable \notin Reads /\ WriteTable \notin Reads
    /\ Quiet \subseteq AreaReads \cup TableReqs
    /\ AreaReads \cup TableReqs \subseteq AllReads
  <1>1. AreaReads \subseteq Reads
    BY ReadSizes DEF AreaReads, Reads
  <1>2. Table \in Reads /\ Backup \in Reads /\ Table # Backup
    BY ReadSizes DEF Table, Backup, Reads
  <1>3. Table \notin AreaReads /\ Backup \notin AreaReads
    BY ReadSizes DEF Table, Backup, AreaReads
  <1>4. EraseTable \notin Reads /\ WriteTable \notin Reads
    BY ReadSizes DEF EraseTable, WriteTable, Reads
  <1>5. Table \notin Quiet /\ Backup \notin Quiet
    BY <1>2, <1>3, <1>4 DEF Quiet
  <1> QED
    BY <1>1, <1>2, <1>4, <1>5 DEF Quiet, TableReqs, AllReads

LEMMA AreaTyped ==
    ASSUME NEW a \in {"ring", "pers"}
    PROVE  /\ AreaBlocks(a) \in Nat \ {0} /\ AreaBlocks(a) * BlockCells <= AddrCells
           /\ FirstBlock(a) * BlockChunks \in Reads /\ FirstBlock(a) * BlockCells \in Nat
           /\ a = "ring" => /\ AreaBlocks(a) = Blocks /\ FirstBlock(a) * BlockCells = Base
                            /\ FirstBlock(a) * BlockChunks = AreaFirst
                            /\ (FirstBlock(a) + AreaBlocks(a)) * BlockChunks
                                  = AreaFirst + (Blocks * BlockChunks)
  <1>1. CASE a = "ring"
    <2>1. FirstBlock(a) = AreaStart /\ AreaBlocks(a) = Blocks
      BY <1>1 DEF FirstBlock, AreaBlocks
    <2>2. Blocks * BlockCells <= AddrCells
      BY LogSizes, FlashSizes
    <2>3. AreaStart * BlockChunks = AreaFirst /\ AreaStart * BlockCells = Base
      BY DEF AreaFirst, Base
    <2>4. AreaFirst \in Reads
      BY ReadSizes DEF Reads
    <2> QED
      BY <2>1, <2>2, <2>3, <2>4, LogSizes, ReadSizes
  <1>2. CASE a = "pers"
    <2>1. FirstBlock(a) = PersStart /\ AreaBlocks(a) = PersBlocks
      BY <1>2 DEF FirstBlock, AreaBlocks
    <2>2. PersStart * BlockChunks \in Reads
      BY ReadSizes DEF Reads
    <2>3. PersStart * BlockCells \in Nat
      BY LogAssumption, LogSizes
    <2> QED
      BY <1>2, <2>1, <2>2, <2>3, FlashSizes
  <1> QED
    BY <1>1, <1>2

LEMMA NextReadTyped ==
    ASSUME NEW r \in Reads, area \in {"ring", "pers"}
    PROVE  NextRead(r) \in Reads /\ (area = "ring" /\ r \in AreaReads => NextRead(r) \in AreaReads)
  <1>1. r \in Nat /\ (r + 1) % FlashChunks \in 0..(FlashChunks - 1)
    BY ReadSizes DEF Reads
  <1>2. NextRead(r) \in Reads
    BY <1>1, AreaTyped DEF NextRead, Reads
  <1>3. ASSUME area = "ring", r \in AreaReads PROVE NextRead(r) \in AreaReads
    <2>1. NextRead(r) = IF r + 1 = AreaFirst + (Blocks * BlockChunks) THEN AreaFirst
                        ELSE (r + 1) % FlashChunks
      BY <1>3, AreaTyped DEF NextRead
    <2> DEFINE k == Blocks * BlockChunks
    <2>2. k \in Nat \ {0} /\ AreaFirst \in Nat /\ AreaFirst + k <= FlashChunks /\ FlashChunks \in Nat \ {0}
      BY ReadSizes
    <2>3. AreaReads = AreaFirst..((AreaFirst + k) - 1)
      BY DEF AreaReads
    <2> HIDE DEF k
    <2>4. CASE r + 1 = AreaFirst + k
      BY <2>1, <2>2, <2>3, <2>4 DEF k
    <2>5. CASE r + 1 # AreaFirst + k
      <3>1. r + 1 \in Nat /\ r + 1 < FlashChunks /\ r + 1 \in AreaReads
        BY <1>1, <1>3, <2>2, <2>3, <2>5
      <3>2. (r + 1) % FlashChunks = r + 1
        BY <2>2, <3>1, SmallMod
      <3> QED
        BY <2>1, <2>5, <3>1, <3>2 DEF k
    <2> QED
      BY <2>4, <2>5
  <1> QED
    BY <1>2, <1>3

(* The arithmetic of a get_log stays in 32 bits, wherever its position is. *)
LEMMA StartTyped ==
    ASSUME NEW b \in Nat \ {0}, NEW c \in Nat, b * BlockCells <= AddrCells,
           entries \in Int, start \in 0..(AddrCells - 1), wrapflag \in BOOLEAN
    PROVE  /\ StartFor(b, c) \in 0..(AddrCells - 1) /\ ReadFrom(b, c) \in 0..(AddrCells - 1)
  <1> DEFINE pos == LogPos(c)
             size == b * BlockCells
             next == NextBlock(b, c) * BlockCells
             last == 0 - entries
  <1>1. size \in Nat \ {0} /\ AddrCells \in Nat \ {0}
    BY LogSizes, FlashSizes, TimesNat
  <1>2. pos \in Nat /\ pos < AddrCells
    BY FlashSizes DEF LogPos
  <1>3. next \in Nat /\ next < size
    <2>1. c \div BlockCells \in Nat
      BY LogSizes
    <2> DEFINE q == ((c \div BlockCells) + 1) % Word
    <2>2. q \in Nat
      BY <2>1, FlashSizes
    <2>3. NextBlock(b, c) = q % b
      BY DEF NextBlock
    <2> HIDE DEF q
    <2>4. NextBlock(b, c) \in Nat /\ NextBlock(b, c) + 1 <= b
      BY <2>2, <2>3
    <2>5. (NextBlock(b, c) + 1) * BlockCells <= b * BlockCells
      BY <2>4, LogSizes, TimesLeq
    <2>6. (NextBlock(b, c) + 1) * BlockCells = next + BlockCells /\ next \in Nat
      BY <2>4, LogSizes, TimesPlus
    <2> QED
      BY <2>5, <2>6, LogSizes
  <1>4. last = -entries /\ last \in Int
    OBVIOUS
  <1> HIDE DEF size, next, pos, last
  <1>5. ASSUME NEW from \in Int, from >= 0, from < size \/ from < pos
        PROVE  StartWrap(from, b, c) \in 0..(AddrCells - 1)
    <2>1. StartWrap(from, b, c) = IF from < pos THEN from ELSE IF next = 0 THEN 0
                                  ELSE IF next < from THEN from ELSE next
      BY DEF StartWrap, next, pos
    <2>2. size <= AddrCells
      BY DEF size
    <2> QED
      BY <1>1, <1>2, <1>3, <1>5, <2>1, <2>2
  <1>6. size <= AddrCells /\ 0 \in 0..(AddrCells - 1)
    BY <1>1 DEF size
  <1>7. All(b) <=> entries >= size \/ last >= size
    BY <1>4 DEF All, size
  <1>8. CASE ~wrapflag
    <2>1. StartFor(b, c) = IF All(b) THEN start
              ELSE IF entries < 0 THEN (IF last >= pos THEN 0 ELSE pos - last)
              ELSE IF entries >= pos THEN 0 ELSE entries
      BY <1>8 DEF StartFor, FromLast, last, pos
    <2>2. StartFor(b, c) \in 0..(AddrCells - 1)
      BY <1>1, <1>2, <1>4, <1>6, <1>7, <2>1
    <2> QED
      BY <1>6, <2>2 DEF ReadFrom
  <1>9. CASE wrapflag
    <2> DEFINE back == (size - 1) - (last - pos)
    <2>1. StartFor(b, c) = IF All(b) THEN next
              ELSE IF entries >= 0 THEN StartWrap(entries, b, c)
              ELSE IF last > pos THEN StartWrap(back, b, c)
              ELSE StartWrap(pos - last, b, c)
      BY <1>9 DEF StartFor, last, pos, next, size
    <2>2. CASE All(b)
      BY <1>1, <1>3, <1>6, <1>9, <2>1, <2>2 DEF ReadFrom
    <2>3. CASE ~All(b) /\ entries >= 0
      <3>1. entries \in Int /\ entries >= 0 /\ entries < size
        BY <1>1, <1>7, <2>3
      <3>2. StartWrap(entries, b, c) \in 0..(AddrCells - 1)
        BY <1>5, <3>1
      <3> QED
        BY <1>9, <2>1, <2>3, <3>2 DEF ReadFrom
    <2>4. CASE ~All(b) /\ entries < 0 /\ last > pos
      <3>1. back \in Int /\ back >= 0 /\ back < size
        BY <1>1, <1>2, <1>4, <1>7, <2>4
      <3>2. StartWrap(back, b, c) \in 0..(AddrCells - 1)
        BY <1>5, <3>1
      <3> HIDE DEF back
      <3> QED
        BY <1>9, <2>1, <2>4, <3>2 DEF ReadFrom
    <2>5. CASE ~All(b) /\ entries < 0 /\ ~(last > pos)
      <3>1. pos - last \in Int /\ pos - last >= 0 /\ pos - last < pos
        BY <1>2, <1>4, <2>5
      <3>2. StartWrap(pos - last, b, c) \in 0..(AddrCells - 1)
        BY <1>5, <3>1
      <3> QED
        BY <1>9, <2>1, <2>5, <3>2 DEF ReadFrom
    <2> QED
      BY <1>4, <2>2, <2>3, <2>4, <2>5
  <1> QED
    BY <1>8, <1>9
-----------------------------------------------------------------------------
(* The types, and the reads in the area.                                   *)

LogTyped ==
    /\ cells \in [CellPos -> CellType]
    /\ wpos \in CellPos
    /\ wrapped \in BOOLEAN
    /\ lastId \in Nat
    /\ part \in 0..ExtCells

LEMMA WriteTyped ==
    ASSUME TypeOK, WriteCell
    PROVE  LogTyped'
  <1> DEFINE c == IF InEntry THEN Cell(lastId, part + 1) ELSE Cell(lastId + 1, 0)
             next == (wpos + 1) % NumCells
  <1>1. c \in CellType
    <2>1. lastId \in Nat /\ lastId + 1 \in Nat /\ 0 \in 0..ExtCells
      BY CellTypes DEF TypeOK
    <2>2. InEntry => part + 1 \in 0..ExtCells
      BY CellTypes DEF TypeOK, InEntry
    <2> QED
      BY <2>1, <2>2, CellTypes
  <1>2. c.id \in Nat /\ c.part \in 0..ExtCells
    BY <1>1 DEF CellType
  <1>3. next \in CellPos
    <2>1. wpos + 1 \in Nat
      BY LogSizes DEF TypeOK, CellPos
    <2>2. (wpos + 1) % NumCells \in 0..(NumCells - 1)
      BY <2>1, LogSizes
    <2> QED
      BY <2>2 DEF CellPos
  <1>4. /\ cells' = [p \in CellPos |->
                       IF p = wpos THEN c
                       ELSE IF next % BlockCells = 0 /\ p \div BlockCells = next \div BlockCells
                              THEN Empty
                       ELSE cells[p]]
        /\ wpos' = next /\ wrapped' = (wrapped \/ next = 0) /\ lastId' = c.id /\ part' = c.part
    BY DEF WriteCell
  <1> HIDE DEF c, next
  <1>5. cells' \in [CellPos -> CellType]
    BY <1>1, <1>4, CellTypes DEF TypeOK
  <1>6. wrapped' \in BOOLEAN
    BY <1>4, Zenon
  <1> QED
    BY <1>2, <1>3, <1>4, <1>5, <1>6 DEF LogTyped
LEMMA InitTyped == Init => IInv
  <1> SUFFICES ASSUME Init PROVE IInv
    OBVIOUS
  <1>1. 0 \in Positions /\ 0 \in 0..MaxSessions /\ 0 \in 0..MaxFaults /\ 0 \in 0..ExtCells
    BY FlashSizes, LogAssumption DEF Positions
  <1>2. 0 \in 0..(AddrCells - 1) /\ 0 \in 0..(Base + NumCells - 1)
    BY FlashSizes, LogSizes
  <1>3. tab0 \in TableType /\ tab1 \in TableType
    BY LogAssumption DEF Init, TableType
  <1>4. TypeOK
    BY <1>1, <1>2, <1>3, LogSizes, CellTypes, EmptySeq DEF Init, TypeOK, Logdata
  <1>5. InArea
    BY <1>2, LogSizes, EmptySeq DEF Init, InArea, OneTable
  <1> QED
    BY <1>4, <1>5 DEF IInv

(* A step that leaves the position and the start alone keeps the reads in  *)
(* the area when it adds no position and no table.                         *)
LEMMA QueueKeeps ==
    ASSUME ~rebased => InArea, UNCHANGED <<area, start, curr, rebased, logtype>>,
           state' \in {state, "USER"},
           ~rebased => /\ reads' \in Seq(AreaReads \cup TableReqs)
                       /\ state' = "GET_LOG" => /\ AtMostOne(prio', {"put"}) /\ AtMostOne(reads', Quiet)
                                                /\ (NoPos => NoPos') /\ (NoTable => NoTable')
    PROVE  ~rebased' => InArea'
  <1> SUFFICES ASSUME ~rebased PROVE InArea'
    OBVIOUS
  <1>1. InArea /\ reads' \in Seq(AreaReads \cup TableReqs)
    OBVIOUS
  <1>2. OneTable'
    <2> SUFFICES ASSUME state' = "GET_LOG"
                 PROVE  /\ AtMostOne(prio', {"put"}) /\ AtMostOne(reads', Quiet)
                        /\ NoPos' \/ NoTable'
                        /\ ~NoTable' => curr' >= Base
                        /\ ~(NoPos' /\ NoTable') => start' = 0 /\ logtype'
      BY DEF OneTable
    <2>1. state = "GET_LOG"
      OBVIOUS
    <2>2. /\ NoPos \/ NoTable
          /\ ~NoTable => curr >= Base
          /\ ~(NoPos /\ NoTable) => start = 0 /\ logtype
      BY <1>1, <2>1 DEF InArea, OneTable
    <2> QED
      BY <2>2
  <1> QED
    BY <1>1, <1>2 DEF InArea

(* The steps of the controller alone.                                      *)
LEMMA ControllerTyped ==
    ASSUME IInv, LogEvent \/ RestartController
    PROVE  IInv'
  <1> USE DEF IInv
  <1>1. UNCHANGED <<state, session, opened, entries, logtype, start, logdata, delivered, area, curr, wrapflag, prio, reads, tab0, tab1, retry, crossed, rebased, leftover>>
    BY DEF LogEvent, RestartController, getVars, posVars, reqVars, tableVars, historyVars
  <1>2. ~rebased' => InArea'
    BY <1>1 DEF InArea, OneTable, NoPos, NoTable
  <1>3. LogTyped'
    <2>1. CASE LogEvent
      BY <2>1, WriteTyped DEF LogEvent
    <2>2. CASE RestartController
      BY <2>2, CellTypes DEF RestartController, LogTyped, TypeOK
    <2> QED
      BY <2>1, <2>2
  <1>4. faults' \in 0..MaxFaults /\ disturbed' \in BOOLEAN
    <2>1. CASE LogEvent
      <3>1. faults' = faults /\ disturbed' = TRUE
        BY <2>1 DEF LogEvent, WriteCell
      <3> QED
        BY <3>1 DEF TypeOK
    <2>2. CASE RestartController
      <3>1. faults' = faults + 1 /\ faults < MaxFaults /\ disturbed' = disturbed
        BY <2>2 DEF RestartController, historyVars
      <3> QED
        BY <3>1, LogAssumption DEF TypeOK
    <2> QED
      BY <2>1, <2>2
  <1> QED
    BY <1>1, <1>2, <1>3, <1>4 DEF TypeOK, LogTyped

(* The requests.                                                           *)
LEMMA GetLogTyped ==
    ASSUME IInv, NEW ring \in BOOLEAN, NEW n \in Entries \cup {0}, GetLog(ring, n)
    PROVE  IInv'
  <1> USE DEF IInv
  <1>1. /\ state' = "GET_LOG" /\ logtype' = ring /\ start' = 0 /\ entries' = n
        /\ prio' = IF ring THEN Append(prio, "pos") ELSE prio
        /\ curr' = curr % BlockCells /\ delivered' = <<>>
        /\ session' = opened + 1 /\ opened' = opened + 1 /\ opened < MaxSessions
        /\ UNCHANGED <<cells, wpos, wrapped, lastId, part, logdata, area, wrapflag, reads, tab0, tab1, retry, faults, disturbed>>
    BY DEF GetLog, Open, logVars, tableVars
  <1>2. crossed' \in BOOLEAN /\ leftover' \in BOOLEAN /\ rebased' \in BOOLEAN
    <2>1. /\ crossed' = (crossed \/ prio # <<>> \/ reads # <<>>) /\ leftover' = (leftover \/ logdata # None)
          /\ rebased' = (rebased \/ PosUnderWay \/ TableUnderWay)
      BY DEF GetLog
    <2> QED
      BY <2>1, Zenon
  <1>3. curr' \in Positions /\ curr' \in 0..(Base + NumCells - 1) /\ 0 \in 0..(AddrCells - 1)
    <2>1. curr \in Nat
      BY FlashSizes DEF TypeOK, Positions
    <2>2. curr % BlockCells \in 0..(BlockCells - 1)
      BY <2>1, LogSizes
    <2>3. BlockCells <= NumCells
      BY LogSizes, TimesMore
    <2> DEFINE m == curr % BlockCells
               top == Word * BlockCells
    <2>4. curr' = m
      BY <1>1
    <2>5. m \in Nat /\ m < BlockCells
      BY <2>2, LogSizes
    <2>6. top \in Nat /\ AddrCells <= top /\ Base + NumCells <= AddrCells /\ AddrCells \in Nat \ {0}
      BY FlashSizes
    <2>7. Positions = 0..(top - 1)
      BY DEF Positions
    <2>8. Base \in Nat /\ NumCells \in Nat \ {0} /\ BlockCells \in Nat \ {0}
      BY LogSizes
    <2> HIDE DEF m, top
    <2>9. m \in 0..(top - 1) /\ m \in 0..(Base + NumCells - 1) /\ 0 \in 0..(AddrCells - 1)
      BY <2>3, <2>5, <2>6, <2>8
    <2> QED
      BY <2>4, <2>7, <2>9
  <1>4. prio' \in Seq({"pos", "clear", "put"}) /\ opened + 1 \in 0..MaxSessions
    BY <1>1, LogAssumption, AppendSeq DEF TypeOK
  <1>5. TypeOK'
    BY <1>1, <1>2, <1>3, <1>4, LogSizes, EmptySeq DEF TypeOK
  <1>6. ASSUME ~rebased' PROVE InArea'
    <2>1. ~rebased /\ ~PosUnderWay /\ ~TableUnderWay
      BY <1>6, Zenon DEF GetLog
    <2>2. InArea
      BY <2>1
    <2>3. prio \in Seq({"put"})
      <3>1. \A i \in DOMAIN prio : prio[i] \in {"put"}
        BY <2>1 DEF PosUnderWay
      <3> QED
        BY <3>1, ElementsSeq DEF TypeOK
    <2>4. reads \in Seq(Quiet)
      <3>1. reads \in Seq(AreaReads \cup TableReqs)
        BY <2>2 DEF InArea
      <3>2. \A i \in DOMAIN reads : reads[i] \in Quiet
        BY <2>1, <3>1 DEF TableUnderWay, TableReqs, Quiet
      <3> QED
        BY <3>1, <3>2, ElementsSeq
    <2>5. AtMostOne(prio', {"put"}) /\ AtMostOne(reads', Quiet)
      BY <1>1, <2>3, <2>4, AppendOther, NoneIsOther
    <2>6. OneTable'
      BY <1>1, <2>3, <2>4, <2>5 DEF OneTable, NoTable, NoPos
    <2> QED
      BY <1>1, <1>3, <2>2, <2>6, LogSizes DEF InArea
  <1> QED
    BY <1>5, <1>6

LEMMA AskTyped ==
    ASSUME IInv, GetPos \/ ClearLog \/ PutLog
    PROVE  IInv'
  <1> USE DEF IInv
  <1>1. PICK kind \in {"pos", "clear", "put"} : prio' = Append(prio, kind)
    BY DEF GetPos, ClearLog, PutLog, AskPos
  <1>2. /\ state' = "USER" /\ session' = opened + 1 /\ opened' = opened + 1 /\ opened < MaxSessions
        /\ UNCHANGED <<logVars, getVars, posVars, reads, tableVars, faults, historyVars>>
    BY DEF GetPos, ClearLog, PutLog, AskPos, Open
  <1>3. prio' \in Seq({"pos", "clear", "put"}) /\ opened + 1 \in 0..MaxSessions
    BY <1>1, <1>2, LogAssumption, AppendSeq DEF TypeOK
  <1>4. TypeOK'
    BY <1>2, <1>3 DEF TypeOK, logVars, getVars, posVars, tableVars, historyVars
  <1>5. ~rebased' => InArea'
    BY <1>2 DEF InArea, OneTable, getVars, posVars, historyVars
  <1> QED
    BY <1>4, <1>5

-----------------------------------------------------------------------------
(* The answers.                                                            *)

(* The queues without their first element.                                 *)
LEMMA TailKeeps ==
    ASSUME IInv
    PROVE  /\ prio # <<>> => /\ Tail(prio) \in Seq({"pos", "clear", "put"})
                             /\ NoPos => Tail(prio) \in Seq({"put"})
                             /\ Head(prio) \in {"pos", "clear"} => ~NoPos
           /\ reads # <<>> => /\ Head(reads) \in AllReads /\ Tail(reads) \in Seq(AllReads)
                              /\ NoTable => Tail(reads) \in Seq(Quiet)
                              /\ Head(reads) \in {Table, Backup} => ~NoTable
           /\ ~rebased => /\ reads \in Seq(AreaReads \cup TableReqs)
                          /\ reads # <<>> => Tail(reads) \in Seq(AreaReads \cup TableReqs)
           /\ ~rebased /\ state = "GET_LOG" =>
                 /\ AtMostOne(prio, {"put"}) /\ AtMostOne(reads, Quiet)
                 /\ prio # <<>> => /\ AtMostOne(Tail(prio), {"put"})
                                   /\ Head(prio) \in {"pos", "clear"} => Tail(prio) \in Seq({"put"})
                 /\ reads # <<>> => /\ AtMostOne(Tail(reads), Quiet)
                                    /\ Head(reads) \in {Table, Backup} => Tail(reads) \in Seq(Quiet)
  <1>1. /\ prio \in Seq({"pos", "clear", "put"}) /\ reads \in Seq(AllReads)
        /\ ~rebased => InArea
    BY DEF IInv, TypeOK, AllReads
  <1>2. ASSUME prio # <<>>
        PROVE  /\ Tail(prio) \in Seq({"pos", "clear", "put"})
               /\ NoPos => Tail(prio) \in Seq({"put"})
               /\ Head(prio) \in {"pos", "clear"} => ~NoPos
    <2>1. NoPos => Head(prio) \in {"put"} /\ Tail(prio) \in Seq({"put"})
      BY <1>2, HeadTailSeq DEF NoPos
    <2> QED
      BY <1>1, <1>2, <2>1, HeadTailSeq
  <1>3. ASSUME reads # <<>>
        PROVE  /\ Head(reads) \in AllReads /\ Tail(reads) \in Seq(AllReads)
               /\ NoTable => Tail(reads) \in Seq(Quiet)
               /\ Head(reads) \in {Table, Backup} => ~NoTable
    <2>1. NoTable => Head(reads) \in Quiet /\ Tail(reads) \in Seq(Quiet)
      BY <1>3, HeadTailSeq DEF NoTable
    <2> QED
      BY <1>1, <1>3, <2>1, HeadTailSeq, ReadKinds
  <1>4. ASSUME ~rebased
        PROVE  /\ reads \in Seq(AreaReads \cup TableReqs)
               /\ reads # <<>> => Tail(reads) \in Seq(AreaReads \cup TableReqs)
    BY <1>1, <1>4, HeadTailSeq DEF InArea
  <1>5. ASSUME ~rebased, state = "GET_LOG"
        PROVE  /\ AtMostOne(prio, {"put"}) /\ AtMostOne(reads, Quiet)
               /\ prio # <<>> => /\ AtMostOne(Tail(prio), {"put"})
                                 /\ Head(prio) \in {"pos", "clear"} => Tail(prio) \in Seq({"put"})
               /\ reads # <<>> => /\ AtMostOne(Tail(reads), Quiet)
                                  /\ Head(reads) \in {Table, Backup} => Tail(reads) \in Seq(Quiet)
    <2>1. AtMostOne(prio, {"put"}) /\ AtMostOne(reads, Quiet)
      BY <1>1, <1>5 DEF InArea, OneTable
    <2>2. prio # <<>> => /\ AtMostOne(Tail(prio), {"put"})
                         /\ Head(prio) \notin {"put"} => Tail(prio) \in Seq({"put"})
      BY <1>1, <2>1, TailOther
    <2>3. reads # <<>> => /\ AtMostOne(Tail(reads), Quiet)
                          /\ Head(reads) \notin Quiet => Tail(reads) \in Seq(Quiet)
      BY <1>1, <2>1, TailOther
    <2>4. Head(reads) \in {Table, Backup} => Head(reads) \notin Quiet
      BY ReadKinds
    <2>5. Head(prio) \in {"pos", "clear"} => Head(prio) \notin {"put"}
      OBVIOUS
    <2> QED
      BY <2>1, <2>2, <2>3, <2>4, <2>5
  <1> QED
    BY <1>2, <1>3, <1>4, <1>5

(* A step that changes the queues, the table and the session alone.        *)
LEMMA StepTyped ==
    ASSUME IInv, UNCHANGED <<logVars, opened, getVars, posVars, historyVars>>,
           state' \in {state, "USER"}, session' \in {session, 0},
           prio' \in Seq({"pos", "clear", "put"}), reads' \in Seq(AllReads),
           tab0' \in TableType, tab1' \in TableType, retry' \in BOOLEAN, faults' \in 0..MaxFaults,
           ~rebased => /\ reads' \in Seq(AreaReads \cup TableReqs)
                       /\ state' = "GET_LOG" => /\ AtMostOne(prio', {"put"}) /\ AtMostOne(reads', Quiet)
                                                /\ (NoPos => NoPos') /\ (NoTable => NoTable')
    PROVE  IInv'
  <1> USE DEF IInv
  <1>1. UNCHANGED <<area, start, curr, rebased, logtype>>
    BY DEF getVars, posVars, historyVars
  <1>2. ~rebased' => InArea'
    BY <1>1, QueueKeeps
  <1>3. state' \in {"USER", "GET_LOG"} /\ session' \in 0..MaxSessions
    BY LogAssumption DEF TypeOK
  <1>4. TypeOK'
    BY <1>3 DEF TypeOK, logVars, getVars, posVars, historyVars, AllReads
  <1> QED
    BY <1>2, <1>4

LEMMA TableReadTyped ==
    ASSUME IInv, ReadNoMagic \/ ReadBackup
    PROVE  IInv'
  <1> DEFINE t == Tail(reads)
  <1>1. /\ reads # <<>> /\ Head(reads) \in {Table, Backup} /\ retry' \in {retry, TRUE}
        /\ \/ reads' = Append(t, Backup)
           \/ reads' = t \o <<EraseTable, WriteTable, Table>>
        /\ UNCHANGED <<logVars, opened, getVars, posVars, historyVars>>
        /\ UNCHANGED <<state, session, prio, tab0, tab1, faults>>
    BY DEF ReadNoMagic, ReadBackup, tableVars
  <1>2. t \in Seq(AllReads)
    BY <1>1, TailKeeps
  <1> DEFINE u == Append(Append(t, EraseTable), WriteTable)
  <1>3. t \o <<EraseTable, WriteTable, Table>> = Append(u, Table)
    BY <1>2
  <1>4. PICK w \in {t, u}, x \in {Table, Backup} : reads' = Append(w, x)
    BY <1>1, <1>3
  <1>5. ASSUME NEW S, t \in Seq(S), EraseTable \in S, WriteTable \in S
        PROVE  w \in Seq(S)
    BY <1>5, AppendSeq
  <1> HIDE DEF t, u
  <1>6. reads' \in Seq(AllReads)
    <2>1. EraseTable \in AllReads /\ WriteTable \in AllReads /\ x \in AllReads
      BY ReadKinds DEF AllReads
    <2> QED
      BY <1>2, <1>4, <1>5, <2>1, AppendSeq
  <1>7. ASSUME ~rebased PROVE reads' \in Seq(AreaReads \cup TableReqs)
    <2>1. t \in Seq(AreaReads \cup TableReqs)
      BY <1>1, <1>7, TailKeeps DEF t
    <2>2. x \in AreaReads \cup TableReqs /\ EraseTable \in AreaReads \cup TableReqs /\ WriteTable \in AreaReads \cup TableReqs
      BY DEF TableReqs
    <2> QED
      BY <1>4, <1>5, <2>1, <2>2, AppendSeq
  <1>8. ASSUME ~rebased, state = "GET_LOG" PROVE AtMostOne(reads', Quiet)
    <2>1. t \in Seq(Quiet)
      BY <1>1, <1>8, TailKeeps DEF t
    <2>2. w \in Seq(Quiet)
      BY <1>5, <2>1 DEF Quiet
    <2> QED
      BY <1>4, <2>2, AppendOther
  <1>9. ~NoTable /\ (~rebased /\ state = "GET_LOG" => AtMostOne(prio, {"put"}))
    BY <1>1, TailKeeps
  <1>10. /\ retry' \in BOOLEAN /\ prio \in Seq({"pos", "clear", "put"}) /\ tab0 \in TableType
         /\ tab1 \in TableType /\ faults \in 0..MaxFaults
    BY <1>1 DEF IInv, TypeOK
  <1>11. /\ prio' \in Seq({"pos", "clear", "put"}) /\ tab0' \in TableType /\ tab1' \in TableType
         /\ faults' \in 0..MaxFaults /\ state' \in {state, "USER"} /\ session' \in {session, 0}
    BY <1>1, <1>10
  <1>12. ~rebased => /\ reads' \in Seq(AreaReads \cup TableReqs)
                     /\ state' = "GET_LOG" => /\ AtMostOne(prio', {"put"}) /\ AtMostOne(reads', Quiet)
                                              /\ (NoPos => NoPos') /\ (NoTable => NoTable')
    BY <1>1, <1>7, <1>8, <1>9 DEF NoPos
  <1> QED
    BY <1>1, <1>6, <1>10, <1>11, <1>12, StepTyped

(* A step that adds no request.                                            *)
LEMMA NoRequestTyped ==
    ASSUME IInv, UNCHANGED <<logVars, opened, getVars, posVars, historyVars>>,
           state' \in {state, "USER"}, session' \in {session, 0},
           prio' = prio \/ (prio # <<>> /\ prio' = Tail(prio)),
           reads' = reads \/ (reads # <<>> /\ reads' = Tail(reads)),
           tab0' \in TableType, tab1' \in TableType, retry' \in BOOLEAN, faults' \in 0..MaxFaults
    PROVE  IInv'
  <1>1. prio' \in Seq({"pos", "clear", "put"}) /\ (NoPos => NoPos')
    BY TailKeeps DEF IInv, TypeOK, NoPos
  <1>2. reads' \in Seq(AllReads) /\ (NoTable => NoTable')
    BY TailKeeps DEF IInv, TypeOK, NoTable, AllReads
  <1>3. ASSUME ~rebased PROVE reads' \in Seq(AreaReads \cup TableReqs)
    BY <1>3, TailKeeps
  <1>4. ASSUME ~rebased, state = "GET_LOG" PROVE AtMostOne(prio', {"put"}) /\ AtMostOne(reads', Quiet)
    BY <1>4, TailKeeps
  <1>5. state' = "GET_LOG" => state = "GET_LOG"
    OBVIOUS
  <1> QED
    BY <1>1, <1>2, <1>3, <1>4, <1>5, StepTyped

LEMMA ResultTyped ==
    ASSUME IInv, EraseResult \/ WriteResult \/ GetLogNoTable \/ StrayRead
    PROVE  IInv'
  <1>1. /\ reads # <<>> /\ reads' = Tail(reads) /\ prio' = prio /\ faults' = faults /\ tab1' = tab1
        /\ session' \in {session, 0} /\ state' \in {state, "USER"} /\ retry' \in {retry, FALSE}
        /\ tab0' \in {tab0, tab1, "none"}
        /\ UNCHANGED <<logVars, opened, getVars, posVars, historyVars>>
    BY DEF EraseResult, WriteResult, GetLogNoTable, StrayRead, Handled
  <1>2. tab0' \in TableType /\ tab1' \in TableType /\ retry' \in BOOLEAN /\ faults' \in 0..MaxFaults
    BY <1>1 DEF IInv, TypeOK, TableType
  <1>3. /\ prio' = prio \/ (prio # <<>> /\ prio' = Tail(prio))
        /\ reads' = reads \/ (reads # <<>> /\ reads' = Tail(reads))
    BY <1>1
  <1>4. state' \in {state, "USER"} /\ session' \in {session, 0}
    BY <1>1
  <1>5. UNCHANGED <<logVars, opened, getVars, posVars, historyVars>>
    BY <1>1
  <1> QED
    BY <1>2, <1>3, <1>4, <1>5, NoRequestTyped

LEMMA LinkTyped ==
    ASSUME IInv, LinkFault
    PROVE  IInv'
  <1>1. /\ faults < MaxFaults /\ faults' = faults + 1
        /\ session' \in {session, 0} /\ state' \in {state, "USER"}
        /\ prio' = prio \/ (prio # <<>> /\ prio' = Tail(prio))
        /\ reads' = reads \/ (reads # <<>> /\ reads' = Tail(reads))
        /\ UNCHANGED <<logVars, opened, getVars, posVars, historyVars>>
        /\ UNCHANGED <<tab0, tab1, retry>>
    <2>1. CASE ToggleError
      BY <2>1 DEF ToggleError, reqVars, tableVars
    <2>2. CASE StatusEnds
      BY <2>2 DEF StatusEnds, reqVars, tableVars
    <2>3. CASE GiveUp
      BY <2>3 DEF GiveUp, tableVars
    <2> QED
      BY <2>1, <2>2, <2>3 DEF LinkFault
  <1>2. faults' \in 0..MaxFaults
    BY <1>1, LogAssumption DEF IInv, TypeOK
  <1>3. tab0' \in TableType /\ tab1' \in TableType /\ retry' \in BOOLEAN
    BY <1>1 DEF IInv, TypeOK
  <1> QED
    BY <1>1, <1>2, <1>3, NoRequestTyped

LEMMA PutAnswerTyped ==
    ASSUME IInv, PutLogAnswer
    PROVE  IInv'
  <1> USE DEF IInv
  <1>1. /\ prio # <<>> /\ prio' = Tail(prio) /\ session' = 0 /\ disturbed' = TRUE
        /\ UNCHANGED <<state, opened, entries, logtype, start, logdata, delivered, area, curr, wrapflag, reads, tab0, tab1, retry, faults, crossed, rebased, leftover>>
    BY DEF PutLogAnswer, WriteCell, getVars, posVars, tableVars
  <1>2. LogTyped'
    BY WriteTyped DEF PutLogAnswer
  <1>3. prio' \in Seq({"pos", "clear", "put"}) /\ (NoPos => NoPos') /\ (NoTable => NoTable')
    BY <1>1, TailKeeps DEF NoPos, NoTable
  <1>4. 0 \in 0..MaxSessions
    BY LogAssumption
  <1>5. TypeOK'
    BY <1>1, <1>2, <1>3, <1>4 DEF TypeOK, LogTyped
  <1>6. ~rebased => /\ reads' \in Seq(AreaReads \cup TableReqs)
                    /\ state' = "GET_LOG" => AtMostOne(prio', {"put"}) /\ AtMostOne(reads', Quiet)
    BY <1>1, TailKeeps
  <1>7. ~rebased' => InArea'
    BY <1>1, <1>3, <1>6, QueueKeeps
  <1> QED
    BY <1>5, <1>7

LEMMA FromBase ==
    ASSUME NEW w \in CellPos
    PROVE  Base + w \in Positions /\ Base + w >= Base /\ Base + w \in 0..(Base + NumCells - 1)
  <1> DEFINE top == Word * BlockCells
  <1>1. w \in Nat /\ w < NumCells /\ NumCells \in Nat \ {0} /\ Base \in Nat
    BY LogSizes DEF CellPos
  <1>2. top \in Nat /\ Base + NumCells <= AddrCells /\ AddrCells <= top /\ AddrCells \in Nat
    BY FlashSizes
  <1>3. Positions = 0..(top - 1)
    BY DEF Positions
  <1> HIDE DEF top
  <1>4. Base + w \in 0..(top - 1) /\ Base + w >= Base /\ Base + w \in 0..(Base + NumCells - 1)
    BY <1>1, <1>2
  <1> QED
    BY <1>3, <1>4

LEMMA PosAnswerTyped ==
    ASSUME IInv, PosAnswer
    PROVE  IInv'
  <1> USE DEF IInv
  <1>1. /\ prio # <<>> /\ Head(prio) \in {"pos", "clear"} /\ prio' = Tail(prio)
        /\ curr' = Base + wpos' /\ wrapflag' = wrapped' /\ disturbed' = FALSE
        /\ UNCHANGED <<state, opened, entries, logtype, start, logdata, delivered, area, tab0, tab1, retry, faults, crossed, rebased, leftover>>
    BY DEF PosAnswer, getVars, tableVars
  <1>2. LogTyped'
    <2>1. CASE Head(prio) = "clear"
      <3>1. /\ cells' = [p \in CellPos |-> Empty] /\ wpos' = 0 /\ wrapped' = FALSE
            /\ UNCHANGED <<lastId, part>>
        BY <2>1 DEF PosAnswer
      <3> QED
        BY <3>1, LogSizes, CellTypes DEF LogTyped, TypeOK
    <2>2. CASE Head(prio) # "clear"
      <3>1. UNCHANGED <<cells, wpos, wrapped, lastId, part>>
        BY <2>2 DEF PosAnswer, logVars
      <3> QED
        BY <3>1 DEF LogTyped, TypeOK
    <2> QED
      BY <2>1, <2>2
  <1>3. prio' \in Seq({"pos", "clear", "put"}) /\ ~NoPos
    BY <1>1, TailKeeps
  <1>4. curr' \in Positions /\ curr' >= Base /\ curr' \in 0..(Base + NumCells - 1)
    <2>1. wpos' \in CellPos /\ curr' = Base + wpos'
      BY <1>1, <1>2 DEF LogTyped
    <2> QED
      BY <2>1, FromBase
  <1>5. \/ state = "USER" /\ session' = 0 /\ reads' = reads
        \/ state = "GET_LOG" /\ session' = session /\ reads' = Append(reads, Table)
    BY DEF PosAnswer, TypeOK
  <1>6. reads' \in Seq(AllReads) /\ session' \in 0..MaxSessions
    <2>1. reads \in Seq(AllReads) /\ session \in 0..MaxSessions /\ 0 \in 0..MaxSessions
      BY LogAssumption DEF TypeOK, AllReads
    <2>2. Append(reads, Table) \in Seq(AllReads)
      BY <2>1, AppendSeq, ReadKinds DEF AllReads
    <2> QED
      BY <1>5, <2>1, <2>2
  <1>7. TypeOK'
    BY <1>1, <1>2, <1>3, <1>4, <1>6 DEF TypeOK, LogTyped, AllReads
  <1>8. ASSUME ~rebased PROVE InArea'
    <2>1. InArea /\ reads \in Seq(AreaReads \cup TableReqs)
      BY <1>8, TailKeeps
    <2>2. reads' \in Seq(AreaReads \cup TableReqs)
      <3>1. Append(reads, Table) \in Seq(AreaReads \cup TableReqs)
        BY <2>1, AppendSeq DEF TableReqs
      <3> QED
        BY <1>5, <2>1, <3>1
    <2>3. ASSUME state = "GET_LOG"
          PROVE  /\ AtMostOne(prio', {"put"}) /\ AtMostOne(reads', Quiet) /\ NoPos' /\ start = 0 /\ logtype
      <3>1. NoTable /\ start = 0 /\ logtype
        BY <1>3, <2>1, <2>3 DEF InArea, OneTable
      <3>2. AtMostOne(Tail(prio), {"put"}) /\ Tail(prio) \in Seq({"put"})
        BY <1>1, <1>8, <2>3, TailKeeps
      <3>3. AtMostOne(Append(reads, Table), Quiet)
        BY <3>1, AppendOther DEF NoTable
      <3> QED
        BY <1>1, <1>5, <2>3, <3>1, <3>2, <3>3 DEF NoPos
    <2>4. OneTable'
      BY <1>1, <1>4, <2>3 DEF OneTable
    <2> QED
      BY <1>1, <1>4, <2>1, <2>2, <2>4 DEF InArea
  <1> QED
    BY <1>1, <1>7, <1>8

(* The table comes for a get_log that met none of an earlier one: the      *)
(* position is that of a cell of the ring log.                             *)
LEMMA TableFacts ==
    ASSUME IInv, ~rebased, reads # <<>>, Head(reads) \in {Table, Backup}, state = "GET_LOG"
    PROVE  /\ curr - Base \in CellPos /\ start = 0 /\ logtype
           /\ (curr - Base) % (Word * BlockCells) = curr - Base
           /\ prio \in Seq({"put"}) /\ Tail(reads) \in Seq(Quiet)
           /\ ReadFrom(Blocks, curr - Base) = StartFor(Blocks, curr - Base)
  <1>1. ~NoTable /\ Tail(reads) \in Seq(Quiet)
    BY TailKeeps
  <1>2. InArea
    BY DEF IInv
  <1>3. NoPos /\ curr >= Base /\ start = 0 /\ logtype /\ curr \in 0..(Base + NumCells - 1)
    BY <1>1, <1>2 DEF InArea, OneTable
  <1>4. Base \in Nat /\ NumCells \in Nat \ {0}
    BY LogSizes
  <1>5. curr - Base \in Nat /\ curr - Base < NumCells
    BY <1>3, <1>4
  <1>6. curr - Base \in CellPos
    BY <1>4, <1>5 DEF CellPos
  <1> DEFINE top == Word * BlockCells
  <1>7. top \in Nat \ {0} /\ NumCells <= top
    BY <1>4, FlashSizes
  <1> HIDE DEF top
  <1>8. curr - Base < top
    BY <1>4, <1>5, <1>7
  <1>9. (curr - Base) % top = curr - Base
    BY <1>5, <1>7, <1>8, SmallMod
  <1>10. ReadFrom(Blocks, curr - Base) = StartFor(Blocks, curr - Base)
    BY <1>3 DEF ReadFrom, StartFor
  <1> QED
    BY <1>1, <1>3, <1>6, <1>9, <1>10 DEF top, NoPos

LEMMA TableTyped ==
    ASSUME IInv, GetLogTable
    PROVE  IInv'
  <1> USE DEF IInv
  <1> DEFINE a == IF logtype THEN "ring" ELSE "pers"
             c == (curr - (FirstBlock(a) * BlockCells)) % (Word * BlockCells)
             from == ReadFrom(AreaBlocks(a), c)
             read == ((FirstBlock(a) * BlockChunks) + (from \div ChunkCells)) % FlashChunks
  <1>1. /\ reads # <<>> /\ Head(reads) \in {Table, Backup} /\ state = "GET_LOG" /\ state' = state
        /\ retry' = FALSE /\ area' = a /\ curr' = c /\ start' = StartFor(AreaBlocks(a), c)
        /\ reads' = Append(Tail(reads), read)
        /\ UNCHANGED <<logVars, session, opened, entries, logtype, logdata, delivered, wrapflag, prio, tab0, tab1, faults, historyVars>>
    BY DEF GetLogTable, Handled
  <1>2. /\ a \in {"ring", "pers"} /\ entries \in Int /\ wrapflag \in BOOLEAN
        /\ start \in 0..(AddrCells - 1) /\ curr \in Int
    BY LogAssumption DEF TypeOK, Positions
  <1> HIDE DEF a
  <1>3. /\ AreaBlocks(a) \in Nat \ {0} /\ AreaBlocks(a) * BlockCells <= AddrCells
        /\ FirstBlock(a) * BlockChunks \in Reads /\ FirstBlock(a) * BlockCells \in Nat
    BY <1>2, AreaTyped
  <1>4. c \in Positions /\ c \in Nat
    <2> DEFINE top == Word * BlockCells
               d == curr - (FirstBlock(a) * BlockCells)
    <2>1. d \in Int
      BY <1>2, <1>3
    <2>2. top \in Nat \ {0}
      BY FlashSizes
    <2> HIDE DEF top, d
    <2>3. d % top \in 0..(top - 1)
      BY <2>1, <2>2
    <2>4. d % top \in Nat
      BY <2>2, <2>3
    <2> QED
      BY <2>3, <2>4 DEF Positions, top, d
  <1> HIDE DEF c
  <1>5. StartFor(AreaBlocks(a), c) \in 0..(AddrCells - 1) /\ from \in 0..(AddrCells - 1)
    BY <1>2, <1>3, <1>4, StartTyped
  <1>6. read \in Reads
    <2> DEFINE f == FirstBlock(a) * BlockChunks
               d == from \div ChunkCells
    <2>1. f \in Nat /\ d \in Nat
      BY <1>3, <1>5, LogSizes, FlashSizes, ReadSizes DEF Reads
    <2> HIDE DEF f, d
    <2>2. (f + d) % FlashChunks \in 0..(FlashChunks - 1)
      BY <2>1, ReadSizes
    <2> QED
      BY <2>2 DEF Reads, f, d
  <1> HIDE DEF from
  <1>7. Tail(reads) \in Seq(AllReads) /\ reads' \in Seq(AllReads)
    BY <1>1, <1>6, TailKeeps, AppendSeq DEF AllReads
  <1>8. TypeOK'
    <2> HIDE DEF read
    <2> QED
      BY <1>1, <1>2, <1>4, <1>5, <1>7 DEF TypeOK, logVars, historyVars, AllReads
  <1>9. ASSUME ~rebased PROVE InArea'
    <2> DEFINE pos == curr - Base
    <2>1. /\ pos \in CellPos /\ start = 0 /\ logtype /\ pos % (Word * BlockCells) = pos
          /\ prio \in Seq({"put"}) /\ Tail(reads) \in Seq(Quiet)
          /\ ReadFrom(Blocks, pos) = StartFor(Blocks, pos)
      BY <1>1, <1>9, TableFacts
    <2>2. a = "ring"
      BY <2>1 DEF a
    <2>3. AreaBlocks(a) = Blocks /\ FirstBlock(a) * BlockCells = Base /\ FirstBlock(a) * BlockChunks = AreaFirst
      BY <1>2, <2>2, AreaTyped
    <2>4. c = pos
      BY <2>1, <2>3 DEF c
    <2> HIDE DEF pos
    <2>5. StartFor(Blocks, pos) \in CellPos
      BY <1>2, <2>1, StartIs
    <2>6. read \in AreaReads
      <3> DEFINE k == Blocks * BlockChunks
                 p == StartFor(Blocks, pos)
                 d == p \div ChunkCells
      <3>1. p \in Nat /\ p < NumCells
        BY <2>5, LogSizes DEF CellPos
      <3>2. k \in Nat \ {0} /\ NumCells = k * ChunkCells /\ k * ChunkCells = ChunkCells * k /\ ChunkCells \in Nat \ {0}
        BY LogSizes
      <3>3. AreaFirst \in Nat /\ AreaFirst + k <= FlashChunks /\ FlashChunks \in Nat \ {0}
        BY ReadSizes
      <3>4. read = (AreaFirst + d) % FlashChunks
        BY <2>1, <2>3, <2>4 DEF from
      <3>5. AreaReads = AreaFirst..((AreaFirst + k) - 1)
        BY DEF AreaReads
      <3> HIDE DEF k, p, read
      <3>6. d \in Nat /\ d < k
        BY <3>1, <3>2, Quotient
      <3> HIDE DEF d
      <3>7. AreaFirst + d \in Nat /\ AreaFirst + d < FlashChunks /\ AreaFirst + d \in AreaFirst..((AreaFirst + k) - 1)
        BY <3>2, <3>3, <3>6
      <3>8. (AreaFirst + d) % FlashChunks = AreaFirst + d
        BY <3>3, <3>7, SmallMod
      <3> QED
        BY <3>4, <3>5, <3>7, <3>8
    <2> HIDE DEF read
    <2>7. NoTable' /\ NoPos' /\ reads' \in Seq(AreaReads \cup TableReqs)
      <3>1. reads' \in Seq(Quiet)
        BY <1>1, <2>1, <2>6, AppendSeq DEF Quiet
      <3>2. reads' \in Seq(AreaReads \cup TableReqs)
        BY <3>1, ReadKinds
      <3> QED
        BY <1>1, <2>1, <3>1, <3>2 DEF NoTable, NoPos
    <2>8. OneTable'
      BY <2>7, NoneIsOther DEF OneTable, NoTable, NoPos
    <2>9. curr' \in 0..(Base + NumCells - 1)
      BY <1>1, <2>1, <2>4, LogSizes DEF CellPos
    <2> QED
      BY <1>1, <2>2, <2>3, <2>4, <2>5, <2>7, <2>8, <2>9 DEF InArea
  <1>10. rebased' = rebased
    BY <1>1 DEF historyVars
  <1> QED
    BY <1>8, <1>9, <1>10

(* A chunk is read: the session ends, or the next chunk is asked for.      *)
LEMMA ReadOnTyped ==
    ASSUME IInv, Handled, state = "GET_LOG", EndRead \/ ReadOn, Head(reads) \notin {Table, Backup},
           logdata' \in Logdata, delivered' \in Seq(Delivered),
           UNCHANGED <<logVars, opened, entries, logtype, start, posVars, prio, tab0, tab1, faults, historyVars>>
    PROVE  IInv'
  <1> DEFINE next == NextRead(Head(reads))
  <1>1. /\ reads # <<>> /\ Head(reads) \in Reads /\ retry' = FALSE
        /\ \/ state' = "USER" /\ session' = 0 /\ reads' = Tail(reads)
           \/ reads' = Append(Tail(reads), next) /\ state' = state /\ session' = session
    BY DEF Handled, EndRead, ReadOn
  <1>2. area \in {"ring", "pers"} /\ session \in 0..MaxSessions /\ 0 \in 0..MaxSessions
    BY LogAssumption DEF IInv, TypeOK
  <1>3. next \in Reads /\ (area = "ring" /\ Head(reads) \in AreaReads => next \in AreaReads)
    BY <1>1, <1>2, NextReadTyped
  <1> HIDE DEF next
  <1>4. reads' \in Seq(AllReads)
    <2>1. Tail(reads) \in Seq(AllReads) /\ next \in AllReads
      BY <1>1, <1>3, TailKeeps DEF AllReads
    <2> QED
      BY <1>1, <2>1, AppendSeq
  <1>5. state' \in {state, "USER"} /\ state' \in {"USER", "GET_LOG"} /\ session' \in 0..MaxSessions
    BY <1>1, <1>2
  <1>6. TypeOK'
    BY <1>1, <1>4, <1>5 DEF IInv, TypeOK, logVars, posVars, historyVars, AllReads, Logdata, Delivered
  <1>7. ASSUME ~rebased
        PROVE  /\ reads' \in Seq(AreaReads \cup TableReqs)
               /\ state' = "GET_LOG" => /\ AtMostOne(prio', {"put"}) /\ AtMostOne(reads', Quiet)
                                        /\ (NoPos => NoPos') /\ (NoTable => NoTable')
    <2>1. /\ area = "ring" /\ reads \in Seq(AreaReads \cup TableReqs)
          /\ Tail(reads) \in Seq(AreaReads \cup TableReqs)
      BY <1>1, <1>7, TailKeeps DEF IInv, InArea
    <2>2. Head(reads) \in AreaReads
      BY <1>1, <2>1, HeadTailSeq, ReadKinds DEF TableReqs
    <2>3. next \in AreaReads /\ next \in Quiet /\ next \in AreaReads \cup TableReqs
      BY <1>3, <2>1, <2>2 DEF Quiet
    <2>4. reads' \in Seq(AreaReads \cup TableReqs)
      BY <1>1, <2>1, <2>3, AppendSeq
    <2>5. /\ AtMostOne(prio, {"put"}) /\ AtMostOne(Tail(reads), Quiet)
          /\ NoTable => Tail(reads) \in Seq(Quiet)
      BY <1>1, <1>7, TailKeeps
    <2>6. AtMostOne(Append(Tail(reads), next), Quiet)
      BY <2>1, <2>3, <2>5, AppendUsual
    <2>7. NoTable => reads' \in Seq(Quiet)
      BY <1>1, <2>3, <2>5, AppendSeq
    <2>8. prio' = prio
      OBVIOUS
    <2>9. AtMostOne(reads', Quiet)
      BY <1>1, <2>5, <2>6
    <2> QED
      BY <2>4, <2>5, <2>7, <2>8, <2>9 DEF NoPos, NoTable
  <1>8. UNCHANGED <<area, start, curr, rebased, logtype>>
    BY DEF posVars, historyVars
  <1>9. ~rebased' => InArea'
    BY <1>5, <1>7, <1>8, QueueKeeps DEF IInv
  <1> QED
    BY <1>6, <1>9 DEF IInv

LEMMA ChunkTyped ==
    ASSUME IInv, GetLogChunk
    PROVE  IInv'
  <1> DEFINE chunk == Head(reads) - AreaFirst
             s == Scan(chunk)
  <1>1. /\ Handled /\ state = "GET_LOG" /\ Head(reads) \in AreaReads /\ (EndRead \/ ReadOn)
        /\ logdata' = s.logdata /\ delivered' \in {<<>>, s.out}
        /\ UNCHANGED <<logVars, opened, entries, logtype, start, posVars, prio, tab0, tab1, faults, historyVars>>
    BY DEF GetLogChunk
  <1>2. chunk \in Chunks
    <2> DEFINE k == Blocks * BlockChunks
    <2>1. k \in Nat \ {0} /\ AreaFirst \in Nat
      BY ReadSizes
    <2>2. Head(reads) \in AreaFirst..((AreaFirst + k) - 1)
      BY <1>1 DEF AreaReads
    <2> HIDE DEF k
    <2>3. Head(reads) - AreaFirst \in 0..(k - 1)
      BY <2>1, <2>2
    <2> QED
      BY <2>3 DEF Chunks, k
  <1>3. s \in Scanned
    BY <1>2, ScanTyped DEF IInv
  <1>4. s.logdata \in Logdata /\ s.out \in Seq(Delivered)
    BY <1>3 DEF Scanned
  <1> HIDE DEF s, chunk
  <1>5. logdata' \in Logdata /\ delivered' \in Seq(Delivered)
    BY <1>1, <1>4, EmptySeq
  <1>6. Head(reads) \notin {Table, Backup}
    BY <1>1, ReadKinds DEF Quiet
  <1> QED
    BY <1>1, <1>5, <1>6, ReadOnTyped

LEMMA ForeignTyped ==
    ASSUME IInv, GetLogForeign
    PROVE  IInv'
  <1>1. /\ Handled /\ state = "GET_LOG" /\ Head(reads) \notin {Table, Backup} /\ (EndRead \/ ReadOn)
        /\ logdata' \in {None, [pos |-> 0, parts |-> <<>>, rest |-> ExtCells]} /\ delivered' = <<>>
        /\ UNCHANGED <<logVars, opened, entries, logtype, start, posVars, prio, tab0, tab1, faults, historyVars>>
    BY DEF GetLogForeign
  <1>2. 0 \in 0..ExtCells /\ ExtCells \in 0..ExtCells /\ 0 \in CellPos
    BY LogAssumption, LogSizes
  <1>3. <<>> \in Seq(CellType) /\ <<>> \in Seq(Delivered)
    BY EmptySeq
  <1>4. [pos |-> 0, parts |-> <<>>, rest |-> ExtCells] \in Logdata /\ None \in Logdata
    BY <1>2, <1>3 DEF Logdata, None
  <1>5. logdata' \in Logdata /\ delivered' \in Seq(Delivered)
    BY <1>1, <1>3, <1>4
  <1> QED
    BY <1>1, <1>5, ReadOnTyped

-----------------------------------------------------------------------------
LEMMA NextTyped == IInv /\ [Next]_vars => IInv'
  <1> SUFFICES ASSUME IInv, [Next]_vars PROVE IInv'
    OBVIOUS
  <1>1. CASE Request
    <2>1. ASSUME NEW n \in Entries, GetLog(TRUE, n) PROVE IInv'
      BY <2>1, GetLogTyped
    <2>2. CASE GetLog(FALSE, 0)
      BY <2>2, GetLogTyped
    <2> QED
      BY <1>1, <2>1, <2>2, AskTyped DEF Request
  <1>2. CASE ReadAnswer
    BY <1>2, TableReadTyped, ResultTyped, TableTyped, ChunkTyped, ForeignTyped DEF ReadAnswer
  <1>3. CASE PosAnswer \/ PutLogAnswer
    BY <1>3, PosAnswerTyped, PutAnswerTyped
  <1>4. CASE LinkFault
    BY <1>4, LinkTyped
  <1>5. CASE LogEvent \/ RestartController
    BY <1>5, ControllerTyped
  <1>6. CASE UNCHANGED vars
    <2>1. UNCHANGED <<logVars, state, session, opened, getVars, posVars, reqVars, tableVars, faults, historyVars>>
      BY <1>6 DEF vars
    <2>2. TypeOK'
      BY <2>1 DEF IInv, TypeOK, logVars, getVars, posVars, reqVars, tableVars, historyVars
    <2>3. ~rebased' => InArea'
      BY <2>1 DEF IInv, InArea, OneTable, NoPos, NoTable, getVars, posVars, reqVars, historyVars
    <2> QED
      BY <2>2, <2>3 DEF IInv
  <1> QED
    BY <1>1, <1>2, <1>3, <1>4, <1>5, <1>6 DEF Next, Answer

(* Every variable keeps its type, whatever was rebased: the positions and  *)
(* the start that libdrbcc_get_log computes are never negative and stay in *)
(* 32 bits, and what it reads is in the flash.                             *)
THEOREM LogTypeCorrect == Spec => []TypeOK
  <1>1. IInv => TypeOK
    BY DEF IInv
  <1> QED
    BY <1>1, InitTyped, NextTyped, PTL DEF Spec

(* A get_log reads nothing but the table blocks and the ring log, in areas *)
(* of any size and place, whatever the tables hold and however sessions    *)
(* end, as long as none begins while the position or the table of an       *)
(* earlier request is on its way.                                          *)
THEOREM LogReadsInArea == Spec => []ReadsInArea
  <1>1. IInv => ReadsInArea
    <2> SUFFICES ASSUME IInv, ~rebased
                 PROVE  /\ \A i \in DOMAIN reads :
                              reads[i] \in AreaReads \cup {Table, Backup, EraseTable, WriteTable}
                        /\ start \in CellPos
                        /\ area = "ring"
      BY DEF ReadsInArea
    <2>1. InArea
      BY DEF IInv
    <2> QED
      BY <2>1 DEF InArea, TableReqs
  <1> QED
    BY <1>1, InitTyped, NextTyped, PTL DEF Spec

(* A get_log starts to read where its "entries" say, in a log area of any  *)
(* size, wrapped or not: at the oldest cell, at the cell asked for, or     *)
(* exactly CellsBack cells before the position.                            *)
THEOREM LogStartsWhereAsked == Spec => StartsWhereAsked
  <1>1. ASSUME IInv, GetLogTable, ~rebased PROVE AsAsked(curr', start')
    <2> DEFINE pos == curr - Base
    <2>1. /\ pos \in CellPos /\ start = 0 /\ logtype /\ pos % (Word * BlockCells) = pos
      BY <1>1, TableFacts DEF GetLogTable, Handled
    <2>2. AreaBlocks("ring") = Blocks /\ FirstBlock("ring") * BlockCells = Base
      BY AreaTyped
    <2>3. curr' = pos /\ start' = StartFor(Blocks, pos)
      BY <1>1, <2>1, <2>2 DEF GetLogTable
    <2>4. entries \in Int /\ wrapflag \in BOOLEAN
      BY <1>1, LogAssumption DEF IInv, TypeOK
    <2> HIDE DEF pos
    <2>5. AsAsked(pos, StartFor(Blocks, pos))
      BY <2>1, <2>4, StartIs
    <2> QED
      BY <2>3, <2>5
  <1>2. IInv /\ [Next]_vars => [GetLogTable /\ ~rebased => AsAsked(curr', start')]_vars
    BY <1>1
  <1>3. StartsWhereAsked <=> [][GetLogTable /\ ~rebased => AsAsked(curr', start')]_vars
    BY DEF StartsWhereAsked, AsAsked
  <1> QED
    BY <1>2, <1>3, InitTyped, NextTyped, PTL DEF Spec
=============================================================================
