-------------------------- MODULE DrbccAllocProofs --------------------------
(***************************************************************************)
(* The theorems about DrbccAlloc, for a flash, a table and files of any    *)
(* size: files never overlap, a put takes the best fitting area, and the   *)
(* array of areas is large enough.                                         *)
(***************************************************************************)
EXTENDS DrbccAlloc, DrbccTableProofs, FiniteSetTheorems

(* FilesApart is inductive together with the type of the table and the     *)
(* fact that an entry in use has at least one block: two runs of blocks    *)
(* without a common block are one behind the other only if neither is      *)
(* empty.                                                                  *)
IInv ==
    /\ t \in Table
    /\ FilesApart
    /\ \A i \in Slot : ~isEmpty(t[i]) => t[i].len > 0

LEMMA RunsApart ==
    ASSUME NEW a \in Nat, NEW l \in Nat, l > 0, NEW b \in Nat, NEW m \in Nat, m > 0,
           (a..(a + l - 1)) \cap (b..(b + m - 1)) = {}
    PROVE  a + l <= b \/ b + m <= a
  <1>1. CASE a <= b
    <2>1. b \in b..(b + m - 1)
      OBVIOUS
    <2>2. b \notin a..(a + l - 1)
      BY <2>1
    <2> QED
      BY <1>1, <2>2
  <1>2. CASE b <= a
    <2>1. a \in a..(a + l - 1)
      OBVIOUS
    <2>2. a \notin b..(b + m - 1)
      BY <2>1
    <2> QED
      BY <1>2, <2>2
  <1> QED
    BY <1>1, <1>2

LEMMA EntryType ==
    ASSUME NEW x \in Table, NEW i \in Slot
    PROVE  /\ x[i] \in Entry /\ x[i].start \in Nat /\ x[i].len \in Nat
           /\ x[i].name \in Names \cup {RingLog, PersLog, NoName}
  BY DEF Table, Entry

LEMMA EmptyIsEntry ==
    EmptyEntry \in Entry /\ isEmpty(EmptyEntry) /\ EntryBlocks(EmptyEntry) = {}
  BY DEF EmptyEntry, Entry, isEmpty, EntryBlocks

LEMMA InitIInv == Init => IInv
  <1> SUFFICES ASSUME Init PROVE IInv
    OBVIOUS
  <1>1. /\ LogBlocks \in Nat /\ LogBlocks > 0 /\ PersBlocks \in Nat /\ PersBlocks > 0
        /\ 4 + LogBlocks + PersBlocks <= NumBlocks /\ NumBlocks \in Nat
        /\ Slots \in Nat /\ Slots >= 2
    BY TableAssumption DEF FirstBlock
  <1> DEFINE e1 == [name |-> RingLog, start |-> FirstBlock, len |-> LogBlocks, ver |-> 0]
             e2 == [name |-> PersLog, start |-> FirstBlock + LogBlocks,
                    len |-> PersBlocks, ver |-> 0]
  <1>2. t = [i \in Slot |-> IF i = 1 THEN e1 ELSE IF i = 2 THEN e2 ELSE EmptyEntry]
    BY DEF Init, FreshTable
  <1>3. /\ e1 \in Entry /\ e1.name = RingLog /\ e1.start = 4 /\ e1.len = LogBlocks
        /\ e2 \in Entry /\ e2.name = PersLog /\ e2.start = 4 + LogBlocks /\ e2.len = PersBlocks
    BY <1>1 DEF Entry, FirstBlock
  <1>4. RingLog # PersLog /\ RingLog # NoName /\ PersLog # NoName
    BY DEF RingLog, PersLog, NoName
  <1> HIDE DEF e1, e2
  <1>5. \A i \in Slot : (t[i] = e1 /\ i = 1) \/ (t[i] = e2 /\ i = 2) \/ t[i] = EmptyEntry
    BY <1>2
  <1>6. t \in Table
    BY <1>2, <1>3, EmptyIsEntry DEF Table
  <1>7. EntryBlocks(e1) = 4..(4 + LogBlocks - 1)
    BY <1>3, <1>4 DEF EntryBlocks, isEmpty
  <1>8. EntryBlocks(e2) = (4 + LogBlocks)..(4 + LogBlocks + PersBlocks - 1)
    BY <1>3, <1>4 DEF EntryBlocks, isEmpty
  <1>9. EntryBlocks(e1) \subseteq DataBlocks /\ EntryBlocks(e2) \subseteq DataBlocks
    BY <1>1, <1>7, <1>8, Blocks DEF DataBlocks
  <1>10. \A i \in Slot : EntryBlocks(t[i]) \subseteq DataBlocks
    BY <1>5, <1>9, EmptyIsEntry
  <1>11. ASSUME NEW i \in Slot, NEW j \in Slot, i # j, ~isEmpty(t[i]), ~isEmpty(t[j])
         PROVE  /\ t[i].start + t[i].len <= t[j].start \/ t[j].start + t[j].len <= t[i].start
                /\ t[i].name # t[j].name
    <2>1. (t[i] = e1 /\ t[j] = e2) \/ (t[i] = e2 /\ t[j] = e1)
      BY <1>5, <1>11, EmptyIsEntry
    <2> QED
      BY <1>1, <1>3, <1>4, <2>1
  <1>12. \A i \in Slot : ~isEmpty(t[i]) => t[i].len > 0
    BY <1>1, <1>3, <1>5, EmptyIsEntry
  <1> QED
    BY <1>6, <1>10, <1>11, <1>12 DEF IInv, FilesApart

(* A table in which some entries were cleared.                             *)
LEMMA ClearedIInv ==
    ASSUME IInv, NEW sel, t' = Deleted(t, sel)
    PROVE  IInv'
  <1>1. \A i \in Slot : t'[i] = EmptyEntry \/ t'[i] = t[i]
    BY DEF Deleted
  <1>2. t' \in Table
    BY EmptyIsEntry DEF Deleted, Table, IInv
  <1>3. \A i \in Slot : EntryBlocks(t'[i]) \subseteq DataBlocks
    BY <1>1, EmptyIsEntry DEF IInv, FilesApart
  <1>4. \A i \in Slot : ~isEmpty(t'[i]) => t'[i] = t[i]
    BY <1>1, EmptyIsEntry
  <1> QED
    BY <1>2, <1>3, <1>4 DEF IInv, FilesApart

(* A put: the new run is free of the blocks of all entries that stay.      *)
LEMMA PutIInv ==
    ASSUME IInv, NEW n \in Names, NEW size \in Sizes, Put(n, size)
    PROVE  IInv'
  <1>1. PICK slot \in SlotsFor(t, n), start \in StartFor(Used(n), size) :
           t' = WithFile(t, slot, n, start, size, 0)
    BY DEF Put
  <1>2. size \in Nat \ {0}
    BY AllocAssumption
  <1>3. /\ start \in Nat
        /\ start..(start + size - 1) \subseteq DataBlocks
        /\ (start..(start + size - 1)) \cap Used(n) = {}
    BY <1>2, StartForFree
  <1>4. slot \in Slot /\ n # NoName
    BY TableAssumption DEF SlotsFor, Matching
  <1> DEFINE e == [name |-> n, start |-> start, len |-> size, ver |-> 0]
  <1>5. e \in Entry /\ e.name = n /\ e.start = start /\ e.len = size
    BY <1>2, <1>3 DEF Entry
  <1>6. /\ t' = [i \in Slot |-> IF i = slot THEN e
                                ELSE IF t[i].name = n THEN EmptyEntry ELSE t[i]]
    BY <1>1 DEF WithFile
  <1> HIDE DEF e
  <1>7. t' \in Table
    BY <1>5, <1>6, EmptyIsEntry DEF Table, IInv
  <1>8. /\ t'[slot] = e
        /\ \A i \in Slot : i # slot =>
              t'[i] = EmptyEntry \/ (t'[i] = t[i] /\ t[i].name # n)
    BY <1>4, <1>6
  <1>9. EntryBlocks(e) = start..(start + size - 1) /\ ~isEmpty(e)
    BY <1>4, <1>5 DEF EntryBlocks, isEmpty
  <1>10. \A i \in Slot : EntryBlocks(t'[i]) \subseteq DataBlocks
    BY <1>3, <1>8, <1>9, EmptyIsEntry DEF IInv, FilesApart
  <1>11. \A i \in Slot : ~isEmpty(t'[i]) => t'[i].len > 0
    BY <1>2, <1>5, <1>8, EmptyIsEntry DEF IInv
  <1>12. ASSUME NEW i \in Slot, i # slot, ~isEmpty(t'[i])
         PROVE  /\ t'[i] = t[i] /\ t[i].name # n
                /\ t[i].start + t[i].len <= start \/ start + size <= t[i].start
    <2>1. t'[i] = t[i] /\ t[i].name # n
      BY <1>8, <1>12, EmptyIsEntry
    <2>2. EntryBlocks(t[i]) \subseteq Used(n)
      <3>1. i \in Slot \ Matching(t, n)
        BY <2>1 DEF Matching
      <3> QED
        BY <3>1 DEF Used, UsedBlocks
    <2>3. EntryBlocks(t[i]) = t[i].start..(t[i].start + t[i].len - 1)
      BY <1>12, <2>1 DEF EntryBlocks
    <2>4. t[i].start \in Nat /\ t[i].len \in Nat /\ t[i].len > 0
      BY <1>12, <2>1, EntryType DEF IInv
    <2>5. (t[i].start..(t[i].start + t[i].len - 1)) \cap (start..(start + size - 1)) = {}
      BY <1>3, <2>2, <2>3
    <2>6. size \in Nat /\ size > 0
      BY <1>2
    <2> QED
      BY <1>3, <2>1, <2>4, <2>5, <2>6, RunsApart
  <1>13. ASSUME NEW i \in Slot, NEW j \in Slot, i # j, ~isEmpty(t'[i]), ~isEmpty(t'[j])
         PROVE  /\ \/ t'[i].start + t'[i].len <= t'[j].start
                   \/ t'[j].start + t'[j].len <= t'[i].start
                /\ t'[i].name # t'[j].name
    <2>1. CASE i = slot
      BY <1>5, <1>8, <1>12, <1>13, <2>1
    <2>2. CASE j = slot
      BY <1>5, <1>8, <1>12, <1>13, <2>2
    <2>3. CASE i # slot /\ j # slot
      BY <1>12, <1>13, <2>3 DEF IInv, FilesApart
    <2> QED
      BY <2>1, <2>2, <2>3
  <1> QED
    BY <1>7, <1>10, <1>11, <1>13 DEF IInv, FilesApart

LEMMA NextIInv == IInv /\ [Next]_t => IInv'
  <1> SUFFICES ASSUME IInv, [Next]_t PROVE IInv'
    OBVIOUS
  <1>1. ASSUME NEW n \in Names, NEW size \in Sizes, Put(n, size) PROVE IInv'
    BY <1>1, PutIInv
  <1>2. ASSUME NEW i \in Slot, Delete(i, NoName) PROVE IInv'
    BY <1>2, ClearedIInv DEF Delete
  <1>3. ASSUME NEW n \in Names, Delete(0, n) PROVE IInv'
    BY <1>3, ClearedIInv DEF Delete
  <1>4. CASE UNCHANGED t
    BY <1>4 DEF IInv, FilesApart
  <1> QED
    BY <1>1, <1>2, <1>3, <1>4 DEF Next

LEMMA IInvHolds == Spec => []IInv
  BY InitIInv, NextIInv, PTL DEF Spec

(* The files and the log areas keep to blocks of their own and no file has *)
(* two entries, whatever was put and deleted: libdrbcc_put_file and        *)
(* libdrbcc_delete keep the partition table sound.                         *)
THEOREM FilesStayApart == Spec => []FilesApart
  <1>1. IInv => FilesApart
    BY DEF IInv
  <1> QED
    BY <1>1, IInvHolds, PTL

-----------------------------------------------------------------------------
(* The free areas of the scan are the runs of free blocks, no more and no  *)
(* less: an area ends only where a used block or the flash's end is.       *)

LEMMA AreaTypes ==
    ASSUME NEW ar \in Seq(Area)
    PROVE  /\ Len(ar) \in Nat
           /\ \A i \in 1..Len(ar) : ar[i].start \in Nat /\ ar[i].end \in Nat
  <1>1. Len(ar) \in Nat /\ \A i \in 1..Len(ar) : ar[i] \in Area
    OBVIOUS
  <1>2. \A a \in Area : a.start \in Nat /\ a.end \in Nat
    BY DEF Area
  <1> QED
    BY <1>1, <1>2

LEMMA AreaIsRun ==
    ASSUME NEW used, NEW i \in 1..Len(free_used(used)), free_used(used)[i].free
    PROVE  <<free_used(used)[i].start, free_used(used)[i].end>> \in FreeRuns(used)
  <1> DEFINE ar == free_used(used)
             n == Len(ar)
             a == ar[i]
             B == NumBlocks - 1
  <1>1. /\ ar \in Seq(Area) /\ RunsOf(ar, B, used) /\ Adjacent(ar)
        /\ Complete(ar, B, used)
    BY AreasCorrect
  <1>2. n \in Nat /\ \A j \in 1..n : ar[j].start \in Nat /\ ar[j].end \in Nat
    BY <1>1, AreaTypes
  <1> HIDE DEF ar, n
  <1>3. i \in 1..n /\ a.free
    BY DEF ar, n
  <1>4. /\ 4 <= a.start /\ a.start <= a.end /\ a.end <= B
        /\ \A c \in a.start..a.end : (c \in used) <=> ~a.free
        /\ InUse(a.start - 1, used) <=> a.free
    BY <1>1, <1>3 DEF RunsOf, n
  <1>5. a.start \in Nat /\ a.end \in Nat
    BY <1>2, <1>3
  <1>6. a.start = 4 \/ a.start - 1 \in used
    BY <1>3, <1>4, <1>5 DEF InUse
  <1>7. a.end = B \/ a.end + 1 \in used
    <2>1. CASE i = n
      BY <1>1, <1>2, <1>3, <2>1 DEF Complete, n
    <2>2. CASE i < n
      <3>1. i + 1 \in 1..n
        BY <1>2, <2>2
      <3>2. ar[i + 1].start = a.end + 1
        BY <1>1, <1>3, <2>2 DEF Adjacent, n
      <3>3. ~InUse(ar[i + 1].start - 1, used)
        <4>1. ar[i + 1].start - 1 = a.end /\ a.end # 3 /\ a.end \in a.start..a.end
          BY <1>4, <1>5, <3>2
        <4> HIDE DEF a
        <4> QED
          BY <1>3, <1>4, <4>1 DEF InUse
      <3>4. /\ ~ar[i + 1].free
            /\ ar[i + 1].start <= ar[i + 1].end
            /\ \A c \in ar[i + 1].start..ar[i + 1].end : (c \in used) <=> ~ar[i + 1].free
        BY <1>1, <3>1, <3>3 DEF RunsOf, n
      <3>5. ar[i + 1].start \in ar[i + 1].start..ar[i + 1].end
        BY <1>2, <3>1, <3>4
      <3> QED
        BY <3>2, <3>4, <3>5
    <2> QED
      BY <1>2, <1>3, <2>1, <2>2
  <1>8. a.start \in DataBlocks /\ a.end \in DataBlocks
    BY <1>4, <1>5, Blocks DEF DataBlocks
  <1>9. \A c \in a.start..a.end : c \notin used
    BY <1>3, <1>4
  <1> HIDE DEF a
  <1>10. <<a.start, a.end>> \in FreeRuns(used)
    BY <1>4, <1>6, <1>7, <1>8, <1>9, Blocks DEF FreeRuns
  <1> QED
    BY <1>10 DEF a, ar

LEMMA RunIsArea ==
    ASSUME NEW used, NEW r \in FreeRuns(used)
    PROVE  \E i \in 1..Len(free_used(used)) :
              /\ free_used(used)[i].free
              /\ r = <<free_used(used)[i].start, free_used(used)[i].end>>
  <1> DEFINE ar == free_used(used)
             n == Len(ar)
             B == NumBlocks - 1
  <1>1. /\ ar \in Seq(Area) /\ RunsOf(ar, B, used) /\ Adjacent(ar)
        /\ Complete(ar, B, used)
    BY AreasCorrect
  <1>2. n \in Nat /\ \A j \in 1..n : ar[j] \in Area
    BY <1>1
  <1> HIDE DEF ar, n
  <1>3. /\ r \in DataBlocks \X DataBlocks
        /\ \A c \in r[1]..r[2] : c \notin used
        /\ r[1] <= r[2]
        /\ r[1] = 4 \/ r[1] - 1 \in used
        /\ r[2] = B \/ r[2] + 1 \in used
    BY Blocks DEF FreeRuns
  <1> DEFINE lo == r[1]
             hi == r[2]
  <1>4. r = <<lo, hi>> /\ lo \in 4..B /\ hi \in 4..B
    BY <1>3, Blocks DEF DataBlocks
  <1>5. B \in Nat
    BY <1>4, Blocks
  <1> HIDE DEF lo, hi, B
  <1>6. /\ \A c \in lo..hi : c \notin used
        /\ lo <= hi
        /\ lo = 4 \/ lo - 1 \in used
        /\ hi = B \/ hi + 1 \in used
    BY <1>3 DEF lo, hi
  <1>7. lo \in lo..hi
    BY <1>4, <1>5, <1>6
  <1>8. PICK i \in 1..n : ar[i].start <= lo /\ lo <= ar[i].end
    BY <1>1, <1>4, <1>6, <1>7 DEF Complete, n
  <1> DEFINE a == ar[i]
  <1>9. /\ 4 <= a.start /\ a.start <= a.end /\ a.end <= B
        /\ \A c \in a.start..a.end : (c \in used) <=> ~a.free
    BY <1>1 DEF RunsOf, n
  <1>10. a.start \in Nat /\ a.end \in Nat /\ a.free \in BOOLEAN
    BY <1>2 DEF Area
  <1>11. a.start <= lo /\ lo <= a.end
    BY <1>8
  <1> DEFINE st == a.start
             en == a.end
  <1>12. a.free
    <2>1. lo \in a.start..a.end
      BY <1>4, <1>5, <1>10, <1>11
    <2> QED
      BY <1>6, <1>7, <1>9, <1>10, <2>1
  <1>13. \A c \in a.start..a.end : c \notin used
    BY <1>9, <1>12
  <1>14. a.start = lo
    <2>1. SUFFICES ASSUME a.start < lo PROVE FALSE
      BY <1>4, <1>5, <1>10, <1>11
    <2>2. lo - 1 \in a.start..a.end /\ lo # 4
      BY <1>4, <1>5, <1>9, <1>10, <1>11, <2>1
    <2> QED
      BY <1>6, <1>13, <2>2
  <1>15. a.end = hi
    <2>1. ~(hi < a.end)
      <3>1. SUFFICES ASSUME hi < a.end PROVE FALSE
        OBVIOUS
      <3>2. hi + 1 \in a.start..a.end /\ hi # B
        BY <1>4, <1>5, <1>6, <1>9, <1>10, <1>11, <3>1
      <3> QED
        BY <1>6, <1>13, <3>2
    <2>2. ~(a.end < hi)
      <3>1. SUFFICES ASSUME a.end < hi PROVE FALSE
        OBVIOUS
      <3>2. a.end + 1 \in lo..hi /\ a.end # B
        BY <1>4, <1>5, <1>9, <1>10, <1>11, <3>1
      <3>3. a.end + 1 \in used
        <4>1. <<a.start, a.end>> \in FreeRuns(used)
          BY <1>12, AreaIsRun DEF ar, n
        <4>2. a.end = NumBlocks - 1 \/ a.end + 1 \in used
          BY <4>1 DEF FreeRuns
        <4> QED
          BY <3>2, <4>2 DEF B
      <3> QED
        BY <1>6, <3>2, <3>3
    <2> QED
      BY <1>4, <1>5, <1>10, <2>1, <2>2
  <1>16. r = <<a.start, a.end>>
    BY <1>4, <1>14, <1>15
  <1> QED
    BY <1>12, <1>16 DEF ar, n

LEMMA BestFitFound ==
    ASSUME NEW used, NEW need \in Nat
    PROVE  StartFor(used, need) = BestFit(used, need)
  <1> DEFINE ar == free_used(used)
             n == Len(ar)
             f == Found(ar, need)
             run(i) == <<ar[i].start, ar[i].end>>
             fitting == {r \in FreeRuns(used) : (r[2] - r[1]) + 1 >= need}
             best == {r \in fitting : \A q \in fitting :
                        \/ r[2] - r[1] < q[2] - q[1]
                        \/ r[2] - r[1] = q[2] - q[1] /\ r[1] <= q[1]}
  <1>1. ar \in Seq(Area) /\ Ascending(ar) /\ RunsOf(ar, NumBlocks - 1, used)
    BY AreasCorrect
  <1>2. /\ n \in Nat
        /\ \A i \in 1..n : /\ ar[i].start \in Nat /\ ar[i].end \in Nat
                           /\ ar[i].start <= ar[i].end
    BY <1>1, AreaTypes DEF RunsOf
  <1>3. FoundInv(f, n, ar, need)
    BY <1>1, FoundCorrect
  <1>4. \A i \in 1..n : Fits(ar, need, i) => run(i) \in fitting
    <2>1. ASSUME NEW i \in 1..n, Fits(ar, need, i) PROVE run(i) \in fitting
      <3>1. run(i) \in FreeRuns(used)
        BY <2>1, AreaIsRun DEF Fits
      <3>2. run(i)[1] = ar[i].start /\ run(i)[2] = ar[i].end
        OBVIOUS
      <3> HIDE DEF run
      <3> QED
        BY <2>1, <3>1, <3>2 DEF Fits, AreaSize
    <2> QED
      BY <2>1
  <1>5. \A r \in fitting : \E i \in 1..n : Fits(ar, need, i) /\ r = run(i)
    <2>1. ASSUME NEW r \in fitting
          PROVE  \E i \in 1..n : Fits(ar, need, i) /\ r = run(i)
      <3>1. PICK i \in 1..n : ar[i].free /\ r = run(i)
        BY RunIsArea
      <3>2. r[1] = ar[i].start /\ r[2] = ar[i].end
        BY <3>1
      <3>3. (r[2] - r[1]) + 1 >= need
        BY <2>1
      <3> QED
        BY <3>1, <3>2, <3>3 DEF Fits, AreaSize
    <2> QED
      BY <2>1
  <1>6. \A i \in 1..n : run(i)[1] = ar[i].start /\ run(i)[2] = ar[i].end
    OBVIOUS
  <1>7. \A i, j \in 1..n : i <= j => ar[i].start <= ar[j].start
    <2> SUFFICES ASSUME NEW i \in 1..n, NEW j \in 1..n, i <= j
                 PROVE  ar[i].start <= ar[j].start
      OBVIOUS
    <2>1. CASE i = j
      BY <1>2, <2>1
    <2>2. CASE i < j
      <3>1. ar[i].end < ar[j].start
        BY <1>1, <2>2 DEF Ascending
      <3> QED
        BY <1>2, <3>1
    <2> QED
      BY <1>2, <2>1, <2>2
  <1>8. BestFit(used, need) = {r[1] : r \in best}
    BY DEF BestFit
  <1>9. StartFor(used, need) = IF f = 0 THEN {} ELSE {ar[f].start}
    BY DEF StartFor
  <1> HIDE DEF ar, n, f, run, fitting
  <1>10. CASE f = 0
    <2>1. \A i \in 1..n : ~Fits(ar, need, i)
      BY <1>3, <1>10 DEF FoundInv
    <2>2. fitting = {}
      BY <1>5, <2>1
    <2> QED
      BY <1>8, <1>9, <1>10, <2>2
  <1>11. CASE f # 0
    <2>1. /\ f \in 1..n /\ Fits(ar, need, f)
          /\ \A j \in 1..n : Fits(ar, need, j) =>
                \/ AreaSize(ar[f]) < AreaSize(ar[j])
                \/ AreaSize(ar[f]) = AreaSize(ar[j]) /\ f <= j
      BY <1>2, <1>3, <1>11 DEF FoundInv
    <2>2. \A j \in 1..n : Fits(ar, need, j) =>
             \/ ar[f].end - ar[f].start < ar[j].end - ar[j].start
             \/ ar[f].end - ar[f].start = ar[j].end - ar[j].start /\ ar[f].start <= ar[j].start
      BY <1>2, <1>7, <2>1 DEF AreaSize
    <2>3. run(f) \in best
      <3>1. run(f) \in fitting
        BY <1>4, <2>1
      <3>2. ASSUME NEW q \in fitting
            PROVE  \/ run(f)[2] - run(f)[1] < q[2] - q[1]
                   \/ run(f)[2] - run(f)[1] = q[2] - q[1] /\ run(f)[1] <= q[1]
        <4>1. PICK j \in 1..n : Fits(ar, need, j) /\ q = run(j)
          BY <1>5
        <4> QED
          BY <1>6, <2>1, <2>2, <4>1
      <3> QED
        BY <3>1, <3>2
    <2>4. ASSUME NEW r \in best PROVE r[1] = ar[f].start
      <3>1. r \in fitting /\ run(f) \in fitting
        BY <2>3
      <3>2. PICK j \in 1..n : Fits(ar, need, j) /\ r = run(j)
        BY <1>5, <3>1
      <3>3. \/ r[2] - r[1] < run(f)[2] - run(f)[1]
            \/ r[2] - r[1] = run(f)[2] - run(f)[1] /\ r[1] <= run(f)[1]
        BY <2>4, <3>1
      <3>4. \/ ar[j].end - ar[j].start < ar[f].end - ar[f].start
            \/ ar[j].end - ar[j].start = ar[f].end - ar[f].start /\ ar[j].start <= ar[f].start
        BY <1>6, <2>1, <3>2, <3>3
      <3>5. ar[j].start = ar[f].start
        BY <1>2, <2>1, <2>2, <3>2, <3>4
      <3> QED
        BY <1>6, <3>2, <3>5
    <2>5. run(f)[1] = ar[f].start
      BY <1>6, <2>1
    <2> HIDE DEF best
    <2>6. {r[1] : r \in best} = {ar[f].start}
      BY <2>3, <2>4, <2>5
    <2> QED
      BY <1>8, <1>9, <1>11, <2>6
  <1> QED
    BY <1>10, <1>11

(* A put takes the lowest of the smallest runs of free blocks that are     *)
(* long enough, and refuses for want of space only when there is none: the *)
(* two loops of libdrbcc_put_file compute what its comments say.           *)
THEOREM BestFitPlaced == Spec => []PlacesBestFit
  <1>1. PlacesBestFit
    <2>1. \A size \in Sizes : size \in Nat
      BY AllocAssumption
    <2> QED
      BY <2>1, BestFitFound DEF PlacesBestFit
  <1> QED
    BY <1>1, PTL

-----------------------------------------------------------------------------
(* Every second area is one of used blocks, and begins where an entry      *)
(* begins: there are no more of them than entries.                         *)

LEMMA UsedAreaHasEntry ==
    ASSUME t \in Table, NEW n, NEW k \in Nat \ {0}, 2 * k <= Len(free_used(Used(n)))
    PROVE  \E s \in Slot \ Matching(t, n) :
              ~isEmpty(t[s]) /\ t[s].start = free_used(Used(n))[2 * k].start
  <1> DEFINE used == Used(n)
             ar == free_used(used)
             a == ar[2 * k]
  <1>1. ar \in Seq(Area) /\ RunsOf(ar, NumBlocks - 1, used)
    BY AreasCorrect
  <1>2. 2 * k \in 1..Len(ar) /\ ~((2 * k) % 2 = 1)
    BY <1>1, AreaTypes
  <1>3. /\ 4 <= a.start /\ a.start <= a.end
        /\ \A c \in a.start..a.end : (c \in used) <=> ~a.free
        /\ InUse(a.start - 1, used) <=> a.free
        /\ ~a.free
        /\ a.start \in Nat /\ a.end \in Nat
    BY <1>1, <1>2, AreaTypes DEF RunsOf
  <1> DEFINE b == a.start
  <1> HIDE DEF a, used
  <1>4. b \in used /\ b - 1 \notin used /\ b \in Nat
    <2>1. b \in a.start..a.end
      BY <1>3
    <2> QED
      BY <1>3, <2>1 DEF InUse
  <1>5. PICK s \in Slot \ Matching(t, n) : b \in EntryBlocks(t[s])
    BY <1>4 DEF used, Used, UsedBlocks
  <1>6. b - 1 \notin EntryBlocks(t[s])
    BY <1>4 DEF used, Used, UsedBlocks
  <1>7. ~isEmpty(t[s]) /\ EntryBlocks(t[s]) = t[s].start..(t[s].start + t[s].len - 1)
    BY <1>5 DEF EntryBlocks
  <1>8. t[s].start \in Nat /\ t[s].len \in Nat
    BY EntryType
  <1>9. t[s].start = b
    <2> DEFINE from == t[s].start
               to   == t[s].start + t[s].len - 1
    <2>1. from \in Nat /\ to \in Int /\ b \in from..to /\ b - 1 \notin from..to
      BY <1>5, <1>6, <1>7, <1>8
    <2> HIDE DEF from, to
    <2>2. from = b
      BY <1>4, <2>1
    <2> QED
      BY <2>2 DEF from
  <1> QED
    BY <1>7, <1>9 DEF a, used

LEMMA AreasBounded ==
    ASSUME t \in Table, NEW n, SlotsFor(t, n) # {}
    PROVE  Len(free_used(Used(n))) < 2 * Slots
  <1> DEFINE used == Used(n)
             ar == free_used(used)
  <1>1. ar \in Seq(Area) /\ Ascending(ar) /\ RunsOf(ar, NumBlocks - 1, used)
    BY AreasCorrect
  <1>2. Len(ar) \in Nat /\ Slots \in Nat /\ Slots > 0
    BY <1>1, TableAssumption
  <1>3. SUFFICES ASSUME 2 * Slots <= Len(ar) PROVE FALSE
    BY <1>2
  <1>4. PICK slot \in SlotsFor(t, n) : TRUE
    OBVIOUS
  <1>5. slot \in Slot /\ (slot \in Matching(t, n) \/ isEmpty(t[slot]))
    BY <1>4 DEF SlotsFor, Matching
  <1> DEFINE Of(s, k) == s \in Slot \ {slot} /\ t[s].start = ar[2 * k].start
             f == [k \in 1..Slots |-> CHOOSE s : Of(s, k)]
  <1>6. \A k \in 1..Slots : \E s : Of(s, k)
    <2>1. ASSUME NEW k \in 1..Slots PROVE \E s : Of(s, k)
      <3>1. k \in Nat \ {0} /\ 2 * k <= Len(ar)
        BY <1>2, <1>3
      <3>2. PICK s \in Slot \ Matching(t, n) : ~isEmpty(t[s]) /\ t[s].start = ar[2 * k].start
        BY <3>1, UsedAreaHasEntry
      <3>3. s # slot
        BY <1>5, <3>2
      <3> QED
        BY <3>2, <3>3
    <2> QED
      BY <2>1
  <1> HIDE DEF Of
  <1>7. \A k \in 1..Slots : Of(CHOOSE s : Of(s, k), k)
    BY <1>6, Zenon
  <1>8. \A k \in 1..Slots : Of(f[k], k)
    BY <1>7
  <1>9. f \in [1..Slots -> Slot \ {slot}]
    <2>1. f = [k \in 1..Slots |-> f[k]]
      OBVIOUS
    <2> HIDE DEF f
    <2> QED
      BY <1>8, <2>1 DEF Of
  <1> HIDE DEF f
  <1>10. IsFiniteSet(1..Slots) /\ Cardinality(1..Slots) = Slots
    <2>1. 1 \in Int /\ Slots \in Int /\ ~(1 > Slots) /\ Slots - 1 + 1 = Slots
      BY <1>2
    <2> QED
      BY <2>1, FS_Interval
  <1>11. /\ IsFiniteSet(Slot \ {slot}) /\ Cardinality(Slot \ {slot}) = Slots - 1
         /\ Cardinality(Slot \ {slot}) < Cardinality(1..Slots)
    <2>1. Slot = 1..Slots
      BY DEF Slot
    <2>2. IsFiniteSet(Slot \ {slot}) /\ Cardinality(Slot \ {slot}) = Cardinality(Slot) - 1
      BY <1>5, <1>10, <2>1, FS_RemoveElement
    <2> QED
      BY <1>2, <1>10, <2>1, <2>2
  <1>12. PICK x \in 1..Slots, y \in 1..Slots : x # y /\ f[x] = f[y]
    <2> DEFINE D == 1..Slots
               T == Slot \ {slot}
    <2>1. /\ IsFiniteSet(D) /\ IsFiniteSet(T) /\ Cardinality(T) < Cardinality(D)
          /\ f \in [D -> T]
      BY <1>9, <1>10, <1>11
    <2> HIDE DEF D, T
    <2>2. \E x, y \in D : x # y /\ f[x] = f[y]
      BY <2>1, FS_PigeonHole
    <2> QED
      BY <2>2 DEF D
  <1>13. ar[2 * x].start = ar[2 * y].start
    BY <1>8, <1>12 DEF Of
  <1>14. ASSUME NEW u \in 1..Slots, NEW v \in 1..Slots, u < v
         PROVE  ar[2 * u].start < ar[2 * v].start
    <2>1. 2 * u \in 1..Len(ar) /\ 2 * v \in 1..Len(ar) /\ 2 * u < 2 * v
      BY <1>2, <1>3, <1>14
    <2> DEFINE i == 2 * u
               j == 2 * v
    <2>2. i \in 1..Len(ar) /\ j \in 1..Len(ar) /\ i < j
      BY <2>1
    <2> HIDE DEF i, j
    <2>3. ar[i].end < ar[j].start /\ ar[i].start <= ar[i].end
      BY <1>1, <2>2 DEF Ascending, RunsOf
    <2>4. ar[i].start \in Nat /\ ar[i].end \in Nat /\ ar[j].start \in Nat
      BY <1>1, <2>2, AreaTypes
    <2>5. ar[i].start < ar[j].start
      BY <2>3, <2>4
    <2> QED
      BY <2>5 DEF i, j
  <1>15. \A k \in 1..Slots : ar[2 * k].start \in Nat
    <2>1. \A k \in 1..Slots : 2 * k \in 1..Len(ar)
      BY <1>2, <1>3
    <2> QED
      BY <1>1, <2>1, AreaTypes
  <1>16. x < y \/ y < x
    BY <1>2, <1>12
  <1> HIDE DEF ar
  <1> QED
    BY <1>13, <1>14, <1>15, <1>16

(* The array free_used of libdrbcc_put_file holds all areas of every table *)
(* that is reached, whatever the flash's and the table's size, once an     *)
(* entry was found.                                                        *)
THEOREM AreasAlwaysFit == Spec => []AreasFit
  <1>1. IInv => AreasFit
    BY AreasBounded DEF IInv, AreasFit
  <1> QED
    BY <1>1, IInvHolds, PTL
=============================================================================
