----------------------------- MODULE DrbccAlloc -----------------------------
(***************************************************************************)
(* The flash as a sequence of complete file operations sees it: what       *)
(* libdrbcc_put_file and libdrbcc_delete (lib/drbcc_files.c) make of the   *)
(* partition table, one after the other.  The requests, results and faults *)
(* between them are in DrbccFlash; here tables with more files, in a       *)
(* larger flash, are reached.                                              *)
(***************************************************************************)
EXTENDS DrbccTable, FiniteSets

CONSTANT
    Sizes           \* file sizes, in blocks

ASSUME AllocAssumption == Sizes \subseteq Nat \ {0}

VARIABLE
    t               \* the partition table

Init == t = FreshTable

(* The blocks that libdrbcc_put_file takes for used when it stores n.      *)
Used(n) == UsedBlocks(t, Matching(t, n))

(* libdrbcc_put_file stores the file n.  It refuses (and the table stays)  *)
(* when no entry or no area is left.                                       *)
Put(n, size) ==
    \E slot \in SlotsFor(t, n), start \in StartFor(Used(n), size) :
        t' = WithFile(t, slot, n, start, size, 0)

(* libdrbcc_delete, by index or by name: any entry, a log area as well.    *)
Delete(index, n) ==
    /\ Selected(t, index, n) # {}
    /\ t' = Deleted(t, Selected(t, index, n))

Next == \/ \E n \in Names, size \in Sizes : Put(n, size)
        \/ \E i \in Slot : Delete(i, NoName)
        \/ \E n \in Names : Delete(0, n)

Spec == Init /\ [][Next]_t

-----------------------------------------------------------------------------
(* Whatever was put and deleted before, the files and the log areas keep   *)
(* to blocks of their own, behind the table and inside the flash, and no   *)
(* file has two entries.                                                   *)
FilesApart ==
    /\ \A i \in Slot : EntryBlocks(t[i]) \subseteq DataBlocks
    /\ \A i, j \in Slot : (i # j /\ ~isEmpty(t[i]) /\ ~isEmpty(t[j])) =>
          /\ t[i].start + t[i].len <= t[j].start \/ t[j].start + t[j].len <= t[i].start
          /\ t[i].name # t[j].name

(* The reference for "find best fitting area": the first block of a run of *)
(* free blocks that is long enough and no longer than any other such run,  *)
(* the lowest of these.                                                    *)
FreeRuns(used) ==
    {r \in DataBlocks \X DataBlocks :
        /\ \A b \in r[1]..r[2] : b \notin used
        /\ r[1] <= r[2]
        /\ r[1] = FirstBlock \/ r[1] - 1 \in used
        /\ r[2] = NumBlocks - 1 \/ r[2] + 1 \in used}

BestFit(used, need) ==
    LET fitting == {r \in FreeRuns(used) : (r[2] - r[1]) + 1 >= need}
        best == {r \in fitting : \A q \in fitting :
                    \/ r[2] - r[1] < q[2] - q[1]
                    \/ r[2] - r[1] = q[2] - q[1] /\ r[1] <= q[1]}
    IN {r[1] : r \in best}

(* The scan of libdrbcc_put_file over its block map and its area array     *)
(* finds the best fit, and finds none only when no run is long enough.     *)
PlacesBestFit ==
    \A n \in Names \cup {NoName}, size \in Sizes :
        StartFor(Used(n), size) = BestFit(Used(n), size)

(* free_used has two elements per table entry (40 for 20 entries), its     *)
(* element 0 included: a put that has found an entry never needs more, and *)
(* there are tables for which it needs them all.                           *)
AreasFit ==
    \A n \in Names : SlotsFor(t, n) # {} => Len(free_used(Used(n))) < 2 * Slots
=============================================================================
