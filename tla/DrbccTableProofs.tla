-------------------------- MODULE DrbccTableProofs --------------------------
(***************************************************************************)
(* What the operators of DrbccTable compute, for a flash and a table of    *)
(* any size.  The two loops of libdrbcc_put_file are recursive functions:  *)
(* each is first shown to satisfy its equation, then what it computes is   *)
(* shown by induction on the position.  The provers cannot use the         *)
(* library's induction theorem, whose hypothesis is an operator;           *)
(* NatSetInduction, which speaks of a set, is derived from the fact that   *)
(* the natural numbers are well founded.                                   *)
(***************************************************************************)
EXTENDS DrbccTable, WellFoundedInduction, TLAPS

NatLess == {p \in Nat \X Nat : p[1] < p[2]}

LEMMA NatLessWellFounded == IsWellFoundedOn(NatLess, Nat)
  <1>1. OpToRel(<, Nat) = NatLess
    BY DEF OpToRel, NatLess
  <1> QED
    BY <1>1, NatLessThanWellFounded

(* Induction, for the membership in a set: its least counterexample is     *)
(* neither 0 nor a successor.                                              *)
LEMMA NatSetInduction ==
    ASSUME NEW S, 0 \in S, \A n \in Nat : n \in S => n + 1 \in S
    PROVE  \A n \in Nat : n \in S
  <1> DEFINE T == {n \in Nat : n \notin S}
  <1>1. SUFFICES ASSUME T # {} PROVE FALSE
    OBVIOUS
  <1>2. T \subseteq Nat
    OBVIOUS
  <1> HIDE DEF T
  <1>3. \E x \in T : \A y \in T : ~(<<y, x>> \in NatLess)
    BY NatLessWellFounded, WFMin, <1>1, <1>2
  <1>4. PICK x \in T : \A y \in T : ~(<<y, x>> \in NatLess)
    BY <1>3
  <1>5. x \in Nat /\ x \notin S
    BY <1>4 DEF T
  <1>6. x # 0 /\ x - 1 \in Nat /\ x - 1 < x /\ (x - 1) + 1 = x
    BY <1>5
  <1>7. x - 1 \in S
    <2>1. <<x - 1, x>> \in NatLess
      BY <1>5, <1>6 DEF NatLess
    <2> QED
      BY <1>4, <1>6, <2>1 DEF T
  <1> QED
    BY <1>5, <1>6, <1>7

-----------------------------------------------------------------------------
(* The scan over the block map.                                            *)

IsAreaScan(g, last, used) ==
    g = [b \in 3..last |-> IF b = 3 THEN NoAreas ELSE NextArea(g[b - 1], b, used)]

LEMMA AreaScanExists ==
    ASSUME NEW used
    PROVE  \A k \in Nat : \E g : IsAreaScan(g, 3 + k, used)
  <1> DEFINE S == {k \in Nat : \E g : IsAreaScan(g, 3 + k, used)}
  <1>1. 0 \in S
    <2>1. IsAreaScan([b \in 3..3 |-> NoAreas], 3, used)
      BY DEF IsAreaScan
    <2> QED
      BY <2>1
  <1>2. ASSUME NEW k \in Nat, k \in S PROVE k + 1 \in S
    <2>1. PICK g : IsAreaScan(g, 3 + k, used)
      BY <1>2
    <2> DEFINE top == 3 + (k + 1)
               h == [b \in 3..top |-> IF b = top THEN NextArea(g[b - 1], b, used) ELSE g[b]]
    <2>2. \A b \in 3..(3 + k) :
             h[b] = g[b] /\ g[b] = IF b = 3 THEN NoAreas ELSE NextArea(g[b - 1], b, used)
      BY <2>1 DEF IsAreaScan
    <2>3. ASSUME NEW b \in 3..top
          PROVE  h[b] = IF b = 3 THEN NoAreas ELSE NextArea(h[b - 1], b, used)
      <3>1. CASE b = 3
        <4>1. b \in 3..(3 + k)
          BY <3>1
        <4> QED
          BY <2>2, <3>1, <4>1
      <3>2. CASE b # 3
        <4>1. b - 1 \in 3..(3 + k)
          BY <3>2
        <4>2. h[b - 1] = g[b - 1]
          BY <2>2, <4>1
        <4>3. h[b] = NextArea(g[b - 1], b, used)
          <5>1. CASE b = top
            BY <5>1
          <5>2. CASE b # top
            <6>1. b \in 3..(3 + k)
              BY <5>2
            <6> QED
              BY <2>2, <3>2, <6>1
          <5> QED
            BY <5>1, <5>2
        <4> HIDE DEF h
        <4> QED
          BY <3>2, <4>2, <4>3
      <3> QED
        BY <3>1, <3>2
    <2>4. h = [b \in 3..top |-> h[b]]
      OBVIOUS
    <2> HIDE DEF h
    <2>5. IsAreaScan(h, top, used)
      BY <2>3, <2>4 DEF IsAreaScan
    <2> QED
      BY <2>5
  <1>3. \A k \in Nat : k \in S
    <2> HIDE DEF S
    <2> QED
      BY <1>1, <1>2, NatSetInduction
  <1> QED
    BY <1>3

LEMMA Blocks ==
    /\ FirstBlock = 4 /\ FirstBlock - 1 = 3
    /\ NumBlocks \in Nat /\ NumBlocks - 4 \in Nat /\ 3 + (NumBlocks - 4) = NumBlocks - 1
  BY TableAssumption DEF FirstBlock

(* AreasUpTo satisfies its equation.                                       *)
LEMMA AreasEquation ==
    ASSUME NEW used
    PROVE  IsAreaScan(AreasUpTo(used), NumBlocks - 1, used)
  <1>1. \E g : IsAreaScan(g, NumBlocks - 1, used)
    <2>1. \E g : IsAreaScan(g, 3 + (NumBlocks - 4), used)
      BY Blocks, AreaScanExists
    <2> QED
      BY Blocks, <2>1
  <1> DEFINE Scan(g) == g = [b \in (FirstBlock - 1)..(NumBlocks - 1) |->
                               IF b = FirstBlock - 1 THEN NoAreas
                               ELSE NextArea(g[b - 1], b, used)]
  <1>2. \A g : Scan(g) <=> IsAreaScan(g, NumBlocks - 1, used)
    BY Blocks DEF IsAreaScan
  <1>3. AreasUpTo(used) = CHOOSE g : Scan(g)
    BY DEF AreasUpTo
  <1> HIDE DEF Scan
  <1>4. \E g : Scan(g)
    BY <1>1, <1>2
  <1>5. Scan(AreasUpTo(used))
    BY <1>3, <1>4, Zenon
  <1> QED
    BY <1>2, <1>5

-----------------------------------------------------------------------------
(* What the scan has collected when it has seen the blocks up to b.        *)

Area == [start : Nat, end : Nat, free : BOOLEAN]

(* Whether the scan takes block b for used: the block in front of the data *)
(* counts as used.                                                         *)
InUse(b, used) == b = 3 \/ b \in used

(* The areas are runs of blocks of one kind, in ascending order without    *)
(* gaps, and a run of free blocks is the first one.                        *)
RunsOf(ar, b, used) ==
    \A i \in 1..Len(ar) :
        /\ 4 <= ar[i].start /\ ar[i].start <= ar[i].end /\ ar[i].end <= b
        /\ \A c \in ar[i].start..ar[i].end : (c \in used) <=> ~ar[i].free
        /\ InUse(ar[i].start - 1, used) <=> ar[i].free
        /\ ar[i].free <=> i % 2 = 1

Ascending(ar) == \A i, j \in 1..Len(ar) : i < j => ar[i].end < ar[j].start

Adjacent(ar) == \A i \in 1..Len(ar) : i < Len(ar) => ar[i + 1].start = ar[i].end + 1

(* The scan has missed no free block, and the last area ends at b.         *)
Complete(ar, b, used) ==
    /\ \A c \in 4..b : c \notin used =>
          \E i \in 1..Len(ar) : ar[i].start <= c /\ c <= ar[i].end
    /\ ar # <<>> => ar[Len(ar)].end = b

ScanInv(s, b, used) ==
    /\ s.last \in BOOLEAN /\ s.areas \in Seq(Area)
    /\ s = [last |-> s.last, areas |-> s.areas]
    /\ s.last <=> InUse(b, used)
    /\ s.areas = <<>> => s.last
    /\ RunsOf(s.areas, b, used)
    /\ Ascending(s.areas)
    /\ Adjacent(s.areas)
    /\ Complete(s.areas, b, used)

LEMMA ScanBegins ==
    ASSUME NEW used
    PROVE  ScanInv(NoAreas, 3, used)
  BY DEF ScanInv, NoAreas, RunsOf, Ascending, Adjacent, Complete, InUse

(* The block begins an area.                                               *)
LEMMA ScanAppends ==
    ASSUME NEW used, NEW b \in Nat, b >= 3, NEW s, ScanInv(s, b, used),
           s.last # (b + 1 \in used)
    PROVE  ScanInv(NextArea(s, b + 1, used), b + 1, used)
  <1> DEFINE ar == s.areas
             n == Len(ar)
             new == [start |-> b + 1, end |-> b + 1, free |-> b + 1 \notin used]
             ar2 == Append(ar, new)
  <1>1. /\ ar \in Seq(Area) /\ n \in Nat /\ new \in Area
        /\ s.last \in BOOLEAN /\ (s.last <=> InUse(b, used))
    BY DEF ScanInv, Area
  <1>2. NextArea(s, b + 1, used) = [last |-> b + 1 \in used, areas |-> ar2]
    BY DEF NextArea
  <1>3. /\ ar2 \in Seq(Area) /\ Len(ar2) = n + 1 /\ ar2[n + 1] = new /\ ar2 # <<>>
        /\ \A i \in 1..n : ar2[i] = ar[i] /\ ar[i] \in Area
    BY <1>1
  <1>4. /\ new.start = b + 1 /\ new.end = b + 1 /\ new.free \in BOOLEAN
        /\ new.free <=> b + 1 \notin used
        /\ new.free <=> InUse(b, used)
    BY <1>1
  <1>5. \A i \in 1..(n + 1) : i \in 1..n \/ i = n + 1
    BY <1>1
  <1>6. n > 0 => ar[n].end = b /\ n \in 1..n
    BY <1>1 DEF ScanInv, Complete
  <1>7. RunsOf(ar, b, used) /\ Ascending(ar) /\ Adjacent(ar) /\ Complete(ar, b, used)
    BY DEF ScanInv
  <1>8. n = 0 => InUse(b, used)
    BY <1>1 DEF ScanInv
  <1> HIDE DEF new, ar2
  <1>9. RunsOf(ar2, b + 1, used)
    <2> SUFFICES ASSUME NEW i \in 1..(n + 1)
                 PROVE  /\ 4 <= ar2[i].start /\ ar2[i].start <= ar2[i].end
                        /\ ar2[i].end <= b + 1
                        /\ \A c \in ar2[i].start..ar2[i].end : (c \in used) <=> ~ar2[i].free
                        /\ InUse(ar2[i].start - 1, used) <=> ar2[i].free
                        /\ ar2[i].free <=> i % 2 = 1
      BY <1>3 DEF RunsOf
    <2>1. CASE i \in 1..n
      <3> HIDE DEF ar, n
      <3>1. /\ 4 <= ar[i].start /\ ar[i].start <= ar[i].end /\ ar[i].end <= b
            /\ \A c \in ar[i].start..ar[i].end : (c \in used) <=> ~ar[i].free
            /\ InUse(ar[i].start - 1, used) <=> ar[i].free
            /\ ar[i].free <=> i % 2 = 1
        BY <1>7, <2>1 DEF RunsOf, n
      <3>2. ar[i].end \in Nat
        BY <1>3, <2>1 DEF Area
      <3> QED
        BY <1>3, <2>1, <3>1, <3>2
    <2>2. CASE i = n + 1
      <3>1. new.free <=> (n + 1) % 2 = 1
        <4>1. CASE n = 0
          BY <4>1, <1>4, <1>8
        <4>2. CASE n > 0
          <5>1. ar[n].free <=> n % 2 = 1
            BY <1>6, <1>7, <4>2 DEF RunsOf
          <5>2. (b \in used) <=> ~ar[n].free
            <6>1. b \in ar[n].start..ar[n].end
              <7>1. ar[n].start \in Nat /\ ar[n].start <= ar[n].end
                BY <1>3, <1>6, <1>7, <4>2 DEF RunsOf, Area
              <7> QED
                BY <1>6, <4>2, <7>1
            <6> QED
              BY <1>6, <1>7, <4>2, <6>1 DEF RunsOf
          <5>3. InUse(b, used) <=> b \in used
            <6>1. b >= 4
              <7>1. 4 <= ar[n].start /\ ar[n].start <= b
                BY <1>6, <1>7, <4>2 DEF RunsOf
              <7>2. ar[n].start \in Nat
                BY <1>3, <1>6, <4>2 DEF Area
              <7> HIDE DEF ar, n
              <7> QED
                BY <7>1, <7>2
            <6> QED
              BY <6>1 DEF InUse
          <5>4. n % 2 = 1 <=> ~((n + 1) % 2 = 1)
            <6> HIDE DEF n
            <6> QED
              BY <1>1
          <5>5. ar[n].free \in BOOLEAN
            BY <1>3, <1>6, <4>2 DEF Area
          <5> QED
            BY <1>4, <5>1, <5>2, <5>3, <5>4, <5>5
        <4> HIDE DEF n
        <4> QED
          BY <1>1, <4>1, <4>2
      <3>2. (b + 1) - 1 = b
        OBVIOUS
      <3>3. \A c \in (b + 1)..(b + 1) : c = b + 1
        OBVIOUS
      <3> HIDE DEF ar, n
      <3> QED
        BY <1>3, <1>4, <2>2, <3>1, <3>2, <3>3
    <2> QED
      BY <1>5, <2>1, <2>2
  <1>10. Ascending(ar2)
    <2> SUFFICES ASSUME NEW i \in 1..(n + 1), NEW j \in 1..(n + 1), i < j
                 PROVE  ar2[i].end < ar2[j].start
      BY <1>3 DEF Ascending
    <2>1. i \in 1..n
      BY <1>1
    <2>2. ar[i].end <= b /\ ar[i].end \in Nat
      BY <1>3, <1>7, <2>1 DEF RunsOf, Area
    <2>3. CASE j \in 1..n
      BY <1>3, <1>7, <2>1, <2>3 DEF Ascending
    <2>4. CASE j = n + 1
      BY <1>3, <1>4, <2>1, <2>2, <2>4
    <2> QED
      BY <1>5, <2>3, <2>4
  <1>11. Adjacent(ar2)
    <2> SUFFICES ASSUME NEW i \in 1..n
                 PROVE  ar2[i + 1].start = ar2[i].end + 1
      <3>1. \A i \in 1..(n + 1) : i < n + 1 => i \in 1..n
        BY <1>1
      <3> QED
        BY <1>3, <3>1 DEF Adjacent
    <2>1. CASE i < n
      <3>1. i + 1 \in 1..n
        BY <1>1, <2>1
      <3> QED
        BY <1>3, <1>7, <2>1, <3>1 DEF Adjacent
    <2>2. CASE i = n
      BY <1>3, <1>4, <1>6, <2>2
    <2> QED
      BY <1>1, <2>1, <2>2
  <1>12. Complete(ar2, b + 1, used)
    <2>1. ASSUME NEW c \in 4..(b + 1), c \notin used
          PROVE  \E i \in 1..(n + 1) : ar2[i].start <= c /\ c <= ar2[i].end
      <3>1. CASE c = b + 1
        <4>1. n + 1 \in 1..(n + 1)
          BY <1>1
        <4> HIDE DEF n
        <4> QED
          BY <1>3, <1>4, <3>1, <4>1
      <3>2. CASE c # b + 1
        <4>1. c \in 4..b
          BY <3>2
        <4>2. PICK i \in 1..n : ar[i].start <= c /\ c <= ar[i].end
          BY <1>7, <2>1, <4>1 DEF Complete
        <4>3. i \in 1..(n + 1)
          BY <1>1
        <4> QED
          BY <1>3, <4>2, <4>3
      <3> QED
        BY <3>1, <3>2
    <2> QED
      BY <1>3, <1>4, <2>1 DEF Complete
  <1>13. (b + 1 \in used) <=> InUse(b + 1, used)
    BY DEF InUse
  <1> DEFINE s2 == NextArea(s, b + 1, used)
  <1>14. /\ s2.last \in BOOLEAN /\ (s2.last <=> b + 1 \in used)
         /\ s2.areas = ar2
         /\ s2 = [last |-> s2.last, areas |-> s2.areas]
    <2> DEFINE l == b + 1 \in used
    <2>1. l \in BOOLEAN /\ (l <=> b + 1 \in used)
      OBVIOUS
    <2>2. s2 = [last |-> l, areas |-> ar2]
      BY <1>2
    <2> HIDE DEF l, s2
    <2>3. s2.last = l /\ s2.areas = ar2 /\ s2 = [last |-> s2.last, areas |-> s2.areas]
      BY <2>2
    <2> QED
      BY <2>1, <2>3, Zenon
  <1> HIDE DEF ar, n, s2
  <1>15. ScanInv(s2, b + 1, used)
    <2>1. s2.last \in BOOLEAN /\ (s2.last <=> InUse(b + 1, used))
      BY <1>13, <1>14
    <2> QED
      BY <1>3, <1>9, <1>10, <1>11, <1>12, <1>14, <2>1, Zenon DEF ScanInv
  <1> QED
    BY <1>15 DEF s2

(* No area has begun, and the block is a used one.                         *)
LEMMA ScanKeeps ==
    ASSUME NEW used, NEW b \in Nat, b >= 3, NEW s, ScanInv(s, b, used),
           ~(s.last # (b + 1 \in used)), s.areas = <<>>
    PROVE  ScanInv(NextArea(s, b + 1, used), b + 1, used)
  <1>1. NextArea(s, b + 1, used) = s
    BY DEF NextArea
  <1>2. s.last \in BOOLEAN /\ s.last
    BY DEF ScanInv
  <1>3. b + 1 \in used
    BY <1>2
  <1>4. RunsOf(s.areas, b + 1, used)
    BY DEF RunsOf
  <1>5. Complete(s.areas, b + 1, used)
    <2>1. \A c \in 4..(b + 1) : c = b + 1 \/ c \in 4..b
      OBVIOUS
    <2> QED
      BY <1>3, <2>1 DEF ScanInv, Complete
  <1>6. InUse(b + 1, used)
    BY <1>3 DEF InUse
  <1> QED
    BY <1>1, <1>2, <1>4, <1>5, <1>6 DEF ScanInv

(* The block belongs to the last area.                                     *)
LEMMA ScanExtends ==
    ASSUME NEW used, NEW b \in Nat, b >= 3, NEW s, ScanInv(s, b, used),
           ~(s.last # (b + 1 \in used)), s.areas # <<>>
    PROVE  ScanInv(NextArea(s, b + 1, used), b + 1, used)
  <1> DEFINE ar == s.areas
             n == Len(ar)
             s2 == NextArea(s, b + 1, used)
             ar2 == [ar EXCEPT ![n].end = b + 1]
  <1>1. /\ ar \in Seq(Area) /\ n \in Nat /\ n > 0 /\ n \in 1..n
        /\ \A i \in 1..n : ar[i] \in Area
    BY DEF ScanInv
  <1>2. RunsOf(ar, b, used) /\ Ascending(ar) /\ Adjacent(ar) /\ Complete(ar, b, used)
    BY DEF ScanInv
  <1>3. s2 = [s EXCEPT !.areas = ar2] /\ s = [last |-> s.last, areas |-> ar]
    BY DEF NextArea, ScanInv
  <1>4. s2.last = s.last /\ s2.areas = ar2 /\ s2 = [last |-> s2.last, areas |-> s2.areas]
    <2> HIDE DEF ar2, ar, n, s2
    <2> QED
      BY <1>3
  <1>5. [ar[n] EXCEPT !.end = b + 1] \in Area
    <2>1. ar[n] \in Area
      BY <1>1
    <2> HIDE DEF ar, n
    <2> QED
      BY <2>1 DEF Area
  <1>6. /\ ar2 \in Seq(Area) /\ Len(ar2) = n /\ ar2 # <<>>
        /\ \A i \in 1..n : i # n => ar2[i] = ar[i]
        /\ ar2[n] = [ar[n] EXCEPT !.end = b + 1]
    BY <1>1, <1>5
  <1>7. ar2[n].start = ar[n].start /\ ar2[n].end = b + 1 /\ ar2[n].free = ar[n].free
    BY <1>1, <1>6 DEF Area
  <1>8. /\ 4 <= ar[n].start /\ ar[n].start <= ar[n].end /\ ar[n].end = b
        /\ \A c \in ar[n].start..ar[n].end : (c \in used) <=> ~ar[n].free
        /\ InUse(ar[n].start - 1, used) <=> ar[n].free
        /\ ar[n].free <=> n % 2 = 1
        /\ ar[n].start \in Nat /\ ar[n].free \in BOOLEAN
    BY <1>1, <1>2 DEF RunsOf, Complete, Area
  <1> HIDE DEF ar, ar2, n, s2
  <1>9. b >= 4 /\ b \in ar[n].start..ar[n].end
    BY <1>8
  <1>10. (b + 1 \in used) <=> ~ar[n].free
    <2>1. s.last \in BOOLEAN /\ (s.last <=> b \in used)
      BY <1>9 DEF ScanInv, InUse
    <2> QED
      BY <1>8, <1>9, <2>1
  <1>11. RunsOf(ar2, b + 1, used)
    <2> SUFFICES ASSUME NEW i \in 1..n
                 PROVE  /\ 4 <= ar2[i].start /\ ar2[i].start <= ar2[i].end
                        /\ ar2[i].end <= b + 1
                        /\ \A c \in ar2[i].start..ar2[i].end : (c \in used) <=> ~ar2[i].free
                        /\ InUse(ar2[i].start - 1, used) <=> ar2[i].free
                        /\ ar2[i].free <=> i % 2 = 1
      BY <1>6 DEF RunsOf
    <2>1. CASE i # n
      <3>1. ar[i].end \in Nat
        BY <1>1 DEF Area
      <3>2. /\ 4 <= ar[i].start /\ ar[i].start <= ar[i].end /\ ar[i].end <= b
            /\ \A c \in ar[i].start..ar[i].end : (c \in used) <=> ~ar[i].free
            /\ InUse(ar[i].start - 1, used) <=> ar[i].free
            /\ ar[i].free <=> i % 2 = 1
        BY <1>2 DEF RunsOf, n
      <3> QED
        BY <1>6, <2>1, <3>1, <3>2
    <2>2. CASE i = n
      <3>1. \A c \in ar[n].start..(b + 1) : c \in ar[n].start..ar[n].end \/ c = b + 1
        BY <1>8
      <3>2. \A c \in ar[n].start..(b + 1) : (c \in used) <=> ~ar[n].free
        BY <1>8, <1>10, <3>1
      <3>3. ar[n].start <= b + 1
        BY <1>8
      <3> QED
        BY <1>7, <1>8, <2>2, <3>2, <3>3
    <2> QED
      BY <2>1, <2>2
  <1>12. Ascending(ar2)
    <2> SUFFICES ASSUME NEW i \in 1..n, NEW j \in 1..n, i < j
                 PROVE  ar2[i].end < ar2[j].start
      BY <1>6 DEF Ascending
    <2>1. i # n
      BY <1>1
    <2>2. ar[i].end < ar[j].start
      BY <1>2 DEF Ascending, n
    <2> QED
      BY <1>6, <1>7, <2>1, <2>2
  <1>13. Adjacent(ar2)
    <2> SUFFICES ASSUME NEW i \in 1..n, i < n
                 PROVE  ar2[i + 1].start = ar2[i].end + 1
      BY <1>6 DEF Adjacent
    <2>1. i # n /\ i + 1 \in 1..n
      BY <1>1
    <2>2. ar[i + 1].start = ar[i].end + 1
      BY <1>2 DEF Adjacent, n
    <2> QED
      BY <1>6, <1>7, <2>1, <2>2
  <1>14. Complete(ar2, b + 1, used)
    <2>1. ASSUME NEW c \in 4..(b + 1), c \notin used
          PROVE  \E i \in 1..n : ar2[i].start <= c /\ c <= ar2[i].end
      <3>1. CASE c = b + 1
        BY <1>1, <1>7, <1>8, <3>1
      <3>2. CASE c # b + 1
        <4>1. c \in 4..b
          BY <3>2
        <4>2. PICK i \in 1..n : ar[i].start <= c /\ c <= ar[i].end
          BY <1>2, <2>1, <4>1 DEF Complete, n
        <4>3. CASE i # n
          BY <1>6, <4>2, <4>3
        <4>4. CASE i = n
          BY <1>1, <1>7, <4>1, <4>2, <4>4
        <4> QED
          BY <4>3, <4>4
      <3> QED
        BY <3>1, <3>2
    <2> QED
      BY <1>6, <1>7, <2>1 DEF Complete
  <1>15. s2.last \in BOOLEAN /\ (s2.last <=> InUse(b + 1, used))
    <2>1. s.last \in BOOLEAN
      BY DEF ScanInv
    <2>2. s.last <=> b + 1 \in used
      BY <2>1
    <2>3. b + 1 # 3
      OBVIOUS
    <2> QED
      BY <1>4, <2>1, <2>2, <2>3 DEF InUse
  <1>16. ScanInv(s2, b + 1, used)
    BY <1>4, <1>6, <1>11, <1>12, <1>13, <1>14, <1>15 DEF ScanInv
  <1> QED
    BY <1>16 DEF s2

(* What AreasUpTo has collected at every position.                         *)
LEMMA ScanCorrect ==
    ASSUME NEW used
    PROVE  \A b \in 3..(NumBlocks - 1) : ScanInv(AreasUpTo(used)[b], b, used)
  <1> DEFINE g == AreasUpTo(used)
             S == {k \in Nat : 3 + k <= NumBlocks - 1 => ScanInv(g[3 + k], 3 + k, used)}
  <1>1. IsAreaScan(g, NumBlocks - 1, used)
    BY AreasEquation
  <1>2. \A b \in 3..(NumBlocks - 1) :
           g[b] = IF b = 3 THEN NoAreas ELSE NextArea(g[b - 1], b, used)
    BY <1>1 DEF IsAreaScan
  <1> HIDE DEF g
  <1>3. 0 \in S
    <2>1. 3 <= NumBlocks - 1 => g[3] = NoAreas
      BY <1>2, Blocks
    <2> QED
      BY <2>1, ScanBegins
  <1>4. ASSUME NEW k \in Nat, k \in S PROVE k + 1 \in S
    <2> SUFFICES ASSUME 3 + (k + 1) <= NumBlocks - 1
                 PROVE  ScanInv(g[3 + (k + 1)], 3 + (k + 1), used)
      OBVIOUS
    <2> DEFINE b == 3 + k
    <2>1. b \in Nat /\ b >= 3 /\ b + 1 = 3 + (k + 1) /\ b <= NumBlocks - 1
      BY Blocks
    <2>2. ScanInv(g[b], b, used)
      BY <1>4, <2>1
    <2>3. g[b + 1] = NextArea(g[b], b + 1, used)
      <3>1. b + 1 \in 3..(NumBlocks - 1) /\ b + 1 # 3 /\ (b + 1) - 1 = b
        BY <2>1, Blocks
      <3> HIDE DEF b
      <3> QED
        BY <1>2, <3>1
    <2> HIDE DEF b
    <2>4. ScanInv(NextArea(g[b], b + 1, used), b + 1, used)
      <3>1. CASE g[b].last # (b + 1 \in used)
        BY <2>1, <2>2, <3>1, ScanAppends
      <3>2. CASE ~(g[b].last # (b + 1 \in used)) /\ g[b].areas = <<>>
        BY <2>1, <2>2, <3>2, ScanKeeps
      <3>3. CASE ~(g[b].last # (b + 1 \in used)) /\ g[b].areas # <<>>
        BY <2>1, <2>2, <3>3, ScanExtends
      <3> QED
        BY <3>1, <3>2, <3>3
    <2> QED
      BY <2>1, <2>3, <2>4
  <1>5. \A k \in Nat : k \in S
    <2> HIDE DEF S
    <2> QED
      BY <1>3, <1>4, NatSetInduction
  <1>6. ASSUME NEW b \in 3..(NumBlocks - 1) PROVE ScanInv(g[b], b, used)
    <2>1. b - 3 \in Nat /\ 3 + (b - 3) = b /\ b <= NumBlocks - 1
      BY Blocks
    <2>2. b - 3 \in S
      BY <1>5, <2>1
    <2> QED
      BY <2>1, <2>2
  <1> QED
    BY <1>6 DEF g

(* The areas that libdrbcc_put_file chooses from.                          *)
LEMMA AreasCorrect ==
    ASSUME NEW used
    PROVE  /\ free_used(used) \in Seq(Area)
           /\ RunsOf(free_used(used), NumBlocks - 1, used)
           /\ Ascending(free_used(used))
           /\ Adjacent(free_used(used))
           /\ Complete(free_used(used), NumBlocks - 1, used)
  <1>1. NumBlocks - 1 \in 3..(NumBlocks - 1)
    BY Blocks
  <1>2. ScanInv(AreasUpTo(used)[NumBlocks - 1], NumBlocks - 1, used)
    BY <1>1, ScanCorrect
  <1> QED
    BY <1>2 DEF ScanInv, free_used

-----------------------------------------------------------------------------
(* The search for the best fitting area.                                   *)

IsFoundScan(g, last, areas, need) ==
    g = [i \in 0..last |-> IF i = 0 THEN 0 ELSE NextFound(g[i - 1], i, areas, need)]

LEMMA FoundScanExists ==
    ASSUME NEW areas, NEW need
    PROVE  \A k \in Nat : \E g : IsFoundScan(g, k, areas, need)
  <1> DEFINE S == {k \in Nat : \E g : IsFoundScan(g, k, areas, need)}
  <1>1. 0 \in S
    <2>1. IsFoundScan([i \in 0..0 |-> 0], 0, areas, need)
      BY DEF IsFoundScan
    <2> QED
      BY <2>1
  <1>2. ASSUME NEW k \in Nat, k \in S PROVE k + 1 \in S
    <2>1. PICK g : IsFoundScan(g, k, areas, need)
      BY <1>2
    <2> DEFINE h == [i \in 0..(k + 1) |->
                       IF i = k + 1 THEN NextFound(g[i - 1], i, areas, need) ELSE g[i]]
    <2>2. \A i \in 0..k :
             h[i] = g[i] /\ g[i] = IF i = 0 THEN 0 ELSE NextFound(g[i - 1], i, areas, need)
      BY <2>1 DEF IsFoundScan
    <2>3. ASSUME NEW i \in 0..(k + 1)
          PROVE  h[i] = IF i = 0 THEN 0 ELSE NextFound(h[i - 1], i, areas, need)
      <3>1. CASE i = 0
        <4>1. i \in 0..k
          BY <3>1
        <4> QED
          BY <2>2, <3>1, <4>1
      <3>2. CASE i # 0
        <4>1. i - 1 \in 0..k
          BY <3>2
        <4>2. h[i - 1] = g[i - 1]
          BY <2>2, <4>1
        <4>3. h[i] = NextFound(g[i - 1], i, areas, need)
          <5>1. CASE i = k + 1
            BY <5>1
          <5>2. CASE i # k + 1
            <6>1. i \in 0..k
              BY <5>2
            <6> QED
              BY <2>2, <3>2, <6>1
          <5> QED
            BY <5>1, <5>2
        <4> HIDE DEF h
        <4> QED
          BY <3>2, <4>2, <4>3
      <3> QED
        BY <3>1, <3>2
    <2>4. h = [i \in 0..(k + 1) |-> h[i]]
      OBVIOUS
    <2> HIDE DEF h
    <2>5. IsFoundScan(h, k + 1, areas, need)
      BY <2>3, <2>4 DEF IsFoundScan
    <2> QED
      BY <2>5
  <1>3. \A k \in Nat : k \in S
    <2> HIDE DEF S
    <2> QED
      BY <1>1, <1>2, NatSetInduction
  <1> QED
    BY <1>3

(* FoundUpTo satisfies its equation.                                       *)
LEMMA FoundEquation ==
    ASSUME NEW areas \in Seq(Area), NEW need
    PROVE  IsFoundScan(FoundUpTo(areas, need), Len(areas), areas, need)
  <1> DEFINE Scan(g) == g = [i \in 0..Len(areas) |->
                               IF i = 0 THEN 0 ELSE NextFound(g[i - 1], i, areas, need)]
  <1>1. Len(areas) \in Nat
    OBVIOUS
  <1>2. \A g : Scan(g) <=> IsFoundScan(g, Len(areas), areas, need)
    BY DEF IsFoundScan
  <1>3. FoundUpTo(areas, need) = CHOOSE g : Scan(g)
    BY DEF FoundUpTo
  <1> HIDE DEF Scan
  <1>4. \E g : Scan(g)
    BY <1>1, <1>2, FoundScanExists
  <1>5. Scan(FoundUpTo(areas, need))
    BY <1>3, <1>4, Zenon
  <1> QED
    BY <1>2, <1>5

Fits(areas, need, i) == areas[i].free /\ AreaSize(areas[i]) >= need

(* What the search has found among the first i areas.                      *)
FoundInv(f, i, areas, need) ==
    /\ f \in 0..i
    /\ f = 0 => \A j \in 1..i : ~Fits(areas, need, j)
    /\ f # 0 => /\ Fits(areas, need, f)
                /\ \A j \in 1..i : Fits(areas, need, j) =>
                      \/ AreaSize(areas[f]) < AreaSize(areas[j])
                      \/ AreaSize(areas[f]) = AreaSize(areas[j]) /\ f <= j

LEMMA FoundCorrect ==
    ASSUME NEW areas \in Seq(Area), NEW need \in Nat
    PROVE  FoundInv(Found(areas, need), Len(areas), areas, need)
  <1> DEFINE g == FoundUpTo(areas, need)
             n == Len(areas)
             S == {k \in Nat : k <= n => FoundInv(g[k], k, areas, need)}
  <1>1. n \in Nat /\ \A i \in 1..n : AreaSize(areas[i]) \in Int
    <2>1. n \in Nat /\ \A i \in 1..n : areas[i] \in Area
      OBVIOUS
    <2>2. \A x \in Area : AreaSize(x) \in Int
      BY DEF Area, AreaSize
    <2> QED
      BY <2>1, <2>2
  <1>2. \A i \in 0..n : g[i] = IF i = 0 THEN 0 ELSE NextFound(g[i - 1], i, areas, need)
    BY FoundEquation DEF IsFoundScan
  <1> HIDE DEF g, n
  <1>3. 0 \in S
    BY <1>1, <1>2 DEF FoundInv
  <1>4. ASSUME NEW k \in Nat, k \in S PROVE k + 1 \in S
    <2> SUFFICES ASSUME k + 1 <= n
                 PROVE  FoundInv(g[k + 1], k + 1, areas, need)
      OBVIOUS
    <2>1. k + 1 \in 0..n /\ k + 1 # 0 /\ (k + 1) - 1 = k /\ k <= n
      BY <1>1
    <2>2. g[k + 1] = NextFound(g[k], k + 1, areas, need)
      BY <1>2, <2>1
    <2>3. FoundInv(g[k], k, areas, need)
      BY <1>4, <2>1
    <2>4. \A j \in 1..(k + 1) : j \in 1..k \/ j = k + 1
      OBVIOUS
    <2>5. \A j \in 1..(k + 1) : AreaSize(areas[j]) \in Int
      BY <1>1
    <2>6. g[k] \in 0..k
      BY <2>3 DEF FoundInv
    <2> DEFINE better == /\ areas[k + 1].free
                         /\ AreaSize(areas[k + 1]) >= need
                         /\ g[k] = 0 \/ AreaSize(areas[k + 1]) < AreaSize(areas[g[k]])
    <2>7. CASE better
      <3>1. g[k + 1] = k + 1
        BY <2>2, <2>7 DEF NextFound, Better
      <3>2. Fits(areas, need, k + 1)
        BY <2>7 DEF Fits
      <3>3. ASSUME NEW j \in 1..k, Fits(areas, need, j)
            PROVE  AreaSize(areas[k + 1]) < AreaSize(areas[j])
        <4>1. g[k] # 0 /\ g[k] \in 1..(k + 1) /\ j \in 1..(k + 1) /\ k + 1 \in 1..(k + 1)
          BY <2>3, <2>6, <3>3 DEF FoundInv
        <4>2. AreaSize(areas[g[k]]) <= AreaSize(areas[j])
          BY <2>3, <2>5, <3>3, <4>1, SMTT(30) DEF FoundInv
        <4> QED
          BY <2>5, <2>7, <4>1, <4>2
      <3>4. k + 1 \in 0..(k + 1)
        OBVIOUS
      <3> QED
        BY <2>4, <3>1, <3>2, <3>3, <3>4 DEF FoundInv
    <2>8. CASE ~better
      <3>1. g[k + 1] = g[k]
        BY <2>2, <2>8 DEF NextFound, Better
      <3>2. g[k] \in 0..(k + 1)
        BY <2>6
      <3>3. CASE g[k] = 0
        <4>1. ~Fits(areas, need, k + 1)
          BY <2>8, <3>3 DEF Fits
        <4> QED
          BY <2>3, <2>4, <3>1, <3>2, <3>3, <4>1 DEF FoundInv
      <3>4. CASE g[k] # 0
        <4>1. g[k] \in 1..(k + 1) /\ k + 1 \in 1..(k + 1) /\ g[k] <= k + 1
          BY <2>6, <3>4
        <4>2. Fits(areas, need, k + 1) => AreaSize(areas[g[k]]) <= AreaSize(areas[k + 1])
          BY <2>5, <2>8, <3>4, <4>1 DEF Fits
        <4>3. Fits(areas, need, k + 1) =>
                 \/ AreaSize(areas[g[k]]) < AreaSize(areas[k + 1])
                 \/ AreaSize(areas[g[k]]) = AreaSize(areas[k + 1]) /\ g[k] <= k + 1
          BY <2>5, <4>1, <4>2
        <4> QED
          BY <2>3, <2>4, <3>1, <3>2, <3>4, <4>3 DEF FoundInv
      <3> QED
        BY <3>3, <3>4
    <2> QED
      BY <2>7, <2>8
  <1>5. n \in S
    <2> HIDE DEF S
    <2> QED
      BY <1>1, <1>3, <1>4, NatSetInduction
  <1> QED
    BY <1>1, <1>5 DEF Found, g, n

(* The area that is found: a run of free data blocks, large enough.        *)
LEMMA StartForFree ==
    ASSUME NEW used, NEW need \in Nat \ {0}, NEW start \in StartFor(used, need)
    PROVE  /\ start \in Nat
           /\ start..(start + need - 1) \subseteq DataBlocks
           /\ (start..(start + need - 1)) \cap used = {}
  <1> DEFINE ar == free_used(used)
             f == Found(ar, need)
             a == ar[f]
  <1>1. ar \in Seq(Area) /\ Len(ar) \in Nat /\ RunsOf(ar, NumBlocks - 1, used)
    BY AreasCorrect
  <1>2. FoundInv(f, Len(ar), ar, need)
    BY <1>1, FoundCorrect
  <1>3. f # 0 /\ start = a.start
    BY DEF StartFor
  <1>4. f \in 1..Len(ar) /\ Fits(ar, need, f)
    BY <1>1, <1>2, <1>3 DEF FoundInv
  <1>5. a \in Area
    BY <1>1, <1>4
  <1>6. /\ 4 <= a.start /\ a.start <= a.end /\ a.end <= NumBlocks - 1
        /\ \A c \in a.start..a.end : (c \in used) <=> ~a.free
    BY <1>1, <1>4 DEF RunsOf
  <1>7. a.free /\ (a.end - a.start) + 1 >= need
    BY <1>4 DEF Fits, AreaSize
  <1>8. a.start \in Nat /\ a.end \in Nat
    BY <1>5 DEF Area
  <1> HIDE DEF a
  <1>9. start..(start + need - 1) \subseteq a.start..a.end
    BY <1>3, <1>7, <1>8
  <1>10. a.start..a.end \subseteq DataBlocks
    BY <1>6, <1>8, Blocks DEF DataBlocks
  <1> QED
    BY <1>3, <1>6, <1>7, <1>8, <1>9, <1>10
=============================================================================
