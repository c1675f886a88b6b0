--------------------------- MODULE MCDrbccSession ---------------------------
(* The model-checking run of DrbccSession: a transfer off a boundary of    *)
(* several parts, a short one and an odd one; the times at the ends of the *)
(* two centuries.                                                          *)
EXTENDS DrbccSession

MCTransfers == {<<4, 16>>, <<2, 2>>, <<1, 2>>}
MCTimes ==
    { [sec |-> 0, min |-> 0, hour |-> 9, wday |-> 5, mday |-> 1, mon |-> 0, year |-> 100],
      [sec |-> 10, min |-> 59, hour |-> 20, wday |-> 4, mday |-> 30, mon |-> 9, year |-> 299],
      [sec |-> 59, min |-> 9, hour |-> 23, wday |-> 6, mday |-> 31, mon |-> 11, year |-> 199],
      [sec |-> 0, min |-> 10, hour |-> 0, wday |-> 0, mday |-> 1, mon |-> 0, year |-> 200] }
=============================================================================
