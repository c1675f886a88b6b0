----------------------------- MODULE DrbccStore -----------------------------
(***************************************************************************)
(* What the partition table of the flash promises its user, abstractly: a  *)
(* set of named files, each with one content.  A put that was asked for    *)
(* replaces a file at once, a delete that was asked for removes one at     *)
(* once, and nothing else changes the set, until the medium itself fails.  *)
(***************************************************************************)
EXTENDS Naturals

CONSTANTS
    Name,       \* the names of files
    AnyName,    \* in a delete: the file is given in another way
    Content     \* the possible contents

VARIABLES
    files,      \* the files, with their contents
    asked,      \* the puts and deletes asked for so far
    damaged     \* the medium has failed: nothing is promised any more

Request == [op : {"put"}, name : Name, ver : Content]
             \cup [op : {"delete"}, name : Name \cup {AnyName}, ver : {0}]

Init == files = {} /\ asked = {} /\ damaged = FALSE

Ask ==
    /\ \E r \in Request : asked' = asked \cup {r}
    /\ UNCHANGED <<files, damaged>>

Put(n, c) ==
    /\ [op |-> "put", name |-> n, ver |-> c] \in asked
    /\ files' = {f \in files : f.name # n} \cup {[name |-> n, ver |-> c]}
    /\ UNCHANGED <<asked, damaged>>

Delete(n) ==
    /\ \E m \in {n, AnyName} : [op |-> "delete", name |-> m, ver |-> 0] \in asked
    /\ files' = {f \in files : f.name # n}
    /\ UNCHANGED <<asked, damaged>>

(* From the failure on, the files may be anything.                         *)
Damage == damaged' = TRUE

Next == Ask \/ Damage \/ \E n \in Name : Delete(n) \/ \E c \in Content : Put(n, c)

Spec == Init /\ [][Next]_<<files, asked, damaged>>
=============================================================================
