-------------------------- MODULE DrbccLockProofs --------------------------
(***************************************************************************)
(* Proofs about the tty lock, for any set of processes: every step of      *)
(* libdrbcc_open_tty, drbcc_close and every kill keeps OwnInv, from which  *)
(* exclusion follows as long as no lock of a running owner was removed.    *)
(* The type invariant needs one part of OwnInv (a process that reads has   *)
(* opened a file), so that the two are proved together.                    *)
(***************************************************************************)
EXTENDS DrbccLock, TLAPS

LEMMA InitLock == Init => TypeOK /\ OwnInv
  <1>1. SUFFICES ASSUME Init PROVE TypeOK /\ OwnInv
    OBVIOUS
  <1>2. path \in 0..MaxFiles /\ created \in 0..MaxFiles /\ path <= created
    BY <1>1, LockAssumption DEF Init
  <1>3. \A p \in Proc : pc[p] = "off" /\ fd1[p] = 0 /\ ~Owning(p)
    BY <1>1 DEF Init, Owning
  <1>4. TypeOK
    <2>1. content \in [Files -> Pids \cup {Empty}] /\ stolen \in BOOLEAN
      BY <1>1 DEF Init, Pids
    <2>2. /\ pc \in [Proc -> Steps] /\ pidbuf \in [Proc -> Pids]
          /\ fd1 \in [Proc -> 0..MaxFiles]
      BY <1>1, LockAssumption DEF Init, Steps
    <2> QED
      BY <1>2, <2>1, <2>2 DEF TypeOK
  <1> QED
    BY <1>1, <1>2, <1>3, <1>4 DEF OwnInv, TypeOK

(* Every action keeps the types.                                           *)
LEMMA TypeStep == TypeOK /\ OwnInv /\ [Next]_vars => TypeOK'
  <1>1. SUFFICES ASSUME TypeOK, OwnInv, [Next]_vars PROVE TypeOK'
    OBVIOUS
  <1> USE LockAssumption DEF TypeOK, Goto, Files, Pids, Steps
  <1>2. ASSUME NEW p \in Proc, Start(p) \/ Step(p) \/ Kill(p) PROVE TypeOK'
    <2>1. CASE Create(p)
      BY <1>1, <2>1 DEF Create
    <2>2. CASE Reopen(p)
      BY <1>1, <2>2 DEF Reopen
    <2>3. CASE Read(p)
      <3>1. content[fd1[p]] \in Pids \cup {Empty}
        BY <1>1, <2>3 DEF Read, OwnInv
      <3>2. pidbuf' \in [Proc -> Pids]
        BY <1>1, <2>3, <3>1 DEF Read
      <3> QED
        BY <1>1, <2>3, <3>2 DEF Read
    <2>4. CASE Unlink(p)
      <3>1. stolen' \in BOOLEAN
        BY <1>1, <2>4, Zenon DEF Unlink
      <3> QED
        BY <1>1, <2>4, <3>1 DEF Unlink
    <2>5. CASE Write(p)
      BY <1>1, <2>5 DEF Write
    <2>6. CASE \/ Start(p) \/ GiveUp(p) \/ CreateFails(p) \/ ReadFails(p)
               \/ WriteFails(p) \/ Open(p) \/ Setup(p) \/ Abandon(p) \/ CloseTty(p)
               \/ Exit(p) \/ Kill(p)
      BY <1>1, <2>6 DEF Start, GiveUp, CreateFails, ReadFails, WriteFails, Open, Setup, Abandon, CloseTty,
                        Exit, Kill
    <2>7. CASE Check(p)
      BY <1>1, <2>7 DEF Check
    <2>8. CASE OpenFails(p) \/ SetupFails(p) \/ CloseLock(p)
      BY <1>1, <2>8, SMTT(30) DEF OpenFails, SetupFails, CloseLock
    <2> QED
      BY <1>2, <2>1, <2>2, <2>3, <2>4, <2>5, <2>6, <2>7, <2>8 DEF Step, OpenTty
  <1>3. CASE UNCHANGED vars
    BY <1>1, <1>3 DEF vars
  <1> QED
    BY <1>1, <1>2, <1>3 DEF Next

(* Every action keeps the ownership invariant.  Create is the only way to  *)
(* become an owner, and it makes a file no other process has open.         *)
LEMMA OwnCreate ==
    ASSUME TypeOK, OwnInv, NEW p \in Proc, Create(p)
    PROVE  OwnInv'
  <1>1. /\ created \in Nat /\ path' = created + 1 /\ created' = created + 1
        /\ content' = content /\ stolen' = stolen
    BY LockAssumption DEF Create, TypeOK
  <1>2. fd1'[p] = created + 1 /\ pc'[p] = "write"
    BY DEF Create, TypeOK, Goto
  <1>3. \A q \in Proc \ {p} : pc'[q] = pc[q] /\ fd1'[q] = fd1[q]
    BY DEF Create, TypeOK, Goto
  <1>4. \A q \in Proc : fd1[q] \in Nat /\ fd1[q] <= created
    BY LockAssumption DEF TypeOK, OwnInv
  <1>5. \A q \in Proc \ {p} : Owning(q)' <=> Owning(q)
    BY <1>3 DEF Owning
  <1>6. path' <= created'
    BY <1>1
  <1>7. \A q \in Proc : fd1'[q] <= created'
    BY <1>1, <1>2, <1>3, <1>4
  <1>8. \A q \in Proc : pc'[q] = "read" => fd1'[q] # 0
    BY <1>2, <1>3 DEF OwnInv
  <1>9. \A q \in Proc : Owning(q)' => fd1'[q] # 0
    BY <1>1, <1>2, <1>3, <1>5 DEF OwnInv
  <1>10. \A q \in Proc : pc'[q] \in {"open", "setup", "holding", "close"} => content'[fd1'[q]] = q
    BY <1>1, <1>2, <1>3 DEF OwnInv
  <1>11. \A q \in Proc \ {p} : fd1'[q] # fd1'[p]
    BY <1>1, <1>2, <1>3, <1>4
  <1>12. \A q, r \in Proc : (Owning(q)' /\ Owning(r)' /\ fd1'[q] = fd1'[r]) => q = r
    BY <1>3, <1>5, <1>11 DEF OwnInv
  <1>13. ~stolen' => \A q \in Proc : Owning(q)' => path' = fd1'[q]
    <2>1. ~stolen => \A q \in Proc : ~Owning(q)
      BY DEF Create, OwnInv
    <2> QED
      BY <2>1, <1>1, <1>2, <1>5
  <1> QED
    BY <1>6, <1>7, <1>8, <1>9, <1>10, <1>12, <1>13 DEF OwnInv

(* Write puts the pid into a file that no other owner has.                 *)
LEMMA OwnWrite ==
    ASSUME TypeOK, OwnInv, NEW p \in Proc, Write(p)
    PROVE  OwnInv'
  <1>1. /\ UNCHANGED <<path, created, fd1, stolen>> /\ pc[p] = "write" /\ pc'[p] = "open"
        /\ \A q \in Proc \ {p} : pc'[q] = pc[q]
    BY DEF Write, TypeOK, Goto
  <1>2. \A q \in Proc : Owning(q)' <=> Owning(q)
    BY <1>1 DEF Owning
  <1>3. Owning(p) /\ fd1[p] \in Files
    BY <1>1, LockAssumption DEF Owning, TypeOK, OwnInv, Files
  <1>4. content'[fd1[p]] = p /\ \A f \in Files \ {fd1[p]} : content'[f] = content[f]
    BY <1>3 DEF Write, TypeOK
  <1>5. \A q \in Proc : pc'[q] \in {"open", "setup", "holding", "close"} => content'[fd1'[q]] = q
    <2>1. SUFFICES ASSUME NEW q \in Proc, q # p, pc[q] \in {"open", "setup", "holding", "close"}
                   PROVE  content'[fd1[q]] = q
      BY <1>1, <1>4
    <2>2. Owning(q) /\ fd1[q] \in Files
      BY <2>1, LockAssumption DEF Owning, TypeOK, OwnInv, Files
    <2>3. fd1[q] # fd1[p]
      BY <2>1, <2>2, <1>3 DEF OwnInv
    <2> QED
      BY <2>1, <2>2, <2>3, <1>4 DEF OwnInv
  <1>6. \A q \in Proc : pc'[q] = "read" => fd1'[q] # 0
    BY <1>1 DEF OwnInv
  <1> QED
    BY <1>1, <1>2, <1>5, <1>6 DEF OwnInv

(* A step that leaves the lock files alone and makes nobody an owner.      *)
LEMMA OwnQuiet ==
    ASSUME TypeOK, OwnInv, NEW p \in Proc,
           UNCHANGED <<content, created, stolen>>,
           path' = path \/ (path' = 0 /\ (~stolen => \A q \in Proc \ {p} : ~Owning(q))),
           \A q \in Proc \ {p} : pc'[q] = pc[q] /\ fd1'[q] = fd1[q],
           \/ ~Owning(p)' /\ fd1'[p] \in {fd1[p], path} /\ (pc'[p] = "read" => fd1'[p] # 0)
           \/ /\ pc[p] \in {"open", "setup", "holding"} /\ pc'[p] \in {"setup", "holding", "close"}
              /\ fd1'[p] = fd1[p] /\ path' = path
    PROVE  OwnInv'
  <1>1. path \in Nat /\ created \in Nat /\ path <= created
    BY LockAssumption DEF TypeOK, OwnInv
  <1>2. \A q \in Proc : fd1[q] \in Nat /\ fd1[q] <= created
    BY LockAssumption DEF TypeOK, OwnInv
  <1>3. path' <= created' /\ \A q \in Proc : fd1'[q] <= created'
    BY <1>1, <1>2
  <1>4. \A q \in Proc : Owning(q)' => Owning(q) /\ fd1'[q] = fd1[q]
    BY DEF Owning
  <1>5. \A q \in Proc : pc'[q] = "read" => fd1'[q] # 0
    BY DEF OwnInv
  <1>6. \A q \in Proc : pc'[q] \in {"open", "setup", "holding", "close"} => content'[fd1'[q]] = q
    <2>1. \A q \in Proc \ {p} : pc'[q] \in {"open", "setup", "holding", "close"} => content'[fd1'[q]] = q
      BY DEF OwnInv
    <2>2. pc'[p] \in {"open", "setup", "holding", "close"} => content'[fd1'[p]] = p
      BY DEF OwnInv, Owning
    <2> QED
      BY <2>1, <2>2
  <1>7. \A q \in Proc : Owning(q)' => fd1'[q] # 0
    BY <1>4 DEF OwnInv
  <1>8. \A q, r \in Proc : (Owning(q)' /\ Owning(r)' /\ fd1'[q] = fd1'[r]) => q = r
    BY <1>4 DEF OwnInv
  <1>9. ~stolen' => \A q \in Proc : Owning(q)' => path' = fd1'[q]
    <2>1. CASE path' = path
      BY <2>1, <1>4 DEF OwnInv
    <2>2. CASE path' # path
      <3>1. ~Owning(p)'
        BY <2>2
      <3> QED
        BY <2>2, <3>1, <1>4
    <2> QED
      BY <2>1, <2>2
  <1> QED
    BY <1>3, <1>5, <1>6, <1>7, <1>8, <1>9 DEF OwnInv

LEMMA OwnStep == TypeOK /\ OwnInv /\ [Next]_vars => OwnInv'
  <1>1. SUFFICES ASSUME TypeOK, OwnInv, [Next]_vars PROVE OwnInv'
    OBVIOUS
  <1>2. ASSUME NEW p \in Proc, Start(p) \/ Step(p) \/ Kill(p) PROVE OwnInv'
    <2>1. CASE Create(p)
      BY <1>1, <2>1, OwnCreate
    <2>2. CASE Reopen(p)
      <3>1. /\ UNCHANGED <<content, created, stolen, path>> /\ fd1'[p] = path
            /\ \A q \in Proc \ {p} : pc'[q] = pc[q] /\ fd1'[q] = fd1[q]
            /\ pc'[p] = IF path = 0 THEN "create" ELSE "read"
        BY <1>1, <2>2 DEF Reopen, TypeOK, Goto
      <3>2. ~Owning(p)' /\ (pc'[p] = "read" => fd1'[p] # 0)
        BY <3>1 DEF Owning
      <3>3. UNCHANGED <<content, created, stolen>>
        BY <3>1
      <3>4. path' = path \/ (path' = 0 /\ (~stolen => \A q \in Proc \ {p} : ~Owning(q)))
        BY <3>1
      <3>5. ~Owning(p)' /\ fd1'[p] \in {fd1[p], path} /\ (pc'[p] = "read" => fd1'[p] # 0)
        BY <3>1, <3>2
      <3>6. \A q \in Proc \ {p} : pc'[q] = pc[q] /\ fd1'[q] = fd1[q]
        BY <3>1
      <3> QED
        BY <1>1, <3>3, <3>4, <3>5, <3>6, OwnQuiet
    <2>3. CASE \/ Read(p) \/ Check(p) \/ Start(p) \/ GiveUp(p) \/ CreateFails(p) \/ ReadFails(p)
               \/ WriteFails(p) \/ Open(p) \/ Setup(p) \/ Abandon(p) \/ CloseTty(p)
               \/ Exit(p) \/ Kill(p)
      <3>1. UNCHANGED <<path, content, created, fd1, stolen>>
        BY <2>3 DEF Read, Check, Start, GiveUp, CreateFails, ReadFails, WriteFails, Open, Setup,
                    Abandon, CloseTty, Exit, Kill
      <3>2. \A q \in Proc \ {p} : pc'[q] = pc[q]
        BY <1>1, <2>3 DEF Read, Check, Start, GiveUp, CreateFails, ReadFails, WriteFails, Open, Setup,
                    Abandon, CloseTty, Exit, Kill, TypeOK, Goto
      <3>3. \/ pc'[p] \in {"create", "reopen", "check", "unlink", "done", "exited"}
            \/ pc'[p] \in {"setup", "holding", "close"} /\ pc[p] \in {"open", "setup", "holding"}
        BY <1>1, <2>3 DEF Read, Check, Start, GiveUp, CreateFails, ReadFails, WriteFails, Open, Setup,
                    Abandon, CloseTty, Exit, Kill, TypeOK, Goto
      <3>4. \/ ~Owning(p)' /\ pc'[p] # "read"
            \/ pc'[p] \in {"setup", "holding", "close"} /\ pc[p] \in {"open", "setup", "holding"}
        BY <3>3 DEF Owning
      <3>5. CASE ~Owning(p)' /\ pc'[p] # "read"
        <4>1. ~Owning(p)' /\ fd1'[p] \in {fd1[p], path} /\ (pc'[p] = "read" => fd1'[p] # 0)
          BY <3>1, <3>5
        <4>2. UNCHANGED <<content, created, stolen>>
          BY <3>1
        <4>4. path' = path \/ (path' = 0 /\ (~stolen => \A q \in Proc \ {p} : ~Owning(q)))
          BY <3>1
        <4>3. \A q \in Proc \ {p} : pc'[q] = pc[q] /\ fd1'[q] = fd1[q]
          BY <3>1, <3>2
        <4> QED
          BY <1>1, <4>1, <4>2, <4>3, <4>4, OwnQuiet
      <3>6. CASE pc'[p] \in {"setup", "holding", "close"} /\ pc[p] \in {"open", "setup", "holding"}
        <4>1. fd1'[p] = fd1[p] /\ path' = path
          BY <3>1
        <4>4. path' = path \/ (path' = 0 /\ (~stolen => \A q \in Proc \ {p} : ~Owning(q)))
          BY <3>1
        <4>2. UNCHANGED <<content, created, stolen>>
          BY <3>1
        <4>3. \A q \in Proc \ {p} : pc'[q] = pc[q] /\ fd1'[q] = fd1[q]
          BY <3>1, <3>2
        <4> QED
          BY <1>1, <3>6, <4>1, <4>2, <4>3, <4>4, OwnQuiet
      <3> QED
        BY <3>4, <3>5, <3>6
    <2>4. CASE Unlink(p)
      <3>1. /\ path' = 0 /\ UNCHANGED <<content, created, fd1>>
            /\ pc[p] = "unlink" /\ pc'[p] = "create" /\ \A q \in Proc \ {p} : pc'[q] = pc[q]
        BY <1>1, <2>4 DEF Unlink, TypeOK, Goto
      <3>2. ~stolen' => ~stolen /\ \A q \in Proc : ~(Owning(q) /\ fd1[q] = path)
        BY <2>4, Zenon DEF Unlink
      <3>3. ~stolen' => \A q \in Proc : ~Owning(q)
        BY <1>1, <3>2 DEF OwnInv
      <3>4. \A q \in Proc : Owning(q)' <=> Owning(q)
        BY <3>1 DEF Owning
      <3>5. \A q \in Proc : pc'[q] = "read" => fd1'[q] # 0
        BY <1>1, <3>1 DEF OwnInv
      <3>6. \A q \in Proc : pc'[q] \in {"open", "setup", "holding", "close"} => content'[fd1'[q]] = q
        BY <1>1, <3>1 DEF OwnInv
      <3>7. path' <= created'
        BY <1>1, <3>1, LockAssumption DEF TypeOK
      <3> QED
        BY <1>1, <3>1, <3>3, <3>4, <3>5, <3>6, <3>7 DEF OwnInv
    <2>5. CASE Write(p)
      BY <1>1, <2>5, OwnWrite
    <2>6. CASE OpenFails(p) \/ SetupFails(p) \/ CloseLock(p)
      <3>1. /\ path' = 0 /\ pc[p] \in {"open", "setup", "close"}
            /\ pc'[p] \in {"done", "abandon"} /\ \A q \in Proc \ {p} : pc'[q] = pc[q]
            /\ UNCHANGED <<content, created, fd1, stolen>>
        BY <1>1, <2>6 DEF OpenFails, SetupFails, CloseLock, TypeOK, Goto
      <3>2. Owning(p) /\ ~Owning(p)'
        BY <3>1 DEF Owning
      <3>3. ~stolen => \A q \in Proc \ {p} : ~Owning(q)
        BY <1>1, <3>2 DEF OwnInv
      <3> QED
        BY <1>1, <3>1, <3>2, <3>3, OwnQuiet
    <2> QED
      BY <1>2, <2>1, <2>2, <2>3, <2>4, <2>5, <2>6 DEF Step, OpenTty
  <1>3. CASE UNCHANGED vars
    BY <1>1, <1>3 DEF vars, OwnInv, Owning
  <1> QED
    BY <1>1, <1>2, <1>3 DEF Next

(* Every reachable state is well typed and keeps the ownership invariant,  *)
(* for every set of processes and whoever is killed when.                  *)
THEOREM OwnershipKept == Spec => [](TypeOK /\ OwnInv)
  BY InitLock, TypeStep, OwnStep, PTL DEF Spec

(* libdrbcc_open_tty lets one process at a time set the tty up or use it,  *)
(* unless its stale branch has removed the lock of a running owner.        *)
THEOREM Exclusion == Spec => []ExclusiveUnlessStolen
  <1>1. TypeOK /\ OwnInv => ExclusiveUnlessStolen
    BY LockAssumption DEF TypeOK, OwnInv, Owning, Using, ExclusiveUnlessStolen
  <1> QED
    BY <1>1, OwnershipKept, PTL
=============================================================================
