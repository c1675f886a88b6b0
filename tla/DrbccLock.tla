----------------------------- MODULE DrbccLock -----------------------------
(***************************************************************************)
(* The lock file that libdrbcc_open_tty (lib/drbcc_ll.c, and its copy in   *)
(* src/dvmon.c) keeps for a tty: several processes of one machine take it  *)
(* with O_CREAT|O_EXCL, write their pid into it, remove it when they find  *)
(* that its process is gone, give up after a timeout, and may be killed at *)
(* any step.  One action is one system call on the lock file or on the     *)
(* tty; the build is the one without liblockdev.                           *)
(*                                                                         *)
(* Lock files are numbered: unlink and open(O_CREAT) of the same path give *)
(* a new file, and a process may still read the file it opened before.     *)
(***************************************************************************)
EXTENDS Naturals

CONSTANTS
    Proc,           \* the processes, each identified by its pid
    Gone,           \* a pid that belongs to no process
    Empty,          \* the content of a lock file not yet written
    MaxFiles        \* bound: lock files created in one behaviour

ASSUME LockAssumption ==
    /\ Gone \notin Proc
    /\ Empty \notin Proc \cup {Gone}
    /\ MaxFiles \in Nat \ {0}

Files == 1..MaxFiles
Pids == Proc \cup {Gone}
Steps == {"off", "create", "reopen", "read", "check", "unlink", "write", "open",
          "setup", "holding", "close", "abandon", "done", "exited"}

VARIABLES
    path,       \* the file at the lock path, 0 for none
    content,    \* content[f]: the pid in lock file f, or Empty
    created,    \* number of lock files created
    pc,         \* pc[p]: the next system call of process p
    fd1,        \* fd1[p]: the lock file that p created or opened, 0 for none
    pidbuf,     \* pidbuf[p]: the pid p read
    stolen      \* history: the stale branch removed the lock of a running owner

vars == <<path, content, created, pc, fd1, pidbuf, stolen>>

(* The processes between a successful O_EXCL open and their own unlink. *)
Owning(p) == pc[p] \in {"write", "open", "setup", "holding", "close"}
Running(p) == pc[p] \notin {"off", "exited"}

(* The lock directory is empty, or holds a lock left by a killed process.  *)
Init ==
    /\ path \in {0, 1}
    /\ content = [f \in Files |-> IF f = 1 /\ path = 1 THEN Gone ELSE Empty]
    /\ created = path
    /\ pc = [p \in Proc |-> "off"]
    /\ fd1 = [p \in Proc |-> 0]
    /\ pidbuf \in [Proc -> Pids]
    /\ stolen = FALSE

Goto(p, step) == pc' = [pc EXCEPT ![p] = step]

(* drbcc_start or dvmon_init calls libdrbcc_open_tty. *)
Start(p) ==
    /\ pc[p] = "off"
    /\ Goto(p, "create")
    /\ UNCHANGED <<path, content, created, fd1, pidbuf, stolen>>

(* Mutant: the time stamp is taken anew in every iteration.                *)
GiveUpNever(p) ==
    /\ pc[p] = "create"
    /\ FALSE
    /\ UNCHANGED vars

(* Mutant: a process that gives up removes the lock file it waited for.    *)
GiveUpUnlinks(p) ==
    /\ pc[p] = "create"
    /\ path' = 0
    /\ Goto(p, "done")
    /\ UNCHANGED <<content, created, fd1, pidbuf, stolen>>

(* The timeout is tested at the head of the loop only.                     *)
GiveUp(p) ==
    /\ pc[p] = "create"
    /\ Goto(p, "done")
    /\ UNCHANGED <<path, content, created, fd1, pidbuf, stolen>>

(* Mutant: without O_EXCL the open takes the file that is already there.    *)
CreateNotExclusive(p) ==
    /\ pc[p] = "create"
    /\ path # 0 \/ created < MaxFiles
    /\ created' = IF path = 0 THEN created + 1 ELSE created
    /\ path' = IF path = 0 THEN created + 1 ELSE path
    /\ fd1' = [fd1 EXCEPT ![p] = path']
    /\ Goto(p, "write")
    /\ UNCHANGED <<content, pidbuf, stolen>>

(* open(O_CREAT|O_EXCL) succeeds: the path was free.                       *)
Create(p) ==
    /\ pc[p] = "create"
    /\ path = 0
    /\ created < MaxFiles
    /\ created' = created + 1
    /\ path' = created + 1
    /\ fd1' = [fd1 EXCEPT ![p] = created + 1]
    /\ Goto(p, "write")
    /\ UNCHANGED <<content, pidbuf, stolen>>

(* It fails: another one locked the tty, and the process sleeps.           *)
CreateFails(p) ==
    /\ pc[p] = "create"
    /\ path # 0
    /\ Goto(p, "reopen")
    /\ UNCHANGED <<path, content, created, fd1, pidbuf, stolen>>

Reopen(p) ==
    /\ pc[p] = "reopen"
    /\ fd1' = [fd1 EXCEPT ![p] = path]
    /\ Goto(p, IF path = 0 THEN "create" ELSE "read")
    /\ UNCHANGED <<path, content, created, pidbuf, stolen>>

(* read() of an empty file returns 0 and leaves pidbuf as it is: its first *)
(* content is whatever the stack held.                                     *)
Read(p) ==
    /\ pc[p] = "read"
    /\ IF content[fd1[p]] = Empty
         THEN UNCHANGED pidbuf
         ELSE pidbuf' = [pidbuf EXCEPT ![p] = content[fd1[p]]]
    /\ Goto(p, "check")
    /\ UNCHANGED <<path, content, created, fd1, stolen>>

ReadFails(p) ==
    /\ pc[p] = "read"
    /\ Goto(p, "create")
    /\ UNCHANGED <<path, content, created, fd1, pidbuf, stolen>>

(* open("/proc/<pid>") tells whether the process of the lock still exists. *)
Exists(pid) == pid \in Proc /\ Running(pid)

Check(p) ==
    /\ pc[p] = "check"
    /\ Goto(p, IF Exists(pidbuf[p]) THEN "create" ELSE "unlink")
    /\ UNCHANGED <<path, content, created, fd1, pidbuf, stolen>>

(* The stale branch removes whatever file is now at the path.              *)
Unlink(p) ==
    /\ pc[p] = "unlink"
    /\ path' = 0
    /\ stolen' = (stolen \/ \E q \in Proc : Owning(q) /\ fd1[q] = path)
    /\ Goto(p, "create")
    /\ UNCHANGED <<content, created, fd1, pidbuf>>

Write(p) ==
    /\ pc[p] = "write"
    /\ content' = [content EXCEPT ![fd1[p]] = p]
    /\ Goto(p, "open")
    /\ UNCHANGED <<path, created, fd1, pidbuf, stolen>>

(* A short write: the function returns and leaves the lock file.           *)
WriteFails(p) ==
    /\ pc[p] = "write"
    /\ Goto(p, "done")
    /\ UNCHANGED <<path, content, created, fd1, pidbuf, stolen>>

Open(p) ==
    /\ pc[p] = "open"
    /\ Goto(p, "setup")
    /\ UNCHANGED <<path, content, created, fd1, pidbuf, stolen>>

(* open() of the tty fails: the lock is removed, the tty was never open.   *)
OpenFails(p) ==
    /\ pc[p] = "open"
    /\ path' = 0
    /\ Goto(p, "done")
    /\ UNCHANGED <<content, created, fd1, pidbuf, stolen>>

(* tcgetattr, cfsetospeed and tcsetattr of the open tty.                   *)
Setup(p) ==
    /\ pc[p] = "setup"
    /\ Goto(p, "holding")
    /\ UNCHANGED <<path, content, created, fd1, pidbuf, stolen>>

(* One of them fails: the lock is removed first, with the tty still open.  *)
SetupFails(p) ==
    /\ pc[p] = "setup"
    /\ path' = 0
    /\ Goto(p, "abandon")
    /\ UNCHANGED <<content, created, fd1, pidbuf, stolen>>

(* The close(fd) after that unlink.                                        *)
Abandon(p) ==
    /\ pc[p] = "abandon"
    /\ Goto(p, "done")
    /\ UNCHANGED <<path, content, created, fd1, pidbuf, stolen>>

(* drbcc_close and dvmon_term close the tty, then remove the lock file.    *)
CloseTty(p) ==
    /\ pc[p] = "holding"
    /\ Goto(p, "close")
    /\ UNCHANGED <<path, content, created, fd1, pidbuf, stolen>>

CloseLock(p) ==
    /\ pc[p] = "close"
    /\ path' = 0
    /\ Goto(p, "done")
    /\ UNCHANGED <<content, created, fd1, pidbuf, stolen>>

(* The process ends by itself, or is killed.                               *)
Exit(p) ==
    /\ pc[p] = "done"
    /\ Goto(p, "exited")
    /\ UNCHANGED <<path, content, created, fd1, pidbuf, stolen>>

Kill(p) ==
    /\ Running(p)
    /\ Goto(p, "exited")
    /\ UNCHANGED <<path, content, created, fd1, pidbuf, stolen>>

-----------------------------------------------------------------------------
OpenTty(p) == \/ GiveUp(p) \/ Create(p) \/ CreateFails(p) \/ Reopen(p)
              \/ Read(p) \/ ReadFails(p) \/ Check(p) \/ Unlink(p)
              \/ Write(p) \/ WriteFails(p) \/ Open(p) \/ OpenFails(p)
              \/ Setup(p) \/ SetupFails(p) \/ Abandon(p)

Step(p) == \/ OpenTty(p) \/ CloseTty(p) \/ CloseLock(p) \/ Exit(p)

Next == \E p \in Proc : Start(p) \/ Step(p) \/ Kill(p)

Spec == Init /\ [][Next]_vars

(* A process inside libdrbcc_open_tty keeps running, and the clock passes  *)
(* the timeout: the test at the head of the loop eventually gives up.      *)
Fairness == \A p \in Proc : WF_vars(OpenTty(p)) /\ SF_vars(GiveUp(p))

FairSpec == Spec /\ Fairness

-----------------------------------------------------------------------------
(* The type invariant.                                                     *)
TypeOK ==
    /\ path \in 0..MaxFiles
    /\ content \in [Files -> Pids \cup {Empty}]
    /\ created \in 0..MaxFiles
    /\ pc \in [Proc -> Steps]
    /\ fd1 \in [Proc -> 0..MaxFiles]
    /\ pidbuf \in [Proc -> Pids]
    /\ stolen \in BOOLEAN

(* The processes that have the tty open and set it up or talk over it.  A  *)
(* process in "abandon" has it open too, but only to close it.             *)
Using(p) == pc[p] \in {"setup", "holding"}

(* The lock file keeps the use of the tty to one process: as long as the   *)
(* stale branch of libdrbcc_open_tty has removed no lock of a running      *)
(* owner, at most one process sets the tty up or talks over it, and the    *)
(* lock at the path is its own.  So the branches that close, fail or give  *)
(* up never remove or bypass the lock of another process, whenever anyone  *)
(* is killed.  Two things are left out because the code does not keep      *)
(* them: after `stolen' nothing is claimed, and a process whose tcgetattr, *)
(* cfsetospeed or tcsetattr failed has the tty open, until its close(fd),  *)
(* after it removed the lock: it may overlap with the next user.           *)
ExclusiveUnlessStolen ==
    ~stolen => \A p \in Proc :
                  Using(p) => /\ path # 0
                              /\ content[path] = p
                              /\ \A q \in Proc : Using(q) => q = p

(* libdrbcc_open_tty returns: with the tty, or with an error.              *)
OpenReturns ==
    \A p \in Proc : (pc[p] = "create") ~> (pc[p] \in {"holding", "done", "exited"})

(* The inductive invariant behind ExclusiveUnlessStolen.                   *)
OwnInv ==
    /\ path <= created
    /\ \A p \in Proc : fd1[p] <= created
    /\ \A p \in Proc : pc[p] = "read" => fd1[p] # 0
    /\ \A p \in Proc : Owning(p) => fd1[p] # 0
    /\ \A p \in Proc : pc[p] \in {"open", "setup", "holding", "close"} => content[fd1[p]] = p
    /\ \A p, q \in Proc : (Owning(p) /\ Owning(q) /\ fd1[p] = fd1[q]) => p = q
    /\ ~stolen => \A p \in Proc : Owning(p) => path = fd1[p]
=============================================================================
