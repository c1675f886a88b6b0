# A TLA+ model of libdrbcc

libdrbcc is the host library for the DResearch Board Controller Communication
protocol: a Linux host talks over a serial line to a board controller (BCTRL)
that has LEDs, GPIOs, an RTC, heartbeat supervision and an external flash. The
repository has the library (`src/lib`), a command line tool (`src/src/main.c`),
and a small monitor (`src/src/dvmon.c`). These modules model the parts of it that
are stateful and hard to test, TLC checks them on small instances, and TLAPS proves
most of their safety properties, and one refinement, for every instance.

Contents: [the system](#the-system), [modules](#modules), [runs](#runs),
[bounds](#bounds), [fairness](#fairness), [what is proved](#what-is-proved),
[only model-checked](#what-is-only-model-checked),
[what the code does not keep](#what-the-code-does-not-keep),
[abstractions](#abstractions-and-what-is-not-modelled), [plan](#plan).

## The system

| component | source | state | operations |
|---|---|---|---|
| link layer | `lib/drbcc.c` | both send queues, the message that waits for its ack, `send_toggle`, `expected_recv_toggle`, `wait_for_ack`, `wait_for_answer`, `repeatCount`, `sync_mode`, two deadlines | `drbcc_trigger`: receive, send one message, look at the timers; `libdrbcc_proc_msg`, `libdrbcc_proc_ack_msg` |
| framing | `lib/drbcc.c` | `readbuf`, `escaped`, `wait_for_stop_char`, `cur_msg`, `crc` | escape, CRC, the byte loop of `libdrbcc_receive` |
| tty and lock file | `lib/drbcc_ll.c`, a copy in `src/dvmon.c` | `/var/lock/LCK..<tty>` in the file system, its pid | `libdrbcc_open_tty`, `drbcc_close` |
| handle life cycle | `lib/drbcc_ll.c` | the handle | `drbcc_open`, `drbcc_init`, `drbcc_start`, `drbcc_stop`, `drbcc_close`, `drbcc_term` |
| requests and sessions | `lib/drbcc_utils.c`, `lib/drbcc_files.c` | `session`, `indClosesSession`, `flashAddr`, `flashLen`, `flashPos`, `flashData` | one function for each command: refuse while a session is active, queue a message, open a session |
| flash files | `lib/drbcc_files.c` | partition table and its backup in the flash, `state`, `curFile*`, `flashAddr`, the static `retry` | put, get, delete a file, read the table; a callback for each result |
| ring log | `lib/drbcc_files.c` | position and wrap flag, `start`, the entry being put together (`logdata`) | get the log, get the position, clear, put an entry |
| RTC and BCD | `lib/drbcc_utils.c`, `lib/drbcc.c` | none (the clock's registers are the controller's) | set and get the RTC |
| command line tool | `src/main.c`, `src/drbcc_sema.c` | `current_line`, `line_valid`, `session_count`, `running`, a pipe as a semaphore | main thread, drbcc thread, signal handler |
| dvmon | `src/dvmon.c` | the lock file | a line dialogue with the controller |

How they interact. The application (the tool's drbcc thread) calls
`drbcc_trigger` again and again; nothing else drives the library, which has no
thread of its own. A request queues a message in the first queue, or, if it is a
flash request, in the second, which waits for answers as well as for acks. The
controller's messages come back through `libdrbcc_receive` and
`libdrbcc_proc_msg`, which call the application's callbacks, close the session,
or run the flash state machine, which queues further messages. The lock file
keeps two processes from using one tty. In the tool, lines go from the main
thread to the drbcc thread through two unprotected variables, and back comes one
byte in a pipe.

What is hard, and what makes each part correct:

* **Link**: frames are lost, acks come late, a repetition may cross an ack, SYNC
  resets the bits while frames are under way, old frames wait in the tty. It is
  correct if each message is processed once and in order in both directions, if
  the four ways of releasing a message all leave a consistent state, and if no
  loss blocks the queues or a session.
* **Framing**: the receive state outlives a frame, so that a damaged one may spoil the
  next. It is correct if only messages that were sent are taken, and if reception
  recovers behind the damage.
* **Requests**: each function has its own way to end its session, answers may be
  refused or too short, the controller sends messages of its own, a session may be
  ended while its messages go on. It is correct if every session ends, none before its
  answer, and if raw transfers and the clock arrive as they were sent.
* **Ring log**: the log wraps, has entries of several cells and is written while it is
  read; a session may end while its position, its table or its chunks are still on
  their way. It is correct if the reading starts where it was asked for, stays in the
  log area, delivers every complete entry once, and ends.
* **Lock**: any system call of one process may fall between any two of another,
  and a process may be killed anywhere. It is correct if at most one process uses
  the tty and if opening always returns.
* **Flash files**: power may fail between, or inside, any two flash operations; a
  write may fail; requests overlap because some sessions end early. It is correct
  if there is always a usable table, if no operation damages another file, if the
  table changes only as a whole and as asked, and if reported successes are true.
* **Tool**: two threads and a signal handler without a lock. It is correct if each
  line is executed once, in order, before it is freed, and if nothing waits
  forever.

`PROJECT.json` lists the hazards line by line, with the properties that would catch
each.

## Modules

| module | models | by |
|---|---|---|
| `DrbccLink` | the link layer, with the sessions it opens and closes | one action per branch of `libdrbcc_receive`, of the send step and of the timer step of `drbcc_trigger`; `Request` for the API; the serial line and the controller are external |
| `Drbcc*Proofs` | | theorems about `DrbccLink`, `DrbccLock`, `DrbccSession`, `DrbccLog`, `DrbccFlash`, `DrbccAlloc` and `DrbccCli`, and lemmas about the operators of `DrbccTable` |
| `DrbccFrame` | the bytes of the line | the sender's frames as values, one action per branch of the byte loop of `libdrbcc_receive`; the line is external |
| `DrbccSession` | every request, and `libdrbcc_proc_msg` | one definition per function of `drbcc_utils.c`, one action per kind of message; link as shown by `DrbccLink`, controller external |
| `DrbccLog` | the ring log | one action per request and per kind of answer; the controller's log is external |
| `DrbccLock` | `libdrbcc_open_tty`, `drbcc_close`, `dvmon_term` | one action per system call and process |
| `DrbccTable` | the partition table as a value | operators: fresh table, used blocks, slot of a file, the scan for a free area, table after a put and a delete |
| `DrbccFlash` | the flash files | one action per API request, per kind of result and handler; the controller's flash is external |
| `DrbccStore` | what the table promises (abstract) | a set of named files changed by one put or one delete that was asked for |
| `DrbccAlloc` | placement over long sequences of puts and deletes | one action per complete file operation |
| `DrbccCli` | the tool's threads | one action per step that another thread can observe |
| `MCDrbcc*` | | constants and specifications for TLC |

### DrbccLink

`pc` is the phase of one iteration of `drbcc_trigger`: `recv` (the loop over the
receive buffer, one frame per action), `send` (at most one message from the first
queue, or from the second) and `timers` (answer timer, ack timer). The variables
have the code's names; `send_toggle` 0/-1 is `sendToggle` 0/1. A frame is its
command class, the message's identity and the toggle bit. The command classes
group the commands by what the code does with them: which queue, what closes the
session, whether the library answers by itself (the comment at the head of the
module lists them). The library never clears the toggle bit of a message, it only
sets it, and `Stamped` does the same. `Init` is either the state left by
`drbcc_start` with a first SYNC queued, any toggle bits in the controller and any
of a set of stale frames in the tty, or a synchronised link at rest.

The controller is external and follows the protocol comment above
`libdrbcc_receive`: it acknowledges what it receives, processes a message with the
expected bit, repeats its own message until it is acknowledged. With `SyncPeer` it
is one of the controllers that answer SYNC with `SYNC_ANSWER`, for which the
library switches to a mode where a message stands for the ack.

History variables: `sentLog`, `delivered`, `peerSentLog`, `taken` say what was
sent and processed; `stale` is set when an answer to an abandoned message can be
in the line, `skewed` when a SYNC may have set the receive bits of the two ends out
of step; `outcome` is the last thing `session_cb` said.

### DrbccLock

`path` is the file that the lock's path names (0: none), `content` what is
written in each file that was ever created: nothing yet, or a pid. `fd1` and
`pidbuf` are the process's local variables; a `read` that returns 0 leaves
`pidbuf` as it was, which is uninitialised the first time, so that it is any pid.
`stolen` (history) says that the stale branch unlinked a file whose owner was
still using it. A process keeps its pid; `Gone` is the pid of a process that has
ended before. Opening the tty (`Open`) and setting it up (`Setup`: `tcgetattr`,
`cfsetospeed`, `tcsetattr`) are steps of their own, since the code fails differently:
when the open fails the lock is removed and the tty was never open (`OpenFails`); when
the setup fails the lock is removed first (`SetupFails`) and the tty closed afterwards
(`Abandon`). Between these two another process may have the tty as well, so that
`ExclusiveUnlessStolen` is about the processes that set it up or talk over it
(`Using`).

### DrbccTable, DrbccFlash, DrbccStore

The unit is the block of 4096 bytes; the chunks of one block are one read or one
write. The content of a data block is <<version, position>>, the version being the
number of the put that wrote it, so that the model can tell whether a block holds
what an entry says it holds. `queue` is the second queue, in order; the controller
executes its head; `results` are the answers under way. Two of them can be under
way when the answer timer expires early (`ResultCap` 2), which is what the link
model allows. `session` is not tested before `session_cb` is called in this file,
and `Close` does not test it either.

A put queues all its requests at once when the table has been read, a get one read
at a time, a delete the new table. `Crash` loses what was not executed and starts
the library afresh, `CrashInWrite` leaves the beginning of a table in the block,
`BadWrite` is a write that the controller reports as failed. The host file may
vanish or turn out shorter than it was (`PutHostFile`), or refuse what a get writes to it
(`GetHostFile`). A read result that outlived its get is handled by the next one:
`flashLen` is 0 by then, and `libdrbcc_req_flash_read` asks for no bytes (`NoBytes`), at
an address that no longer matters. `ToggleError` ends the session
of whatever is running, as a repeated message of the controller does, and `PutLog`
takes the session and the state over: in both cases the requests that are queued go
on. History: `damaged` says that a write of a table itself went wrong, `overlap` that a
request began before the flash requests of an earlier one were done, or even with its
table read under way ("read").

`DrbccStore` is the abstract specification: `files` is a set of name and content,
and a step is one put or one delete that the application asked for. `Store ==
INSTANCE DrbccStore WITH files <- FilesOf(Effective.entries)` is the refinement
mapping: the table that the library would work with, that is block 0 if it has the
magic and block 1 otherwise. `AtomicStore` is `Store!Spec`.

`DrbccAlloc` has the operators of `DrbccTable` only, one put or delete per step, so that
tables with more files in a larger flash are reached; `BestFit` there is the reference
definition that the scan over `free_used` is compared with.

### DrbccFrame

Bytes are numbers, and the CRC and the escaping are the code's. The frames are sent
first and then read in pieces of any size through `readbuf`, one action per byte and
branch. `hurt` (history) is the frame of which one byte was changed or lost, or behind
which an additional byte showed up. What receive does with a message is in `DrbccLink`
and `DrbccSession`; here it is only `accepted`.

### DrbccSession

A message carries the request it belongs to (history, to tell whose answer it is), and
for the flash its address and bytes. `Begin` is what all requests share. The flash and
the clock are the controller's; the bytes of a write are numbered so that a misplaced
one is seen, and `Beyond` stands for what is read behind the application's buffer.
`undisturbed` (history) says that the session's request began with nothing of an
earlier one under way and met neither a fault nor a status of the controller's own;
`mixed` that some request did not begin so. `WithinPage` is what the code keeps to: a
part of a raw write may end at a boundary and does not cross one. `drbcc_ll.h` asks for
more, which [does not hold](#what-the-code-does-not-keep).

### DrbccLog

Positions count cells of 16 bytes, flash addresses chunks from the start of the flash.
An entry is one cell, or a head and `ExtCells` extension cells. `WriteCell` is the
controller: it writes in ring order and erases a block as it enters it, which is what
`calculate_start_addr_wrap` relies on. `delivered` is what `getlog_cb` was called with.

`GetLog` has the one guard of `drbcc_get_log`, that no session is active. Whatever an
earlier session left under way is answered in the new one, as in the code: `prio` and
`reads` are the two queues, `PosAnswer` takes a position in every state and asks for the
table if the state is `GET_LOG`, `GetLogTable` makes the position relative each time a
table comes. The subtraction, the block behind the position and the address of a read
are therefore computed as the code computes them, in 32 bits (`AddrBlocks`) and cut off
to the 24 bits of an address (`FlashBlocks`); a chunk that is not in the ring log may
hold anything (`GetLogForeign`).

The table comes from block 0, or from block 1 when block 0 has no magic (`ReadNoMagic`),
and is then restored (`ReadBackup`): the result of that write finds no handler in
`DRBCC_STATE_GET_LOG` and ends the session (`WriteResult`) while the reading goes on.
`tab0` and `tab1` are what the blocks hold: no magic, a table without log entries, or one
with them. `ToggleError`, `StatusEnds` and `GiveUp` are the three ways in which the link
ends a session; only the first resets the state.

History: `disturbed` (the log was written since its position was reported), `crossed` (a
get_log began with requests of an earlier one under way), `rebased` (with a position or a
table among them), `leftover` (`logdata` held a part of an entry of an earlier reading).

### DrbccCli

The main thread is `run_connection` with `execute_cmd_line`, the drbcc thread
`drbcc_thread_main` with `get_command`, `process_input` and `session_cb`. Reads and
writes of shared variables are steps of their own where another thread can come
between them: `put_command`'s two stores (in both orders, since nothing orders
them), `get_command`'s loads of the pointer, `session_stop`'s test and decrement.
A line is a number; `process_input` is reduced to its outcomes: releases the prompt,
delays, opens a session and gets refused or accepted, exits, or runs out of memory
in `process_cmd_wflash`. The signal handler interrupts one of the two threads,
which stands still meanwhile.

`get_command` uses `current_line` three times; each use may load it again or take what
was loaded before (`ptr`). Its second use reads the first character, in every pass of the
idle loop also of the line that the main thread has freed (`TextTest`), and reads through
NULL when the main thread's `current_line = 0` falls behind the first (`crashed`).
`due` says that an ack or an answer to come will end the library's session. A request
that is accepted may have none (`hung`): one that is answered with
`DRBCC_SYNC_CMD_ERROR`, or a `drbcc_get_log` that does not end. An odd range is refused
with the library's session left open, and nothing due.

## Runs

| run | result | what it shows |
|---|---|---|
| `link_async` | pass | host messages arrive once and in order with loss, early repetition, late acks, giving up, stale frames and SYNCs in between; the pending message's state is consistent |
| `link_sync` | pass | host messages arrive once and in order with a controller of the synchronous protocol, answers, status indications and the library's own replies |
| `link_live` | pass | both directions at once on a synchronised link: the controller's messages are processed once and in order; queues drain and the sessions of ack-closed commands end under any loss |
| `frame` | pass | three frames with one byte changed, lost or added: only messages that were sent are taken, in order and once (`OnlySent`); at most the damaged one and the one behind it are lost (`Recovers`) |
| `session` | pass | every pair of requests, with a message of the controller's own and a fault: sessions end (`SessionEnds`), none before its answer (`EndsWithItsAnswer`); raw transfers move exactly their bytes (`TransferExact`) in parts that keep to a page (`WithinPage`); the clock survives its conversions (`RtcRoundTrip`) |
| `log` | pass | a reading of the log starts where the request says (`StartsWhereAsked`), does not leave the table blocks and the log (`ReadsInArea`), delivers every complete entry in order and once (`LogComplete`), and ends (`SessionEnds`), with a restored table, a fault, and answers to an ended session still coming |
| `lock` | pass | one process at a time uses the tty until the stale branch takes a lock in use; the inductive invariant; `libdrbcc_open_tty` returns |
| `flash_faults` | pass | three requests, two faults of any kind: a good table is there unless a write of a table itself failed (`TableSafe`), no other file is damaged, the table refines `DrbccStore` |
| `flash_use` | pass | without faults, put and get report the truth, a reported delete is carried out, every session ends |
| `flash_delete` | violation | see [below](#what-the-code-does-not-keep) |
| `alloc` | pass | in every table that puts and deletes reach, files keep apart, the scan finds the best fit, and `free_used` is large enough; tables that fill it are reached |
| `cli` | pass | lines are executed once and in order and are not freed while `process_input` parses them; the prompt returns unless the request has no answer to come, and the process ends |

For each property of a passing run there is a mutated definition (marked `Mutant`
in the modules) under which TLC finds the property violated.

## Bounds

* Link: two or three host messages, up to two of the controller, one or two
  repetitions (25 in the code), two frames in each line (one in `link_live`). The protocol has one bit of
  memory in each direction, so that a third message already meets the copies of the
  first; two repetitions let an original, a repetition and a late ack be under way
  at once. The theorems remove these bounds for the safety properties.
* Lock: two processes and four lock files (a stale lock, and more than one created by
  each process in turn). The theorems remove the bounds.
* Framing: three frames (the damaged one, the one behind it that it may spoil, and one
  that must arrive), of an ack, a message with the three special bytes and one that ends
  with a zero; `readbuf` of five bytes, so that a frame spans several reads and a read
  several frames. All single bits are inverted, and the bits that turn START, STOP and
  ESC into each other.
* Sessions: two requests, one message of the controller's own, one fault: an answer can
  arrive in the session behind its own. Chunks of 8 bytes and blocks of 16; a transfer
  of three parts off a boundary, a short one and an odd one; the clock at the first and
  last years of the two centuries.
* Log: two blocks of two chunks of two cells, six entries and those that put_log adds, of
  which three are long: the ring wraps, long entries cross chunks, blocks and the end of
  the ring. Two requests and one fault, and a table that is sound or restored on the way:
  the answers to one get_log meet the next. `entries` is all, the last five (some missing,
  or behind the end of the ring), and from the third cell on (on both sides of the
  position). An address reaches seven blocks and 32 bits fourteen, so that a wrong
  subtraction wraps around and meets other blocks than those of the log.
* Allocation: four entries, ten data blocks, three files of one to three blocks, any
  sequence of puts and deletes, log areas included.
* Flash: two file names, sizes of one and two blocks, five data blocks of which two
  are log areas, so that files must share three blocks and run out of space; three
  or four table entries, of which one or two are free, so that the table also gets
  full; three requests and two faults, so that an operation overlaps with the rest
  of the one before it and a crash hits the recovery from a crash.
* Tool: three lines, one signal. `session_count` is modulo 4 instead of
  2^32: no line starts more than one session, so that only a wrap below 0 matters.

Deadlock is checked for the link and for the allocation. The other models may stop: processes end, all
requests have been made, the tool has ended.

## Fairness

* Link (`FairSpec`): weak fairness of `drbcc_trigger`'s steps, since the application
  calls it in a loop and it never blocks (`O_NONBLOCK`); strong fairness of the
  timer branches, since the deadlines come from `gettimeofday` and a later iteration
  finds them passed. Nothing is assumed of the line or of the controller: it may
  lose every frame and answer nothing.
* Lock: a process inside `libdrbcc_open_tty` goes on, and the clock passes its
  timeout (strong fairness of `GiveUp`, the test at the head of the loop). It may be
  killed at any step.
* Flash: the controller executes requests and the host handles results. Both follow
  from the link's liveness on a line that does not lose everything.
* Sessions and log: the application calls `drbcc_trigger`, the controller acknowledges,
  answers, and completes an entry that it has begun.
* Tool: the threads and the handler run, waiting times pass, `readline` notices its
  closed input, and the library ends a session for which an ack or an answer is to come
  (strong fairness of `Library /\ due`, since the callback comes in some call of
  `drbcc_trigger` and other calls of `session_cb` may come before it). This is what
  `CommandSessionEnds` and the `SessionEnds` of the sessions, of the log and of the flash
  show of the library. Of other sessions nothing is assumed.

## What is proved

TLAPS checks these theorems for all values of the constants that satisfy the named
assumptions of the modules (`LinkAssumption`, `SessionAssumption`, ...). They say that
sizes and bounds are natural numbers, and in a few places more, as the code has it: the
log areas are not empty and fit into the flash behind block 4 (`TableAssumption`); a
chunk of 128 bytes is not shorter than the seven registers of the clock, and the
application asks for ranges within the flash (`SessionAssumption`).

| theorem | states | of |
|---|---|---|
| `TypeCorrect`, `FlashTypeCorrect`, `SessionTypeCorrect`, `LogTypeCorrect`, `CliTypeCorrect` | `TypeOK` | `DrbccLink`, `DrbccFlash`, `DrbccSession`, `DrbccLog`, `DrbccCli` |
| `PendingConsistent` | `PendingInv` | `DrbccLink` |
| `HostExactlyOnce`, `PeerExactlyOnce` | `InOrderExactlyOnce`, `PeerInOrderExactlyOnce` | `DrbccLink` |
| `OwnershipKept`, `Exclusion` | `OwnInv`, `ExclusiveUnlessStolen` | `DrbccLock` |
| `FilesStayApart`, `BestFitPlaced`, `AreasAlwaysFit` | `FilesApart`, `PlacesBestFit`, `AreasFit` | `DrbccAlloc` |
| `TableAlwaysSafe` | `TableSafe` | `DrbccFlash` |
| `FilesStayIntact` | `OtherFilesIntact` | `DrbccFlash` |
| `PutsDurable`, `GetsComplete` (action properties) | `PutDurable`, `GetComplete` | `DrbccFlash` |
| `ImplementsStore` | `AtomicStore`: `DrbccFlash` implements `DrbccStore` | `DrbccFlash` |
| `ClockComesBack` | `RtcRoundTrip` | `DrbccSession` |
| `SessionNotEarly` (action property) | `EndsWithItsAnswer` | `DrbccSession` |
| `WritesWithinPage` | `WithinPage` | `DrbccSession` |
| `TransfersExact` (action property) | `TransferExact` | `DrbccSession` |
| `LogReadsInArea` | `ReadsInArea` | `DrbccLog` |
| `LogStartsWhereAsked` (action property) | `StartsWhereAsked` | `DrbccLog` |
| `LinesHandedOver`, `ParsedWhileWaiting` | `HandOver`, `LineNotFreed` | `DrbccCli` |

All inductive invariants were checked with TLC on the constants of the runs before they
were proved.

### Link and lock

`PendingInv` is not inductive by itself: that a message in a queue has a clear toggle
bit is needed to know the bit it gets (`QueueInv`), and that no message waits before the
first SYNC (`StartInv`). `LinkInvariant` is the whole inductive invariant,
`Spec => [](TypeOK /\ LinkInv)`. `HostExactlyOnce` holds for any loss, any line capacity,
any number of repetitions, any stale frames, SYNCs at any time, and both kinds of
controller.

With a controller that acknowledges, the argument for exactly once is `Alternating`. Read the acks on their way back,
then the bit the receiver expects, then the messages on their way: in this order the
bit changes at most once, from that of the previous message to that of the current
one. Before the receiver has the current message, all its copies are still ahead
and nothing has been logged; afterwards, copies are only of that one message, and
the acks still under way are of the previous one first. `LinkInv` states it for both
directions, and the lemmas `AltSend`, `AltRepeat`, `AltAck`, `AltAccept`,
`AltDuplicate`, ... state once what each protocol step does to it, for either
direction. SYNC is the exception that needs `AltSendSync` and `AltAcceptSync`: it
sets `send_toggle` to 1 whatever the last bit was and the receiver takes it whatever
bit it expects; it works since only an idle host sends one. In the other direction
SYNC resets both receive bits at different moments, and the claim is made for a link
on which no SYNC is sent (`~skewed`).

In the synchronous protocol nothing tells two answers apart, so that the argument is
another one (`SyncInv`): until a message is repeated, at which point the claim ends,
one frame at a time is on its way. After the first answer (`Turns`) the link is at
rest, or the pending message is on its way and not yet processed, or it was processed
and at most its answer is on its way. Before (`Opening`), frames left over in the tty
are all in front of the answer to the SYNC; the host acknowledges them and the
controller ignores these acks. `SyncInvariant` is `Spec => []SyncInv`.

For the lock, `OwnInv` says that no two processes own the same file, that an owner's
file has its pid from the write on, and that, until something is stolen, an owner's
file is the one at the path. A process that failed to set up the tty is no owner any
more when it has removed its lock, and `Exclusion` does not count it.

### Table and allocation

`DrbccTableProofs` shows what the two loops of `libdrbcc_put_file` compute. They are
recursive functions; each is first shown to satisfy its equation, then its result by
induction on the position. The library's induction theorem takes an operator, which no
installed prover can instantiate; `NatSetInduction`, which speaks of a set, is derived
instead from the fact that the natural numbers are well founded. `AreasCorrect`: the areas
are the maximal runs of free and of used blocks, in ascending order and without gaps.
`FoundCorrect`: the one found is the first of the smallest that are large enough.
`FilesApart` is inductive together with the table's type and the fact that an entry in
use has a block; `AreasFit` follows by counting: each area of used blocks contains the
start of an entry of its own.

### Flash files

`IInv` is `TypeOK`, `CurAsked` (what the handle works on was asked for), and, until a
write of a table fails or a request begins during the table read of an earlier one,
`Safe`. `TableSafe` says nothing of the queue, and a step of the controller that erases
a table block is safe only because of what was queued around it. So `Safe` says what the
queue may still do: tables in it are complete (`TablesGood`), an erase of a table block
is followed by its write (`EraseThenWrite`), all that depends on the backup is behind its
write (`BackupFirst`), which block holds a table at any point of the queue (`OneTable`),
block 0 gets what the backup has by then (`CopyOfBackup`), new tables differ from old
ones by one request (`StepsOnly`, `NoFilesYet`), and a table read is the last thing under
way while its result may make the host write a table (`ReadIsLast`, `RetryMeans`).

For the refinement, every step of the host, of the controller and every fault maps to a
stutter of `DrbccStore`, except one: the erase of block 0, by which the backup takes
effect, is the put or the delete. Once `damaged \/ overlap = "read"` the abstract store
promises nothing and takes any step.

`FilesStayIntact` is about the data blocks and needs an invariant of its own, `FilesInv`:
`TypeOK`, `CurAsked`, and, unless a request began during the table read of an earlier one,
`DataSafe`. It cannot rest on `Safe`, since it holds after a table write has failed as
well. Its parts say that a request hits only the blocks it is meant for (`RequestsFit`),
that one table read is under way at a time, behind all writes, so that its result is still
what the block holds when a put places a file by it (`OneRead`, `ReadsBehindWrites`), that
data comes before the backup and the backup before block 0 (`WriteOrder`), and of three
tables, that their files which no put touched are in the flash (`FilesGood`): the one in
use, with no request under way against its blocks; each queued one, whose blocks may still
be in the queue, the erase before the data; and the backup, as long as something under way
may bring it into use. A put adds writes only to blocks that `StartForFree` of
`DrbccTableProofs` shows to be free in the table it has read. The proof attempt found two
faults of an earlier model: it let a read result left over from an ended get read a table
block again, which the code cannot do since `flashLen` is 0, and had left out the host
file's errors during a get.

`PutsDurable` and `GetsComplete` relate a report to the results of all requests of its
operation. Their invariant is `DoneInv`: `TypeOK`, `CurAsked`, the files of all tables,
in the flash and under way, are within the flash (`TablesFit`), and, of an operation
that began with nothing of an earlier one under way, where it is. A put or get first
looks for its table: the read, of block 0 or of the backup, is the last request, and its
result is what the block holds (`Looking`). A get then has one block under way at a time,
the file of the host has exactly the blocks in front of it, and `flashAddr` is the next
one (`Fetching`); when it failed, only log entries are under way (`OnlyLogs`). A put is
`Storing`: an erase of its area is followed by the data, the data comes in ascending
order, the result of a write that succeeded says what its block holds, and the table of
block 0 is last of all (`PutQueue`, `StoreResults`). `libdrbcc_writeflash_cb` compares
the number of blocks written with the size; no results need to be counted to see that
this is right. It is enough that `curFilelength` is nowhere ahead of the data that is
still to be handled, and behind it from the first write that failed on (`StoreCount`):
when the result of block 0 comes, it has reached the size only if no write failed. Both
theorems hold under all faults, of which `flash_use`, the run of the two properties, has
none.

### Sessions and the clock

`Sound` holds of every state: the messages in the queues and on the line belong to
requests made so far, a write is as long as it says, a read is within the flash, and what
is under way to or from the clock are the registers of the time that its request was
given. With the lemma that `Time(Registers(t)) = t` for every time of the two centuries
(`TimeOfRegisters`, from `bcd2bin(bin2bcd(n)) = n`), it gives `RtcRoundTrip`. Three more
invariants hold of an undisturbed or unmixed session. `Own`: all commands under way are
its own, from which `EndsWithItsAnswer` follows step by step. `Paged`: only one raw
transfer is under way, and what is left of a write starts at a boundary and is still
there. `Exact`: at most one message of the transfer is under way, in the queue, with the
controller or on its way back (`OneUnderWay`); it ends where what is left begins
(`Joins`); what `read_flash_cb` has been given is the beginning of the range and the
flash is unchanged (`Reading`), or the flash holds the written part and what is left
holds the rest (`Writing`, `Written`). The last answer then leaves nothing:
`TransferExact`.

### Log

`LogTypeCorrect` is about the arithmetic: whatever order requests and answers come in, a
position keeps the range of its 32-bit variables and a read that of an address. That they
keep to the log area needs `~rebased`, and is `LogReadsInArea`. The position counts from
the start of the flash when it is reported and from the start of the area once the table
has come, so that its invariant, `InArea`, has to say when it is which: `OneTable` says
that a get_log waits for its position or for its table, once, and that the position is
absolute while it waits for the table. A table that is restored meanwhile, chunks of
earlier sessions and requests that were given up keep it. The loop over a chunk is a
recursive function again. `StartIs` shows, for every number of entries, position and size
of the area, where `StartFor` starts, and `LogStartsWhereAsked` follows.

### Tool

`HandOver` is inductive only with an account of who owes whom: at any time, the line is
not yet taken, or the drbcc thread owes a byte (`Owing`: it executes the line, or a
session is counted), or one byte is in the pipe, and never two of these. `Counting`,
`Stopping`, `NothingOwed`, `OneByte`, `LineUnderWay` and `FreedBefore` are its parts; they
hold while there was no signal and the drbcc thread took no line between
`put_command`'s stores or by a pointer from before them (`Quiet`). `ParsedWhileWaiting` is
`LineNotFreed`: it is about `process_input` and says nothing of the first character
that `get_command` reads.

## What is only model-checked

* Liveness (`QueuesDrain`, `CommandSessionEnds`, `OpenReturns`, `SessionEnds`,
  `DeleteCompletes`, `PromptReturns`, `Terminates`): out of reach of the prover, as
  fairness and `ENABLED` are.
* The frames (`DrbccFrame`): the CRC uses Bitwise, which the prover cannot use. `OnlySent`
  and `Recovers` are moreover facts about this CRC and these messages, not about all.
* `LogComplete`: what the loop over a chunk delivers for every content of the log is an
  induction over data.

## What the code does not keep

`flash_delete`: any write result ends a delete. The first one does end with the result
of its backup; the result of its block 0 then arrives in the next delete, which is
reported as "Flash file successfully deleted." (`lib/drbcc_files.c:1332`) before it has
read the table, and is never carried out.

Met while modelling, visible in the actions, and not the subject of a run of its own:

* the last x entries of a wrapped log are x + 1 when they reach back over the end of the
  ring (`lib/drbcc_files.c:1216`, "-1, because pos is an index"), though `src/main.c:148`
  says of getlog "I<0: last I entries"; everywhere else it is x. `StartsWhereAsked` says
  exactly this (`CellsBack`);
* `libdrbcc_get_log` takes the position for an absolute one and makes it relative
  (`lib/drbcc_files.c:1161`), each time a table comes. When a session was ended with its
  position or its table on the way, and the next get_log begins before they have come, a
  table is handled with a position that is relative already, or 0: the unsigned
  subtraction wraps around, and the reads may leave the log area. `ReadsInArea` shows that
  this is the only way for them to leave it;
* `lib/drbcc_ll.h:82` asks for "adrl + len < 256" in a raw write; the second half of a page
  is written with adrl = 128 and len = 128 (`lib/drbcc_utils.c:777`). No part crosses the
  page, which is `WithinPage`;
* `current_line = 0` is the "stop signal" of the drbcc thread (`src/main.c:1083`). It is
  tested at line 1081, and the pointer used at 1088 and at 1101: a build that loads it
  again there, as one without optimisation does, reads through NULL when the main
  thread's store (1885) falls in between. `Terminates` excludes it (`crashed`);
* a repeated controller message, which the protocol comment (`lib/drbcc.c:782`) says
  is discarded, ends the running session as failed (`RecvWrongToggle`'s call of
  `CloseSession`, `lib/drbcc.c:921`);
* when the last repetition was not acknowledged, the session ends with `success` 1
  (`lib/drbcc.c:1042`);
* a table with a wrong CRC is reported and used; the backup is read only if the magic
  is missing (`lib/drbcc_files.c:1239`), though the comment at line 57 says it is read
  when the first table has errors;
* deleting by index takes the ring log's entry too, and the next file goes where the
  controller writes its log (`lib/drbcc_files.c:343`);
* the SYNC of `drbcc_start` may be given up; the ack of the application's SYNC is then
  taken for it and its session stays open (`lib/drbcc.c:123`);
* two processes can have the tty: the stale branch unlinks a path that may by then be
  another process's lock, and takes an empty file for a stale one
  (`lib/drbcc_ll.c:201`);
* a failed write ends a put, the rest of which is still executed, and its results are
  counted to the next put (`lib/drbcc_files.c:1375`); the rest of a delete likewise ends
  a later request;
* `retry` is static: when a session ends between the reads of the table and of its
  backup, the next table without magic counts as a missing backup and is replaced by a
  fresh one, though the comment at `lib/drbcc_files.c:57` has the backup read then;
* a status that the controller sends by itself ends any session whose request is
  acknowledged (`lib/drbcc.c:547`);
* sessions that nothing ends: of a request that is answered with
  `DRBCC_SYNC_CMD_ERROR` (`lib/drbcc.c:209`), of a raw write of an odd range
  (`lib/drbcc_utils.c:765`), of `drbcc_get_log` with `ring` = 0
  (`lib/drbcc_files.c:1660`), of a log that is written as fast as it is read;
* a raw write that starts off a boundary and ends in front of the next one is extended
  to it, with bytes from behind the application's buffer (`lib/drbcc_utils.c:770`);
* after a raw transfer that was ended early, `flashLen` and `flashData` are left over:
  the next write's result continues with them, through NULL perhaps
  (`lib/drbcc_utils.c:748`);
* `cur_msg` is filled without a test: two frames that have run together are longer than
  it if both are as long as the protocol allows (`lib/drbcc.c:964`);
* when the tty cannot be set up, the lock is removed before the tty is closed
  (`lib/drbcc_ll.c:238`): for that moment two processes have it open;
* the result of restoring the table ends the session of a get_log, which goes on without
  one (`lib/drbcc_files.c:1389`);
* `get_command` reads the first character of the last line, which has been freed, in every
  pass of the idle loop (`src/main.c:1088`);
* a late `session_cb` releases the prompt of the next line before that line's session is
  done (`src/main.c:367`);
* a part of an entry that is left in `logdata` takes the extension cells of a later
  reading's entry (`lib/drbcc_files.c:1000`).

Properties carry an exclusion where the code does not keep them. Each is a variable of
the model that is set by the case in question:

| exclusion | case | properties |
|---|---|---|
| `stale` | an answer to an abandoned message, or one left in the tty, can be in the line; in the synchronous protocol, a message was repeated | `InOrderExactlyOnce` |
| `skewed` | a SYNC may have set the two receive bits out of step | `PeerInOrderExactlyOnce` |
| `stolen` | the stale branch removed the lock of a running owner | `ExclusiveUnlessStolen`, last part of `OwnInv` |
| `undisturbed` | the session met a fault, a status of the controller's own, or the rest of an earlier one | `EndsWithItsAnswer`, `TransferExact` |
| `mixed` | a request overlaps with another, or finds the rest of a transfer that was ended early | `WithinPage` |
| `refused`, `~alive` | a request was refused with its session left open; a part was taken from a `flashData` that is gone, and the process has crashed | `SessionEnds` of the sessions |
| `disturbed`, `crossed`, `leftover` | see [DrbccLog](#drbcclog) | `LogComplete`; the first two, `SessionEnds` of the log |
| `rebased` | a get_log began with a position or a table under way | `ReadsInArea`, `StartsWhereAsked` |
| `damaged`, `overlap` | a write of a table failed; a request began before an earlier one was done | the flash properties, each as its comment says |
| `early` | a line was taken between the stores of `put_command`, or by a pointer from before them | `HandOver`, `LineNotFreed` (which also hold only before any signal) |
| `starved` | `process_cmd_wflash` had no memory, and released nothing | `PromptReturns`, `Terminates` |
| `hung` | the request that was accepted last has nothing to come that ends it | `PromptReturns`, `Terminates` |
| `raced` | `session_stop` ran in the handler between the drbcc thread's test and decrement: `session_count` wraps | `Terminates` |
| `crashed` | the drbcc thread read through the NULL that is to stop it | `Terminates` |

## Abstractions, and what is not modelled

* A damaged frame is a lost frame for `DrbccLink`, which `frame` supports for one damaged
  byte. An additional byte is only modelled between frames: a zero in front of STOP
  would pass this CRC.
* The callbacks of the application are registered. Without `error_cb` the state changes
  are the same, but for one call of `session_cb` that is made only together with it
  (`lib/drbcc_files.c:574`). `malloc` succeeds.
* `DrbccSession` and `DrbccLog` start from a link that delivers in order and once; their
  `GiveUp` is a request that the link gave up. In `DrbccFlash` the one way in which the
  link ends a session is the repeated message (`ToggleError`): a request that was given up
  (`lib/drbcc.c:1042`) and an unsolicited status (`lib/drbcc.c:547`) end a put or a get as
  well, and report it as successful. `PutDurable` and `GetComplete` do not cover these. The raw flash requests (with
  callbacks for the flash registered) and the file requests (without) exclude each
  other and are in different modules.
* In `DrbccLog`, a table in block 0 or 1 has its log entries or has not; a torn one is a
  matter of `DrbccFlash`. No file is put or deleted meanwhile.
* A file's type and number are one name. File sizes are in blocks, so that the last
  partly filled block and the chunks of `libdrbcc_put_file` do not appear; the chunking
  itself is checked on the raw requests.
* The lock is that of the build without liblockdev.
* Not modelled: argument parsing, printing and tracing, the dialogue of dvmon, the
  functions that register callbacks, `drbcc_init`, `drbcc_stop` and `drbcc_term` (no state
  worth checking); a second `drbcc_start` on one handle; build and packaging files.

## Plan

Done: all models and runs; the proofs of the link, the lock, the table and allocation,
the table blocks and their refinement, the files' contents and what put and get report,
the sessions, the start and the area of a log reading, and the hand-over of lines. Next:

1. `LogComplete`: what the controller keeps of its log (an extension cell follows its
   entry, or the erased block), and what `delivered` and `logdata` hold after a chunk.
2. Given-up requests and unsolicited status in `DrbccFlash`: what remains true of a put
   or get that they end.
3. Recovery of the receive bits after a SYNC (when `skewed` may be forgotten), and a
   restart on one handle.
