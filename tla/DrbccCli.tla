------------------------------ MODULE DrbccCli ------------------------------
(***************************************************************************)
(* The command line tool (src/main.c, src/drbcc_sema.c): the main thread   *)
(* reads lines and hands each to the drbcc thread through current_line and *)
(* line_valid, then waits on a semaphore made of a pipe; the drbcc thread  *)
(* calls drbcc_trigger and, when no session is active, takes a line and    *)
(* executes it; session_cb and the handler of SIGINT and SIGTERM count     *)
(* sessions down.  Nothing is protected by a lock.                         *)
(*                                                                         *)
(* A line is a number, its text is abstracted to what process_input does   *)
(* with it.  The variables that two threads use without synchronisation    *)
(* may be stored in the other order, and a later use of one may load it    *)
(* again or use what was loaded before: both are in the model.             *)
(***************************************************************************)
EXTENDS Integers, Sequences

CONSTANTS
    MaxLines,       \* bound: lines the user enters
    MaxSignals,     \* bound: signals
    CountSize,      \* session_count is an unsigned number below CountSize
    Outcomes        \* what process_input may do with a line

OutcomeKinds == {"release", "delay", "session", "exit", "nomem"}

ASSUME CliAssumption ==
    /\ MaxLines \in Nat
    /\ MaxSignals \in Nat
    /\ CountSize \in Nat \ {0, 1}
    /\ Outcomes \subseteq OutcomeKinds

(* The pointer current_line: the empty line, NULL, or the line that the    *)
(* user entered as number n.                                               *)
EmptyLine == 0
Null == -1
Pointer == Null..MaxLines

VARIABLES
    mainPc,         \* the main thread, in run_connection
    oneShot,        \* the command comes from --cmd
    entered,        \* number of lines entered; the last is the main thread's line
    sRunning,       \* s_running
    stdinOpen,      \* stdin is open
    threadPc,       \* the drbcc thread
    running,        \* running
    count,          \* session_count
    line,           \* current_line
    lineValid,      \* line_valid
    ptr,            \* current_line as get_command loaded it last
    cmd,            \* the line that process_input executes
    delayed,        \* wait_time has not passed
    back,           \* where session_stop returns to
    sema,           \* bytes in the pipe, -1 before it is created
    libSession,     \* the library's session is open
    due,            \* what ends it is still to come
    sigPc,          \* the signal handler
    sigOn,          \* the thread it interrupts
    signals,        \* number of signals
    \* history
    freed,          \* lines whose memory has been freed
    executed,       \* lines given to process_input, in order
    early,          \* a line was taken between the two stores of put_command, or
                    \* with the pointer loaded before them
    starved,        \* process_cmd_wflash had no memory
    hung,           \* the request that was accepted last is never answered
    raced           \* session_stop ran in the handler and in the drbcc thread at once

mainVars == <<mainPc, oneShot, entered, sRunning, stdinOpen, freed>>
localVars == <<ptr, cmd, delayed, back, executed, early, starved, hung>>
threadVars == <<threadPc, localVars>>
libVars == <<libSession, due>>
sharedVars == <<running, count, line, lineValid, sema, libVars>>
sigVars == <<sigPc, sigOn, signals>>
vars == <<mainVars, threadVars, sharedVars, sigVars, raced>>

(* run_connection has started the link and installed the signal handlers.  *)
Init ==
    /\ mainPc = "create"
    /\ oneShot \in BOOLEAN
    /\ entered = 0
    /\ sRunning = FALSE
    /\ stdinOpen = TRUE
    /\ threadPc = "off"
    /\ running = FALSE
    /\ count = 0
    /\ line = EmptyLine
    /\ lineValid = FALSE
    /\ ptr = EmptyLine
    /\ cmd = EmptyLine
    /\ delayed = FALSE
    /\ back = "loop"
    /\ sema = -1
    /\ libSession = FALSE
    /\ due = FALSE
    /\ sigPc = "none"
    /\ sigOn = "main"
    /\ signals = 0
    /\ freed = {}
    /\ executed = <<>>
    /\ early = FALSE
    /\ starved = FALSE
    /\ hung = FALSE
    /\ raced = FALSE

(* A thread stands still while the handler runs on it.                     *)
Main(step) == mainPc = step /\ (sigPc = "none" \/ sigOn # "main")
Thread(step) == threadPc = step /\ (sigPc = "none" \/ sigOn # "thread")

(* drbcc_sema_release: one byte into the pipe, if it exists.               *)
Released == IF sema >= 0 THEN sema + 1 ELSE sema

-----------------------------------------------------------------------------
(* The main thread: run_connection and execute_cmd_line.                   *)

SemaCreate ==
    /\ Main("create")
    /\ sema' = 0
    /\ mainPc' = "start"
    /\ UNCHANGED <<oneShot, entered, sRunning, stdinOpen, freed, threadVars, running,
                   count, line, lineValid, libVars, sigVars, raced>>

(* The flags are set, then the drbcc thread is created.                    *)
StartThread ==
    /\ Main("start")
    /\ sRunning' = TRUE
    /\ running' = TRUE
    /\ threadPc' = "loop"
    /\ mainPc' = IF oneShot THEN "put" ELSE "test"
    /\ entered' = IF oneShot THEN 1 ELSE entered
    /\ UNCHANGED <<oneShot, stdinOpen, freed, localVars, count, line, lineValid, sema,
                   libVars, sigVars, raced>>

MainTest ==
    /\ Main("test")
    /\ mainPc' = IF sRunning THEN "readline" ELSE "stop"
    /\ UNCHANGED <<oneShot, entered, sRunning, stdinOpen, freed, threadVars, sharedVars,
                   sigVars, raced>>

ReadLine ==
    /\ Main("readline")
    /\ stdinOpen
    /\ entered < MaxLines
    /\ entered' = entered + 1
    /\ mainPc' = "put"
    /\ UNCHANGED <<oneShot, sRunning, stdinOpen, freed, threadVars, sharedVars, sigVars,
                   raced>>

(* readline returns NULL: the end of the input, or stdin was closed.       *)
EndOfInput ==
    /\ Main("readline")
    /\ sRunning' = FALSE
    /\ mainPc' = "test"
    /\ UNCHANGED <<oneShot, entered, stdinOpen, freed, threadVars, sharedVars, sigVars,
                   raced>>

(* put_command: two stores, which the drbcc thread may see in any order.   *)
PutLine ==
    /\ Main("put") \/ Main("putline")
    /\ line' = entered
    /\ mainPc' = IF mainPc = "put" THEN "putvalid" ELSE "wait"
    /\ UNCHANGED <<oneShot, entered, sRunning, stdinOpen, freed, threadVars, running,
                   count, lineValid, sema, libVars, sigVars, raced>>

PutValid ==
    /\ Main("put") \/ Main("putvalid")
    /\ lineValid' = TRUE
    /\ mainPc' = IF mainPc = "put" THEN "putline" ELSE "wait"
    /\ UNCHANGED <<oneShot, entered, sRunning, stdinOpen, freed, threadVars, running,
                   count, line, sema, libVars, sigVars, raced>>

(* drbcc_sema_wait                                                         *)
SemaWait ==
    /\ Main("wait")
    /\ sema > 0
    /\ sema' = sema - 1
    /\ mainPc' = IF oneShot THEN "stop" ELSE "free"
    /\ UNCHANGED <<oneShot, entered, sRunning, stdinOpen, freed, threadVars, running,
                   count, line, lineValid, libVars, sigVars, raced>>

FreeLine ==
    /\ Main("free")
    /\ freed' = freed \cup {entered}
    /\ mainPc' = "test"
    /\ UNCHANGED <<oneShot, entered, sRunning, stdinOpen, threadVars, sharedVars,
                   sigVars, raced>>

(* Mutant: current_line is not set to NULL.                                *)
StopThreadKeepsLine ==
    /\ Main("stop")
    /\ mainPc' = "join"
    /\ UNCHANGED <<oneShot, entered, sRunning, stdinOpen, freed, threadVars, sharedVars,
                   sigVars, raced>>

StopThread ==
    /\ Main("stop")
    /\ line' = Null
    /\ mainPc' = "join"
    /\ UNCHANGED <<oneShot, entered, sRunning, stdinOpen, freed, threadVars, running,
                   count, lineValid, sema, libVars, sigVars, raced>>

(* pthread_join, then drbcc_sema_destroy                                   *)
Join ==
    /\ Main("join")
    /\ threadPc = "ended"
    /\ sema' = -1
    /\ mainPc' = "done"
    /\ UNCHANGED <<oneShot, entered, sRunning, stdinOpen, freed, threadVars, running,
                   count, line, lineValid, libVars, sigVars, raced>>

-----------------------------------------------------------------------------
(* The drbcc thread: drbcc_thread_main.                                    *)

LoopTest ==
    /\ Thread("loop")
    /\ threadPc' = IF running \/ count # 0 THEN "trigger" ELSE "leave"
    /\ UNCHANGED <<localVars, mainVars, sharedVars, sigVars, raced>>

(* drbcc_trigger, without and with a call of session_cb.  The library also *)
(* calls it when no session is open, and once leaves the session open.     *)
TriggerQuiet ==
    /\ Thread("trigger")
    /\ threadPc' = "active"
    /\ UNCHANGED <<localVars, mainVars, sharedVars, sigVars, raced>>

SessionCb(still) ==
    /\ Thread("trigger")
    /\ still => libSession
    /\ libSession' = still
    /\ due' = (due /\ still)
    /\ hung' = (hung /\ still)
    /\ threadPc' = "stoptest"
    /\ back' = "active"
    /\ UNCHANGED <<ptr, cmd, delayed, executed, early, starved, mainVars, running,
                   count, line, lineValid, sema, sigVars, raced>>

(* session_stop: the test, the decrement and the release.                  *)
StopTest ==
    /\ Thread("stoptest")
    /\ threadPc' = IF count # 0 THEN "stopcount" ELSE back
    /\ UNCHANGED <<localVars, mainVars, sharedVars, sigVars, raced>>

(* Mutant: session_count is a signed number.                               *)
StopCountSigned ==
    /\ Thread("stopcount")
    /\ count' = count - 1
    /\ threadPc' = "stoprelease"
    /\ raced' = (raced \/ sigPc = "count")
    /\ UNCHANGED <<localVars, mainVars, running, line, lineValid, sema, libVars,
                   sigVars>>

StopCount ==
    /\ Thread("stopcount")
    /\ count' = (count - 1) % CountSize
    /\ threadPc' = "stoprelease"
    /\ raced' = (raced \/ sigPc = "count")
    /\ UNCHANGED <<localVars, mainVars, running, line, lineValid, sema, libVars,
                   sigVars>>

StopRelease ==
    /\ Thread("stoprelease")
    /\ sema' = Released
    /\ threadPc' = back
    /\ UNCHANGED <<localVars, mainVars, running, count, line, lineValid, libVars,
                   sigVars, raced>>

(* A line is taken only when no session is active, and not while the time  *)
(* of a wait command runs.                                                 *)
ActiveTest ==
    /\ Thread("active")
    /\ threadPc' = IF count = 0 /\ ~delayed THEN "null" ELSE "loop"
    /\ UNCHANGED <<localVars, mainVars, sharedVars, sigVars, raced>>

DelayOver ==
    /\ delayed
    /\ delayed' = FALSE
    /\ UNCHANGED <<threadPc, ptr, cmd, back, executed, early, starved, hung, mainVars,
                   sharedVars, sigVars, raced>>

(* get_command: NULL tells the thread to stop.                             *)
NullTest ==
    /\ Thread("null")
    /\ ptr' = line
    /\ running' = (running /\ line # Null)
    /\ threadPc' = IF line = Null THEN "loop" ELSE "text"
    /\ UNCHANGED <<cmd, delayed, back, executed, early, starved, hung, mainVars, count, line,
                   lineValid, sema, libVars, sigVars, raced>>

(* Its first character is read, also of a line that the main thread has    *)
(* freed, whose text may be anything.                                      *)
TextTest ==
    /\ Thread("text")
    /\ \E p \in {ptr, line} :
          /\ ptr' = p
          /\ threadPc' \in IF p = Null THEN {"crashed"}
                           ELSE IF p = EmptyLine THEN {"loop"}
                           ELSE IF p \in freed THEN {"loop", "valid"}
                           ELSE {"valid"}
    /\ UNCHANGED <<cmd, delayed, back, executed, early, starved, hung, mainVars, sharedVars,
                   sigVars, raced>>

(* A valid line is p, of which the name of the command is compared.        *)
Taken(p) ==
    /\ cmd' = IF lineValid THEN p ELSE cmd
    /\ executed' = IF lineValid /\ p # Null THEN Append(executed, p) ELSE executed
    /\ early' = (early \/ (lineValid /\ (mainPc = "putline" \/ p # line)))
    /\ threadPc' = IF ~lineValid THEN "loop" ELSE IF p = Null THEN "crashed" ELSE "execute"

(* Mutant: the line stays valid after it was taken.                        *)
TakeKeepsValid ==
    /\ Thread("valid")
    /\ \E p \in {ptr, line} : Taken(p)
    /\ UNCHANGED <<ptr, delayed, back, starved, hung, mainVars, sharedVars, sigVars, raced>>

(* Mutant: the prompt is released when the line is taken.                  *)
TakeReleases ==
    /\ Thread("valid")
    /\ lineValid' = FALSE
    /\ \E p \in {ptr, line} : Taken(p)
    /\ sema' = IF lineValid THEN Released ELSE sema
    /\ UNCHANGED <<ptr, delayed, back, starved, hung, mainVars, running, count, line,
                   libVars, sigVars, raced>>

(* line_valid is tested and cleared, and current_line used once more.      *)
Take ==
    /\ Thread("valid")
    /\ lineValid' = FALSE
    /\ \E p \in {ptr, line} : Taken(p)
    /\ UNCHANGED <<ptr, delayed, back, starved, hung, mainVars, running, count, line, sema,
                   libVars, sigVars, raced>>

(* process_input, by what it does with the line.  Help, an unknown command *)
(* and every line or file that cannot be read: the prompt is released.     *)
ExecuteRelease ==
    /\ Thread("execute")
    /\ "release" \in Outcomes
    /\ sema' = Released
    /\ threadPc' = "loop"
    /\ UNCHANGED <<localVars, mainVars, running, count, line, lineValid, libVars,
                   sigVars, raced>>

ExecuteDelay ==
    /\ Thread("execute")
    /\ "delay" \in Outcomes
    /\ delayed' = TRUE
    /\ sema' = Released
    /\ threadPc' = "loop"
    /\ UNCHANGED <<ptr, cmd, back, executed, early, starved, hung, mainVars, running, count,
                   line, lineValid, libVars, sigVars, raced>>

ExecuteExit ==
    /\ Thread("execute")
    /\ "exit" \in Outcomes
    /\ running' = FALSE
    /\ threadPc' = "loop"
    /\ UNCHANGED <<localVars, mainVars, count, line, lineValid, sema, libVars,
                   sigVars, raced>>

(* process_cmd_wflash without memory: nothing happens.                     *)
ExecuteNothing ==
    /\ Thread("execute")
    /\ "nomem" \in Outcomes
    /\ threadPc' = "loop"
    /\ starved' = TRUE
    /\ UNCHANGED <<ptr, cmd, delayed, back, executed, early, hung, mainVars, sharedVars,
                   sigVars, raced>>

(* Every other command: session_start, then the request.                   *)
SessionStart ==
    /\ Thread("execute")
    /\ "session" \in Outcomes
    /\ count' = (count + 1) % CountSize
    /\ threadPc' = "request"
    /\ UNCHANGED <<localVars, mainVars, running, line, lineValid, sema, libVars, sigVars,
                   raced>>

(* Mutant: a refused request leaves the session counted.                   *)
RequestRefusedKeeps ==
    /\ Thread("request")
    /\ libSession' \in {libSession, TRUE}
    /\ threadPc' = "loop"
    /\ back' = "loop"
    /\ UNCHANGED <<ptr, cmd, delayed, executed, early, starved, hung, mainVars, running, count,
                   line, lineValid, sema, due, sigVars, raced>>

(* The library refuses a request while its own session is open, and for    *)
(* bad arguments; an odd range only after it has opened the session, which *)
(* nothing is then due to end.                                             *)
RequestRefused ==
    /\ Thread("request")
    /\ libSession' \in {libSession, TRUE}
    /\ threadPc' = "stoptest"
    /\ back' = "loop"
    /\ UNCHANGED <<ptr, cmd, delayed, executed, early, starved, hung, mainVars, running, count,
                   line, lineValid, sema, due, sigVars, raced>>

(* A request may have nothing to come that ends it: one that is answered   *)
(* with DRBCC_SYNC_CMD_ERROR, a get_log of the persistent log, or of a log *)
(* that is written meanwhile.                                              *)
RequestAccepted ==
    /\ Thread("request")
    /\ ~libSession
    /\ libSession' = TRUE
    /\ due' \in BOOLEAN
    /\ hung' = ~due'
    /\ threadPc' = "loop"
    /\ UNCHANGED <<ptr, cmd, delayed, back, executed, early, starved, mainVars, running, count,
                   line, lineValid, sema, sigVars, raced>>

(* The end of the thread: s_running is cleared before the last release.    *)
Leave ==
    /\ Thread("leave")
    /\ sRunning' = FALSE
    /\ threadPc' = "release"
    /\ UNCHANGED <<localVars, mainPc, oneShot, entered, stdinOpen, freed, sharedVars,
                   sigVars, raced>>

LastRelease ==
    /\ Thread("release")
    /\ sema' = Released
    /\ threadPc' = "ended"
    /\ UNCHANGED <<localVars, mainVars, running, count, line, lineValid, libVars,
                   sigVars, raced>>

-----------------------------------------------------------------------------
(* sighandler, on the main thread or on the drbcc thread.                  *)

Signal ==
    /\ signals < MaxSignals
    /\ sigPc = "none"
    /\ mainPc # "done"
    /\ signals' = signals + 1
    /\ sigPc' = "close"
    /\ sigOn' \in IF threadPc \in {"off", "ended"} THEN {"main"} ELSE {"main", "thread"}
    /\ UNCHANGED <<mainVars, threadVars, sharedVars, raced>>

SigClose ==
    /\ sigPc = "close"
    /\ stdinOpen' = FALSE
    /\ running' = FALSE
    /\ sigPc' = "release"
    /\ UNCHANGED <<mainPc, oneShot, entered, sRunning, freed, threadVars, count, line,
                   lineValid, sema, libVars, sigOn, signals, raced>>

SigRelease ==
    /\ sigPc = "release"
    /\ sema' = Released
    /\ sigPc' = "test"
    /\ UNCHANGED <<mainVars, threadVars, running, count, line, lineValid, libVars,
                   sigOn, signals, raced>>

(* session_stop in the handler                                             *)
SigTest ==
    /\ sigPc = "test"
    /\ sigPc' = IF count # 0 THEN "count" ELSE "none"
    /\ UNCHANGED <<mainVars, threadVars, sharedVars, sigOn, signals, raced>>

SigCount ==
    /\ sigPc = "count"
    /\ count' = (count - 1) % CountSize
    /\ sigPc' = "last"
    /\ raced' = (raced \/ threadPc = "stopcount")
    /\ UNCHANGED <<mainVars, threadVars, running, line, lineValid, sema, libVars,
                   sigOn, signals>>

SigLast ==
    /\ sigPc = "last"
    /\ sema' = Released
    /\ sigPc' = "none"
    /\ UNCHANGED <<mainVars, threadVars, running, count, line, lineValid, libVars,
                   sigOn, signals, raced>>

-----------------------------------------------------------------------------
MainStep == \/ SemaCreate \/ StartThread \/ MainTest \/ PutLine \/ PutValid
            \/ SemaWait \/ FreeLine \/ StopThread \/ Join

Library == SessionCb(FALSE)

ThreadStep == \/ LoopTest \/ TriggerQuiet \/ StopTest \/ StopCount \/ StopRelease
              \/ ActiveTest \/ NullTest \/ TextTest \/ Take
              \/ ExecuteRelease \/ ExecuteDelay \/ ExecuteExit \/ ExecuteNothing
              \/ SessionStart \/ RequestRefused \/ RequestAccepted
              \/ Leave \/ LastRelease

Handler == SigClose \/ SigRelease \/ SigTest \/ SigCount \/ SigLast

Next == \/ MainStep \/ ReadLine \/ EndOfInput
        \/ ThreadStep \/ Library \/ SessionCb(TRUE) \/ DelayOver
        \/ Signal \/ Handler

Spec == Init /\ [][Next]_vars

(* The threads and the handler run; time passes; readline notices that its *)
(* input is closed; the library ends the sessions that it has an ack or an *)
(* answer to come for, which is what SessionEnds of DrbccSession and       *)
(* DrbccLog and CommandSessionEnds of DrbccLink show.                      *)
Fairness ==
    /\ WF_vars(MainStep)
    /\ WF_vars(EndOfInput /\ ~stdinOpen)
    /\ WF_vars(ThreadStep)
    /\ WF_vars(Handler)
    /\ WF_vars(DelayOver)
    /\ SF_vars(Library /\ due)

FairSpec == Spec /\ Fairness

-----------------------------------------------------------------------------
(* The type invariant.                                                     *)
TypeOK ==
    /\ mainPc \in {"create", "start", "test", "readline", "put", "putline", "putvalid",
                   "wait", "free", "stop", "join", "done"}
    /\ oneShot \in BOOLEAN
    /\ entered \in Nat
    /\ sRunning \in BOOLEAN
    /\ stdinOpen \in BOOLEAN
    /\ threadPc \in {"off", "loop", "trigger", "active", "stoptest", "stopcount",
                     "stoprelease", "null", "text", "valid", "execute", "request",
                     "leave", "release", "ended", "crashed"}
    /\ running \in BOOLEAN
    /\ count \in 0..(CountSize - 1)
    /\ line \in Int
    /\ lineValid \in BOOLEAN
    /\ ptr \in Int
    /\ cmd \in Int
    /\ delayed \in BOOLEAN
    /\ back \in {"loop", "active"}
    /\ sema \in Int
    /\ libSession \in BOOLEAN
    /\ due \in BOOLEAN
    /\ sigPc \in {"none", "close", "release", "test", "count", "last"}
    /\ sigOn \in {"main", "thread"}
    /\ signals \in 0..MaxSignals
    /\ freed \subseteq Nat
    /\ executed \in Seq(Int)
    /\ early \in BOOLEAN
    /\ starved \in BOOLEAN
    /\ hung \in BOOLEAN
    /\ raced \in BOOLEAN

(* Without a signal the two threads hand lines over correctly: every line  *)
(* is executed once and in order, and the main thread returns from         *)
(* execute_cmd_line only when its line has been executed and no byte is    *)
(* left in the pipe that would release the next wait too soon.  Excluded   *)
(* by early is that put_command's two stores reach the drbcc thread in the *)
(* other order, or that get_command returns the pointer that it loaded     *)
(* before them.  That the session behind a line is done is not said: a     *)
(* late session_cb of an earlier one releases its prompt.                  *)
HandOver ==
    (signals = 0 /\ ~early) =>
        /\ \A i \in DOMAIN executed : executed[i] = i
        /\ Len(executed) <= entered
        /\ mainPc \in {"free", "test", "readline"} => Len(executed) = entered
        /\ mainPc = "readline" /\ threadPc \notin {"leave", "release", "ended"} => sema = 0

(* process_input parses a line only while the main thread, which frees it, *)
(* still waits; the exclusions are those of HandOver.  It is not so for    *)
(* get_command, which reads the first character of the last line, freed    *)
(* or not, in every pass of the idle loop (TextTest).                      *)
LineNotFreed ==
    (signals = 0 /\ ~early /\ threadPc = "execute") => cmd \notin freed /\ mainPc = "wait"

(* The main thread's wait ends for every line, whatever session_cb calls   *)
(* come late or come for no session, and after a session of the library    *)
(* that an odd range left open.  Two things leave it waiting, and are      *)
(* excluded: process_cmd_wflash without memory (starved), and a request    *)
(* that was accepted and has nothing to come that ends it (hung).          *)
PromptReturns == (mainPc = "wait") ~> (mainPc # "wait" \/ starved \/ hung)

(* The end of the input, an exit command or a signal ends the process: no  *)
(* thread waits for the other forever.  Excluded are what PromptReturns    *)
(* excludes, session_stop in the handler and in the drbcc thread at once   *)
(* (raced), after which session_count may be large, and the end of the     *)
(* process by a NULL pointer: get_command tests current_line, the main     *)
(* thread sets it to NULL to stop the thread, and get_command, if it loads *)
(* it again, reads through it (crashed).                                   *)
Terminates ==
    (mainPc = "stop" \/ sigPc # "none")
        ~> (mainPc = "done" \/ raced \/ starved \/ hung \/ threadPc = "crashed")
=============================================================================
