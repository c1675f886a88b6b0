--------------------------- MODULE DrbccCliProofs ---------------------------
(***************************************************************************)
(* The theorems about DrbccCli: without signals, with put_command's stores *)
(* seen in program order and current_line loaded again after them, the two *)
(* threads hand lines over correctly for any number of lines and any       *)
(* outcome of each.                                                        *)
(***************************************************************************)
EXTENDS DrbccCli, TLAPS

(* What HandOver and LineNotFreed speak of.                                *)
Quiet == signals = 0 /\ ~early

-----------------------------------------------------------------------------
(* The parts of the inductive invariant.                                   *)

(* The drbcc thread owes the main thread a byte in the pipe: it executes   *)
(* a line, or a session is counted, or session_stop is about to release.   *)
Owing == threadPc \in {"execute", "request", "stopcount", "stoprelease"} \/ count # 0

(* The counted sessions, step by step.                                     *)
Counting ==
    /\ count \in {0, 1}
    /\ threadPc \in {"stopcount", "request"} => count = 1
    /\ threadPc \in {"off", "null", "text", "valid", "execute", "stoprelease", "leave", "release",
                     "ended"} => count = 0

(* The thread exists from StartThread on, and how it stops.                *)
Stopping ==
    /\ mainPc \in {"create", "start"} <=> threadPc = "off"
    /\ (~running /\ threadPc # "off") =>
          threadPc \in {"loop", "leave", "release", "ended"} /\ ~lineValid
    /\ (~running /\ threadPc # "off" /\ threadPc # "ended") =>
          count = 0 /\ sema = 0 /\ mainPc \in {"wait", "join"}
    /\ threadPc \in {"leave", "release", "ended"} => ~running
    /\ threadPc \in {"release", "ended"} => ~sRunning
    /\ threadPc = "ended" => mainPc \in {"wait", "free", "test", "stop", "join", "done"}

(* While the main thread does not wait nothing is owed to it.              *)
NothingOwed ==
    /\ mainPc \in {"start", "test", "readline", "put", "putline", "putvalid", "free", "stop"} =>
          sema = 0 /\ ~Owing
    /\ mainPc = "create" => sema = -1 /\ ~Owing
    /\ mainPc = "join" => /\ sema \in {0, 1} /\ ~Owing
                          /\ sema = 1 => threadPc = "ended"
    /\ mainPc = "done" => sema = -1 /\ threadPc = "ended"
    /\ lineValid => sema = 0 /\ ~Owing

(* While it waits, its line is still to be taken, or is owed for, or one   *)
(* byte is in the pipe.                                                    *)
OneByte ==
    mainPc = "wait" => sema \in {0, 1} /\ (sema = 1 => ~Owing)

(* The line under way.                                                     *)
LineUnderWay ==
    /\ line = Null => mainPc \in {"join", "done"}
    /\ lineValid => mainPc \in {"putline", "wait"}
    /\ mainPc = "putline" => lineValid
    /\ mainPc = "putvalid" \/ (mainPc = "wait" /\ lineValid) => line = entered
    /\ Len(executed) = IF mainPc \in {"put", "putvalid"} \/ lineValid
                         THEN entered - 1 ELSE entered
    /\ \A i \in 1..Len(executed) : executed[i] = i
    /\ threadPc = "execute" => mainPc = "wait" /\ cmd = entered

(* What has been freed was entered before.                                 *)
FreedBefore ==
    /\ \A f \in freed : f <= entered
    /\ mainPc \in {"put", "putline", "putvalid", "wait", "free"} => \A f \in freed : f < entered
    /\ mainPc \in {"create", "start"} => entered = 0 /\ freed = {}

HandingOver ==
    /\ Counting
    /\ Stopping
    /\ NothingOwed
    /\ OneByte
    /\ LineUnderWay
    /\ FreedBefore

IInv ==
    /\ TypeOK
    /\ sigPc # "none" => signals # 0
    /\ Quiet => HandingOver

-----------------------------------------------------------------------------
(* Type correctness.                                                       *)

LEMMA Modulo ==
    /\ \A a \in Int : a % CountSize \in 0..(CountSize - 1)
    /\ 0 % CountSize = 0 /\ 1 % CountSize = 1
  BY CliAssumption

LEMMA Constant == FALSE \in BOOLEAN /\ TRUE \in BOOLEAN /\ Null = -1 /\ Null \in Int
  BY DEF Null

LEMMA InitType == Init => TypeOK
  <1> SUFFICES ASSUME Init PROVE TypeOK
    OBVIOUS
  <1>1. /\ sRunning \in BOOLEAN /\ stdinOpen \in BOOLEAN /\ running \in BOOLEAN
        /\ lineValid \in BOOLEAN /\ delayed \in BOOLEAN /\ libSession \in BOOLEAN
        /\ early \in BOOLEAN /\ starved \in BOOLEAN /\ raced \in BOOLEAN
        /\ oneShot \in BOOLEAN /\ due \in BOOLEAN /\ hung \in BOOLEAN
    BY Zenon DEF Init
  <1> QED
    BY <1>1, CliAssumption DEF Init, TypeOK, EmptyLine

LEMMA ExecutedType ==
    ASSUME TypeOK
    PROVE  /\ \A p \in Int : Append(executed, p) \in Seq(Int)
           /\ Len(executed) \in Nat
           /\ Len(Append(executed, line)) = Len(executed) + 1
           /\ \A i \in 1..Len(executed) : Append(executed, line)[i] = executed[i]
           /\ Append(executed, line)[Len(executed) + 1] = line
           /\ DOMAIN executed = 1..Len(executed)
  BY DEF TypeOK

LEMMA NextType == TypeOK /\ [Next]_vars => TypeOK'
  <1> SUFFICES ASSUME TypeOK, [Next]_vars PROVE TypeOK'
    OBVIOUS
  <1> USE DEF TypeOK, Main, Thread, Released, mainVars, localVars, threadVars, sharedVars,
              libVars, sigVars
  <1>1. CASE SemaCreate
    BY <1>1 DEF SemaCreate
  <1>2. CASE StartThread
    BY <1>2 DEF StartThread
  <1>3. CASE MainTest
    BY <1>3 DEF MainTest
  <1>4. CASE PutLine
    BY <1>4 DEF PutLine
  <1>5. CASE PutValid
    BY <1>5 DEF PutValid
  <1>6. CASE SemaWait
    BY <1>6 DEF SemaWait
  <1>7. CASE FreeLine
    BY <1>7 DEF FreeLine
  <1>8. CASE StopThread
    BY Constant, <1>8 DEF StopThread
  <1>9. CASE Join
    BY <1>9 DEF Join
  <1>10. CASE ReadLine
    BY <1>10 DEF ReadLine
  <1>11. CASE EndOfInput
    <2>1. sRunning' \in BOOLEAN
      BY Zenon, <1>11 DEF EndOfInput
    <2> QED
      BY <1>11, <2>1 DEF EndOfInput
  <1>12. CASE LoopTest
    BY <1>12 DEF LoopTest
  <1>13. CASE TriggerQuiet
    BY <1>13 DEF TriggerQuiet
  <1>14. CASE StopTest
    BY <1>14 DEF StopTest
  <1>15. CASE StopCount
    BY Modulo, <1>15 DEF StopCount
  <1>16. CASE StopRelease
    BY <1>16 DEF StopRelease
  <1>17. CASE ActiveTest
    BY <1>17 DEF ActiveTest
  <1>18. CASE NullTest
    BY <1>18 DEF NullTest
  <1>19. CASE TextTest
    BY <1>19 DEF TextTest
  <1>20. CASE Take
    <2>1. PICK p \in {ptr, line} : Taken(p)
      BY <1>20 DEF Take
    <2>2. lineValid' \in BOOLEAN
      BY Zenon, <1>20 DEF Take
    <2>3. early' \in BOOLEAN
      BY Zenon, <2>1 DEF Taken
    <2>4. p \in Int /\ Append(executed, p) \in Seq(Int)
      BY ExecutedType
    <2>5. cmd' \in Int /\ executed' \in Seq(Int)
      BY <2>1, <2>4 DEF Taken
    <2>6. threadPc' \in {"loop", "crashed", "execute"}
      BY <2>1 DEF Taken
    <2> QED
      BY <1>20, <2>2, <2>3, <2>5, <2>6 DEF Take
  <1>21. CASE ExecuteRelease
    BY <1>21 DEF ExecuteRelease
  <1>22. CASE ExecuteDelay
    BY <1>22 DEF ExecuteDelay
  <1>23. CASE ExecuteExit
    <2>1. running' \in BOOLEAN
      BY Zenon, <1>23 DEF ExecuteExit
    <2> QED
      BY <1>23, <2>1 DEF ExecuteExit
  <1>24. CASE ExecuteNothing
    BY <1>24 DEF ExecuteNothing
  <1>25. CASE SessionStart
    BY Modulo, <1>25 DEF SessionStart
  <1>26. CASE RequestRefused
    <2>1. libSession' \in BOOLEAN
      BY Constant, <1>26 DEF RequestRefused
    <2> QED
      BY <1>26, <2>1 DEF RequestRefused
  <1>27. CASE RequestAccepted
    <2>1. hung' \in BOOLEAN
      BY Zenon, <1>27 DEF RequestAccepted
    <2> QED
      BY <1>27, <2>1 DEF RequestAccepted
  <1>28. CASE Leave
    <2>1. sRunning' \in BOOLEAN
      BY Zenon, <1>28 DEF Leave
    <2> QED
      BY <1>28, <2>1 DEF Leave
  <1>29. CASE LastRelease
    BY <1>29 DEF LastRelease
  <1>30. CASE DelayOver
    <2>1. delayed' \in BOOLEAN
      BY Zenon, <1>30 DEF DelayOver
    <2> QED
      BY <1>30, <2>1 DEF DelayOver
  <1>31. CASE SessionCb(FALSE)
    <2>1. libSession' \in BOOLEAN /\ due' \in BOOLEAN /\ hung' \in BOOLEAN
      BY Zenon, <1>31 DEF SessionCb
    <2> QED
      BY <1>31, <2>1 DEF SessionCb
  <1>32. CASE SessionCb(TRUE)
    <2>1. libSession' \in BOOLEAN /\ due' \in BOOLEAN /\ hung' \in BOOLEAN
      BY Zenon, <1>32 DEF SessionCb
    <2> QED
      BY <1>32, <2>1 DEF SessionCb
  <1>33. CASE Signal
    BY CliAssumption, <1>33 DEF Signal
  <1>34. CASE SigClose
    <2>1. stdinOpen' \in BOOLEAN /\ running' \in BOOLEAN
      BY Zenon, <1>34 DEF SigClose
    <2> QED
      BY <1>34, <2>1 DEF SigClose
  <1>35. CASE SigRelease
    BY <1>35 DEF SigRelease
  <1>36. CASE SigTest
    BY <1>36 DEF SigTest
  <1>37. CASE SigCount
    BY Modulo, <1>37 DEF SigCount
  <1>38. CASE SigLast
    BY <1>38 DEF SigLast
  <1>39. CASE UNCHANGED vars
    BY <1>39 DEF vars
  <1> QED
    BY <1>1, <1>2, <1>3, <1>4, <1>5, <1>6, <1>7, <1>8, <1>9, <1>10, <1>11, <1>12, <1>13, <1>14, <1>15, <1>16, <1>17, <1>18, <1>19, <1>20, <1>21, <1>22, <1>23, <1>24, <1>25, <1>26, <1>27, <1>28, <1>29, <1>30, <1>31, <1>32, <1>33, <1>34, <1>35, <1>36, <1>37, <1>38, <1>39
    DEF Next, MainStep, ThreadStep, Library, Handler

-----------------------------------------------------------------------------
(* The lines are handed over: one step per action.                         *)

LEMMA NextHandingOver ==
    ASSUME TypeOK, TypeOK', HandingOver, sigPc = "none", [Next]_vars, Quiet'
    PROVE  HandingOver'
  <1> USE DEF HandingOver, Counting, Stopping, NothingOwed, OneByte, LineUnderWay, FreedBefore,
              Owing, TypeOK, Main, Thread, Released, mainVars, localVars, threadVars,
              sharedVars, libVars, sigVars
  <1>1. CASE SemaCreate
    BY <1>1 DEF SemaCreate
  <1>2. CASE StartThread
    BY <1>2 DEF StartThread
  <1>3. CASE MainTest
    BY <1>3 DEF MainTest
  <1>4. CASE PutLine
    BY Constant, <1>4 DEF PutLine
  <1>5. CASE PutValid
    BY <1>5 DEF PutValid
  <1>6. CASE SemaWait
    BY <1>6 DEF SemaWait
  <1>7. CASE FreeLine
    BY <1>7 DEF FreeLine
  <1>8. CASE StopThread
    BY Constant, <1>8 DEF StopThread
  <1>9. CASE Join
    BY <1>9 DEF Join
  <1>10. CASE ReadLine
    BY <1>10 DEF ReadLine
  <1>11. CASE EndOfInput
    BY <1>11 DEF EndOfInput
  <1>12. CASE LoopTest
    BY <1>12 DEF LoopTest
  <1>13. CASE TriggerQuiet
    BY <1>13 DEF TriggerQuiet
  <1>14. CASE StopTest
    BY <1>14 DEF StopTest
  <1>15. CASE StopCount
    BY Modulo, <1>15 DEF StopCount
  <1>16. CASE StopRelease
    BY <1>16 DEF StopRelease
  <1>17. CASE ActiveTest
    BY <1>17 DEF ActiveTest
  <1>18. CASE NullTest
    BY <1>18 DEF NullTest
  <1>19. CASE TextTest
    BY <1>19 DEF TextTest
  <1>20. CASE Take
    <2>1. PICK p \in {ptr, line} : Taken(p)
      BY <1>20 DEF Take
    <2>2. CASE ~lineValid
      BY <1>20, <2>1, <2>2 DEF Take, Taken
    <2>3. CASE lineValid
      <3>1. mainPc = "wait" /\ p = line /\ line = entered /\ line # Null
        BY <2>1, <2>3 DEF Taken, Quiet
      <3> QED
        BY ExecutedType, <1>20, <2>1, <2>3, <3>1 DEF Take, Taken
    <2> QED
      BY <2>2, <2>3
  <1>21. CASE ExecuteRelease
    BY <1>21 DEF ExecuteRelease
  <1>22. CASE ExecuteDelay
    BY <1>22 DEF ExecuteDelay
  <1>23. CASE ExecuteExit
    BY <1>23 DEF ExecuteExit
  <1>24. CASE ExecuteNothing
    BY <1>24 DEF ExecuteNothing
  <1>25. CASE SessionStart
    BY Modulo, <1>25 DEF SessionStart
  <1>26. CASE RequestRefused
    BY <1>26 DEF RequestRefused
  <1>27. CASE RequestAccepted
    BY <1>27 DEF RequestAccepted
  <1>28. CASE Leave
    BY <1>28 DEF Leave
  <1>29. CASE LastRelease
    BY <1>29 DEF LastRelease
  <1>30. CASE DelayOver
    BY <1>30 DEF DelayOver
  <1>31. CASE SessionCb(FALSE)
    BY <1>31 DEF SessionCb
  <1>32. CASE SessionCb(TRUE)
    BY <1>32 DEF SessionCb
  <1>33. CASE Signal
    BY <1>33 DEF Signal, Quiet
  <1>34. CASE SigClose
    BY <1>34 DEF SigClose
  <1>35. CASE SigRelease
    BY <1>35 DEF SigRelease
  <1>36. CASE SigTest
    BY <1>36 DEF SigTest
  <1>37. CASE SigCount
    BY Modulo, <1>37 DEF SigCount
  <1>38. CASE SigLast
    BY <1>38 DEF SigLast
  <1>39. CASE UNCHANGED vars
    BY <1>39 DEF vars
  <1> QED
    BY <1>1, <1>2, <1>3, <1>4, <1>5, <1>6, <1>7, <1>8, <1>9, <1>10, <1>11, <1>12, <1>13, <1>14, <1>15, <1>16, <1>17, <1>18, <1>19, <1>20, <1>21, <1>22, <1>23, <1>24, <1>25, <1>26, <1>27, <1>28, <1>29, <1>30, <1>31, <1>32, <1>33, <1>34, <1>35, <1>36, <1>37, <1>38, <1>39
    DEF Next, MainStep, ThreadStep, Library, Handler

LEMMA IInvInit == Init => IInv
  <1> SUFFICES ASSUME Init PROVE IInv
    OBVIOUS
  <1>1. TypeOK
    BY InitType
  <1>2. /\ sigPc = "none" /\ Len(executed) = 0 /\ entered = 0 /\ freed = {} /\ count = 0
        /\ mainPc = "create" /\ threadPc = "off" /\ ~lineValid /\ ~running /\ sema = -1
        /\ line = 0
    BY DEF Init, EmptyLine
  <1>3. Counting /\ Stopping /\ NothingOwed /\ OneByte
    BY <1>2 DEF Counting, Stopping, NothingOwed, OneByte, Owing
  <1>4. LineUnderWay /\ FreedBefore
    BY <1>2, Constant DEF LineUnderWay, FreedBefore
  <1> QED
    BY <1>1, <1>2, <1>3, <1>4 DEF IInv, HandingOver

(* signals counts up, early stays TRUE, and a handler runs only after a    *)
(* signal.                                                                 *)
LEMMA QuietBefore ==
    ASSUME TypeOK, TypeOK', sigPc # "none" => signals # 0, [Next]_vars
    PROVE  (Quiet' => Quiet) /\ (sigPc' # "none" => signals' # 0)
  <1>1. CASE Signal
    BY <1>1 DEF Signal, TypeOK, Quiet
  <1>2. CASE Take
    BY <1>2 DEF Take, Taken, Quiet, sigVars
  <1>3. CASE Handler
    <2>1. signals' = signals /\ signals # 0
      BY <1>3 DEF Handler, SigClose, SigRelease, SigTest, SigCount, SigLast
    <2> QED
      BY <2>1 DEF Quiet
  <1>4. CASE UNCHANGED <<early, sigVars>>
    BY <1>4 DEF Quiet, sigVars
  <1>5. (MainStep \/ ReadLine \/ EndOfInput) => UNCHANGED <<early, sigVars>>
    BY DEF MainStep, SemaCreate, StartThread, MainTest, PutLine, PutValid, SemaWait, FreeLine,
       StopThread, Join, ReadLine, EndOfInput, threadVars, localVars
  <1>6. ASSUME ThreadStep, ~Take PROVE UNCHANGED <<early, sigVars>>
    BY <1>6 DEF ThreadStep, LoopTest, TriggerQuiet, StopTest, StopCount, StopRelease,
       ActiveTest, NullTest, TextTest, ExecuteRelease, ExecuteDelay, ExecuteExit,
       ExecuteNothing, SessionStart, RequestRefused, RequestAccepted, Leave, LastRelease,
       localVars
  <1>7. (Library \/ SessionCb(TRUE) \/ DelayOver) => UNCHANGED <<early, sigVars>>
    BY DEF Library, SessionCb, DelayOver
  <1>8. UNCHANGED vars => UNCHANGED <<early, sigVars>>
    BY DEF vars, threadVars, localVars
  <1> QED
    BY <1>1, <1>2, <1>3, <1>4, <1>5, <1>6, <1>7, <1>8 DEF Next

LEMMA IInvNext == IInv /\ [Next]_vars => IInv'
  <1> SUFFICES ASSUME IInv, [Next]_vars PROVE IInv'
    OBVIOUS
  <1>1. TypeOK /\ TypeOK'
    BY NextType DEF IInv
  <1>2. (Quiet' => Quiet) /\ (sigPc' # "none" => signals' # 0)
    BY <1>1, QuietBefore DEF IInv
  <1>3. ASSUME Quiet' PROVE HandingOver'
    <2>1. HandingOver /\ sigPc = "none"
      BY <1>2, <1>3 DEF IInv, Quiet
    <2> QED
      BY <1>1, <1>3, <2>1, NextHandingOver
  <1> QED
    BY <1>1, <1>2, <1>3 DEF IInv

-----------------------------------------------------------------------------
(* The types of all variables of the tool's two threads and its signal     *)
(* handler.                                                                *)
THEOREM CliTypeCorrect == Spec => []TypeOK
  BY InitType, NextType, PTL DEF Spec

(* Without a signal, with put_command's stores in program order and        *)
(* current_line loaded again after them: every line is executed once and   *)
(* in order, and execute_cmd_line returns when its line has been executed, *)
(* with the pipe empty; for any number of lines, and whatever late or      *)
(* unasked calls of session_cb come.                                       *)
THEOREM LinesHandedOver == Spec => []HandOver
  <1>1. IInv => HandOver
    <2> SUFFICES ASSUME IInv, Quiet PROVE HandOver
      BY DEF HandOver, Quiet
    <2>1. HandingOver /\ TypeOK /\ Len(executed) \in Nat /\ DOMAIN executed = 1..Len(executed)
      BY ExecutedType DEF IInv
    <2>2. entered \in Nat /\ lineValid \in BOOLEAN
      BY <2>1 DEF TypeOK
    <2>3. \A i \in DOMAIN executed : executed[i] = i
      BY <2>1 DEF HandingOver, LineUnderWay
    <2>4. Len(executed) <= entered
      BY <2>1, <2>2 DEF HandingOver, LineUnderWay
    <2>5. mainPc \in {"free", "test", "readline"} => Len(executed) = entered
      BY <2>1 DEF HandingOver, LineUnderWay
    <2>6. mainPc = "readline" => sema = 0
      BY <2>1 DEF HandingOver, NothingOwed
    <2> QED
      BY <2>3, <2>4, <2>5, <2>6 DEF HandOver
  <1> QED
    BY <1>1, IInvInit, IInvNext, PTL DEF Spec

(* process_input parses a line while the main thread, which frees it,      *)
(* waits.  get_command's look at the first character is not included.      *)
THEOREM ParsedWhileWaiting == Spec => []LineNotFreed
  <1>1. IInv => LineNotFreed
    <2> SUFFICES ASSUME IInv, Quiet, threadPc = "execute"
                 PROVE  cmd \notin freed /\ mainPc = "wait"
      BY DEF LineNotFreed, Quiet
    <2>1. mainPc = "wait" /\ cmd = entered /\ entered \in Nat /\ \A f \in freed : f < entered
      BY DEF IInv, HandingOver, LineUnderWay, FreedBefore, TypeOK
    <2> QED
      BY <2>1
  <1> QED
    BY <1>1, IInvInit, IInvNext, PTL DEF Spec
=============================================================================
