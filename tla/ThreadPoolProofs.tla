-------------------------- MODULE ThreadPoolProofs --------------------------
(***************************************************************************)
(* Proofs about ThreadPool for any set of callers and tasks and any sizes. *)
(***************************************************************************)
EXTENDS ThreadPool, FiniteSetTheorems, SequenceTheorems, TLAPS

-----------------------------------------------------------------------------
(* The inductive invariant, part by part                                   *)

Count == IF MinSize > MaxSize THEN MinSize ELSE MaxSize

\* In task_completed(), with _pool_lock; the last three test _waiter.
WaiterSteps == {"waiterTry", "waiterPost", "waiterPutBack"}
Locked == {"pauseTake", "move"} \cup WaiterSteps

\* A caller that was given a thread and has not handed its task over yet.
Handing == {"assign", "unpauseSet", "unpauseTest", "unpausePost"}

\* What the labels say of the other fields, whatever the timing.
WorkersLabelled ==
    /\ \A w \in Workers : wpc[w] = "none" <=> w > size
    /\ \A w \in Workers : wpc[w] \in {"pausing", "acquire", "release"} => wret[w] # "none"
    /\ \A w \in Workers : wpc[w] = "acquire" => state[w] = "PAUSED"
    /\ \A w \in Workers : lockOwner = w <=> wpc[w] \in Locked
    /\ \A w \in Workers : wpc[w] \in WaiterSteps => busy = {}
CallersLabelled ==
    /\ \A c \in Callers : pc[c] \in RunTaskLabels <=> arg[c] # NoTask
    /\ \A c \in Callers : pc[c] \in Handing => got[c] \in 1..size
Labelled == WorkersLabelled /\ CallersLabelled

\* The two vectors.
Vectors ==
    /\ busy \subseteq 1..size
    /\ \A i \in 1..Len(available) : available[i] \in 1..size /\ available[i] \notin busy
    /\ \A i, j \in 1..Len(available) : available[i] = available[j] => i = j
    /\ \A w \in 1..size : w \in busy \/ \E i \in 1..Len(available) : available[i] = w

\* A task before it is handed to a thread, and in one.
Untouched(t) == ran[t] = 0 /\ \A w \in Workers : runnable[w] # t
Fresh == {"getThread", "blocked", "getAgain", "assign"}
Spent == {"complete", "pauseTake", "move"}
ArgHeld ==
    /\ \A c, d \in Callers : arg[c] = arg[d] /\ arg[c] # NoTask => c = d
    /\ \A c \in Callers : arg[c] \notin submitted
    /\ \A c \in Callers : pc[c] \in Fresh => Untouched(arg[c])
TaskFree == \A t \in Tasks : t \notin submitted /\ (\A c \in Callers : arg[c] # t) => Untouched(t)
OneThread == \A v, w \in Workers : runnable[v] = runnable[w] /\ runnable[v] # NoTask => v = w
NotYetRun ==
    \A w \in Workers : runnable[w] \in Tasks /\ wpc[w] \notin Spent => ran[runnable[w]] = 0
TaskOnce == ArgHeld /\ TaskFree /\ OneThread /\ NotYetRun /\ \A t \in Tasks : ran[t] <= 1

\* The life of a thread that reaches its pause in time: it rests in a pool, or
\* with a caller that has not unpaused it; it is woken; it works.
Resting(w) ==
    /\ doPause[w] /\ pauseSem[w] = 0
    /\ wpc[w] \in {"created", "topPause", "pausing", "acquire"} \cup WaiterSteps
Woken(w) == ~doPause[w] /\ pauseSem[w] = 0 /\ wpc[w] = "acquire"
Working(w) ==
    /\ runnable[w] \in Tasks
    /\ doPause[w] <=> wpc[w] \in {"pauseTake", "move"}
    /\ pauseSem[w] = IF wpc[w] \in {"release", "move"} THEN 0 ELSE 1
    /\ wpc[w] \in {"topPause", "initial", "initialPause", "busy", "run", "runPause", "sleep",
                   "acquire", "release", "complete", "pauseTake", "move"}
    /\ wpc[w] \in {"complete", "pauseTake", "move"} => ran[runnable[w]] = 1
HeldBusy ==
    /\ \A c \in Callers : pc[c] \in Handing => got[c] \in busy
    /\ \A c, d \in Callers :
           pc[c] \in Handing /\ pc[d] \in Handing /\ got[c] = got[d] => c = d
HeldRests ==
    \A c \in Callers :
        /\ pc[c] = "assign" => Resting(got[c]) /\ runnable[got[c]] = NoTask
        /\ pc[c] = "unpauseSet" => Resting(got[c]) /\ runnable[got[c]] = arg[c]
        /\ pc[c] \in {"unpauseTest", "unpausePost"} => Woken(got[c]) /\ runnable[got[c]] = arg[c]
Unstarted == \A w \in Workers : w > size => runnable[w] = NoTask
IdleRests == \A w \in 1..size : w \notin busy => Resting(w) /\ runnable[w] = NoTask
Alone(w) == \A c \in Callers : pc[c] \in Handing => got[c] # w
BusyWorks == \A w \in busy : Alone(w) => Working(w)
Kept == \A t \in submitted : ran[t] = 0 => \E w \in busy : runnable[w] = t
InTime ==
    /\ HeldBusy /\ HeldRests /\ Unstarted /\ IdleRests /\ BusyWorks /\ Kept
    /\ crashed # "remove"

\* The blocker, with one caller.
Blocking ==
    /\ size <= MaxSize
    /\ blocker <= 1
    /\ available = <<>> /\ size = MaxSize => blocker = 0
    /\ \A c \in Callers : pc[c] = "blocked" => size = MaxSize
    /\ \A c \in Callers : pc[c] = "getAgain" => available # <<>>
    /\ crashed # "null thread"

\* The waiter, with one caller that waits once.
Awaiting ==
    /\ \A c \in Callers :
           /\ waits[c] = 0 =>
                  /\ pc[c] \notin {"waitTest", "waitAcquire", "waitPutBack", "waited"}
                  /\ waiter <= 1
                  /\ busy # {} => waiter = 0
                  /\ \A w \in Workers : wpc[w] \in {"waiterPost", "waiterPutBack"} => waiter = 0
           /\ waits[c] <= 1
           /\ pc[c] \in {"waitTest", "waitAcquire"} /\ waiter > 0 => busy = {}
           /\ pc[c] \in {"waitPutBack", "waited"} => busy = {}
           /\ owed[c] \subseteq submitted

\* The two ways to die.
Causes == crashed \in {"no", "remove", "null thread"}

IInv ==
    /\ TypeOK /\ Causes /\ Labelled /\ Vectors /\ TaskOnce
    /\ Prompt => InTime
    /\ OneCaller /\ SizesFit => Blocking
    /\ Prompt /\ OneCaller /\ MaxWaits <= 1 => Awaiting

-----------------------------------------------------------------------------
(* The constants, and what the steps of a pool are                         *)

\* There are as many workers as the larger size.
LEMMA WorkersAre ==
    ASSUME Parameters
    PROVE  Count \in Nat /\ Workers = 1..Count /\ Cardinality(Workers) = Count
           /\ NoWorker \notin Workers
<1>1. Count \in Nat /\ Workers = 1..Count
    BY DEF Parameters, Count, Workers
<1>2. Cardinality(1..Count) = Count
    BY <1>1, FS_Interval
<1> QED
    BY <1>1, <1>2 DEF NoWorker

\* A pool that is not full has a thread that was not started.
LEMMA RoomForOne ==
    ASSUME Parameters, TypeOK, size < MaxSize
    PROVE  size + 1 \in Workers /\ size + 1 \in 0..Cardinality(Workers)
<1>1. size \in Nat /\ MaxSize \in Nat /\ MaxSize <= Count
    BY WorkersAre DEF TypeOK, Parameters, Count
<1> QED
    BY <1>1, WorkersAre

LEMMA InitTypes == ASSUME Parameters, Init PROVE TypeOK
BY WorkersAre DEF Init, TypeOK, Parameters, CallerLabels, WorkerLabels, Count, NoWorker

\* Types, and the labels the types depend on.
LEMMA NextTypes == ASSUME Parameters, TypeOK, Labelled, Next PROVE TypeOK'
<1> USE WorkersAre DEF TypeOK, CallerLabels, RunTaskLabels, WorkerLabels, poolVars, threadVars,
        workerVars, callerVars, jump, go, Parameters
<1>1. ASSUME NEW c \in Callers, GetAvailable(c) PROVE TypeOK'
    BY <1>1 DEF GetAvailable, take
<1>2. ASSUME NEW c \in Callers, GetCreated(c) PROVE TypeOK'
  <2>1. size + 1 \in Workers /\ size' \in 0..Cardinality(Workers)
    BY <1>2, RoomForOne DEF GetCreated
  <2>2. /\ doPause' \in [Workers -> BOOLEAN] /\ pauseSem' \in [Workers -> Nat]
        /\ wpc' \in [Workers -> WorkerLabels]
    BY <1>2 DEF GetCreated
  <2> QED
    BY <1>2, <2>1, <2>2 DEF GetCreated, take
<1>3. ASSUME NEW c \in Callers, GetNothing(c) PROVE TypeOK'
    BY <1>3 DEF GetNothing
<1>4. ASSUME NEW c \in Callers, BlockerAcquire(c) PROVE TypeOK'
    BY <1>4 DEF BlockerAcquire
<1>5. ASSUME NEW c \in Callers, SetRunnable(c) PROVE TypeOK'
    BY <1>5 DEF SetRunnable
<1>6. ASSUME NEW c \in Callers, UnpauseSet(c) PROVE TypeOK'
  <2>1. arg[c] \in Tasks
    BY <1>6 DEF UnpauseSet, Labelled, CallersLabelled, WorkersLabelled
  <2>2. handedOver(c) => /\ submitted' \subseteq Tasks /\ pc' \in [Callers -> CallerLabels]
                         /\ arg' \in [Callers -> Tasks \cup {NoTask}]
    BY <2>1 DEF handedOver
  <2> QED
    BY <1>6, <2>2 DEF UnpauseSet, goOn
<1>7. ASSUME NEW c \in Callers, UnpauseTest(c) PROVE TypeOK'
  <2>1. arg[c] \in Tasks
    BY <1>7 DEF UnpauseTest, Labelled, CallersLabelled, WorkersLabelled
  <2>2. handedOver(c) => /\ submitted' \subseteq Tasks /\ pc' \in [Callers -> CallerLabels]
                         /\ arg' \in [Callers -> Tasks \cup {NoTask}]
    BY <2>1 DEF handedOver
  <2> QED
    BY <1>7, <2>2 DEF UnpauseTest, goOn
<1>8. ASSUME NEW c \in Callers, UnpausePost(c) PROVE TypeOK'
  <2>1. arg[c] \in Tasks
    BY <1>8 DEF UnpausePost, Labelled, CallersLabelled, WorkersLabelled
  <2>2. handedOver(c) => /\ submitted' \subseteq Tasks /\ pc' \in [Callers -> CallerLabels]
                         /\ arg' \in [Callers -> Tasks \cup {NoTask}]
    BY <2>1 DEF handedOver
  <2>3. pauseSem' \in [Workers -> Nat]
    BY <1>8 DEF UnpausePost, Labelled, CallersLabelled, Handing
  <2> QED
    BY <1>8, <2>2, <2>3 DEF UnpausePost, goOn
<1>9. ASSUME NEW c \in Callers, WaitTest(c) PROVE TypeOK'
    BY <1>9 DEF WaitTest, waitStep
<1>10. ASSUME NEW c \in Callers, WaitAcquire(c) PROVE TypeOK'
    BY <1>10 DEF WaitAcquire, waitStep
<1>11. ASSUME NEW c \in Callers, WaitPutBack(c) PROVE TypeOK'
    BY <1>11 DEF WaitPutBack, waitStep
<1>12. ASSUME NEW c \in Callers, WaitReturn(c) PROVE TypeOK'
    BY <1>12 DEF WaitReturn, waitStep
<1>13. ASSUME NEW c \in Callers, CallWaitAll(c) PROVE TypeOK'
    BY <1>13 DEF CallWaitAll, waitStep, Unfinished
<1>14. ASSUME NEW c \in Callers, NEW t \in Tasks, CallRunTask(c, t) PROVE TypeOK'
    BY <1>14 DEF CallRunTask
<1>15. ASSUME NEW w \in Workers, Starting(w) \/ Busy(w) \/ Sleeping(w) \/ DoPause(w) PROVE TypeOK'
  <2>1. ASSUME NEW from, NEW s \in {"STARTING", "BUSY", "SLEEPING", "PAUSED"}, NEW l \in WorkerLabels,
               setState(w, from, s, l)
        PROVE  TypeOK'
    BY <2>1 DEF setState
  <2> QED
    BY <1>15, <2>1 DEF Starting, Busy, Sleeping, DoPause
<1>16. ASSUME NEW w \in Workers, PauseAtTop(w) \/ PauseAfterInitial(w) \/ PauseAfterRun(w) PROVE TypeOK'
  <2>1. ASSUME NEW from, NEW l \in {"initial", "busy", "sleep"}, pauseCheck(w, from, l)
        PROVE  TypeOK'
    BY <2>1 DEF pauseCheck
  <2> QED
    BY <1>16, <2>1 DEF PauseAtTop, PauseAfterInitial, PauseAfterRun
<1>17. ASSUME NEW w \in Workers, Initial(w) \/ RunAgain(w) PROVE TypeOK'
    BY <1>17 DEF Initial, RunAgain, moveOn
<1>18. ASSUME NEW w \in Workers, RunDone(w) PROVE TypeOK'
  <2>1. ran' \in [Tasks -> Nat]
    BY <1>18 DEF RunDone
  <2> QED
    BY <1>18, <2>1 DEF RunDone
<1>19. ASSUME NEW w \in Workers, PauseAcquire(w) PROVE TypeOK'
    BY <1>19 DEF PauseAcquire
<1>20. ASSUME NEW w \in Workers, PauseRelease(w) PROVE TypeOK'
    BY <1>20 DEF PauseRelease, Labelled, CallersLabelled, WorkersLabelled
<1>21. ASSUME NEW w \in Workers, CompleteLock(w) PROVE TypeOK'
    BY <1>21 DEF CompleteLock
<1>22. ASSUME NEW w \in Workers, CompletePauseTake(w) PROVE TypeOK'
    BY <1>22 DEF CompletePauseTake
<1>23. ASSUME NEW w \in Workers, CompleteMove(w) PROVE TypeOK'
  <2>1. CASE w \notin busy
    BY <1>23, <2>1 DEF CompleteMove
  <2>2. CASE w \in busy
    <3>1. available' = Append(available, w) /\ busy' = busy \ {w} /\ size' = size /\ waiter' = waiter
        BY <1>23, <2>2 DEF CompleteMove
    <3>2. available' \in Seq(Workers)
        BY <3>1
    <3>3. wpc' \in [Workers -> WorkerLabels] /\ lockOwner' \in Workers \cup {NoWorker}
        BY <1>23, <2>2 DEF CompleteMove
    <3>4. blocker' \in Nat
        BY <1>23, <2>2 DEF CompleteMove
    <3>5. runnable' \in [Workers -> Tasks \cup {NoTask}]
        BY <1>23 DEF CompleteMove
    <3> QED
        BY <1>23, <3>1, <3>2, <3>3, <3>4, <3>5 DEF CompleteMove
  <2> QED
    BY <2>1, <2>2
<1>24. ASSUME NEW w \in Workers, WaiterTry(w) PROVE TypeOK'
    BY <1>24 DEF WaiterTry
<1>25. ASSUME NEW w \in Workers, WaiterPost(w) PROVE TypeOK'
    BY <1>25 DEF WaiterPost
<1>26. ASSUME NEW w \in Workers, WaiterPutBack(w) PROVE TypeOK'
    BY <1>26 DEF WaiterPutBack
<1> QED
    BY <1>1, <1>2, <1>3, <1>4, <1>5, <1>6, <1>7, <1>8, <1>9, <1>10, <1>11, <1>12, <1>13, <1>14,
       <1>15, <1>16, <1>17, <1>18, <1>19, <1>20, <1>21, <1>22, <1>23, <1>24, <1>25, <1>26
    DEF Next, CallerStep, WorkerStep

LEMMA InitLabelled == ASSUME Parameters, Init PROVE Labelled
BY WorkersAre DEF Init, Labelled, WorkersLabelled, CallersLabelled, Parameters, WaiterSteps, Locked, Handing, RunTaskLabels, NoWorker

\* A caller on its way through runTask(), and one that leaves it.
LEMMA StaysLabelled ==
    ASSUME TypeOK, CallersLabelled, UNCHANGED <<got, size>>, NEW c \in Callers, pc[c] \in Handing,
           handedOver(c) \/ \E l \in Handing : goOn(c, l)
    PROVE  CallersLabelled'
<1>1. CASE handedOver(c)
    BY <1>1 DEF TypeOK, CallersLabelled, handedOver, go, Handing, RunTaskLabels
<1>2. ASSUME NEW l \in Handing, goOn(c, l) PROVE CallersLabelled'
    BY <1>2 DEF TypeOK, CallersLabelled, goOn, go, Handing, RunTaskLabels
<1> QED
    BY <1>1, <1>2

\* The lock is held by the worker whose label says so, and by no other.
LEMMA NextLabelled ==
    ASSUME Parameters, TypeOK, Labelled, Vectors, Next
    PROVE  Labelled'
<1> USE WorkersAre DEF TypeOK, Labelled, WorkersLabelled, CallersLabelled, WaiterSteps, Locked, Handing, RunTaskLabels,
        NoWorker, poolVars, threadVars, workerVars, callerVars, jump, go, Parameters
<1>1. ASSUME NEW c \in Callers, GetAvailable(c) PROVE Labelled'
  <2>1. WorkersLabelled'
    BY <1>1 DEF GetAvailable, take, Vectors
  <2>2. CallersLabelled'
    BY <1>1 DEF GetAvailable, take, Vectors
  <2> QED
    BY <2>1, <2>2
<1>2. ASSUME NEW c \in Callers, GetCreated(c) PROVE Labelled'
    BY <1>2 DEF GetCreated, take
<1>3. ASSUME NEW c \in Callers, GetNothing(c) PROVE Labelled'
  <2>1. WorkersLabelled'
    BY <1>3 DEF GetNothing
  <2>2. CallersLabelled'
    BY <1>3 DEF GetNothing
  <2> QED
    BY <2>1, <2>2
<1>4. ASSUME NEW c \in Callers, BlockerAcquire(c) PROVE Labelled'
    BY <1>4 DEF BlockerAcquire
<1>5. ASSUME NEW c \in Callers, SetRunnable(c) PROVE Labelled'
    BY <1>5 DEF SetRunnable
<1>6. ASSUME NEW c \in Callers, UnpauseSet(c) PROVE Labelled'
  <2>1. WorkersLabelled'
    BY <1>6 DEF UnpauseSet, handedOver, goOn
  <2>2. CallersLabelled'
    BY <1>6, StaysLabelled DEF UnpauseSet
  <2> QED
    BY <2>1, <2>2
<1>7. ASSUME NEW c \in Callers, UnpauseTest(c) PROVE Labelled'
  <2>1. WorkersLabelled'
    BY <1>7 DEF UnpauseTest, handedOver, goOn
  <2>2. CallersLabelled'
    BY <1>7, StaysLabelled DEF UnpauseTest
  <2> QED
    BY <2>1, <2>2
<1>8. ASSUME NEW c \in Callers, UnpausePost(c) PROVE Labelled'
    BY <1>8 DEF UnpausePost, handedOver
<1>9. ASSUME NEW c \in Callers, WaitTest(c) PROVE Labelled'
    BY <1>9 DEF WaitTest, waitStep
<1>10. ASSUME NEW c \in Callers, WaitAcquire(c) PROVE Labelled'
    BY <1>10 DEF WaitAcquire, waitStep
<1>11. ASSUME NEW c \in Callers, WaitPutBack(c) PROVE Labelled'
    BY <1>11 DEF WaitPutBack, waitStep
<1>12. ASSUME NEW c \in Callers, WaitReturn(c) PROVE Labelled'
    BY <1>12 DEF WaitReturn, waitStep
<1>13. ASSUME NEW c \in Callers, CallWaitAll(c) PROVE Labelled'
    BY <1>13 DEF CallWaitAll, waitStep
<1>14. ASSUME NEW c \in Callers, NEW t \in Tasks, CallRunTask(c, t) PROVE Labelled'
    BY <1>14 DEF CallRunTask
<1>15. ASSUME NEW w \in Workers, Starting(w) PROVE Labelled'
    BY <1>15 DEF Starting, setState
<1>16. ASSUME NEW w \in Workers, PauseAtTop(w) PROVE Labelled'
    BY <1>16 DEF PauseAtTop, pauseCheck
<1>17. ASSUME NEW w \in Workers, Initial(w) PROVE Labelled'
  <2>1. WorkersLabelled'
    BY <1>17 DEF Initial, moveOn
  <2>2. CallersLabelled'
    BY <1>17 DEF Initial, moveOn
  <2> QED
    BY <2>1, <2>2
<1>18. ASSUME NEW w \in Workers, PauseAfterInitial(w) PROVE Labelled'
    BY <1>18 DEF PauseAfterInitial, pauseCheck
<1>19. ASSUME NEW w \in Workers, Busy(w) PROVE Labelled'
    BY <1>19 DEF Busy, setState
<1>20. ASSUME NEW w \in Workers, RunAgain(w) PROVE Labelled'
  <2>1. WorkersLabelled'
    BY <1>20 DEF RunAgain, moveOn
  <2>2. CallersLabelled'
    BY <1>20 DEF RunAgain, moveOn
  <2> QED
    BY <2>1, <2>2
<1>21. ASSUME NEW w \in Workers, PauseAfterRun(w) PROVE Labelled'
    BY <1>21 DEF PauseAfterRun, pauseCheck
<1>22. ASSUME NEW w \in Workers, Sleeping(w) PROVE Labelled'
    BY <1>22 DEF Sleeping, setState
<1>23. ASSUME NEW w \in Workers, RunDone(w) PROVE Labelled'
    BY <1>23 DEF RunDone
<1>24. ASSUME NEW w \in Workers, DoPause(w) PROVE Labelled'
    BY <1>24 DEF DoPause, setState
<1>25. ASSUME NEW w \in Workers, PauseAcquire(w) PROVE Labelled'
    BY <1>25 DEF PauseAcquire
<1>26. ASSUME NEW w \in Workers, PauseRelease(w) PROVE Labelled'
  <2>1. WorkersLabelled'
    BY <1>26 DEF PauseRelease
  <2>2. CallersLabelled'
    BY <1>26 DEF PauseRelease
  <2> QED
    BY <2>1, <2>2
<1>27. ASSUME NEW w \in Workers, CompleteLock(w) PROVE Labelled'
  <2>1. WorkersLabelled'
    BY <1>27 DEF CompleteLock
  <2>2. CallersLabelled'
    BY <1>27 DEF CompleteLock
  <2> QED
    BY <2>1, <2>2
<1>28. ASSUME NEW w \in Workers, CompletePauseTake(w) PROVE Labelled'
    BY <1>28 DEF CompletePauseTake
<1>29. ASSUME NEW w \in Workers, CompleteMove(w) PROVE Labelled'
  <2>1. WorkersLabelled'
    <3>1. CASE w \notin busy
        BY <1>29, <3>1 DEF CompleteMove
    <3>2. CASE w \in busy /\ busy = {w}
        BY <1>29, <3>2 DEF CompleteMove
    <3>3. CASE w \in busy /\ busy # {w}
        <4>1. /\ lockOwner' = NoWorker /\ wpc' = [wpc EXCEPT ![w] = "topPause"] /\ busy' = busy \ {w}
              /\ wpc[w] = "move" /\ UNCHANGED <<size, wret, state>>
            BY <1>29, <3>3 DEF CompleteMove
        <4>2. lockOwner = w /\ \A v \in Workers : v # w => wpc[v] \notin Locked
            BY <4>1
        <4> QED
            BY <4>1, <4>2
    <3> QED
        BY <3>1, <3>2, <3>3
  <2>2. CallersLabelled'
    BY <1>29 DEF CompleteMove
  <2> QED
    BY <2>1, <2>2
<1>30. ASSUME NEW w \in Workers, WaiterTry(w) PROVE Labelled'
    BY <1>30 DEF WaiterTry
<1>31. ASSUME NEW w \in Workers, WaiterPost(w) PROVE Labelled'
    BY <1>31 DEF WaiterPost
<1>32. ASSUME NEW w \in Workers, WaiterPutBack(w) PROVE Labelled'
    BY <1>32 DEF WaiterPutBack
<1> QED
    BY <1>1, <1>2, <1>3, <1>4, <1>5, <1>6, <1>7, <1>8, <1>9, <1>10, <1>11, <1>12, <1>13,
       <1>14, <1>15, <1>16, <1>17, <1>18, <1>19, <1>20, <1>21, <1>22, <1>23, <1>24, <1>25,
       <1>26, <1>27, <1>28, <1>29, <1>30, <1>31, <1>32
    DEF Next, CallerStep, WorkerStep

LEMMA InitVectors == ASSUME Parameters, Init PROVE Vectors
BY DEF Init, Vectors, Parameters

\* The three places that change the size or a vector.
LEMMA VectorSteps ==
    ASSUME Next
    PROVE  \/ UNCHANGED <<size, available, busy>>
           \/ \E c \in Callers : GetAvailable(c) \/ GetCreated(c)
           \/ \E w \in Workers : CompleteMove(w) /\ w \in busy
<1> USE DEF poolVars, moveOn, setState, pauseCheck, waitStep
<1>1. ASSUME NEW c \in Callers, CallerStep(c) \/ CallWaitAll(c)
      PROVE  UNCHANGED <<size, available, busy>> \/ GetAvailable(c) \/ GetCreated(c)
    BY <1>1 DEF CallerStep, GetNothing, BlockerAcquire, SetRunnable, UnpauseSet, UnpauseTest,
                UnpausePost, WaitTest, WaitAcquire, WaitPutBack, WaitReturn, CallWaitAll
<1>2. ASSUME NEW c \in Callers, NEW t \in Tasks, CallRunTask(c, t)
      PROVE  UNCHANGED <<size, available, busy>>
    BY <1>2 DEF CallRunTask
<1>3. ASSUME NEW w \in Workers, CompleteMove(w), w \notin busy
      PROVE  UNCHANGED <<size, available, busy>>
    BY <1>3 DEF CompleteMove
<1>4. ASSUME NEW w \in Workers, WorkerStep(w), ~CompleteMove(w)
      PROVE  UNCHANGED <<size, available, busy>>
    BY <1>4 DEF WorkerStep, Starting, PauseAtTop, Initial, PauseAfterInitial, Busy, RunAgain,
                PauseAfterRun, Sleeping, RunDone, DoPause, PauseAcquire, PauseRelease,
                CompleteLock, CompletePauseTake, WaiterTry, WaiterPost, WaiterPutBack
<1> QED
    BY <1>1, <1>2, <1>3, <1>4 DEF Next

\* Taking the last thread of a vector.
LEMMA AllButLast ==
    ASSUME NEW S, NEW s \in Seq(S), s # <<>>
    PROVE  /\ Len(SubSeq(s, 1, Len(s) - 1)) = Len(s) - 1
           /\ \A i \in 1..(Len(s) - 1) : SubSeq(s, 1, Len(s) - 1)[i] = s[i]
<1> DEFINE n == Len(s) - 1
<1>1. n \in Nat /\ \A i \in 1..n : s[i] \in S
    OBVIOUS
<1> HIDE DEF n
<1>2. Len(SubSeq(s, 1, n)) = n /\ \A i \in 1..n : SubSeq(s, 1, n)[i] = s[i]
    BY <1>1
<1> QED
    BY <1>2 DEF n

LEMMA NextVectors == ASSUME Parameters, TypeOK, Vectors, Next PROVE Vectors'
<1>1. CASE UNCHANGED <<size, available, busy>>
    BY <1>1 DEF Vectors
<1>2. ASSUME NEW c \in Callers, GetAvailable(c) PROVE Vectors'
  <2>1. /\ available' = SubSeq(available, 1, Len(available) - 1) /\ available # <<>>
        /\ size' = size /\ busy' = busy \cup {available[Len(available)]}
    BY <1>2 DEF GetAvailable, take
  <2>2. Len(available) \in Nat \ {0} /\ available \in Seq(Workers)
    BY <2>1 DEF TypeOK
  <2>3. /\ Len(available') = Len(available) - 1
        /\ \A i \in 1..Len(available') : available'[i] = available[i]
    BY <2>1, <2>2, AllButLast
  <2>4. available[Len(available)] \in 1..size
    BY <2>2 DEF Vectors
  <2>5. \A v \in 1..size : v \in busy' \/ \E i \in 1..Len(available') : available'[i] = v
    BY <2>1, <2>2, <2>3 DEF Vectors
  <2>6. \A i \in 1..Len(available') : available'[i] \in 1..size /\ available'[i] \notin busy'
    BY <2>1, <2>2, <2>3 DEF Vectors
  <2>7. \A i, j \in 1..Len(available') : available'[i] = available'[j] => i = j
    BY <2>2, <2>3 DEF Vectors
  <2> QED
    BY <2>1, <2>4, <2>5, <2>6, <2>7 DEF Vectors
<1>3. ASSUME NEW c \in Callers, GetCreated(c) PROVE Vectors'
    BY <1>3 DEF GetCreated, take, Vectors, TypeOK
<1>4. ASSUME NEW w \in Workers, CompleteMove(w), w \in busy PROVE Vectors'
  <2>1. available' = Append(available, w) /\ busy' = busy \ {w} /\ size' = size
    BY <1>4 DEF CompleteMove
  <2>2. /\ Len(available) \in Nat /\ Len(available') = Len(available) + 1
        /\ \A i \in 1..Len(available) : available'[i] = available[i]
        /\ available'[Len(available) + 1] = w
    BY <2>1 DEF TypeOK
  <2> QED
    BY <1>4, <2>1, <2>2 DEF Vectors
<1> QED
    BY <1>1, <1>2, <1>3, <1>4, VectorSteps

\* The last conjunct of PoolPartition: as many threads as places.
LEMMA PartitionHolds == ASSUME TypeOK, Vectors PROVE PoolPartition
<1> DEFINE free == {available[i] : i \in DOMAIN available}
<1>1. DOMAIN available = 1..Len(available) /\ Len(available) \in Nat
    BY DEF TypeOK
<1>2. free \cap busy = {} /\ free \cup busy = 1..size
  <2>1. free \subseteq 1..size /\ free \cap busy = {}
    BY <1>1 DEF Vectors
  <2>2. \A w \in 1..size : w \in busy \/ w \in free
    BY <1>1 DEF Vectors
  <2> QED
    BY <2>1, <2>2 DEF Vectors
<1>3. available \in Bijection(1..Len(available), free)
    BY <1>1 DEF Vectors, TypeOK, Bijection, Injection, Surjection, IsInjective
<1>4. Cardinality(free) = Len(available)
    BY <1>1, <1>3, FS_CountingElements DEF ExistsBijection
<1> QED
    BY <1>2, <1>4 DEF PoolPartition

LEMMA InitTaskOnce == ASSUME Parameters, Init PROVE TaskOnce
BY DEF Init, TaskOnce, ArgHeld, TaskFree, OneThread, NotYetRun, Untouched, Fresh, Parameters

\* A step that neither hands a task on nor runs one.
LEMMA QuietTaskOnce ==
    ASSUME TaskOnce, UNCHANGED <<arg, submitted, ran, runnable>>,
           \A c \in Callers : pc'[c] \in Fresh => pc[c] \in Fresh,
           \A w \in Workers : wpc[w] \in Spent => wpc'[w] \in Spent
    PROVE  TaskOnce'
BY DEF TaskOnce, ArgHeld, TaskFree, OneThread, NotYetRun, Untouched

LEMMA NextTaskOnce ==
    ASSUME Parameters, TypeOK, Labelled, TaskOnce, Next
    PROVE  TaskOnce'
<1> USE DEF poolVars, threadVars, workerVars, callerVars, jump, go
<1>0. \A c \in Callers : pc[c] \in Fresh => arg[c] \in Tasks
    BY DEF Fresh, Labelled, CallersLabelled, RunTaskLabels, TypeOK
<1>1. ASSUME NEW c \in Callers, GetAvailable(c) \/ GetNothing(c) \/ BlockerAcquire(c) PROVE TaskOnce'
    BY <1>1, QuietTaskOnce DEF GetAvailable, take, GetNothing, BlockerAcquire, TypeOK, Fresh
<1>2. ASSUME NEW c \in Callers, GetCreated(c) PROVE TaskOnce'
  <2>1. size + 1 \in Workers
    BY <1>2, RoomForOne DEF GetCreated
  <2>2. wpc[size + 1] = "none"
    BY <2>1, WorkersAre DEF Labelled, WorkersLabelled, TypeOK
  <2> QED
    BY <1>2, <2>2, QuietTaskOnce DEF GetCreated, take, TypeOK, Fresh, Spent
<1>3. ASSUME NEW c \in Callers, WaitTest(c) \/ WaitAcquire(c) \/ WaitPutBack(c) \/ WaitReturn(c)
                                \/ CallWaitAll(c)
      PROVE  TaskOnce'
    BY <1>3, QuietTaskOnce DEF WaitTest, WaitAcquire, WaitPutBack, WaitReturn, CallWaitAll, waitStep,
        TypeOK, Fresh
<1>4. ASSUME NEW c \in Callers, SetRunnable(c) PROVE TaskOnce'
    BY <1>4 DEF SetRunnable, TaskOnce, ArgHeld, TaskFree, OneThread, NotYetRun, Untouched, Fresh, Spent, Labelled, CallersLabelled,
        RunTaskLabels, TypeOK
<1>5. ASSUME NEW c \in Callers, pc[c] \in Handing \ {"assign"}, UNCHANGED <<ran, runnable, wpc>>,
             handedOver(c) \/ \E l \in Handing \ {"assign"} : goOn(c, l)
      PROVE  TaskOnce'
  <2>1. CASE handedOver(c)
    <3>1. arg[c] \in Tasks
        BY <1>5 DEF Handing, Labelled, CallersLabelled, RunTaskLabels, TypeOK
    <3>2. ArgHeld'
        BY <1>5, <2>1, <3>1 DEF handedOver, TaskOnce, ArgHeld, Untouched, Fresh, Parameters, TypeOK
    <3>3. TaskFree'
        BY <1>5, <2>1, <3>1 DEF handedOver, TaskOnce, TaskFree, Untouched, Parameters, TypeOK
    <3> QED
        BY <1>5, <3>2, <3>3 DEF TaskOnce, OneThread, NotYetRun
  <2>2. ASSUME NEW l \in Handing \ {"assign"}, goOn(c, l) PROVE TaskOnce'
    BY <1>5, <2>2, QuietTaskOnce DEF goOn, TypeOK, Handing, Fresh
  <2> QED
    BY <1>5, <2>1, <2>2
<1>6. ASSUME NEW c \in Callers, UnpauseSet(c) \/ UnpauseTest(c) \/ UnpausePost(c) PROVE TaskOnce'
  <2>1. pc[c] \in Handing \ {"assign"} /\ UNCHANGED <<ran, runnable, wpc>>
    BY <1>6 DEF UnpauseSet, UnpauseTest, UnpausePost, Handing
  <2>2. handedOver(c) \/ \E l \in Handing \ {"assign"} : goOn(c, l)
    BY <1>6 DEF UnpauseSet, UnpauseTest, UnpausePost, Handing
  <2> QED
    BY <1>5, <2>1, <2>2
<1>7. ASSUME NEW c \in Callers, NEW t \in Tasks, CallRunTask(c, t) PROVE TaskOnce'
  <2>1. /\ pc' = [pc EXCEPT ![c] = "getThread"] /\ arg' = [arg EXCEPT ![c] = t]
        /\ UNCHANGED <<ran, runnable, wpc, submitted>>
        /\ t \notin submitted /\ \A d \in Callers : arg[d] # t
    BY <1>7 DEF CallRunTask
  <2>2. Untouched(t)
    BY <2>1 DEF TaskOnce, TaskFree
  <2>3. ArgHeld'
    BY <2>1, <2>2 DEF TaskOnce, ArgHeld, Untouched, Fresh, TypeOK
  <2>4. TaskFree'
    <3> SUFFICES ASSUME NEW u \in Tasks, u \notin submitted', \A d \in Callers : arg'[d] # u
                 PROVE  Untouched(u)'
        BY DEF TaskFree
    <3>1. u # t
        BY <2>1 DEF TypeOK
    <3>2. arg[c] = NoTask
        BY <1>7 DEF CallRunTask, Labelled, CallersLabelled, RunTaskLabels
    <3>3. \A d \in Callers : arg[d] # u
        BY <2>1, <3>1, <3>2 DEF Parameters, TypeOK
    <3> QED
        BY <2>1, <3>3 DEF TaskOnce, TaskFree, Untouched
  <2> QED
    BY <2>1, <2>3, <2>4 DEF TaskOnce, OneThread, NotYetRun
<1>8. ASSUME NEW w \in Workers, RunDone(w) PROVE TaskOnce'
  <2>1. /\ ran' = [t \in Tasks |-> IF t = runnable[w] THEN ran[t] + 1 ELSE ran[t]]
        /\ wpc[w] = "run" /\ wpc' = [wpc EXCEPT ![w] = "complete"]
        /\ UNCHANGED <<arg, pc, runnable, submitted>>
    BY <1>8 DEF RunDone
  <2>2. \A t \in Tasks : Untouched(t) => Untouched(t)'
    BY <2>1 DEF Untouched
  <2>3. runnable[w] \in Tasks => ran[runnable[w]] = 0
    BY <2>1 DEF TaskOnce, NotYetRun, Spent
  <2>4. NotYetRun'
    BY <2>1 DEF TaskOnce, NotYetRun, OneThread, Spent, TypeOK, Parameters
  <2>5. \A t \in Tasks : ran'[t] <= 1
    BY <2>1, <2>3 DEF TaskOnce, TypeOK
  <2> QED
    BY <1>0, <2>1, <2>2, <2>4, <2>5 DEF TaskOnce, ArgHeld, TaskFree, OneThread
<1>9. ASSUME NEW w \in Workers, CompleteMove(w) PROVE TaskOnce'
  <2>1. UNCHANGED <<arg, submitted, ran, pc>> /\ runnable' = [runnable EXCEPT ![w] = NoTask]
    BY <1>9 DEF CompleteMove
  <2>2. \A v \in Workers : v # w => wpc'[v] = wpc[v]
    BY <1>9 DEF CompleteMove, TypeOK
  <2> QED
    <3>1. \A t \in Tasks : Untouched(t) => Untouched(t)'
        BY <2>1 DEF Untouched, TypeOK, Parameters
    <3>2. ArgHeld' /\ TaskFree'
        BY <1>0, <2>1, <3>1 DEF TaskOnce, ArgHeld, TaskFree
    <3>3. OneThread' /\ NotYetRun'
        BY <2>1, <2>2 DEF TaskOnce, OneThread, NotYetRun, TypeOK, Parameters
    <3> QED
        BY <2>1, <3>2, <3>3 DEF TaskOnce
<1>10. ASSUME NEW w \in Workers, WorkerStep(w), ~RunDone(w), ~CompleteMove(w) PROVE TaskOnce'
  <2>1. UNCHANGED <<arg, submitted, ran, runnable, pc>>
    BY <1>10 DEF WorkerStep, Starting, PauseAtTop, Initial, PauseAfterInitial, Busy, RunAgain,
        PauseAfterRun, Sleeping, DoPause, PauseAcquire, PauseRelease, CompleteLock,
        CompletePauseTake, WaiterTry, WaiterPost, WaiterPutBack, moveOn, setState, pauseCheck
  <2>2. \A v \in Workers : wpc[v] \in Spent => wpc'[v] \in Spent
    BY <1>10 DEF WorkerStep, Starting, PauseAtTop, Initial, PauseAfterInitial, Busy, RunAgain,
        PauseAfterRun, Sleeping, DoPause, PauseAcquire, PauseRelease, CompleteLock,
        CompletePauseTake, WaiterTry, WaiterPost, WaiterPutBack, moveOn, setState, pauseCheck,
        TypeOK, Spent
  <2> QED
    BY <2>1, <2>2, QuietTaskOnce
<1> QED
    BY <1>1, <1>2, <1>3, <1>4, <1>6, <1>7, <1>8, <1>9, <1>10 DEF Next, CallerStep, WorkerStep

-----------------------------------------------------------------------------
(* Threads that reach their pause in time                                  *)

LEMMA InitInTime == ASSUME Parameters, Init PROVE InTime
<1>1. 1..size \subseteq Workers
    BY WorkersAre DEF Init, Parameters, Count
<1>2. IdleRests
  <2> SUFFICES ASSUME NEW w \in 1..size PROVE Resting(w) /\ runnable[w] = NoTask
    BY DEF IdleRests
  <2>1. w \in Workers /\ w <= MinSize
    BY <1>1 DEF Init, Parameters
  <2>2. doPause[w] /\ pauseSem[w] = 0 /\ wpc[w] = "created" /\ runnable[w] = NoTask
    BY <2>1 DEF Init
  <2> QED
    BY <2>2 DEF Resting
<1> QED
    BY <1>2, WorkersAre DEF Init, InTime, HeldBusy, HeldRests, Unstarted, BusyWorks, Kept, Handing

\* A step of a caller outside the hand-over.
LEMMA QuietInTime ==
    ASSUME InTime, crashed' # "remove",
           UNCHANGED <<size, busy, doPause, pauseSem, wpc, runnable, ran, submitted, got>>,
           \A c \in Callers : \/ pc'[c] = pc[c] /\ arg'[c] = arg[c]
                              \/ pc[c] \notin Handing /\ pc'[c] \notin Handing
    PROVE  InTime'
<1>1. HeldBusy' /\ BusyWorks'
    BY DEF InTime, HeldBusy, BusyWorks, Alone, Working
<1>2. HeldRests'
    BY DEF InTime, HeldRests, Handing, Resting, Woken
<1> QED
    BY <1>1, <1>2 DEF InTime, Unstarted, IdleRests, Resting, Kept

\* A step of thread w that leaves it where it is: resting, woken or working.
LEMMA WorkerInTime ==
    ASSUME Parameters, TypeOK, InTime, OneThread, NEW w \in Workers,
           UNCHANGED <<size, busy, pc, got, arg, submitted, crashed, runnable>>,
           \A v \in Workers : v # w => /\ wpc'[v] = wpc[v] /\ doPause'[v] = doPause[v]
                                       /\ pauseSem'[v] = pauseSem[v],
           \A t \in Tasks : ran'[t] = ran[t] \/ (t = runnable[w] /\ ran'[t] = ran[t] + 1),
           Resting(w) => Resting(w)', Woken(w) => Woken(w)', Working(w) => Working(w)'
    PROVE  InTime'
<1>1. 1..size \subseteq Workers
    BY WorkersAre DEF TypeOK
<1>2. \A v \in Workers : (Resting(v) => Resting(v)') /\ (Woken(v) => Woken(v)')
    BY DEF Resting, Woken
<1>3. \A v \in Workers : Working(v) => Working(v)'
  <2> SUFFICES ASSUME NEW v \in Workers, v # w, Working(v) PROVE Working(v)'
    OBVIOUS
  <2>1. runnable[v] \in Tasks /\ runnable[v] # runnable[w]
    BY DEF Working, OneThread, Parameters
  <2>2. ran'[runnable[v]] = ran[runnable[v]]
    BY <2>1
  <2>3. /\ wpc'[v] = wpc[v] /\ doPause'[v] = doPause[v] /\ pauseSem'[v] = pauseSem[v]
        /\ runnable'[v] = runnable[v] /\ ran'[runnable'[v]] = ran[runnable[v]]
    BY <2>2
  <2>4. Working(v)' = Working(v)
    BY ONLY <2>3 DEF Working
  <2> QED
    BY <2>4
<1>4. HeldBusy' /\ Unstarted' /\ IdleRests'
    BY <1>1, <1>2 DEF InTime, HeldBusy, Unstarted, IdleRests
<1>5. HeldRests'
    BY <1>2 DEF InTime, HeldBusy, HeldRests, Handing, TypeOK
<1>6. BusyWorks'
    BY <1>3 DEF InTime, BusyWorks, Alone, TypeOK
<1>7. Kept'
  <2>1. \A t \in submitted : ran'[t] = 0 => ran[t] = 0
    BY DEF TypeOK
  <2> QED
    BY <2>1 DEF InTime, Kept
<1> QED
    BY <1>4, <1>5, <1>6, <1>7 DEF InTime

\* The label of a thread says which step it takes.
LEMMA StepAt ==
    ASSUME NEW w \in Workers, WorkerStep(w)
    PROVE  \/ wpc[w] = "created" /\ Starting(w)
           \/ wpc[w] = "topPause" /\ PauseAtTop(w)
           \/ wpc[w] = "initial" /\ Initial(w)
           \/ wpc[w] = "initialPause" /\ PauseAfterInitial(w)
           \/ wpc[w] = "busy" /\ Busy(w)
           \/ wpc[w] = "run" /\ (RunAgain(w) \/ RunDone(w))
           \/ wpc[w] = "runPause" /\ PauseAfterRun(w)
           \/ wpc[w] = "sleep" /\ Sleeping(w)
           \/ wpc[w] = "pausing" /\ DoPause(w)
           \/ wpc[w] = "acquire" /\ PauseAcquire(w)
           \/ wpc[w] = "release" /\ PauseRelease(w)
           \/ wpc[w] = "complete" /\ CompleteLock(w)
           \/ wpc[w] = "pauseTake" /\ CompletePauseTake(w)
           \/ wpc[w] = "move" /\ CompleteMove(w)
           \/ wpc[w] \in WaiterSteps /\ (WaiterTry(w) \/ WaiterPost(w) \/ WaiterPutBack(w))
BY DEF WorkerStep, Starting, PauseAtTop, Initial, PauseAfterInitial, Busy, RunAgain, PauseAfterRun,
       Sleeping, RunDone, DoPause, PauseAcquire, PauseRelease, CompleteLock, CompletePauseTake,
       CompleteMove, WaiterTry, WaiterPost, WaiterPutBack, WaiterSteps, setState, moveOn, pauseCheck

\* A thread that rests goes to its pause or finishes task_completed(); one
\* that is woken waits for the permit; one that works stays at work until it
\* is moved.
LEMMA RestingSteps ==
    ASSUME TypeOK, NEW w \in Workers, Resting(w), WorkerStep(w)
    PROVE  UNCHANGED <<doPause, pauseSem, runnable, ran, busy, size, crashed, pc, got, arg, submitted>>
           /\ Resting(w)'
<1> USE DEF jump, poolVars, threadVars, callerVars, Resting, WaiterSteps, TypeOK
<1>1. CASE Starting(w) \/ DoPause(w)
    BY <1>1 DEF Starting, DoPause, setState
<1>2. CASE PauseAtTop(w)
    BY <1>2 DEF PauseAtTop, pauseCheck
<1>3. CASE WaiterTry(w) \/ WaiterPost(w) \/ WaiterPutBack(w)
    BY <1>3 DEF WaiterTry, WaiterPost, WaiterPutBack
<1>4. ~PauseAcquire(w)
    BY DEF PauseAcquire
<1> QED
    BY <1>1, <1>2, <1>3, <1>4, StepAt

LEMMA WokenWaits == ASSUME NEW w \in Workers, Woken(w) PROVE ~WorkerStep(w)
BY StepAt DEF Woken, PauseAcquire, WaiterSteps

LEMMA WorkingSteps ==
    ASSUME TypeOK, Labelled, NotYetRun, NEW w \in Workers, Working(w), WorkerStep(w), ~CompleteMove(w)
    PROVE  UNCHANGED <<runnable, busy, size, crashed, pc, got, arg, submitted>> /\ Working(w)'
<1> USE DEF jump, poolVars, threadVars, callerVars, TypeOK
<1>1. CASE Busy(w) \/ Sleeping(w)
    BY <1>1 DEF Busy, Sleeping, setState, Working
<1>2. CASE PauseAtTop(w) \/ PauseAfterInitial(w) \/ PauseAfterRun(w)
    BY <1>2 DEF PauseAtTop, PauseAfterInitial, PauseAfterRun, pauseCheck, Working
<1>3. CASE Initial(w) \/ RunAgain(w)
    BY <1>3 DEF Initial, RunAgain, moveOn, Working
<1>4. CASE RunDone(w)
  <2>1. wpc[w] = "run" /\ wpc'[w] = "complete" /\ runnable[w] \in Tasks /\ ran[runnable[w]] = 0
    BY <1>4 DEF RunDone, Working, NotYetRun, Spent
  <2>2. ran'[runnable[w]] = 1
    BY <1>4, <2>1 DEF RunDone
  <2> QED
    BY <1>4, <2>1, <2>2 DEF RunDone, Working
<1>5. CASE PauseAcquire(w)
    BY <1>5 DEF PauseAcquire, Working
<1>6. CASE PauseRelease(w)
  <2>1. wret[w] \in {"initial", "busy", "sleep"}
    BY <1>6 DEF PauseRelease, Labelled, WorkersLabelled
  <2> QED
    BY <1>6, <2>1 DEF PauseRelease, Working
<1>7. CASE CompleteLock(w)
    BY <1>7 DEF CompleteLock, Working
<1>8. CASE CompletePauseTake(w)
    BY <1>8 DEF CompletePauseTake, Working
<1> QED
    BY <1>1, <1>2, <1>3, <1>4, <1>5, <1>6, <1>7, <1>8, StepAt DEF Working, WaiterSteps

\* task_completed() puts a thread to rest that has run its task.
LEMMA MoveInTime ==
    ASSUME Parameters, TypeOK, Labelled, TaskOnce, InTime, crashed = "no",
           NEW w \in Workers, CompleteMove(w)
    PROVE  InTime'
<1> USE DEF jump, poolVars, callerVars
<1>1. wpc[w] = "move" /\ w \in 1..size
  <2>1. wpc[w] = "move" /\ ~(w > size)
    BY DEF CompleteMove, Labelled, WorkersLabelled
  <2> QED
    BY <2>1, WorkersAre DEF TypeOK
<1>2. ~Resting(w) /\ ~Woken(w)
    BY <1>1 DEF Resting, Woken, WaiterSteps
<1>3. w \in busy /\ Alone(w)
    BY <1>1, <1>2 DEF InTime, IdleRests, HeldRests, Alone, Handing
<1>4. Working(w)
    BY <1>3 DEF InTime, BusyWorks
<1>5. /\ runnable' = [runnable EXCEPT ![w] = NoTask] /\ busy' = busy \ {w}
      /\ wpc' \in {[wpc EXCEPT ![w] = "waiterTry"], [wpc EXCEPT ![w] = "topPause"]}
      /\ UNCHANGED <<size, doPause, pauseSem, ran, pc, got, arg, submitted, crashed>>
    BY <1>3 DEF CompleteMove
<1>6. Resting(w)' /\ runnable'[w] = NoTask
    BY <1>1, <1>4, <1>5 DEF Working, Resting, WaiterSteps, TypeOK
<1>7. \A v \in Workers : v # w => /\ wpc'[v] = wpc[v] /\ runnable'[v] = runnable[v]
                                  /\ Resting(v)' = Resting(v) /\ Woken(v)' = Woken(v)
                                  /\ Working(v)' = Working(v)
    BY <1>5 DEF Resting, Woken, Working, TypeOK
<1>8. HeldBusy' /\ HeldRests'
  <2>1. \A c \in Callers : pc[c] \in Handing => got[c] \in Workers /\ got[c] # w
    BY <1>3 DEF Alone, InTime, HeldBusy, TypeOK
  <2>2. HeldBusy'
    BY <1>5, <2>1 DEF InTime, HeldBusy
  <2>3. HeldRests'
    BY <1>5, <1>7, <2>1 DEF InTime, HeldRests, Handing
  <2> QED
    BY <2>2, <2>3
<1>9. Unstarted' /\ IdleRests'
  <2>1. 1..size \subseteq Workers
    BY WorkersAre DEF TypeOK
  <2> QED
    BY <1>1, <1>5, <1>6, <1>7, <2>1 DEF InTime, Unstarted, IdleRests
<1>10. BusyWorks'
    BY <1>5, <1>7 DEF InTime, BusyWorks, Alone, TypeOK
<1>11. Kept'
  <2> SUFFICES ASSUME NEW t \in submitted, ran[t] = 0 PROVE \E v \in busy' : runnable'[v] = t
    BY <1>5 DEF Kept
  <2>1. PICK v \in busy : runnable[v] = t
    BY DEF InTime, Kept
  <2>2. v # w
    BY <1>1, <1>4, <2>1 DEF Working
  <2> QED
    BY <1>5, <1>7, <2>1, <2>2 DEF TypeOK
<1> QED
    BY <1>5, <1>8, <1>9, <1>10, <1>11 DEF InTime

LEMMA NextInTime ==
    ASSUME Parameters, Prompt, TypeOK, Labelled, Vectors, TaskOnce, InTime, Next
    PROVE  InTime'
<1> USE DEF poolVars, threadVars, workerVars, callerVars, jump, go
<1>0. 1..size \subseteq Workers /\ crashed = "no"
    BY WorkersAre DEF TypeOK, Next
<1>1. ASSUME NEW c \in Callers, GetNothing(c) \/ BlockerAcquire(c) PROVE InTime'
    BY <1>1, <1>0, QuietInTime DEF GetNothing, BlockerAcquire, Handing, TypeOK
<1>2. ASSUME NEW c \in Callers, WaitTest(c) \/ WaitAcquire(c) \/ WaitPutBack(c) \/ WaitReturn(c)
                                \/ CallWaitAll(c)
      PROVE  InTime'
    BY <1>2, <1>0, QuietInTime DEF WaitTest, WaitAcquire, WaitPutBack, WaitReturn, CallWaitAll, waitStep,
        Handing, TypeOK
<1>3. ASSUME NEW c \in Callers, NEW t \in Tasks, CallRunTask(c, t) PROVE InTime'
    BY <1>3, <1>0, QuietInTime DEF CallRunTask, Handing, TypeOK
<1>4. ASSUME NEW c \in Callers, NEW w \in 1..size', take(c, w), w \notin busy, pc[c] \notin Handing,
             size' \in Nat, 1..size \subseteq 1..size', 1..size' \subseteq Workers,
             Resting(w)', runnable[w] = NoTask,
             UNCHANGED <<runnable, ran, arg, submitted, crashed>>,
             \A v \in Workers : v # w => /\ wpc'[v] = wpc[v] /\ doPause'[v] = doPause[v]
                                         /\ pauseSem'[v] = pauseSem[v]
                                         /\ (v > size' <=> v > size)
      PROVE  InTime'
  <2>1. /\ busy' = busy \cup {w} /\ got' = [got EXCEPT ![c] = w]
        /\ pc' = [pc EXCEPT ![c] = "assign"]
    BY <1>4 DEF take
  <2>2. \A v \in Workers : v # w => /\ Resting(v)' = Resting(v) /\ Woken(v)' = Woken(v)
                                    /\ Working(v)' = Working(v)
    BY <1>4 DEF Resting, Woken, Working
  <2>3. \A d \in Callers : d # c => pc'[d] = pc[d] /\ got'[d] = got[d] /\ (pc[d] \in Handing => got[d] # w)
    BY <1>4, <2>1 DEF TypeOK, InTime, HeldBusy
  <2>4. pc'[c] = "assign" /\ got'[c] = w
    BY <2>1 DEF TypeOK
  <2>5. HeldBusy'
    BY <2>1, <2>3, <2>4 DEF InTime, HeldBusy
  <2>6. HeldRests'
    <3>1. \A d \in Callers : d # c /\ pc[d] \in Handing => got[d] \in Workers /\ got[d] # w
        BY <2>3 DEF InTime, HeldBusy, TypeOK
    <3> QED
        BY <1>4, <2>3, <2>4, <3>1 DEF InTime, HeldRests, Handing, Resting, Woken
  <2>7. Unstarted'
    BY <1>4 DEF InTime, Unstarted
  <2>10. IdleRests'
    <3> SUFFICES ASSUME NEW v \in 1..size', v \notin busy' PROVE Resting(v)' /\ runnable'[v] = NoTask
        BY DEF IdleRests
    <3>1. v # w /\ v \in Workers /\ v \notin busy
        BY <1>4, <2>1
    <3>2. v \in 1..size
        BY <1>4, <3>1, WorkersAre DEF TypeOK
    <3> QED
        BY <1>4, <2>2, <3>1, <3>2 DEF InTime, IdleRests
  <2>8. BusyWorks'
    <3> SUFFICES ASSUME NEW v \in busy', Alone(v)' PROVE Working(v)'
        BY DEF BusyWorks
    <3>1. v # w
        BY <2>4 DEF Alone, Handing
    <3>2. v \in busy /\ Alone(v)
        BY <1>4, <2>1, <2>3, <3>1 DEF Alone
    <3> QED
        BY <2>2, <3>1, <3>2 DEF InTime, BusyWorks, TypeOK
  <2>9. Kept'
    BY <1>4, <2>1 DEF InTime, Kept
  <2> QED
    BY <1>4, <2>5, <2>6, <2>7, <2>8, <2>9, <2>10 DEF InTime
<1>5. ASSUME NEW c \in Callers, GetAvailable(c) PROVE InTime'
  <2>1. /\ available[Len(available)] \in 1..size /\ available[Len(available)] \notin busy
        /\ take(c, available[Len(available)])
    BY <1>5 DEF GetAvailable, TypeOK, Vectors
  <2>2. PICK w \in 1..size : w \notin busy /\ take(c, w)
    BY <2>1
  <2>3. Resting(w) /\ runnable[w] = NoTask
    BY <2>2 DEF InTime, IdleRests
  <2>4. UNCHANGED <<size, runnable, ran, arg, submitted, crashed, wpc, doPause, pauseSem>>
        /\ pc[c] \notin Handing
    BY <1>5 DEF GetAvailable, Handing
  <2>5. Resting(w)'
    BY <2>3, <2>4 DEF Resting
  <2> QED
    BY <1>0, <1>4, <2>2, <2>3, <2>4, <2>5 DEF TypeOK
<1>6. ASSUME NEW c \in Callers, GetCreated(c) PROVE InTime'
  <2>1. PICK w \in Workers : w = size + 1 /\ size' = w
    BY <1>6, RoomForOne DEF GetCreated
  <2>2. size \in Nat /\ size' \in Nat /\ 1..size' \subseteq Workers
    BY <2>1, WorkersAre DEF TypeOK
  <2>3. w \notin busy /\ runnable[w] = NoTask
    BY <2>1, <2>2 DEF Vectors, InTime, Unstarted
  <2>4. UNCHANGED <<runnable, ran, arg, submitted, crashed>> /\ take(c, w) /\ pc[c] \notin Handing
    BY <1>6, <2>1 DEF GetCreated, Handing
  <2>5. /\ wpc' = [wpc EXCEPT ![w] = "created"] /\ doPause' = [doPause EXCEPT ![w] = TRUE]
        /\ pauseSem' = [pauseSem EXCEPT ![w] = 0]
    BY <1>6, <2>1 DEF GetCreated
  <2>6. \A v \in Workers : v # w => (v > size' <=> v > size)
    BY <2>1, <2>2, WorkersAre
  <2>7. w \in 1..size' /\ 1..size \subseteq 1..size'
    BY <2>1, <2>2
  <2>8. Resting(w)'
    BY <2>5 DEF Resting, TypeOK
  <2>9. \A v \in Workers : v # w => /\ wpc'[v] = wpc[v] /\ doPause'[v] = doPause[v]
                                     /\ pauseSem'[v] = pauseSem[v]
    BY <2>5 DEF TypeOK
  <2> QED
    BY <1>4, <2>2, <2>3, <2>4, <2>6, <2>7, <2>8, <2>9
<1>7. ASSUME NEW c \in Callers, pc[c] \in Handing
      PROVE  /\ got[c] \in busy /\ got[c] \in Workers
             /\ \A d \in Callers : d # c /\ pc[d] \in Handing => got[d] # got[c] /\ got[d] \in Workers
    BY <1>7 DEF InTime, HeldBusy, TypeOK
<1>8. ASSUME NEW c \in Callers, SetRunnable(c) PROVE InTime'
  <2>1. /\ pc[c] = "assign" /\ pc' = [pc EXCEPT ![c] = "unpauseSet"]
        /\ runnable' = [runnable EXCEPT ![got[c]] = arg[c]]
        /\ UNCHANGED <<size, busy, doPause, pauseSem, wpc, got, arg, submitted, ran, crashed>>
    BY <1>8 DEF SetRunnable
  <2>2. pc[c] \in Handing /\ pc'[c] \in Handing /\ \A d \in Callers : d # c => pc'[d] = pc[d]
    BY <2>1 DEF Handing, TypeOK
  <2>3. \A v \in Workers : v # got[c] => runnable'[v] = runnable[v]
    BY <2>1 DEF TypeOK
  <2>4. runnable'[got[c]] = arg[c]
    BY <1>7, <2>1, <2>2 DEF TypeOK
  <2>5. HeldBusy'
    BY <2>1, <2>2 DEF InTime, HeldBusy
  <2>6. HeldRests'
    BY <1>7, <2>1, <2>2, <2>3, <2>4 DEF InTime, HeldRests, Handing, Resting, Woken, TypeOK
  <2>7. Unstarted' /\ IdleRests'
    BY <1>0, <1>7, <2>1, <2>2, <2>3, WorkersAre
    DEF InTime, Unstarted, IdleRests, Resting, Labelled, CallersLabelled, TypeOK
  <2>8. BusyWorks'
    BY <2>1, <2>2, <2>3 DEF InTime, BusyWorks, Alone, Working, TypeOK
  <2>9. Kept'
    <3>1. runnable[got[c]] = NoTask
        BY <2>1 DEF InTime, HeldRests
    <3> QED
        BY <2>1, <2>3, <3>1 DEF InTime, Kept, TypeOK, Parameters
  <2> QED
    BY <2>1, <2>5, <2>6, <2>7, <2>8, <2>9 DEF InTime
<1>9. ASSUME NEW c \in Callers, UnpauseSet(c) PROVE InTime'
  <2>1. pc[c] \in Handing /\ pc[c] = "unpauseSet" /\ doPause[got[c]] /\ wpc[got[c]] = "acquire"
        /\ pauseSem[got[c]] = 0 /\ runnable[got[c]] = arg[c]
    BY <1>9 DEF UnpauseSet, Handing, InTime, HeldRests, Resting
  <2>2. /\ pc' = [pc EXCEPT ![c] = "unpauseTest"] /\ doPause' = [doPause EXCEPT ![got[c]] = FALSE]
        /\ UNCHANGED <<size, busy, pauseSem, wpc, runnable, got, arg, submitted, ran, crashed>>
    BY <1>9, <2>1 DEF UnpauseSet, goOn
  <2>3. pc'[c] = "unpauseTest" /\ pc'[c] \in Handing /\ \A d \in Callers : d # c => pc'[d] = pc[d]
    BY <2>2 DEF Handing, TypeOK
  <2>4. /\ \A v \in Workers : v # got[c] => doPause'[v] = doPause[v]
        /\ doPause'[got[c]] = FALSE
    BY <1>7, <2>1, <2>2 DEF TypeOK
  <2>5. HeldBusy'
    BY <2>1, <2>2, <2>3 DEF InTime, HeldBusy
  <2>6. HeldRests'
    BY <1>7, <2>1, <2>2, <2>3, <2>4 DEF InTime, HeldRests, Handing, Resting, Woken
  <2>7. Unstarted' /\ IdleRests'
    BY <1>0, <1>7, <2>1, <2>2, <2>4 DEF InTime, Unstarted, IdleRests, Resting
  <2>8. BusyWorks'
    BY <2>1, <2>2, <2>3, <2>4 DEF InTime, BusyWorks, Alone, Working, TypeOK
  <2> QED
    BY <2>2, <2>5, <2>6, <2>7, <2>8 DEF InTime, Kept
<1>10. ASSUME NEW c \in Callers, UnpauseTest(c) PROVE InTime'
  <2>1. pc[c] = "unpauseTest" /\ pc[c] \in Handing /\ wpc[got[c]] = "acquire"
    BY <1>10 DEF UnpauseTest, Handing, InTime, HeldRests, Woken
  <2>2. state[got[c]] = "PAUSED"
    BY <1>7, <2>1 DEF Labelled, WorkersLabelled
  <2>3. /\ pc' = [pc EXCEPT ![c] = "unpausePost"]
        /\ UNCHANGED <<size, busy, doPause, pauseSem, wpc, runnable, got, arg, submitted, ran, crashed>>
    BY <1>10, <2>2 DEF UnpauseTest, goOn
  <2>4. pc'[c] = "unpausePost" /\ pc'[c] \in Handing /\ \A d \in Callers : d # c => pc'[d] = pc[d]
    BY <2>3 DEF Handing, TypeOK
  <2>5. HeldBusy' /\ HeldRests'
    BY <2>1, <2>3, <2>4 DEF InTime, HeldBusy, HeldRests, Resting, Woken
  <2>6. BusyWorks'
    BY <2>1, <2>3, <2>4 DEF InTime, BusyWorks, Alone, Working
  <2> QED
    BY <2>3, <2>5, <2>6 DEF InTime, Unstarted, IdleRests, Resting, Kept
<1>11. ASSUME NEW c \in Callers, UnpausePost(c) PROVE InTime'
  <2>1. pc[c] = "unpausePost" /\ pc[c] \in Handing /\ Woken(got[c]) /\ runnable[got[c]] = arg[c]
    BY <1>11 DEF UnpausePost, Handing, InTime, HeldRests
  <2>2. /\ pc' = [pc EXCEPT ![c] = "caller"] /\ arg' = [arg EXCEPT ![c] = NoTask]
        /\ submitted' = submitted \cup {arg[c]} /\ pauseSem' = [pauseSem EXCEPT ![got[c]] = @ + 1]
        /\ UNCHANGED <<size, busy, doPause, wpc, runnable, got, ran, crashed>>
    BY <1>11 DEF UnpausePost, handedOver
  <2>3. pc'[c] \notin Handing /\ \A d \in Callers : d # c => pc'[d] = pc[d] /\ arg'[d] = arg[d]
    BY <2>2 DEF Handing, TypeOK
  <2>4. pauseSem'[got[c]] = 1 /\ \A v \in Workers : v # got[c] => pauseSem'[v] = pauseSem[v]
    BY <1>7, <2>1, <2>2 DEF TypeOK, Woken
  <2>5. arg[c] \in Tasks
    BY <2>1 DEF Labelled, CallersLabelled, RunTaskLabels, TypeOK
  <2>6. HeldBusy'
    BY <2>2, <2>3 DEF InTime, HeldBusy
  <2>7. HeldRests'
    BY <1>7, <2>1, <2>2, <2>3, <2>4 DEF InTime, HeldRests, Handing, Resting, Woken
  <2>8. Unstarted' /\ IdleRests'
    BY <1>0, <1>7, <2>1, <2>2, <2>4 DEF InTime, Unstarted, IdleRests, Resting
  <2>9. BusyWorks'
    <3> SUFFICES ASSUME NEW v \in busy, Alone(v)' PROVE Working(v)'
        BY <2>2 DEF BusyWorks
    <3>1. CASE v = got[c]
        BY <2>1, <2>2, <2>4, <2>5, <3>1 DEF Working, Woken
    <3>2. CASE v # got[c]
        BY <2>2, <2>3, <2>4, <3>2 DEF InTime, BusyWorks, Alone, Working, TypeOK
    <3> QED
        BY <3>1, <3>2
  <2>10. Kept'
    BY <1>7, <2>1, <2>2 DEF InTime, Kept
  <2> QED
    BY <2>2, <2>6, <2>7, <2>8, <2>9, <2>10 DEF InTime
<1>12. ASSUME NEW w \in Workers, WorkerStep(w), ~CompleteMove(w) PROVE InTime'
  <2>1. Resting(w) \/ Woken(w) \/ Working(w)
    <3>0. wpc[w] # "none"
        BY <1>12, StepAt DEF WaiterSteps
    <3>1. w \in 1..size
        BY <3>0, WorkersAre DEF Labelled, WorkersLabelled, TypeOK
    <3>2. CASE \E c \in Callers : pc[c] \in Handing /\ got[c] = w
        BY <3>2 DEF InTime, HeldRests, Handing
    <3> QED
        BY <3>1, <3>2 DEF InTime, IdleRests, BusyWorks, Alone
  <2>2. UNCHANGED <<size, busy, pc, got, arg, submitted, crashed, runnable>>
    BY <1>12, <2>1, RestingSteps, WokenWaits, WorkingSteps DEF TaskOnce
  <2>3. \A v \in Workers : v # w => /\ wpc'[v] = wpc[v] /\ doPause'[v] = doPause[v]
                                     /\ pauseSem'[v] = pauseSem[v]
    BY <1>12 DEF WorkerStep, Starting, PauseAtTop, Initial, PauseAfterInitial, Busy, RunAgain,
        PauseAfterRun, Sleeping, RunDone, DoPause, PauseAcquire, PauseRelease, CompleteLock,
        CompletePauseTake, WaiterTry, WaiterPost, WaiterPutBack, moveOn, setState, pauseCheck, TypeOK
  <2>4. \A t \in Tasks : ran'[t] = ran[t] \/ (t = runnable[w] /\ ran'[t] = ran[t] + 1)
    <3>1. CASE RunDone(w)
        BY <3>1 DEF RunDone
    <3>2. CASE ~RunDone(w)
      <4>1. ran' = ran
        BY <1>12, <3>2 DEF WorkerStep, Starting, PauseAtTop, Initial, PauseAfterInitial, Busy, RunAgain,
        PauseAfterRun, Sleeping, DoPause, PauseAcquire, PauseRelease, CompleteLock,
        CompletePauseTake, WaiterTry, WaiterPost, WaiterPutBack, moveOn, setState, pauseCheck
      <4> QED
        BY <4>1
    <3> QED
        BY <3>1, <3>2
  <2>5. (Resting(w) => Resting(w)') /\ (Woken(w) => Woken(w)') /\ (Working(w) => Working(w)')
    BY <1>12, RestingSteps, WokenWaits, WorkingSteps DEF TaskOnce
  <2> QED
    BY <2>2, <2>3, <2>4, <2>5, WorkerInTime DEF TaskOnce
<1>13. ASSUME NEW w \in Workers, CompleteMove(w) PROVE InTime'
    BY <1>0, <1>13, MoveInTime
<1> QED
    BY <1>1, <1>2, <1>3, <1>5, <1>6, <1>8, <1>9, <1>10, <1>11, <1>12, <1>13
    DEF Next, CallerStep

-----------------------------------------------------------------------------
(* One caller                                                              *)

LEMMA InitBlocking == ASSUME Parameters, SizesFit, Init PROVE Blocking
<1>1. available = <<>> => MinSize = 0
    BY DEF Init, Parameters
<1>2. size = MinSize /\ blocker = 1 /\ crashed = "no" /\ \A c \in Callers : pc[c] = "caller"
    BY DEF Init
<1>3. MinSize \in Nat /\ MaxSize \in Nat /\ 1 <= MaxSize /\ MinSize <= MaxSize
    BY DEF SizesFit, Parameters
<1> QED
    BY <1>1, <1>2, <1>3 DEF Blocking

\* A step that leaves the blocker, the size and the available pool alone.
LEMMA QuietBlocking ==
    ASSUME Blocking, UNCHANGED <<size, available, blocker>>, crashed' # "null thread",
           \A c \in Callers : pc'[c] \in {"blocked", "getAgain"} => pc'[c] = pc[c]
    PROVE  Blocking'
BY DEF Blocking

LEMMA NextBlocking ==
    ASSUME Parameters, OneCaller, SizesFit, TypeOK, Blocking, Next
    PROVE  Blocking'
<1> USE DEF poolVars, threadVars, workerVars, callerVars, jump, go
<1>0. crashed = "no" /\ blocker \in Nat /\ size \in Nat /\ MaxSize \in Nat
    BY WorkersAre DEF Next, TypeOK, Parameters
<1>1. ASSUME NEW c \in Callers, SetRunnable(c) \/ UnpauseSet(c) \/ UnpauseTest(c) \/ UnpausePost(c)
      PROVE  Blocking'
  <2>1. UNCHANGED <<size, available, blocker, crashed>>
    BY <1>1 DEF SetRunnable, UnpauseSet, UnpauseTest, UnpausePost
  <2>2. \A d \in Callers : pc'[d] \in {"blocked", "getAgain"} => pc'[d] = pc[d]
    BY <1>1 DEF SetRunnable, UnpauseSet, UnpauseTest, UnpausePost, goOn, handedOver, TypeOK
  <2> QED
    BY <1>0, <2>1, <2>2, QuietBlocking
<1>2. ASSUME NEW c \in Callers, WaitTest(c) \/ WaitAcquire(c) \/ WaitPutBack(c) \/ WaitReturn(c)
                                \/ CallWaitAll(c)
      PROVE  Blocking'
    BY <1>0, <1>2, QuietBlocking DEF WaitTest, WaitAcquire, WaitPutBack, WaitReturn, CallWaitAll, waitStep,
        TypeOK
<1>3. ASSUME NEW c \in Callers, NEW t \in Tasks, CallRunTask(c, t) PROVE Blocking'
    BY <1>0, <1>3, QuietBlocking DEF CallRunTask, TypeOK
<1>4. ASSUME NEW c \in Callers, GetAvailable(c) PROVE Blocking'
  <2>1. /\ size' = size /\ crashed' = crashed
        /\ blocker' = IF available' = <<>> /\ size' = MaxSize /\ blocker > 0 THEN blocker - 1 ELSE blocker
    BY <1>4 DEF GetAvailable, take
  <2>2. \A d \in Callers : pc'[d] = "assign"
    BY <1>4 DEF GetAvailable, take, TypeOK, OneCaller
  <2>3. blocker \in {0, 1}
    BY <1>0 DEF Blocking
  <2>4. blocker' <= 1 /\ (available' = <<>> /\ size' = MaxSize => blocker' = 0)
    BY <2>1, <2>3
  <2> QED
    BY <1>0, <2>1, <2>2, <2>4 DEF Blocking
<1>5. ASSUME NEW c \in Callers, GetCreated(c) PROVE Blocking'
  <2>1. /\ size' = size + 1 /\ crashed' = crashed /\ size < MaxSize
        /\ blocker' = IF available' = <<>> /\ size' = MaxSize /\ blocker > 0 THEN blocker - 1 ELSE blocker
    BY <1>5 DEF GetCreated, take
  <2>2. \A d \in Callers : pc'[d] = "assign"
    BY <1>5 DEF GetCreated, take, TypeOK, OneCaller
  <2>3. blocker \in {0, 1}
    BY <1>0 DEF Blocking
  <2>4. blocker' <= 1 /\ (available' = <<>> /\ size' = MaxSize => blocker' = 0)
    BY <2>1, <2>3
  <2>5. size' <= MaxSize
    BY <2>1 DEF TypeOK, Parameters
  <2> QED
    BY <1>0, <2>1, <2>2, <2>4, <2>5 DEF Blocking
<1>6. ASSUME NEW c \in Callers, GetNothing(c) PROVE Blocking'
  <2>1. available = <<>> /\ size = MaxSize
    <3>1. available = <<>> /\ size >= MaxSize /\ size <= MaxSize
        BY <1>6 DEF GetNothing, Blocking
    <3> QED
        BY <1>0, <3>1
  <2>2. pc[c] = "getThread"
    BY <1>6, <2>1 DEF GetNothing, Blocking
  <2>3. UNCHANGED <<size, available, blocker, crashed>> /\ \A d \in Callers : pc'[d] = "blocked"
    BY <1>6, <2>2 DEF GetNothing, OneCaller, TypeOK
  <2> QED
    BY <1>0, <2>1, <2>3 DEF Blocking
<1>7. ASSUME NEW c \in Callers, BlockerAcquire(c) PROVE Blocking'
  <2>1. pc[c] = "blocked" /\ blocker > 0 /\ blocker' = blocker - 1 /\ UNCHANGED <<size, available, crashed>>
        /\ \A d \in Callers : pc'[d] = "getAgain"
    BY <1>7 DEF BlockerAcquire, OneCaller, TypeOK
  <2>2. size = MaxSize /\ available # <<>>
    BY <1>0, <2>1 DEF Blocking
  <2> QED
    BY <1>0, <2>1, <2>2 DEF Blocking, TypeOK
<1>8. ASSUME NEW w \in Workers, CompleteMove(w) PROVE Blocking'
  <2>1. CASE w \notin busy
    BY <1>8, <2>1, QuietBlocking DEF CompleteMove
  <2>2. CASE w \in busy
    <3>1. /\ UNCHANGED <<size, crashed, pc>> /\ available' = Append(available, w)
          /\ blocker' = IF available = <<>> /\ size = MaxSize /\ blocker = 0 THEN 1 ELSE blocker
        BY <1>8, <2>2 DEF CompleteMove
    <3>2. available' # <<>>
        BY <1>8, <3>1 DEF TypeOK
    <3> QED
        BY <1>0, <3>1, <3>2 DEF Blocking
  <2> QED
    BY <2>1, <2>2
<1>9. ASSUME NEW w \in Workers, WorkerStep(w), ~CompleteMove(w) PROVE Blocking'
  <2>1. UNCHANGED <<size, available, blocker, crashed, pc>>
    BY <1>9 DEF WorkerStep, Starting, PauseAtTop, Initial, PauseAfterInitial, Busy, RunAgain,
        PauseAfterRun, Sleeping, RunDone, DoPause, PauseAcquire, PauseRelease, CompleteLock,
        CompletePauseTake, WaiterTry, WaiterPost, WaiterPutBack, moveOn, setState, pauseCheck
  <2> QED
    BY <1>0, <2>1, QuietBlocking
<1> QED
    BY <1>1, <1>2, <1>3, <1>4, <1>5, <1>6, <1>7, <1>8, <1>9 DEF Next, CallerStep

LEMMA InitAwaiting == ASSUME Parameters, Init PROVE Awaiting
BY DEF Init, Awaiting, Parameters

\* A step that leaves the waiter and the busy pool alone.
LEMMA QuietAwaiting ==
    ASSUME Awaiting, UNCHANGED <<waits, owed, waiter, busy>>, submitted \subseteq submitted',
           \A c \in Callers :
               pc'[c] \in {"waitTest", "waitAcquire", "waitPutBack", "waited"} => pc'[c] = pc[c],
           \A w \in Workers :
               wpc'[w] \in {"waiterPost", "waiterPutBack"} => wpc'[w] = wpc[w]
    PROVE  Awaiting'
BY DEF Awaiting

LEMMA NextAwaiting ==
    ASSUME Parameters, OneCaller, MaxWaits <= 1, TypeOK, Labelled, Awaiting, Next
    PROVE  Awaiting'
<1> USE DEF poolVars, threadVars, workerVars, callerVars, jump, go
<1>0. waiter \in Nat /\ MaxWaits \in {0, 1} /\ waits \in [Callers -> Nat]
    BY DEF TypeOK, Parameters
<1>1. ASSUME NEW c \in Callers, \/ SetRunnable(c) \/ UnpauseSet(c) \/ UnpauseTest(c) \/ UnpausePost(c)
                                \/ GetNothing(c) \/ BlockerAcquire(c)
      PROVE  Awaiting'
  <2>1. UNCHANGED <<waits, owed, waiter, busy, wpc>>
    BY <1>1 DEF SetRunnable, UnpauseSet, UnpauseTest, UnpausePost, GetNothing, BlockerAcquire
  <2>2. submitted \subseteq submitted'
    BY <1>1 DEF SetRunnable, UnpauseSet, UnpauseTest, UnpausePost, GetNothing, BlockerAcquire,
        goOn, handedOver
  <2>3. \A d \in Callers : pc'[d] \in {"waitTest", "waitAcquire", "waitPutBack", "waited"} => pc'[d] = pc[d]
    BY <1>1 DEF SetRunnable, UnpauseSet, UnpauseTest, UnpausePost, GetNothing, BlockerAcquire,
        goOn, handedOver, TypeOK
  <2> QED
    BY <2>1, <2>2, <2>3, QuietAwaiting
<1>2. ASSUME NEW c \in Callers, NEW t \in Tasks, CallRunTask(c, t) PROVE Awaiting'
    BY <1>2, QuietAwaiting DEF CallRunTask, TypeOK
<1>3. ASSUME NEW c \in Callers, GetAvailable(c) \/ GetCreated(c) PROVE Awaiting'
  <2>1. /\ UNCHANGED <<waits, owed, submitted>> /\ lockOwner = NoWorker
        /\ waiter' = IF busy = {} /\ waiter > 0 THEN waiter - 1 ELSE waiter
    BY <1>3 DEF GetAvailable, GetCreated, take
  <2>2. \A d \in Callers : pc'[d] = "assign"
    BY <1>3 DEF GetAvailable, GetCreated, take, TypeOK, OneCaller
  <2>3. \A w \in Workers : wpc'[w] \notin {"waiterPost", "waiterPutBack"}
    <3>1. \A w \in Workers : wpc[w] \notin Locked
        BY <2>1, WorkersAre DEF Labelled, WorkersLabelled
    <3> QED
        BY <1>3, <3>1 DEF GetAvailable, GetCreated, Locked, WaiterSteps, TypeOK
  <2>4. waits[c] = 0 => waiter' = 0
    BY <1>0, <2>1 DEF Awaiting
  <2> QED
    BY <2>1, <2>2, <2>3, <2>4 DEF Awaiting, OneCaller
<1>4. ASSUME NEW c \in Callers, CallWaitAll(c) PROVE Awaiting'
  <2>1. /\ waits[c] = 0 /\ \A d \in Callers : d = c /\ waits'[d] = 1
        /\ owed'[c] \subseteq submitted /\ UNCHANGED <<waiter, busy, submitted>>
        /\ pc'[c] = IF busy = {} THEN "waited" ELSE "waitTest"
    <3>1. waits[c] \in Nat /\ waits[c] < MaxWaits /\ waits' = [waits EXCEPT ![c] = @ + 1]
        BY <1>0, <1>4 DEF CallWaitAll
    <3>2. waits[c] = 0 /\ waits'[c] = 1
        BY <1>0, <3>1
    <3>3. owed'[c] \subseteq submitted
        BY <1>4 DEF CallWaitAll, Unfinished, TypeOK
    <3>4. UNCHANGED <<waiter, busy, submitted>> /\ pc'[c] = IF busy = {} THEN "waited" ELSE "waitTest"
        BY <1>4 DEF CallWaitAll, waitStep, TypeOK
    <3> QED
        BY <3>2, <3>3, <3>4 DEF OneCaller
  <2> QED
    BY <1>0, <2>1 DEF Awaiting
<1>5. ASSUME NEW c \in Callers, WaitTest(c) \/ WaitAcquire(c) \/ WaitPutBack(c) PROVE Awaiting'
  <2>1. /\ UNCHANGED <<busy, submitted, waits, owed>> /\ \A d \in Callers : d = c
        /\ pc[c] \in {"waitTest", "waitAcquire", "waitPutBack"}
        /\ pc'[c] \in {"waitAcquire", "waitPutBack", "waited"}
    BY <1>5 DEF WaitTest, WaitAcquire, WaitPutBack, waitStep, OneCaller, TypeOK
  <2>2. waits[c] # 0 /\ (pc[c] = "waitPutBack" => busy = {})
    BY <2>1 DEF Awaiting
  <2>3. pc'[c] # "waitAcquire" => busy = {}
    <3>1. CASE WaitPutBack(c)
        BY <2>2, <3>1 DEF WaitPutBack
    <3>2. CASE WaitTest(c) \/ WaitAcquire(c)
      <4>1. pc[c] \in {"waitTest", "waitAcquire"} /\ (pc'[c] # "waitAcquire" => waiter > 0)
        BY <3>2 DEF WaitTest, WaitAcquire, waitStep, TypeOK
      <4> QED
        BY <4>1 DEF Awaiting
    <3> QED
        BY <1>5, <3>1, <3>2
  <2>4. pc'[c] = "waitAcquire" => waiter' = 0
    BY <1>0, <1>5 DEF WaitTest, WaitAcquire, WaitPutBack, waitStep, TypeOK
  <2> QED
    BY <1>0, <2>1, <2>2, <2>3, <2>4 DEF Awaiting
<1>6. ASSUME NEW c \in Callers, WaitReturn(c) PROVE Awaiting'
  <2>1. /\ UNCHANGED <<busy, submitted, waits, waiter, wpc>> /\ \A d \in Callers : d = c
        /\ pc'[c] = "caller" /\ owed'[c] = {}
    BY <1>6 DEF WaitReturn, waitStep, OneCaller, TypeOK
  <2> QED
    BY <2>1 DEF Awaiting
<1>7. ASSUME NEW w \in Workers, CompleteMove(w) PROVE Awaiting'
  <2>1. UNCHANGED <<waits, owed, submitted, waiter, pc>> /\ busy' \subseteq busy
    BY <1>7 DEF CompleteMove
  <2>2. \A v \in Workers : wpc'[v] \in {"waiterPost", "waiterPutBack"} => wpc'[v] = wpc[v]
    BY <1>7 DEF CompleteMove, TypeOK
  <2> QED
    BY <2>1, <2>2 DEF Awaiting
<1>8. ASSUME NEW w \in Workers, WaiterTry(w) \/ WaiterPost(w) \/ WaiterPutBack(w) PROVE Awaiting'
  <2>1. UNCHANGED <<waits, owed, submitted, busy, pc>> /\ waiter' \in Nat
    BY <1>0, <1>8 DEF WaiterTry, WaiterPost, WaiterPutBack
  <2>2. wpc[w] \in WaiterSteps /\ busy = {}
    BY <1>8 DEF WaiterTry, WaiterPost, WaiterPutBack, WaiterSteps, Labelled, WorkersLabelled
  <2>3. \A v \in Workers : v # w => wpc[v] \notin Locked
    BY <2>2, WorkersAre DEF Labelled, WorkersLabelled, Locked
  <2>4. \A v \in Workers : v # w => wpc'[v] = wpc[v]
    BY <1>8 DEF WaiterTry, WaiterPost, WaiterPutBack, TypeOK
  <2>5. ASSUME waiter <= 1, wpc[w] \in {"waiterPost", "waiterPutBack"} => waiter = 0
        PROVE  waiter' <= 1 /\ (wpc'[w] \in {"waiterPost", "waiterPutBack"} => waiter' = 0)
    BY <1>0, <1>8, <2>5 DEF WaiterTry, WaiterPost, WaiterPutBack, TypeOK
  <2>6. ASSUME NEW c \in Callers, waits[c] = 0
        PROVE  waiter' <= 1 /\ \A v \in Workers : wpc'[v] \in {"waiterPost", "waiterPutBack"} => waiter' = 0
    BY <2>3, <2>4, <2>5, <2>6 DEF Awaiting, Locked, WaiterSteps
  <2> QED
    BY <2>1, <2>2, <2>6 DEF Awaiting
<1>9. ASSUME NEW w \in Workers, WorkerStep(w), ~CompleteMove(w), wpc[w] \notin WaiterSteps PROVE Awaiting'
  <2>1. UNCHANGED <<waits, owed, submitted, waiter, busy, pc>>
    BY <1>9 DEF WorkerStep, Starting, PauseAtTop, Initial, PauseAfterInitial, Busy, RunAgain,
        PauseAfterRun, Sleeping, RunDone, DoPause, PauseAcquire, PauseRelease, CompleteLock,
        CompletePauseTake, WaiterTry, WaiterPost, WaiterPutBack, WaiterSteps, moveOn, setState, pauseCheck
  <2>2. \A v \in Workers : wpc'[v] \in {"waiterPost", "waiterPutBack"} => wpc'[v] = wpc[v]
    BY <1>9 DEF WorkerStep, Starting, PauseAtTop, Initial, PauseAfterInitial, Busy, RunAgain,
        PauseAfterRun, Sleeping, RunDone, DoPause, PauseAcquire, PauseRelease, CompleteLock,
        CompletePauseTake, WaiterTry, WaiterPost, WaiterPutBack, WaiterSteps, moveOn, setState, pauseCheck,
        TypeOK
  <2> QED
    BY <2>1, <2>2, QuietAwaiting
<1>10. ASSUME NEW w \in Workers, WorkerStep(w), wpc[w] \in WaiterSteps PROVE Awaiting'
    BY <1>8, <1>10, StepAt DEF WaiterSteps
<1> QED
    BY <1>1, <1>2, <1>3, <1>4, <1>5, <1>6, <1>7, <1>9, <1>10 DEF Next, CallerStep

-----------------------------------------------------------------------------
(* The results                                                             *)

LEMMA NextCauses == ASSUME Causes, Next PROVE Causes'
<1> USE DEF Causes, poolVars, moveOn, setState, pauseCheck, waitStep
<1>1. ASSUME NEW c \in Callers, NEW t \in Tasks, CallRunTask(c, t) PROVE Causes'
    BY <1>1 DEF CallRunTask
<1>2. ASSUME NEW c \in Callers, CallerStep(c) \/ CallWaitAll(c) PROVE Causes'
    BY <1>2 DEF CallerStep, GetAvailable, GetCreated, GetNothing, BlockerAcquire, SetRunnable, UnpauseSet,
        UnpauseTest, UnpausePost, WaitTest, WaitAcquire, WaitPutBack, WaitReturn, CallWaitAll
<1>3. ASSUME NEW w \in Workers, WorkerStep(w) PROVE Causes'
    BY <1>3 DEF WorkerStep, Starting, PauseAtTop, Initial, PauseAfterInitial, Busy, RunAgain,
        PauseAfterRun, Sleeping, RunDone, DoPause, PauseAcquire, PauseRelease, CompleteLock,
        CompletePauseTake, CompleteMove, WaiterTry, WaiterPost, WaiterPutBack
<1> QED
    BY <1>1, <1>2, <1>3 DEF Next

LEMMA InvStart == ASSUME Parameters, Init PROVE IInv
BY InitTypes, InitLabelled, InitVectors, InitTaskOnce, InitInTime, InitBlocking, InitAwaiting
DEF IInv, Causes, Init

LEMMA InvStep == ASSUME Parameters, IInv, [Next]_vars PROVE IInv'
<1>1. CASE Next
    BY <1>1, NextTypes, NextCauses, NextLabelled, NextVectors, NextTaskOnce, NextInTime, NextBlocking, NextAwaiting
    DEF IInv
<1>2. CASE UNCHANGED vars
  <2> USE <1>2 DEF vars
  <2>1. TypeOK' /\ Causes' /\ Vectors'
    BY DEF IInv, TypeOK, Causes, Vectors
  <2>2. Labelled'
    BY DEF IInv, Labelled, WorkersLabelled, CallersLabelled
  <2>3. TaskOnce'
    BY DEF IInv, TaskOnce, ArgHeld, TaskFree, OneThread, NotYetRun, Untouched
  <2>4. InTime => InTime'
    BY DEF InTime, HeldBusy, HeldRests, Unstarted, IdleRests, BusyWorks, Kept, Alone, Resting, Woken, Working
  <2>5. (Blocking => Blocking') /\ (Awaiting => Awaiting')
    BY DEF Blocking, Awaiting
  <2> QED
    BY <2>1, <2>2, <2>3, <2>4, <2>5 DEF IInv
<1> QED
    BY <1>1, <1>2

\* The invariant says what PoolRight says.
LEMMA InvRight == ASSUME Parameters, IInv PROVE PoolRight
<1>1. TypeOK /\ PoolPartition /\ RunOnce
    BY PartitionHolds DEF IInv, TaskOnce, OneThread, RunOnce
<1>2. ASSUME Prompt PROVE RunsOnlyTasks
  <2> SUFFICES ASSUME NEW w \in Workers, wpc[w] = "run" PROVE w \in busy /\ runnable[w] # NoTask
    BY DEF RunsOnlyTasks
  <2>1. ~(w > size)
    BY DEF IInv, Labelled, WorkersLabelled
  <2>2. w \in 1..size
    BY <2>1, WorkersAre DEF IInv, TypeOK
  <2>3. ~Resting(w) /\ ~Woken(w)
    BY DEF Resting, Woken, WaiterSteps
  <2>4. w \in busy /\ Alone(w)
    BY <1>2, <2>2, <2>3 DEF IInv, InTime, IdleRests, HeldRests, Alone, Handing
  <2>5. Working(w)
    BY <1>2, <2>4 DEF IInv, InTime, BusyWorks
  <2> QED
    BY <2>4, <2>5 DEF Working, Parameters
<1>3. ASSUME Prompt, OneCaller, SizesFit PROVE NoCrash
    BY <1>3 DEF IInv, Causes, InTime, Blocking, NoCrash
<1>4. ASSUME Prompt, OneCaller, MaxWaits <= 1 PROVE WaitAllMeansDone
  <2> SUFFICES ASSUME NEW c \in Callers, pc[c] = "waited", NEW t \in owed[c] PROVE ran[t] = 1
    BY DEF WaitAllMeansDone
  <2>1. busy = {} /\ t \in submitted
    BY <1>4 DEF IInv, Awaiting
  <2>2. ran[t] # 0
    BY <1>4, <2>1 DEF IInv, InTime, Kept
  <2>3. t \in Tasks /\ ran[t] \in Nat /\ ran[t] <= 1
    BY <2>1 DEF IInv, TypeOK, TaskOnce
  <2> QED
    BY <2>2, <2>3
<1> QED
    BY <1>1, <1>2, <1>3, <1>4 DEF PoolRight

(* A pool of any sizes, with any callers and tasks, keeps PoolRight: its   *)
(* threads are in the two vectors once and a task runs at most once        *)
(* whatever the timing; when threads reach their pauses in time, only a    *)
(* task gets one out of it; and with one caller task_completed() finds its *)
(* thread, runTask() gets one after the blocker, and one waitAll() returns *)
(* after the tasks it waits for (ThreadPool.cpp:48-137).                   *)
THEOREM PoolStaysRight == ASSUME Parameters PROVE Spec => []PoolRight
<1>1. Init => IInv
    BY InvStart
<1>2. IInv /\ [Next]_vars => IInv'
    BY InvStep
<1>3. IInv => PoolRight
    BY InvRight
<1> QED
    BY <1>1, <1>2, <1>3, PTL DEF Spec
=============================================================================
