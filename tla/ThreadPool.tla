----------------------------- MODULE ThreadPool -----------------------------
(***************************************************************************)
(* SRL::System::ThreadPool (cpp/src/sys/ThreadPool.cpp) with the managed   *)
(* threads it starts (Thread::__managedLoop) and the threads that call     *)
(* runTask() and waitAll().                                                *)
(*                                                                         *)
(* _pool_lock is a Mutex, which implements RecursiveLock: a critical       *)
(* section is one step where it touches nothing that is used without the   *)
(* lock, and takes several steps, with lockOwner set, where the pause      *)
(* flags, the busy count and the semaphore _waiter are used by others at   *)
(* the same time.                                                          *)
(***************************************************************************)
EXTENDS Naturals, Sequences, FiniteSets

CONSTANTS Callers,      \* the threads that use the pool
          Tasks,        \* the Runnables they hand to it, once each
          NoTask,       \* _runnable == NULL
          MaxSize,      \* _max_size
          MinSize,      \* _min_size
          MaxWaits,     \* bound on the waitAll() calls of a caller
          Reluctant,    \* the tasks whose initial() returns false
          Prompt        \* does a thread reach its pause before it is unpaused?

Workers == 1..(IF MinSize > MaxSize THEN MinSize ELSE MaxSize)
NoWorker == 0

VARIABLES size,        \* _size
          available,   \* _available_pool, the last thread is handed out first
          busy,        \* _busy_pool
          blocker,     \* _blocker
          waiter,      \* _waiter
          lockOwner,   \* the worker inside task_completed(), or NoWorker
          runnable,    \* Thread::_runnable
          state,       \* Thread::_state
          doPause,     \* Thread::_do_pause
          pauseSem,    \* Thread::_pauseSem
          wpc,         \* where each worker is
          wret,        \* where its _doPause() returns to
          pc,          \* where each caller is
          got,         \* the thread _getThread() gave it
          arg,         \* its task
          waits,       \* the waitAll() calls it made
          owed,        \* tasks handed over and unfinished when it called waitAll()
          submitted,   \* tasks whose runTask() returned
          ran,         \* how often each task ran to its end
          crashed      \* why the process died, if it did

poolVars == <<size, available, busy, blocker, waiter, lockOwner>>
threadVars == <<runnable, state, doPause, pauseSem>>
workerVars == <<wpc, wret>>
callerVars == <<pc, got, arg, waits, owed, submitted>>
vars == <<size, available, busy, blocker, waiter, lockOwner, runnable, state,
          doPause, pauseSem, wpc, wret, pc, got, arg, waits, owed, submitted,
          ran, crashed>>

\* The constructor: MinSize threads, created paused, started, available.
Init ==
    /\ size = MinSize
    /\ available = [i \in 1..MinSize |-> i]
    /\ busy = {}
    /\ blocker = 1 /\ waiter = 1
    /\ lockOwner = NoWorker
    /\ runnable = [w \in Workers |-> NoTask]
    /\ state = [w \in Workers |-> "DEAD"]
    /\ doPause = [w \in Workers |-> w <= MinSize]
    /\ pauseSem = [w \in Workers |-> IF w <= MinSize THEN 0 ELSE 1]
    /\ wpc = [w \in Workers |-> IF w <= MinSize THEN "created" ELSE "none"]
    /\ wret = [w \in Workers |-> "none"]
    /\ pc = [c \in Callers |-> "caller"]
    /\ got = [c \in Callers |-> NoWorker]
    /\ arg = [c \in Callers |-> NoTask]
    /\ waits = [c \in Callers |-> 0]
    /\ owed = [c \in Callers |-> {}]
    /\ submitted = {}
    /\ ran = [t \in Tasks |-> 0]
    /\ crashed = "no"

-----------------------------------------------------------------------------
(* A managed thread: __managedLoop and _doPause.  Nobody cancels it here.  *)

jump(w, label) == wpc' = [wpc EXCEPT ![w] = label]

setState(w, from, s, label) ==
    /\ wpc[w] = from
    /\ state' = [state EXCEPT ![w] = s]
    /\ jump(w, label)
    /\ UNCHANGED <<poolVars, runnable, doPause, pauseSem, wret, callerVars, ran, crashed>>

\* if (_do_pause) _doPause();
pauseCheck(w, from, label) ==
    /\ wpc[w] = from
    /\ jump(w, IF doPause[w] THEN "pausing" ELSE label)
    /\ wret' = [wret EXCEPT ![w] = label]
    /\ UNCHANGED <<poolVars, threadVars, callerVars, ran, crashed>>

moveOn(w, from, label) ==
    /\ wpc[w] = from
    /\ jump(w, label)
    /\ UNCHANGED <<poolVars, threadVars, wret, callerVars, ran, crashed>>

Starting(w) == setState(w, "created", "STARTING", "topPause")

PauseAtTop(w) == pauseCheck(w, "topPause", "initial")

\* initial(): false sends the thread round the outer loop again.
Initial(w) ==
    moveOn(w, "initial", IF runnable[w] \in Reluctant THEN "topPause" ELSE "initialPause")

PauseAfterInitial(w) == pauseCheck(w, "initialPause", "busy")

Busy(w) == setState(w, "busy", "BUSY", "run")

\* run() returns true: sleep and call it again.
RunAgain(w) ==
    /\ runnable[w] # NoTask
    /\ moveOn(w, "run", "runPause")

PauseAfterRun(w) == pauseCheck(w, "runPause", "sleep")

Sleeping(w) == setState(w, "sleep", "SLEEPING", "busy")

\* run() returns false, which it does at once without a Runnable.
RunDone(w) ==
    /\ wpc[w] = "run"
    /\ ran' = [t \in Tasks |-> IF t = runnable[w] THEN ran[t] + 1 ELSE ran[t]]
    /\ jump(w, "complete")
    /\ UNCHANGED <<poolVars, threadVars, wret, callerVars, crashed>>

DoPause(w) == setState(w, "pausing", "PAUSED", "acquire")

PauseAcquire(w) ==
    /\ wpc[w] = "acquire"
    /\ pauseSem[w] > 0
    /\ pauseSem' = [pauseSem EXCEPT ![w] = @ - 1]
    /\ jump(w, "release")
    /\ UNCHANGED <<poolVars, runnable, state, doPause, wret, callerVars, ran, crashed>>

PauseRelease(w) ==
    /\ wpc[w] = "release"
    /\ pauseSem' = [pauseSem EXCEPT ![w] = @ + 1]
    /\ jump(w, wret[w])
    /\ UNCHANGED <<poolVars, runnable, state, doPause, wret, callerVars, ran, crashed>>

-----------------------------------------------------------------------------
(* task_completed(), under _pool_lock                                      *)

\* The lock, and the first half of thread->pause().
CompleteLock(w) ==
    /\ wpc[w] = "complete"
    /\ lockOwner = NoWorker
    /\ lockOwner' = w
    /\ doPause' = [doPause EXCEPT ![w] = TRUE]
    /\ jump(w, IF doPause[w] THEN "move" ELSE "pauseTake")
    /\ UNCHANGED <<size, available, busy, blocker, waiter, runnable, state, pauseSem,
                   wret, callerVars, ran, crashed>>

\* Its second half: _pauseSem.tryAcquire().
CompletePauseTake(w) ==
    /\ wpc[w] = "pauseTake"
    /\ pauseSem' = [pauseSem EXCEPT ![w] = IF @ > 0 THEN @ - 1 ELSE 0]
    /\ jump(w, "move")
    /\ UNCHANGED <<poolVars, runnable, state, doPause, wret, callerVars, ran, crashed>>

\* Faulty: the thread stays in the busy pool.
CompleteMove_KeepsBusy(w) ==
    /\ wpc[w] = "move"
    /\ runnable' = [runnable EXCEPT ![w] = NoTask]
    /\ IF w \notin busy
       THEN /\ crashed' = "remove"
            /\ UNCHANGED <<poolVars, wpc>>
       ELSE /\ busy' = busy
            /\ available' = Append(available, w)
            /\ blocker' = IF available = <<>> /\ size = MaxSize /\ blocker = 0
                          THEN 1 ELSE blocker
            /\ IF busy = {w} THEN jump(w, "waiterTry") /\ UNCHANGED lockOwner
                             ELSE jump(w, "topPause") /\ lockOwner' = NoWorker
            /\ UNCHANGED <<size, waiter, crashed>>
    /\ UNCHANGED <<state, doPause, pauseSem, wret, callerVars, ran>>

\* setRunnable(NULL), from one pool to the other, and the blocker opens when
\* a full pool gets its first free thread.  Vector::remove throws for a
\* thread that is not in the busy pool, and nobody catches it.
CompleteMove(w) ==
    /\ wpc[w] = "move"
    /\ runnable' = [runnable EXCEPT ![w] = NoTask]
    /\ IF w \notin busy
       THEN /\ crashed' = "remove"
            /\ UNCHANGED <<poolVars, wpc>>
       ELSE /\ busy' = busy \ {w}
            /\ available' = Append(available, w)
            /\ blocker' = IF available = <<>> /\ size = MaxSize /\ blocker = 0
                          THEN 1 ELSE blocker
            /\ IF busy = {w} THEN jump(w, "waiterTry") /\ UNCHANGED lockOwner
                             ELSE jump(w, "topPause") /\ lockOwner' = NoWorker
            /\ UNCHANGED <<size, waiter, crashed>>
    /\ UNCHANGED <<state, doPause, pauseSem, wret, callerVars, ran>>

\* while (!_waiter.testAcquire()) _waiter.release();
WaiterTry(w) ==
    /\ wpc[w] = "waiterTry"
    /\ waiter' = IF waiter > 0 THEN waiter - 1 ELSE 0
    /\ jump(w, IF waiter > 0 THEN "waiterPutBack" ELSE "waiterPost")
    /\ UNCHANGED <<size, available, busy, blocker, lockOwner, threadVars, wret,
                   callerVars, ran, crashed>>

WaiterPost(w) ==
    /\ wpc[w] = "waiterPost"
    /\ waiter' = waiter + 1
    /\ jump(w, "waiterTry")
    /\ UNCHANGED <<size, available, busy, blocker, lockOwner, threadVars, wret,
                   callerVars, ran, crashed>>

\* testAcquire() puts the permit back; the lock is released.
WaiterPutBack(w) ==
    /\ wpc[w] = "waiterPutBack"
    /\ waiter' = waiter + 1
    /\ lockOwner' = NoWorker
    /\ jump(w, "topPause")
    /\ UNCHANGED <<size, available, busy, blocker, threadVars, wret, callerVars,
                   ran, crashed>>

WorkerStep(w) ==
    \/ Starting(w) \/ PauseAtTop(w) \/ Initial(w) \/ PauseAfterInitial(w)
    \/ Busy(w) \/ RunAgain(w) \/ PauseAfterRun(w) \/ Sleeping(w) \/ RunDone(w)
    \/ DoPause(w) \/ PauseAcquire(w) \/ PauseRelease(w)
    \/ CompleteLock(w) \/ CompletePauseTake(w) \/ CompleteMove(w)
    \/ WaiterTry(w) \/ WaiterPost(w) \/ WaiterPutBack(w)

-----------------------------------------------------------------------------
(* runTask()                                                               *)

go(c, label) == pc' = [pc EXCEPT ![c] = label]

CallRunTask(c, t) ==
    /\ pc[c] = "caller"
    /\ t \notin submitted /\ \A d \in Callers : arg[d] # t
    /\ arg' = [arg EXCEPT ![c] = t]
    /\ go(c, "getThread")
    /\ UNCHANGED <<poolVars, threadVars, workerVars, got, waits, owed, submitted, ran, crashed>>

\* Faulty: the first task does not close the waiter.
take_NoWaiter(c, w) ==
    /\ blocker' = IF available' = <<>> /\ size' = MaxSize /\ blocker > 0
                  THEN blocker - 1 ELSE blocker
    /\ waiter' = waiter
    /\ busy' = busy \cup {w}
    /\ got' = [got EXCEPT ![c] = w]
    /\ go(c, "assign")

\* _getThread() hands w to c: taken from the back of the available pool, or
\* created paused and started.
take(c, w) ==
    /\ blocker' = IF available' = <<>> /\ size' = MaxSize /\ blocker > 0
                  THEN blocker - 1 ELSE blocker
    /\ waiter' = IF busy = {} /\ waiter > 0 THEN waiter - 1 ELSE waiter
    /\ busy' = busy \cup {w}
    /\ got' = [got EXCEPT ![c] = w]
    /\ go(c, "assign")

GetAvailable(c) ==
    /\ pc[c] \in {"getThread", "getAgain"}
    /\ lockOwner = NoWorker
    /\ available # <<>>
    /\ available' = SubSeq(available, 1, Len(available) - 1)
    /\ size' = size
    /\ take(c, available[Len(available)])
    /\ UNCHANGED <<lockOwner, threadVars, workerVars, arg, waits, owed, submitted,
                   ran, crashed>>

GetCreated(c) ==
    /\ pc[c] \in {"getThread", "getAgain"}
    /\ lockOwner = NoWorker
    /\ available = <<>> /\ size < MaxSize
    /\ available' = available
    /\ size' = size + 1
    /\ doPause' = [doPause EXCEPT ![size + 1] = TRUE]
    /\ pauseSem' = [pauseSem EXCEPT ![size + 1] = 0]
    /\ wpc' = [wpc EXCEPT ![size + 1] = "created"]
    /\ take(c, size + 1)
    /\ UNCHANGED <<lockOwner, runnable, state, wret, arg, waits, owed, submitted,
                   ran, crashed>>

\* _getThread() returns NULL: wait at the blocker the first time, use the
\* null pointer the second time.
GetNothing(c) ==
    /\ pc[c] \in {"getThread", "getAgain"}
    /\ lockOwner = NoWorker
    /\ available = <<>> /\ size >= MaxSize
    /\ IF pc[c] = "getThread"
       THEN go(c, "blocked") /\ UNCHANGED crashed
       ELSE crashed' = "null thread" /\ UNCHANGED pc
    /\ UNCHANGED <<poolVars, threadVars, workerVars, got, arg, waits, owed, submitted, ran>>

\* _blocker.acquire();
BlockerAcquire(c) ==
    /\ pc[c] = "blocked"
    /\ blocker > 0
    /\ blocker' = blocker - 1
    /\ go(c, "getAgain")
    /\ UNCHANGED <<size, available, busy, waiter, lockOwner, threadVars, workerVars,
                   got, arg, waits, owed, submitted, ran, crashed>>

\* thread->setRunnable(task);
SetRunnable(c) ==
    /\ pc[c] = "assign"
    /\ runnable' = [runnable EXCEPT ![got[c]] = arg[c]]
    /\ go(c, "unpauseSet")
    /\ UNCHANGED <<poolVars, state, doPause, pauseSem, workerVars, got, arg, waits,
                   owed, submitted, ran, crashed>>

\* runTask() returns.
handedOver(c) ==
    /\ submitted' = submitted \cup {arg[c]}
    /\ arg' = [arg EXCEPT ![c] = NoTask]
    /\ go(c, "caller")

goOn(c, label) == go(c, label) /\ UNCHANGED <<submitted, arg>>

\* thread->unpause(): if (_do_pause) { _do_pause = false; ...  Nothing in
\* the code makes the caller wait here for the thread; Prompt is the timing
\* under which it has got to its sem_wait by now.
UnpauseSet(c) ==
    /\ pc[c] = "unpauseSet"
    /\ Prompt => wpc[got[c]] = "acquire"
    /\ doPause' = [doPause EXCEPT ![got[c]] = FALSE]
    /\ IF doPause[got[c]] THEN goOn(c, "unpauseTest") ELSE handedOver(c)
    /\ UNCHANGED <<poolVars, runnable, state, pauseSem, workerVars, got, waits, owed,
                   ran, crashed>>

\* ... if (_state == THREAD_PAUSED) ...
UnpauseTest(c) ==
    /\ pc[c] = "unpauseTest"
    /\ IF state[got[c]] = "PAUSED" THEN goOn(c, "unpausePost") ELSE handedOver(c)
    /\ UNCHANGED <<poolVars, threadVars, workerVars, got, waits, owed, ran, crashed>>

\* Faulty: nobody is woken.
UnpausePost_Missing(c) ==
    /\ pc[c] = "unpausePost"
    /\ handedOver(c)
    /\ UNCHANGED <<poolVars, threadVars, workerVars, got, waits, owed, ran, crashed>>

\* ... _pauseSem.release(); }
UnpausePost(c) ==
    /\ pc[c] = "unpausePost"
    /\ pauseSem' = [pauseSem EXCEPT ![got[c]] = @ + 1]
    /\ handedOver(c)
    /\ UNCHANGED <<poolVars, runnable, state, doPause, workerVars, got, waits, owed,
                   ran, crashed>>

-----------------------------------------------------------------------------
(* waitAll()                                                               *)

Unfinished == {t \in submitted : ran[t] = 0}

waitStep(c, label) ==
    /\ go(c, label)
    /\ UNCHANGED <<size, available, busy, blocker, lockOwner, threadVars, workerVars,
                   got, arg, submitted, ran, crashed>>

\* if (_busy_pool.size() == 0) return; without the lock
CallWaitAll(c) ==
    /\ pc[c] = "caller"
    /\ waits[c] < MaxWaits
    /\ waits' = [waits EXCEPT ![c] = @ + 1]
    /\ owed' = [owed EXCEPT ![c] = Unfinished]
    /\ waitStep(c, IF busy = {} THEN "waited" ELSE "waitTest")
    /\ UNCHANGED waiter

\* if (!_waiter.testAcquire()): the tryAcquire in it
WaitTest(c) ==
    /\ pc[c] = "waitTest"
    /\ waiter' = IF waiter > 0 THEN waiter - 1 ELSE 0
    /\ waitStep(c, IF waiter > 0 THEN "waitPutBack" ELSE "waitAcquire")
    /\ UNCHANGED <<waits, owed>>

\* _waiter.acquire();
WaitAcquire(c) ==
    /\ pc[c] = "waitAcquire"
    /\ waiter > 0
    /\ waiter' = waiter - 1
    /\ waitStep(c, "waitPutBack")
    /\ UNCHANGED <<waits, owed>>

\* _waiter.release(), here or in testAcquire()
WaitPutBack(c) ==
    /\ pc[c] = "waitPutBack"
    /\ waiter' = waiter + 1
    /\ waitStep(c, "waited")
    /\ UNCHANGED <<waits, owed>>

\* waitAll() has returned.
WaitReturn(c) ==
    /\ pc[c] = "waited"
    /\ owed' = [owed EXCEPT ![c] = {}]
    /\ waitStep(c, "caller")
    /\ UNCHANGED <<waiter, waits>>

CallerStep(c) ==
    \/ GetAvailable(c) \/ GetCreated(c) \/ GetNothing(c) \/ BlockerAcquire(c)
    \/ SetRunnable(c) \/ UnpauseSet(c) \/ UnpauseTest(c) \/ UnpausePost(c)
    \/ WaitTest(c) \/ WaitAcquire(c) \/ WaitPutBack(c) \/ WaitReturn(c)

-----------------------------------------------------------------------------
Next ==
    /\ crashed = "no"
    /\ \/ \E c \in Callers : CallerStep(c) \/ CallWaitAll(c)
       \/ \E c \in Callers, t \in Tasks : CallRunTask(c, t)
       \/ \E w \in Workers : WorkerStep(w)

Spec == Init /\ [][Next]_vars

\* Threads are scheduled and every task's run() returns false some day.
FairSpec ==
    /\ Spec
    /\ \A c \in Callers : WF_vars(crashed = "no" /\ CallerStep(c))
    /\ \A w \in Workers :
        /\ WF_vars(crashed = "no" /\ WorkerStep(w))
        /\ SF_vars(crashed = "no" /\ RunDone(w))

-----------------------------------------------------------------------------
\* What the constants may be; a pool that is meant to block has room for a
\* thread and does not start with more than it may have.
Parameters ==
    /\ MaxSize \in Nat /\ MinSize \in Nat /\ MaxWaits \in Nat
    /\ NoTask \notin Tasks
    /\ Prompt \in BOOLEAN
SizesFit == 1 <= MaxSize /\ MinSize <= MaxSize
OneCaller == \A c, d \in Callers : c = d

RunTaskLabels == {"getThread", "blocked", "getAgain", "assign", "unpauseSet",
                  "unpauseTest", "unpausePost"}
CallerLabels == RunTaskLabels \cup
                {"caller", "waitTest", "waitAcquire", "waitPutBack", "waited"}
WorkerLabels == {"none", "created", "topPause", "initial", "initialPause", "busy",
                 "run", "runPause", "sleep", "pausing", "acquire", "release",
                 "complete", "pauseTake", "move", "waiterTry", "waiterPost",
                 "waiterPutBack"}

TypeOK ==
    /\ size \in 0..Cardinality(Workers)
    /\ available \in Seq(Workers)
    /\ busy \subseteq Workers
    /\ blocker \in Nat /\ waiter \in Nat
    /\ lockOwner \in Workers \cup {NoWorker}
    /\ runnable \in [Workers -> Tasks \cup {NoTask}]
    /\ state \in [Workers -> {"DEAD", "STARTING", "BUSY", "SLEEPING", "PAUSED"}]
    /\ doPause \in [Workers -> BOOLEAN]
    /\ pauseSem \in [Workers -> Nat]
    /\ wpc \in [Workers -> WorkerLabels]
    /\ wret \in [Workers -> {"none", "initial", "busy", "sleep"}]
    /\ pc \in [Callers -> CallerLabels]
    /\ got \in [Callers -> Workers \cup {NoWorker}]
    /\ arg \in [Callers -> Tasks \cup {NoTask}]
    /\ waits \in [Callers -> Nat]
    /\ owed \in [Callers -> SUBSET Tasks]
    /\ submitted \subseteq Tasks
    /\ ran \in [Tasks -> Nat]

(* Every thread of the pool is in exactly one of the two vectors, once     *)
(* (ThreadPool.cpp:81, 106, 119).                                          *)
PoolPartition ==
    LET free == {available[i] : i \in DOMAIN available} IN
    /\ free \cap busy = {}
    /\ free \cup busy = 1..size
    /\ Cardinality(free) = Len(available)

(* A task is handed to one thread and run to its end once (ThreadPool.cpp: *)
(* 59, 117).                                                               *)
RunOnce ==
    /\ \A t \in Tasks : ran[t] <= 1
    /\ \A v, w \in Workers :
        runnable[v] = runnable[w] /\ runnable[v] # NoTask => v = w

(* A thread in task_completed() is in the busy pool, and a caller that     *)
(* waited at the blocker finds a thread: the process does not die.         *)
NoCrash == crashed = "no"

(* Only a thread that was given a task gets out of its pause.              *)
RunsOnlyTasks ==
    \A w \in Workers : wpc[w] = "run" => w \in busy /\ runnable[w] # NoTask

(* "blocks until all tasks have been completed" (ThreadPool.h:47): when    *)
(* waitAll() returns, the tasks handed over before it was called have run. *)
WaitAllMeansDone ==
    \A c \in Callers : pc[c] = "waited" => \A t \in owed[c] : ran[t] = 1

(* What a pool keeps.  Whoever calls and whenever: its threads are in the *)
(* vectors once and a task runs at most once.  If threads reach their      *)
(* pauses in time: only tasks get a thread out of its pause.  If moreover  *)
(* one caller uses it: the process does not die, and one waitAll() waits   *)
(* (ThreadPool.cpp:48-137).                                                *)
PoolRight ==
    /\ Parameters /\ TypeOK /\ PoolPartition /\ RunOnce
    /\ Prompt => RunsOnlyTasks
    /\ Prompt /\ OneCaller /\ SizesFit =>
           /\ NoCrash
           /\ MaxWaits <= 1 => WaitAllMeansDone

(* "passes the task to the thread and returns" (ThreadPool.h:45): a task   *)
(* that was handed over runs.                                              *)
SubmittedRuns ==
    \A t \in Tasks : t \in submitted ~> ran[t] > 0

(* waitAll() returns (ThreadPool.cpp:70, 132).                             *)
WaitAllReturns ==
    \A c \in Callers : pc[c] = "waitTest" ~> pc[c] = "waited"

(* What is handed over gets done, and who waits for it goes on.            *)
WorkIsDone == SubmittedRuns /\ WaitAllReturns
=============================================================================
