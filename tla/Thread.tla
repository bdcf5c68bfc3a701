------------------------------- MODULE Thread -------------------------------
(***************************************************************************)
(* One SRL::System::Thread object (cpp/src/sys/Thread.cpp, POSIX build):   *)
(* the thread that owns the object calls its methods, and the pthreads     *)
(* that start() creates run __threadLoop.  The object's fields are shared  *)
(* without a lock, so each read or write of one that the other side also   *)
(* uses is a step of its own.                                              *)
(*                                                                         *)
(* initial(), run(), final() and thread_exception() are the user's; run()  *)
(* may return, throw, call doStateCheck() or cancel its own thread.  The   *)
(* modelled thread_exception() returns (as test/ThreadTest's ErrorThread); *)
(* the default one rethrows and ends the process.                          *)
(***************************************************************************)
EXTENDS Naturals, TLAPS

CONSTANTS MaxStarts,   \* bound on the pthreads created for the object
          Calls,       \* the methods the owner calls
          Patient      \* does the owner wait for the thread to catch up?

Pthreads == 1..MaxStarts

(* THREAD_STATE; a thread is alive in the last four.                       *)
Alive == {"STARTING", "SLEEPING", "PAUSED", "BUSY"}
States == Alive \cup {"DEAD", "CLOSING"}

VARIABLES state,       \* _state
          threadId,    \* _thread_id, 0 before the first start
          handle,      \* _thread, 0 before the first start
          haveHandle,  \* _have_handle
          handleGone,  \* handle was joined or detached: it names no thread
          doPause,     \* _do_pause
          doCancel,    \* _do_cancel
          pauseSem,    \* _pauseSem
          missed,      \* a pause() found the permit in a thread's hands (history)
          pt,          \* where each pthread is
          ret,         \* where its doPause() returns to
          killed,      \* pthread_cancel was called for it
          finals,      \* final() calls made for it (2: more than one)
          cpc,         \* where the owner is in the class's code
          call,        \* the owner's call, or its last one
          answer,      \* what the last call answered
          destroyed    \* ~Thread has run

ownerVars == <<cpc, call, answer>>
pauseVars == <<doPause, missed>>
handleVars == <<handle, haveHandle, handleGone>>
ptVars == <<pt, ret, killed, finals, threadId>>
vars == <<state, threadId, handle, haveHandle, handleGone, doPause, doCancel,
          pauseSem, missed, pt, ret, killed, finals, cpc, call, answer, destroyed>>

\* Between pthread_create and the write of THREAD_DEAD (or an exception).
Active(i) == pt[i] \notin {"none", "exited"}

\* Thread::Thread
Init ==
    /\ state = "DEAD"
    /\ threadId = 0
    /\ handle = 0 /\ haveHandle = FALSE /\ handleGone = FALSE
    /\ doPause = FALSE /\ doCancel = FALSE
    /\ pauseSem = 1 /\ missed = FALSE
    /\ pt = [i \in Pthreads |-> "none"]
    /\ ret = [i \in Pthreads |-> "none"]
    /\ killed = [i \in Pthreads |-> FALSE]
    /\ finals = [i \in Pthreads |-> 0]
    /\ cpc = "owner" /\ call = "none" /\ answer = "none"
    /\ destroyed = FALSE

-----------------------------------------------------------------------------
(* The pthread: __threadFunc and __threadLoop                              *)

jump(i, label) == pt' = [pt EXCEPT ![i] = label]

\* Everything a step of pthread i that only moves it leaves alone.
ownerSide == UNCHANGED <<handleVars, pauseVars, doCancel, ownerVars, destroyed>>

\* _state = s, then on to label.
setState(i, from, s, label) ==
    /\ pt[i] = from
    /\ state' = s
    /\ jump(i, label)
    /\ UNCHANGED <<pauseSem, ret, killed, finals, threadId>> /\ ownerSide

\* if (_do_pause) _doPause();
pauseCheck(i, from, label) ==
    /\ pt[i] = from
    /\ jump(i, IF doPause THEN "pausing" ELSE label)
    /\ ret' = [ret EXCEPT ![i] = label]
    /\ UNCHANGED <<state, pauseSem, killed, finals, threadId>> /\ ownerSide

\* A step that reads a flag or a hook's result and only moves on.
moveOn(i, from, label) ==
    /\ pt[i] = from
    /\ jump(i, label)
    /\ UNCHANGED <<state, pauseSem, ret, killed, finals, threadId>> /\ ownerSide

\* _state = THREAD_STARTING; _thread_id = GetCurrentThreadID();
Starting(i) ==
    /\ pt[i] = "created"
    /\ state' = "STARTING"
    /\ threadId' = i
    /\ jump(i, "startPause")
    /\ UNCHANGED <<pauseSem, ret, killed, finals>> /\ ownerSide

PauseBeforeInitial(i) == pauseCheck(i, "startPause", "initial")

\* initial() returns true, returns false or throws.
Initial(i) ==
    \E label \in {"initialPause", "closing", "exited"} : moveOn(i, "initial", label)

PauseAfterInitial(i) == pauseCheck(i, "initialPause", "while")

\* while (!_do_cancel)
While(i) == moveOn(i, "while", IF doCancel THEN "closing" ELSE "busy")

Busy(i) == setState(i, "busy", "BUSY", "run")

\* The user's final() for pthread i, counted up to 2.
callFinal(i) == finals' = [finals EXCEPT ![i] = IF @ = 2 THEN 2 ELSE @ + 1]

\* run() returns true or false, throws, or calls doStateCheck().
Run(i) ==
    \E label \in {"afterRun", "closing", "exited", "checkPause"} : moveOn(i, "run", label)

\* run() calls cancel() or terminate() on its own thread: _selfTerminate.
RunSelfTerminate(i) ==
    threadId = i /\ moveOn(i, "run", "closing")

\* if (!_do_cancel) after run()
AfterRun(i) == moveOn(i, "afterRun", IF doCancel THEN "while" ELSE "runPause")

PauseAfterRun(i) == pauseCheck(i, "runPause", "sleep")

Sleeping(i) == setState(i, "sleep", "SLEEPING", "while")

\* doStateCheck()
StateCheckPause(i) == pauseCheck(i, "checkPause", "checkCancel")

StateCheckCancel(i) ==
    moveOn(i, "checkCancel", IF doCancel /\ threadId = i THEN "closing" ELSE "busy")

\* _doPause(): _state = THREAD_PAUSED; _pauseSem.acquire(); _pauseSem.release();
DoPause(i) == setState(i, "pausing", "PAUSED", "acquire")

PauseAcquire(i) ==
    /\ pt[i] = "acquire"
    /\ pauseSem > 0
    /\ pauseSem' = pauseSem - 1
    /\ jump(i, "release")
    /\ UNCHANGED <<state, ret, killed, finals, threadId>> /\ ownerSide

PauseRelease(i) ==
    /\ pt[i] = "release"
    /\ pauseSem' = pauseSem + 1
    /\ jump(i, ret[i])
    /\ UNCHANGED <<state, ret, killed, finals, threadId>> /\ ownerSide

\* The end of the loop and _selfTerminate(): CLOSING, final(), DEAD, gone.
Closing(i) == setState(i, "closing", "CLOSING", "final")

Final(i) ==
    /\ pt[i] = "final"
    /\ callFinal(i)
    /\ jump(i, "dead")
    /\ UNCHANGED <<state, pauseSem, ret, killed, threadId>> /\ ownerSide

Dead(i) == setState(i, "dead", "DEAD", "exited")

\* The cancellation pthread_cancel asked for takes effect.
Killed(i) ==
    /\ killed[i] /\ Active(i)
    /\ jump(i, "exited")
    /\ UNCHANGED <<state, pauseSem, ret, killed, finals, threadId>> /\ ownerSide

PthreadStep(i) ==
    \/ Starting(i) \/ PauseBeforeInitial(i) \/ Initial(i) \/ PauseAfterInitial(i)
    \/ While(i) \/ Busy(i) \/ Run(i) \/ RunSelfTerminate(i) \/ AfterRun(i)
    \/ PauseAfterRun(i) \/ Sleeping(i) \/ StateCheckPause(i) \/ StateCheckCancel(i)
    \/ DoPause(i) \/ PauseAcquire(i) \/ PauseRelease(i)
    \/ Closing(i) \/ Final(i) \/ Dead(i) \/ Killed(i)

-----------------------------------------------------------------------------
(* The owner: the public methods                                           *)

at(label) == cpc = label
go(label) == cpc' = label

\* The call is over and answered a.
return(a) == cpc' = "owner" /\ answer' = a

\* An owner that gives the thread time: it calls after the pthread it
\* started shows in _state, does not end a pause (cancel() ends it too) that
\* the thread has not reached yet, and does not wait for a thread it has
\* paused.  It may ask for a pause at any time, whatever the thread does.
CaughtUp(c) ==
    /\ \A i \in Pthreads : pt[i] # "created"
    /\ c = "join" => ~doPause
    /\ c \in {"unpause", "cancel", "cancelWait", "terminate"} /\ doPause
            => state = "DEAD" \/ \E i \in Pthreads : pt[i] = "acquire"

\* terminate() needs a handle and ~Thread ends the object's life; a call
\* starts at the first step of its method.
Call(c) ==
    /\ at("owner") /\ ~destroyed
    /\ Patient => CaughtUp(c)
    /\ c = "start" => handle < MaxStarts
    /\ c = "terminate" => haveHandle
    /\ call' = c
    /\ answer' = "none"
    /\ go(CASE c = "start" -> "startCheck"
            [] c = "pause" -> "pauseSet"
            [] c \in {"unpause", "cancel", "cancelWait"} -> "unpauseSet"
            [] c \in {"join", "joinTimed"} -> "joinCheck"
            [] c = "terminate" -> "terminateSet"
            [] c = "destroy" -> "destroyCheck")
    /\ UNCHANGED <<state, handleVars, pauseVars, doCancel, pauseSem, ptVars, destroyed>>

\* _cleanUp(): pthread_detach, once per handle.
cleanUp ==
    /\ haveHandle' = FALSE
    /\ handleGone' = (handleGone \/ haveHandle)
    /\ UNCHANGED handle

threadSide == UNCHANGED <<state, pauseSem, ptVars>>

\* Faulty: _state is not looked at.
StartCheck_NoState ==
    /\ at("startCheck")
    /\ go("startCreate") /\ cleanUp
    /\ UNCHANGED <<call, answer, pauseVars, doCancel, destroyed>> /\ threadSide

\* start(): throws if the thread already runs, else forgets an old handle.
StartCheck ==
    /\ at("startCheck")
    /\ IF haveHandle /\ state # "DEAD"
       THEN return("threw") /\ UNCHANGED handleVars
       ELSE go("startCreate") /\ cleanUp /\ UNCHANGED answer
    /\ UNCHANGED <<call, pauseVars, doCancel, destroyed>> /\ threadSide

\* _do_cancel = false; pthread_create; _have_handle = true;
StartCreate ==
    /\ at("startCreate")
    /\ doCancel' = FALSE
    /\ handle' = handle + 1 /\ haveHandle' = TRUE /\ handleGone' = FALSE
    /\ jump(handle + 1, "created")
    /\ return("started")
    /\ UNCHANGED <<state, threadId, pauseVars, pauseSem, ret, killed, finals, call, destroyed>>

\* pause(): if (!_do_pause) { _do_pause = true; _pauseSem.tryAcquire(); }
PauseSet ==
    /\ at("pauseSet")
    /\ IF doPause THEN return("done") ELSE go("pauseTake") /\ UNCHANGED answer
    /\ doPause' = TRUE
    /\ UNCHANGED <<call, missed, handleVars, doCancel, destroyed>> /\ threadSide

\* Faulty: the semaphore is left alone.
PauseTake_Missing ==
    /\ at("pauseTake")
    /\ return("done")
    /\ UNCHANGED <<call, handleVars, pauseVars, doCancel, destroyed>> /\ threadSide

PauseTake ==
    /\ at("pauseTake")
    /\ pauseSem' = IF pauseSem > 0 THEN pauseSem - 1 ELSE 0
    /\ missed' = (missed \/ \E i \in Pthreads : pt[i] = "release")
    /\ return("done")
    /\ UNCHANGED <<state, ptVars, call, handleVars, doPause, doCancel, destroyed>>

\* Where the method that called unpause() goes on.
afterUnpause ==
    CASE call = "unpause" -> return("done")
      [] call \in {"cancel", "cancelWait"} -> go("cancelSet") /\ UNCHANGED answer
      [] call \in {"terminate", "destroy"} -> go("kill") /\ UNCHANGED answer

\* unpause(): if (_do_pause) { _do_pause = false; ...
UnpauseSet ==
    /\ at("unpauseSet")
    /\ IF doPause THEN go("unpauseTest") /\ UNCHANGED answer ELSE afterUnpause
    /\ doPause' = FALSE
    /\ UNCHANGED <<call, missed, handleVars, doCancel, destroyed>> /\ threadSide

\* ... if (_state == THREAD_PAUSED) ...
UnpauseTest ==
    /\ at("unpauseTest")
    /\ IF state = "PAUSED" THEN go("unpausePost") /\ UNCHANGED answer ELSE afterUnpause
    /\ UNCHANGED <<call, handleVars, pauseVars, doCancel, destroyed>> /\ threadSide

\* Faulty: nobody is woken.
UnpausePost_Missing ==
    /\ at("unpausePost")
    /\ afterUnpause
    /\ UNCHANGED <<call, handleVars, pauseVars, doCancel, destroyed>> /\ threadSide

\* ... _pauseSem.release(); }
UnpausePost ==
    /\ at("unpausePost")
    /\ pauseSem' = pauseSem + 1
    /\ afterUnpause
    /\ UNCHANGED <<state, ptVars, call, handleVars, pauseVars, doCancel, destroyed>>

\* cancel(): _do_cancel = true; return for NOW, else wait for the thread.
CancelSet ==
    /\ at("cancelSet")
    /\ doCancel' = TRUE
    /\ IF call = "cancel" THEN return("done") ELSE go("joinCheck") /\ UNCHANGED answer
    /\ UNCHANGED <<call, handleVars, pauseVars, destroyed>> /\ threadSide

\* join() is true: for cancel(milsec) that means _cleanUp.
joined ==
    /\ return("true")
    /\ IF call = "cancelWait" THEN cleanUp ELSE UNCHANGED handleVars

\* join(): if (_state >= THREAD_CLOSING), wait, for ever if milsec is 0.
JoinCheck ==
    /\ at("joinCheck")
    /\ IF state = "DEAD" THEN joined
       ELSE /\ go(IF call = "join" THEN "pthreadJoin" ELSE "joinPoll")
            /\ UNCHANGED <<answer, handleVars>>
    /\ UNCHANGED <<call, pauseVars, doCancel, destroyed>> /\ threadSide

\* The naps end when _state is DEAD, or time is up: join() is false and
\* cancel(milsec) throws ThreadDeadlock.
JoinPoll ==
    /\ at("joinPoll")
    /\ IF state = "DEAD" THEN joined ELSE return("timeout") /\ UNCHANGED handleVars
    /\ UNCHANGED <<call, pauseVars, doCancel, destroyed>> /\ threadSide

\* pthread_join(_thread, NULL); return true;
PthreadJoin ==
    /\ at("pthreadJoin")
    /\ ~Active(handle)
    /\ return("true")
    /\ handleGone' = TRUE
    /\ UNCHANGED <<call, handle, haveHandle, pauseVars, doCancel, destroyed>> /\ threadSide

\* terminate(): _do_cancel = true; unpause(); ...
TerminateSet ==
    /\ at("terminateSet")
    /\ doCancel' = TRUE
    /\ go("unpauseSet")
    /\ UNCHANGED <<call, answer, handleVars, pauseVars, destroyed>> /\ threadSide

\* Faulty: the pthread is left running.
Kill_Missing ==
    /\ at("kill")
    /\ cleanUp
    /\ go("killFinal")
    /\ UNCHANGED <<call, answer, pauseVars, doCancel, destroyed>> /\ threadSide

\* ... pthread_cancel(_thread); _cleanUp(); ...
Kill ==
    /\ at("kill")
    /\ killed' = [killed EXCEPT ![handle] = TRUE]
    /\ cleanUp
    /\ go("killFinal")
    /\ UNCHANGED <<state, threadId, pauseVars, doCancel, pauseSem, pt, ret, finals,
                   call, answer, destroyed>>

\* ... final(); ...
KillFinal ==
    /\ at("killFinal")
    /\ callFinal(handle)
    /\ go("killDead")
    /\ UNCHANGED <<state, threadId, handleVars, pauseVars, doCancel, pauseSem, pt, ret,
                   killed, call, answer, destroyed>>

\* ... _state = THREAD_DEAD; and ~Thread goes on to _cleanUp, which finds
\* no handle.
KillDead ==
    /\ at("killDead")
    /\ state' = "DEAD"
    /\ return("done")
    /\ destroyed' = (call = "destroy")
    /\ UNCHANGED <<ptVars, handleVars, pauseVars, doCancel, pauseSem, call>>

\* ~Thread: if (isAlive()) terminate(); _cleanUp();
DestroyCheck ==
    /\ at("destroyCheck")
    /\ IF state \in Alive
       THEN go("terminateSet") /\ UNCHANGED <<answer, handleVars, destroyed>>
       ELSE return("done") /\ cleanUp /\ destroyed' = TRUE
    /\ UNCHANGED <<call, pauseVars, doCancel>> /\ threadSide

OwnerStep ==
    \/ StartCheck \/ StartCreate \/ PauseSet \/ PauseTake
    \/ UnpauseSet \/ UnpauseTest \/ UnpausePost \/ CancelSet
    \/ JoinCheck \/ JoinPoll \/ PthreadJoin
    \/ TerminateSet \/ Kill \/ KillFinal \/ KillDead \/ DestroyCheck

-----------------------------------------------------------------------------
Next ==
    \/ \E c \in Calls : Call(c)
    \/ OwnerStep
    \/ \E i \in Pthreads : PthreadStep(i)

Spec == Init /\ [][Next]_vars

\* Pthreads are scheduled, the hooks return, and a call goes on.
FairSpec ==
    /\ Spec
    /\ WF_vars(OwnerStep)
    /\ \A i \in Pthreads : WF_vars(PthreadStep(i)) /\ WF_vars(Killed(i))

-----------------------------------------------------------------------------
\* What the constants may be, and an owner that never kills.
Methods == {"start", "pause", "unpause", "cancel", "cancelWait", "join", "joinTimed",
            "terminate", "destroy"}
Parameters == MaxStarts \in Nat /\ Calls \subseteq Methods /\ Patient \in BOOLEAN
Gentle == Calls \cap {"terminate", "destroy"} = {}

PthreadLabels == {"none", "created", "startPause", "initial", "initialPause", "while", "busy",
                  "run", "afterRun", "runPause", "sleep", "checkPause", "checkCancel",
                  "pausing", "acquire", "release", "closing", "final", "dead", "exited"}
OwnerLabels == {"owner", "startCheck", "startCreate", "pauseSet", "pauseTake", "unpauseSet",
                "unpauseTest", "unpausePost", "cancelSet", "joinCheck", "joinPoll",
                "pthreadJoin", "terminateSet", "kill", "killFinal", "killDead", "destroyCheck"}

TypeOK ==
    /\ state \in States
    /\ threadId \in 0..MaxStarts /\ handle \in 0..MaxStarts
    /\ haveHandle \in BOOLEAN /\ handleGone \in BOOLEAN /\ doPause \in BOOLEAN
    /\ doCancel \in BOOLEAN /\ destroyed \in BOOLEAN /\ missed \in BOOLEAN
    /\ pauseSem \in Nat
    /\ pt \in [Pthreads -> PthreadLabels]
    /\ ret \in [Pthreads -> {"none", "initial", "while", "sleep", "checkCancel"}]
    /\ killed \in [Pthreads -> BOOLEAN]
    /\ finals \in [Pthreads -> 0..2]
    /\ cpc \in OwnerLabels
    /\ call \in Methods \cup {"none"}
    /\ answer \in {"none", "threw", "started", "done", "true", "timeout"}
    /\ \A i \in Pthreads : i > handle => pt[i] = "none"

(* One pthread at a time runs on the object: start() refuses while the     *)
(* last one is still in its loop or its final() (Thread.cpp:165).          *)
OnePthread ==
    \A i, j \in Pthreads : Active(i) /\ Active(j) => i = j

(* final() is called once for each start, whichever way the loop ends      *)
(* (Thread.cpp:345, 505, 252).                                             *)
FinalOnce == \A i \in Pthreads : finals[i] <= 1

(* "returns true when thread has exited" (Thread.h:177): when join() or    *)
(* cancel(milsec) succeed no pthread of the object is left running, and    *)
(* nothing touches the object until the next start().                      *)
JoinMeansExited ==
    answer = "true" => \A i \in Pthreads : ~Active(i)

\* A pause that is in force: pause() has returned, and no pause() of the
\* object came while the thread was between acquire() and release() of
\* _doPause, where tryAcquire() leaves with nothing (Thread.cpp:191, 305).
Held == doPause /\ ~missed /\ ~at("pauseTake")

(* A pause that got the permit holds, whoever calls whatever: the thread   *)
(* does not get through the semaphore of _doPause until an unpause(),      *)
(* though pause() may come while it runs, reads _do_pause or waits, and    *)
(* unpause() decides from a stale _state (Thread.cpp:186, 195, 301).       *)
PauseHolds ==
    [][\A i \in Pthreads : Held => ~(pt[i] = "acquire" /\ pt'[i] = "release")]_vars

(* The pause semaphore stays binary as long as no pause() missed the       *)
(* permit (Thread.cpp:78, 191, 201, 306).                                  *)
PauseSemBinary ==
    ~missed => /\ pauseSem <= 1
               /\ \A i \in Pthreads : pt[i] = "release" => pauseSem = 0

(* What a Thread keeps: a pause semaphore that is binary until a pause()   *)
(* misses the permit and, with an owner that lets the thread catch up and  *)
(* does not kill it, one pthread at a time, one final() for each start and *)
(* nothing that runs when join() succeeded (Thread.cpp:160-306).           *)
ThreadRight ==
    /\ Parameters /\ TypeOK /\ PauseSemBinary
    /\ Patient /\ Gentle => OnePthread /\ FinalOnce /\ JoinMeansExited

(* terminate() gets rid of the pthread even when its pause or its          *)
(* cancellation flag went unnoticed (Thread.cpp:245).                      *)
TerminateEndsThread ==
    at("killDead") ~> \A i \in Pthreads : ~Active(i)

(* "make sure we are not paused" (Thread.cpp:219, 238): a thread that      *)
(* waits in _doPause although no pause is asked for any more is woken,     *)
(* unless a new pause is asked for first (Thread.cpp:195).                 *)
UnpauseWakes ==
    \A i \in Pthreads :
        pt[i] = "acquire" /\ ~doPause ~> pt[i] # "acquire" \/ doPause

(* "Informs the thread to stop running when it gets a chance" (Thread.h:   *)
(* 168): a cancelled thread ends, unless it is asked to pause meanwhile.   *)
CancelStops ==
    \A i \in Pthreads : doCancel /\ Active(i) ~> ~Active(i) \/ doPause

-----------------------------------------------------------------------------
(* The inductive invariant, part by part                                   *)

\* What the labels say of the other fields, for every owner.
Pausing == {"pausing", "acquire", "release"}
Unpausing == {"unpauseSet", "unpauseTest", "unpausePost"}
Labelled ==
    /\ \A i \in Pthreads : pt[i] \in Pausing => ret[i] # "none"
    /\ cpc \in {"startCheck", "startCreate"} => handle < MaxStarts
    /\ cpc \in Unpausing => call \in {"unpause", "cancel", "cancelWait", "terminate", "destroy"}
    /\ cpc = "cancelSet" => call \in {"cancel", "cancelWait"}
    /\ cpc = "terminateSet" => call \in {"terminate", "destroy"}
    /\ cpc = "destroyCheck" => call = "destroy"

\* Nobody is killed.
Spared ==
    /\ call \notin {"terminate", "destroy"}
    /\ cpc \notin {"terminateSet", "kill", "killFinal", "killDead", "destroyCheck"}
    /\ \A i \in Pthreads : ~killed[i]

\* The pthread that runs is the one of the last start(); _state is DEAD when
\* none does, unless it has not come to write it.
Running ==
    /\ \A i \in Pthreads : Active(i) => i = handle /\ haveHandle
    /\ \A i \in Pthreads : Active(i) /\ state = "DEAD" => pt[i] = "created"
    /\ \A i \in Pthreads : pt[i] = "created" => cpc = "owner" /\ state = "DEAD" /\ answer # "true"
    /\ cpc = "startCreate" => state = "DEAD" /\ \A i \in Pthreads : ~Active(i)
    /\ answer = "true" => \A i \in Pthreads : ~Active(i)
    /\ ~haveHandle => state = "DEAD"

\* final() comes last.
Finals ==
    \A i \in Pthreads : finals[i] <= 1 /\ (pt[i] \notin {"dead", "exited"} => finals[i] = 0)

\* Nobody has the permit of the pause semaphore but the pause.
Shut == pauseSem = 0 /\ \A i \in Pthreads : pt[i] # "release"

\* Until a pause() misses it there is one permit: in the semaphore, in the
\* hands of one pthread, or with the pause that is in force or ending.
Pauses ==
    ~missed =>
        /\ pauseSem <= 1
        /\ \A i \in Pthreads : pt[i] = "release" => pauseSem = 0
        /\ \A i, j \in Pthreads : pt[i] = "release" /\ pt[j] = "release" => i = j
        /\ doPause /\ cpc # "pauseTake" => Shut
        /\ cpc \in {"unpauseTest", "unpausePost"} => ~doPause /\ Shut

IInv ==
    /\ TypeOK /\ Labelled /\ Pauses
    /\ Patient /\ Gentle => Spared /\ Running /\ Finals

-----------------------------------------------------------------------------
(* Types, for every owner                                                  *)

LEMMA InitTypes == ASSUME Parameters, Init PROVE TypeOK /\ Labelled
<1>1. TypeOK
  <2>1. pt \in [Pthreads -> PthreadLabels] /\ cpc \in OwnerLabels /\ state \in States
    BY DEF Init, PthreadLabels, OwnerLabels, States
  <2>2. threadId \in 0..MaxStarts /\ handle \in 0..MaxStarts
    BY DEF Init, Parameters
  <2>3. \A i \in Pthreads : pt[i] = "none"
    BY DEF Init
  <2>4. /\ ret \in [Pthreads -> {"none", "initial", "while", "sleep", "checkCancel"}]
        /\ killed \in [Pthreads -> BOOLEAN] /\ finals \in [Pthreads -> 0..2]
    BY DEF Init
  <2> QED
    BY <2>1, <2>2, <2>3, <2>4 DEF Init, TypeOK
<1>2. Labelled
    BY DEF Init, Labelled, Pausing, Unpausing
<1> QED
    BY <1>1, <1>2

\* A pthread's step in terms of its own fields.
PthreadTypes ==
    /\ pt' \in [Pthreads -> PthreadLabels]
    /\ ret' \in [Pthreads -> {"none", "initial", "while", "sleep", "checkCancel"}]
    /\ finals' \in [Pthreads -> 0..2]
    /\ state' \in States /\ pauseSem' \in Nat /\ threadId' \in 0..MaxStarts
    /\ \A i \in Pthreads : i > handle => pt'[i] = "none"
    /\ \A i \in Pthreads : pt'[i] \in Pausing => ret'[i] # "none"

LEMMA PthreadStepTypes ==
    ASSUME Parameters, TypeOK, Labelled, NEW i \in Pthreads, PthreadStep(i)
    PROVE  PthreadTypes /\ ownerSide /\ UNCHANGED killed
<1> USE DEF TypeOK, Labelled, Pausing, PthreadTypes, jump
<1>1. ASSUME NEW from \in PthreadLabels \ {"none"}, NEW s \in States,
             NEW l \in PthreadLabels \ {"none", "pausing", "release"},
             l = "acquire" => from = "pausing", setState(i, from, s, l)
      PROVE  PthreadTypes /\ ownerSide /\ UNCHANGED killed
    BY <1>1 DEF setState
<1>2. ASSUME NEW from \in PthreadLabels \ {"none"}, NEW l \in {"initial", "while", "sleep", "checkCancel"},
             pauseCheck(i, from, l)
      PROVE  PthreadTypes /\ ownerSide /\ UNCHANGED killed
    BY <1>2 DEF pauseCheck, PthreadLabels
<1>3. ASSUME NEW from \in PthreadLabels \ {"none"},
             NEW l \in PthreadLabels \ {"none", "pausing", "acquire", "release"}, moveOn(i, from, l)
      PROVE  PthreadTypes /\ ownerSide /\ UNCHANGED killed
    BY <1>3 DEF moveOn
<1>4. CASE Starting(i)
    BY <1>4 DEF Starting, Pthreads, PthreadLabels, States, Alive, Parameters
<1>5. CASE PauseAcquire(i)
    BY <1>5 DEF PauseAcquire, PthreadLabels
<1>6. CASE PauseRelease(i)
    BY <1>6 DEF PauseRelease, PthreadLabels
<1>7. CASE Final(i)
    BY <1>7 DEF Final, callFinal, PthreadLabels
<1>8. CASE Killed(i)
    BY <1>8 DEF Killed, Active, PthreadLabels
<1>9. CASE Busy(i) \/ Sleeping(i) \/ DoPause(i) \/ Closing(i) \/ Dead(i)
    BY <1>1, <1>9 DEF Busy, Sleeping, DoPause, Closing, Dead, PthreadLabels, States, Alive
<1>10. CASE PauseBeforeInitial(i) \/ PauseAfterInitial(i) \/ PauseAfterRun(i) \/ StateCheckPause(i)
    BY <1>2, <1>10 DEF PauseBeforeInitial, PauseAfterInitial, PauseAfterRun, StateCheckPause, PthreadLabels
<1>11. CASE Initial(i) \/ While(i) \/ Run(i) \/ RunSelfTerminate(i) \/ AfterRun(i) \/ StateCheckCancel(i)
    BY <1>3, <1>11 DEF Initial, While, Run, RunSelfTerminate, AfterRun, StateCheckCancel, PthreadLabels
<1> QED
    BY <1>4, <1>5, <1>6, <1>7, <1>8, <1>9, <1>10, <1>11 DEF PthreadStep

\* What a step of the owner must keep, and what makes its types.
OwnerMoves ==
    /\ cpc' \in OwnerLabels /\ answer' \in {"none", "threw", "started", "done", "true", "timeout"}
    /\ cpc' \in {"startCheck", "startCreate"} => handle < MaxStarts
    /\ cpc' \in Unpausing => call' \in {"unpause", "cancel", "cancelWait", "terminate", "destroy"}
    /\ cpc' = "cancelSet" => call' \in {"cancel", "cancelWait"}
    /\ cpc' = "terminateSet" => call' \in {"terminate", "destroy"}
    /\ cpc' = "destroyCheck" => call' = "destroy"

LEMMA AfterUnpause ==
    ASSUME TypeOK, Labelled, cpc \in Unpausing, call' = call,
           afterUnpause \/ (cpc' \in Unpausing /\ UNCHANGED answer)
    PROVE  OwnerMoves
<1>1. call \in {"unpause", "cancel", "cancelWait", "terminate", "destroy"}
    BY DEF Labelled
<1>2. CASE afterUnpause
  <2>1. CASE call = "unpause"
    BY <1>2, <2>1 DEF afterUnpause, return, OwnerMoves, OwnerLabels, Unpausing
  <2>2. CASE call \in {"cancel", "cancelWait"}
    BY <1>2, <2>2 DEF afterUnpause, go, OwnerMoves, OwnerLabels, Unpausing, TypeOK
  <2>3. CASE call \in {"terminate", "destroy"}
    BY <1>2, <2>3 DEF afterUnpause, go, OwnerMoves, OwnerLabels, Unpausing, TypeOK
  <2> QED
    BY <1>1, <2>1, <2>2, <2>3
<1>3. CASE cpc' \in Unpausing /\ UNCHANGED answer
    BY <1>1, <1>3 DEF OwnerMoves, OwnerLabels, Unpausing, TypeOK
<1> QED
    BY <1>2, <1>3

LEMMA OwnerStepMoves ==
    ASSUME Parameters, TypeOK, Labelled, OwnerStep \/ \E c \in Calls : Call(c)
    PROVE  OwnerMoves
<1> USE DEF at, go, return
<1>1. ASSUME NEW c \in Calls, Call(c) PROVE OwnerMoves
    BY <1>1 DEF Call, Parameters, Methods, OwnerMoves, OwnerLabels, Unpausing
<1>2. CASE StartCheck \/ StartCreate
    BY <1>2 DEF StartCheck, StartCreate, OwnerMoves, OwnerLabels, Unpausing, TypeOK, Labelled
<1>3. CASE PauseSet \/ PauseTake
    BY <1>3 DEF PauseSet, PauseTake, OwnerMoves, OwnerLabels, Unpausing, TypeOK
<1>4. CASE UnpauseSet \/ UnpauseTest \/ UnpausePost
    BY <1>4, AfterUnpause DEF UnpauseSet, UnpauseTest, UnpausePost, Unpausing
<1>5. CASE CancelSet
    BY <1>5 DEF CancelSet, OwnerMoves, OwnerLabels, Unpausing, TypeOK
<1>6. CASE JoinCheck \/ JoinPoll \/ PthreadJoin
    BY <1>6 DEF JoinCheck, JoinPoll, PthreadJoin, joined, OwnerMoves, OwnerLabels, Unpausing, TypeOK
<1>7. CASE TerminateSet
    BY <1>7 DEF TerminateSet, OwnerMoves, OwnerLabels, Unpausing, TypeOK, Labelled
<1>8. CASE Kill \/ KillFinal \/ KillDead
    BY <1>8 DEF Kill, KillFinal, KillDead, OwnerMoves, OwnerLabels, Unpausing, TypeOK
<1>9. CASE DestroyCheck
    BY <1>9 DEF DestroyCheck, OwnerMoves, OwnerLabels, Unpausing, TypeOK, Labelled
<1> QED
    BY <1>1, <1>2, <1>3, <1>4, <1>5, <1>6, <1>7, <1>8, <1>9 DEF OwnerStep

\* The rest of the types.
LEMMA OwnerStepTypes ==
    ASSUME Parameters, TypeOK, Labelled, OwnerStep \/ \E c \in Calls : Call(c)
    PROVE  TypeOK' /\ Labelled'
<1> USE DEF at, handleVars, ptVars, threadSide
<1> DEFINE Same == UNCHANGED <<pt, ret, killed, finals, threadId, handle, state, pauseSem>>
<1>1. OwnerMoves
    BY OwnerStepMoves
<1>2. \/ Same
      \/ StartCreate \/ PauseTake \/ UnpausePost \/ Kill \/ KillFinal \/ KillDead
    BY DEF OwnerStep, Call, StartCheck, PauseSet, UnpauseSet, UnpauseTest, CancelSet, JoinCheck,
           JoinPoll, PthreadJoin, TerminateSet, DestroyCheck, joined, cleanUp
<1>3. /\ state' \in States /\ pauseSem' \in Nat /\ killed' \in [Pthreads -> BOOLEAN]
      /\ finals' \in [Pthreads -> 0..2] /\ threadId' = threadId /\ ret' = ret
  <2>1. CASE Same
    BY <2>1 DEF TypeOK
  <2>2. CASE StartCreate
    BY <2>2 DEF StartCreate, TypeOK
  <2>3. CASE PauseTake \/ UnpausePost
    BY <2>3 DEF PauseTake, UnpausePost, TypeOK
  <2>4. CASE Kill
    BY <2>4 DEF Kill, TypeOK
  <2>5. CASE KillFinal
    <3>1. finals' \in [Pthreads -> 0..2]
      <4>1. finals \in [Pthreads -> {0, 1, 2}]
        BY DEF TypeOK
      <4>2. finals' = [finals EXCEPT ![handle] = IF finals[handle] = 2 THEN 2 ELSE finals[handle] + 1]
        BY <2>5 DEF KillFinal, callFinal
      <4>3. CASE handle \in Pthreads
        BY <4>1, <4>2, <4>3
      <4>4. CASE handle \notin Pthreads
        <5>1. PICK n : finals' = [finals EXCEPT ![handle] = n]
            BY <4>2
        <5>2. finals' = finals
            BY ONLY <4>1, <4>4, <5>1
        <5> QED
            BY <4>1, <5>2
      <4> QED
        BY <4>3, <4>4
    <3> QED
        BY <2>5, <3>1 DEF KillFinal, TypeOK
  <2>6. CASE KillDead
    BY <2>6 DEF KillDead, States, TypeOK
  <2> QED
    BY <1>2, <2>1, <2>2, <2>3, <2>4, <2>5, <2>6
<1>4. /\ pt' \in [Pthreads -> PthreadLabels] /\ handle' \in 0..MaxStarts
      /\ \A i \in Pthreads : i > handle' => pt'[i] = "none"
      /\ \A i \in Pthreads : pt'[i] \in Pausing => pt'[i] = pt[i]
      /\ handle' = handle \/ cpc' = "owner"
  <2>1. CASE StartCreate
    <3>1. /\ handle \in Nat /\ handle < MaxStarts /\ handle' = handle + 1
          /\ pt' = [pt EXCEPT ![handle + 1] = "created"] /\ cpc' = "owner"
        BY <2>1 DEF StartCreate, jump, return, Labelled, TypeOK, Parameters
    <3> QED
        BY <3>1 DEF TypeOK, Pthreads, PthreadLabels, Pausing, Parameters
  <2>2. CASE ~StartCreate
    <3>1. UNCHANGED <<pt, handle>>
        BY <1>2, <2>2 DEF PauseTake, UnpausePost, Kill, KillFinal, KillDead, cleanUp
    <3> QED
        BY <3>1 DEF TypeOK
  <2> QED
    BY <2>1, <2>2
<1>5. /\ haveHandle' \in BOOLEAN /\ handleGone' \in BOOLEAN /\ doPause' \in BOOLEAN
      /\ doCancel' \in BOOLEAN /\ destroyed' \in BOOLEAN /\ missed' \in BOOLEAN
  <2>1. ASSUME cleanUp \/ UNCHANGED handleVars PROVE haveHandle' \in BOOLEAN /\ handleGone' \in BOOLEAN
    BY <2>1 DEF cleanUp, TypeOK
  <2>2. haveHandle' \in BOOLEAN /\ handleGone' \in BOOLEAN
    BY <2>1 DEF OwnerStep, Call, StartCheck, StartCreate, PauseSet, PauseTake, UnpauseSet, UnpauseTest,
        UnpausePost, CancelSet, JoinCheck, JoinPoll, PthreadJoin, TerminateSet, Kill, KillFinal,
        KillDead, DestroyCheck, joined, TypeOK
  <2>3. doPause' \in BOOLEAN /\ doCancel' \in BOOLEAN /\ destroyed' \in BOOLEAN
    BY DEF OwnerStep, Call, StartCheck, StartCreate, PauseSet, PauseTake, UnpauseSet, UnpauseTest,
        UnpausePost, CancelSet, JoinCheck, JoinPoll, PthreadJoin, TerminateSet, Kill, KillFinal,
        KillDead, DestroyCheck, pauseVars, TypeOK
  <2>4. missed' = missed \/ PauseTake
    BY DEF OwnerStep, Call, StartCheck, StartCreate, PauseSet, UnpauseSet, UnpauseTest,
        UnpausePost, CancelSet, JoinCheck, JoinPoll, PthreadJoin, TerminateSet, Kill, KillFinal,
        KillDead, DestroyCheck, pauseVars
  <2>5. missed' \in BOOLEAN
    BY <2>4 DEF PauseTake, TypeOK
  <2> QED
    BY <2>2, <2>3, <2>5
<1>6. call' \in Methods \cup {"none"}
    BY DEF OwnerStep, Call, StartCheck, StartCreate, PauseSet, PauseTake, UnpauseSet, UnpauseTest,
        UnpausePost, CancelSet, JoinCheck, JoinPoll, PthreadJoin, TerminateSet, Kill, KillFinal,
        KillDead, DestroyCheck, TypeOK, Parameters
<1>7. TypeOK'
    BY <1>1, <1>3, <1>4, <1>5, <1>6 DEF TypeOK, OwnerMoves
<1>8. Labelled'
    BY <1>1, <1>3, <1>4 DEF Labelled, OwnerMoves
<1> QED
    BY <1>7, <1>8

-----------------------------------------------------------------------------
(* A patient owner that does not kill                                      *)

LEMMA InitPatient == ASSUME Parameters, Init PROVE Spared /\ Running /\ Finals
BY DEF Init, Spared, Running, Finals, Active

LEMMA OwnerStepSpares ==
    ASSUME Parameters, Gentle, TypeOK, Labelled, Spared, OwnerStep \/ \E c \in Calls : Call(c)
    PROVE  Spared'
<1> USE DEF at, go, return
<1>1. ASSUME NEW c \in Calls, Call(c) PROVE Spared'
  <2>1. c \notin {"terminate", "destroy"} /\ c \in Methods
    BY DEF Gentle, Parameters
  <2>2. cpc' \notin {"terminateSet", "kill", "killFinal", "killDead", "destroyCheck"} /\ call' = c
    BY <1>1, <2>1 DEF Call, Methods
  <2>3. killed' = killed
    BY <1>1 DEF Call, ptVars
  <2> QED
    BY <2>1, <2>2, <2>3 DEF Spared
<1>2. CASE OwnerStep
  <2>1. ~TerminateSet /\ ~Kill /\ ~KillFinal /\ ~KillDead /\ ~DestroyCheck
    BY DEF Spared, TerminateSet, Kill, KillFinal, KillDead, DestroyCheck
  <2>2. call' = call /\ killed' = killed
    BY <1>2, <2>1 DEF OwnerStep, StartCheck, StartCreate, PauseSet, PauseTake, UnpauseSet, UnpauseTest,
        UnpausePost, CancelSet, JoinCheck, JoinPoll, PthreadJoin, threadSide, ptVars
  <2>3. CASE UnpauseSet \/ UnpauseTest \/ UnpausePost
    <3>1. call \in {"unpause", "cancel", "cancelWait"}
        BY <2>3 DEF UnpauseSet, UnpauseTest, UnpausePost, Labelled, Unpausing, Spared
    <3>2. cpc' \in {"owner", "cancelSet", "unpauseTest", "unpausePost"}
        BY <2>3, <3>1 DEF UnpauseSet, UnpauseTest, UnpausePost, afterUnpause
    <3> QED
        BY <2>2, <3>2 DEF Spared
  <2>4. CASE StartCheck \/ StartCreate \/ PauseSet \/ PauseTake \/ CancelSet \/ JoinCheck \/ JoinPoll
             \/ PthreadJoin
    <3>1. cpc' \in {"owner", "startCreate", "pauseTake", "joinCheck", "pthreadJoin", "joinPoll"}
        BY <2>4 DEF StartCheck, StartCreate, PauseSet, PauseTake, CancelSet, JoinCheck, JoinPoll,
            PthreadJoin, joined
    <3> QED
        BY <2>2, <3>1 DEF Spared
  <2> QED
    BY <1>2, <2>1, <2>3, <2>4 DEF OwnerStep
<1> QED
    BY <1>1, <1>2

\* What a step of a pthread that nobody kills does to its label and _state.
LEMMA PthreadGoes ==
    ASSUME TypeOK, Labelled, Spared, NEW i \in Pthreads, PthreadStep(i)
    PROVE  /\ Active(i)
           /\ \A j \in Pthreads : j # i => pt'[j] = pt[j]
           /\ pt'[i] \notin {"none", "created"}
           /\ state' = "DEAD" => pt'[i] = "exited" \/ (state = "DEAD" /\ pt[i] # "created")
           /\ pt'[i] = "dead" => pt[i] = "final"
           /\ pt[i] = "dead" => pt'[i] = "exited"
           /\ finals' = finals \/ Final(i)
<1> USE DEF jump, Active, TypeOK
<1>1. CASE Busy(i) \/ Sleeping(i) \/ DoPause(i) \/ Closing(i) \/ Dead(i)
    BY <1>1 DEF Busy, Sleeping, DoPause, Closing, Dead, setState
<1>2. CASE PauseBeforeInitial(i) \/ PauseAfterInitial(i) \/ PauseAfterRun(i) \/ StateCheckPause(i)
    BY <1>2 DEF PauseBeforeInitial, PauseAfterInitial, PauseAfterRun, StateCheckPause, pauseCheck
<1>3. CASE Initial(i) \/ While(i) \/ Run(i) \/ RunSelfTerminate(i) \/ AfterRun(i) \/ StateCheckCancel(i)
    BY <1>3 DEF Initial, While, Run, RunSelfTerminate, AfterRun, StateCheckCancel, moveOn
<1>4. CASE Starting(i)
    BY <1>4 DEF Starting
<1>5. CASE PauseAcquire(i) \/ PauseRelease(i)
    BY <1>5 DEF PauseAcquire, PauseRelease, Labelled, Pausing
<1>6. CASE Final(i)
    BY <1>6 DEF Final
<1>7. ~Killed(i)
    BY DEF Killed, Spared
<1> QED
    BY <1>1, <1>2, <1>3, <1>4, <1>5, <1>6, <1>7 DEF PthreadStep

LEMMA PthreadKeepsRunning ==
    ASSUME TypeOK, Labelled, Spared, Running, Finals, NEW i \in Pthreads, PthreadStep(i)
    PROVE  Running' /\ Finals'
<1>1. UNCHANGED <<handle, haveHandle, cpc, answer>>
    BY DEF PthreadStep, Starting, PauseBeforeInitial, Initial, PauseAfterInitial, While, Busy, Run,
        RunSelfTerminate, AfterRun, PauseAfterRun, Sleeping, StateCheckPause, StateCheckCancel, DoPause,
        PauseAcquire, PauseRelease, Closing, Final, Dead, Killed, setState, pauseCheck, moveOn, ownerSide,
        handleVars, ownerVars
<1>2. i = handle /\ haveHandle /\ cpc # "startCreate" /\ answer # "true"
    BY PthreadGoes DEF Running
<1>3. \A j \in Pthreads : j # i => ~Active(j)
    BY <1>2 DEF Running
<1>4. \A j \in Pthreads : j # i => pt'[j] \in {"none", "exited"}
    BY <1>3, PthreadGoes DEF Active
<1>5. state' = "DEAD" => pt'[i] = "exited"
    BY PthreadGoes DEF Running
<1>6. Running'
    BY <1>1, <1>2, <1>4, <1>5, PthreadGoes DEF Running, Active
<1>7. Finals'
  <2>1. CASE finals' = finals
    BY <2>1, PthreadGoes DEF Finals, Active
  <2>2. CASE Final(i)
    BY <2>2 DEF Final, callFinal, jump, Finals, TypeOK
  <2> QED
    BY <2>1, <2>2, PthreadGoes
<1> QED
    BY <1>6, <1>7

\* The owner's steps of a patient owner, each in terms of the fields it changes.
LEMMA CallKeeps ==
    ASSUME Patient, TypeOK, Running, Finals, NEW c \in Methods, Call(c)
    PROVE  Running' /\ Finals'
<1>1. UNCHANGED <<state, handle, haveHandle, pt, finals>> /\ answer' = "none"
    BY DEF Call, handleVars, ptVars
<1>2. cpc = "owner" /\ CaughtUp(c)
    BY DEF Call, at
<1>3. cpc' \in {"startCheck", "pauseSet", "unpauseSet", "joinCheck", "terminateSet", "destroyCheck"}
    BY DEF Call, go, Methods
<1> QED
    BY <1>1, <1>2, <1>3 DEF CaughtUp, Running, Finals, Active

LEMMA StartKeeps ==
    ASSUME Parameters, TypeOK, Labelled, Running, Finals, StartCheck \/ StartCreate
    PROVE  Running' /\ Finals'
<1>1. cpc # "owner" /\ \A i \in Pthreads : pt[i] # "created"
    BY DEF StartCheck, StartCreate, at, Running
<1>2. state = "DEAD" => \A i \in Pthreads : ~Active(i)
    BY <1>1 DEF Running
<1>3. CASE StartCheck
  <2>1. UNCHANGED <<state, handle, pt, finals>> /\ cpc = "startCheck"
    BY <1>3 DEF StartCheck, threadSide, ptVars, cleanUp, handleVars, at
  <2>2. \/ cpc' = "owner" /\ answer' = "threw" /\ haveHandle' = haveHandle
        \/ cpc' = "startCreate" /\ answer' = answer /\ (haveHandle => state = "DEAD")
    BY <1>3 DEF StartCheck, return, go, handleVars
  <2>3. cpc' = "startCreate" => state = "DEAD"
    BY <2>2 DEF Running
  <2>4. Running' /\ Finals'
    BY <1>1, <1>2, <2>1, <2>2, <2>3 DEF Running, Finals, Active
  <2> QED
    BY <2>4
<1>4. CASE StartCreate
  <2>1. /\ UNCHANGED <<state, finals>>
        /\ haveHandle' = TRUE /\ cpc' = "owner" /\ answer' = "started" /\ cpc = "startCreate"
        /\ handle' = handle + 1 /\ pt' = [pt EXCEPT ![handle + 1] = "created"]
    BY <1>4 DEF StartCreate, at, return, jump
  <2>2. state = "DEAD" /\ \A i \in Pthreads : ~Active(i)
    BY <2>1 DEF Running
  <2>3. handle' \in Pthreads /\ handle' > handle
    BY <2>1 DEF Labelled, TypeOK, Parameters, Pthreads
  <2>4. pt'[handle'] = "created" /\ \A i \in Pthreads : i # handle' => pt'[i] = pt[i]
    BY <2>1, <2>3 DEF TypeOK
  <2>5. pt[handle'] = "none"
    BY <2>3 DEF TypeOK
  <2>6. Running'
    BY <2>1, <2>2, <2>3, <2>4 DEF Running, Active
  <2>7. Finals'
    BY <2>1, <2>3, <2>4, <2>5 DEF Finals
  <2> QED
    BY <2>6, <2>7
<1> QED
    BY <1>3, <1>4

LEMMA PauseKeeps ==
    ASSUME TypeOK, Running, Finals, PauseSet \/ PauseTake
    PROVE  Running' /\ Finals'
<1>1. cpc \in {"pauseSet", "pauseTake"} /\ UNCHANGED <<state, handle, haveHandle, pt, finals>>
    BY DEF PauseSet, PauseTake, threadSide, handleVars, ptVars, at
<1>2. cpc' \in {"owner", "pauseTake"} /\ answer' \in {answer, "done"}
    BY DEF PauseSet, PauseTake, return, go
<1> QED
    BY <1>1, <1>2 DEF Running, Finals, Active

LEMMA UnpauseKeeps ==
    ASSUME TypeOK, Labelled, Spared, Running, Finals, UnpauseSet \/ UnpauseTest \/ UnpausePost
    PROVE  Running' /\ Finals'
<1>1. cpc \in Unpausing /\ UNCHANGED <<state, handle, haveHandle, pt, finals>>
    BY DEF UnpauseSet, UnpauseTest, UnpausePost, threadSide, handleVars, ptVars, at, Unpausing
<1>2. call \in {"unpause", "cancel", "cancelWait"}
    BY <1>1 DEF Labelled, Spared
<1>3. ASSUME afterUnpause PROVE cpc' \in {"owner", "cancelSet"} /\ answer' \in {answer, "done"}
    BY <1>2, <1>3 DEF afterUnpause, return, go
<1>4. cpc' \in {"owner", "cancelSet", "unpauseTest", "unpausePost"} /\ answer' \in {answer, "done"}
    BY <1>3 DEF UnpauseSet, UnpauseTest, UnpausePost, go
<1>5. \A i \in Pthreads : pt[i] # "created"
    BY <1>1 DEF Running, Unpausing
<1> QED
    BY <1>1, <1>4, <1>5 DEF Running, Finals, Active

LEMMA JoinKeeps ==
    ASSUME TypeOK, Running, Finals, CancelSet \/ JoinCheck \/ JoinPoll \/ PthreadJoin
    PROVE  Running' /\ Finals'
<1>1. /\ cpc \in {"cancelSet", "joinCheck", "joinPoll", "pthreadJoin"}
      /\ UNCHANGED <<state, handle, pt, finals>>
      /\ cpc' \in {"owner", "joinCheck", "joinPoll", "pthreadJoin"}
    BY DEF CancelSet, JoinCheck, JoinPoll, PthreadJoin, threadSide, handleVars, ptVars, at, go, return,
        joined, cleanUp
<1>2. \A i \in Pthreads : pt[i] # "created"
    BY <1>1 DEF Running
<1>3. state = "DEAD" => \A i \in Pthreads : ~Active(i)
    BY <1>2 DEF Running
<1>4. \/ answer' \in {answer, "done", "timeout"} /\ haveHandle' = haveHandle
      \/ answer' = "true" /\ state = "DEAD"
      \/ answer' = "true" /\ ~Active(handle) /\ haveHandle' = haveHandle
    BY DEF CancelSet, JoinCheck, JoinPoll, PthreadJoin, handleVars, return, go, joined
<1>5. answer' = "true" => \A i \in Pthreads : ~Active(i)
    BY <1>3, <1>4 DEF Running
<1>6. ~haveHandle' => state = "DEAD"
    BY <1>4 DEF Running
<1>7. \A i \in Pthreads : Active(i) => haveHandle'
    BY <1>3, <1>4 DEF Running
<1> QED
    BY <1>1, <1>2, <1>5, <1>6, <1>7 DEF Running, Finals, Active

-----------------------------------------------------------------------------
(* The pause semaphore, for every owner                                    *)

\* Every step of a pthread but the two of _doPause leaves the permit alone.
LEMMA PthreadAndPermit ==
    ASSUME TypeOK, Labelled, NEW i \in Pthreads, PthreadStep(i)
    PROVE  /\ UNCHANGED <<doPause, missed, cpc>>
           /\ \A j \in Pthreads : j # i => pt'[j] = pt[j]
           /\ \/ PauseAcquire(i) \/ PauseRelease(i)
              \/ pauseSem' = pauseSem /\ pt'[i] # "release"
<1> USE DEF jump, TypeOK
<1>1. UNCHANGED <<doPause, missed, cpc>>
    BY DEF PthreadStep, Starting, PauseBeforeInitial, Initial, PauseAfterInitial, While, Busy, Run,
        RunSelfTerminate, AfterRun, PauseAfterRun, Sleeping, StateCheckPause, StateCheckCancel, DoPause,
        PauseAcquire, PauseRelease, Closing, Final, Dead, Killed, setState, pauseCheck, moveOn, ownerSide,
        ownerVars, pauseVars
<1>2. CASE Busy(i) \/ Sleeping(i) \/ DoPause(i) \/ Closing(i) \/ Dead(i)
    BY <1>1, <1>2 DEF Busy, Sleeping, DoPause, Closing, Dead, setState
<1>3. CASE PauseBeforeInitial(i) \/ PauseAfterInitial(i) \/ PauseAfterRun(i) \/ StateCheckPause(i)
    BY <1>1, <1>3 DEF PauseBeforeInitial, PauseAfterInitial, PauseAfterRun, StateCheckPause, pauseCheck
<1>4. CASE Initial(i) \/ While(i) \/ Run(i) \/ RunSelfTerminate(i) \/ AfterRun(i) \/ StateCheckCancel(i)
    BY <1>1, <1>4 DEF Initial, While, Run, RunSelfTerminate, AfterRun, StateCheckCancel, moveOn
<1>5. CASE Starting(i) \/ Final(i) \/ Killed(i)
    BY <1>1, <1>5 DEF Starting, Final, Killed
<1>6. CASE PauseAcquire(i) \/ PauseRelease(i)
    BY <1>1, <1>6 DEF PauseAcquire, PauseRelease
<1> QED
    BY <1>2, <1>3, <1>4, <1>5, <1>6 DEF PthreadStep

LEMMA PthreadKeepsPauses ==
    ASSUME TypeOK, Labelled, Pauses, NEW i \in Pthreads, PthreadStep(i)
    PROVE  Pauses'
<1>1. /\ UNCHANGED <<doPause, missed, cpc>> /\ pt \in [Pthreads -> PthreadLabels] /\ pauseSem \in Nat
      /\ \A j \in Pthreads : j # i => pt'[j] = pt[j]
    BY PthreadAndPermit DEF TypeOK
<1>2. CASE pauseSem' = pauseSem /\ pt'[i] # "release"
    BY <1>1, <1>2 DEF Pauses, Shut
<1>3. CASE PauseAcquire(i)
  <2>1. pauseSem > 0 /\ pauseSem' = pauseSem - 1
    BY <1>3 DEF PauseAcquire
  <2>2. ~Shut
    BY <2>1 DEF Shut
  <2> QED
    BY <1>1, <2>1, <2>2 DEF Pauses
<1>4. CASE PauseRelease(i)
  <2>1. pt[i] = "release" /\ pauseSem' = pauseSem + 1 /\ pt'[i] # "release"
    BY <1>1, <1>4 DEF PauseRelease, jump, TypeOK
  <2>2. ~Shut
    BY <2>1 DEF Shut
  <2> QED
    BY <1>1, <2>1, <2>2 DEF Pauses
<1> QED
    BY <1>2, <1>3, <1>4, PthreadAndPermit

\* No step of the owner puts a pthread behind the acquire().
LEMMA OwnerLeavesPermit ==
    ASSUME TypeOK, OwnerStep \/ \E c \in Calls : Call(c)
    PROVE  \A i \in Pthreads : pt'[i] = "release" <=> pt[i] = "release"
<1>1. \/ pt' = pt
      \/ StartCreate
    BY DEF OwnerStep, Call, StartCheck, PauseSet, PauseTake, UnpauseSet, UnpauseTest, UnpausePost,
        CancelSet, JoinCheck, JoinPoll, PthreadJoin, TerminateSet, Kill, KillFinal, KillDead, DestroyCheck,
        threadSide, ptVars
<1>2. CASE StartCreate
  <2>1. pt' = [pt EXCEPT ![handle + 1] = "created"]
    BY <1>2 DEF StartCreate, jump
  <2>2. handle + 1 \in Pthreads => pt[handle + 1] = "none"
    BY DEF TypeOK, Pthreads
  <2> QED
    BY <2>1, <2>2 DEF TypeOK
<1> QED
    BY <1>1, <1>2

LEMMA OwnerKeepsPauses ==
    ASSUME Parameters, TypeOK, Labelled, Pauses, OwnerStep \/ \E c \in Calls : Call(c)
    PROVE  Pauses'
<1> USE DEF at, go, return
<1>1. \A i \in Pthreads : pt'[i] = "release" <=> pt[i] = "release"
    BY OwnerLeavesPermit
<1>2. pauseSem \in Nat
    BY DEF TypeOK
<1>3. CASE PauseSet
  <2>1. /\ UNCHANGED <<missed, pauseSem>> /\ doPause' /\ cpc = "pauseSet"
        /\ cpc' \in {"owner", "pauseTake"} /\ (cpc' = "owner" => doPause)
    BY <1>3 DEF PauseSet, threadSide
  <2> QED
    BY <1>1, <2>1 DEF Pauses, Shut
<1>4. CASE PauseTake
  <2>1. /\ pauseSem' = IF pauseSem > 0 THEN pauseSem - 1 ELSE 0
        /\ missed' = (missed \/ \E i \in Pthreads : pt[i] = "release") /\ cpc' = "owner"
    BY <1>4 DEF PauseTake
  <2>2. ASSUME ~missed' PROVE pauseSem' = 0 /\ \A i \in Pthreads : pt[i] # "release"
    <3>1. ~missed /\ \A i \in Pthreads : pt[i] # "release"
        BY <2>1, <2>2
    <3>2. pauseSem <= 1
        BY <3>1 DEF Pauses
    <3> QED
        BY <1>2, <2>1, <3>1, <3>2
  <2> QED
    BY <1>1, <2>1, <2>2 DEF Pauses, Shut
<1>5. CASE UnpauseSet
  <2>1. UNCHANGED <<missed, pauseSem>> /\ ~doPause' /\ cpc = "unpauseSet"
    BY <1>5 DEF UnpauseSet, threadSide
  <2>2. ~doPause => cpc' \notin {"unpauseTest", "unpausePost"}
    BY <1>5, <2>1 DEF UnpauseSet, afterUnpause, Labelled, Unpausing
  <2> QED
    BY <1>1, <2>1, <2>2 DEF Pauses, Shut
<1>6. CASE UnpauseTest
  <2>1. UNCHANGED <<missed, pauseSem, doPause>> /\ cpc = "unpauseTest"
    BY <1>6 DEF UnpauseTest, threadSide, pauseVars
  <2> QED
    BY <1>1, <2>1 DEF Pauses, Shut
<1>7. CASE UnpausePost
  <2>1. UNCHANGED <<missed, doPause>> /\ cpc = "unpausePost" /\ pauseSem' = pauseSem + 1
    BY <1>7 DEF UnpausePost, pauseVars
  <2>2. cpc' \in {"owner", "cancelSet", "kill"}
    BY <1>7, <2>1 DEF UnpausePost, afterUnpause, Labelled, Unpausing
  <2> QED
    BY <1>1, <2>1, <2>2 DEF Pauses, Shut
<1>8. CASE ~(PauseSet \/ PauseTake \/ UnpauseSet \/ UnpauseTest \/ UnpausePost)
  <2>1. UNCHANGED <<missed, doPause, pauseSem>> /\ cpc # "pauseTake"
    BY <1>8 DEF OwnerStep, Call, StartCheck, StartCreate, CancelSet, JoinCheck, JoinPoll, PthreadJoin,
        TerminateSet, Kill, KillFinal, KillDead, DestroyCheck, threadSide, pauseVars
  <2>2. cpc' \notin {"unpauseTest", "unpausePost"}
    BY <1>8 DEF OwnerStep, Call, StartCheck, StartCreate, CancelSet, JoinCheck, JoinPoll, PthreadJoin,
        TerminateSet, Kill, KillFinal, KillDead, DestroyCheck, joined, Parameters, Methods
  <2> QED
    BY <1>1, <2>1, <2>2 DEF Pauses, Shut
<1> QED
    BY <1>3, <1>4, <1>5, <1>6, <1>7, <1>8

-----------------------------------------------------------------------------
(* The theorems                                                            *)

LEMMA IInvHolds == ASSUME Parameters, IInv, [Next]_vars PROVE IInv'
<1>1. CASE UNCHANGED vars
    BY <1>1 DEF vars, IInv, TypeOK, Labelled, Spared, Running, Finals, Pauses, Shut, Active, pauseVars
<1>2. ASSUME NEW i \in Pthreads, PthreadStep(i) PROVE IInv'
  <2>1. PthreadTypes /\ ownerSide /\ UNCHANGED killed
    BY <1>2, PthreadStepTypes DEF IInv
  <2>2. TypeOK' /\ Labelled'
    BY <2>1 DEF IInv, PthreadTypes, ownerSide, handleVars, ownerVars, pauseVars, TypeOK, Labelled
  <2>3. ASSUME Patient, Gentle PROVE (Spared /\ Running /\ Finals)'
    <3>1. Spared'
        BY <2>1, <2>3 DEF IInv, Spared, ownerSide, ownerVars
    <3> QED
        BY <1>2, <2>3, <3>1, PthreadKeepsRunning DEF IInv
  <2>4. Pauses'
    BY <1>2, PthreadKeepsPauses DEF IInv
  <2> QED
    BY <2>2, <2>3, <2>4 DEF IInv, Gentle
<1>3. CASE OwnerStep \/ \E c \in Calls : Call(c)
  <2>1. TypeOK' /\ Labelled'
    BY <1>3, OwnerStepTypes DEF IInv
  <2>2. ASSUME Patient, Gentle PROVE (Spared /\ Running /\ Finals)'
    <3>1. Spared'
        BY <1>3, <2>2, OwnerStepSpares DEF IInv
    <3>2. ASSUME NEW c \in Calls, Call(c) PROVE Running' /\ Finals'
        BY <2>2, <3>2, CallKeeps DEF IInv, Parameters
    <3>3. CASE OwnerStep
        <4>1. ~TerminateSet /\ ~Kill /\ ~KillFinal /\ ~KillDead /\ ~DestroyCheck
            BY <2>2 DEF IInv, Spared, TerminateSet, Kill, KillFinal, KillDead, DestroyCheck, at
        <4>2. TypeOK /\ Labelled /\ Spared /\ Running /\ Finals
            BY <2>2 DEF IInv
        <4>3. CASE StartCheck \/ StartCreate
            BY <3>1, <4>2, <4>3, StartKeeps
        <4>4. CASE PauseSet \/ PauseTake
            BY <3>1, <4>2, <4>4, PauseKeeps
        <4>5. CASE UnpauseSet \/ UnpauseTest \/ UnpausePost
            BY <3>1, <4>2, <4>5, UnpauseKeeps
        <4>6. CASE CancelSet \/ JoinCheck \/ JoinPoll \/ PthreadJoin
            BY <3>1, <4>2, <4>6, JoinKeeps
        <4> QED
            BY <3>3, <4>1, <4>3, <4>4, <4>5, <4>6 DEF OwnerStep
    <3> QED
        BY <1>3, <3>1, <3>2, <3>3
  <2>3. Pauses'
    BY <1>3, OwnerKeepsPauses DEF IInv
  <2> QED
    BY <2>1, <2>2, <2>3 DEF IInv, Gentle
<1> QED
    BY <1>1, <1>2, <1>3 DEF Next

LEMMA InvariantAlways == ASSUME Parameters PROVE Spec => []IInv
<1>1. Init => IInv
  <2>1. Init => Pauses
    BY DEF Init, Pauses
  <2> QED
    BY <2>1, InitTypes, InitPatient DEF IInv
<1>2. IInv /\ [Next]_vars => IInv'
    BY IInvHolds
<1> QED
    BY <1>1, <1>2, PTL DEF Spec

(* Whatever the owner calls, the object's fields stay in their types and  *)
(* the pause semaphore is binary until a pause() misses the permit; an     *)
(* owner that lets the thread catch up and never kills it has one pthread  *)
(* at a time on the object, one final() for each start(), and nothing      *)
(* running once join() or cancel(milsec) succeeded (Thread.cpp:160-306).   *)
THEOREM ThreadStaysRight == ASSUME Parameters PROVE Spec => []ThreadRight
<1>1. IInv => ThreadRight
  <2> SUFFICES ASSUME IInv PROVE ThreadRight
    OBVIOUS
  <2>1. ASSUME Patient, Gentle PROVE OnePthread /\ FinalOnce /\ JoinMeansExited
    <3>1. OnePthread
        BY <2>1 DEF IInv, Running, OnePthread
    <3>2. FinalOnce
        BY <2>1 DEF IInv, Finals, FinalOnce
    <3>3. JoinMeansExited
        BY <2>1 DEF IInv, Running, JoinMeansExited
    <3> QED
        BY <3>1, <3>2, <3>3
  <2>2. PauseSemBinary
    BY DEF IInv, Pauses, PauseSemBinary
  <2> QED
    BY <2>1, <2>2 DEF IInv, ThreadRight
<1> QED
    BY <1>1, InvariantAlways, PTL

(* A pause that got the permit holds, whatever the owner calls and         *)
(* whenever: the thread does not get through the semaphore of _doPause     *)
(* before an unpause() (Thread.cpp:186, 301).                              *)
THEOREM PauseIsKept == ASSUME Parameters PROVE Spec => PauseHolds
<1> DEFINE Holds == \A i \in Pthreads : Held => ~(pt[i] = "acquire" /\ pt'[i] = "release")
<1>1. IInv /\ [Next]_vars => [Holds]_vars
  <2> SUFFICES ASSUME IInv, Next, NEW i \in Pthreads, Held, pt[i] = "acquire", pt'[i] = "release"
               PROVE  FALSE
    BY DEF Holds
  <2>1. TypeOK /\ Labelled /\ Pauses
    BY DEF IInv
  <2>2. PICK j \in Pthreads : PthreadStep(j)
    BY <2>1, OwnerLeavesPermit DEF Next
  <2>3. PauseAcquire(i)
    BY <2>1, <2>2, PthreadAndPermit DEF PauseRelease
  <2> QED
    BY <2>1, <2>3 DEF PauseAcquire, Held, at, Pauses, Shut
<1>2. Spec => []IInv
    BY InvariantAlways
<1>3. Spec => [][Holds]_vars
    BY <1>1, <1>2, PTL DEF Spec
<1> QED
    BY <1>3 DEF PauseHolds
=============================================================================
