------------------------------- MODULE MCBase -------------------------------
(***************************************************************************)
(* The classes the others are built from, for TLC: threads and their pool, *)
(* and the dictionary behind Map.  One run looks at each of them by        *)
(* itself: part says which one a behaviour is about, and the variables of  *)
(* the others stay as they are.  Thread has a patient owner, with the      *)
(* constants of the cfg, and one that calls at any time and also           *)
(* terminates; ThreadPool has two callers with any timing.                 *)
(***************************************************************************)
EXTENDS Thread

\* What callers put in a dictionary, Value(), and the answers of its calls.
CONSTANTS DictValue, DictDefault, DictYes, DictNo, DictThrew, DictDone

CONSTANT Colliding   \* have two of the keys the same hash, as two strings may?

Hashes == [k \in 1..5 |-> IF Colliding /\ k = 5 THEN 4 ELSE k]

VARIABLES part,
          hardState, hardThreadId, hardHandle, hardHaveHandle, hardHandleGone,
          hardDoPause, hardDoCancel, hardPauseSem, hardMissed, hardPt, hardRet,
          hardKilled, hardFinals, hardCpc, hardCall, hardAnswer,
          hardDestroyed,
          crowdSize, crowdAvailable, crowdBusy, crowdBlocker, crowdWaiter,
          crowdLockOwner, crowdRunnable, crowdState, crowdDoPause,
          crowdPauseSem, crowdWpc, crowdWret, crowdPc, crowdGot, crowdArg,
          crowdWaits, crowdOwed, crowdSubmitted, crowdRan, crowdCrashed,
          dict, dictAnswer

threadVars == vars
hardVars == <<hardState, hardThreadId, hardHandle, hardHaveHandle,
              hardHandleGone, hardDoPause, hardDoCancel, hardPauseSem, hardMissed, hardPt,
              hardRet, hardKilled, hardFinals, hardCpc, hardCall, hardAnswer,
              hardDestroyed>>
crowdVars == <<crowdSize, crowdAvailable, crowdBusy, crowdBlocker,
               crowdWaiter, crowdLockOwner, crowdRunnable, crowdState,
               crowdDoPause, crowdPauseSem, crowdWpc, crowdWret, crowdPc,
               crowdGot, crowdArg, crowdWaits, crowdOwed, crowdSubmitted,
               crowdRan, crowdCrashed>>
dictVars == <<dict, dictAnswer>>
baseVars == <<part, threadVars, hardVars, crowdVars, dictVars>>

Hard == INSTANCE Thread
    WITH MaxStarts <- 1,
         Calls <- {"start", "pause", "unpause", "cancel", "terminate", "destroy"},
         Patient <- FALSE, state <- hardState, threadId <- hardThreadId,
         handle <- hardHandle, haveHandle <- hardHaveHandle,
         handleGone <- hardHandleGone, doPause <- hardDoPause,
         doCancel <- hardDoCancel, pauseSem <- hardPauseSem,
         missed <- hardMissed, pt <- hardPt,
         ret <- hardRet, killed <- hardKilled, finals <- hardFinals,
         cpc <- hardCpc, call <- hardCall, answer <- hardAnswer,
         destroyed <- hardDestroyed
Crowd == INSTANCE ThreadPool
    WITH Callers <- {"c1", "c2"}, MaxWaits <- 0, Prompt <- FALSE,
         Tasks <- {"t1", "t2"}, NoTask <- "none", MaxSize <- 1, MinSize <- 1,
         Reluctant <- {}, size <- crowdSize, available <- crowdAvailable,
         busy <- crowdBusy, blocker <- crowdBlocker, waiter <- crowdWaiter,
         lockOwner <- crowdLockOwner, runnable <- crowdRunnable,
         state <- crowdState, doPause <- crowdDoPause,
         pauseSem <- crowdPauseSem, wpc <- crowdWpc, wret <- crowdWret,
         pc <- crowdPc, got <- crowdGot, arg <- crowdArg, waits <- crowdWaits,
         owed <- crowdOwed, submitted <- crowdSubmitted, ran <- crowdRan,
         crashed <- crowdCrashed

Dict == INSTANCE Dictionary
    WITH Keys <- 1..5, Values <- {DictValue}, Hash <- Hashes,
         Default <- DictDefault, Yes <- DictYes, No <- DictNo,
         Threw <- DictThrew, Done <- DictDone,
         answer <- dictAnswer

BaseInit ==
    /\ part \in {"patient", "hard", "crowd", "dict"}
    /\ Init
    /\ Hard!Init
    /\ Crowd!Init
    /\ Dict!Init

BaseNext ==
    \/ part = "patient" /\ Next /\ UNCHANGED <<part, hardVars, crowdVars,
            dictVars>>
    \/ part = "hard" /\ Hard!Next /\ UNCHANGED <<part, threadVars, crowdVars,
            dictVars>>
    \/ part = "crowd" /\ Crowd!Next /\ UNCHANGED <<part, threadVars,
            hardVars, dictVars>>
    \/ part = "dict" /\ Dict!Next /\ UNCHANGED <<part, threadVars, hardVars,
            crowdVars>>

\* Threads are scheduled and the hooks return.
BaseSpec ==
    /\ BaseInit /\ [][BaseNext]_baseVars
    /\ WF_threadVars(part = "patient" /\ OwnerStep)
    /\ WF_hardVars(part = "hard" /\ Hard!OwnerStep)
    /\ \A i \in Pthreads : WF_threadVars(part = "patient" /\ PthreadStep(i))
    /\ \A i \in Hard!Pthreads :
           /\ WF_hardVars(part = "hard" /\ Hard!PthreadStep(i))
           /\ WF_hardVars(part = "hard" /\ Hard!Killed(i))

-----------------------------------------------------------------------------
(* A cancelled thread ends, and so does a terminated one, even when its    *)
(* pause or its cancellation went unnoticed (Thread.cpp:214, 245).         *)
StopsInTheEnd ==
    /\ CancelStops
    /\ Hard!TerminateEndsThread

(* Two callers may confuse the pauses and the semaphores of a pool, but a  *)
(* thread is in exactly one of its vectors and no task runs twice          *)
(* (ThreadPool.cpp:81-137).                                                *)
CrowdRight == Crowd!PoolRight

(* However entries come and go, the list and the tree of a Dictionary hold *)
(* the same ones, every pointer has its counterpart and no red entry has a *)
(* red child (Dictionary.h:427, 487, 624, 681).                            *)
WellFormed == Dict!WellFormed

(* A Dictionary is a map: every lookup through the tree answers what the   *)
(* entries in the list say of the key.  It compares hashes only, so this   *)
(* holds for keys whose hashes differ (Map.h:33-47, Dictionary.h:36-40,    *)
(* 387).                                                                   *)
ImplementsMap == Dict!ImplementsMap
=============================================================================
