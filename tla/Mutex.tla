------------------------------- MODULE Mutex -------------------------------
(***************************************************************************)
(* SRL::System::Mutex on POSIX (cpp/src/sys/Mutex.cpp): a recursive        *)
(* pthread mutex wrapped with the fields _thread_id, _is_locked and        *)
(* _counter.  lock(), tryLock() and unlock() all test _thread_id without   *)
(* any synchronisation to decide whether the pthread mutex has to be       *)
(* taken, so every read and write of a field is a step of its own and all  *)
(* the threads interleave between them.                                    *)
(***************************************************************************)
EXTENDS Naturals, TLAPS

CONSTANTS Threads,      \* the threads that share the mutex
          NULL_THREAD,  \* the THREAD_ID of no thread
          MaxDepth      \* bound on the recursion depth of one client

ASSUME ThreadsAssumption == NULL_THREAD \notin Threads
ASSUME DepthAssumption == MaxDepth \in Nat \ {0}

VARIABLES threadId,   \* _thread_id
          isLocked,   \* _is_locked
          counter,    \* _counter
          pmutex,     \* _pmutex: the pthread mutex, its owner and its count
          pc,         \* where each thread is in the code of the class
          op,         \* the method each thread is in, or was in last
          held        \* lock()s that returned minus unlock()s that took effect

fields == <<threadId, isLocked, counter>>
vars == <<threadId, isLocked, counter, pmutex, pc, op, held>>

LockOps == {"lock", "tryLock", "tryLockTimed"}

Labels == {"client", "readOwner", "pthreadLock", "writeOwner", "enter",
           "unlockReadOwner", "unlockCount", "unlockClear", "unlockRelease"}

goto(t, label) == pc' = [pc EXCEPT ![t] = label]

\* Mutex::Mutex
Init ==
    /\ threadId = NULL_THREAD
    /\ isLocked = FALSE
    /\ counter = 0
    /\ pmutex = [owner |-> NULL_THREAD, count |-> 0]
    /\ pc = [t \in Threads |-> "client"]
    /\ op = [t \in Threads |-> "unlock"]
    /\ held = [t \in Threads |-> 0]

-----------------------------------------------------------------------------
(* The external pthread mutex of type PTHREAD_MUTEX_RECURSIVE.             *)

pthread_free_for(t) == pmutex.owner \in {NULL_THREAD, t}

pthread_take(t) == pmutex' = [owner |-> t, count |-> pmutex.count + 1]

\* An unlock by a thread that is not the owner fails with EPERM, which the
\* code ignores.
pthread_drop(t) ==
    pmutex' = IF pmutex.owner # t THEN pmutex
              ELSE IF pmutex.count = 1 THEN [owner |-> NULL_THREAD, count |-> 0]
              ELSE [pmutex EXCEPT !.count = @ - 1]

-----------------------------------------------------------------------------
(* lock(), tryLock() and tryLock(milsec)                                   *)

\* A client calls one of the three; MaxDepth bounds how deep it recurses.
CallLock(t) ==
    /\ pc[t] = "client"
    /\ held[t] < MaxDepth
    /\ \E o \in LockOps : op' = [op EXCEPT ![t] = o]
    /\ goto(t, "readOwner")
    /\ UNCHANGED <<fields, pmutex, held>>

\* Faulty: any owner counts as oneself.
ReadOwner_AnyOwner(t) ==
    /\ pc[t] = "readOwner"
    /\ goto(t, IF threadId = NULL_THREAD THEN "pthreadLock" ELSE "enter")
    /\ UNCHANGED <<fields, pmutex, op, held>>

\* Faulty: the WIN32 branch's unconditional lock with the POSIX unlock.
ReadOwner_AlwaysLock(t) ==
    /\ pc[t] = "readOwner"
    /\ goto(t, "pthreadLock")
    /\ UNCHANGED <<fields, pmutex, op, held>>

\* if (_thread_id != id): the unsynchronised read.
ReadOwner(t) ==
    /\ pc[t] = "readOwner"
    /\ goto(t, IF threadId # t THEN "pthreadLock" ELSE "enter")
    /\ UNCHANGED <<fields, pmutex, op, held>>

\* pthread_mutex_lock blocks, pthread_mutex_trylock succeeds, when it can.
PthreadLock(t) ==
    /\ pc[t] = "pthreadLock"
    /\ pthread_free_for(t)
    /\ pthread_take(t)
    /\ goto(t, "writeOwner")
    /\ UNCHANGED <<fields, op, held>>

\* pthread_mutex_trylock answers EBUSY: tryLock returns false, and
\* tryLock(milsec) either has time left and starts again or returns false.
PthreadBusy(t) ==
    /\ pc[t] = "pthreadLock"
    /\ op[t] # "lock"
    /\ ~pthread_free_for(t)
    /\ \/ goto(t, "client")
       \/ op[t] = "tryLockTimed" /\ goto(t, "readOwner")
    /\ UNCHANGED <<fields, pmutex, op, held>>

\* Faulty: the owner is never recorded.
WriteOwner_Missing(t) ==
    /\ pc[t] = "writeOwner"
    /\ goto(t, "enter")
    /\ UNCHANGED <<fields, pmutex, op, held>>

\* _thread_id = id;
WriteOwner(t) ==
    /\ pc[t] = "writeOwner"
    /\ threadId' = t
    /\ goto(t, "enter")
    /\ UNCHANGED <<isLocked, counter, pmutex, op, held>>

\* _is_locked = true; ++_counter; and the method returns.
Enter(t) ==
    /\ pc[t] = "enter"
    /\ isLocked' = TRUE
    /\ counter' = counter + 1
    /\ held' = [held EXCEPT ![t] = @ + 1]
    /\ goto(t, "client")
    /\ UNCHANGED <<threadId, pmutex, op>>

-----------------------------------------------------------------------------
(* unlock()                                                                *)

\* Any thread may call it, also one that does not hold the mutex.
CallUnlock(t) ==
    /\ pc[t] = "client"
    /\ op' = [op EXCEPT ![t] = "unlock"]
    /\ goto(t, "unlockReadOwner")
    /\ UNCHANGED <<fields, pmutex, held>>

\* "Trying to unlock a mutex the thread does not own!"
UnlockReadOwner(t) ==
    /\ pc[t] = "unlockReadOwner"
    /\ goto(t, IF threadId # t THEN "client" ELSE "unlockCount")
    /\ UNCHANGED <<fields, pmutex, op, held>>

\* "Trying to unlock a mutex that is not locked!", or --_counter.
UnlockCount(t) ==
    /\ pc[t] = "unlockCount"
    /\ IF counter = 0
       THEN goto(t, "client") /\ UNCHANGED <<counter, held>>
       ELSE /\ counter' = counter - 1
            /\ held' = [held EXCEPT ![t] = @ - 1]
            /\ goto(t, IF counter = 1 THEN "unlockClear" ELSE "unlockRelease")
    /\ UNCHANGED <<threadId, isLocked, pmutex, op>>

\* Faulty: _thread_id is not reset.
UnlockClear_KeepsOwner(t) ==
    /\ pc[t] = "unlockClear"
    /\ isLocked' = FALSE
    /\ goto(t, "unlockRelease")
    /\ UNCHANGED <<threadId, counter, pmutex, op, held>>

\* The outermost unlock: _is_locked = false; _thread_id = NULL_THREAD.
UnlockClear(t) ==
    /\ pc[t] = "unlockClear"
    /\ isLocked' = FALSE
    /\ threadId' = NULL_THREAD
    /\ goto(t, "unlockRelease")
    /\ UNCHANGED <<counter, pmutex, op, held>>

\* Faulty: the condition inverted.
UnlockRelease_Inverted(t) ==
    /\ pc[t] = "unlockRelease"
    /\ IF counter # 0 THEN pthread_drop(t) ELSE UNCHANGED pmutex
    /\ goto(t, "client")
    /\ UNCHANGED <<fields, op, held>>

\* if (_counter == 0), read again, pthread_mutex_unlock.
UnlockRelease(t) ==
    /\ pc[t] = "unlockRelease"
    /\ IF counter = 0 THEN pthread_drop(t) ELSE UNCHANGED pmutex
    /\ goto(t, "client")
    /\ UNCHANGED <<fields, op, held>>

-----------------------------------------------------------------------------
\* THREAD_ID Mutex::isLocked() const, called by thread t
IsLocked(t) == IF threadId = t THEN NULL_THREAD ELSE threadId

-----------------------------------------------------------------------------
Step(t) ==
    \/ ReadOwner(t) \/ PthreadLock(t) \/ PthreadBusy(t)
    \/ WriteOwner(t) \/ Enter(t)
    \/ UnlockReadOwner(t) \/ UnlockCount(t) \/ UnlockClear(t) \/ UnlockRelease(t)

Next == \E t \in Threads : CallLock(t) \/ CallUnlock(t) \/ Step(t)

Spec == Init /\ [][Next]_vars

\* Threads run; a client that holds the mutex does not keep it for ever.
\* pthread_mutex_lock is only assumed not to ignore a mutex that stays free.
FairSpec ==
    /\ Spec
    /\ \A t \in Threads : WF_vars(Step(t)) /\ WF_vars(held[t] > 0 /\ CallUnlock(t))

-----------------------------------------------------------------------------
TypeOK ==
    /\ threadId \in Threads \cup {NULL_THREAD}
    /\ isLocked \in BOOLEAN
    /\ counter \in Nat
    /\ pmutex \in [owner : Threads \cup {NULL_THREAD}, count : Nat]
    /\ pc \in [Threads -> Labels]
    /\ op \in [Threads -> LockOps \cup {"unlock"}]
    /\ held \in [Threads -> 0..MaxDepth]

(* Two threads never hold the mutex at once, although lock() decides from  *)
(* an unsynchronised read of _thread_id whether to take the pthread mutex  *)
(* (Mutex.cpp:87).                                                         *)
MutualExclusion ==
    \A t, u \in Threads : held[t] > 0 /\ held[u] > 0 => t = u

(* The checks of unlock() are exact whatever the other threads do in       *)
(* between: they let a thread through only if it holds the mutex, and a    *)
(* thread that holds it is never thrown out (Mutex.cpp:101-104).           *)
UnlockVerdict ==
    \A t \in Threads :
        /\ pc[t] = "unlockCount" => held[t] > 0 /\ counter > 0
        /\ held[t] > 0 => threadId = t

(* isLocked(), which reads _thread_id without a lock, never names a thread *)
(* that has already given the pthread mutex up: a stale _thread_id would   *)
(* let its thread walk past the pthread mutex (Mutex.cpp:87, 110, 129).    *)
OwnerFieldNotStale ==
    \A t \in Threads : IsLocked(t) \in {NULL_THREAD, pmutex.owner}

(* The single pthread_mutex_unlock of the outermost unlock() is enough:    *)
(* the recursive pthread mutex is never taken twice, it is owned by the    *)
(* thread that holds the Mutex, and no call leaves it locked behind it     *)
(* (Mutex.cpp:119).                                                        *)
OneUnlockIsEnough ==
    /\ pmutex.count <= 1
    /\ \A t \in Threads :
        /\ held[t] > 0 => pmutex.owner = t /\ counter = held[t]
        /\ pc[t] = "client" /\ held[t] = 0 => pmutex.owner # t

(* The fields and the pthread mutex implement the atomic lock: the lock is *)
(* held from ++_counter to the --_counter that makes it 0.                 *)
Abstract == INSTANCE RecursiveLock
    WITH holder <- IF counter = 0 THEN NULL_THREAD ELSE pmutex.owner,
         depth <- counter

ImplementsRecursiveLock == Abstract!Spec

(* A thread blocked in pthread_mutex_lock is not forgotten: as long as     *)
(* holders unlock, somebody goes on to enter (Mutex.cpp:89 and 120).       *)
WaiterProgress ==
    \A t \in Threads :
        pc[t] = "pthreadLock" /\ op[t] = "lock"
            ~> \E u \in Threads : pc[u] = "enter"

-----------------------------------------------------------------------------
(* The inductive strengthening the proofs rest on: what a thread at each   *)
(* label knows of the fields and of the pthread mutex.                     *)

LabelKnows(t) ==
    /\ pc[t] \in {"readOwner", "pthreadLock", "writeOwner", "enter"}
            => held[t] < MaxDepth
    /\ pc[t] = "pthreadLock" => pmutex.owner # t
    /\ pc[t] = "writeOwner"  => pmutex.owner = t /\ threadId = NULL_THREAD /\ counter = 0
    /\ pc[t] = "enter"       => threadId = t
    /\ pc[t] = "unlockCount" => held[t] > 0
    /\ pc[t] = "unlockClear" => threadId = t /\ counter = 0
    /\ pc[t] = "unlockRelease" =>
            pmutex.owner = t /\ (counter = 0 <=> threadId = NULL_THREAD)

OwnerKnows(t) ==
    /\ held[t] > 0 => threadId = t
    /\ pmutex.owner = t =>
        /\ counter = held[t]
        /\ \/ held[t] > 0
           \/ pc[t] \in {"writeOwner", "enter", "unlockClear", "unlockRelease"}

(* All of it together; checked as an invariant before it is proved.        *)
IInv ==
    /\ TypeOK
    /\ threadId # NULL_THREAD => pmutex.owner = threadId
    /\ pmutex.owner = NULL_THREAD => counter = 0
    /\ pmutex.count = IF pmutex.owner = NULL_THREAD THEN 0 ELSE 1
    /\ \A t \in Threads : LabelKnows(t) /\ OwnerKnows(t)

-----------------------------------------------------------------------------
(* Proofs for any set of threads and any recursion bound.                  *)

USE ThreadsAssumption, DepthAssumption

(* The constructor establishes the inductive invariant.                    *)
LEMMA InitIInv == Init => IInv
<1> SUFFICES ASSUME Init PROVE IInv
    OBVIOUS
<1>1. isLocked \in BOOLEAN
    BY Zenon DEF Init
<1>2. TypeOK
    BY <1>1 DEF Init, TypeOK, Labels
<1>3. ASSUME NEW t \in Threads PROVE LabelKnows(t) /\ OwnerKnows(t)
  <2>1. pc[t] = "client" /\ held[t] = 0 /\ pmutex.owner # t
    BY DEF Init
  <2> QED
    BY <2>1 DEF LabelKnows, OwnerKnows
<1> QED
    BY <1>2, <1>3 DEF Init, IInv

(* Each step of lock(), tryLock() and unlock() preserves it.               *)
LEMMA NextIInv == IInv /\ [Next]_vars => IInv'
<1> SUFFICES ASSUME IInv, [Next]_vars PROVE IInv'
    OBVIOUS
<1> USE DEF IInv, TypeOK, LabelKnows, OwnerKnows, Labels, LockOps, goto, fields
<1>1. ASSUME NEW t \in Threads, CallLock(t) PROVE IInv'
    BY <1>1 DEF CallLock
<1>2. ASSUME NEW t \in Threads, ReadOwner(t) PROVE IInv'
    BY <1>2 DEF ReadOwner
<1>3. ASSUME NEW t \in Threads, PthreadLock(t) PROVE IInv'
    BY <1>3 DEF PthreadLock, pthread_free_for, pthread_take
<1>4. ASSUME NEW t \in Threads, PthreadBusy(t) PROVE IInv'
    BY <1>4 DEF PthreadBusy, pthread_free_for
<1>5. ASSUME NEW t \in Threads, WriteOwner(t) PROVE IInv'
    BY <1>5 DEF WriteOwner
<1>6. ASSUME NEW t \in Threads, Enter(t) PROVE IInv'
    BY <1>6 DEF Enter
<1>7. ASSUME NEW t \in Threads, CallUnlock(t) PROVE IInv'
    BY <1>7 DEF CallUnlock
<1>8. ASSUME NEW t \in Threads, UnlockReadOwner(t) PROVE IInv'
    BY <1>8 DEF UnlockReadOwner
<1>9. ASSUME NEW t \in Threads, UnlockCount(t) PROVE IInv'
    BY <1>9 DEF UnlockCount
<1>10. ASSUME NEW t \in Threads, UnlockClear(t) PROVE IInv'
  <2>1. isLocked' \in BOOLEAN
    BY <1>10, Zenon DEF UnlockClear
  <2>2. TypeOK'
    BY <1>10, <2>1 DEF UnlockClear
  <2>3. \A u \in Threads : LabelKnows(u)' /\ OwnerKnows(u)'
    BY <1>10 DEF UnlockClear
  <2> QED
    BY <1>10, <2>2, <2>3 DEF UnlockClear
<1>11. ASSUME NEW t \in Threads, UnlockRelease(t) PROVE IInv'
    BY <1>11 DEF UnlockRelease, pthread_drop
<1>12. CASE UNCHANGED vars
    BY <1>12 DEF vars
<1> QED
    BY <1>1, <1>2, <1>3, <1>4, <1>5, <1>6, <1>7, <1>8, <1>9, <1>10, <1>11, <1>12
       DEF Next, Step

(* The inductive invariant holds in every reachable state.                 *)
THEOREM Inductive == Spec => []IInv
BY InitIInv, NextIInv, PTL DEF Spec

-----------------------------------------------------------------------------
(* The fields keep their types, and a client never recurses past its bound *)
(* although unlock() may be called by threads that hold nothing.           *)
THEOREM TypeCorrect == Spec => []TypeOK
<1>1. IInv => TypeOK
    BY DEF IInv
<1> QED
    BY <1>1, Inductive, PTL

(* At most one thread is between lock() and unlock(), for any number of    *)
(* threads, although lock() reads _thread_id unsynchronised.               *)
THEOREM Exclusive == Spec => []MutualExclusion
<1>1. IInv => MutualExclusion
    BY DEF IInv, OwnerKnows, MutualExclusion
<1> QED
    BY <1>1, Inductive, PTL

(* The checks at the top of unlock() never let a stranger through and      *)
(* never throw a holder out.                                               *)
THEOREM ExactChecks == Spec => []UnlockVerdict
<1>1. IInv => UnlockVerdict
  <2> SUFFICES ASSUME IInv, NEW t \in Threads
               PROVE  /\ pc[t] = "unlockCount" => held[t] > 0 /\ counter > 0
                      /\ held[t] > 0 => threadId = t
    BY DEF UnlockVerdict
  <2>1. held[t] > 0 => threadId = t
    BY DEF IInv, OwnerKnows
  <2>2. held[t] > 0 => counter = held[t]
    BY <2>1 DEF IInv, OwnerKnows
  <2>3. pc[t] = "unlockCount" => held[t] > 0
    BY DEF IInv, LabelKnows
  <2> QED
    BY <2>1, <2>2, <2>3
<1> QED
    BY <1>1, Inductive, PTL

(* _thread_id never names a thread that no longer owns the pthread mutex.  *)
THEOREM NotStale == Spec => []OwnerFieldNotStale
<1>1. IInv => OwnerFieldNotStale
    BY DEF IInv, OwnerFieldNotStale, IsLocked
<1> QED
    BY <1>1, Inductive, PTL

(* The pthread mutex is taken once however deep the recursion, and no call *)
(* returns with it locked for a thread that holds nothing.                 *)
THEOREM SingleUnlock == Spec => []OneUnlockIsEnough
<1>1. IInv => OneUnlockIsEnough
  <2> SUFFICES ASSUME IInv PROVE OneUnlockIsEnough
    OBVIOUS
  <2>1. pmutex.count <= 1
    BY DEF IInv
  <2>2. ASSUME NEW t \in Threads, held[t] > 0
        PROVE  pmutex.owner = t /\ counter = held[t]
    BY <2>2 DEF IInv, OwnerKnows
  <2>3. ASSUME NEW t \in Threads, pc[t] = "client", held[t] = 0
        PROVE  pmutex.owner # t
    BY <2>3 DEF IInv, OwnerKnows
  <2> QED
    BY <2>1, <2>2, <2>3 DEF OneUnlockIsEnough
<1> QED
    BY <1>1, Inductive, PTL

-----------------------------------------------------------------------------
(* ++_counter by a thread at the end of lock() is the atomic Acquire.      *)
LEMMA EnterIsAcquire ==
    ASSUME IInv, NEW t \in Threads, Enter(t)
    PROVE  Abstract!Acquire(t)
<1>1. threadId = t /\ pmutex.owner = t /\ counter = held[t] /\ held[t] < MaxDepth
    BY DEF Enter, IInv, LabelKnows, OwnerKnows
<1>2. counter \in Nat /\ counter' = counter + 1 /\ pmutex' = pmutex
    BY DEF Enter, IInv, TypeOK
<1> QED
    BY <1>1, <1>2 DEF Abstract!Acquire

(* --_counter in unlock() is the atomic Release.                           *)
LEMMA CountIsRelease ==
    ASSUME IInv, NEW t \in Threads, UnlockCount(t)
    PROVE  Abstract!Release(t)
<1>1. held[t] > 0 /\ threadId = t /\ pmutex.owner = t /\ counter = held[t]
    BY DEF UnlockCount, IInv, LabelKnows, OwnerKnows
<1>2. counter \in Nat /\ counter' = counter - 1 /\ pmutex' = pmutex
    BY <1>1 DEF UnlockCount, IInv, TypeOK
<1> QED
    BY <1>1, <1>2 DEF Abstract!Release

(* The Mutex implements the atomic recursive lock of RecursiveLock: every  *)
(* other step of the code leaves the abstract lock as it is.               *)
THEOREM Refinement == Spec => ImplementsRecursiveLock
<1>1. Init => Abstract!Init
    BY DEF Init, Abstract!Init
<1>2. IInv /\ [Next]_vars => [Abstract!Next]_(Abstract!vars)
  <2> SUFFICES ASSUME IInv, [Next]_vars
               PROVE  Abstract!Next \/ UNCHANGED Abstract!vars
    OBVIOUS
  <2> USE DEF Abstract!vars, fields
  <2>1. ASSUME NEW t \in Threads, Enter(t) PROVE Abstract!Next
    BY <2>1, EnterIsAcquire DEF Abstract!Next
  <2>2. ASSUME NEW t \in Threads, UnlockCount(t) PROVE Abstract!Next
    BY <2>2, CountIsRelease DEF Abstract!Next
  <2>3. ASSUME NEW t \in Threads, PthreadLock(t) PROVE UNCHANGED Abstract!vars
    <3>1. pmutex.owner = NULL_THREAD
        BY <2>3 DEF PthreadLock, pthread_free_for, IInv, LabelKnows
    <3> QED
        BY <2>3, <3>1 DEF PthreadLock, IInv
  <2>4. ASSUME NEW t \in Threads, UnlockRelease(t) PROVE UNCHANGED Abstract!vars
    BY <2>4 DEF UnlockRelease
  <2>5. ASSUME NEW t \in Threads,
               CallLock(t) \/ ReadOwner(t) \/ PthreadBusy(t) \/ WriteOwner(t)
        PROVE  UNCHANGED Abstract!vars
    BY <2>5 DEF CallLock, ReadOwner, PthreadBusy, WriteOwner
  <2>6. ASSUME NEW t \in Threads,
               CallUnlock(t) \/ UnlockReadOwner(t) \/ UnlockClear(t)
        PROVE  UNCHANGED Abstract!vars
    BY <2>6 DEF CallUnlock, UnlockReadOwner, UnlockClear
  <2>7. CASE UNCHANGED vars
    BY <2>7 DEF vars
  <2> QED
    BY <2>1, <2>2, <2>3, <2>4, <2>5, <2>6, <2>7 DEF Next, Step
<1> QED
    BY <1>1, <1>2, Inductive, PTL DEF Spec, ImplementsRecursiveLock, Abstract!Spec
=============================================================================
