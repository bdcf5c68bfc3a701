---------------------------- MODULE RecursiveLock ----------------------------
(***************************************************************************)
(* What srl/sys/Mutex.h promises: "Only one thread will execute the code   *)
(* in between those methods at a time", and "The Mutex is always recursive *)
(* in that if the same thread invokes the same mutex lock multiple times,  *)
(* it must release it multiple times".  The lock has a holder and a depth; *)
(* every operation is one atomic step.                                     *)
(***************************************************************************)
EXTENDS Naturals

CONSTANTS Threads,      \* the threads that use the lock
          NULL_THREAD,  \* "nobody": the value of THREAD_ID that no thread has
          MaxDepth      \* the deepest recursion considered

VARIABLES holder, depth

vars == <<holder, depth>>

Init ==
    /\ holder = NULL_THREAD
    /\ depth = 0

\* lock(), or a tryLock() that returns true
Acquire(t) ==
    /\ \/ holder = NULL_THREAD /\ depth = 0
       \/ holder = t /\ depth \in 1..(MaxDepth - 1)
    /\ holder' = t
    /\ depth' = depth + 1

\* unlock() by the holder
Release(t) ==
    /\ holder = t
    /\ depth > 0
    /\ depth' = depth - 1
    /\ holder' = IF depth = 1 THEN NULL_THREAD ELSE t

Next == \E t \in Threads : Acquire(t) \/ Release(t)

Spec == Init /\ [][Next]_vars
=============================================================================
