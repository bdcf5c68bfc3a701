------------------------------- MODULE Timer --------------------------------
(***************************************************************************)
(* SRL::Timer on the clock of the system, which others may set, and        *)
(* SRL::PrecisionTimer on the counter of the CPU, which only runs.  Both   *)
(* measure from start() to stop(), and while they run to now.              *)
(***************************************************************************)
EXTENDS Integers

CONSTANTS Micro,         \* parts of a second: 1000000 in the code
          MaxTime, MaxCalls

VARIABLES clock,         \* a TimeValue: [sec, usec]
          counter,       \* of the CPU, with Micro ticks in a second
          timer,         \* _start_timer, _elapsed, _is_running of a Timer
          precise,       \* the same of a PrecisionTimer
          set,           \* history: somebody has set the clock since start()
          began, halted, \* history: the counter at the last start or reset, and at the last stop
          calls

vars == <<clock, counter, timer, precise, set, began, halted, calls>>

TimeValue == [sec : 0..MaxTime, usec : 0..(Micro - 1)]

\* _update(), in parts of a second: the parts may borrow from the seconds.
elapsed(start, end) == (end.sec - start.sec) * Micro + (end.usec - start.usec)

Init == /\ clock = [sec |-> 0, usec |-> 0] /\ counter = 0
        /\ timer = [start |-> clock, elapsed |-> 0, running |-> FALSE]
        /\ precise = [start |-> 0, elapsed |-> 0, running |-> FALSE]
        /\ set = FALSE /\ began = 0 /\ halted = 0 /\ calls = 0

Called == calls < MaxCalls /\ calls' = calls + 1

\* reset() leaves a timer that is stopped with nothing elapsed.
reset ==
    /\ Called
    /\ timer' = [timer EXCEPT !.start = clock, !.elapsed = 0]
    /\ precise' = [precise EXCEPT !.start = counter, !.elapsed = 0]
    /\ began' = counter /\ halted' = counter /\ set' = FALSE
    /\ UNCHANGED <<clock, counter>>

start ==
    /\ Called
    /\ timer' = [start |-> clock, elapsed |-> 0, running |-> TRUE]
    /\ precise' = [start |-> counter, elapsed |-> 0, running |-> TRUE]
    /\ began' = counter /\ halted' = counter /\ set' = FALSE
    /\ UNCHANGED <<clock, counter>>

\* Also of a timer that is stopped: what went by since counts too.
stop ==
    /\ Called
    /\ timer' = [timer EXCEPT !.running = FALSE, !.elapsed = elapsed(timer.start, clock)]
    /\ precise' = [precise EXCEPT !.running = FALSE, !.elapsed = counter - precise.start]
    /\ halted' = counter
    /\ UNCHANGED <<clock, counter, set, began>>

\* total(), totalSeconds() and totalMS() bring a running timer up to date.
totalOf(t, now) == IF t.running THEN now ELSE t.elapsed
total ==
    /\ timer.running /\ Called
    /\ timer' = [timer EXCEPT !.elapsed = totalOf(timer, elapsed(timer.start, clock))]
    /\ precise' = [precise EXCEPT !.elapsed = totalOf(precise, counter - precise.start)]
    /\ UNCHANGED <<clock, counter, set, began, halted>>

totalSeconds(t, now) == totalOf(t, now) \div Micro

Elapse ==
    /\ counter < MaxTime * Micro /\ counter' = counter + 1
    /\ clock' = IF clock.usec + 1 < Micro THEN [clock EXCEPT !.usec = @ + 1]
                ELSE [sec |-> clock.sec + 1, usec |-> 0]
    /\ UNCHANGED <<timer, precise, set, began, halted, calls>>

SetClock(tv) ==
    /\ Called /\ tv # clock /\ clock' = tv /\ set' = TRUE
    /\ UNCHANGED <<counter, timer, precise, began, halted>>

Next == reset \/ start \/ stop \/ total \/ Elapse \/ \E tv \in TimeValue : SetClock(tv)

Spec == Init /\ [][Next]_vars

-----------------------------------------------------------------------------
(* A running timer shows what went by since start() or reset(), a stopped  *)
(* one what went by until stop(), whenever they are asked and in between   *)
(* two seconds; a Timer as long as nobody sets the clock                   *)
(* (Timer.cpp:61-111, 123-170).                                            *)
TimerRight ==
    LET measured == IF timer.running THEN counter - began ELSE halted - began
        shown == totalOf(timer, elapsed(timer.start, clock))
    IN /\ totalOf(precise, counter - precise.start) = measured
       /\ ~set => shown = measured
       /\ precise.running = timer.running
       /\ ~set => totalSeconds(timer, elapsed(timer.start, clock)) = measured \div Micro
=============================================================================
