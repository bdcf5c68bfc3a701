------------------------------ MODULE Process -------------------------------
(***************************************************************************)
(* SRL::System::Process: child processes, the pipes to them and their      *)
(* end.  waitpid() reaps a child once; the pid is then free and the kernel *)
(* may give it to a stranger.  A child inherits every pipe end its parent  *)
(* has open when it forks, because nothing sets close-on-exec.             *)
(***************************************************************************)
EXTENDS Naturals, FiniteSets

CONSTANTS Processes,    \* the Process objects of the program
          Pids, Codes,
          Tries,      \* the rounds of each of System::Kill's two loops (10)
          MaxStrangers, Nobody

\* The special values are no objects and no numbers.
ASSUME ProcessAssumption ==
    /\ {Nobody, "stranger"} \cap Processes = {} /\ {Nobody, "parent"} \cap Pids = {}
    /\ Nobody # "stranger" /\ Tries \in Nat

VARIABLES obj,     \* per object: where it is in its life and in terminate()
          pid,     \* _pid
          mixin,   \* _mixin
          exit,    \* _exit_value: None before it is set, "junk" if never written
          tries,   \* rounds of System::Kill so far
          child,   \* the kernel's table: what runs under each pid
          ends,    \* who holds which end of which object's pipes
          heirs,   \* history, per object: the objects that forked while its constructor ran
          hit,     \* what the last signal reached
          code,    \* the status each object's child ended with
          strangers

processVars == <<obj, pid, mixin, exit, tries, child, ends, heirs, hit, code, strangers>>

\* An end of a pipe: the object it was made for, the stream and the side.
PipeEnds == [of : Processes, stream : {"in", "out", "err"}, side : {"read", "write"}]
end(o, s, d) == [of |-> o, stream |-> s, side |-> d]
streams(o) == IF mixin[o] THEN {"in", "out"} ELSE {"in", "out", "err"}
parentSide(s) == IF s = "in" THEN "write" ELSE "read"
childSide(s) == IF s = "in" THEN "read" ELSE "write"

Free == [who |-> Nobody, st |-> "free"]

ProcessInit == /\ obj = [o \in Processes |-> "none"] /\ pid = [o \in Processes |-> Nobody]
               /\ mixin \in [Processes -> BOOLEAN]
               /\ exit = [o \in Processes |-> Nobody] /\ tries = [o \in Processes |-> 0]
               /\ child = [p \in Pids |-> Free]
               /\ ends = [h \in Pids \cup {"parent"} |-> {}]
               /\ heirs = [o \in Processes |-> {}]
               /\ hit = Nobody /\ code = [o \in Processes |-> Nobody] /\ strangers = 0

\* The child o forked is still in the table, as a process or as a zombie.
mine(o) == pid[o] # Nobody /\ child[pid[o]].who = o

\* The constructor, executeChild(), between its pipe() and its close().
Starting == {"piped", "forked"}
ownEnds(o) == {e \in PipeEnds : e.of = o /\ e.stream \in streams(o)}

\* Its pipes are made, and the parent has both sides of each.
Pipe(o) ==
    /\ obj[o] = "none" /\ obj' = [obj EXCEPT ![o] = "piped"]
    /\ ends' = [ends EXCEPT !["parent"] = @ \cup ownEnds(o)]
    /\ UNCHANGED <<pid, mixin, exit, tries, child, heirs, hit, code, strangers>>

\* The child keeps its side as its standard streams and closes the other;
\* every other end that the parent has open goes into it as well, also those
\* that another thread has only just made.
Fork(o, p) ==
    /\ obj[o] = "piped" /\ child[p] = Free
    /\ obj' = [obj EXCEPT ![o] = "forked"]
    /\ pid' = [pid EXCEPT ![o] = p]
    /\ child' = [child EXCEPT ![p] = [who |-> o, st |-> "runs"]]
    /\ ends' = [ends EXCEPT ![p] = {e \in ends["parent"] : e.of # o \/ e.side = childSide(e.stream)}]
    /\ heirs' = [q \in Processes |-> IF q # o /\ obj[q] \in Starting THEN heirs[q] \cup {o} ELSE heirs[q]]
    /\ UNCHANGED <<mixin, exit, tries, hit, code, strangers>>

\* A fork that fails closes all that was opened and throws: there is no object.
ForkFails(o) ==
    /\ obj[o] = "piped" /\ obj' = [obj EXCEPT ![o] = "gone"]
    /\ ends' = [ends EXCEPT !["parent"] = {e \in @ : e.of # o}]
    /\ UNCHANGED <<pid, mixin, exit, tries, child, heirs, hit, code, strangers>>

\* The parent closes the sides of the child, and has its object.
CloseChildSides(o) ==
    /\ obj[o] = "forked" /\ obj' = [obj EXCEPT ![o] = "live"]
    /\ ends' = [ends EXCEPT !["parent"] = {e \in @ : e.of # o \/ e.side = parentSide(e.stream)}]
    /\ UNCHANGED <<pid, mixin, exit, tries, child, heirs, hit, code, strangers>>

\* A process ends by itself; a stranger's parent reaps it.
Ends(p, c) ==
    /\ child[p].st = "runs"
    /\ ends' = [ends EXCEPT ![p] = {}]
    /\ IF child[p].who \in Processes
       THEN /\ child' = [child EXCEPT ![p].st = "zombie"]
            /\ code' = [code EXCEPT ![child[p].who] = c]
       ELSE /\ child' = [child EXCEPT ![p] = Free] /\ UNCHANGED code
    /\ UNCHANGED <<obj, pid, mixin, exit, tries, heirs, hit, strangers>>

\* The kernel gives a free pid to a process that is not ours.
StrangerStarts(p) ==
    /\ child[p] = Free /\ strangers < MaxStrangers
    /\ child' = [child EXCEPT ![p] = [who |-> "stranger", st |-> "runs"]]
    /\ strangers' = strangers + 1
    /\ UNCHANGED <<obj, pid, mixin, exit, tries, ends, heirs, hit, code>>

\* waitpid(_pid, &status, WNOHANG) on a zombie of ours frees its pid.
reap(o) == child' = IF mine(o) /\ child[pid[o]].st = "zombie"
                    THEN [child EXCEPT ![pid[o]] = Free] ELSE child

\* What waitpid() wrote to status: nothing, if there is no such child any more.
status(o) == IF mine(o) THEN code[o] ELSE "junk"

childRuns(o) == mine(o) /\ child[pid[o]].st = "runs"

\* isRunning(): the status it reaps goes to a local variable.
IsRunning(o) ==
    /\ obj[o] = "live"
    /\ reap(o)
    /\ UNCHANGED <<obj, pid, mixin, exit, tries, ends, heirs, hit, code, strangers>>

\* waitFor() blocks while the child runs.
WaitFor(o) ==
    /\ obj[o] = "live" /\ ~childRuns(o)
    /\ exit' = [exit EXCEPT ![o] = status(o)]
    /\ reap(o)
    /\ UNCHANGED <<obj, pid, mixin, tries, ends, heirs, hit, code, strangers>>

terminate_Unasked(o, next) ==
    /\ obj' = [obj EXCEPT ![o] = next]
    /\ tries' = [tries EXCEPT ![o] = 0]
    /\ UNCHANGED <<exit, child>>

\* terminate() up to the signals: a child that has ended is only reaped.
terminate(o, next) ==
    IF childRuns(o)
    THEN /\ obj' = [obj EXCEPT ![o] = next]
         /\ tries' = [tries EXCEPT ![o] = 0]
         /\ UNCHANGED <<exit, child>>
    ELSE /\ obj' = [obj EXCEPT ![o] = IF next = "kill" THEN "live" ELSE "gone"]
         /\ exit' = [exit EXCEPT ![o] = status(o)]
         /\ reap(o)
         /\ UNCHANGED tries

Terminate(o) ==
    /\ obj[o] = "live"
    /\ terminate(o, "kill")
    /\ UNCHANGED <<pid, mixin, ends, heirs, hit, code, strangers>>

\* ~Process(): the streams are closed and deleted, then the child terminated.
Destroy(o) ==
    /\ obj[o] = "live"
    /\ ends' = [ends EXCEPT !["parent"] = {e \in @ : e.of # o}]
    /\ terminate(o, "killGone")
    /\ UNCHANGED <<pid, mixin, heirs, hit, code, strangers>>

killing(o) == obj[o] \in {"kill", "killGone"}
signalled(o) == obj[o] \in {"check", "checkGone"}

ignored_Always(o) == TRUE

\* May the signal of this round leave the child running?  SIGKILL, which is
\* sent after Tries rounds of SIGTERM, does not.
ignored(o) == tries[o] < Tries \/ ~childRuns(o)

\* One round of System::Kill(_pid, true): the signal.
Kill(o) ==
    /\ killing(o)
    /\ hit' = child[pid[o]].who
    /\ \/ /\ childRuns(o)
          /\ child' = [child EXCEPT ![pid[o]].st = "zombie"]
          /\ ends' = [ends EXCEPT ![pid[o]] = {}]
          /\ code' = [code EXCEPT ![o] = "signal"]
       \/ /\ ignored(o)
          /\ UNCHANGED <<child, ends, code>>
    /\ obj' = [obj EXCEPT ![o] = IF @ = "kill" THEN "check" ELSE "checkGone"]
    /\ UNCHANGED <<pid, mixin, exit, tries, heirs, strangers>>

\* ... and IsRunning(_pid), which reaps; a pid still there after both loops is
\* given up.
KillCheck(o) ==
    /\ signalled(o)
    /\ hit' = Nobody
    /\ IF ~childRuns(o) \/ tries[o] + 1 = 2 * Tries
       THEN /\ obj' = [obj EXCEPT ![o] = IF @ = "check" THEN "live" ELSE "gone"]
            /\ exit' = [exit EXCEPT ![o] = "1"]
            /\ UNCHANGED tries
       ELSE /\ obj' = [obj EXCEPT ![o] = IF @ = "check" THEN "kill" ELSE "killGone"]
            /\ tries' = [tries EXCEPT ![o] = @ + 1]
            /\ UNCHANGED exit
    /\ reap(o)
    /\ UNCHANGED <<pid, mixin, ends, heirs, code, strangers>>

ProcessStep(o) == \/ Pipe(o) \/ ForkFails(o) \/ CloseChildSides(o)
                  \/ IsRunning(o) \/ WaitFor(o) \/ Terminate(o) \/ Destroy(o)
                  \/ Kill(o) \/ KillCheck(o)

ProcessNext == \/ \E o \in Processes : ProcessStep(o) \/ \E p \in Pids : Fork(o, p)
               \/ \E p \in Pids : StrangerStarts(p) \/ \E c \in Codes : Ends(p, c)

ProcessSpec == ProcessInit /\ [][ProcessNext]_processVars

\* The thread that runs terminate() goes on.
ProcessFairSpec == ProcessSpec /\ \A o \in Processes : WF_processVars(Kill(o)) /\ WF_processVars(KillCheck(o))

-----------------------------------------------------------------------------
\* terminate() and ~Process() signal the child they forked and nobody else,
\* although its pid may have been reaped by isRunning() and used again
\* (Process.cpp:190).
SignalsOwnChild == hit # "stranger"

\* Nobody but its child can write to the output of an object, so that the end
\* of the child is the end of what the parent reads, save the parent while the
\* constructor runs and the children that other threads forked in that time:
\* these have the writing end too, as long as they run (Process.cpp:206-346).
OutputEndsWithChild ==
    \A o \in Processes, h \in DOMAIN ends : \A s \in {"out", "err"} :
        end(o, s, "write") \in ends[h] =>
            \/ h = pid[o] /\ mine(o)
            \/ h = "parent" /\ obj[o] \in Starting
            \/ h \in Pids /\ child[h].who \in heirs[o]

\* No signal reaches a process that is not the object's child, and nobody can
\* write to what the parent reads as the output of a child but this child, and
\* those whose fork fell into its constructor (Process.cpp:190, 206-346).
ChildrenRight == SignalsOwnChild /\ OutputEndsWithChild

\* Every ~Process() comes back, whatever the child does with SIGTERM, and
\* leaves no zombie behind.
DestroyEnds ==
    \A o \in Processes :
        obj[o] \in {"killGone", "checkGone"} ~> obj[o] = "gone" /\ ~mine(o)
=============================================================================
