------------------------------ MODULE Commands ------------------------------
(***************************************************************************)
(* Commands that SRL::System runs: Run() and RunEx() read what popen()     *)
(* gives, RunAs() and RunAsEx() read the two pipes of a Process in turn,   *)
(* and Execute() starts a child that IsRunning() and Kill() look after.  A *)
(* pipe holds whole lines; what a FILE reads from it is all that is there. *)
(***************************************************************************)
EXTENDS Naturals, Sequences

CONSTANTS PipeSize,     \* lines a pipe takes before its writer blocks
          MaxWrites,    \* lines a child writes
          MaxTries      \* signals of each kind that Kill() sends: 10 in the code

VARIABLES call,      \* "Run", "RunAs" or "Kill", and for Kill whether it forces
          child,     \* "running", "zombie" or "reaped", todo: what it will write, deaf: to SIGTERM
          pipe,      \* "out" and "err": lines in the pipe
          ended,     \* whether the writing end is closed
          file,      \* "out" and "err": lines read ahead by the FILE, and its feof
          buffer,    \* the answer
          pc, tries, answer,
          written    \* history: the lines the child wrote

vars == <<call, child, pipe, ended, file, buffer, pc, tries, answer, written>>

Ends == {"out", "err"}
Writes == UNION {[1..n -> Ends] : n \in 0..MaxWrites}

Init == /\ call \in {[op |-> "Run"], [op |-> "RunAs"]} \cup [op : {"Kill"}, force : BOOLEAN]
        /\ child \in [state : {"running"}, todo : Writes, deaf : BOOLEAN]
        /\ call.op # "Kill" => ~child.deaf
        /\ pipe = [e \in Ends |-> <<>>] /\ ended = FALSE
        /\ file = [e \in Ends |-> [lines |-> <<>>, eof |-> FALSE]]
        /\ buffer = <<>> /\ tries = 0 /\ answer = "none" /\ written = <<>>
        /\ pc = call.op

\* The pipes that the child writes into; the others are the terminal's.
piped == IF call.op = "RunAs" THEN Ends ELSE IF call.op = "Run" THEN {"out"} ELSE {}

-----------------------------------------------------------------------------
(* The child                                                               *)

ChildWrites ==
    /\ child.state = "running" /\ child.todo # <<>>
    /\ LET e == Head(child.todo)  line == <<e, Len(written) + 1>>
       IN /\ IF e \in piped THEN Len(pipe[e]) < PipeSize /\ pipe' = [pipe EXCEPT ![e] = Append(@, line)]
             ELSE UNCHANGED pipe
          /\ written' = Append(written, line)
    /\ child' = [child EXCEPT !.todo = Tail(@)]
    /\ UNCHANGED <<call, ended, file, buffer, pc, tries, answer>>

ChildExits ==
    /\ child.state = "running" /\ child.todo = <<>>
    /\ child' = [child EXCEPT !.state = "zombie"] /\ ended' = TRUE
    /\ UNCHANGED <<call, pipe, file, buffer, pc, tries, answer, written>>

-----------------------------------------------------------------------------
(* Run() and RunAs()                                                       *)

\* readLine() of end e: it blocks while there is neither a line nor an end,
\* and takes a line, or the end of the file and no line.
ready(e) == file[e].lines # <<>> \/ pipe[e] # <<>> \/ ended
lines(e) == IF file[e].lines = <<>> THEN pipe[e] ELSE file[e].lines
readLine(e) ==
    /\ ready(e)
    /\ IF lines(e) = <<>>
       THEN file' = [file EXCEPT ![e].eof = TRUE] /\ UNCHANGED <<pipe, buffer>>
       ELSE /\ file' = [file EXCEPT ![e].lines = Tail(lines(e))]
            /\ pipe' = IF file[e].lines = <<>> THEN [pipe EXCEPT ![e] = <<>>] ELSE pipe
            /\ buffer' = Append(buffer, Head(lines(e)))

\* Run() and RunEx(): fgets() until there is nothing, then pclose() waits.
RunReads == /\ pc = "Run" /\ ~file["out"].eof /\ readLine("out")
            /\ UNCHANGED <<call, child, ended, pc, tries, answer, written>>

RunCloses == /\ pc = "Run" /\ file["out"].eof /\ child.state = "zombie"
             /\ child' = [child EXCEPT !.state = "reaped"] /\ pc' = "done"
             /\ UNCHANGED <<call, pipe, ended, file, buffer, tries, answer, written>>

\* RunAs() and RunAsEx(): a line of the output, however long it takes ...
RunAsReads == /\ pc = "RunAs" /\ ~file["out"].eof /\ readLine("out") /\ pc' = "error"
              /\ UNCHANGED <<call, child, ended, tries, answer, written>>

\* ... and a line of the errors if select() finds the pipe ready: it does
\* not see what the FILE has read ahead.
canRead(e) == ~file[e].eof /\ (pipe[e] # <<>> \/ ended)
RunAsErrors == /\ pc = "error" /\ canRead("err") /\ readLine("err") /\ pc' = "RunAs"
               /\ UNCHANGED <<call, child, ended, tries, answer, written>>
RunAsNoErrors == /\ pc = "error" /\ ~canRead("err") /\ pc' = "RunAs"
                 /\ UNCHANGED <<call, child, pipe, ended, file, buffer, tries, answer, written>>

\* waitFor(), or the destructor of the Process.
RunAsEnds == /\ pc = "RunAs" /\ file["out"].eof /\ child.state # "running"
             /\ child' = [child EXCEPT !.state = "reaped"] /\ pc' = "done"
             /\ UNCHANGED <<call, pipe, ended, file, buffer, tries, answer, written>>

-----------------------------------------------------------------------------
(* Kill()                                                                  *)

limit == IF call.op = "Kill" /\ call.force THEN 2 * MaxTries ELSE MaxTries

\* A signal: SIGTERM for MaxTries times, then SIGKILL; it may take effect
\* before IsRunning() asks, or later.
Signal ==
    /\ pc = "Kill" /\ tries < limit /\ tries' = tries + 1 /\ pc' = "test"
    /\ \/ child.state = "running" /\ (tries >= MaxTries \/ ~child.deaf)
          /\ child' = [child EXCEPT !.state = "zombie"] /\ ended' = TRUE
       \/ UNCHANGED <<child, ended>>
    /\ UNCHANGED <<call, pipe, file, buffer, answer, written>>

\* waitpid(WNOHANG) reaps the child.
IsRunning == child.state = "running"

Test ==
    /\ pc = "test"
    /\ IF IsRunning THEN pc' = "Kill" /\ UNCHANGED <<child, answer>>
       ELSE /\ child' = [child EXCEPT !.state = IF @ = "zombie" THEN "reaped" ELSE @]
            /\ pc' = "done" /\ answer' = "true"
    /\ UNCHANGED <<call, pipe, ended, file, buffer, tries, written>>

KillGivesUp == /\ pc = "Kill" /\ tries = limit /\ pc' = "done" /\ answer' = "false"
               /\ UNCHANGED <<call, child, pipe, ended, file, buffer, tries, written>>

Next == \/ ChildWrites \/ ChildExits
        \/ RunReads \/ RunCloses
        \/ RunAsReads \/ RunAsErrors \/ RunAsNoErrors \/ RunAsEnds
        \/ Signal \/ Test \/ KillGivesUp

Spec == Init /\ [][Next]_vars

-----------------------------------------------------------------------------
of(s, e) == SelectSeq(s, LAMBDA l : l[1] = e)

(* The answer holds what the child wrote, each pipe in its order and all   *)
(* of the output when the call comes back; Kill() answers true only when   *)
(* the child is gone, and a child is reaped by whoever waited for it       *)
(* (System.cpp:167-258, linux/System.cpp:101-126).                         *)
CommandsRight ==
    /\ \A e \in Ends : of(buffer, e) = SubSeq(of(written, e), 1, Len(of(buffer, e)))
    /\ pc = "done" /\ call.op # "Kill" => /\ of(buffer, "out") = of(written, "out")
                                          /\ child.state = "reaped"
    /\ answer = "true" => child.state = "reaped"
=============================================================================
