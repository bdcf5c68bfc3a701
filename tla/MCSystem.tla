----------------------------- MODULE MCSystem -----------------------------
(***************************************************************************)
(* The classes over the operating system, the probes of the network, and   *)
(* the triggers of radmin's monitors, for TLC.  They share no state, so    *)
(* one run looks at each of them by itself: part says which one a          *)
(* behaviour is about, and the variables of the others stay as they are.   *)
(* The modules extended have their constants from the cfg.                 *)
(***************************************************************************)
EXTENDS Logger, Process, ProcessList, Watch, Directory, SystemInfo, Triggers,
        IcmpSocket, TraceRoute

\* Two packages with one core each, three cores in a package that start on the
\* second, and a CPU without hyper-threading; memory with and without a wrap.
Computers ==
    {[vendor |-> "GenuineIntel", mt |-> TRUE, logical |-> 2, cores |-> 1, apic |-> <<0, 2>>, memory |-> 5],
     [vendor |-> "AuthenticAMD", mt |-> TRUE, logical |-> 2, cores |-> 3, apic |-> <<1>>, memory |-> 3],
     [vendor |-> "GenuineIntel", mt |-> FALSE, logical |-> 0, cores |-> 0, apic |-> <<0>>, memory |-> 3]}

\* The second host is behind a router.
Away == [h \in Hosts |-> IF h = "a" THEN 1 ELSE 2]

\* One child has a pipe for its errors and one has not.
Mixed == [o \in Processes |-> o = "o1"]

VARIABLES part,
          call, commandsChild, pipe, ended, file, buffer, commandsPc,
          commandsTries, answer, written,
          content, mode, pos, eof, size, statSize, filesPc, tailed, ret,
          filesCalls,
          tree, last, treeCalls

loggerVars == vars
commandsVars == <<call, commandsChild, pipe, ended, file, buffer, commandsPc,
                  commandsTries, answer, written>>
filesVars == <<content, mode, pos, eof, size, statSize, filesPc, tailed, ret,
               filesCalls>>
treeVars == <<tree, last, treeCalls>>
systemVars == <<part, loggerVars, processVars, listVars, commandsVars, filesVars,
          treeVars, watchVars, dirVars, infoVars, triggerVars, icmpVars,
          traceVars>>

Cmd == INSTANCE Commands
    WITH PipeSize <- 2, MaxWrites <- 4, MaxTries <- 2, child <- commandsChild,
         pc <- commandsPc, tries <- commandsTries
File == INSTANCE Files
    WITH Chars <- {"n", "r"}, EOL <- "n", CR <- "r", Room <- 4, Enough <- 3,
         Block <- 2, MaxFile <- 5, MaxCalls <- 3, pc <- filesPc,
         calls <- filesCalls
FS == INSTANCE FileSystem
    WITH Names <- {"a", "b"}, Contents <- {1}, MaxDepth <- 2, MaxCalls <- 4,
         calls <- treeCalls

\* A part that does not run.
Off == "off"
commandsOff == /\ call = Off /\ commandsChild = Off /\ pipe = Off
               /\ ended = Off /\ file = Off /\ buffer = Off
               /\ commandsPc = Off /\ commandsTries = Off /\ answer = Off
               /\ written = Off
filesOff == /\ content = Off /\ mode = Off /\ pos = Off /\ eof = Off
            /\ size = Off /\ statSize = Off /\ filesPc = Off /\ tailed = Off
            /\ ret = Off /\ filesCalls = Off

\* Where the initial states of a part differ, the others need one of them.
SystemInit ==
    /\ part \in {"logger", "process", "list", "commands", "files", "tree",
                 "watch", "dir", "info", "trigger", "icmp", "trace"}
    /\ Init
    /\ ProcessInit /\ mixin = Mixed
    /\ ListInit
    /\ IF part = "commands" THEN Cmd!Init ELSE commandsOff
    /\ IF part = "files" THEN File!Init ELSE filesOff
    /\ FS!Init
    /\ WatchInit /\ (part = "watch" \/ fileSize = [o \in FsObjects |-> 1])
    /\ DirectoryInit /\ (part = "dir" \/ dirDisk = [n \in FileNames |-> 0])
    /\ InfoInit /\ (part = "info" \/ (machine.vendor = "AuthenticAMD" /\ active = Callers))
    /\ TriggersInit
    /\ IcmpInit
    /\ TraceInit

SystemNext ==
    \/ part = "logger" /\ Next /\ UNCHANGED <<part, processVars, listVars,
            commandsVars, filesVars, treeVars, watchVars, dirVars, infoVars,
            triggerVars, icmpVars, traceVars>>
    \/ part = "process" /\ ProcessNext /\ UNCHANGED <<part, loggerVars,
            listVars, commandsVars, filesVars, treeVars, watchVars, dirVars,
            infoVars, triggerVars, icmpVars, traceVars>>
    \/ part = "list" /\ ListNext /\ UNCHANGED <<part, loggerVars,
            processVars, commandsVars, filesVars, treeVars, watchVars,
            dirVars, infoVars, triggerVars, icmpVars, traceVars>>
    \/ part = "commands" /\ Cmd!Next /\ UNCHANGED <<part, loggerVars,
            processVars, listVars, filesVars, treeVars, watchVars, dirVars,
            infoVars, triggerVars, icmpVars, traceVars>>
    \/ part = "files" /\ File!Next /\ UNCHANGED <<part, loggerVars,
            processVars, listVars, commandsVars, treeVars, watchVars, dirVars,
            infoVars, triggerVars, icmpVars, traceVars>>
    \/ part = "tree" /\ FS!Next /\ UNCHANGED <<part, loggerVars, processVars,
            listVars, commandsVars, filesVars, watchVars, dirVars, infoVars,
            triggerVars, icmpVars, traceVars>>
    \/ part = "watch" /\ WatchNext /\ UNCHANGED <<part, loggerVars,
            processVars, listVars, commandsVars, filesVars, treeVars, dirVars,
            infoVars, triggerVars, icmpVars, traceVars>>
    \/ part = "dir" /\ DirectoryNext /\ UNCHANGED <<part, loggerVars,
            processVars, listVars, commandsVars, filesVars, treeVars,
            watchVars, infoVars, triggerVars, icmpVars, traceVars>>
    \/ part = "info" /\ InfoNext /\ UNCHANGED <<part, loggerVars,
            processVars, listVars, commandsVars, filesVars, treeVars,
            watchVars, dirVars, triggerVars, icmpVars, traceVars>>
    \/ part = "trigger" /\ TriggersNext /\ UNCHANGED <<part, loggerVars,
            processVars, listVars, commandsVars, filesVars, treeVars,
            watchVars, dirVars, infoVars, icmpVars, traceVars>>
    \/ part = "icmp" /\ IcmpNext /\ UNCHANGED <<part, loggerVars,
            processVars, listVars, commandsVars, filesVars, treeVars,
            watchVars, dirVars, infoVars, triggerVars, traceVars>>
    \/ part = "trace" /\ TraceNext /\ UNCHANGED <<part, loggerVars,
            processVars, listVars, commandsVars, filesVars, treeVars,
            watchVars, dirVars, infoVars, triggerVars, icmpVars>>

\* The thread that runs terminate() goes on, select() returns in time, and so
\* does the thread that waits for a reply.
SystemSpec ==
    /\ SystemInit /\ [][SystemNext]_systemVars
    /\ \A o \in Processes : /\ WF_processVars(part = "process" /\ Kill(o))
                            /\ WF_processVars(part = "process" /\ KillCheck(o))
    /\ WF_icmpVars(part = "icmp" /\ Recv)
    /\ WF_icmpVars(part = "icmp" /\ RecvNothing)

-----------------------------------------------------------------------------
(* What is read is what is on the disk, line by line or as a whole, while  *)
(* others append; Move(), Copy() and Delete() touch nothing but what they  *)
(* were asked for, also when they fail half way; and a command answers     *)
(* with what it wrote, and Kill() says true of a process that is gone      *)
(* (TextFile.cpp:69, 116, FS.cpp:400-676, System.cpp:167-258).             *)
FilesRight ==
    /\ part = "files" => File!FilesRight
    /\ part = "commands" => Cmd!CommandsRight
    /\ FS!FileSystemRight
=============================================================================
