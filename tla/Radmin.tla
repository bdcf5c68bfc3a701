------------------------------- MODULE Radmin -------------------------------
(***************************************************************************)
(* The radmin daemon (radmin/src): the daemon's own thread, which keeps an *)
(* event channel to a remote listener; the HTTP server's threads, which    *)
(* run the RPC calls; one thread for every monitored process, which sends  *)
(* events; the listeners of file transfers; and the garbage collector.     *)
(*                                                                         *)
(* A command, a keyword and an event are told apart by their monitor, and  *)
(* log messages, XML and the configuration file are left out; so is        *)
(* _monitors, which threads add to and remove from but nothing ever reads. *)
(***************************************************************************)
EXTENDS Naturals, Sequences, FiniteSets, SequencesExt

CONSTANTS Monitors,   \* bound: the processes that clients ask to monitor
          Workers,    \* the threads of the HTTP server
          MaxFtps     \* bound: the file transfers that clients ask for

Daemon == "daemon"
NoOne == "no one"
FirstPort == 30000    \* START_FTP_PORT
Ftps == 1..MaxFtps

\* Trigger::Actions of a monitor's one keyword trigger; "gone": removed.
Actions == {"notify", "stop", "remove"}

VARIABLES dpc,        \* where the daemon's thread is
          keepRunning,
          connected,  \* _event_channel.isConnected()
          eventLock,  \* who holds _event_critsec
          sending,    \* who is in a call of _event_channel
          wpc,        \* where each worker is, and what it holds
          mpc,        \* where each monitor's thread is
          process,    \* its process: "none", "runs", "ended"
          trigger,    \* its trigger
          garbage,    \* _gc._garbage
          deletes,    \* how often each monitor was deleted
          ftpPort,    \* _ftp_port
          ftp,        \* the RadminFTPs made: [port, done, on]
          ftpGarbage, \* _gc._ftp_garbage
          gcpc        \* where the collector is

daemonVars == <<dpc, keepRunning>>
channelVars == <<connected, eventLock, sending>>
monitorVars == <<mpc, process, trigger>>
gcVars == <<garbage, ftpGarbage, gcpc, deletes>>
ftpVars == <<ftpPort, ftp>>
radminVars == <<daemonVars, channelVars, wpc, monitorVars, gcVars, ftpVars>>

Idle == [at |-> "idle", holds |-> 0]

\* The constructor of RadminDaemon
RadminInit ==
    /\ dpc = "main" /\ keepRunning = TRUE
    /\ connected = FALSE /\ eventLock = NoOne /\ sending = {}
    /\ wpc = [w \in Workers |-> Idle]
    /\ mpc = [m \in Monitors |-> "none"]
    /\ process = [m \in Monitors |-> "none"]
    /\ trigger = [m \in Monitors |-> "notify"]
    /\ garbage = {} /\ deletes = [m \in Monitors |-> 0]
    /\ ftpPort = FirstPort - 1 /\ ftp = <<>> /\ ftpGarbage = <<>>
    /\ gcpc = "none"

-----------------------------------------------------------------------------
(* Daemon::runForever() and RadminDaemon's callbacks                       *)

at(pc, next) == dpc = pc /\ dpc' = next /\ UNCHANGED keepRunning

\* main(): to install, uninstall or stop does nothing on this platform; to
\* start forks, and only the child goes on.
Main ==
    /\ dpc = "main" /\ dpc' \in {"ended", "forked", "initialize"}
    /\ UNCHANGED <<keepRunning, channelVars, wpc, monitorVars, gcVars, ftpVars>>

\* Daemon::start() in the child, where setsid() may fail
Forked ==
    /\ dpc = "forked" /\ dpc' \in {"ended", "initialize"}
    /\ UNCHANGED <<keepRunning, channelVars, wpc, monitorVars, gcVars, ftpVars>>

\* _initialize(): from here on signals are caught.
DaemonInitialize ==
    /\ at("initialize", "initial")
    /\ UNCHANGED <<channelVars, wpc, monitorVars, gcVars, ftpVars>>

\* initial(): the collector and the HTTP server start.
DaemonInitial ==
    /\ at("initial", "run")
    /\ gcpc' = "sleep"
    /\ UNCHANGED <<channelVars, wpc, monitorVars, garbage, ftpGarbage, deletes, ftpVars>>

\* while (_keep_running && run()): run() as far as its first blocking call.
DaemonRun ==
    /\ dpc = "run"
    /\ dpc' \in (IF ~keepRunning THEN {"final"}
                 ELSE {"final"} \cup          \* the HTTP server does not run
                      {IF connected THEN "watch" ELSE "reset"})
    /\ UNCHANGED <<keepRunning, channelVars, wpc, monitorVars, gcVars, ftpVars>>

\* createEventChannel(): _event_channel.reset(), then the sleep.
ChannelReset ==
    /\ at("reset", "connect")
    /\ connected' = FALSE
    /\ UNCHANGED <<eventLock, sending, wpc, monitorVars, gcVars, ftpVars>>

\* The connection is made or refused, and a stop ends the attempts.
ChannelConnect(ok) ==
    /\ dpc = "connect"
    /\ connected' = ok
    /\ dpc' = IF ~keepRunning THEN "final" ELSE IF ok THEN "greet" ELSE "reset"
    /\ UNCHANGED <<keepRunning, eventLock, sending, wpc, monitorVars, gcVars, ftpVars>>

\* isRecvReady(60000): anything readable is taken for a disconnect, and a
\* channel that a sender closed makes select() fail.
DaemonWatch(ready) ==
    /\ dpc = "watch"
    /\ IF ~connected THEN dpc' = "aborted" /\ UNCHANGED connected
       ELSE dpc' = "run" /\ connected' = ~ready
    /\ UNCHANGED <<keepRunning, eventLock, sending, wpc, monitorVars, gcVars, ftpVars>>

\* final() stops and deletes the HTTP server; main() returns.
DaemonFinal ==
    /\ at("final", "ended")
    /\ UNCHANGED <<channelVars, wpc, monitorVars, gcVars, ftpVars>>

\* The daemon is in its loop: calls are served, and threads run.
Up == dpc \notin {"main", "forked", "initialize", "initial", "ended", "aborted"}

\* SIGTERM, SIGINT and SIGHUP: __signal_handler(), stop_event(), reload_event()
Signal ==
    /\ (Up \/ dpc = "initial") /\ keepRunning
    /\ keepRunning' = FALSE
    /\ UNCHANGED <<dpc, channelVars, wpc, monitorVars, gcVars, ftpVars>>

-----------------------------------------------------------------------------
(* _event_channel.send()                                                   *)

\* Who is about to send, and whether the code takes _event_critsec first.
wantsToSend(p) ==
    IF p = Daemon THEN dpc = "greet" ELSE mpc[p] \in {"trigger", "stopped"}
locks(p) == p = Daemon \/ mpc[p] = "trigger"

\* What an exception leaves: the daemon's is caught by runForever(), a
\* monitor's by Thread::__threadFunc(), and its final() is not called.
throwFrom(p) ==
    IF p = Daemon THEN dpc' = "aborted" /\ UNCHANGED mpc
    ELSE mpc' = [mpc EXCEPT ![p] = "threw"] /\ UNCHANGED dpc

SendBegin(p) ==
    /\ Up /\ wantsToSend(p) /\ p \notin sending
    /\ locks(p) => eventLock = NoOne
    /\ IF connected
       THEN /\ sending' = sending \cup {p}
            /\ eventLock' = IF locks(p) THEN p ELSE eventLock
            /\ UNCHANGED <<dpc, mpc>>
       ELSE throwFrom(p) /\ UNCHANGED <<sending, eventLock>>
    /\ UNCHANGED <<keepRunning, connected, wpc, process, trigger, gcVars, ftpVars>>

\* ::send() answers, the lock is released, and the caller goes on: a trigger
\* that stops the monitor ends run(), and one that removes itself is erased.
SendEnd(p, ok) ==
    /\ Up /\ p \in sending
    /\ sending' = sending \ {p}
    /\ eventLock' = IF eventLock = p THEN NoOne ELSE eventLock
    /\ IF ok
       THEN /\ IF p = Daemon THEN dpc' = "watch" /\ UNCHANGED mpc
               ELSE /\ mpc' = [mpc EXCEPT ![p] = IF @ = "stopped" THEN "collect"
                                                ELSE IF trigger[p] = "stop" THEN "final" ELSE "run"]
                    /\ UNCHANGED dpc
            /\ trigger' = IF p # Daemon /\ mpc[p] = "trigger" /\ trigger[p] = "remove"
                          THEN [trigger EXCEPT ![p] = "gone"] ELSE trigger
            /\ UNCHANGED connected
       ELSE throwFrom(p) /\ connected' \in {FALSE, connected} /\ UNCHANGED trigger
    /\ UNCHANGED <<keepRunning, wpc, process, gcVars, ftpVars>>

-----------------------------------------------------------------------------
(* MonitoredProcess, a thread                                              *)

step(m, pc, next) == mpc[m] = pc /\ mpc' = [mpc EXCEPT ![m] = next]

\* initial(): the process is spawned.
MonitorInitial(m) ==
    /\ Up /\ step(m, "start", "run")
    /\ process' = [process EXCEPT ![m] = "runs"]
    /\ UNCHANGED <<daemonVars, channelVars, wpc, trigger, gcVars, ftpVars>>

\* run(): a line of output that the keyword matches, or the end of it.
\* The lines it does not match change nothing.
MonitorRun(m) ==
    /\ Up
    /\ \/ process[m] = "runs" /\ trigger[m] # "gone" /\ step(m, "run", "trigger")
       \/ process[m] = "ended" /\ step(m, "run", "final")
    /\ UNCHANGED <<daemonVars, channelVars, wpc, process, trigger, gcVars, ftpVars>>

\* Faulty: the monitor is handed over before its event is sent.
MonitorFinal_Early(m) ==
    /\ Up /\ step(m, "final", "stopped")
    /\ process' = [process EXCEPT ![m] = "none"]
    /\ trigger' = [trigger EXCEPT ![m] = "gone"]
    /\ garbage' = garbage \cup {m}
    /\ UNCHANGED <<daemonVars, channelVars, wpc, ftpGarbage, gcpc, deletes, ftpVars>>

\* final() deletes the process and the triggers, then Monitor::final().
MonitorFinal(m) ==
    /\ Up /\ step(m, "final", "stopped")
    /\ process' = [process EXCEPT ![m] = "none"]
    /\ trigger' = [trigger EXCEPT ![m] = "gone"]
    /\ UNCHANGED <<daemonVars, channelVars, wpc, gcVars, ftpVars>>

\* monitor_stopped(), once the event is sent: _gc.add().  Its lock is free unless the collector died with it.
MonitorCollect(m) ==
    /\ Up /\ gcpc # "died" /\ step(m, "collect", "exit")
    /\ garbage' = garbage \cup {m}
    /\ UNCHANGED <<daemonVars, channelVars, wpc, process, trigger,
                   ftpGarbage, gcpc, deletes, ftpVars>>

\* Thread::__threadLoop() returns.
MonitorExit(m) ==
    /\ Up /\ step(m, "exit", "exited")
    /\ UNCHANGED <<daemonVars, channelVars, wpc, process, trigger, gcVars, ftpVars>>

\* The process ends by itself, or by killAllProcs().
ProcessEnds(m) ==
    /\ process[m] = "runs"
    /\ process' = [process EXCEPT ![m] = "ended"]
    /\ UNCHANGED <<daemonVars, channelVars, wpc, mpc, trigger, gcVars, ftpVars>>

-----------------------------------------------------------------------------
(* execute(): the RPC calls, each on a worker                              *)

moves(w, pc, next, holds) ==
    /\ Up /\ wpc[w].at = pc
    /\ wpc' = [wpc EXCEPT ![w] = [at |-> next, holds |-> holds]]

addTrigger(m, a) == trigger' = [trigger EXCEPT ![m] = a]

\* monitorProcess(): new MonitoredProcess, addTrigger(), addListener(), start().
\* The wait for a pid changes nothing.
MonitorProcess(w, m, a) ==
    /\ mpc[m] = "none"
    /\ moves(w, "idle", "idle", 0)
    /\ mpc' = [mpc EXCEPT ![m] = "start"]
    /\ addTrigger(m, a)
    /\ UNCHANGED <<daemonVars, channelVars, process, gcVars, ftpVars>>

\* killAllProcs()
KillAllProcs(w) ==
    /\ moves(w, "idle", "idle", 0)
    /\ \E m \in Monitors : process[m] = "runs"
    /\ process' = [m \in Monitors |-> IF process[m] = "runs" THEN "ended" ELSE process[m]]
    /\ UNCHANGED <<daemonVars, channelVars, mpc, trigger, gcVars, ftpVars>>

\* sendFile, getFile: getNextFtpPort() increments under its lock ...
NextFtpPort(w) ==
    /\ ftpPort < FirstPort + MaxFtps - 1
    /\ moves(w, "idle", "port", 0)
    /\ ftpPort' = ftpPort + 1
    /\ UNCHANGED <<daemonVars, channelVars, monitorVars, gcVars, ftp>>

\* ... and returns what it is after that.  The RadminFTP starts to listen,
\* if no other one listens on the port.
NewFtp(w) ==
    /\ moves(w, "port", "keep", Len(ftp) + 1)
    /\ ftp' = Append(ftp, [port |-> ftpPort, done |-> FALSE,
                           on |-> \A i \in DOMAIN ftp : ~(ftp[i].on /\ ftp[i].port = ftpPort)])
    /\ UNCHANGED <<daemonVars, channelVars, monitorVars, gcVars, ftpPort>>

\* _gc.add(ftp)
KeepFtp(w) ==
    /\ gcpc # "died"
    /\ moves(w, "keep", "idle", 0)
    /\ ftpGarbage' = Append(ftpGarbage, wpc[w].holds)
    /\ UNCHANGED <<daemonVars, channelVars, monitorVars, garbage, gcpc, deletes, ftpVars>>

\* A transfer ends and its listener stops; _is_done is set if select()
\* reported an error on the connection and by nothing else.
Transfer(f, error) ==
    /\ Up /\ f \in DOMAIN ftp /\ ftp[f].on
    /\ ftp' = [ftp EXCEPT ![f].on = FALSE, ![f].done = error]
    /\ UNCHANGED <<daemonVars, channelVars, wpc, monitorVars, gcVars, ftpPort>>

-----------------------------------------------------------------------------
(* GarbageCollector::run(), and the 60 s between two                       *)

\* _garbage.clear(true): ~Thread cancels a thread that has not exited.
GcMonitors ==
    /\ Up /\ gcpc = "sleep" /\ gcpc' = "ftp"
    /\ deletes' = [m \in Monitors |-> deletes[m] + IF m \in garbage THEN 1 ELSE 0]
    /\ mpc' = [m \in Monitors |-> IF m \in garbage THEN "exited" ELSE mpc[m]]
    /\ garbage' = {}
    /\ UNCHANGED <<daemonVars, channelVars, wpc, process, trigger, ftpGarbage, ftpVars>>

\* The loop over _ftp_garbage erases a transfer that is done, then steps over
\* the one that took its place: past the end if it was the last.
sweep ==
    LET n == Len(ftpGarbage)
        after[i \in 0..n] ==    \* the first i rounds
            IF i = 0 THEN ftpGarbage
            ELSE IF i <= Len(after[i - 1]) /\ ftp[after[i - 1][i]].done
                 THEN RemoveAt(after[i - 1], i) ELSE after[i - 1]
    IN  [left |-> after[n],
         threw |-> \E i \in 1..n : Len(after[i - 1]) = i /\ Len(after[i]) = i - 1]

\* get() of a position past the end throws: the thread ends with the lock held.
GcFtps ==
    LET r == sweep IN
    /\ Up /\ gcpc = "ftp"
    /\ gcpc' = IF r.threw THEN "died" ELSE "sleep"
    /\ ftpGarbage' = r.left
    /\ UNCHANGED <<daemonVars, channelVars, wpc, monitorVars, garbage, deletes, ftpVars>>

-----------------------------------------------------------------------------
daemonStep ==
    \/ Main \/ Forked \/ DaemonInitialize \/ DaemonInitial \/ DaemonRun \/ ChannelReset \/ DaemonFinal
    \/ \E ok \in BOOLEAN : ChannelConnect(ok) \/ DaemonWatch(ok)

sendStep(p) == SendBegin(p) \/ \E ok \in BOOLEAN : SendEnd(p, ok)

monitorStep(m) ==
    \/ MonitorInitial(m) \/ MonitorRun(m) \/ MonitorFinal(m)
    \/ MonitorCollect(m) \/ MonitorExit(m)

workerStep(w) ==
    \/ NewFtp(w) \/ KeepFtp(w)
    \/ KillAllProcs(w) \/ NextFtpPort(w)
    \/ \E m \in Monitors, a \in Actions : MonitorProcess(w, m, a)

gcStep == GcMonitors \/ GcFtps

RadminNext ==
    \/ daemonStep \/ Signal \/ gcStep
    \/ \E p \in Monitors \cup {Daemon} : sendStep(p)
    \/ \E m \in Monitors : monitorStep(m) \/ ProcessEnds(m)
    \/ \E w \in Workers : workerStep(w)
    \/ \E f \in Ftps, error \in BOOLEAN : Transfer(f, error)

RadminSpec == RadminInit /\ [][RadminNext]_radminVars

\* Threads run, calls of the kernel return and sleeps end; clients, processes
\* and the remote listener owe nothing.
RadminFairSpec ==
    /\ RadminSpec
    /\ WF_radminVars(daemonStep) /\ WF_radminVars(gcStep)
    /\ \A p \in Monitors \cup {Daemon} : WF_radminVars(sendStep(p))

-----------------------------------------------------------------------------
\* What the constants may be.
RadminParameters == Daemon \notin Monitors /\ MaxFtps \in Nat

DeletedOnce ==
    \A m \in Monitors :
        /\ deletes[m] <= 1
        /\ deletes[m] = 1 => m \notin garbage /\ mpc[m] = "exited"
        /\ mpc[m] \in {"exit", "exited"} => m \in garbage \/ deletes[m] = 1

(* A monitor is deleted at most once, and a thread that ended by itself    *)
(* has been handed to the collector, whatever was sent or refused on the   *)
(* channel meanwhile (Radmin.cpp:417, 461; Monitor.cpp:47).                *)
CollectedOnce == RadminParameters /\ DeletedOnce

(* A monitor given to the collector is deleted, unless the collector died  *)
(* in its walk over the transfers or the daemon ended (Radmin.cpp:457).    *)
GarbageGoes ==
    \A m \in Monitors : m \in garbage ~> (m \notin garbage \/ gcpc = "died" \/ ~Up)

(* A signal ends the daemon, also while it keeps trying to reach a remote  *)
(* listener that is not there (Radmin.cpp:225-252, Daemon.cpp:139); only a *)
(* daemon that monitors keep from _event_critsec for ever waits on.        *)
SignalEnds == ~keepRunning ~> dpc \in {"ended", "aborted", "greet"}

=============================================================================
