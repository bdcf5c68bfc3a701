------------------------------- MODULE MCNet -------------------------------
(***************************************************************************)
(* The network classes and the two servers for TLC.  They share no state,  *)
(* so one run looks at each of them by itself: part says which one a       *)
(* behaviour is about, and the variables of the others stay as they are.   *)
(* HttpServer, Radmin, Socket and TcpSocket have their constants from the  *)
(* cfg.                                                                    *)
(***************************************************************************)
EXTENDS HttpServer, Radmin, Socket, TcpSocket

\* What readUntil() is asked for.
LineEnds == {<<"n">>}

\* The lines of servers: fields that repeat, announce a content, go on in the
\* next line or are none, every two of them in any order, and three of the
\* fields and continuations.
Line(k, n, v) == [kind |-> k, name |-> n, value |-> v]
Fields == {Line("field", "content-length", <<2>>), Line("field", "content-length", <<0>>),
           Line("field", "host", <<1>>), Line("more", " x", <<3>>), Line("more", "", <<>>),
           Line("junk", "", <<>>), Line("end", "", <<>>)}
Parsed == {f \in Fields : f.kind \in {"field", "more"} /\ f.value # <<>>}
Status == Line("status", "", <<>>)
End == Line("end", "", <<>>)
Scripts ==
    {<<Status>> \o s \o <<End>> : s \in UNION {[1..n -> Fields] : n \in 0..2} \cup [1..3 -> Parsed]}
    \cup {<<>>, <<Line("junk", "", <<>>), End>>, <<Status, Line("field", "host", <<1>>)>>}

VARIABLES part,
          clientPc, clientPage, read, headers, name, value, output, connections,
          slow,
          devices, objects, interfaces, newifs, deadifs, freed, due, left,
          lost, half, held, seen, calls

clientVars == <<clientPc, clientPage, read, headers, name, value, output,
                connections, slow>>
nicsVars == <<devices, objects, interfaces, newifs, deadifs, freed, due, left,
              lost, half, held, seen, calls>>
httpVars == vars
netVars == <<part, tcpVars, socketVars, clientVars, nicsVars, httpVars,
             radminVars>>

Client == INSTANCE HttpClient
    WITH Answers <- Scripts, MaxHeaders <- 3, MaxGets <- 2, pc <- clientPc, page <- clientPage,
         sockets <- connections
Nics == INSTANCE NetworkInterface
    WITH Names <- {"lo", "eth", "tun"}, Strange <- {"tun"},
         Addresses <- {"10.0.0.1"}, MaxObjects <- 4, MaxCalls <- 4,
         sockets <- left

\* A part that does not run.
Off == "off"
nicsOff == /\ devices = Off /\ objects = Off /\ interfaces = Off
           /\ newifs = Off /\ deadifs = Off /\ freed = Off /\ due = Off
           /\ left = Off /\ lost = Off /\ half = Off /\ held = Off /\ seen = Off /\ calls = Off

NetInit ==
    /\ part \in {"tcp", "socket", "client", "nics", "http", "radmin"}
    /\ TcpInit
    /\ SocketInit
    /\ Client!Init
    /\ IF part = "nics" THEN Nics!Init ELSE nicsOff
    /\ Init
    /\ RadminInit

NetNext ==
    \/ part = "tcp" /\ TcpNext /\ UNCHANGED <<part, socketVars, clientVars,
            nicsVars, httpVars, radminVars>>
    \/ part = "socket" /\ SocketNext /\ UNCHANGED <<part, tcpVars, clientVars,
            nicsVars, httpVars, radminVars>>
    \/ part = "client" /\ Client!Next /\ UNCHANGED <<part, tcpVars,
            socketVars, nicsVars, httpVars, radminVars>>
    \/ part = "nics" /\ Nics!Next /\ UNCHANGED <<part, tcpVars, socketVars,
            clientVars, httpVars, radminVars>>
    \/ part = "http" /\ Next /\ UNCHANGED <<part, tcpVars, socketVars,
            clientVars, nicsVars, radminVars>>
    \/ part = "radmin" /\ RadminNext /\ UNCHANGED <<part, tcpVars,
            socketVars, clientVars, nicsVars, httpVars>>

\* Threads run, readLine() and sleeps time out, handlers and calls of the kernel
\* return; clients, monitored processes and the remote listener owe nothing.
NetSpec ==
    /\ NetInit /\ [][NetNext]_netVars
    /\ WF_vars(part = "http" /\ crashed = "no" /\ ServerStep)
    /\ WF_vars(part = "http" /\ crashed = "no" /\ StopStep)
    /\ \A r \in Requests :
           WF_vars(part = "http" /\ crashed = "no" /\ RequestStep(r))
    /\ WF_radminVars(part = "radmin" /\ daemonStep)
    /\ WF_radminVars(part = "radmin" /\ gcStep)
    /\ \A p \in Monitors \cup {Daemon} :
           WF_radminVars(part = "radmin" /\ sendStep(p))

-----------------------------------------------------------------------------
(* Who asks gets the answer there is: a get() that meets no timeout has    *)
(* the headers the server sent for it and its content but the last byte,   *)
(* and the list of interfaces follows the kernel's, also when an update    *)
(* throws half way; every object that is not lost then is deleted once and *)
(* not while a caller may use it (HttpClient.cpp, HttpHeaders.cpp:31,      *)
(* TcpSocket.cpp:131, linux/NetworkInterface.cpp:139-210).                 *)
AnswersRight == Client!GetsTheAnswer /\ (part = "nics" => Nics!InterfacesRight)

(* A queued connection is served or refused and stop() returns, whatever   *)
(* the server's thread waits for; a signal ends radmin, also while it      *)
(* keeps trying to reach a remote listener, and a monitor given to the     *)
(* collector is deleted, unless the collector or the daemon ended          *)
(* (HttpServer.cpp:436, 489, Radmin.cpp:225-252, 457, Daemon.cpp:139).     *)
ServersGoOn == QueuedIsServed /\ StopReturns /\ SignalEnds /\ GarbageGoes
=============================================================================
