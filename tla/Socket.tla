------------------------------- MODULE Socket -------------------------------
(***************************************************************************)
(* SRL::Net::Socket and its Descriptor (cpp/src/net/Socket.cpp), and the   *)
(* ServerSocket (cpp/src/net/ServerSocket.cpp), whose thread accepts       *)
(* connections while other threads open and close sockets of their own.    *)
(* A Descriptor holds the number of a kernel socket.  The kernel gives the *)
(* lowest free number, so a number that was closed is soon another's.      *)
(***************************************************************************)
EXTENDS Integers, Sequences, FiniteSets, FiniteSetsExt

CONSTANTS Objs,       \* the Socket objects of the program
          Fds,        \* the numbers of kernel sockets, integers
          MaxSockets, \* bound: how many kernel sockets are made
          MaxIncoming \* bound: connections the server socket keeps

INVALID == -1

\* What the proof supposes of the constants.
SocketParameters == Fds \subseteq Nat /\ MaxSockets \in Nat /\ MaxIncoming \in Nat

VARIABLES desc,       \* the Descriptor of every Socket object
          server,     \* the Descriptor of the ServerSocket
          conns,      \* _connections
          kernel,     \* the kernel's sockets, by number
          made,       \* how many were made
          shared      \* history: a listener made a Socket of a descriptor

socketVars == <<desc, server, conns, kernel, made, shared>>

\* A Descriptor; of is a history field: the kernel socket it was made for
Closed(d) == [d EXCEPT !.fd = INVALID, !.connected = FALSE, !.bound = FALSE, !.listening = FALSE, !.of = 0]
NoDescriptor(type) ==
    [fd |-> INVALID, type |-> type, connected |-> FALSE, bound |-> FALSE,
     listening |-> FALSE, blocking |-> TRUE, of |-> 0]
isValid(d) == d.fd # INVALID
inUse(d) == d.listening \/ d.bound

Free == [serial |-> 0, type |-> "none", state |-> "free", blocking |-> TRUE]
socketOf(d) == IF isValid(d) THEN kernel[d.fd] ELSE Free
unused == {f \in Fds : kernel[f] = Free}

Types == {"TCP", "UDP"}

-----------------------------------------------------------------------------
SocketInit ==
    /\ desc = [o \in Objs |-> NoDescriptor("TCP")]
    /\ server = NoDescriptor("TCP")
    /\ conns = <<>>
    /\ kernel = [f \in Fds |-> Free]
    /\ made = 0 /\ shared = FALSE

\* socket() or accept(): a new kernel socket in the lowest number
fresh(type, state) ==
    /\ unused # {} /\ made < MaxSockets
    /\ made' = made + 1
    /\ kernel' = [kernel EXCEPT ![Min(unused)] =
                     [serial |-> made + 1, type |-> type, state |-> state, blocking |-> TRUE]]
opened(d, type, connected) ==
    [d EXCEPT !.fd = Min(unused), !.type = type, !.connected = connected, !.of = made + 1]

\* Socket(type): Descriptor::open().  A datagram socket counts as connected.
Open(o, type) ==
    /\ ~isValid(desc[o])
    /\ fresh(type, "new")
    /\ desc' = [desc EXCEPT ![o] = opened(NoDescriptor(type), type, type = "UDP")]
    /\ UNCHANGED <<server, conns>>

\* An error: the number is kept.
closed_KeepsNumber(d) == [d EXCEPT !.connected = FALSE, !.bound = FALSE, !.listening = FALSE]

\* Descriptor::close()
closed(d) == Closed(d)
release(d) == IF isValid(d) THEN [kernel EXCEPT ![d.fd] = Free] ELSE kernel
Close(o) ==
    /\ isValid(desc[o])
    /\ desc' = [desc EXCEPT ![o] = closed(desc[o])]
    /\ kernel' = release(desc[o])
    /\ UNCHANGED <<server, conns, made>>

\* reset(): close(), then open() of the same type; _isblocking is not reset
Reset(o) ==
    LET d == desc[o] IN
    /\ isValid(d) /\ made < MaxSockets
    /\ LET left == release(d)
           f == Min({g \in Fds : left[g] = Free}) IN
       /\ kernel' = [left EXCEPT ![f] = [serial |-> made + 1, type |-> d.type, state |-> "new", blocking |-> TRUE]]
       /\ desc' = [desc EXCEPT ![o] = [closed(d) EXCEPT !.fd = f, !.connected = (d.type = "UDP"), !.of = made + 1]]
    /\ made' = made + 1
    /\ UNCHANGED <<server, conns>>

\* setBlockingMode(): nothing to do if the flag says so
mode(d, blocking) == [d EXCEPT !.blocking = blocking]
SetBlockingMode(o, blocking) ==
    /\ isValid(desc[o]) /\ blocking # desc[o].blocking
    /\ desc' = [desc EXCEPT ![o] = mode(desc[o], blocking)]
    /\ kernel' = [kernel EXCEPT ![desc[o].fd].blocking = blocking]
    /\ UNCHANGED <<server, conns, made>>

\* connect() without a timeout, which succeeds or throws, and with one: the
\* flag is not set, and after a timeout the socket stays non-blocking.
ConnectSocket(o) ==
    /\ isValid(desc[o]) /\ ~inUse(desc[o]) /\ socketOf(desc[o]).state = "new"
    /\ desc' = [desc EXCEPT ![o].connected = TRUE]
    /\ kernel' = [kernel EXCEPT ![desc[o].fd].state = "connected"]
    /\ UNCHANGED <<server, conns, made>>
ConnectTimed(o, inTime) ==
    /\ isValid(desc[o]) /\ ~inUse(desc[o]) /\ socketOf(desc[o]).state = "new"
    /\ kernel' = [kernel EXCEPT ![desc[o].fd].state = IF inTime THEN "connected" ELSE "connecting",
                                ![desc[o].fd].blocking = IF inTime THEN desc[o].blocking ELSE FALSE]
    /\ desc' = IF inTime THEN desc ELSE [desc EXCEPT ![o] = mode(desc[o], FALSE)]
    /\ UNCHANGED <<server, conns, made>>

Bind(o) ==
    /\ isValid(desc[o]) /\ ~inUse(desc[o]) /\ socketOf(desc[o]).state = "new"
    /\ desc' = [desc EXCEPT ![o].bound = TRUE]
    /\ kernel' = [kernel EXCEPT ![desc[o].fd].state = "bound"]
    /\ UNCHANGED <<server, conns, made>>

\* listen() needs the flag, the kernel a bound socket of a stream
Listen(o) ==
    /\ desc[o].bound /\ desc[o].type = "TCP"
    /\ desc' = [desc EXCEPT ![o].listening = TRUE]
    /\ kernel' = [kernel EXCEPT ![desc[o].fd].state = "listening"]
    /\ UNCHANGED <<server, conns, made>>

\* accept() into a Socket of its own
AcceptInto(o, p) ==
    /\ socketOf(desc[o]).state = "listening" /\ ~isValid(desc[p]) /\ o # p
    /\ fresh("TCP", "connected")
    /\ desc' = [desc EXCEPT ![p] = opened(NoDescriptor("TCP"), "TCP", TRUE)]
    /\ UNCHANGED <<server, conns>>

\* send() and recv() that find the connection gone close the socket.
Disconnected(o) ==
    /\ desc[o].connected /\ socketOf(desc[o]).state = "left"
    /\ desc' = [desc EXCEPT ![o] = closed(desc[o])]
    /\ kernel' = release(desc[o])
    /\ UNCHANGED <<server, conns, made>>

\* External: the other end closes a connection.
PeerLeaves(f) ==
    /\ kernel[f].state = "connected"
    /\ kernel' = [kernel EXCEPT ![f].state = "left"]
    /\ UNCHANGED <<desc, server, conns, made>>

-----------------------------------------------------------------------------
(* ServerSocket                                                            *)

\* ServerSocket(port), and initial() of its thread: bind and listen
StartListener ==
    /\ ~isValid(server)
    /\ fresh("TCP", "listening")
    /\ server' = [opened(server, "TCP", FALSE) EXCEPT !.bound = TRUE, !.listening = TRUE]
    /\ UNCHANGED <<desc, conns>>

\* run(): accept(), keep the descriptor, and tell the listener, which may make
\* a Socket of the descriptor: both then hold the number.
ServerAccept ==
    LET d == opened(NoDescriptor("TCP"), "TCP", TRUE) IN
    /\ socketOf(server).state = "listening" /\ Len(conns) < MaxIncoming
    /\ fresh("TCP", "connected")
    /\ conns' = Append(conns, d)
    /\ \/ UNCHANGED <<desc, shared>>
       \/ /\ \E o \in Objs : ~isValid(desc[o]) /\ desc' = [desc EXCEPT ![o] = d]
          /\ shared' = TRUE
    /\ UNCHANGED server

\* waitForRecv() finds a connection in the error set: the listener, who is
\* given the descriptor, closes it, and it leaves the list.
WaitForRecv(i) ==
    /\ i \in 1..Len(conns) /\ socketOf(conns[i]).state = "left"
    /\ conns' = SubSeq(conns, 1, i - 1) \o SubSeq(conns, i + 1, Len(conns))
    /\ kernel' = release(conns[i])
    /\ UNCHANGED <<desc, server, made>>

\* stopListener(): final() closes every connection; ~ServerSocket()
StopListener ==
    /\ isValid(server)
    /\ LET mine == {conns[i].fd : i \in 1..Len(conns)} \cup {server.fd} IN
       kernel' = [f \in Fds |-> IF f \in mine THEN Free ELSE kernel[f]]
    /\ conns' = <<>>
    /\ server' = closed(server)
    /\ UNCHANGED <<desc, made>>

SocketNext ==
    \/ ServerAccept
    \/ /\ UNCHANGED shared
       /\ \/ \E o \in Objs : Close(o) \/ Reset(o) \/ ConnectSocket(o) \/ Bind(o) \/ Listen(o) \/ Disconnected(o)
          \/ \E o \in Objs, t \in Types : Open(o, t)
          \/ \E o \in Objs, b \in BOOLEAN : SetBlockingMode(o, b) \/ ConnectTimed(o, b)
          \/ \E o, p \in Objs : AcceptInto(o, p)
          \/ \E f \in Fds : PeerLeaves(f)
          \/ StartListener \/ StopListener
          \/ \E i \in 1..Len(conns) : WaitForRecv(i)

SocketSpec == SocketInit /\ [][SocketNext]_socketVars

-----------------------------------------------------------------------------
holders == {<<"obj", o>> : o \in Objs} \cup {<<"conn", i>> : i \in 1..Len(conns)} \cup {<<"server", 0>>}
heldBy(h) == CASE h[1] = "obj" -> desc[h[2]] [] h[1] = "conn" -> conns[h[2]] [] OTHER -> server
owners(f) == {h \in holders : heldBy(h).fd = f}

(* A number that a Descriptor holds is that of the kernel socket it was    *)
(* made for: no call of a Socket reaches, and no close() ends, a socket of *)
(* somebody else.                                                          *)
OwnSocket == \A h \in holders : isValid(heldBy(h)) => socketOf(heldBy(h)).serial = heldBy(h).of

(* No kernel socket is left behind, and none has two holders that would    *)
(* both close it.                                                          *)
OneOwner == \A f \in Fds : kernel[f] # Free => Cardinality(owners(f)) = 1

(* What the flags promise holds in the kernel: a Descriptor without socket *)
(* promises nothing, a bound one is bound, a listening one listens.        *)
FlagsTrue ==
    \A h \in holders :
        LET d == heldBy(h) IN
        /\ ~isValid(d) => ~d.connected /\ ~d.bound /\ ~d.listening
        /\ d.listening => socketOf(d).state = "listening"
        /\ d.bound => socketOf(d).state \in {"bound", "listening"}
        /\ d.connected /\ d.type = "TCP" => socketOf(d).state \in {"connected", "left"}

(* As long as no listener makes a Socket of the descriptor it is told of,  *)
(* every socket is what its Descriptor says and nobody else's, in whatever *)
(* order sockets are made, accepted and closed (Socket.cpp:56-130,         *)
(* ServerSocket.cpp:99-170).  One that does shares the number with the     *)
(* list of connections, and a close by either is felt by the other.        *)
DescriptorsSound == SocketParameters /\ (~shared => OwnSocket /\ OneOwner /\ FlagsTrue)

=============================================================================
