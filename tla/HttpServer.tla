----------------------------- MODULE HttpServer -----------------------------
(***************************************************************************)
(* SRL::Net::HttpServer (cpp/src/net/HttpServer.cpp): the server's thread, *)
(* which accepts connections and hands them to the managed threads of its  *)
(* HttpRequests, the requests, which answer them, and the owner, which may *)
(* stop the server.                                                        *)
(*                                                                         *)
(* _pool_lock is a RecursiveLock: the critical sections are single steps.  *)
(* How pause() and unpause() race is the subject of Thread and ThreadPool; *)
(* here a request has reached its pause when accept() returns for it.      *)
(***************************************************************************)
EXTENDS Naturals, Sequences, FiniteSets

CONSTANTS MaxConns,   \* bound: the connections clients make
          Started,    \* STARTING_THREADS
          MaxSize     \* max_cons

Requests == 1..(IF Started > MaxSize THEN Started ELSE MaxSize)
NoRequest == 0

Conns == 1..MaxConns    \* in the order in which they are made
NoConn == 0             \* _socket == NULL

\* What a client sends: nothing in time, a version that is not HTTP's or is 0.0,
\* a GET or another method without a version, requests that name theirs.
Kinds == {"silent", "notHttp", "zero", "get09", "noVersion", "http10", "http11", "http11NoHost"}
Unread == "unread"

Versions == {"0.0", "0.9", "1.0", "1.1"}

VARIABLES spc,        \* where the server's thread is
          listening,  \* does _socket listen?
          cur,        \* the request it holds
          doCancel,   \* its _do_cancel
          opc,        \* where the owner is in stop()
          size,       \* _size
          available,  \* _available_pool
          busy,       \* _busy_pool
          blocker,    \* _blocker
          rpc,        \* where each request's thread is
          sock,       \* its _socket
          version,    \* its _major and _minor
          conn,       \* what became of each connection
          kind,       \* what its client sent, once it is read
          sent,       \* the answers it got: did they have headers?
          crashed     \* why the process died, if it did

poolVars == <<size, available, busy, blocker>>
serverVars == <<spc, listening, cur, doCancel>>
requestVars == <<rpc, sock, version>>
connVars == <<conn, kind, sent>>
vars == <<spc, listening, cur, doCancel, opc, size, available, busy, blocker,
          rpc, sock, version, conn, kind, sent, crashed>>

\* The constructor: the first requests are created paused and started.
Init ==
    /\ spc = "idle" /\ listening = FALSE /\ cur = NoRequest /\ doCancel = FALSE
    /\ opc = "owner"
    /\ size = Started
    /\ available = [i \in 1..Started |-> i]
    /\ busy = {}
    /\ blocker = 1
    /\ rpc = [r \in Requests |-> IF r <= Started THEN "toPause" ELSE "none"]
    /\ sock = [r \in Requests |-> NoConn]
    /\ version = [r \in Requests |-> "0.0"]
    /\ conn = [c \in Conns |-> "new"]
    /\ kind = [c \in Conns |-> Unread]
    /\ sent = [c \in Conns |-> <<>>]
    /\ crashed = "no"

-----------------------------------------------------------------------------
(* The server's thread: initial(), run(), final()                          *)

\* start(): bind and listen, which may fail.
ServerInitial ==
    /\ spc = "idle"
    /\ \/ spc' = "check" /\ listening' = TRUE
       \/ spc' = "closing" /\ UNCHANGED listening
    /\ UNCHANGED <<cur, doCancel, opc, poolVars, requestVars, connVars, crashed>>

\* _getRequest() hands out r; the last one of a full pool closes the blocker.
take(r) ==
    /\ blocker' = IF available' = <<>> /\ size' = MaxSize /\ blocker > 0
                  THEN blocker - 1 ELSE blocker
    /\ busy' = busy \cup {r}
    /\ cur' = r
    /\ spc' = "accept"

GetAvailable ==
    /\ spc \in {"get", "getAgain"}
    /\ available # <<>>
    /\ available' = SubSeq(available, 1, Len(available) - 1)
    /\ size' = size
    /\ take(available[Len(available)])
    /\ UNCHANGED <<listening, doCancel, opc, requestVars, connVars, crashed>>

\* _createRequest()
GetCreated ==
    /\ spc \in {"get", "getAgain"}
    /\ available = <<>> /\ size < MaxSize
    /\ available' = available
    /\ size' = size + 1
    /\ rpc' = [rpc EXCEPT ![size + 1] = "toPause"]
    /\ take(size + 1)
    /\ UNCHANGED <<listening, doCancel, opc, sock, version, connVars, crashed>>

\* NULL: wait at the blocker, and use the null pointer the second time.
GetNothing ==
    /\ spc \in {"get", "getAgain"}
    /\ available = <<>> /\ size >= MaxSize
    /\ IF spc = "get" THEN spc' = "blocked" /\ UNCHANGED crashed
                      ELSE crashed' = "nullRequest" /\ UNCHANGED spc
    /\ UNCHANGED <<listening, cur, doCancel, opc, poolVars, requestVars, connVars>>

BlockerAcquire ==
    /\ spc = "blocked"
    /\ blocker > 0
    /\ blocker' = blocker - 1
    /\ spc' = "getAgain"
    /\ UNCHANGED <<listening, cur, doCancel, opc, size, available, busy, requestVars,
                   connVars, crashed>>

\* request->accept(_socket.accept()); request->unpause();
Accept(c) ==
    /\ spc = "accept" /\ listening
    /\ conn[c] = "backlog" /\ \A d \in 1..(c - 1) : conn[d] # "backlog"
    /\ rpc[cur] = "paused"
    /\ conn' = [conn EXCEPT ![c] = "accepted"]
    /\ sock' = [sock EXCEPT ![cur] = c]
    /\ rpc' = [rpc EXCEPT ![cur] = "parse"]
    /\ spc' = "check"
    /\ UNCHANGED <<listening, cur, doCancel, opc, poolVars, version, kind, sent, crashed>>

\* accept() fails: run() answers false and the thread goes on to final().
AcceptFails ==
    /\ spc = "accept"
    /\ spc' = "closing"
    /\ UNCHANGED <<listening, cur, doCancel, opc, poolVars, requestVars, connVars, crashed>>

\* doStateCheck(), and the thread's own test before run(): the next round, or
\* _selfTerminate() and final().
StateCheck ==
    /\ spc = "check"
    /\ spc' = IF doCancel THEN "closing" ELSE "get"
    /\ UNCHANGED <<listening, cur, doCancel, opc, poolVars, requestVars, connVars, crashed>>

\* final(): close the connections of the busy requests, without the lock ...
closeBusy ==
    conn' = [c \in Conns |->
                IF \E r \in busy : sock[r] = c THEN "closed" ELSE conn[c]]

\* ... then _busy_pool.clear(); _socket.close(); and with the listening socket
\* go the connections nobody accepted.
clearBusy ==
    /\ busy' = {}
    /\ listening' = FALSE
    /\ conn' = [c \in Conns |-> IF conn[c] = "backlog" THEN "closed" ELSE conn[c]]

FinalClose ==
    /\ spc = "closing"
    /\ closeBusy
    /\ spc' = "clearing"
    /\ UNCHANGED <<listening, cur, doCancel, opc, poolVars, requestVars, kind, sent, crashed>>

FinalClear ==
    /\ spc = "clearing"
    /\ clearBusy
    /\ spc' = "dead"
    /\ UNCHANGED <<cur, doCancel, opc, size, available, blocker, requestVars, kind,
                   sent, crashed>>

ServerStep ==
    \/ ServerInitial \/ GetAvailable \/ GetCreated \/ GetNothing \/ BlockerAcquire
    \/ (\E c \in Conns : Accept(c)) \/ StateCheck \/ FinalClose \/ FinalClear

-----------------------------------------------------------------------------
(* The owner: stop()                                                       *)

ownerGo(label) == opc' = label

\* cancel(5000): _do_cancel, and wait for the thread.
Stop ==
    /\ opc = "owner" /\ spc # "idle"
    /\ doCancel' = TRUE
    /\ ownerGo("joining")
    /\ UNCHANGED <<spc, listening, cur, poolVars, requestVars, connVars, crashed>>

StopJoined ==
    /\ opc = "joining" /\ spc = "dead"
    /\ ownerGo("stopped")
    /\ UNCHANGED <<serverVars, poolVars, requestVars, connVars, crashed>>

\* Faulty: a thread that waits in accept() is not killed.
StopKill_NotInAccept ==
    /\ opc = "joining" /\ spc \notin {"dead", "accept"}
    /\ spc' = "dead"
    /\ ownerGo("closing")
    /\ UNCHANGED <<listening, cur, doCancel, poolVars, requestVars, connVars, crashed>>

\* The wait timed out: terminate() kills the thread where it is ...
StopKill ==
    /\ opc = "joining" /\ spc # "dead"
    /\ spc' = "dead"
    /\ ownerGo("closing")
    /\ UNCHANGED <<listening, cur, doCancel, poolVars, requestVars, connVars, crashed>>

\* ... and calls final() in its place.
StopFinalClose ==
    /\ opc = "closing"
    /\ closeBusy
    /\ ownerGo("clearing")
    /\ UNCHANGED <<serverVars, poolVars, requestVars, kind, sent, crashed>>

StopFinalClear ==
    /\ opc = "clearing"
    /\ clearBusy
    /\ ownerGo("stopped")
    /\ UNCHANGED <<spc, cur, doCancel, size, available, blocker, requestVars, kind,
                   sent, crashed>>

StopStep == StopJoined \/ StopKill \/ StopFinalClose \/ StopFinalClear

-----------------------------------------------------------------------------
(* A request's thread: the managed loop around run() and final()           *)

serverSide == UNCHANGED <<serverVars, opc, crashed>>

goto(r, label) == rpc' = [rpc EXCEPT ![r] = label]

\* The thread gets to its pause.
ReachPause(r) ==
    /\ rpc[r] = "toPause"
    /\ goto(r, "paused")
    /\ UNCHANGED <<sock, version, poolVars, connVars>> /\ serverSide

\* What _parseVersion() makes of a request: one whose version is not HTTP's,
\* and one without a version that is not a GET, leave _major and _minor as the
\* last request of this thread had them.
parsed(k, old) ==
    CASE k \in {"silent", "noVersion", "notHttp"} -> old
      [] k = "zero"                    -> "0.0"
      [] k = "get09"                   -> "0.9"
      [] k = "http10"                  -> "1.0"
      [] k \in {"http11", "http11NoHost"} -> "1.1"

\* startHeader(), sendHeader(): "HTTP/0.9 supports no headers"
withHeaders(v) == v \notin {"0.0", "0.9"}

answer(c, v) == sent' = [sent EXCEPT ![c] = Append(@, withHeaders(v))]

\* Requests that _parseRequest() refuses with an error before any handler.
Refused(k, v) == k \in {"notHttp", "zero"} \/ (v = "1.1" /\ k \in {"http11NoHost", "noVersion"})

\* _parseRequest() up to the handler: a silent client, or one whose connection
\* was closed meanwhile, makes it throw; so does a request that is refused.
Parse(r) ==
    LET c == sock[r] IN
    /\ rpc[r] = "parse"
    /\ \/ /\ conn[c] = "closed"
          /\ goto(r, "final")
          /\ UNCHANGED <<version, kind, sent>>
       \/ /\ conn[c] # "closed"
          /\ \E k \in Kinds :
                LET v == parsed(k, version[r]) IN
                /\ kind' = [kind EXCEPT ![c] = k]
                /\ version' = [version EXCEPT ![r] = v]
                /\ IF Refused(k, v) THEN answer(c, v) ELSE sent' = sent
                /\ goto(r, IF k = "silent" \/ Refused(k, v) THEN "final" ELSE "handle")
    /\ UNCHANGED <<sock, poolVars, conn>> /\ serverSide

\* Faulty: a handler that did its work is followed by the error page too.
Handle_BothAnswers(r) ==
    LET c == sock[r] IN
    /\ rpc[r] = "handle"
    /\ IF conn[c] = "closed"
       THEN goto(r, "final") /\ UNCHANGED <<conn, sent>>
       ELSE /\ sent' = [sent EXCEPT ![c] = @ \o
                          <<withHeaders(version[r]), withHeaders(version[r])>>]
            /\ conn' = [conn EXCEPT ![c] = "closed"]
            /\ goto(r, "final")
    /\ UNCHANGED <<sock, version, poolVars, kind>> /\ serverSide

\* The handler answers, or it does not know the method and the error page is
\* sent; _keep_alive is never set, so the connection is closed.
Handle(r) ==
    LET c == sock[r] IN
    /\ rpc[r] = "handle"
    /\ IF conn[c] = "closed"
       THEN goto(r, "final") /\ UNCHANGED <<conn, sent>>
       ELSE /\ answer(c, version[r])
            /\ conn' = [conn EXCEPT ![c] = "closed"]
            /\ goto(r, "final")
    /\ UNCHANGED <<sock, version, poolVars, kind>> /\ serverSide

\* HttpRequest::final(): close and forget the socket, and what came over it.
Final(r) ==
    /\ rpc[r] = "final"
    /\ conn' = [conn EXCEPT ![sock[r]] = "closed"]
    /\ sock' = [sock EXCEPT ![r] = NoConn]
    /\ kind' = [kind EXCEPT ![sock[r]] = Unread]
    /\ sent' = [sent EXCEPT ![sock[r]] = <<>>]
    /\ goto(r, "complete")
    /\ UNCHANGED <<version, poolVars>> /\ serverSide

\* task_completed(): pause() itself, back to the available pool, and the
\* blocker opens when a full pool gets its first free request.  remove() of a
\* request that is not in the busy pool throws, and nobody catches it.
TaskCompleted(r) ==
    /\ rpc[r] = "complete"
    /\ IF r \notin busy
       THEN crashed' = "remove" /\ UNCHANGED <<poolVars, rpc>>
       ELSE /\ busy' = busy \ {r}
            /\ available' = Append(available, r)
            /\ blocker' = IF available = <<>> /\ size = MaxSize /\ blocker = 0
                          THEN 1 ELSE blocker
            /\ goto(r, "toPause")
            /\ UNCHANGED <<size, crashed>>
    /\ UNCHANGED <<serverVars, opc, sock, version, connVars>>

RequestStep(r) ==
    ReachPause(r) \/ Parse(r) \/ Handle(r) \/ Final(r) \/ TaskCompleted(r)

-----------------------------------------------------------------------------
\* A client connects: the kernel queues it, or refuses it.
Connect(c) ==
    /\ conn[c] = "new" /\ \A d \in 1..(c - 1) : conn[d] # "new"
    /\ conn' = [conn EXCEPT ![c] = IF listening THEN "backlog" ELSE "closed"]
    /\ UNCHANGED <<serverVars, opc, poolVars, requestVars, kind, sent, crashed>>

Next ==
    /\ crashed = "no"
    /\ \/ ServerStep \/ AcceptFails \/ Stop \/ StopStep
       \/ \E r \in Requests : RequestStep(r)
       \/ \E c \in Conns : Connect(c)

Spec == Init /\ [][Next]_vars

\* Threads are scheduled, readLine() times out and handlers return.
FairSpec ==
    /\ Spec
    /\ WF_vars(crashed = "no" /\ ServerStep)
    /\ WF_vars(crashed = "no" /\ StopStep)
    /\ \A r \in Requests : WF_vars(crashed = "no" /\ RequestStep(r))

-----------------------------------------------------------------------------
\* What the constants may be, and a server that may have as many requests as
\* it starts with: the constructor does not compare max_cons with
\* STARTING_THREADS.
Parameters == MaxConns \in Nat /\ Started \in Nat /\ MaxSize \in Nat
Fits == Started <= MaxSize /\ 0 < MaxSize

RequestLabels == {"none", "toPause", "paused", "parse", "handle", "final", "complete"}

TypeOK ==
    /\ spc \in {"idle", "get", "blocked", "getAgain", "accept", "check", "closing",
                "clearing", "dead"}
    /\ opc \in {"owner", "joining", "closing", "clearing", "stopped"}
    /\ listening \in BOOLEAN /\ doCancel \in BOOLEAN
    /\ cur \in Requests \cup {NoRequest}
    /\ size \in Requests \cup {0}
    /\ available \in Seq(Requests) /\ busy \subseteq Requests
    /\ blocker \in 0..1
    /\ rpc \in [Requests -> RequestLabels]
    /\ sock \in [Requests -> Conns \cup {NoConn}]
    /\ version \in [Requests -> Versions]
    /\ conn \in [Conns -> {"new", "backlog", "accepted", "closed"}]
    /\ kind \in [Conns -> Kinds \cup {Unread}]
    /\ sent \in [Conns -> Seq(BOOLEAN)]
    /\ crashed \in {"no", "nullRequest", "remove"}

(* While the server serves, its thread finds a request after the blocker   *)
(* let it through ("this should never happen!!", HttpServer.cpp:491), and  *)
(* every request that completes is in the busy pool (HttpServer.cpp:559).  *)
ServesOn == crashed # "no" => spc = "dead"

(* Stopping the server does not kill the process either (HttpServer.h:261, *)
(* HttpServer.cpp:516).                                                    *)
NoCrash == crashed = "no"

(* Every connection is served by one request, and a request in the         *)
(* available pool has none (HttpServer.cpp:38, 316, 560).                  *)
OneRequestEach ==
    /\ \A r, q \in Requests : sock[r] = sock[q] /\ sock[r] # NoConn => r = q
    /\ \A i \in DOMAIN available : sock[available[i]] = NoConn
    /\ \A c \in Conns : conn[c] = "accepted" => \E r \in busy : sock[r] = c

(* A connection gets one answer, and has it when its request closes it,    *)
(* unless the client was silent or the server closed it first; the answer  *)
(* has headers exactly if the client named a version that has them         *)
(* (HttpServer.cpp:79, 284, 290).  Excepted are the requests that leave    *)
(* the version as it was: what they get depends on the request the thread  *)
(* served before.                                                          *)
AnsweredOnce ==
    \A c \in Conns :
        /\ Len(sent[c]) <= 1
        /\ \A r \in Requests :
               sock[r] = c /\ rpc[r] = "final" /\ conn[c] = "accepted"
                   => (sent[c] = <<>> <=> kind[c] = "silent")
        /\ sent[c] # <<>> /\ kind[c] \notin {"noVersion", "notHttp"}
               => (sent[c][1] <=> kind[c] \in {"http10", "http11", "http11NoHost"})

(* What the server keeps: it serves on until it is stopped, a connection   *)
(* has one request, and a client one answer (HttpServer.cpp:36, 208,       *)
(* 479-568).                                                               *)
ServerRight ==
    /\ Parameters /\ TypeOK
    /\ Fits => ServesOn
    /\ OneRequestEach /\ AnsweredOnce

(* Whoever is in the queue of the listening socket is served, or refused   *)
(* when the server stops, however many requests are busy (HttpServer.cpp:  *)
(* 489, 565).                                                              *)
QueuedIsServed ==
    \A c \in Conns : conn[c] = "backlog" ~> conn[c] = "closed" \/ crashed # "no"

(* stop() returns, whatever the server's thread waits for (HttpServer.cpp: *)
(* 436, 440).                                                              *)
StopReturns == opc = "joining" ~> opc = "stopped" \/ crashed # "no"
=============================================================================
