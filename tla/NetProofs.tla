------------------------------ MODULE NetProofs ------------------------------
(***************************************************************************)
(* Proofs about the classes over sockets: HttpServer for any number of     *)
(* connections and requests, with a stop() at any time; radmin's monitors  *)
(* and their collector; Socket's descriptors and TcpSocket's stream.                         *)
(***************************************************************************)
EXTENDS HttpServer, Radmin, Socket, TcpSocket, FiniteSetTheorems,
        SequenceTheorems, WellFoundedInduction, TLAPS

-----------------------------------------------------------------------------
(* HttpServer: the inductive invariant, part by part                       *)

\* The requests that have been made, the ones that wait for a connection, and
\* where a request is when it has one.
Resting == {"toPause", "paused"}
Connected == {"parse", "handle", "final"}

\* Every request rests in the available pool, or is in the busy pool, until
\* final() clears the busy pool; the server's thread holds one that rests.
Pools ==
    /\ \A r \in Requests : rpc[r] = "none" <=> r > size
    /\ \A i \in DOMAIN available : rpc[available[i]] \in Resting /\ available[i] \notin busy
    /\ \A i, j \in DOMAIN available : available[i] = available[j] => i = j
    /\ \A r \in busy : r <= size
    /\ spc = "accept" => cur \in busy /\ rpc[cur] \in Resting
    /\ spc # "dead" => \A r \in Requests : rpc[r] \in Connected \cup {"complete"} => r \in busy
    /\ opc \in {"closing", "clearing"} => spc = "dead"

\* A full pool without a free request has closed the blocker.
Blocker ==
    /\ size <= MaxSize
    /\ available = <<>> /\ size = MaxSize => blocker = 0
    /\ spc = "getAgain" => available # <<>> \/ size < MaxSize
    /\ crashed # "no" => spc = "dead"

\* Requests and their connections.
Sockets ==
    /\ \A r \in Requests : rpc[r] \in Connected <=> sock[r] # NoConn
    /\ \A r \in Requests : sock[r] # NoConn => conn[sock[r]] \in {"accepted", "closed"}
    /\ \A r, q \in Requests : sock[r] = sock[q] /\ sock[r] # NoConn => r = q
    /\ \A c \in Conns : conn[c] = "accepted" => \E r \in busy : sock[r] = c
    /\ spc = "clearing" \/ opc = "clearing" => \A c \in Conns : conn[c] # "accepted"

\* What has been sent over a connection, from what has been read from it.
Headed == {"http10", "http11", "http11NoHost"}
Asked(k, v) == k \in {"noVersion", "notHttp"} \/ (withHeaders(v) <=> k \in Headed)
Answers ==
    /\ \A c \in Conns : conn[c] \in {"new", "backlog"} => sent[c] = <<>>
    /\ \A c \in Conns : Len(sent[c]) <= 1
    /\ \A r \in Requests : rpc[r] \in {"parse", "handle"} => sent[sock[r]] = <<>>
    /\ \A r \in Requests : rpc[r] = "handle" => kind[sock[r]] # "silent" /\ Asked(kind[sock[r]], version[r])
    /\ \A r \in Requests : rpc[r] = "final" /\ conn[sock[r]] = "accepted"
           => (sent[sock[r]] = <<>> <=> kind[sock[r]] = "silent")
    /\ \A c \in Conns : sent[c] # <<>> /\ kind[c] \notin {"noVersion", "notHttp"}
           => (sent[c][1] <=> kind[c] \in Headed)

IInv ==
    /\ TypeOK /\ Pools /\ Sockets /\ Answers
    /\ Fits => Blocker

-----------------------------------------------------------------------------
LEMMA Sizes ==
    ASSUME Parameters, TypeOK
    PROVE  /\ Requests \subseteq Nat \ {0} /\ \A n \in Nat \ {0} : n <= MaxSize => n \in Requests
           /\ size \in Nat /\ MaxSize \in Nat /\ blocker \in {0, 1} /\ available \in Seq(Requests)
<1>1. Requests \subseteq Nat \ {0} /\ \A n \in Nat \ {0} : n <= MaxSize => n \in Requests
  <2>1. PICK n \in Nat : Requests = 1..n /\ MaxSize <= n
    <3>1. CASE Started > MaxSize
        BY <3>1 DEF Requests, Parameters
    <3>2. CASE ~(Started > MaxSize)
        BY <3>2 DEF Requests, Parameters
    <3> QED
        BY <3>1, <3>2
  <2> QED
    BY <2>1 DEF Parameters
<1>2. size \in Requests \cup {0} /\ blocker \in {0, 1} /\ available \in Seq(Requests)
    BY DEF TypeOK
<1> QED
    BY <1>1, <1>2 DEF Parameters

LEMMA InitHolds == ASSUME Parameters, Init PROVE IInv
<1>1. /\ size \in Requests \cup {0} /\ available \in Seq(Requests)
      /\ rpc \in [Requests -> RequestLabels] /\ Len(available) = Started
      /\ \A i \in DOMAIN available : available[i] = i /\ i \in Requests /\ i <= size
  <2>1. size = Started /\ available = [i \in 1..Started |-> i]
    BY DEF Init
  <2>2. 1..Started \subseteq Requests
    BY DEF Requests, Parameters
  <2>3. available \in Seq(Requests) /\ Len(available) = Started
    BY <2>1, <2>2 DEF Parameters
  <2> QED
    BY <2>1, <2>2, <2>3 DEF Init, Requests, Parameters, RequestLabels
<1>2. TypeOK
  <2>1. sent \in [Conns -> Seq(BOOLEAN)]
    BY DEF Init
  <2>2. kind \in [Conns -> Kinds \cup {Unread}] /\ sock \in [Requests -> Conns \cup {NoConn}]
    BY DEF Init
  <2>3. version \in [Requests -> Versions] /\ conn \in [Conns -> {"new", "backlog", "accepted", "closed"}]
    BY DEF Init, Versions
  <2>4. /\ cur \in Requests \cup {NoRequest} /\ busy \subseteq Requests /\ blocker \in 0..1
        /\ spc = "idle" /\ opc = "owner" /\ listening = FALSE /\ doCancel = FALSE /\ crashed = "no"
    BY DEF Init
  <2> QED
    BY <1>1, <2>1, <2>2, <2>3, <2>4 DEF TypeOK
<1>3. Pools
  <2>1. \A r \in Requests : rpc[r] = (IF r <= size THEN "toPause" ELSE "none")
    BY DEF Init
  <2>2. \A r \in Requests : r \in Nat /\ size \in Nat
    BY DEF Requests, Init, Parameters
  <2> QED
    BY <1>1, <2>1, <2>2 DEF Init, Pools, Resting, Connected
<1>4. Sockets
    BY DEF Init, Sockets, Connected, NoConn
<1>5. Answers
    BY DEF Init, Answers
<1>6. Fits => Blocker
    BY <1>1 DEF Init, Blocker, Fits, Parameters
<1> QED
    BY <1>2, <1>3, <1>4, <1>5, <1>6 DEF IInv

\* Steps that move the server's thread or the owner and leave the pools alone.
Quiet ==
    ServerInitial \/ GetNothing \/ BlockerAcquire \/ AcceptFails \/ StateCheck \/ Stop \/ StopJoined \/ StopKill

LEMMA QuietKeeps == ASSUME Parameters, IInv, Quiet PROVE IInv'
<1>1. UNCHANGED <<cur, size, available, busy, rpc, sock, version, conn, kind, sent>>
    BY DEF Quiet, ServerInitial, GetNothing, BlockerAcquire, AcceptFails, StateCheck, Stop, StopJoined,
        StopKill, serverVars, poolVars, requestVars, connVars, ownerGo
<1>2. /\ spc' = spc \/ spc' \in {"check", "closing", "blocked", "getAgain", "get", "dead"}
      /\ spc = "dead" => spc' = "dead"
      /\ opc' = opc \/ opc' \in {"joining", "stopped"} \/ (opc' = "closing" /\ spc' = "dead")
    BY DEF Quiet, ServerInitial, GetNothing, BlockerAcquire, AcceptFails, StateCheck, Stop, StopJoined,
        StopKill, serverVars, ownerGo
<1>3. blocker' \in 0..1
    BY DEF Quiet, ServerInitial, GetNothing, BlockerAcquire, AcceptFails, StateCheck, Stop, StopJoined,
        StopKill, poolVars, IInv, TypeOK
<1>4. listening' \in {listening, TRUE} /\ doCancel' \in {doCancel, TRUE} /\ crashed' \in {crashed, "nullRequest"}
    BY DEF Quiet, ServerInitial, GetNothing, BlockerAcquire, AcceptFails, StateCheck, Stop, StopJoined,
        StopKill, serverVars
<1>5. TypeOK'
  <2>1. listening' \in BOOLEAN /\ doCancel' \in BOOLEAN
    BY <1>4 DEF IInv, TypeOK
  <2>2. crashed' \in {"no", "nullRequest", "remove"}
    BY <1>4 DEF IInv, TypeOK
  <2> QED
    BY <1>1, <1>2, <1>3, <2>1, <2>2 DEF IInv, TypeOK
<1>6. Pools'
    BY <1>1, <1>2 DEF IInv, Pools
<1>7. Sockets'
    BY <1>1, <1>2 DEF IInv, Sockets
<1>8. Answers'
    BY <1>1 DEF IInv, Answers
<1>9. ASSUME Fits PROVE Blocker'
  <2>1. Blocker /\ size \in Nat /\ MaxSize \in Nat
    BY <1>9, Sizes DEF IInv
  <2>2. CASE GetNothing
    <3>1. spc # "getAgain"
      <4>1. available = <<>> /\ size >= MaxSize
        BY <2>2 DEF GetNothing
      <4> QED
        BY <2>1, <4>1 DEF Blocker
    <3>2. crashed' = crashed /\ spc' = "blocked" /\ blocker' = blocker /\ spc = "get"
        BY <2>2, <3>1 DEF GetNothing, poolVars
    <3> QED
        BY <1>1, <2>1, <3>2 DEF Blocker
  <2>3. CASE BlockerAcquire
    <3>1. spc = "blocked" /\ crashed' = crashed /\ blocker = 1 /\ blocker' = 0
        BY <2>3, Sizes DEF BlockerAcquire, IInv
    <3> QED
        BY <1>1, <2>1, <3>1 DEF Blocker
  <2>4. CASE ServerInitial \/ AcceptFails \/ StateCheck \/ Stop \/ StopJoined \/ StopKill
    <3>1. spc' # "getAgain" \/ spc' = spc
        BY <2>4 DEF ServerInitial, AcceptFails, StateCheck, Stop, StopJoined, StopKill, serverVars
    <3>2. crashed' = crashed /\ blocker' = blocker
        BY <2>4 DEF ServerInitial, AcceptFails, StateCheck, Stop, StopJoined, StopKill, poolVars
    <3> QED
        BY <1>1, <1>2, <2>1, <3>1, <3>2 DEF Blocker
  <2> QED
    BY <2>2, <2>3, <2>4 DEF Quiet
<1> QED
    BY <1>5, <1>6, <1>7, <1>8, <1>9 DEF IInv

\* _getRequest() hands out a request that rests.
LEMMA GetKeeps == ASSUME Parameters, IInv, GetAvailable \/ GetCreated PROVE IInv'
<1>1. /\ UNCHANGED <<sock, version, conn, kind, sent, crashed, opc, listening, doCancel>>
      /\ spc \in {"get", "getAgain"} /\ spc' = "accept"
    BY DEF GetAvailable, GetCreated, take, requestVars, connVars
<1>2. /\ Requests \subseteq Nat \ {0} /\ \A n \in Nat \ {0} : n <= MaxSize => n \in Requests
      /\ size \in Nat /\ MaxSize \in Nat /\ blocker \in {0, 1} /\ available \in Seq(Requests)
    BY Sizes DEF IInv
<1>3. rpc \in [Requests -> RequestLabels] /\ busy \subseteq Requests
    BY DEF IInv, TypeOK
<1>4. PICK r : /\ busy' = busy \cup {r} /\ cur' = r
               /\ blocker' = IF available' = <<>> /\ size' = MaxSize /\ blocker > 0
                             THEN blocker - 1 ELSE blocker
               /\ \/ /\ r = available[Len(available)] /\ size' = size /\ rpc' = rpc /\ available # <<>>
                     /\ available' = SubSeq(available, 1, Len(available) - 1)
                  \/ /\ r = size + 1 /\ size' = size + 1 /\ rpc' = [rpc EXCEPT ![size + 1] = "toPause"]
                     /\ available' = available /\ available = <<>> /\ size < MaxSize
  <2>1. CASE GetAvailable
    BY <2>1 DEF GetAvailable, take, requestVars
  <2>2. CASE GetCreated
    BY <2>2 DEF GetCreated, take
  <2> QED
    BY <2>1, <2>2
<1>5. blocker' \in {0, 1}
    BY <1>2, <1>4
<1>6. /\ r \in Requests /\ rpc'[r] \in Resting /\ \A q \in Requests : q # r => rpc'[q] = rpc[q]
      /\ rpc' \in [Requests -> RequestLabels] /\ size' \in Requests \cup {0} /\ r <= size'
      /\ available' \in Seq(Requests)
      /\ \A i \in DOMAIN available' : i \in DOMAIN available /\ available'[i] = available[i] /\ available[i] # r
      /\ \A q \in Requests : rpc'[q] = "none" <=> q > size'
  <2>1. CASE r = available[Len(available)] /\ size' = size /\ rpc' = rpc /\ available # <<>>
             /\ available' = SubSeq(available, 1, Len(available) - 1)
    <3>1. Len(available) \in DOMAIN available /\ r \in Requests
        BY <1>2, <2>1
    <3>2. /\ available' \in Seq(Requests) /\ Len(available') = Len(available) - 1
          /\ \A i \in DOMAIN available' : i \in DOMAIN available /\ i # Len(available) /\ available'[i] = available[i]
      <4>1. Len(available) - 1 \in Nat /\ \A i \in 1..(Len(available) - 1) : available[i] \in Requests
        BY <1>2, <2>1
      <4>2. PICK n \in Nat : n = Len(available) - 1
        BY <4>1
      <4>3. available' \in Seq(Requests)
        BY <2>1, <4>1, <4>2, SubSeqProperties
      <4>4. Len(available') = n /\ \A i \in 1..n : available'[i] = available[i]
        BY <1>2, <2>1, <4>1, <4>2
      <4> QED
        BY <1>2, <4>1, <4>2, <4>3, <4>4
    <3>3. \A i \in DOMAIN available' : available[i] # r
        BY <2>1, <3>1, <3>2 DEF IInv, Pools
    <3>4. rpc[r] \in Resting /\ rpc[r] # "none"
        BY <2>1, <3>1 DEF IInv, Pools, Resting
    <3>5. r <= size
        BY <1>2, <3>1, <3>4 DEF IInv, Pools
    <3> QED
        BY <1>2, <1>3, <2>1, <3>1, <3>2, <3>3, <3>4, <3>5 DEF IInv, Pools, TypeOK
  <2>2. CASE r = size + 1 /\ size' = size + 1 /\ rpc' = [rpc EXCEPT ![size + 1] = "toPause"]
             /\ available' = available /\ available = <<>> /\ size < MaxSize
    <3>1. r \in Requests
        BY <1>2, <2>2
    <3>2. \A q \in Requests : q > size' <=> q > size /\ q # r
        BY <1>2, <2>2
    <3>3. \A q \in Requests : rpc[q] = "none" <=> q > size
        BY DEF IInv, Pools
    <3> QED
        BY <1>2, <1>3, <2>2, <3>1, <3>2, <3>3 DEF Resting, RequestLabels
  <2> QED
    BY <1>4, <2>1, <2>2
<1>7. TypeOK'
    BY <1>1, <1>3, <1>4, <1>5, <1>6 DEF IInv, TypeOK
<1>8. rpc[r] \in Resting \cup {"none"}
  <2>1. CASE rpc' = rpc
    BY <1>6, <2>1
  <2>2. CASE r = size + 1
    BY <1>2, <1>6, <2>2 DEF IInv, Pools
  <2> QED
    BY <1>4, <2>1, <2>2
<1>9. Pools'
  <2>1. \A i \in DOMAIN available' : rpc'[available'[i]] \in Resting /\ available'[i] \notin busy'
    <3> SUFFICES ASSUME NEW i \in DOMAIN available' PROVE rpc'[available'[i]] \in Resting /\ available'[i] \notin busy'
        OBVIOUS
    <3>1. i \in DOMAIN available /\ available'[i] = available[i] /\ available[i] # r /\ available[i] \in Requests
        BY <1>2, <1>6
    <3> QED
        BY <1>4, <1>6, <3>1 DEF IInv, Pools
  <2>2. \A i, j \in DOMAIN available' : available'[i] = available'[j] => i = j
    BY <1>6 DEF IInv, Pools
  <2>3. \A q \in busy' : q <= size'
    BY <1>2, <1>3, <1>4, <1>6 DEF IInv, Pools
  <2>4. \A q \in Requests : rpc'[q] \in Connected \cup {"complete"} => q \in busy'
    BY <1>1, <1>4, <1>6 DEF IInv, Pools, Resting, Connected
  <2> QED
    BY <1>1, <1>4, <1>6, <2>1, <2>2, <2>3, <2>4 DEF IInv, Pools
<1>10. Sockets'
  <2>1. \A q \in Requests : rpc'[q] \in Connected <=> rpc[q] \in Connected
    BY <1>6, <1>8 DEF Resting, Connected
  <2>2. opc # "clearing"
    BY <1>1 DEF IInv, Pools
  <2> QED
    BY <1>1, <1>4, <2>1, <2>2 DEF IInv, Sockets
<1>11. Answers'
  <2>1. \A q \in Requests : rpc'[q] \in {"parse", "handle", "final"} => rpc'[q] = rpc[q]
    BY <1>6 DEF Resting
  <2> QED
    BY <1>1, <2>1 DEF IInv, Answers
<1>12. ASSUME Fits PROVE Blocker'
  <2>1. size' <= MaxSize
    BY <1>2, <1>4, <1>12 DEF IInv, Blocker
  <2>2. available' = <<>> /\ size' = MaxSize => blocker' = 0
    BY <1>2, <1>4
  <2> QED
    BY <1>1, <1>12, <2>1, <2>2 DEF IInv, Blocker
<1> QED
    BY <1>7, <1>9, <1>10, <1>11, <1>12 DEF IInv

\* The request that the server's thread holds gets the connection.
LEMMA AcceptKeeps == ASSUME Parameters, IInv, NEW c \in Conns, Accept(c) PROVE IInv'
<1>1. /\ UNCHANGED <<listening, cur, doCancel, opc, size, available, busy, blocker, version, kind, sent, crashed>>
      /\ spc = "accept" /\ spc' = "check" /\ conn[c] = "backlog" /\ rpc[cur] = "paused"
      /\ conn' = [conn EXCEPT ![c] = "accepted"] /\ sock' = [sock EXCEPT ![cur] = c]
      /\ rpc' = [rpc EXCEPT ![cur] = "parse"]
    BY DEF Accept, poolVars
<1>2. /\ rpc \in [Requests -> RequestLabels] /\ sock \in [Requests -> Conns \cup {NoConn}]
      /\ conn \in [Conns -> {"new", "backlog", "accepted", "closed"}] /\ busy \subseteq Requests
    BY DEF IInv, TypeOK
<1>3. cur \in busy /\ cur \in Requests
    BY <1>1, <1>2 DEF IInv, Pools
<1>4. c # NoConn /\ NoConn \notin Conns
    BY DEF Conns, NoConn
<1>5. sock[cur] = NoConn /\ \A r \in Requests : sock[r] # c
    BY <1>1, <1>2, <1>3, <1>4 DEF IInv, Sockets, Connected
<1>6. \A r \in Requests : r # cur => rpc'[r] = rpc[r] /\ sock'[r] = sock[r]
    BY <1>1, <1>2
<1>7. rpc'[cur] = "parse" /\ sock'[cur] = c /\ conn'[c] = "accepted"
    BY <1>1, <1>2, <1>3
<1>8. \A d \in Conns : d # c => conn'[d] = conn[d]
    BY <1>1, <1>2
<1>9. TypeOK'
    BY <1>1, <1>2, <1>3 DEF IInv, TypeOK, RequestLabels
<1>10. Pools'
  <2>1. \A i \in DOMAIN available : available[i] # cur /\ available[i] \in Requests
    BY <1>3, Sizes DEF IInv, Pools
  <2>2. \A r \in Requests : rpc'[r] = "none" <=> rpc[r] = "none"
    BY <1>1, <1>6, <1>7
  <2> QED
    BY <1>1, <1>3, <1>6, <1>7, <2>1, <2>2 DEF IInv, Pools
<1>11. Sockets'
  <2>1. \A r \in Requests : rpc'[r] \in Connected <=> sock'[r] # NoConn
    BY <1>4, <1>6, <1>7 DEF IInv, Sockets, Connected
  <2>2. \A r \in Requests : sock'[r] # NoConn => conn'[sock'[r]] \in {"accepted", "closed"}
    BY <1>2, <1>5, <1>6, <1>7, <1>8 DEF IInv, Sockets
  <2>3. \A r, q \in Requests : sock'[r] = sock'[q] /\ sock'[r] # NoConn => r = q
    BY <1>5, <1>6, <1>7 DEF IInv, Sockets
  <2>4. \A d \in Conns : conn'[d] = "accepted" => \E r \in busy' : sock'[r] = d
    <3> SUFFICES ASSUME NEW d \in Conns, conn'[d] = "accepted" PROVE \E r \in busy : sock'[r] = d
        BY <1>1
    <3>1. CASE d = c
        BY <1>3, <1>7, <3>1
    <3>2. CASE d # c
        <4>1. PICK r \in busy : sock[r] = d
            BY <1>8, <3>2 DEF IInv, Sockets
        <4> QED
            BY <1>2, <1>4, <1>5, <1>6, <4>1 DEF Conns
    <3> QED
        BY <3>1, <3>2
  <2>5. opc # "clearing"
    BY <1>1 DEF IInv, Pools
  <2> QED
    BY <1>1, <2>1, <2>2, <2>3, <2>4, <2>5 DEF Sockets
<1>12. Answers'
  <2>1. sent[c] = <<>>
    BY <1>1 DEF IInv, Answers
  <2>2. \A r \in Requests : rpc'[r] \in {"parse", "handle", "final"} => sock[r] # c
    BY <1>5
  <2>3. \A r \in Requests : r # cur /\ rpc[r] \in Connected => sock[r] \in Conns /\ conn'[sock[r]] = conn[sock[r]]
    BY <1>2, <1>5, <1>8 DEF IInv, Sockets
  <2> QED
    BY <1>1, <1>6, <1>7, <1>8, <2>1, <2>2, <2>3 DEF IInv, Answers, Connected
<1>13. ASSUME Fits PROVE Blocker'
    BY <1>1, <1>13 DEF IInv, Blocker
<1> QED
    BY <1>9, <1>10, <1>11, <1>12, <1>13 DEF IInv

\* final(), run by the server's thread or by the owner in its place.
LEMMA CloseKeeps == ASSUME Parameters, IInv, FinalClose \/ StopFinalClose PROVE IInv'
<1>1. /\ UNCHANGED <<listening, cur, doCancel, size, available, busy, blocker, rpc, sock, version, kind, sent, crashed>>
      /\ closeBusy
    BY DEF FinalClose, StopFinalClose, serverVars, poolVars, requestVars
<1>2. \/ spc = "closing" /\ spc' = "clearing" /\ opc' = opc
      \/ opc = "closing" /\ opc' = "clearing" /\ spc' = spc
    BY DEF FinalClose, StopFinalClose, serverVars, ownerGo
<1>3. conn' = [c \in Conns |-> IF \E r \in busy : sock[r] = c THEN "closed" ELSE conn[c]]
    BY <1>1 DEF closeBusy
<1>4. \A c \in Conns : conn'[c] # "accepted" /\ (conn'[c] = conn[c] \/ conn'[c] = "closed")
    BY <1>3 DEF IInv, Sockets
<1>5. conn' \in [Conns -> {"new", "backlog", "accepted", "closed"}]
    BY <1>3 DEF IInv, TypeOK
<1>6. TypeOK'
    BY <1>1, <1>2, <1>5 DEF IInv, TypeOK
<1>7. Pools'
    BY <1>1, <1>2 DEF IInv, Pools
<1>8. Sockets'
  <2>1. \A r \in Requests : sock[r] # NoConn => sock[r] \in Conns
    BY DEF IInv, TypeOK
  <2>2. \A r \in Requests : sock[r] # NoConn => conn'[sock[r]] \in {"accepted", "closed"}
    BY <1>4, <2>1 DEF IInv, Sockets
  <2> QED
    BY <1>1, <1>4, <2>2 DEF IInv, Sockets
<1>9. Answers'
  <2>1. \A r \in Requests : rpc[r] = "final" => conn'[sock[r]] # "accepted"
    BY <1>4 DEF IInv, Sockets, TypeOK, Connected
  <2> QED
    BY <1>1, <1>4, <2>1 DEF IInv, Answers
<1>10. ASSUME Fits PROVE Blocker'
    BY <1>1, <1>2, <1>10 DEF IInv, Blocker
<1> QED
    BY <1>6, <1>7, <1>8, <1>9, <1>10 DEF IInv

LEMMA ClearKeeps == ASSUME Parameters, IInv, FinalClear \/ StopFinalClear PROVE IInv'
<1>1. /\ UNCHANGED <<cur, doCancel, size, available, blocker, rpc, sock, version, kind, sent, crashed>>
      /\ clearBusy
    BY DEF FinalClear, StopFinalClear, requestVars
<1>2. /\ spc' = "dead" /\ spc' # "clearing" /\ opc' \in {opc, "stopped"}
      /\ opc' = opc => spc = "clearing"
      /\ spc = "clearing" \/ opc = "clearing"
    BY DEF FinalClear, StopFinalClear, ownerGo, IInv, Pools
<1>3. /\ conn' = [c \in Conns |-> IF conn[c] = "backlog" THEN "closed" ELSE conn[c]]
      /\ busy' = {} /\ listening' = FALSE
    BY <1>1 DEF clearBusy
<1>4. \A c \in Conns : conn[c] # "accepted" /\ conn'[c] # "accepted" /\ (conn'[c] = conn[c] \/ conn'[c] = "closed")
    BY <1>2, <1>3 DEF IInv, Sockets
<1>5. conn' \in [Conns -> {"new", "backlog", "accepted", "closed"}]
    BY <1>3 DEF IInv, TypeOK
<1>6. TypeOK'
    BY <1>1, <1>2, <1>3, <1>5 DEF IInv, TypeOK
<1>7. Pools'
    BY <1>1, <1>2, <1>3 DEF IInv, Pools
<1>8. Sockets'
  <2>1. \A r \in Requests : sock[r] # NoConn => sock[r] \in Conns
    BY DEF IInv, TypeOK
  <2>2. \A r \in Requests : sock[r] # NoConn => conn'[sock[r]] \in {"accepted", "closed"}
    BY <1>4, <2>1 DEF IInv, Sockets
  <2> QED
    BY <1>1, <1>4, <2>2 DEF IInv, Sockets
<1>9. Answers'
  <2>1. \A r \in Requests : rpc[r] = "final" => conn'[sock[r]] # "accepted"
    BY <1>4 DEF IInv, Sockets, TypeOK, Connected
  <2> QED
    BY <1>1, <1>4, <2>1 DEF IInv, Answers
<1>10. ASSUME Fits PROVE Blocker'
    BY <1>1, <1>2, <1>10 DEF IInv, Blocker
<1> QED
    BY <1>6, <1>7, <1>8, <1>9, <1>10 DEF IInv

LEMMA ConnectKeeps == ASSUME Parameters, IInv, NEW c \in Conns, Connect(c) PROVE IInv'
<1>1. /\ UNCHANGED <<spc, listening, cur, doCancel, opc, size, available, busy, blocker, rpc, sock, version, kind, sent, crashed>>
      /\ conn[c] = "new" /\ conn' = [conn EXCEPT ![c] = IF listening THEN "backlog" ELSE "closed"]
    BY DEF Connect, serverVars, poolVars, requestVars
<1>2. conn \in [Conns -> {"new", "backlog", "accepted", "closed"}]
    BY DEF IInv, TypeOK
<1>3. /\ conn' \in [Conns -> {"new", "backlog", "accepted", "closed"}]
      /\ conn'[c] \in {"backlog", "closed"} /\ \A d \in Conns : d # c => conn'[d] = conn[d]
    BY <1>1, <1>2
<1>4. \A r \in Requests : sock[r] # NoConn => sock[r] \in Conns /\ sock[r] # c
    BY ZenonT(40), <1>1 DEF IInv, Sockets, TypeOK
<1>5. TypeOK'
    BY <1>1, <1>3 DEF IInv, TypeOK
<1>6. Pools'
    BY <1>1 DEF IInv, Pools
<1>7. Sockets'
    BY <1>1, <1>3, <1>4 DEF IInv, Sockets
<1>8. Answers'
  <2>1. \A r \in Requests : rpc[r] = "final" => conn'[sock[r]] = conn[sock[r]]
    BY <1>3, <1>4 DEF IInv, Sockets, Connected
  <2>2. sent[c] = <<>>
    BY <1>1 DEF IInv, Answers
  <2> QED
    BY <1>1, <1>3, <2>1, <2>2 DEF IInv, Answers
<1>9. ASSUME Fits PROVE Blocker'
    BY <1>1, <1>9 DEF IInv, Blocker
<1> QED
    BY <1>5, <1>6, <1>7, <1>8, <1>9 DEF IInv

-----------------------------------------------------------------------------
(* The requests                                                            *)

\* The pools, when request r goes to a label of the same sort.
LEMMA PoolsMove ==
    ASSUME Parameters, IInv, NEW r \in Requests, NEW l \in RequestLabels, rpc' = [rpc EXCEPT ![r] = l],
           l # "none", rpc[r] # "none",
           l \in Resting <=> rpc[r] \in Resting, UNCHANGED <<spc, opc, cur, size, available, busy, blocker, crashed>>
    PROVE  Pools' /\ (Fits => Blocker')
<1>1. rpc \in [Requests -> RequestLabels]
    BY DEF IInv, TypeOK
<1>2. rpc'[r] = l /\ \A q \in Requests : q # r => rpc'[q] = rpc[q]
    BY <1>1
<1>3. \A q \in Requests : /\ rpc'[q] = "none" <=> rpc[q] = "none"
                          /\ rpc'[q] \in Resting <=> rpc[q] \in Resting
    BY <1>2
<1>4. \A q \in Requests : rpc'[q] \in Connected \cup {"complete"} => rpc[q] \in Connected \cup {"complete"}
    BY <1>1, <1>2 DEF RequestLabels, Resting, Connected
<1>5. available \in Seq(Requests) /\ busy \subseteq Requests
    BY DEF IInv, TypeOK
<1>6. Pools'
    BY <1>3, <1>4, <1>5 DEF IInv, Pools
<1>7. ASSUME Fits PROVE Blocker'
    BY <1>7 DEF IInv, Blocker
<1> QED
    BY <1>6, <1>7

LEMMA ReachPauseKeeps == ASSUME Parameters, IInv, NEW r \in Requests, ReachPause(r) PROVE IInv'
<1>1. /\ rpc[r] = "toPause" /\ rpc' = [rpc EXCEPT ![r] = "paused"]
      /\ UNCHANGED <<sock, version, size, available, busy, blocker, conn, kind, sent, spc, listening, cur, doCancel, opc, crashed>>
    BY DEF ReachPause, goto, serverSide, poolVars, connVars, serverVars
<1>2. rpc \in [Requests -> RequestLabels]
    BY DEF IInv, TypeOK
<1>3. Pools' /\ (Fits => Blocker')
    BY <1>1, PoolsMove DEF RequestLabels, Resting
<1>4. TypeOK'
    BY <1>1, <1>2 DEF IInv, TypeOK, RequestLabels
<1>5. \A q \in Requests : rpc'[q] \in Connected \/ rpc[q] \in Connected => rpc'[q] = rpc[q]
    BY <1>1, <1>2 DEF Connected
<1>6. Sockets'
    BY <1>1, <1>5 DEF IInv, Sockets
<1>7. Answers'
    BY <1>1, <1>5 DEF IInv, Answers, Connected
<1> QED
    BY <1>3, <1>4, <1>6, <1>7 DEF IInv

LEMMA OneAnswer ==
    ASSUME NEW s \in Seq(BOOLEAN), s = <<>>, NEW b \in BOOLEAN
    PROVE  /\ Append(s, b) \in Seq(BOOLEAN) /\ Append(s, b) # <<>>
           /\ Len(Append(s, b)) = 1 /\ Append(s, b)[1] = b
OBVIOUS

\* A request with a connection works on that connection only.
LEMMA WorkKeeps ==
    ASSUME Parameters, IInv, NEW r \in Requests, rpc[r] \in Connected, sock[r] \in Conns,
           UNCHANGED <<busy, spc, opc>>, TypeOK',
           \A q \in Requests : q # r => rpc'[q] = rpc[q] /\ version'[q] = version[q] /\ sock'[q] = sock[q],
           \A d \in Conns : d # sock[r] => conn'[d] = conn[d] /\ kind'[d] = kind[d] /\ sent'[d] = sent[d],
           rpc'[r] \notin {"parse", "none"},
           \/ sock'[r] = sock[r] /\ rpc'[r] \in Connected /\ conn'[sock[r]] \in {conn[sock[r]], "closed"}
           \/ sock'[r] = NoConn /\ rpc'[r] = "complete" /\ conn'[sock[r]] = "closed",
           Len(sent'[sock[r]]) <= 1,
           rpc'[r] = "handle" => /\ sent'[sock[r]] = <<>>
                                 /\ kind'[sock[r]] # "silent" /\ Asked(kind'[sock[r]], version'[r]),
           rpc'[r] = "final" /\ conn'[sock[r]] = "accepted"
               => (sent'[sock[r]] = <<>> <=> kind'[sock[r]] = "silent"),
           sent'[sock[r]] # <<>> /\ kind'[sock[r]] \notin {"noVersion", "notHttp"}
               => (sent'[sock[r]][1] <=> kind'[sock[r]] \in Headed)
    PROVE  Sockets' /\ Answers'
<1>1. PICK c \in Conns : c = sock[r]
    OBVIOUS
<1>2. c # NoConn /\ NoConn \notin Conns
    BY DEF Conns, NoConn
<1>3. \A q \in Requests : q # r => sock[q] # c
    BY <1>1, <1>2 DEF IInv, Sockets
<1>4. \A q \in Requests : sock[q] # NoConn => sock[q] \in Conns
    BY DEF IInv, TypeOK
<1>5. conn[c] \in {"accepted", "closed"} /\ conn'[c] \in {conn[c], "closed"}
    BY <1>1, <1>2 DEF IInv, Sockets
<1>6. Sockets'
  <2>1. \A q \in Requests : rpc'[q] \in Connected <=> sock'[q] # NoConn
    BY <1>1, <1>2 DEF IInv, Sockets, Connected
  <2>2. \A q \in Requests : sock'[q] # NoConn => conn'[sock'[q]] \in {"accepted", "closed"}
    BY <1>1, <1>2, <1>3, <1>4, <1>5 DEF IInv, Sockets
  <2>3. \A p, q \in Requests : sock'[p] = sock'[q] /\ sock'[p] # NoConn => p = q
    BY <1>1, <1>3 DEF IInv, Sockets
  <2>4. \A d \in Conns : conn'[d] = "accepted" => \E q \in busy' : sock'[q] = d
    <3> SUFFICES ASSUME NEW d \in Conns, conn'[d] = "accepted" PROVE \E q \in busy : sock'[q] = d
        OBVIOUS
    <3>1. conn[d] = "accepted"
        BY <1>1, <1>5
    <3>2. PICK q \in busy : sock[q] = d
        BY <3>1 DEF IInv, Sockets
    <3>3. q \in Requests
        BY DEF IInv, TypeOK
    <3>4. CASE q = r
        BY <1>1, <3>2, <3>4
    <3>5. CASE q # r
        BY <3>2, <3>3, <3>5
    <3> QED
        BY <3>4, <3>5
  <2>5. spc' = "clearing" \/ opc' = "clearing" => \A d \in Conns : conn'[d] # "accepted"
    BY <1>1, <1>5 DEF IInv, Sockets
  <2> QED
    BY <2>1, <2>2, <2>3, <2>4, <2>5 DEF Sockets
<1>7. Answers'
  <2>1. \A d \in Conns : conn'[d] \in {"new", "backlog"} => sent'[d] = <<>>
    BY <1>1, <1>5 DEF IInv, Answers
  <2>2. \A d \in Conns : Len(sent'[d]) <= 1
    BY <1>1 DEF IInv, Answers
  <2>3. \A d \in Conns : sent'[d] # <<>> /\ kind'[d] \notin {"noVersion", "notHttp"}
             => (sent'[d][1] <=> kind'[d] \in Headed)
    BY <1>1 DEF IInv, Answers
  <2>4. \A q \in Requests : q # r /\ rpc[q] \in Connected =>
             /\ sock'[q] = sock[q] /\ sock[q] \in Conns /\ sock[q] # c
    BY <1>3, <1>4 DEF IInv, Sockets
  <2>5. \A q \in Requests : rpc'[q] \in {"parse", "handle"} => sent'[sock'[q]] = <<>>
    BY <1>1, <2>4 DEF IInv, Answers, Connected
  <2>6. \A q \in Requests : rpc'[q] = "handle" => kind'[sock'[q]] # "silent" /\ Asked(kind'[sock'[q]], version'[q])
    BY <1>1, <2>4 DEF IInv, Answers, Connected
  <2>7. \A q \in Requests : rpc'[q] = "final" /\ conn'[sock'[q]] = "accepted"
             => (sent'[sock'[q]] = <<>> <=> kind'[sock'[q]] = "silent")
    BY <1>1, <2>4 DEF IInv, Answers, Connected
  <2> QED
    BY <2>1, <2>2, <2>3, <2>5, <2>6, <2>7 DEF Answers, Asked
<1> QED
    BY <1>6, <1>7

\* What _parseVersion() makes of a request agrees with what the client named.
LEMMA ParsedAsAsked ==
    ASSUME NEW k \in Kinds, NEW old \in Versions
    PROVE  /\ parsed(k, old) \in Versions
           /\ k # "silent" => Asked(k, parsed(k, old))
BY DEF Kinds, Versions, parsed, Asked, withHeaders, Headed

LEMMA ParseKeeps == ASSUME Parameters, IInv, NEW r \in Requests, Parse(r) PROVE IInv'
<1>1. rpc[r] = "parse" /\ UNCHANGED <<sock, size, available, busy, blocker, conn, spc, listening, cur, doCancel, opc, crashed>>
    BY DEF Parse, serverSide, poolVars, serverVars
<1>2. /\ rpc \in [Requests -> RequestLabels] /\ version \in [Requests -> Versions]
      /\ kind \in [Conns -> Kinds \cup {Unread}] /\ sent \in [Conns -> Seq(BOOLEAN)]
    BY DEF IInv, TypeOK
<1>3. PICK c \in Conns : c = sock[r]
    BY <1>1 DEF IInv, TypeOK, Sockets, Connected
<1>4. sent[c] = <<>> /\ conn[c] \in {"accepted", "closed"}
    BY <1>1, <1>3 DEF IInv, Answers, Sockets, Connected
<1>5. CASE conn[c] = "closed" /\ rpc' = [rpc EXCEPT ![r] = "final"] /\ UNCHANGED <<version, kind, sent>>
  <2>1. TypeOK'
    BY <1>1, <1>2, <1>5 DEF IInv, TypeOK, RequestLabels
  <2>2. rpc'[r] = "final" /\ \A q \in Requests : q # r => rpc'[q] = rpc[q]
    BY <1>2, <1>5
  <2>3. Pools' /\ (Fits => Blocker')
    BY <1>1, <1>5, PoolsMove DEF RequestLabels, Resting
  <2>4. Sockets' /\ Answers'
    BY <1>1, <1>3, <1>4, <1>5, <2>1, <2>2, WorkKeeps DEF Connected
  <2> QED
    BY <2>1, <2>3, <2>4 DEF IInv
<1>6. ASSUME NEW k \in Kinds, NEW v \in Versions, v = parsed(k, version[r]),
             kind' = [kind EXCEPT ![c] = k], version' = [version EXCEPT ![r] = v],
             sent' = IF Refused(k, v) THEN [sent EXCEPT ![c] = Append(@, withHeaders(v))] ELSE sent,
             rpc' = [rpc EXCEPT ![r] = IF k = "silent" \/ Refused(k, v) THEN "final" ELSE "handle"]
      PROVE  IInv'
  <2>1. withHeaders(v) \in BOOLEAN
    BY DEF withHeaders
  <2>2. /\ sent' \in [Conns -> Seq(BOOLEAN)] /\ Len(sent'[c]) <= 1
        /\ Refused(k, v) => sent'[c] # <<>> /\ sent'[c][1] = withHeaders(v)
        /\ ~Refused(k, v) => sent'[c] = <<>>
        /\ \A d \in Conns : d # c => sent'[d] = sent[d]
    <3>1. CASE Refused(k, v)
        BY <1>2, <1>4, <1>6, <2>1, <3>1, OneAnswer
    <3>2. CASE ~Refused(k, v)
        BY <1>2, <1>4, <1>6, <3>2
    <3> QED
        BY <3>1, <3>2
  <2>3. /\ rpc'[r] = (IF k = "silent" \/ Refused(k, v) THEN "final" ELSE "handle") /\ version'[r] = v /\ kind'[c] = k
        /\ \A q \in Requests : q # r => rpc'[q] = rpc[q] /\ version'[q] = version[q]
        /\ \A d \in Conns : d # c => kind'[d] = kind[d]
        /\ rpc' \in [Requests -> RequestLabels] /\ version' \in [Requests -> Versions]
        /\ kind' \in [Conns -> Kinds \cup {Unread}]
    BY <1>2, <1>6 DEF RequestLabels
  <2>4. TypeOK'
    BY <1>1, <2>2, <2>3 DEF IInv, TypeOK
  <2>5. Pools' /\ (Fits => Blocker')
    BY <1>1, <1>6, PoolsMove DEF RequestLabels, Resting
  <2>6. k = "silent" => ~Refused(k, v)
    BY DEF Refused
  <2>7. k # "silent" => Asked(k, v)
    BY <1>2, <1>6, ParsedAsAsked
  <2>8. sent'[c] # <<>> /\ k \notin {"noVersion", "notHttp"} => (sent'[c][1] <=> k \in Headed)
    BY <2>2, <2>6, <2>7 DEF Asked
  <2>9. rpc'[r] = "final" => (sent'[c] = <<>> <=> k = "silent")
    BY <2>2, <2>3, <2>6
  <2>10. rpc'[r] = "handle" => sent'[c] = <<>> /\ k # "silent" /\ Asked(k, v)
    BY <2>2, <2>3, <2>7
  <2>11. Sockets' /\ Answers'
    BY <1>1, <1>3, <2>2, <2>3, <2>4, <2>8, <2>9, <2>10, WorkKeeps DEF Connected
  <2> QED
    BY <2>4, <2>5, <2>11 DEF IInv
<1>7. \A k \in Kinds : parsed(k, version[r]) \in Versions
    BY <1>2, ParsedAsAsked
<1> QED
    BY <1>3, <1>5, <1>6, <1>7 DEF Parse, goto, answer

LEMMA HandleKeeps == ASSUME Parameters, IInv, NEW r \in Requests, Handle(r) PROVE IInv'
<1>1. /\ rpc[r] = "handle" /\ rpc' = [rpc EXCEPT ![r] = "final"]
      /\ UNCHANGED <<sock, version, kind, size, available, busy, blocker, spc, listening, cur, doCancel, opc, crashed>>
    BY DEF Handle, serverSide, poolVars, serverVars, goto
<1>2. /\ rpc \in [Requests -> RequestLabels] /\ version \in [Requests -> Versions]
      /\ conn \in [Conns -> {"new", "backlog", "accepted", "closed"}] /\ sent \in [Conns -> Seq(BOOLEAN)]
    BY DEF IInv, TypeOK
<1>3. PICK c \in Conns : c = sock[r]
    BY <1>1 DEF IInv, TypeOK, Sockets, Connected
<1>4. sent[c] = <<>> /\ kind[c] # "silent" /\ Asked(kind[c], version[r])
    BY <1>1, <1>3 DEF IInv, Answers
<1>5. rpc'[r] = "final" /\ \A q \in Requests : q # r => rpc'[q] = rpc[q]
    BY <1>1, <1>2
<1>6. /\ conn' \in [Conns -> {"new", "backlog", "accepted", "closed"}] /\ conn'[c] = "closed"
      /\ sent' \in [Conns -> Seq(BOOLEAN)] /\ Len(sent'[c]) <= 1
      /\ sent'[c] # <<>> => sent'[c][1] = withHeaders(version[r])
      /\ \A d \in Conns : d # c => sent'[d] = sent[d] /\ conn'[d] = conn[d]
  <2>1. CASE conn[c] = "closed"
    BY <1>2, <1>3, <1>4, <2>1 DEF Handle
  <2>2. CASE conn[c] # "closed"
    <3>1. conn' = [conn EXCEPT ![c] = "closed"] /\ sent' = [sent EXCEPT ![c] = Append(@, withHeaders(version[r]))]
        BY <1>3, <2>2 DEF Handle, answer
    <3>2. withHeaders(version[r]) \in BOOLEAN
        BY DEF withHeaders
    <3> QED
        BY <1>2, <1>4, <3>1, <3>2, OneAnswer
  <2> QED
    BY <2>1, <2>2
<1>7. TypeOK'
    BY <1>1, <1>2, <1>6 DEF IInv, TypeOK, RequestLabels
<1>8. Pools' /\ (Fits => Blocker')
    BY <1>1, PoolsMove DEF RequestLabels, Resting
<1>9. sent'[c] # <<>> /\ kind[c] \notin {"noVersion", "notHttp"} => (sent'[c][1] <=> kind[c] \in Headed)
    BY <1>4, <1>6 DEF Asked
<1>10. Sockets' /\ Answers'
    BY <1>1, <1>3, <1>5, <1>6, <1>7, <1>9, WorkKeeps DEF Connected
<1> QED
    BY <1>7, <1>8, <1>10 DEF IInv

LEMMA FinalKeeps == ASSUME Parameters, IInv, NEW r \in Requests, Final(r) PROVE IInv'
<1>1. /\ rpc[r] = "final" /\ rpc' = [rpc EXCEPT ![r] = "complete"]
      /\ UNCHANGED <<version, size, available, busy, blocker, spc, listening, cur, doCancel, opc, crashed>>
    BY DEF Final, serverSide, poolVars, serverVars, goto
<1>2. /\ rpc \in [Requests -> RequestLabels] /\ sock \in [Requests -> Conns \cup {NoConn}]
      /\ conn \in [Conns -> {"new", "backlog", "accepted", "closed"}] /\ sent \in [Conns -> Seq(BOOLEAN)]
      /\ kind \in [Conns -> Kinds \cup {Unread}]
    BY DEF IInv, TypeOK
<1>3. PICK c \in Conns : c = sock[r]
    BY <1>1 DEF IInv, TypeOK, Sockets, Connected
<1>4. /\ conn' = [conn EXCEPT ![c] = "closed"] /\ sock' = [sock EXCEPT ![r] = NoConn]
      /\ kind' = [kind EXCEPT ![c] = Unread] /\ sent' = [sent EXCEPT ![c] = <<>>]
    BY <1>3 DEF Final
<1>5. /\ rpc'[r] = "complete" /\ sock'[r] = NoConn
      /\ \A q \in Requests : q # r => rpc'[q] = rpc[q] /\ sock'[q] = sock[q]
    BY <1>1, <1>2, <1>4
<1>6. /\ conn'[c] = "closed" /\ sent'[c] = <<>> /\ Len(sent'[c]) <= 1
      /\ \A d \in Conns : d # c => sent'[d] = sent[d] /\ conn'[d] = conn[d] /\ kind'[d] = kind[d]
    BY <1>2, <1>4
<1>7. TypeOK'
    BY <1>1, <1>2, <1>4 DEF IInv, TypeOK, RequestLabels
<1>8. Pools' /\ (Fits => Blocker')
    BY <1>1, PoolsMove DEF RequestLabels, Resting
<1>9. Sockets' /\ Answers'
    BY <1>1, <1>3, <1>5, <1>6, <1>7, WorkKeeps DEF Connected
<1> QED
    BY <1>7, <1>8, <1>9 DEF IInv

LEMMA TaskCompletedKeeps == ASSUME Parameters, IInv, crashed = "no", NEW r \in Requests, TaskCompleted(r) PROVE IInv'
<1>1. rpc[r] = "complete" /\ UNCHANGED <<spc, listening, cur, doCancel, opc, sock, version, conn, kind, sent>>
    BY DEF TaskCompleted, serverVars, connVars
<1>2. CASE r \notin busy
  <2>1. crashed' = "remove" /\ UNCHANGED <<size, available, busy, blocker, rpc>>
    BY <1>2 DEF TaskCompleted, poolVars
  <2>2. spc = "dead"
    BY <1>1, <1>2 DEF IInv, Pools
  <2>3. TypeOK'
    BY <1>1, <2>1 DEF IInv, TypeOK
  <2>4. Pools' /\ Sockets' /\ Answers'
    BY <1>1, <2>1 DEF IInv, Pools, Sockets, Answers
  <2>5. ASSUME Fits PROVE Blocker'
    BY <1>1, <2>1, <2>2, <2>5 DEF IInv, Blocker
  <2> QED
    BY <2>3, <2>4, <2>5 DEF IInv
<1>3. CASE r \in busy
  <2>1. /\ busy' = busy \ {r} /\ available' = Append(available, r) /\ size' = size /\ crashed' = crashed
        /\ blocker' \in {1, blocker} /\ rpc' = [rpc EXCEPT ![r] = "toPause"]
    BY <1>3 DEF TaskCompleted, goto
  <2>2. rpc \in [Requests -> RequestLabels] /\ available \in Seq(Requests) /\ busy \subseteq Requests
    BY DEF IInv, TypeOK
  <2>3. /\ available' \in Seq(Requests) /\ Len(available') = Len(available) + 1 /\ available' # <<>>
        /\ available'[Len(available) + 1] = r
        /\ \A i \in DOMAIN available : available'[i] = available[i] /\ available[i] \in Requests
        /\ \A i \in DOMAIN available' : i \in DOMAIN available \/ i = Len(available) + 1
    BY <2>1, <2>2
  <2>4. \A i \in DOMAIN available : available[i] # r
    BY <1>3 DEF IInv, Pools
  <2>5. rpc'[r] = "toPause" /\ \A q \in Requests : q # r => rpc'[q] = rpc[q]
    BY <2>1, <2>2
  <2>6. TypeOK'
    BY <1>1, <2>1, <2>2, <2>3 DEF IInv, TypeOK, RequestLabels
  <2>7. Pools'
    <3>1. \A q \in Requests : rpc'[q] = "none" <=> rpc[q] = "none"
        BY <1>1, <2>5
    <3>2. \A i \in DOMAIN available' : rpc'[available'[i]] \in Resting /\ available'[i] \notin busy'
        BY <2>1, <2>3, <2>4, <2>5 DEF IInv, Pools, Resting
    <3>3. \A i, j \in DOMAIN available' : available'[i] = available'[j] => i = j
        BY <2>3, <2>4 DEF IInv, Pools
    <3>4. spc = "accept" => cur # r
        BY <1>1 DEF IInv, Pools, Resting
    <3>5. spc # "dead" => \A q \in Requests : rpc'[q] \in Connected \cup {"complete"} => q \in busy'
        BY <2>1, <2>5 DEF IInv, Pools, Connected
    <3> QED
        BY <1>1, <2>1, <2>2, <2>5, <3>1, <3>2, <3>3, <3>4, <3>5 DEF IInv, Pools
  <2>8. \A q \in Requests : rpc'[q] \in Connected \/ rpc[q] \in Connected => rpc'[q] = rpc[q]
    BY <1>1, <2>5 DEF Connected
  <2>9. Sockets'
    <3>1. sock[r] = NoConn /\ NoConn \notin Conns
        BY <1>1 DEF IInv, Sockets, Connected, Conns, NoConn
    <3> QED
        BY <1>1, <2>1, <2>8, <3>1 DEF IInv, Sockets
  <2>10. Answers'
    BY <1>1, <2>8 DEF IInv, Answers, Connected
  <2>11. ASSUME Fits PROVE Blocker'
    BY <1>1, <2>1, <2>3, <2>11 DEF IInv, Blocker
  <2> QED
    BY <2>6, <2>7, <2>9, <2>10, <2>11 DEF IInv
<1> QED
    BY <1>2, <1>3

-----------------------------------------------------------------------------
(* The theorem                                                             *)

LEMMA IInvHolds == ASSUME Parameters, IInv, [Next]_vars PROVE IInv'
<1>1. CASE UNCHANGED vars
    BY <1>1 DEF vars, IInv, TypeOK, Pools, Sockets, Answers, Blocker
<1>2. CASE Next
  <2>1. CASE Quiet
    BY <2>1, QuietKeeps
  <2>2. CASE GetAvailable \/ GetCreated
    BY <2>2, GetKeeps
  <2>3. CASE \E c \in Conns : Accept(c) \/ Connect(c)
    BY <2>3, AcceptKeeps, ConnectKeeps
  <2>4. CASE FinalClose \/ StopFinalClose \/ FinalClear \/ StopFinalClear
    BY <2>4, CloseKeeps, ClearKeeps
  <2>5. ASSUME NEW r \in Requests, RequestStep(r) PROVE IInv'
    BY <1>2, <2>5, ReachPauseKeeps, ParseKeeps, HandleKeeps, FinalKeeps, TaskCompletedKeeps DEF RequestStep, Next
  <2> QED
    BY <1>2, <2>1, <2>2, <2>3, <2>4, <2>5 DEF Next, ServerStep, StopStep, Quiet
<1> QED
    BY <1>1, <1>2

(* For any number of clients, requests and stops: a connection has one     *)
(* request and an available request none, a client gets one answer, with   *)
(* headers if it named a version that has them, and as long as max_cons is *)
(* not below STARTING_THREADS nothing but a stop ends the service: the     *)
(* server's thread finds a request behind the blocker, and a request that  *)
(* completes is in the busy pool (HttpServer.cpp:36, 208, 479-568).        *)
THEOREM ServerStaysRight == ASSUME Parameters PROVE Spec => []ServerRight
<1>1. Init => IInv
    BY InitHolds
<1>2. IInv /\ [Next]_vars => IInv'
    BY IInvHolds
<1>3. IInv => ServerRight
  <2> SUFFICES ASSUME IInv PROVE ServerRight
    OBVIOUS
  <2>1. OneRequestEach
    <3>1. \A i \in DOMAIN available : sock[available[i]] = NoConn
      <4>1. \A i \in DOMAIN available : available[i] \in Requests /\ rpc[available[i]] \notin Connected
        BY Sizes DEF IInv, Pools, Resting, Connected
      <4> QED
        BY <4>1 DEF IInv, Sockets
    <3> QED
        BY <3>1 DEF IInv, Sockets, OneRequestEach
  <2>2. AnsweredOnce
    BY DEF IInv, Answers, AnsweredOnce, Headed
  <2>3. Fits => ServesOn
    BY DEF IInv, Blocker, ServesOn
  <2> QED
    BY <2>1, <2>2, <2>3 DEF IInv, ServerRight
<1> QED
    BY <1>1, <1>2, <1>3, PTL DEF Spec

-----------------------------------------------------------------------------
(* Proof of CollectedOnce for any number of monitors, workers and          *)
(* transfers                                                               *)

MonitorLabels == {"none", "start", "run", "trigger", "final", "stopped", "collect", "exit", "exited", "threw"}

\* A monitor in the collector's hands has left its loop for good, and one that
\* is in a call of the channel has not: so no answer of the channel moves a
\* monitor that was handed over.
Collected ==
    /\ mpc \in [Monitors -> MonitorLabels] /\ deletes \in [Monitors -> Nat] /\ garbage \subseteq Monitors
    /\ \A m \in Monitors : m \in sending => mpc[m] \in {"trigger", "stopped"}
    /\ \A m \in Monitors : m \in garbage => deletes[m] = 0 /\ mpc[m] \in {"exit", "exited"}
    /\ DeletedOnce

\* A monitor that is not in the collector's hands, and stays out of them, may
\* go to any label before the collector's.
LEMMA MonitorMoves ==
    ASSUME Collected, NEW m \in Monitors, NEW l \in MonitorLabels \ {"exit", "exited"},
           mpc[m] \notin {"exit", "exited"}, mpc' = [mpc EXCEPT ![m] = l], sending' \subseteq sending \cup {Daemon},
           m \in sending' => l \in {"trigger", "stopped"}, Daemon \notin Monitors, UNCHANGED <<garbage, deletes>>
    PROVE  Collected'
<1>1. mpc'[m] = l /\ \A k \in Monitors : k # m => mpc'[k] = mpc[k]
    BY DEF Collected
<1>2. mpc' \in [Monitors -> MonitorLabels] /\ m \notin garbage /\ deletes[m] # 1
    BY DEF Collected, DeletedOnce
<1>3. \A k \in Monitors : k \in sending' => mpc'[k] \in {"trigger", "stopped"}
    BY <1>1 DEF Collected
<1>4. DeletedOnce'
    BY <1>1, <1>2 DEF Collected, DeletedOnce
<1> QED
    BY <1>1, <1>2, <1>3, <1>4 DEF Collected

LEMMA SameMonitors ==
    ASSUME Collected, sending' \subseteq sending \cup {Daemon}, Daemon \notin Monitors, UNCHANGED <<mpc, garbage, deletes>>
    PROVE  Collected'
BY DEF Collected, DeletedOnce

LEMMA SendKeeps ==
    ASSUME RadminParameters, Collected, NEW p \in Monitors \cup {Daemon}, sendStep(p)
    PROVE  Collected'
<1>1. UNCHANGED <<garbage, deletes>> /\ Daemon \notin Monitors
    BY DEF sendStep, SendBegin, SendEnd, gcVars, RadminParameters
<1>2. CASE SendBegin(p)
  <2>1. wantsToSend(p) /\ p \notin sending
    BY <1>2 DEF SendBegin
  <2>2. CASE p = Daemon
    <3>1. sending' \subseteq sending \cup {Daemon} /\ UNCHANGED mpc
        BY <1>2, <2>2 DEF SendBegin, throwFrom
    <3> QED
        BY <1>1, <3>1, SameMonitors
  <2>3. CASE p \in Monitors
    <3>1. mpc[p] \in {"trigger", "stopped"} /\ p # Daemon
        BY <1>1, <2>1, <2>3 DEF wantsToSend
    <3>2. CASE connected
      <4>1. sending' = sending \cup {p} /\ UNCHANGED mpc
        BY <1>2, <3>2 DEF SendBegin
      <4> QED
        BY <1>1, <3>1, <4>1 DEF Collected, DeletedOnce
    <3>3. CASE ~connected
      <4>1. sending' = sending /\ mpc' = [mpc EXCEPT ![p] = "threw"]
        BY <1>2, <3>1, <3>3 DEF SendBegin, throwFrom
      <4> QED
        BY <1>1, <2>1, <2>3, <3>1, <4>1, MonitorMoves DEF MonitorLabels
    <3> QED
        BY <3>2, <3>3
  <2> QED
    BY <2>2, <2>3
<1>3. ASSUME NEW ok \in BOOLEAN, SendEnd(p, ok) PROVE Collected'
  <2>1. p \in sending /\ sending' = sending \ {p}
    BY <1>3 DEF SendEnd
  <2>2. CASE p = Daemon
    <3>1. UNCHANGED mpc
        BY <1>3, <2>2 DEF SendEnd, throwFrom
    <3> QED
        BY <1>1, <2>1, <3>1, SameMonitors
  <2>3. CASE p \in Monitors
    <3>1. mpc[p] \in {"trigger", "stopped"} /\ p # Daemon
        BY <1>1, <2>1, <2>3 DEF Collected
    <3>2. PICK l \in {"collect", "final", "run", "threw"} : mpc' = [mpc EXCEPT ![p] = l]
        BY <1>3, <3>1 DEF SendEnd, throwFrom
    <3> QED
        BY <1>1, <2>1, <2>3, <3>1, <3>2, MonitorMoves DEF MonitorLabels
  <2> QED
    BY <2>2, <2>3
<1> QED
    BY <1>2, <1>3 DEF sendStep

LEMMA MonitorKeeps ==
    ASSUME RadminParameters, Collected, NEW m \in Monitors, monitorStep(m)
    PROVE  Collected'
<1>1. UNCHANGED <<sending, deletes>> /\ Daemon \notin Monitors
    BY DEF monitorStep, MonitorInitial, MonitorRun, MonitorFinal, MonitorCollect, MonitorExit, channelVars,
        gcVars, RadminParameters
<1>2. CASE MonitorInitial(m) \/ MonitorRun(m) \/ MonitorFinal(m)
  <2>1. /\ mpc[m] \in {"start", "run", "final"} /\ UNCHANGED garbage
        /\ \E l \in {"run", "trigger", "final", "stopped"} : mpc' = [mpc EXCEPT ![m] = l]
    BY <1>2 DEF MonitorInitial, MonitorRun, MonitorFinal, step, gcVars
  <2>2. m \notin sending
    BY <2>1 DEF Collected
  <2> QED
    BY <1>1, <2>1, <2>2, MonitorMoves DEF MonitorLabels
<1>3. CASE MonitorCollect(m)
  <2>1. mpc[m] = "collect" /\ mpc' = [mpc EXCEPT ![m] = "exit"] /\ garbage' = garbage \cup {m}
    BY <1>3 DEF MonitorCollect, step
  <2>2. deletes[m] = 0 /\ m \notin sending
    BY <2>1 DEF Collected, DeletedOnce
  <2>3. mpc' \in [Monitors -> MonitorLabels] /\ mpc'[m] = "exit" /\ \A k \in Monitors : k # m => mpc'[k] = mpc[k]
    BY <2>1 DEF Collected, MonitorLabels
  <2>4. DeletedOnce'
    BY <1>1, <2>1, <2>2, <2>3 DEF Collected, DeletedOnce
  <2> QED
    BY <1>1, <2>1, <2>2, <2>3, <2>4 DEF Collected
<1>4. CASE MonitorExit(m)
  <2>1. mpc[m] = "exit" /\ mpc' = [mpc EXCEPT ![m] = "exited"] /\ UNCHANGED garbage
    BY <1>4 DEF MonitorExit, step, gcVars
  <2>2. m \notin sending
    BY <2>1 DEF Collected
  <2>3. mpc' \in [Monitors -> MonitorLabels] /\ mpc'[m] = "exited" /\ \A k \in Monitors : k # m => mpc'[k] = mpc[k]
    BY <2>1 DEF Collected, MonitorLabels
  <2>4. DeletedOnce'
    BY <1>1, <2>1, <2>3 DEF Collected, DeletedOnce
  <2> QED
    BY <1>1, <2>1, <2>2, <2>3, <2>4 DEF Collected
<1> QED
    BY <1>2, <1>3, <1>4 DEF monitorStep

\* What the collector deletes it has taken from its list.
LEMMA GcKeeps == ASSUME RadminParameters, Collected, GcMonitors PROVE Collected'
<1>1. /\ deletes' = [m \in Monitors |-> deletes[m] + IF m \in garbage THEN 1 ELSE 0]
      /\ mpc' = [m \in Monitors |-> IF m \in garbage THEN "exited" ELSE mpc[m]]
      /\ garbage' = {} /\ UNCHANGED sending
    BY DEF GcMonitors, channelVars
<1>2. \A m \in Monitors : m \in garbage => deletes'[m] = 1 /\ mpc'[m] = "exited" /\ m \notin sending
    BY <1>1 DEF Collected
<1>3. \A m \in Monitors : m \notin garbage => deletes'[m] = deletes[m] /\ mpc'[m] = mpc[m]
    BY <1>1 DEF Collected
<1>4. mpc' \in [Monitors -> MonitorLabels] /\ deletes' \in [Monitors -> Nat]
    BY <1>1 DEF Collected, MonitorLabels
<1>5. DeletedOnce'
    BY <1>1, <1>2, <1>3 DEF Collected, DeletedOnce
<1> QED
    BY <1>1, <1>2, <1>3, <1>4, <1>5 DEF Collected

LEMMA WorkerKeeps ==
    ASSUME RadminParameters, Collected, NEW w \in Workers, workerStep(w)
    PROVE  Collected'
<1>1. UNCHANGED <<sending, garbage, deletes>> /\ Daemon \notin Monitors
    BY DEF workerStep, NewFtp, KeepFtp, KillAllProcs, NextFtpPort, MonitorProcess, channelVars, gcVars, RadminParameters
<1>2. CASE \E m \in Monitors, a \in Actions : MonitorProcess(w, m, a)
  <2>1. PICK m \in Monitors : mpc[m] = "none" /\ mpc' = [mpc EXCEPT ![m] = "start"]
    BY <1>2 DEF MonitorProcess
  <2>2. m \notin sending
    BY <2>1 DEF Collected
  <2> QED
    BY <1>1, <2>1, <2>2, MonitorMoves DEF MonitorLabels
<1>3. CASE NewFtp(w) \/ KeepFtp(w) \/ KillAllProcs(w) \/ NextFtpPort(w)
  <2>1. UNCHANGED mpc
    BY <1>3 DEF NewFtp, KeepFtp, KillAllProcs, NextFtpPort, monitorVars
  <2> QED
    BY <1>1, <2>1, SameMonitors
<1> QED
    BY <1>2, <1>3 DEF workerStep

(* However many monitors report, are refused by the channel, end or are    *)
(* collected, and in whatever order, none is deleted twice, none is        *)
(* deleted before its thread is past the channel, and one that ended by    *)
(* itself has been handed to the collector (Radmin.cpp:417, 461).          *)
THEOREM MonitorsCollectedOnce == ASSUME RadminParameters PROVE RadminSpec => []CollectedOnce
<1>1. RadminInit => Collected
    BY DEF RadminInit, Collected, DeletedOnce, MonitorLabels
<1>2. Collected /\ [RadminNext]_radminVars => Collected'
  <2> SUFFICES ASSUME Collected, [RadminNext]_radminVars PROVE Collected'
    OBVIOUS
  <2>1. Daemon \notin Monitors
    BY DEF RadminParameters
  <2>2. CASE UNCHANGED radminVars
    BY <2>2 DEF radminVars, channelVars, monitorVars, gcVars, Collected, DeletedOnce
  <2>3. CASE daemonStep \/ Signal \/ GcFtps
    <3>1. UNCHANGED <<mpc, garbage, deletes, sending>>
      <4>1. CASE daemonStep
        BY <4>1 DEF daemonStep, Main, Forked, DaemonInitialize, DaemonInitial, DaemonRun, ChannelReset,
            ChannelConnect, DaemonWatch, DaemonFinal, channelVars, monitorVars, gcVars
      <4>2. CASE Signal
        BY <4>2 DEF Signal, channelVars, monitorVars, gcVars
      <4>3. CASE GcFtps
        BY <4>3 DEF GcFtps, channelVars, monitorVars
      <4> QED
        BY <2>3, <4>1, <4>2, <4>3
    <3> QED
        BY <2>1, <3>1, SameMonitors
  <2>4. ASSUME NEW m \in Monitors, ProcessEnds(m) PROVE Collected'
    BY <2>1, <2>4, SameMonitors DEF ProcessEnds, channelVars, gcVars
  <2>5. ASSUME NEW f \in Ftps, NEW error \in BOOLEAN, Transfer(f, error) PROVE Collected'
    BY <2>1, <2>5, SameMonitors DEF Transfer, channelVars, monitorVars, gcVars
  <2> QED
    BY <2>2, <2>3, <2>4, <2>5, SendKeeps, MonitorKeeps, GcKeeps, WorkerKeeps DEF RadminNext, gcStep
<1>3. Collected => CollectedOnce
    BY DEF Collected, CollectedOnce
<1> QED
    BY <1>1, <1>2, <1>3, PTL DEF RadminSpec

-----------------------------------------------------------------------------
(* Proof.  The history field of a Descriptor and the serial of the socket  *)
(* it holds stay equal because nobody else holds the number; nobody else   *)
(* does because a new number comes from the unused ones, and a number that *)
(* somebody holds is not unused.                                           *)

Descriptors ==
    [fd : Fds \cup {INVALID}, type : Types, connected : BOOLEAN, bound : BOOLEAN,
     listening : BOOLEAN, blocking : BOOLEAN, of : Nat]
KernelSockets ==
    [serial : Nat, type : Types \cup {"none"}, blocking : BOOLEAN,
     state : {"free", "new", "bound", "listening", "connecting", "connected", "left"}]

Typed ==
    /\ desc \in [Objs -> Descriptors] /\ server \in Descriptors /\ conns \in Seq(Descriptors)
    /\ kernel \in [Fds -> KernelSockets] /\ made \in Nat /\ shared \in BOOLEAN

\* The Descriptor d is right about the sockets k.
Right(d, k) ==
    /\ isValid(d) => k[d.fd].serial = d.of /\ k[d.fd].serial # 0
    /\ ~isValid(d) => ~d.connected /\ ~d.bound /\ ~d.listening
    /\ d.listening => k[d.fd].state = "listening"
    /\ d.bound => k[d.fd].state \in {"bound", "listening"}
    /\ d.connected /\ d.type = "TCP" => k[d.fd].state \in {"connected", "left"}
AllRight ==
    /\ \A o \in Objs : Right(desc[o], kernel)
    /\ \A i \in 1..Len(conns) : Right(conns[i], kernel) /\ isValid(conns[i])
    /\ Right(server, kernel)

Apart ==
    /\ \A o, p \in Objs : o # p /\ isValid(desc[o]) => desc[o].fd # desc[p].fd
    /\ \A i, j \in 1..Len(conns) : i # j => conns[i].fd # conns[j].fd
    /\ \A o \in Objs, i \in 1..Len(conns) : desc[o].fd # conns[i].fd
    /\ \A o \in Objs : isValid(server) => desc[o].fd # server.fd
    /\ \A i \in 1..Len(conns) : conns[i].fd # server.fd

Held ==
    \A f \in Fds : kernel[f] # Free =>
        \/ \E o \in Objs : desc[o].fd = f
        \/ \E i \in 1..Len(conns) : conns[i].fd = f
        \/ server.fd = f

SocketInv == Typed /\ (~shared => AllRight /\ Apart /\ Held)

\* A set of numbers has a least one.
LEMMA LeastOfSet ==
    ASSUME NEW S, S \subseteq Nat, S # {}
    PROVE  \E x \in S : \A y \in S : x =< y
<1> DEFINE R == OpToRel(<, Nat)
<1>1. IsWellFoundedOn(R, Nat)
  BY NatLessThanWellFounded
<1>2. \A a, b \in Nat : <<a, b>> \in R <=> a < b
  BY DEF OpToRel
<1> HIDE DEF R
<1>3. PICK x \in S : \A y \in S : ~(<<y, x>> \in R)
  BY <1>1, WFMin
<1>4. \A y \in S : x =< y
  <2> SUFFICES ASSUME NEW y \in S PROVE x =< y
    OBVIOUS
  <2>1. ~(y < x)
    BY <1>2, <1>3
  <2> QED
    BY <2>1
<1> QED
  BY <1>4

LEMMA MinIsMember ==
    ASSUME NEW S, S \subseteq Nat, S # {}
    PROVE  Min(S) \in S
BY LeastOfSet DEF Min

\* What the kernel does to other sockets is nothing to a Descriptor.
LEMMA RightStays ==
    ASSUME NEW d, NEW k, NEW l, Right(d, k), isValid(d) => l[d.fd] = k[d.fd]
    PROVE  Right(d, l)
  BY DEF Right, isValid

\* A number that a Descriptor holds is not an unused one.
LEMMA HeldIsUsed ==
    ASSUME Typed, AllRight
    PROVE  /\ \A o \in Objs : isValid(desc[o]) => desc[o].fd \in Fds /\ kernel[desc[o].fd] # Free
           /\ \A i \in 1..Len(conns) : /\ conns[i] \in Descriptors /\ conns[i].fd \in Fds
                                       /\ isValid(conns[i]) /\ kernel[conns[i].fd] # Free
           /\ isValid(server) => server.fd \in Fds /\ kernel[server.fd] # Free
<1>1. \A d \in Descriptors : Right(d, kernel) /\ isValid(d) => d.fd \in Fds /\ kernel[d.fd] # Free
  BY DEF Descriptors, Right, isValid, Free
<1>2. \A i \in 1..Len(conns) : conns[i] \in Descriptors
  BY ElementOfSeq DEF Typed
<1> QED
  BY <1>1, <1>2 DEF Typed, AllRight

\* The Descriptor of one Socket changes to d: it keeps its number, gives it
\* back, or takes one that was unused.
Changes(o, d) ==
    /\ desc' = [desc EXCEPT ![o] = d] /\ server' = server /\ conns' = conns
    /\ \A f \in Fds : f # desc[o].fd /\ f # d.fd => kernel'[f] = kernel[f]
    /\ isValid(d) => d.fd = desc[o].fd \/ kernel[d.fd] = Free
    /\ isValid(desc[o]) /\ d.fd # desc[o].fd => kernel'[desc[o].fd] = Free
    /\ Right(d, kernel')

\* Such a change harms nobody.
LEMMA ChangeIsHarmless ==
    ASSUME SocketParameters, Typed, AllRight, Apart, Held,
           NEW o \in Objs, NEW d \in Descriptors, Changes(o, d)
    PROVE  (AllRight /\ Apart /\ Held)'
<1> USE DEF Changes
<1>1. /\ desc'[o] = d
      /\ \A p \in Objs : p # o => desc'[p] = desc[p]
  BY DEF Typed
<1>2. \A p \in Objs : p # o /\ isValid(desc[p]) =>
          /\ desc[p].fd \in Fds /\ desc[p].fd # desc[o].fd
          /\ desc[p].fd # d.fd /\ kernel'[desc[p].fd] = kernel[desc[p].fd]
  BY HeldIsUsed DEF Apart, isValid
<1>3. \A i \in 1..Len(conns) :
          /\ conns[i].fd \in Fds /\ conns[i].fd # desc[o].fd
          /\ conns[i].fd # d.fd /\ kernel'[conns[i].fd] = kernel[conns[i].fd]
  BY HeldIsUsed DEF Apart, isValid
<1>4. isValid(server) =>
          /\ server.fd \in Fds /\ server.fd # desc[o].fd
          /\ server.fd # d.fd /\ kernel'[server.fd] = kernel[server.fd]
  BY HeldIsUsed DEF Apart, isValid
<1>5. AllRight'
  BY <1>1, <1>2, <1>3, <1>4, RightStays DEF AllRight
<1>6. Apart'
  BY <1>1, <1>2, <1>3, <1>4, HeldIsUsed DEF Apart, isValid
<1>7. Held'
  <2> SUFFICES ASSUME NEW f \in Fds, kernel'[f] # Free
               PROVE  \/ \E p \in Objs : desc'[p].fd = f
                      \/ \E i \in 1..Len(conns) : conns[i].fd = f
                      \/ server.fd = f
    BY DEF Held
  <2>1. CASE f = d.fd
    BY <2>1, <1>1
  <2>2. CASE f # d.fd
    <3>1. f # desc[o].fd
      BY <2>2 DEF SocketParameters, isValid, INVALID
    <3>2. kernel[f] # Free
      BY <2>2, <3>1
    <3> QED
      BY <3>1, <3>2, <1>1 DEF Held
  <2> QED
    BY <2>1, <2>2
<1> QED
  BY <1>5, <1>6, <1>7

\* The numbers that socket() finds are unused ones.
LEMMA MinUnused ==
    ASSUME SocketParameters, unused # {}
    PROVE  Min(unused) \in Fds /\ kernel[Min(unused)] = Free
<1>1. unused \subseteq Nat /\ unused \subseteq Fds
  BY DEF unused, SocketParameters
<1>2. Min(unused) \in unused
  BY <1>1, MinIsMember
<1> QED
  BY <1>2 DEF unused

\* Every call of a Socket is such a change.
LEMMA CallsChange ==
    ASSUME SocketParameters, Typed, AllRight, NEW o \in Objs,
           \/ Close(o) \/ Reset(o) \/ ConnectSocket(o) \/ Bind(o) \/ Listen(o) \/ Disconnected(o)
           \/ \E t \in Types : Open(o, t)
           \/ \E b \in BOOLEAN : SetBlockingMode(o, b) \/ ConnectTimed(o, b)
           \/ \E p \in Objs : AcceptInto(p, o)
    PROVE  \E d \in Descriptors : Changes(o, d)
<1>1. desc[o] \in Descriptors /\ Right(desc[o], kernel) /\ kernel \in [Fds -> KernelSockets] /\ made \in Nat
  BY DEF Typed, AllRight
<1>2. isValid(desc[o]) =>
        desc[o].fd \in Fds /\ kernel[desc[o].fd] # Free /\ kernel[desc[o].fd] \in KernelSockets
  BY <1>1 DEF Descriptors, isValid, Right, Free
<1>3. INVALID \notin Fds
  BY DEF SocketParameters, INVALID
<1>4. ASSUME isValid(desc[o]), desc' = [desc EXCEPT ![o] = closed(desc[o])],
             kernel' = release(desc[o]), UNCHANGED <<server, conns, made>>
      PROVE  \E d \in Descriptors : Changes(o, d)
  <2>1. closed(desc[o]) \in Descriptors /\ ~isValid(closed(desc[o]))
    BY <1>1 DEF closed, Closed, Descriptors, isValid
  <2>2. Right(closed(desc[o]), kernel')
    BY <2>1, <1>1 DEF Right, closed, Closed, Descriptors
  <2>3. \A f \in Fds : kernel'[f] = IF f = desc[o].fd THEN Free ELSE kernel[f]
    BY <1>1, <1>2, <1>4 DEF release
  <2>4. Changes(o, closed(desc[o]))
    BY <1>2, <1>4, <2>1, <2>2, <2>3 DEF Changes
  <2> QED
    BY <2>1, <2>4
<1>5. CASE Close(o)
  BY <1>4, <1>5 DEF Close
<1>6. CASE Disconnected(o)
  <2>1. isValid(desc[o])
    BY <1>1, <1>6 DEF Disconnected, Right
  <2> QED
    BY <1>4, <1>6, <2>1 DEF Disconnected
<1>7. ASSUME isValid(desc[o]), NEW d \in Descriptors, NEW s \in KernelSockets,
             d.fd = desc[o].fd, d.of = desc[o].of, s.serial = kernel[d.fd].serial,
             d.listening => s.state = "listening",
             d.bound => s.state \in {"bound", "listening"},
             d.connected /\ d.type = "TCP" => s.state \in {"connected", "left"},
             desc' = [desc EXCEPT ![o] = d], kernel' = [kernel EXCEPT ![desc[o].fd] = s],
             UNCHANGED <<server, conns>>
      PROVE  \E e \in Descriptors : Changes(o, e)
  <2>1. /\ kernel'[d.fd] = s
        /\ \A f \in Fds : f # desc[o].fd => kernel'[f] = kernel[f]
    BY <1>1, <1>2, <1>7
  <2>2. Right(d, kernel')
    BY <1>1, <1>7, <2>1 DEF Right, isValid
  <2>3. Changes(o, d)
    BY <1>7, <2>1, <2>2 DEF Changes
  <2> QED
    BY <2>3
<1>8. CASE ConnectSocket(o)
  <2> DEFINE d == [desc[o] EXCEPT !.connected = TRUE]
             s == [kernel[desc[o].fd] EXCEPT !.state = "connected"]
  <2>1. /\ isValid(desc[o]) /\ ~desc[o].listening /\ ~desc[o].bound
        /\ desc' = [desc EXCEPT ![o] = d] /\ kernel' = [kernel EXCEPT ![desc[o].fd] = s]
        /\ UNCHANGED <<server, conns>>
    BY <1>8 DEF ConnectSocket, inUse
  <2>2. /\ d \in Descriptors /\ d.fd = desc[o].fd /\ d.of = desc[o].of
        /\ d.listening = desc[o].listening /\ d.bound = desc[o].bound
    BY <1>1 DEF Descriptors
  <2>3. s \in KernelSockets /\ s.serial = kernel[desc[o].fd].serial /\ s.state = "connected"
    BY <1>2, <2>1 DEF KernelSockets
  <2> HIDE DEF d, s
  <2> QED
    BY <1>7, <2>1, <2>2, <2>3
<1>9. CASE Bind(o)
  <2> DEFINE d == [desc[o] EXCEPT !.bound = TRUE]
             s == [kernel[desc[o].fd] EXCEPT !.state = "bound"]
  <2>1. /\ isValid(desc[o]) /\ ~desc[o].listening /\ kernel[desc[o].fd].state = "new"
        /\ desc' = [desc EXCEPT ![o] = d] /\ kernel' = [kernel EXCEPT ![desc[o].fd] = s]
        /\ UNCHANGED <<server, conns>>
    BY <1>9 DEF Bind, inUse, socketOf
  <2>2. /\ d \in Descriptors /\ d.fd = desc[o].fd /\ d.of = desc[o].of
        /\ d.listening = desc[o].listening /\ d.connected = desc[o].connected
        /\ d.type = desc[o].type
    BY <1>1 DEF Descriptors
  <2>3. s \in KernelSockets /\ s.serial = kernel[desc[o].fd].serial /\ s.state = "bound"
    BY <1>2, <2>1 DEF KernelSockets
  <2>4. ~(d.connected /\ d.type = "TCP")
    BY <1>1, <2>1, <2>2 DEF Right
  <2> HIDE DEF d, s
  <2> QED
    BY <1>7, <2>1, <2>2, <2>3, <2>4
<1>10. CASE Listen(o)
  <2> DEFINE d == [desc[o] EXCEPT !.listening = TRUE]
             s == [kernel[desc[o].fd] EXCEPT !.state = "listening"]
  <2>1. /\ desc[o].bound
        /\ desc' = [desc EXCEPT ![o] = d] /\ kernel' = [kernel EXCEPT ![desc[o].fd] = s]
        /\ UNCHANGED <<server, conns>>
    BY <1>10 DEF Listen
  <2>2. isValid(desc[o]) /\ ~(desc[o].connected /\ desc[o].type = "TCP")
    BY <1>1, <2>1 DEF Right
  <2>3. /\ d \in Descriptors /\ d.fd = desc[o].fd /\ d.of = desc[o].of
        /\ d.connected = desc[o].connected /\ d.type = desc[o].type
    BY <1>1 DEF Descriptors
  <2>4. s \in KernelSockets /\ s.serial = kernel[desc[o].fd].serial /\ s.state = "listening"
    BY <1>2, <2>2 DEF KernelSockets
  <2> HIDE DEF d, s
  <2> QED
    BY <1>7, <2>1, <2>2, <2>3, <2>4
<1>11. ASSUME NEW b \in BOOLEAN, SetBlockingMode(o, b)
       PROVE  \E e \in Descriptors : Changes(o, e)
  <2> DEFINE d == mode(desc[o], b)
             s == [kernel[desc[o].fd] EXCEPT !.blocking = b]
  <2>1. /\ isValid(desc[o])
        /\ desc' = [desc EXCEPT ![o] = d] /\ kernel' = [kernel EXCEPT ![desc[o].fd] = s]
        /\ UNCHANGED <<server, conns>>
    BY <1>11 DEF SetBlockingMode
  <2>2. /\ d \in Descriptors /\ d.fd = desc[o].fd /\ d.of = desc[o].of /\ d.type = desc[o].type
        /\ d.connected = desc[o].connected /\ d.bound = desc[o].bound /\ d.listening = desc[o].listening
    BY <1>1 DEF Descriptors, mode
  <2>3. /\ s \in KernelSockets /\ s.serial = kernel[desc[o].fd].serial
        /\ s.state = kernel[desc[o].fd].state
    BY <1>2, <2>1 DEF KernelSockets
  <2>4. /\ d.listening => s.state = "listening"
        /\ d.bound => s.state \in {"bound", "listening"}
        /\ d.connected /\ d.type = "TCP" => s.state \in {"connected", "left"}
    BY <1>1, <2>2, <2>3 DEF Right
  <2> HIDE DEF d, s
  <2> QED
    BY <1>7, <2>1, <2>2, <2>3, <2>4
<1>12. ASSUME NEW b \in BOOLEAN, ConnectTimed(o, b)
       PROVE  \E e \in Descriptors : Changes(o, e)
  <2> DEFINE d == IF b THEN desc[o] ELSE mode(desc[o], FALSE)
             s == [kernel[desc[o].fd] EXCEPT !.state = IF b THEN "connected" ELSE "connecting",
                                             !.blocking = IF b THEN desc[o].blocking ELSE FALSE]
  <2>1. /\ isValid(desc[o]) /\ ~desc[o].listening /\ ~desc[o].bound
        /\ kernel[desc[o].fd].state = "new" /\ UNCHANGED <<server, conns>>
    BY <1>12 DEF ConnectTimed, inUse, socketOf
  <2>2. kernel' = [kernel EXCEPT ![desc[o].fd] = s]
    BY <1>1, <1>2, <1>12, <2>1 DEF ConnectTimed
  <2>3. desc' = [desc EXCEPT ![o] = d]
    BY <1>12 DEF ConnectTimed, Typed
  <2>4. /\ d \in Descriptors /\ d.fd = desc[o].fd /\ d.of = desc[o].of /\ d.type = desc[o].type
        /\ d.connected = desc[o].connected /\ d.bound = desc[o].bound /\ d.listening = desc[o].listening
    BY <1>1 DEF Descriptors, mode
  <2>5. s \in KernelSockets /\ s.serial = kernel[desc[o].fd].serial
    BY <1>1, <1>2, <2>1 DEF KernelSockets, Descriptors
  <2>6. ~(d.connected /\ d.type = "TCP")
    BY <1>1, <2>1, <2>4 DEF Right
  <2> HIDE DEF d, s
  <2> QED
    BY <1>7, <2>1, <2>2, <2>3, <2>4, <2>5, <2>6
<1>13. ASSUME NEW t \in Types, NEW c \in BOOLEAN, NEW st, ~isValid(desc[o]),
              fresh(t, st), desc' = [desc EXCEPT ![o] = opened(NoDescriptor(t), t, c)],
              UNCHANGED <<server, conns>>, c /\ t = "TCP" => st = "connected"
       PROVE  \E e \in Descriptors : Changes(o, e)
  <2> DEFINE d == opened(NoDescriptor(t), t, c)
  <2>1. Min(unused) \in Fds /\ kernel[Min(unused)] = Free
    BY <1>13, MinUnused DEF fresh
  <2>2. /\ d \in Descriptors /\ d.fd = Min(unused) /\ d.of = made + 1 /\ d.connected = c /\ d.type = t
        /\ ~d.bound /\ ~d.listening /\ isValid(d)
    <3>1. /\ NoDescriptor(t) \in Descriptors
          /\ ~NoDescriptor(t).bound /\ ~NoDescriptor(t).listening
      BY DEF NoDescriptor, Descriptors
    <3>2. made + 1 \in Nat
      BY <1>1
    <3>3. PICK n \in Fds, m \in Nat, e \in Descriptors :
              n = Min(unused) /\ m = made + 1 /\ e = NoDescriptor(t)
      BY <2>1, <3>1, <3>2
    <3>4. d = [e EXCEPT !.fd = n, !.type = t, !.connected = c, !.of = m]
      BY <3>3 DEF opened
    <3> HIDE DEF d
    <3>5. d \in Descriptors /\ d.fd = n /\ d.type = t /\ d.of = m
      BY <3>4 DEF Descriptors
    <3>6. d.connected = c /\ d.bound = e.bound /\ d.listening = e.listening
      BY <3>4 DEF Descriptors
    <3> QED
      BY <1>3, <3>1, <3>3, <3>5, <3>6 DEF isValid
  <2>3. /\ kernel'[Min(unused)].serial = made + 1 /\ kernel'[Min(unused)].state = st
        /\ \A f \in Fds : f # Min(unused) => kernel'[f] = kernel[f]
    BY <1>1, <1>13, <2>1 DEF fresh
  <2> HIDE DEF d
  <2>4. Right(d, kernel')
    BY <1>1, <1>13, <2>2, <2>3 DEF Right
  <2>5. Changes(o, d)
    BY <1>13, <2>1, <2>2, <2>3, <2>4 DEF Changes, d
  <2> QED
    BY <2>2, <2>5
<1>14. ASSUME NEW t \in Types, Open(o, t)
       PROVE  \E e \in Descriptors : Changes(o, e)
  BY <1>13, <1>14 DEF Open, Types
<1>15. ASSUME NEW p \in Objs, AcceptInto(p, o)
       PROVE  \E e \in Descriptors : Changes(o, e)
  BY <1>13, <1>15 DEF AcceptInto, Types
<1>16. CASE Reset(o)
  <2> DEFINE left == release(desc[o])
             free == {g \in Fds : left[g] = Free}
  <2> PICK n : n = Min(free)
    OBVIOUS
  <2> DEFINE d == [closed(desc[o]) EXCEPT !.fd = n, !.connected = (desc[o].type = "UDP"), !.of = made + 1]
             s == [serial |-> made + 1, type |-> desc[o].type, state |-> "new", blocking |-> TRUE]
  <2>1. /\ isValid(desc[o]) /\ kernel' = [left EXCEPT ![n] = s]
        /\ desc' = [desc EXCEPT ![o] = d] /\ UNCHANGED <<server, conns>>
    BY <1>16 DEF Reset
  <2>2. left = [kernel EXCEPT ![desc[o].fd] = Free]
    BY <2>1 DEF release
  <2>3. n \in free
    <3>1. free \subseteq Nat
      BY DEF SocketParameters
    <3>2. desc[o].fd \in free
      BY <1>1, <1>2, <2>1, <2>2
    <3> HIDE DEF free
    <3> QED
      BY <3>1, <3>2, MinIsMember
  <2>4. n \in Fds /\ (n = desc[o].fd \/ kernel[n] = Free)
    BY <1>1, <1>2, <2>2, <2>3
  <2>5. /\ d \in Descriptors /\ d.fd = n /\ d.of = made + 1 /\ d.type = desc[o].type
        /\ ~(d.connected /\ d.type = "TCP") /\ ~d.bound /\ ~d.listening /\ isValid(d)
    <3>1. /\ closed(desc[o]) \in Descriptors /\ closed(desc[o]).type = desc[o].type
          /\ ~closed(desc[o]).bound /\ ~closed(desc[o]).listening
      BY <1>1 DEF closed, Closed, Descriptors
    <3>2. made + 1 \in Nat
      BY <1>1
    <3>3. PICK m \in Nat, c \in BOOLEAN, e \in Descriptors :
              m = made + 1 /\ c = (desc[o].type = "UDP") /\ e = closed(desc[o])
      BY <3>1, <3>2
    <3>4. d = [e EXCEPT !.fd = n, !.connected = c, !.of = m]
      BY <3>3
    <3> HIDE DEF d
    <3>5. d \in Descriptors /\ d.fd = n /\ d.type = e.type /\ d.of = m
      BY <2>4, <3>4 DEF Descriptors
    <3>6. d.connected = c /\ d.bound = e.bound /\ d.listening = e.listening
      BY <3>4 DEF Descriptors
    <3> QED
      BY <1>3, <2>4, <3>1, <3>3, <3>5, <3>6 DEF isValid
  <2>6. /\ kernel'[n].serial = made + 1
        /\ \A f \in Fds : f # n /\ f # desc[o].fd => kernel'[f] = kernel[f]
        /\ n # desc[o].fd => kernel'[desc[o].fd] = Free
    BY <1>1, <1>2, <2>1, <2>2, <2>4
  <2> HIDE DEF d, s, free, left
  <2>7. Right(d, kernel')
    BY <1>1, <2>5, <2>6 DEF Right
  <2>8. Changes(o, d)
    BY <2>1, <2>4, <2>5, <2>6, <2>7 DEF Changes
  <2> QED
    BY <2>5, <2>8
<1> QED
  BY <1>5, <1>6, <1>8, <1>9, <1>10, <1>11, <1>12, <1>14, <1>15, <1>16

\* A sequence without its i-th element.
LEMMA Removed ==
    ASSUME NEW S, NEW s \in Seq(S), NEW i \in 1..Len(s), NEW t,
           t = SubSeq(s, 1, i - 1) \o SubSeq(s, i + 1, Len(s))
    PROVE  /\ t \in Seq(S) /\ Len(t) = Len(s) - 1
           /\ \A j \in 1..Len(t) : t[j] = s[IF j < i THEN j ELSE j + 1]
<1> DEFINE a == SubSeq(s, 1, i - 1)
           b == SubSeq(s, i + 1, Len(s))
<1>0. Len(s) \in Nat /\ i \in Nat /\ 1 <= i /\ i <= Len(s)
  BY LenProperties
<1>1. /\ a \in Seq(S) /\ Len(a) = i - 1
      /\ \A j \in 1..i - 1 : a[j] = s[j]
  BY SubSeqProperties
<1>2. /\ b \in Seq(S) /\ Len(b) = Len(s) - i
      /\ \A j \in 1..Len(s) - i : b[j] = s[i + j]
  <2>1. PICK n \in Nat : n = Len(s)
    BY LenProperties
  <2>2. PICK m \in Nat : m = i + 1 /\ m <= n + 1
    BY <2>1
  <2>3. \A j \in m..n : s[j] \in S
    BY <2>1, <2>2, ElementOfSeq
  <2>4. /\ SubSeq(s, m, n) \in Seq(S) /\ Len(SubSeq(s, m, n)) = IF m <= n THEN n - m + 1 ELSE 0
        /\ \A j \in 1..n - m + 1 : SubSeq(s, m, n)[j] = s[m + j - 1]
    BY <2>3, SubSeqProperties
  <2>5. \A j \in 1..n - i : j \in 1..n - m + 1 /\ m + j - 1 = i + j
    BY <2>1, <2>2
  <2> QED
    BY <2>1, <2>2, <2>4, <2>5
<1>3. /\ t \in Seq(S) /\ Len(t) = Len(a) + Len(b)
      /\ \A j \in 1..Len(a) + Len(b) : t[j] = IF j <= Len(a) THEN a[j] ELSE b[j - Len(a)]
  BY <1>1, <1>2, ConcatProperties
<1> HIDE DEF a, b
<1>4. PICK m \in Nat, n \in Nat : m = Len(a) /\ n = Len(b) /\ m = i - 1 /\ n = Len(s) - i
  <2>1. i - 1 \in Nat /\ Len(s) - i \in Nat
    BY <1>0
  <2>2. Len(a) = i - 1 /\ Len(b) = Len(s) - i
    BY <1>1, <1>2, Zenon
  <2> QED
    BY <2>1, <2>2, Zenon
<1>5. Len(t) = m + n /\ Len(t) = Len(s) - 1
  <2>1. Len(t) = m + n
    BY <1>3, <1>4, Zenon
  <2>2. m + n = Len(s) - 1
    BY <1>0, <1>4
  <2> QED
    BY <2>1, <2>2, Zenon
<1>6. ASSUME NEW j \in 1..Len(t)
      PROVE  t[j] = s[IF j < i THEN j ELSE j + 1]
  <2>1. j \in 1..m + n
    BY <1>5
  <2>2. t[j] = IF j <= m THEN a[j] ELSE b[j - m]
    BY <1>3, <1>4, <2>1
  <2>3. CASE j < i
    <3>1. j \in 1..i - 1 /\ j <= m
      BY <1>0, <1>4, <2>1, <2>3
    <3> QED
      BY <1>1, <2>2, <2>3, <3>1
  <2>4. CASE ~(j < i)
    <3>1. j - m \in 1..Len(s) - i /\ i + (j - m) = j + 1 /\ ~(j <= m)
      BY <1>0, <1>4, <2>1, <2>4
    <3>2. b[j - m] = s[j + 1]
      BY <1>2, <3>1
    <3> QED
      BY <2>2, <2>4, <3>1, <3>2
  <2> QED
    BY <2>3, <2>4
<1> QED
  BY <1>3, <1>5, <1>6

\* ServerSocket() takes an unused number.
LEMMA StartKeeps ==
    ASSUME SocketParameters, Typed, AllRight, Apart, Held, StartListener
    PROVE  (AllRight /\ Apart /\ Held)'
<1> PICK n : n = Min(unused)
  OBVIOUS
<1>1. n \in Fds /\ kernel[n] = Free /\ n # INVALID
  BY MinUnused DEF StartListener, fresh, SocketParameters, INVALID
<1>2. /\ kernel'[n].serial = made + 1 /\ kernel'[n].state = "listening"
      /\ \A f \in Fds : f # n => kernel'[f] = kernel[f]
      /\ desc' = desc /\ conns' = conns
  BY <1>1 DEF StartListener, fresh, Typed
<1>3. /\ ~isValid(server) /\ ~server.connected
  BY DEF StartListener, AllRight, Right
<1>4. /\ server'.fd = n /\ server'.of = made + 1 /\ server'.bound /\ server'.listening
      /\ ~server'.connected /\ isValid(server')
  BY <1>1 DEF StartListener, opened, Typed, Descriptors, isValid
<1>5. Right(server', kernel')
  BY <1>2, <1>4 DEF Right, Typed
<1>6. /\ \A o \in Objs : isValid(desc[o]) => desc[o].fd \in Fds /\ desc[o].fd # n
      /\ \A i \in 1..Len(conns) : conns[i].fd \in Fds /\ conns[i].fd # n
  BY <1>1, HeldIsUsed
<1>7. AllRight'
  BY <1>2, <1>5, <1>6, RightStays DEF AllRight
<1>8. Apart'
  BY <1>1, <1>2, <1>4, <1>6 DEF Apart, isValid
<1>9. Held'
  <2> SUFFICES ASSUME NEW f \in Fds, kernel'[f] # Free
               PROVE  \/ \E o \in Objs : desc[o].fd = f
                      \/ \E i \in 1..Len(conns) : conns[i].fd = f
                      \/ server'.fd = f
    BY <1>2 DEF Held
  <2>1. CASE f = n
    BY <1>4, <2>1
  <2>2. CASE f # n
    <3>1. kernel[f] # Free
      BY <1>2, <2>2
    <3>2. server.fd # f
      BY <1>3 DEF isValid, SocketParameters, INVALID
    <3> QED
      BY <3>1, <3>2 DEF Held
  <2> QED
    BY <2>1, <2>2
<1> QED
  BY <1>7, <1>8, <1>9

\* So does accept() of its thread, for a connection that nobody shares.
LEMMA ServerAcceptKeeps ==
    ASSUME SocketParameters, Typed, AllRight, Apart, Held, ServerAccept, UNCHANGED desc
    PROVE  (AllRight /\ Apart /\ Held)'
<1> PICK n : n = Min(unused)
  OBVIOUS
<1> DEFINE d == opened(NoDescriptor("TCP"), "TCP", TRUE)
<1>1. n \in Fds /\ kernel[n] = Free /\ n # INVALID
  BY MinUnused DEF ServerAccept, fresh, SocketParameters, INVALID
<1>2. /\ kernel'[n].serial = made + 1 /\ kernel'[n].state = "connected"
      /\ \A f \in Fds : f # n => kernel'[f] = kernel[f]
      /\ desc' = desc /\ server' = server /\ conns' = Append(conns, d)
  BY <1>1 DEF ServerAccept, fresh, Typed
<1>3. /\ d \in Descriptors /\ d.fd = n /\ d.of = made + 1 /\ ~d.bound /\ ~d.listening
      /\ isValid(d)
  <2>1. /\ NoDescriptor("TCP") \in Descriptors
        /\ ~NoDescriptor("TCP").bound /\ ~NoDescriptor("TCP").listening
    BY DEF NoDescriptor, Descriptors, Types
  <2>2. PICK m \in Nat, e \in Descriptors : m = made + 1 /\ e = NoDescriptor("TCP")
    BY <2>1 DEF Typed
  <2>3. d = [e EXCEPT !.fd = n, !.type = "TCP", !.connected = TRUE, !.of = m]
    BY <2>2 DEF opened
  <2> HIDE DEF d
  <2>4. d \in Descriptors /\ d.fd = n /\ d.of = m /\ d.bound = e.bound /\ d.listening = e.listening
    BY <1>1, <2>3 DEF Descriptors, Types
  <2> QED
    BY <1>1, <2>1, <2>2, <2>4 DEF isValid
<1> HIDE DEF d
<1>4. /\ Len(conns) \in Nat /\ Len(conns') = Len(conns) + 1 /\ conns'[Len(conns) + 1] = d
      /\ \A i \in 1..Len(conns) : conns'[i] = conns[i]
  BY <1>2, <1>3, AppendProperties, LenProperties DEF Typed
<1>5. Right(d, kernel')
  BY <1>2, <1>3 DEF Right, Typed
<1>6. /\ \A o \in Objs : isValid(desc[o]) => desc[o].fd \in Fds /\ desc[o].fd # n
      /\ \A i \in 1..Len(conns) : conns[i].fd \in Fds /\ conns[i].fd # n
      /\ isValid(server) => server.fd \in Fds /\ server.fd # n
  BY <1>1, HeldIsUsed
<1>7. \A i \in 1..Len(conns') : i \in 1..Len(conns) \/ (i = Len(conns) + 1 /\ conns'[i] = d)
  BY <1>4
<1>8. AllRight'
  BY <1>2, <1>3, <1>4, <1>5, <1>6, <1>7, RightStays DEF AllRight
<1>9. Apart'
  <2>1. \A o \in Objs : desc[o].fd # n
    BY <1>1, <1>6 DEF isValid
  <2>2. server.fd # n
    BY <1>1, <1>6 DEF isValid
  <2>3. \A i, j \in 1..Len(conns') : i # j => conns'[i].fd # conns'[j].fd
    BY <1>3, <1>4, <1>6, <1>7 DEF Apart
  <2> QED
    BY <1>2, <1>3, <1>4, <1>7, <2>1, <2>2, <2>3 DEF Apart
<1>10. Held'
  <2> SUFFICES ASSUME NEW f \in Fds, kernel'[f] # Free
               PROVE  \/ \E o \in Objs : desc[o].fd = f
                      \/ \E i \in 1..Len(conns') : conns'[i].fd = f
                      \/ server.fd = f
    BY <1>2 DEF Held
  <2>1. CASE f = n
    <3>1. Len(conns) + 1 \in 1..Len(conns')
      BY <1>4
    <3> QED
      BY <1>3, <1>4, <2>1, <3>1
  <2>2. CASE f # n
    <3>1. \A i \in 1..Len(conns) : i \in 1..Len(conns')
      BY <1>4
    <3> QED
      BY <1>2, <1>4, <2>2, <3>1 DEF Held
  <2> QED
    BY <2>1, <2>2
<1> QED
  BY <1>8, <1>9, <1>10

\* A peer that leaves takes nothing but the connection.
LEMMA LeaveKeeps ==
    ASSUME Typed, AllRight, Apart, Held, NEW f \in Fds, PeerLeaves(f)
    PROVE  (AllRight /\ Apart /\ Held)'
<1>1. /\ kernel'[f] # Free /\ kernel[f] # Free /\ kernel[f].state = "connected"
      /\ kernel'[f].serial = kernel[f].serial /\ kernel'[f].state = "left"
      /\ \A g \in Fds : g # f => kernel'[g] = kernel[g]
      /\ desc' = desc /\ server' = server /\ conns' = conns
  BY DEF PeerLeaves, Typed, KernelSockets, Free
<1>2. \A d \in Descriptors : Right(d, kernel) => Right(d, kernel')
  BY <1>1 DEF Right, Descriptors, isValid
<1>3. AllRight'
  BY <1>1, <1>2, ElementOfSeq DEF AllRight, Typed
<1>4. Apart'
  BY <1>1 DEF Apart
<1>5. Held'
  BY <1>1 DEF Held
<1> QED
  BY <1>3, <1>4, <1>5

\* The connection that waitForRecv() closes is off the list with its number.
LEMMA RecvKeeps ==
    ASSUME SocketParameters, Typed, AllRight, Apart, Held, NEW i \in 1..Len(conns), WaitForRecv(i)
    PROVE  (AllRight /\ Apart /\ Held)'
<1>1. /\ conns' \in Seq(Descriptors) /\ Len(conns') = Len(conns) - 1 /\ Len(conns) \in Nat
      /\ \A j \in 1..Len(conns') : conns'[j] = conns[IF j < i THEN j ELSE j + 1]
  <2>1. /\ conns \in Seq(Descriptors) /\ Len(conns) \in Nat
        /\ conns' = SubSeq(conns, 1, i - 1) \o SubSeq(conns, i + 1, Len(conns))
    BY LenProperties DEF WaitForRecv, Typed
  <2> QED
    BY ZenonT(40), <2>1, Removed
<1>2. \A j \in 1..Len(conns') : \E k \in 1..Len(conns) : k # i /\ conns'[j] = conns[k]
  <2> SUFFICES ASSUME NEW j \in 1..Len(conns')
               PROVE  \E k \in 1..Len(conns) : k # i /\ conns'[j] = conns[k]
    OBVIOUS
  <2>1. PICK k : k = IF j < i THEN j ELSE j + 1
    OBVIOUS
  <2>2. k \in 1..Len(conns) /\ k # i
    BY <1>1, <2>1
  <2> QED
    BY <1>1, <2>1, <2>2
<1>3. \A k \in 1..Len(conns) : k # i => \E j \in 1..Len(conns') : conns'[j] = conns[k]
  <2> SUFFICES ASSUME NEW k \in 1..Len(conns), k # i
               PROVE  \E j \in 1..Len(conns') : conns'[j] = conns[k]
    OBVIOUS
  <2>1. PICK j : j = IF k < i THEN k ELSE k - 1
    OBVIOUS
  <2>2. j \in 1..Len(conns') /\ (IF j < i THEN j ELSE j + 1) = k
    BY <1>1, <2>1
  <2> QED
    BY <1>1, <2>2
<1>4. \A j, l \in 1..Len(conns') : j # l => conns'[j].fd # conns'[l].fd
  <2> SUFFICES ASSUME NEW j \in 1..Len(conns'), NEW l \in 1..Len(conns'), j # l
               PROVE  conns'[j].fd # conns'[l].fd
    OBVIOUS
  <2>1. PICK k, m : (k = IF j < i THEN j ELSE j + 1) /\ (m = IF l < i THEN l ELSE l + 1)
    OBVIOUS
  <2>2. k \in 1..Len(conns) /\ m \in 1..Len(conns) /\ k # m
    BY <1>1, <2>1
  <2>3. conns'[j] = conns[k] /\ conns'[l] = conns[m]
    BY <1>1, <2>1
  <2> QED
    BY <2>2, <2>3 DEF Apart
<1>5. /\ conns[i].fd \in Fds
      /\ \A f \in Fds : kernel'[f] = IF f = conns[i].fd THEN Free ELSE kernel[f]
      /\ desc' = desc /\ server' = server
  BY HeldIsUsed DEF WaitForRecv, release, Typed
<1>6. /\ \A o \in Objs : isValid(desc[o]) => desc[o].fd \in Fds /\ desc[o].fd # conns[i].fd
      /\ \A k \in 1..Len(conns) : conns[k].fd \in Fds /\ (k # i => conns[k].fd # conns[i].fd)
      /\ isValid(server) => server.fd \in Fds /\ server.fd # conns[i].fd
  BY HeldIsUsed DEF Apart
<1>7. AllRight'
  <2>1. /\ \A o \in Objs : Right(desc[o], kernel')
        /\ Right(server, kernel')
        /\ \A k \in 1..Len(conns) : k # i => Right(conns[k], kernel') /\ isValid(conns[k])
    BY <1>5, <1>6, RightStays DEF AllRight
  <2> QED
    BY <1>2, <1>5, <2>1 DEF AllRight
<1>8. Apart'
  <2>1. \A o \in Objs, j \in 1..Len(conns') : desc[o].fd # conns'[j].fd
    BY <1>2 DEF Apart
  <2>2. \A j \in 1..Len(conns') : conns'[j].fd # server.fd
    BY <1>2 DEF Apart
  <2> QED
    BY <1>4, <1>5, <2>1, <2>2 DEF Apart
<1>9. Held'
  <2> SUFFICES ASSUME NEW f \in Fds, kernel'[f] # Free
               PROVE  \/ \E o \in Objs : desc[o].fd = f
                      \/ \E j \in 1..Len(conns') : conns'[j].fd = f
                      \/ server.fd = f
    BY <1>5 DEF Held
  <2>1. f # conns[i].fd /\ kernel[f] # Free
    BY <1>5
  <2>2. ASSUME NEW k \in 1..Len(conns), conns[k].fd = f
        PROVE  \E j \in 1..Len(conns') : conns'[j].fd = f
    BY <1>3, <2>1, <2>2
  <2> QED
    BY <2>1, <2>2 DEF Held
<1> QED
  BY <1>7, <1>8, <1>9

\* final() closes the connections and the server, and no other socket.
LEMMA StopKeeps ==
    ASSUME SocketParameters, Typed, AllRight, Apart, Held, StopListener
    PROVE  (AllRight /\ Apart /\ Held)'
<1> DEFINE mine == {conns[i].fd : i \in 1..Len(conns)} \cup {server.fd}
<1>1. /\ \A f \in Fds : kernel'[f] = IF f \in mine THEN Free ELSE kernel[f]
      /\ conns' = <<>> /\ server' = closed(server) /\ desc' = desc /\ isValid(server)
  BY DEF StopListener
<1>2. Len(conns') = 0
  BY <1>1
<1>3. \A o \in Objs : isValid(desc[o]) => desc[o].fd \in Fds /\ desc[o].fd \notin mine
  BY <1>1, HeldIsUsed DEF Apart
<1>4. \A f \in Fds : f \notin mine =>
        server.fd # f /\ \A i \in 1..Len(conns) : conns[i].fd # f
  OBVIOUS
<1> HIDE DEF mine
<1>5. /\ server'.fd = INVALID /\ ~server'.connected /\ ~server'.bound /\ ~server'.listening
      /\ ~isValid(server')
  <2>1. server \in Descriptors
    BY DEF Typed
  <2>2. server' = [server EXCEPT !.fd = INVALID, !.connected = FALSE, !.bound = FALSE,
                                 !.listening = FALSE, !.of = 0]
    BY <1>1 DEF closed, Closed
  <2>3. server'.fd = INVALID /\ ~server'.connected
    BY <2>1, <2>2 DEF Descriptors
  <2>4. ~server'.bound /\ ~server'.listening
    BY <2>1, <2>2 DEF Descriptors
  <2> QED
    BY <2>3, <2>4 DEF isValid
<1>6. AllRight'
  <2>1. \A o \in Objs : Right(desc[o], kernel')
    BY <1>1, <1>3, RightStays DEF AllRight
  <2>2. Right(server', kernel')
    BY <1>5 DEF Right
  <2> QED
    BY <1>1, <1>2, <2>1, <2>2 DEF AllRight
<1>7. Apart'
  BY <1>1, <1>2, <1>5 DEF Apart
<1>8. Held'
  BY <1>1, <1>4 DEF Held
<1> QED
  BY <1>6, <1>7, <1>8

\* Types, also where a number is shared.
LEMMA TypedNext ==
    ASSUME SocketParameters, Typed, SocketNext
    PROVE  Typed'
<1> DEFINE Ok == desc' \in [Objs -> Descriptors] /\ kernel' \in [Fds -> KernelSockets]
<1>1. \A o \in Objs : desc[o] \in Descriptors
  BY DEF Typed
<1>2. Free \in KernelSockets
  BY DEF Free, KernelSockets
<1>3. \A d \in Descriptors : closed(d) \in Descriptors
  BY DEF closed, Closed, Descriptors
<1>4. \A d \in Descriptors : release(d) \in [Fds -> KernelSockets]
  BY <1>2 DEF release, Typed
<1>5. ASSUME NEW o \in Objs, NEW d \in Descriptors, desc' = [desc EXCEPT ![o] = d]
      PROVE  desc' \in [Objs -> Descriptors]
  BY <1>5 DEF Typed
<1>6. ASSUME NEW f, NEW s, f \in Fds => s \in KernelSockets, kernel' = [kernel EXCEPT ![f] = s]
      PROVE  kernel' \in [Fds -> KernelSockets]
  BY <1>6 DEF Typed
<1>7. ASSUME NEW t \in Types, NEW st \in {"new", "connected", "listening"}, fresh(t, st)
      PROVE  kernel' \in [Fds -> KernelSockets] /\ made' \in Nat /\ Min(unused) \in Fds /\ made + 1 \in Nat
  <2>1. /\ made + 1 \in Nat /\ made' = made + 1
        /\ [serial |-> made + 1, type |-> t, state |-> st, blocking |-> TRUE] \in KernelSockets
    BY <1>7 DEF fresh, Typed, KernelSockets
  <2>2. Min(unused) \in Fds
    BY <1>7, MinUnused DEF fresh
  <2>3. kernel' \in [Fds -> KernelSockets]
    BY <1>6, <1>7, <2>1 DEF fresh
  <2> QED
    BY <2>1, <2>2, <2>3
<1>8. ASSUME NEW e \in Descriptors, NEW t \in Types, NEW c \in BOOLEAN, Min(unused) \in Fds
      PROVE  opened(e, t, c) \in Descriptors
  <2>1. PICK n \in Fds, m \in Nat : n = Min(unused) /\ m = made + 1
    BY <1>8 DEF Typed
  <2>2. [e EXCEPT !.fd = n, !.type = t, !.connected = c, !.of = m] \in Descriptors
    BY DEF Descriptors
  <2> QED
    BY <2>1, <2>2 DEF opened
<1>9. \A t \in Types : NoDescriptor(t) \in Descriptors
  BY DEF NoDescriptor, Descriptors
<1>10. \A e \in Descriptors, b \in BOOLEAN :
          /\ [e EXCEPT !.listening = TRUE] \in Descriptors /\ [e EXCEPT !.bound = TRUE] \in Descriptors
          /\ [e EXCEPT !.connected = TRUE] \in Descriptors /\ mode(e, b) \in Descriptors
  BY DEF Descriptors, mode
<1>11. \A q \in KernelSockets, b \in BOOLEAN, st \in {"bound", "listening", "connected", "connecting"} :
          /\ [q EXCEPT !.state = st] \in KernelSockets /\ [q EXCEPT !.blocking = b] \in KernelSockets
          /\ [q EXCEPT !.state = st, !.blocking = b] \in KernelSockets
  BY DEF KernelSockets
<1>12. \A f \in Fds : kernel[f] \in KernelSockets
  BY DEF Typed
<1>13. made' \in Nat /\ server' \in Descriptors /\ conns' \in Seq(Descriptors) /\ shared' \in BOOLEAN /\ Ok
  <2>2. CASE ServerAccept
    <3> DEFINE d == opened(NoDescriptor("TCP"), "TCP", TRUE)
    <3>1. kernel' \in [Fds -> KernelSockets] /\ made' \in Nat /\ d \in Descriptors
      BY <1>7, <1>8, <1>9, <2>2 DEF ServerAccept, Types
    <3> HIDE DEF d
    <3>2. conns' \in Seq(Descriptors) /\ server' \in Descriptors
      BY <2>2, <3>1, AppendProperties DEF ServerAccept, Typed, d
    <3>3. desc' \in [Objs -> Descriptors] /\ shared' \in BOOLEAN
      BY <2>2, <3>1 DEF ServerAccept, Typed, d
    <3> QED
      BY <3>1, <3>2, <3>3
  <2>3. ASSUME UNCHANGED shared, NEW o \in Objs,
               \/ Close(o) \/ ConnectSocket(o) \/ Bind(o) \/ Listen(o) \/ Disconnected(o)
               \/ \E b \in BOOLEAN : SetBlockingMode(o, b) \/ ConnectTimed(o, b)
        PROVE  Ok /\ UNCHANGED <<server, conns, made>>
    <3>1. CASE Close(o)
      BY <1>1, <1>3, <1>4, <1>5, <3>1 DEF Close
    <3>2. CASE Disconnected(o)
      BY <1>1, <1>3, <1>4, <1>5, <3>2 DEF Disconnected
    <3>3. CASE ConnectSocket(o)
      <4> DEFINE d == [desc[o] EXCEPT !.connected = TRUE]
                 k == [kernel[desc[o].fd] EXCEPT !.state = "connected"]
      <4>1. d \in Descriptors /\ (desc[o].fd \in Fds => k \in KernelSockets)
        BY <1>1, <1>10, <1>11, <1>12
      <4> QED
        BY <1>5, <1>6, <3>3, <4>1 DEF ConnectSocket
    <3>4. CASE Bind(o)
      <4> DEFINE d == [desc[o] EXCEPT !.bound = TRUE]
                 k == [kernel[desc[o].fd] EXCEPT !.state = "bound"]
      <4>1. d \in Descriptors /\ (desc[o].fd \in Fds => k \in KernelSockets)
        BY <1>1, <1>10, <1>11, <1>12
      <4> QED
        BY <1>5, <1>6, <3>4, <4>1 DEF Bind
    <3>5. CASE Listen(o)
      <4> DEFINE d == [desc[o] EXCEPT !.listening = TRUE]
                 k == [kernel[desc[o].fd] EXCEPT !.state = "listening"]
      <4>1. d \in Descriptors /\ (desc[o].fd \in Fds => k \in KernelSockets)
        BY <1>1, <1>10, <1>11, <1>12
      <4> QED
        BY <1>5, <1>6, <3>5, <4>1 DEF Listen
    <3>6. ASSUME NEW b \in BOOLEAN, SetBlockingMode(o, b)
          PROVE  Ok /\ UNCHANGED <<server, conns, made>>
      <4> DEFINE k == [kernel[desc[o].fd] EXCEPT !.blocking = b]
      <4>1. mode(desc[o], b) \in Descriptors /\ (desc[o].fd \in Fds => k \in KernelSockets)
        BY <1>1, <1>10, <1>11, <1>12
      <4> QED
        BY <1>5, <1>6, <3>6, <4>1 DEF SetBlockingMode
    <3>7. ASSUME NEW b \in BOOLEAN, ConnectTimed(o, b)
          PROVE  Ok /\ UNCHANGED <<server, conns, made>>
      <4> DEFINE k == [kernel[desc[o].fd] EXCEPT !.state = IF b THEN "connected" ELSE "connecting",
                                                 !.blocking = IF b THEN desc[o].blocking ELSE FALSE]
      <4>1. desc[o].fd \in Fds
        BY <1>1, <3>7 DEF ConnectTimed, isValid, Descriptors
      <4>2. kernel' = [kernel EXCEPT ![desc[o].fd] = k]
        BY <3>7, <4>1 DEF ConnectTimed, Typed
      <4>3. mode(desc[o], FALSE) \in Descriptors /\ k \in KernelSockets
        <5>1. desc[o].blocking \in BOOLEAN
          BY <1>1 DEF Descriptors
        <5> QED
          BY <1>1, <1>10, <1>11, <1>12, <4>1, <5>1
      <4> HIDE DEF k
      <4>4. desc' \in [Objs -> Descriptors]
        BY <1>5, <3>7, <4>3 DEF ConnectTimed, Typed
      <4> QED
        BY <1>6, <3>7, <4>2, <4>3, <4>4 DEF ConnectTimed
    <3> QED
      BY <2>3, <3>1, <3>2, <3>3, <3>4, <3>5, <3>6, <3>7
  <2>4. ASSUME NEW o \in Objs, Reset(o)
        PROVE  Ok /\ UNCHANGED <<server, conns>> /\ made' \in Nat
    <3> DEFINE left == release(desc[o])
               free == {g \in Fds : left[g] = Free}
    <3> PICK n, m : n = Min(free) /\ m = made + 1
      OBVIOUS
    <3> PICK c \in BOOLEAN : c = (desc[o].type = "UDP")
      OBVIOUS
    <3>1. left \in [Fds -> KernelSockets] /\ m \in Nat /\ closed(desc[o]) \in Descriptors
      BY <1>1, <1>3, <1>4 DEF Typed
    <3>2. desc[o].fd \in free
      BY <1>1, <2>4 DEF Reset, release, Descriptors, isValid, Typed
    <3>3. n \in Fds
      <4>1. free \subseteq Nat
        BY DEF SocketParameters
      <4>2. n \in free
        BY <3>2, <4>1, MinIsMember
      <4> QED
        BY <4>2
    <3> HIDE DEF free, left
    <3>4. [serial |-> m, type |-> desc[o].type, state |-> "new", blocking |-> TRUE] \in KernelSockets
      BY <1>1, <3>1 DEF Descriptors, KernelSockets
    <3>5. [closed(desc[o]) EXCEPT !.fd = n, !.connected = c, !.of = m] \in Descriptors
      BY <3>1, <3>3 DEF Descriptors
    <3>6. /\ kernel' = [left EXCEPT ![n] =
                 [serial |-> m, type |-> desc[o].type, state |-> "new", blocking |-> TRUE]]
          /\ desc' = [desc EXCEPT ![o] = [closed(desc[o]) EXCEPT !.fd = n, !.connected = c, !.of = m]]
          /\ made' = m /\ UNCHANGED <<server, conns>>
      BY <2>4 DEF Reset, free, left
    <3> QED
      BY <1>5, <3>1, <3>4, <3>5, <3>6
  <2>5. ASSUME NEW o \in Objs, NEW t \in Types, Open(o, t)
        PROVE  Ok /\ UNCHANGED <<server, conns>> /\ made' \in Nat
    <3>1. kernel' \in [Fds -> KernelSockets] /\ made' \in Nat
      BY <1>7, <2>5 DEF Open
    <3>2. opened(NoDescriptor(t), t, t = "UDP") \in Descriptors
      BY <1>7, <1>8, <1>9, <2>5 DEF Open
    <3> QED
      BY <1>5, <2>5, <3>1, <3>2 DEF Open
  <2>6. ASSUME NEW o \in Objs, NEW p \in Objs, AcceptInto(o, p)
        PROVE  Ok /\ UNCHANGED <<server, conns>> /\ made' \in Nat
    <3>1. kernel' \in [Fds -> KernelSockets] /\ made' \in Nat
      BY <1>7, <2>6 DEF AcceptInto, Types
    <3>2. opened(NoDescriptor("TCP"), "TCP", TRUE) \in Descriptors
      BY <1>7, <1>8, <1>9, <2>6 DEF AcceptInto, Types
    <3> QED
      BY <1>5, <2>6, <3>1, <3>2 DEF AcceptInto
  <2>7. ASSUME NEW f \in Fds, PeerLeaves(f)
        PROVE  Ok /\ UNCHANGED <<server, conns, made>>
    BY <2>7 DEF PeerLeaves, Typed, KernelSockets
  <2>8. ASSUME StartListener
        PROVE  Ok /\ UNCHANGED conns /\ server' \in Descriptors /\ made' \in Nat
    <3>1. kernel' \in [Fds -> KernelSockets] /\ made' \in Nat /\ UNCHANGED <<desc, conns>>
      BY <1>7, <2>8 DEF StartListener, Types
    <3>2. opened(server, "TCP", FALSE) \in Descriptors
      BY <1>7, <1>8, <2>8 DEF StartListener, Types, Typed
    <3>3. server' \in Descriptors
      BY <2>8, <3>2 DEF StartListener, Descriptors
    <3> QED
      BY <2>8, <3>1, <3>3 DEF Typed
  <2>9. ASSUME StopListener
        PROVE  Ok /\ UNCHANGED made /\ server' \in Descriptors /\ conns' \in Seq(Descriptors)
    BY <1>2, <1>3, <2>9 DEF StopListener, Typed
  <2>10. ASSUME NEW i \in 1..Len(conns), WaitForRecv(i)
         PROVE  Ok /\ UNCHANGED <<server, made>> /\ conns' \in Seq(Descriptors)
    <3>1. conns[i] \in Descriptors
      BY ElementOfSeq DEF Typed
    <3>2. conns' \in Seq(Descriptors)
      BY <2>10, Removed DEF WaitForRecv, Typed
    <3> QED
      BY <1>4, <2>10, <3>1, <3>2 DEF WaitForRecv, Typed
  <2> QED
    BY <2>2, <2>3, <2>4, <2>5, <2>6, <2>7, <2>8, <2>9, <2>10 DEF SocketNext, Typed
<1> QED
  BY <1>13 DEF Typed

\* Nothing is open at first.
LEMMA InitSound == SocketParameters /\ SocketInit => SocketInv
<1> SUFFICES ASSUME SocketParameters, SocketInit PROVE SocketInv
  OBVIOUS
<1>1. NoDescriptor("TCP") \in Descriptors /\ Free \in KernelSockets
  BY DEF NoDescriptor, Descriptors, Types, Free, KernelSockets
<1>2. Typed
  BY <1>1, EmptySeq DEF SocketInit, Typed
<1>3. \A k : Right(NoDescriptor("TCP"), k)
  BY DEF NoDescriptor, Right, isValid
<1>4. ~isValid(NoDescriptor("TCP")) /\ Len(conns) = 0
  BY DEF NoDescriptor, isValid, SocketInit
<1>5. AllRight /\ Apart
  BY <1>3, <1>4 DEF SocketInit, AllRight, Apart
<1>6. Held
  BY DEF SocketInit, Held
<1> QED
  BY <1>2, <1>5, <1>6 DEF SocketInv

\* Every step preserves the invariant.
LEMMA StepSound == SocketParameters /\ SocketInv /\ [SocketNext]_socketVars => SocketInv'
<1> SUFFICES ASSUME SocketParameters, SocketInv, [SocketNext]_socketVars PROVE SocketInv'
  OBVIOUS
<1>1. CASE UNCHANGED socketVars
  BY <1>1 DEF socketVars, SocketInv, Typed, AllRight, Apart, Held, Right, isValid
<1>2. CASE SocketNext
  <2>1. Typed'
    BY <1>2, TypedNext DEF SocketInv
  <2>2. SUFFICES ASSUME ~shared' PROVE (AllRight /\ Apart /\ Held)'
    BY <2>1 DEF SocketInv
  <2>3. ~shared
    BY <1>2, <2>2 DEF SocketNext, ServerAccept
  <2>4. Typed /\ AllRight /\ Apart /\ Held
    BY <2>3 DEF SocketInv
  <2>5. CASE ServerAccept
    BY <2>2, <2>4, <2>5, ServerAcceptKeeps DEF ServerAccept
  <2>6. ASSUME NEW o \in Objs, \E d \in Descriptors : Changes(o, d)
        PROVE  (AllRight /\ Apart /\ Held)'
    BY <2>4, <2>6, ChangeIsHarmless
  <2> QED
    BY <1>2, <2>4, <2>5, <2>6, CallsChange, LeaveKeeps, StartKeeps, StopKeeps, RecvKeeps DEF SocketNext
<1> QED
  BY <1>1, <1>2

\* The invariant is the property, said of the three kinds of holders at once.
LEMMA SoundInside == SocketParameters /\ SocketInv => DescriptorsSound
<1> SUFFICES ASSUME SocketParameters, SocketInv, ~shared PROVE OwnSocket /\ OneOwner /\ FlagsTrue
  BY DEF DescriptorsSound
<1>1. Typed /\ AllRight /\ Apart /\ Held
  BY DEF SocketInv
<1>2. /\ \A o \in Objs : heldBy(<<"obj", o>>) = desc[o]
      /\ \A i \in 1..Len(conns) : heldBy(<<"conn", i>>) = conns[i]
      /\ heldBy(<<"server", 0>>) = server
  BY DEF heldBy
<1>3. \A h \in holders :
        \/ \E o \in Objs : h = <<"obj", o>>
        \/ \E i \in 1..Len(conns) : h = <<"conn", i>>
        \/ h = <<"server", 0>>
  BY DEF holders
<1>4. ASSUME NEW h \in holders
      PROVE  Right(heldBy(h), kernel)
  BY <1>1, <1>2, <1>3 DEF AllRight
<1>5. OwnSocket
  BY <1>4 DEF OwnSocket, Right, socketOf
<1>6. FlagsTrue
  <2> SUFFICES ASSUME NEW h \in holders, NEW d, d = heldBy(h)
               PROVE  /\ ~isValid(d) => ~d.connected /\ ~d.bound /\ ~d.listening
                      /\ d.listening => socketOf(d).state = "listening"
                      /\ d.bound => socketOf(d).state \in {"bound", "listening"}
                      /\ d.connected /\ d.type = "TCP" => socketOf(d).state \in {"connected", "left"}
    BY DEF FlagsTrue
  <2>1. Right(d, kernel)
    BY <1>4
  <2>2. isValid(d) => socketOf(d) = kernel[d.fd]
    BY DEF socketOf
  <2> QED
    BY <2>1, <2>2 DEF Right
<1>7. OneOwner
  <2> SUFFICES ASSUME NEW f \in Fds, kernel[f] # Free PROVE Cardinality(owners(f)) = 1
    BY DEF OneOwner
  <2>1. f # INVALID
    BY DEF SocketParameters, INVALID
  <2>2. \E h \in holders : heldBy(h).fd = f
    <3>1. ASSUME NEW o \in Objs, desc[o].fd = f PROVE \E h \in holders : heldBy(h).fd = f
      BY <1>2, <3>1 DEF holders
    <3>2. ASSUME NEW i \in 1..Len(conns), conns[i].fd = f PROVE \E h \in holders : heldBy(h).fd = f
      BY <1>2, <3>2 DEF holders
    <3>3. ASSUME server.fd = f PROVE \E h \in holders : heldBy(h).fd = f
      BY <1>2, <3>3 DEF holders
    <3> QED
      BY <1>1, <3>1, <3>2, <3>3 DEF Held
  <2>3. \A g, h \in holders : heldBy(g).fd = f /\ heldBy(h).fd = f => g = h
    <3> SUFFICES ASSUME NEW g \in holders, NEW h \in holders, heldBy(g).fd = f, heldBy(h).fd = f
                 PROVE  g = h
      OBVIOUS
    <3>1. CASE \E o \in Objs : g = <<"obj", o>>
      BY <1>1, <1>2, <1>3, <2>1, <3>1 DEF Apart, isValid
    <3>2. CASE \E i \in 1..Len(conns) : g = <<"conn", i>>
      BY <1>1, <1>2, <1>3, <2>1, <3>2 DEF Apart, isValid
    <3>3. CASE g = <<"server", 0>>
      BY <1>1, <1>2, <1>3, <2>1, <3>3 DEF Apart, isValid
    <3> QED
      BY <1>3, <3>1, <3>2, <3>3
  <2>4. PICK h : owners(f) = {h}
    BY <2>2, <2>3 DEF owners
  <2> QED
    BY <2>4, FS_Singleton
<1> QED
  BY <1>5, <1>6, <1>7

(* However sockets are made, accepted, reset and closed, and numbers given *)
(* out again: as long as no listener makes a Socket of the descriptor it   *)
(* is told of, every Descriptor has the kernel socket it was made for, to  *)
(* itself, and its flags tell the truth (Socket.cpp:56-130,                *)
(* ServerSocket.cpp:99-170).  For any objects and numbers.                 *)
THEOREM DescriptorsStaySound ==
    ASSUME SocketParameters
    PROVE  SocketSpec => []DescriptorsSound
<1>1. SocketInit => SocketInv
  BY InitSound
<1>2. SocketInv /\ [SocketNext]_socketVars => SocketInv'
  BY StepSound
<1>3. SocketInv => DescriptorsSound
  BY SoundInside
<1> QED
  BY <1>1, <1>2, <1>3, PTL DEF SocketSpec

-----------------------------------------------------------------------------
(* TcpSocket: the stream                                                   *)

\* What memory and streams hold.
Content == Bytes \cup {Nul, Junk}

RoundedSize(n) == ((n + 1 + Round - 1) \div Round) * Round

\* The buffer never outgrows what resize() makes of MAX_SIZE.
Limit == RoundedSize(MaxBuffer)

CallType == {None} \cup [op : {"until"}, delim : Delims] \cup [op : {"all"}, count : Counts]

\* The bytes between _pos and _length.
waiting == SubSeq(mem, pos + 1, length)

StreamInv ==
    /\ call \in CallType
    /\ mem \in Seq(Content) /\ unread \in Seq(Content)
    /\ got \in Seq(Content) /\ peerSent \in Seq(Content)
    /\ pos \in Nat /\ length \in Nat
    /\ pos <= length /\ length <= Len(mem) /\ Len(mem) <= Limit
    /\ got \o waiting \o unread = peerSent

TcpInv == torn \in BOOLEAN /\ (~torn => StreamInv)

(* resize() makes room for what it was asked for and a terminator, never   *)
(* more than for MAX_SIZE (ByteBuffer.cpp:60).                             *)
LEMMA RoundedSizeFits ==
    ASSUME NEW n \in Nat
    PROVE  RoundedSize(n) \in Nat /\ n < RoundedSize(n) /\ (n <= MaxBuffer => RoundedSize(n) <= Limit)
<1> DEFINE p == (n + 1 + Round - 1) \div Round
           q == (MaxBuffer + 1 + Round - 1) \div Round
<1>1. p \in Nat /\ n + 1 <= p * Round
  BY SizesAssumption
<1>2. q \in Nat /\ (n <= MaxBuffer => p <= q)
  BY SizesAssumption
<1>3. n <= MaxBuffer => p * Round <= q * Round
  <2> HIDE DEF p, q
  <2> QED BY <1>1, <1>2, SizesAssumption
<1>4. p * Round \in Nat
  <2> HIDE DEF p, q
  <2> QED BY <1>1, SizesAssumption
<1> QED BY <1>1, <1>3, <1>4 DEF RoundedSize, Limit

(* resize() keeps what fits before the terminator.                         *)
LEMMA ResizeKeeps ==
    ASSUME NEW m \in Seq(Content), NEW n \in Nat \ {0}
    PROVE  /\ resize(m, n) \in Seq(Content)
           /\ Len(resize(m, n)) = RoundedSize(n)
           /\ \A i \in 1..Len(m) : i < RoundedSize(n) => resize(m, n)[i] = m[i]
<1>1. RoundedSize(n) \in Nat /\ n < RoundedSize(n)
  BY RoundedSizeFits
<1>2. resize(m, n) = [i \in 1..RoundedSize(n) |->
                        IF i = RoundedSize(n) THEN Nul ELSE IF i <= Len(m) THEN m[i] ELSE Junk]
  BY DEF resize, RoundedSize
<1> HIDE DEF RoundedSize, resize
<1>3. resize(m, n) \in [1..RoundedSize(n) -> Content]
  BY <1>1, <1>2 DEF Content
<1>4. resize(m, n) \in Seq(Content)
  BY <1>1, <1>3
<1>5. Len(resize(m, n)) = RoundedSize(n)
  BY <1>1, <1>3, <1>4
<1>6. ASSUME NEW i \in 1..Len(m), i < RoundedSize(n)
      PROVE  resize(m, n)[i] = m[i]
  BY <1>1, <1>2, <1>6
<1> QED BY <1>4, <1>5, <1>6

(* Going back to writing keeps the bytes that wait, now at the start.      *)
LEMMA WritableKeeps ==
    ASSUME StreamInv
    PROVE  /\ writable.mem \in Seq(Content) /\ Len(writable.mem) = Len(mem)
           /\ writable.pos = length - pos /\ writable.length = length - pos
           /\ \A i \in 1..(length - pos) : writable.mem[i] = mem[i + pos]
<1> USE DEF StreamInv
<1>1. CASE pos = length
  BY <1>1 DEF writable
<1>2. CASE pos < length
  <2> DEFINE m == [i \in 1..Len(mem) |-> IF i <= length - pos THEN mem[i + pos]
                                ELSE IF i = length - pos + 1 THEN Nul ELSE mem[i]]
  <2>1. writable = [mem |-> m, length |-> length - pos, pos |-> length - pos]
    BY <1>2 DEF writable, moved, bufferSize
  <2>2. m \in [1..Len(mem) -> Content]
    BY <1>2 DEF Content
  <2>3. m \in Seq(Content) /\ Len(m) = Len(mem)
    BY <2>2
  <2> QED BY <2>1, <2>3, <1>2
<1> QED BY <1>1, <1>2

(* Strings of bytes put together.                                          *)
LEMMA Joined ==
    ASSUME NEW s \in Seq(Content), NEW t \in Seq(Content), NEW u \in Seq(Content)
    PROVE  s \o t \in Seq(Content) /\ (s \o t) \o u = s \o (t \o u)
<1> HIDE DEF Content
<1> QED BY ConcatAssociative, ConcatProperties

(* A part of a string and what follows it.                                 *)
LEMMA Parted ==
    ASSUME NEW s \in Seq(Content), NEW i \in 1..(Len(s) + 1),
           NEW j \in (i - 1)..Len(s), NEW k \in j..Len(s)
    PROVE  /\ SubSeq(s, i, j) \in Seq(Content) /\ SubSeq(s, j + 1, k) \in Seq(Content)
           /\ SubSeq(s, i, j) \o SubSeq(s, j + 1, k) = SubSeq(s, i, k)
<1> HIDE DEF Content
<1>1. \A m \in 1..Len(s) : s[m] \in Content
  BY ElementOfSeq
<1>2. i \in Int /\ j \in Int /\ k \in Int /\ Len(s) \in Nat
  OBVIOUS
<1>3. SubSeq(s, i, j) \in Seq(Content)
  BY <1>1, <1>2, SubSeqProperties
<1>4. SubSeq(s, j + 1, k) \in Seq(Content)
  BY <1>1, <1>2, SubSeqProperties
<1> QED BY <1>3, <1>4, ConcatAdjacentSubSeq

(* What a call takes from the buffer stays in the stream.                  *)
LEMMA DeliverKeeps ==
    ASSUME StreamInv, NEW n \in Nat, pos + n <= length, deliver(n),
           call' \in CallType, unread' = unread, peerSent' = peerSent
    PROVE  StreamInv'
<1> USE DEF StreamInv
<1> DEFINE a == SubSeq(mem, pos + 1, pos + n)
           b == SubSeq(mem, pos + n + 1, length)
<1>1. a \in Seq(Content) /\ b \in Seq(Content) /\ a \o b = SubSeq(mem, pos + 1, length)
  <2>1. pos + 1 \in 1..(Len(mem) + 1) /\ pos + n \in pos..Len(mem) /\ length \in (pos + n)..Len(mem)
    OBVIOUS
  <2>2. pos = (pos + 1) - 1
    OBVIOUS
  <2> QED BY <2>1, <2>2, Parted
<1>3. waiting = a \o b
  BY <1>1 DEF waiting
<1>4. got' = got \o a /\ waiting' = b /\ pos' = pos + n /\ mem' = mem /\ length' = length
  BY DEF deliver, waiting
<1> HIDE DEF a, b, waiting
<1>5. (got \o a) \o b = got \o (a \o b) /\ got \o a \in Seq(Content)
  <2>1. got \in Seq(Content)
    OBVIOUS
  <2> HIDE DEF StreamInv
  <2> QED BY <1>1, <2>1, Joined
<1>6. got' \o waiting' \o unread' = peerSent'
  <2>1. got \o waiting \o unread = peerSent
    OBVIOUS
  <2> HIDE DEF StreamInv
  <2> QED BY <1>1, <1>3, <1>4, <1>5, <2>1 DEF waiting
<1>7. pos' <= length' /\ pos' \in Nat /\ got' \in Seq(Content)
  BY <1>4, <1>5
<1> QED BY <1>1, <1>4, <1>6, <1>7

(* A call that ends, one that begins, and a step of neither changes        *)
(* nothing of the stream.                                                  *)
LEMMA CallKeeps ==
    ASSUME StreamInv, call' \in CallType, UNCHANGED <<stream, buffer, got>>
    PROVE  StreamInv'
BY DEF StreamInv, stream, buffer, waiting

(* The peer's bytes arrive behind the stream.                              *)
LEMMA PeerWritesKeeps ==
    ASSUME StreamInv, NEW b \in Bytes, PeerWrites(b)
    PROVE  StreamInv'
<1> USE DEF StreamInv
<1>1. b \in Content /\ <<b>> \in Seq(Content)
  BY DEF Content
<1>2. waiting \in Seq(Content) /\ got \o waiting \in Seq(Content)
  BY SubSeqProperties, ElementOfSeq, ConcatProperties DEF waiting
<1>3. unread' = unread \o <<b>> /\ peerSent' = peerSent \o <<b>>
  BY <1>1, AppendIsConcat DEF PeerWrites
<1>4. UNCHANGED <<buffer, call, got>> /\ waiting' = waiting
  BY DEF PeerWrites, waiting, buffer
<1> HIDE DEF waiting
<1>5. (got \o waiting) \o (unread \o <<b>>) = ((got \o waiting) \o unread) \o <<b>>
  <2>1. unread \in Seq(Content)
    OBVIOUS
  <2> HIDE DEF StreamInv
  <2> QED BY <1>1, <1>2, <2>1, Joined
<1>6. unread' \in Seq(Content) /\ peerSent' \in Seq(Content)
  BY <1>1, <1>3
<1> QED BY <1>3, <1>4, <1>5, <1>6 DEF buffer

(* readUntil() takes what lies before the first delimiter, and the         *)
(* delimiter; readAll() one byte less than it waited for.                  *)
LEMMA ReadUntilKeeps ==
    ASSUME StreamInv, ReadUntil
    PROVE  StreamInv'
<1> USE DEF StreamInv
<1>1. call \in [op : {"until"}, delim : Delims] /\ call.delim \in Delims
  BY DEF ReadUntil, CallType, None
<1>2. Len(call.delim) = 1
  BY <1>1, CallsAssumption
<1> DEFINE hits == {i \in (pos + 1)..length : matches(call.delim, i)}
<1>3. found(call.delim) \in hits
  <2>1. hits # {} /\ found(call.delim) = CHOOSE i \in hits : \A j \in hits : i <= j
    BY DEF found, ReadUntil
  <2>2. hits \subseteq Nat
    OBVIOUS
  <2> HIDE DEF hits
  <2>3. \E i \in hits : \A j \in hits : i <= j
    BY <2>1, <2>2, LeastOfSet
  <2> QED BY <2>1, <2>3
<1>4. found(call.delim) \in (pos + 1)..length
  BY <1>3
<1>5. deliver(found(call.delim) - pos) /\ call' = None /\ UNCHANGED stream
  BY <1>2, <1>4 DEF ReadUntil
<1>6. call' \in CallType
  BY <1>5 DEF CallType
<1> QED BY SMTT(30), <1>4, <1>5, <1>6, DeliverKeeps DEF stream

LEMMA ReadAllKeeps ==
    ASSUME StreamInv, ReadAll
    PROVE  StreamInv'
<1> USE DEF StreamInv
<1>1. call \in [op : {"all"}, count : Counts] /\ call.count \in Counts
  BY DEF ReadAll, CallType, None
<1>2. call.count \in Nat \ {0}
  BY <1>1, CallsAssumption
<1>3. call.count <= length - pos
  BY DEF ReadAll, remaining
<1>4. deliver(call.count - 1) /\ call' = None /\ UNCHANGED stream
  BY DEF ReadAll
<1>5. call' \in CallType
  BY <1>4 DEF CallType
<1> DEFINE n == call.count - 1
<1>6. n \in Nat /\ pos + n <= length
  BY <1>2, <1>3
<1>7. deliver(n) /\ unread' = unread /\ peerSent' = peerSent
  BY <1>4 DEF stream
<1> HIDE DEF n
<1> QED BY <1>5, <1>6, <1>7, DeliverKeeps

(* read() takes from the buffer, short of its end, or from the socket when *)
(* nothing waits (TcpSocket.cpp:117).                                      *)
LEMMA ReadKeeps ==
    ASSUME StreamInv, NEW n \in Counts, Read(n)
    PROVE  StreamInv'
<1> USE DEF StreamInv
<1>0. n \in Nat \ {0}
  BY CallsAssumption
<1>1. UNCHANGED <<peerSent, call>>
  BY DEF Read
<1>2. CASE remaining > 0
  <2>1. CASE n + pos >= length
    <3>1. UNCHANGED <<buffer, got, unread>>
      BY <1>2, <2>1 DEF Read
    <3> QED BY <3>1, <1>1 DEF buffer, waiting
  <2>2. CASE ~(n + pos >= length)
    <3>1. deliver(n) /\ unread' = unread
      BY <1>2, <2>2 DEF Read
    <3> QED BY <1>0, <1>1, <2>2, <3>1, DeliverKeeps
  <2> QED BY <2>1, <2>2
<1>3. CASE ~(remaining > 0)
  <2> DEFINE k == least(n, Len(unread))
             a == SubSeq(unread, 1, k)
             b == SubSeq(unread, k + 1, Len(unread))
  <2>1. k \in 0..Len(unread)
    BY <1>0 DEF least
  <2>2. got' = got \o a /\ unread' = b /\ UNCHANGED buffer
    BY <1>3 DEF Read
  <2> HIDE DEF k
  <2>3. a \in Seq(Content) /\ b \in Seq(Content)
    BY <2>1, Parted
  <2>4. a \o b = unread
    <3>1. SubSeq(unread, 1, Len(unread)) = unread
      BY SubSeqFull
    <3>2. 1 \in 1..(Len(unread) + 1) /\ k \in (1 - 1)..Len(unread) /\ Len(unread) \in k..Len(unread)
      BY <2>1
    <3> QED BY <3>1, <3>2, Parted
  <2>5. waiting = <<>> /\ waiting' = <<>>
    BY <1>3, <2>2, SubSeqEmpty DEF remaining, buffer, waiting
  <2> HIDE DEF a, b, waiting
  <2>6. got \o <<>> = got /\ (got \o a) \o <<>> = got \o a
    BY <2>3, ConcatEmptySeq, ConcatProperties
  <2>7. (got \o a) \o b = got \o (a \o b) /\ got \o a \in Seq(Content)
    <3>1. got \in Seq(Content)
      OBVIOUS
    <3> HIDE DEF StreamInv
    <3> QED BY <2>3, <3>1, Joined
  <2>8. got' \o waiting' \o unread' = peerSent'
    BY <1>1, <2>2, <2>4, <2>5, <2>6, <2>7
  <2> QED BY <1>1, <2>2, <2>3, <2>7, <2>8 DEF buffer
<1> QED BY <1>2, <1>3

(* _bufferedRecv() moves bytes from the socket behind the ones that wait,  *)
(* or throws (TcpSocket.cpp:217).                                          *)
LEMMA BufferedRecvKeeps ==
    ASSUME StreamInv, BufferedRecv, torn = FALSE, torn' = FALSE
    PROVE  StreamInv'
<1> DEFINE w == writable
           room == Len(w.mem)
           want == least(room + Chunk, MaxBuffer)
           m == IF room - w.pos <= Low THEN resize(w.mem, want) ELSE w.mem
           k == length - pos
           n == least(Len(m) - k, Len(unread))
           a == SubSeq(unread, 1, n)
           b == SubSeq(unread, n + 1, Len(unread))
           new == [i \in 1..Len(m) |-> IF i \in (k + 1)..(k + n) THEN unread[i - k] ELSE m[i]]
<1>0. /\ mem \in Seq(Content) /\ unread \in Seq(Content) /\ got \in Seq(Content) /\ peerSent \in Seq(Content)
      /\ pos \in Nat /\ length \in Nat /\ pos <= length /\ length <= Len(mem) /\ Len(mem) <= Limit
      /\ Len(mem) \in Nat /\ Len(unread) \in Nat
  BY DEF StreamInv
<1>1. /\ w.mem \in Seq(Content) /\ room = Len(mem) /\ w.pos = k /\ w.length = k
      /\ \A i \in 1..k : w.mem[i] = mem[i + pos]
  BY WritableKeeps
<1>2. k \in Nat /\ k <= room
  BY <1>0, <1>1
<1>3. room - k # 0 \/ room < MaxBuffer
  <2>1. torn' = (torn \/ ((Len(w.mem) - w.pos = 0 /\ Len(w.mem) >= MaxBuffer) \/ (unread = <<>> /\ hungUp)))
    BY DEF BufferedRecv
  <2> HIDE DEF w
  <2>2. ~(Len(w.mem) - w.pos = 0 /\ Len(w.mem) >= MaxBuffer)
    BY <2>1, Zenon
  <2> QED BY <1>0, <1>1, <1>2, <2>2, SizesAssumption
<1>4. call' = call /\ call' \in CallType
  BY <1>1 DEF BufferedRecv, StreamInv
<1>5. mem' = new /\ length' = (IF n > 0 THEN k + n ELSE k) /\ pos' = 0 /\ unread' = b
      /\ UNCHANGED <<peerSent, got>>
  BY <1>1 DEF BufferedRecv
<1>6. /\ m \in Seq(Content) /\ k <= Len(m) /\ Len(m) <= Limit
      /\ \A i \in 1..k : m[i] = w.mem[i]
  <2> HIDE DEF k, w
  <2>1. CASE room - w.pos <= Low
    <3> HIDE DEF room
    <3>1. want \in Nat \ {0} /\ want <= MaxBuffer /\ (want = room + Chunk \/ want = MaxBuffer)
      BY <1>0, <1>1, <2>1, SizesAssumption DEF least
    <3> HIDE DEF want
    <3>2. RoundedSize(want) \in Nat /\ want < RoundedSize(want) /\ RoundedSize(want) <= Limit
      BY <3>1, RoundedSizeFits
    <3>3. want = MaxBuffer => RoundedSize(want) = Limit
      BY DEF Limit
    <3> HIDE DEF RoundedSize
    <3>4. k < RoundedSize(want)
      <4>1. CASE want = room + Chunk
        BY <1>0, <1>1, <1>2, <3>1, <3>2, <4>1, SizesAssumption
      <4>2. CASE want = MaxBuffer
        BY <1>0, <1>1, <1>2, <1>3, <3>1, <3>2, <3>3, <4>2, SizesAssumption
      <4> QED BY <3>1, <4>1, <4>2
    <3>5. m = resize(w.mem, want)
      BY <2>1 DEF room
    <3> HIDE DEF m
    <3>6. m \in Seq(Content) /\ Len(m) = RoundedSize(want)
          /\ \A i \in 1..Len(w.mem) : i < RoundedSize(want) => m[i] = w.mem[i]
      BY <1>1, <3>1, <3>5, ResizeKeeps
    <3>7. \A i \in 1..k : i \in 1..Len(w.mem) /\ i < RoundedSize(want)
      BY <1>0, <1>1, <1>2, <3>2, <3>4 DEF room
    <3> QED BY <3>2, <3>4, <3>6, <3>7, <1>2
  <2>2. CASE ~(room - w.pos <= Low)
    BY <1>0, <1>1, <1>2, <2>2
  <2> QED BY <2>1, <2>2
<1> HIDE DEF m, w, room, k
<1>7. n \in Nat /\ n <= Len(unread) /\ k + n <= Len(m) /\ Len(m) \in Nat
  BY <1>0, <1>2, <1>6 DEF least
<1> HIDE DEF n
<1>8. a \in Seq(Content) /\ b \in Seq(Content) /\ a \o b = unread
  <2>1. SubSeq(unread, 1, Len(unread)) = unread
    BY <1>0, SubSeqFull
  <2>2. 1 \in 1..(Len(unread) + 1) /\ n \in (1 - 1)..Len(unread) /\ Len(unread) \in n..Len(unread)
    BY <1>0, <1>7
  <2> QED BY <1>0, <2>1, <2>2, Parted
<1>9. new \in Seq(Content) /\ Len(new) = Len(m)
  <2>1. \A i \in 1..Len(m) : m[i] \in Content
    BY <1>6, ElementOfSeq
  <2>2. \A i \in (k + 1)..(k + n) : unread[i - k] \in Content
    BY <1>0, <1>2, <1>7, ElementOfSeq
  <2>3. new \in [1..Len(m) -> Content]
    BY <2>1, <2>2
  <2>4. Len(m) \in Nat
    BY <1>6
  <2> HIDE DEF new
  <2> QED BY <2>3, <2>4
<1>10. length' = k + n
  BY <1>2, <1>5, <1>7
<1>11. SubSeq(new, 1, k + n) = waiting \o a /\ waiting \in Seq(Content)
  <2> DEFINE s == SubSeq(new, 1, k + n)
  <2>1. /\ s \in Seq(Content) /\ Len(s) = k + n
        /\ \A i \in 1..(k + n) : s[i] = new[i]
    <3>1. \A i \in 1..(k + n) : new[i] \in Content
      <4> HIDE DEF new
      <4> QED BY <1>2, <1>6, <1>7, <1>9, ElementOfSeq
    <3> HIDE DEF new
    <3>2. k + n \in Nat
      BY <1>2, <1>7
    <3> QED BY <3>1, <3>2, SubSeqProperties
  <2>2. /\ waiting \in Seq(Content) /\ Len(waiting) = k
        /\ \A i \in 1..k : waiting[i] = mem[pos + i]
    <3>1. \A i \in (pos + 1)..length : mem[i] \in Content
      BY <1>0, ElementOfSeq
    <3> QED BY <1>0, <3>1, SubSeqProperties DEF waiting, k
  <2>3. Len(a) = n /\ \A i \in 1..n : a[i] = unread[i]
    <3>1. \A i \in 1..n : unread[i] \in Content
      BY <1>0, <1>7, ElementOfSeq
    <3> QED BY <1>7, <3>1, SubSeqProperties
  <2> HIDE DEF waiting, a, s
  <2>4. /\ waiting \o a \in Seq(Content) /\ Len(waiting \o a) = k + n
        /\ \A i \in 1..(k + n) : (waiting \o a)[i] = IF i <= k THEN waiting[i] ELSE a[i - k]
    BY <1>8, <2>2, <2>3, ConcatProperties
  <2>5. ASSUME NEW i \in 1..(k + n)
        PROVE  s[i] = (waiting \o a)[i]
    <3>1. i \in 1..Len(m) /\ s[i] = new[i]
      <4>1. i \in 1..Len(m)
        BY <1>2, <1>7
      <4> HIDE DEF new
      <4> QED BY <4>1, <2>1
    <3>2. CASE i <= k
      <4>1. s[i] = m[i] /\ m[i] = mem[i + pos]
        BY <1>1, <1>2, <1>6, <3>1, <3>2
      <4>2. (waiting \o a)[i] = mem[pos + i] /\ pos + i = i + pos
        BY <1>0, <1>2, <2>2, <2>4, <3>2
      <4> QED BY <4>1, <4>2
    <3>3. CASE ~(i <= k)
      <4>1. s[i] = unread[i - k]
        BY <1>2, <1>7, <3>1, <3>3
      <4>2. (waiting \o a)[i] = a[i - k] /\ a[i - k] = unread[i - k]
        BY <1>2, <1>7, <2>3, <2>4, <3>3
      <4> QED BY <4>1, <4>2
    <3> QED BY <3>2, <3>3
  <2>6. s = waiting \o a
    BY <2>1, <2>4, <2>5, SeqEqual
  <2> QED BY <2>2, <2>6 DEF s
<1>12. waiting' = waiting \o a
  <2>1. waiting' = SubSeq(mem', pos' + 1, length')
    BY DEF waiting
  <2>2. pos' + 1 = 1 /\ mem' = new /\ length' = k + n
    BY <1>5, <1>10
  <2> HIDE DEF new, waiting, a
  <2> QED BY <1>11, <2>1, <2>2
<1>13. got' \o waiting' \o unread' = peerSent'
  <2>1. got \o waiting \o unread = peerSent
    BY DEF StreamInv
  <2> HIDE DEF waiting, a, b
  <2>2. (got \o (waiting \o a)) \o b = ((got \o waiting) \o a) \o b
    <3>1. got \in Seq(Content) /\ waiting \in Seq(Content) /\ a \in Seq(Content)
      BY <1>0, <1>8, <1>11
    <3>2. (got \o waiting) \o a = got \o (waiting \o a)
      BY <3>1, Joined
    <3> QED BY <3>2
  <2>3. got \o waiting \in Seq(Content)
    BY <1>0, <1>11, Joined
  <2>4. ((got \o waiting) \o a) \o b = (got \o waiting) \o (a \o b)
    BY <1>8, <2>3, Joined
  <2> QED BY <1>5, <1>8, <1>12, <2>1, <2>2, <2>4
<1>14. pos' \in Nat /\ length' \in Nat /\ pos' <= length' /\ length' <= Len(mem') /\ Len(mem') <= Limit
  <2> HIDE DEF new
  <2> QED BY <1>2, <1>5, <1>6, <1>7, <1>9, <1>10
<1>15. mem' \in Seq(Content) /\ unread' \in Seq(Content) /\ got' \in Seq(Content) /\ peerSent' \in Seq(Content)
  <2> HIDE DEF new, b
  <2> QED BY <1>0, <1>5, <1>8, <1>9
<1> QED BY <1>4, <1>13, <1>14, <1>15 DEF StreamInv

(* Every step of the stream keeps it together, but one that throws.        *)
LEMMA TcpStep ==
    ASSUME TcpInv, [TcpNext]_tcpVars
    PROVE  TcpInv'
<1> SUFFICES ASSUME torn = FALSE, StreamInv
             PROVE  torn' \in BOOLEAN /\ (torn' = FALSE => StreamInv')
  <2>1. CASE torn = TRUE
    <3>1. torn' = TRUE
      BY <2>1 DEF TcpNext, tcpVars, PeerWrites, PeerCloses, CallReadUntil, CallReadAll, Read,
                  ReadUntil, ReadAll, ReadAllOne, BufferedRecv, TimeOut
    <3> QED BY <3>1 DEF TcpInv
  <2> QED BY <2>1 DEF TcpInv
<1> USE DEF stream, buffer
<1>1. ASSUME NEW b \in Bytes, PeerWrites(b) PROVE torn' = FALSE /\ StreamInv'
  BY <1>1, PeerWritesKeeps DEF PeerWrites
<1>2. CASE PeerCloses
  <2>1. torn' = FALSE /\ UNCHANGED <<peerSent, unread, buffer, call, got>>
    BY <1>2 DEF PeerCloses
  <2> QED BY <2>1 DEF StreamInv, waiting
<1>3. ASSUME NEW d \in Delims, CallReadUntil(d) PROVE torn' = FALSE /\ StreamInv'
  <2>1. torn' = FALSE /\ UNCHANGED <<stream, buffer, got>> /\ call' \in CallType
    BY <1>3 DEF CallReadUntil, CallType
  <2> QED BY <2>1, CallKeeps
<1>4. ASSUME NEW n \in Counts, CallReadAll(n) PROVE torn' = FALSE /\ StreamInv'
  <2>1. torn' = FALSE /\ UNCHANGED <<stream, buffer, got>> /\ call' \in CallType
    BY <1>4 DEF CallReadAll, CallType
  <2> QED BY <2>1, CallKeeps
<1>5. ASSUME NEW n \in Counts, Read(n) PROVE torn' = FALSE /\ StreamInv'
  BY <1>5, ReadKeeps DEF Read
<1>6. CASE ReadUntil
  BY <1>6, ReadUntilKeeps DEF ReadUntil
<1>7. CASE ReadAll
  BY <1>7, ReadAllKeeps DEF ReadAll
<1>11. CASE ReadAllOne
  <2>1. torn' = TRUE \/ (torn' = FALSE /\ UNCHANGED <<stream, buffer, got>> /\ call' \in CallType)
    BY <1>11 DEF ReadAllOne, CallType
  <2> QED BY <2>1, CallKeeps
<1>8. CASE BufferedRecv
  <2>1. torn' \in BOOLEAN
    BY <1>8 DEF BufferedRecv
  <2> QED BY <1>8, <2>1, BufferedRecvKeeps
<1>9. CASE TimeOut
  <2>1. torn' = FALSE /\ UNCHANGED <<stream, buffer, got>> /\ call' \in CallType
    BY <1>9 DEF TimeOut, CallType
  <2> QED BY <2>1, CallKeeps
<1>10. CASE UNCHANGED tcpVars
  BY <1>10 DEF tcpVars, StreamInv, waiting
<1> QED BY <1>1, <1>2, <1>3, <1>4, <1>5, <1>6, <1>7, <1>8, <1>9, <1>10, <1>11 DEF TcpNext

(* An empty stream, and a buffer of 1024 bytes.                            *)
LEMMA TcpStarts ==
    ASSUME TcpInit
    PROVE  TcpInv
<1>1. <<>> \in Seq(Content) /\ Chunk \in Nat \ {0}
  BY EmptySeq, SizesAssumption
<1>2. mem \in Seq(Content) /\ Len(mem) = RoundedSize(Chunk)
  BY <1>1, ResizeKeeps DEF TcpInit
<1>3. RoundedSize(Chunk) \in Nat /\ RoundedSize(Chunk) <= Limit
  BY RoundedSizeFits, SizesAssumption
<1>4. waiting = <<>>
  BY <1>2, SubSeqEmpty DEF TcpInit, waiting
<1>5. got \o waiting \o unread = peerSent
  BY <1>1, <1>4, ConcatEmptySeq DEF TcpInit
<1>6. torn = FALSE /\ call \in CallType /\ pos = 0 /\ length = 0
  BY DEF TcpInit, CallType
<1>7. unread \in Seq(Content) /\ got \in Seq(Content) /\ peerSent \in Seq(Content)
  BY <1>1 DEF TcpInit
<1>8. length <= Len(mem) /\ Len(mem) <= Limit
  BY <1>2, <1>3, <1>6
<1> HIDE DEF Content, RoundedSize, CallType
<1>9. StreamInv
  BY <1>2, <1>5, <1>6, <1>7, <1>8 DEF StreamInv
<1> QED BY <1>6, <1>9 DEF TcpInv

(* For a peer that writes any bytes in any pieces, and callers that read   *)
(* any lines and blocks: until an exception leaves the buffer, what the    *)
(* calls returned, what waits in the buffer and what waits in the kernel   *)
(* are together what the peer wrote (TcpSocket.cpp:32-235).                *)
THEOREM StreamStaysIntact == TcpSpec => []StreamIntact
<1>1. TcpInit => TcpInv
  BY TcpStarts
<1>2. TcpInv /\ [TcpNext]_tcpVars => TcpInv'
  BY TcpStep
<1>3. TcpInv => StreamIntact
  BY DEF TcpInv, StreamInv, StreamIntact, bufferSize, waiting
<1> QED BY <1>1, <1>2, <1>3, PTL DEF TcpSpec
=============================================================================
