----------------------------- MODULE TraceRoute -----------------------------
(***************************************************************************)
(* jsrl.net.TraceRoute, on JavaPing: callers put hosts to trace into a     *)
(* map, and one thread at a time is meant to ping them hop by hop until    *)
(* the map is empty.  Replies may come late, or never; a ping takes any    *)
(* reply that is there.                                                    *)
(***************************************************************************)
EXTENDS Naturals, Sequences, FiniteSets, SequencesExt

CONSTANTS Hosts,
          Distance,        \* hops to a host
          AttemptsPerHop,
          MaxTraces, MaxHops

ASSUME AttemptsAssumption == AttemptsPerHop \in Nat \ {0}

VARIABLES traces,       \* the map: host -> the id of its trace, 0 for none
          traceInfo,         \* the TraceRouteInfos: [host, hops], a hop [attempts, hopIP]
          is_running,
          runners,      \* of each thread: [pc, active, hop]
          net,          \* replies on their way: the address they give
          traceTold          \* history: the traces that listeners heard are complete

traceVars == <<traces, traceInfo, is_running, runners, net, traceTold>>

Unknown == "unknown"
Hop == [attempts |-> 0, hopIP |-> Unknown]

TraceInit == /\ traces = [h \in Hosts |-> 0] /\ traceInfo = <<>> /\ is_running = FALSE
             /\ runners = <<>> /\ net = {} /\ traceTold = <<>>

-----------------------------------------------------------------------------
(* TraceRouteInfo                                                          *)

getLastHop(i) == i.hops[Len(i.hops)]
\* Faulty: an attempt too many.
hasHopCompleted_Above(i) == i.hops # <<>> /\ getLastHop(i).attempts > AttemptsPerHop
hasHopCompleted(i) == i.hops # <<>> /\ getLastHop(i).attempts >= AttemptsPerHop

getNextHop(i) == IF i.hops = <<>> \/ hasHopCompleted(i) THEN [i EXCEPT !.hops = Append(@, Hop)] ELSE i

\* The address of a hop is that of its last attempt.
hasTraceCompleted(i) == hasHopCompleted(i) /\ getLastHop(i).hopIP = i.host

-----------------------------------------------------------------------------
\* A caller: one block of synchronized(this).
startTrace(h) ==
    /\ Len(traceInfo) < MaxTraces
    /\ traceInfo' = Append(traceInfo, [host |-> h, hops |-> <<>>])
    /\ traces' = [traces EXCEPT ![h] = Len(traceInfo')]
    /\ is_running' = TRUE
    /\ runners' = IF is_running THEN runners
                  ELSE Append(runners, [pc |-> "while", active |-> <<>>, hop |-> 0])
    /\ UNCHANGED <<net, traceTold>>

runnerAt(r, pc) == r \in 1..Len(runners) /\ runners[r].pc = pc
goes(r, pc) == runners' = [runners EXCEPT ![r].pc = pc]

\* The traces of the map, as a new list.
WhileRunning(r) ==
    /\ runnerAt(r, "while")
    /\ IF ~is_running THEN goes(r, "dead")
       ELSE runners' = [runners EXCEPT ![r].pc = "each",
                ![r].active = SetToSeq({traces[h] : h \in Hosts} \ {0})]
    /\ UNCHANGED <<traces, traceInfo, is_running, net, traceTold>>

traced(r) == Head(runners[r].active)
\* What a packet with this many hops to live meets on the way to the host, and
\* the address that pong() returns of its answer: RawMessage::sync() takes that
\* of an error from the request inside it, so it is the host's whoever answers.
pong(h, ttl) == IF ttl >= Distance[h] THEN [type |-> "ECHO_REPLY", sender |-> h, to |-> h]
                ELSE [type |-> "TIME_EXCEEDED", sender |-> "router", to |-> h]
pongFrom(a) == IF a.type = "TIME_EXCEEDED" THEN a.to ELSE a.sender

\* getNextHop(), and pingpong() sends; the reply may get lost.
Send(r) ==
    /\ runnerAt(r, "each") /\ runners[r].active # <<>>
    /\ LET i == getNextHop(traceInfo[traced(r)]) IN
       /\ Len(i.hops) <= MaxHops
       /\ traceInfo' = [traceInfo EXCEPT ![traced(r)] = i]
       /\ runners' = [runners EXCEPT ![r].pc = "pong", ![r].hop = Len(i.hops)]
       /\ \/ net' = net \cup {pongFrom(pong(i.host, Len(i.hops)))} \/ net' = net
    /\ UNCHANGED <<traces, is_running, traceTold>>

\* addAttempt(), and the listeners: of a hop, and of a trace that is complete.
Attempt(r, ip) ==
    LET id == traced(r)
        i == [traceInfo[id] EXCEPT !.hops[runners[r].hop] = [attempts |-> @.attempts + 1, hopIP |-> ip]]
        complete == id \in Range(traceTold) \/ hasTraceCompleted(i)
    IN /\ traceInfo' = [traceInfo EXCEPT ![id] = i]
       /\ traceTold' = IF complete THEN Append(traceTold, id) ELSE traceTold
       /\ runners' = [runners EXCEPT ![r].pc = IF complete THEN "remove" ELSE "each",
                                     ![r].active = IF complete THEN @ ELSE Tail(@)]
       /\ UNCHANGED <<traces, is_running>>

\* receiveEchoReply(): whatever reply comes first.
Pong(r, ip) == runnerAt(r, "pong") /\ ip \in net /\ net' = net \ {ip} /\ Attempt(r, ip)
\* The SocketTimeoutException; a reply that is late stays for the next ping.
TimesOut(r) == runnerAt(r, "pong") /\ UNCHANGED net /\ Attempt(r, Unknown)

\* The entry of the host goes, whichever trace it is by now.
RemoveTrace(r) ==
    /\ runnerAt(r, "remove")
    /\ traces' = [traces EXCEPT ![traceInfo[traced(r)].host] = 0]
    /\ runners' = [runners EXCEPT ![r].pc = "each", ![r].active = Tail(@)]
    /\ UNCHANGED <<traceInfo, is_running, net, traceTold>>

\* traces.size() is asked outside of the synchronized block.
AsksSize(r) ==
    /\ runnerAt(r, "each") /\ runners[r].active = <<>>
    /\ goes(r, IF \A h \in Hosts : traces[h] = 0 THEN "stop" ELSE "while")
    /\ UNCHANGED <<traces, traceInfo, is_running, net, traceTold>>

StopRunning(r) == /\ runnerAt(r, "stop") /\ is_running' = FALSE /\ goes(r, "while")
                  /\ UNCHANGED <<traces, traceInfo, net, traceTold>>

TraceNext == \/ \E h \in Hosts : startTrace(h)
             \/ \E r \in 1..Len(runners) :
                   \/ WhileRunning(r) \/ Send(r) \/ TimesOut(r) \/ RemoveTrace(r)
                   \/ AsksSize(r) \/ StopRunning(r)
                   \/ \E ip \in Hosts : Pong(r, ip)

TraceSpec == TraceInit /\ [][TraceNext]_traceVars

-----------------------------------------------------------------------------
aliveRunners == {r \in 1..Len(runners) : runners[r].pc # "dead"}

(* As long as there is one thread, every hop gets its attempts, no more    *)
(* and no fewer, before the next is tried, and a trace is told complete    *)
(* once, after which no hop of it is tried and its entry goes: when the    *)
(* last attempt of a hop was answered with the address of its host.  That  *)
(* is what a late answer to the ping of that host does too, and a router's *)
(* does it at any hop (TraceRoute.java:140-175, 288-323).                  *)
TraceRight ==
    Len(runners) <= 1 =>
        /\ \A k \in 1..Len(traceInfo) : \A n \in 1..Len(traceInfo[k].hops) :
             IF n < Len(traceInfo[k].hops) THEN traceInfo[k].hops[n].attempts = AttemptsPerHop
             ELSE traceInfo[k].hops[n].attempts <= AttemptsPerHop
        /\ \A a, b \in 1..Len(traceTold) : traceTold[a] = traceTold[b] => a = b
        /\ \A k \in Range(traceTold) : hasTraceCompleted(traceInfo[k])
        /\ \A h \in Hosts : traces[h] # 0 /\ traces[h] \in Range(traceTold) =>
             \E r \in aliveRunners : runners[r].pc = "remove" /\ traced(r) = traces[h]
=============================================================================
