----------------------------- MODULE IcmpSocket -----------------------------
(***************************************************************************)
(* SRL::Net::IcmpSocket (cpp/src/net/IcmpSocket.cpp) and its RawMessage    *)
(* (IcmpMessage.cpp).  A raw socket is given every ICMP packet of the      *)
(* host: the replies to other pingers, those that come late, and the       *)
(* requests that the host sends to itself.  One IcmpSocket is modelled,    *)
(* with the network around it.  A wait has at most MaxWait ticks.          *)
(***************************************************************************)
EXTENDS Integers, Sequences, FiniteSets

CONSTANTS Uid,         \* _uid of this socket
          OtherIds,    \* ids of the other pingers of the host
                       \* which may collide: an id is the end of a thread's id
          MaxSeq,      \* bound: requests that are sent
          MaxWait,     \* ticks of a timeout
          MaxPackets   \* bound: packets that wait in the socket

Types == {"ECHO_REPLY", "ECHO_REQUEST", "TIME_EXCEEDED", "DESTINATION_UNREACHABLE"}

VARIABLES seq,         \* the sequence of the last request
          flight,      \* requests whose answer has not come
          inbox,       \* packets in the kernel's buffer, in order
          reply,       \* _echo_reply, or NoMessage before the first packet
          wait,        \* ticks left of receiveEchoReply(), 0 if none runs
          icmpPc,          \* "idle", "wait", "got", "timeout", "listen" or "crash"
          heard     \* how often the listener was called for the last packet

icmpVars == <<seq, flight, inbox, reply, wait, icmpPc, heard>>

\* A message: its header and the address of the IP header in front of it.  An
\* error message comes from a router, and encloses the request with the
\* address that it was sent to.
message(type, id, n, from) == [type |-> type, id |-> id, seq |-> n, from |-> from]
Errors == {"TIME_EXCEEDED", "DESTINATION_UNREACHABLE"}
NoMessage == message("none", 0, 0, "none")
packet(type, id, n) ==
    IF type \in Errors THEN [header |-> message(type, 0, 0, "router"),
                             inner |-> message("ECHO_REQUEST", id, n, "target")]
    ELSE [header |-> message(type, id, n, "target"), inner |-> NoMessage]

IcmpInit ==
    /\ seq = 0 /\ flight = {} /\ inbox = <<>>
    /\ reply = NoMessage /\ wait = 0 /\ icmpPc = "idle" /\ heard = 0

\* sendEchoRequest(): update() and the checksum.  A request to the host itself
\* comes back as a request too.
SendEchoRequest(local) ==
    /\ icmpPc \in {"idle", "got", "timeout"} /\ seq < MaxSeq
    /\ ~local \/ Len(inbox) < MaxPackets
    /\ seq' = seq + 1
    /\ flight' = flight \cup {seq + 1}
    /\ inbox' = IF local THEN Append(inbox, packet("ECHO_REQUEST", Uid, seq + 1)) ELSE inbox
    /\ icmpPc' = "idle"
    /\ UNCHANGED <<reply, wait, heard>>

\* External: an answer comes, from the target or from a router on the way, or
\* is lost; a packet of another pinger comes.
Answer(n, type) ==
    /\ n \in flight /\ Len(inbox) < MaxPackets
    /\ flight' = flight \ {n}
    /\ inbox' = Append(inbox, packet(type, Uid, n))
    /\ UNCHANGED <<seq, reply, wait, icmpPc, heard>>
Lose(n) ==
    /\ n \in flight
    /\ flight' = flight \ {n}
    /\ UNCHANGED <<seq, inbox, reply, wait, icmpPc, heard>>
Other(id, type) ==
    /\ Len(inbox) < MaxPackets
    /\ inbox' = Append(inbox, packet(type, id, 1))
    /\ UNCHANGED <<seq, flight, reply, wait, icmpPc, heard>>

-----------------------------------------------------------------------------
\* sync(): of an error message the request inside it is taken, with the type
\* of the error: the id and the sequence are the request's, and the address
\* is the one it was sent to, not the router's.
sync(p) ==
    IF p.header.type \in Errors THEN [p.inner EXCEPT !.type = p.header.type] ELSE p.header

\* receiveEchoReply(timeout) begins
ReceiveEchoReply ==
    /\ icmpPc = "idle" /\ seq > 0
    /\ icmpPc' = "wait" /\ wait' = MaxWait
    /\ UNCHANGED <<seq, flight, inbox, reply, heard>>

\* recvFrom() has a packet: it is ours if the id is, of whatever type, the
\* socket's own request too; else the wait goes on with what is left of the
\* time, which for a packet that came within the millisecond is all of it.
Recv ==
    /\ icmpPc = "wait" /\ inbox # <<>>
    /\ reply' = sync(Head(inbox)) /\ inbox' = Tail(inbox)
    /\ IF reply'.id = Uid THEN icmpPc' = "got" /\ wait' = 0
       ELSE \E left \in {wait, wait - 1} : /\ wait' = left
                                           /\ icmpPc' = IF left > 0 THEN "wait" ELSE "timeout"
    /\ UNCHANGED <<seq, flight, heard>>

\* An error: recvFrom() starts with all of the time again.
RecvNothing_Again ==
    /\ icmpPc = "wait" /\ inbox = <<>>
    /\ wait' = MaxWait
    /\ UNCHANGED <<seq, flight, inbox, reply, icmpPc, heard>>

\* recvFrom() waits the time out
RecvNothing ==
    /\ icmpPc = "wait" /\ inbox = <<>>
    /\ wait' = 0 /\ icmpPc' = "timeout"
    /\ UNCHANGED <<seq, flight, inbox, reply, heard>>

-----------------------------------------------------------------------------
(* The listener's thread                                                   *)

StartListener ==
    /\ icmpPc = "idle"
    /\ icmpPc' = "listen"
    /\ UNCHANGED <<seq, flight, inbox, reply, wait, heard>>

\* run(): a packet, or after a second without one the message before again,
\* of which there is none at first
RunPacket ==
    /\ icmpPc = "listen" /\ inbox # <<>>
    /\ reply' = sync(Head(inbox)) /\ inbox' = Tail(inbox)
    /\ heard' = 1
    /\ UNCHANGED <<seq, flight, wait, icmpPc>>
RunTimeout ==
    /\ icmpPc = "listen" /\ inbox = <<>> /\ heard < 2
    /\ IF reply = NoMessage THEN icmpPc' = "crash" /\ UNCHANGED heard
       ELSE heard' = heard + 1 /\ UNCHANGED icmpPc
    /\ UNCHANGED <<seq, flight, inbox, reply, wait>>

IcmpNext ==
    \/ \E local \in BOOLEAN : SendEchoRequest(local)
    \/ \E n \in 1..MaxSeq : Lose(n) \/ \E t \in Types \ {"ECHO_REQUEST"} : Answer(n, t)
    \/ \E id \in OtherIds, t \in Types : Other(id, t)
    \/ ReceiveEchoReply \/ Recv \/ RecvNothing
    \/ StartListener \/ RunPacket \/ RunTimeout

\* select() returns when a packet is there or the time is up, and the thread
\* that waits goes on.
IcmpFairness == WF_icmpVars(Recv) /\ WF_icmpVars(RecvNothing)
IcmpSpec == IcmpInit /\ [][IcmpNext]_icmpVars /\ IcmpFairness

-----------------------------------------------------------------------------
\* A packet of another pinger, within a millisecond.
RecvOther == Recv /\ icmpPc' = "wait" /\ wait' = wait

(* receiveEchoReply() ends, in an answer or a timeout, unless for ever     *)
(* there is another packet of others within a millisecond: what is left of *)
(* the time is counted in whole ones (IcmpSocket.cpp:102-124).             *)
WaitEnds == (icmpPc = "wait" ~> icmpPc \in {"got", "timeout"}) \/ []<><<RecvOther>>_icmpVars
=============================================================================
