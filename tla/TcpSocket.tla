------------------------------ MODULE TcpSocket ------------------------------
(***************************************************************************)
(* SRL::Net::TcpSocket (cpp/src/net/TcpSocket.cpp), a socket with a        *)
(* buffered reader, and the SRL::IO::ByteBuffer under it                   *)
(* (cpp/src/io/ByteBuffer.cpp), between a peer that writes bytes and a     *)
(* caller that reads lines and blocks.  The sizes 1024, 256 and 512000 and *)
(* the rounding to 16 are constants; how long a wait lasts is left open.   *)
(***************************************************************************)
EXTENDS Integers, Sequences

CONSTANTS Bytes,      \* what the peer writes
          Delims,     \* what readUntil() is asked for: sequences of bytes
          Counts,     \* how much read() and readAll() are asked for
          MaxSent,    \* bound: the bytes the peer writes
          Chunk, Low, MaxBuffer, Round,
          Word        \* the bytes of a length in a ByteBuffer, 4

\* The program asks for a line end, one character (HttpHeaders.cpp:26), or for
\* some bytes.
ASSUME CallsAssumption == (\A d \in Delims : Len(d) = 1) /\ Counts \subseteq Nat \ {0}
\* 1024, 256, 512000, 16 and 4.
ASSUME SizesAssumption ==
    Round \in Nat \ {0} /\ Low \in Nat /\ Chunk \in Nat \ {0} /\ MaxBuffer \in Nat /\ Chunk <= MaxBuffer
    /\ Word \in Nat \ {0}

Nul == "nul"
Junk == "junk"        \* memory nobody wrote to
None == [op |-> "none"]
Huge == 1000          \* what a difference below zero is as a uint32

VARIABLES peerSent,   \* all the peer wrote
          unread,     \* what of it recv() has not returned yet
          hungUp,     \* the peer closed its end
          mem,        \* _buffer, its length is _size
          length, pos,
          call,       \* the call in progress
          got,        \* all the bytes that calls returned
          torn        \* an exception left the buffer in write mode, or a length was read

stream == <<peerSent, unread, hungUp>>
buffer == <<mem, length, pos>>
tcpVars == <<stream, buffer, call, got, torn>>

bufferSize == Len(mem)
remaining == IF pos > length THEN Huge ELSE length - pos
least(a, b) == IF a < b THEN a ELSE b

-----------------------------------------------------------------------------
(* ByteBuffer                                                              *)

\* resize()
resize(m, n) ==
    LET new == IF n = 0 THEN 0 ELSE ((n + 1 + Round - 1) \div Round) * Round IN
    [i \in 1..new |-> IF i = new THEN Nul ELSE IF i <= Len(m) THEN m[i] ELSE Junk]

\* moveStart(): the terminator is lost if it falls behind the memory.
moved ==
    LET n == length - pos IN
    [mem |-> [i \in 1..bufferSize |-> IF i <= n THEN mem[i + pos]
                                ELSE IF i = n + 1 THEN Nul ELSE mem[i]],
     length |-> n, pos |-> n]

\* toggle(true)
writable ==
    IF pos = length THEN [mem |-> mem, length |-> 0, pos |-> 0]
    ELSE IF pos < length THEN moved
    ELSE [mem |-> mem, length |-> length, pos |-> pos]

\* find(): the comparison does not stop at _length.
matches(d, i) ==
    \A p \in 1..Len(d) : i + p - 1 <= bufferSize /\ mem[i + p - 1] = d[p]
found(d) ==
    LET hits == {i \in (pos + 1)..length : matches(d, i)} IN
    IF hits = {} THEN 0 ELSE CHOOSE i \in hits : \A j \in hits : i <= j

\* deliver n bytes from _pos on
deliver(n) ==
    /\ got' = got \o SubSeq(mem, pos + 1, pos + n)
    /\ pos' = pos + n
    /\ UNCHANGED <<mem, length>>

-----------------------------------------------------------------------------
TcpInit ==
    /\ peerSent = <<>> /\ unread = <<>> /\ hungUp = FALSE
    /\ mem = resize(<<>>, Chunk) /\ length = 0 /\ pos = 0
    /\ call = None /\ got = <<>> /\ torn = FALSE

PeerWrites(b) ==
    /\ Len(peerSent) < MaxSent /\ ~hungUp
    /\ peerSent' = Append(peerSent, b) /\ unread' = Append(unread, b)
    /\ UNCHANGED <<hungUp, buffer, call, got, torn>>

PeerCloses ==
    /\ ~hungUp /\ hungUp' = TRUE
    /\ UNCHANGED <<peerSent, unread, buffer, call, got, torn>>

CallReadUntil(d) ==
    /\ call = None /\ call' = [op |-> "until", delim |-> d]
    /\ UNCHANGED <<stream, buffer, got, torn>>

CallReadAll(n) ==
    /\ call = None /\ call' = [op |-> "all", count |-> n]
    /\ UNCHANGED <<stream, buffer, got, torn>>

\* ByteBuffer::readUntil() found it: the call returns.
ReadUntil ==
    /\ call.op = "until" /\ found(call.delim) # 0
    /\ deliver(found(call.delim) + Len(call.delim) - 1 - pos)
    /\ call' = None
    /\ UNCHANGED <<stream, torn>>

\* readAll() returns one byte less than it waited for, so that the test of
\* the buffer, which throws, lets it through.
ReadAll ==
    /\ call.op = "all" /\ call.count > 1 /\ remaining >= call.count
    /\ deliver(call.count - 1)
    /\ call' = None
    /\ UNCHANGED <<stream, torn>>

\* Of one byte it returns none: read(output, 0) takes the next bytes for the
\* length of what follows.  It throws at the end of the buffer, before the
\* length or behind it.
ReadAllOne ==
    /\ call = [op |-> "all", count |-> 1] /\ remaining >= 1
    /\ call' = None
    /\ \/ Word + pos >= length /\ UNCHANGED <<buffer, got, torn>>
       \/ \E n \in 0..(length - pos - Word - 1) :
             /\ got' = got \o SubSeq(mem, pos + Word + 1, pos + Word + n)
             /\ pos' = pos + Word + n
             /\ torn' = TRUE
             /\ UNCHANGED <<mem, length>>
    /\ UNCHANGED stream

wantsMore ==
    \/ call.op = "until" /\ found(call.delim) = 0
    \/ call.op = "all" /\ remaining < call.count

\* _bufferedRecv(): make room, receive what fits, go back to reading.  It
\* throws at the limit and at the end of the stream, before it goes back.
BufferedRecv_KeepsPos ==
    LET w == writable
        free == Len(w.mem) - w.pos
        m == IF free <= Low THEN resize(w.mem, least(Len(w.mem) + Chunk, MaxBuffer)) ELSE w.mem
        n == least(Len(m) - w.pos, Len(unread))
        full == free = 0 /\ Len(w.mem) >= MaxBuffer
        threw == full \/ (unread = <<>> /\ hungUp)
    IN  /\ wantsMore
        /\ torn' = (torn \/ threw)
        /\ call' = IF threw THEN None ELSE call
        /\ IF threw
           THEN mem' = (IF full THEN w.mem ELSE m) /\ pos' = w.pos /\ length' = w.length /\ UNCHANGED unread
           ELSE /\ mem' = [i \in 1..Len(m) |->
                            IF i \in (w.pos + 1)..(w.pos + n) THEN unread[i - w.pos] ELSE m[i]]
                /\ length' = IF n > 0 THEN w.pos + n ELSE w.length
                /\ pos' = w.pos
                /\ unread' = SubSeq(unread, n + 1, Len(unread))
        /\ UNCHANGED <<peerSent, hungUp, got>>

BufferedRecv ==
    LET w == writable
        free == Len(w.mem) - w.pos
        m == IF free <= Low THEN resize(w.mem, least(Len(w.mem) + Chunk, MaxBuffer)) ELSE w.mem
        n == least(Len(m) - w.pos, Len(unread))
        full == free = 0 /\ Len(w.mem) >= MaxBuffer
        threw == full \/ (unread = <<>> /\ hungUp)
    IN  /\ wantsMore
        /\ torn' = (torn \/ threw)
        /\ call' = IF threw THEN None ELSE call
        /\ IF threw
           THEN mem' = (IF full THEN w.mem ELSE m) /\ pos' = w.pos /\ length' = w.length /\ UNCHANGED unread
           ELSE /\ mem' = [i \in 1..Len(m) |->
                            IF i \in (w.pos + 1)..(w.pos + n) THEN unread[i - w.pos] ELSE m[i]]
                /\ length' = IF n > 0 THEN w.pos + n ELSE w.length
                /\ pos' = 0
                /\ unread' = SubSeq(unread, n + 1, Len(unread))
        /\ UNCHANGED <<peerSent, hungUp, got>>

\* The time is up: readUntil() answers 0 and readAll() throws.
TimeOut ==
    /\ wantsMore /\ unread = <<>> /\ ~hungUp
    /\ call' = None
    /\ UNCHANGED <<stream, buffer, got, torn>>

\* read(): from the buffer if it holds anything, then never across its end,
\* else from the socket.
Read(n) ==
    /\ call = None
    /\ IF remaining > 0
       THEN /\ IF n + pos >= length THEN UNCHANGED <<buffer, got>>        \* throws
               ELSE deliver(n)
            /\ UNCHANGED unread
       ELSE LET k == least(n, Len(unread)) IN
            /\ got' = got \o SubSeq(unread, 1, k)
            /\ unread' = SubSeq(unread, k + 1, Len(unread))
            /\ UNCHANGED buffer
    /\ UNCHANGED <<peerSent, hungUp, call, torn>>

TcpNext ==
    \/ \E b \in Bytes : PeerWrites(b)
    \/ PeerCloses
    \/ \E d \in Delims : CallReadUntil(d)
    \/ \E n \in Counts : CallReadAll(n) \/ Read(n)
    \/ ReadUntil \/ ReadAll \/ ReadAllOne \/ BufferedRecv \/ TimeOut

TcpSpec == TcpInit /\ [][TcpNext]_tcpVars

-----------------------------------------------------------------------------
(* What calls returned, what waits in the buffer and what waits in the     *)
(* kernel are together what the peer wrote: no byte is lost, repeated or   *)
(* moved however lines and blocks fall on receives (TcpSocket.cpp:156,     *)
(* ByteBuffer.cpp:110, 148).  An exception in the middle ends that, and so *)
(* does a readAll() of one byte.                                           *)
StreamIntact ==
    ~torn => /\ pos <= length /\ length <= bufferSize
             /\ got \o SubSeq(mem, pos + 1, length) \o unread = peerSent
=============================================================================
