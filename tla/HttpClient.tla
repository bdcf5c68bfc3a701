----------------------------- MODULE HttpClient -----------------------------
(***************************************************************************)
(* SRL::Net::HttpClient::get() (cpp/src/net/HttpClient.cpp) and the parser *)
(* of header fields it shares with the server (HttpHeaders.cpp).  The      *)
(* page is a sequence of lines; any read of a line may time out, which     *)
(* leaves the line empty.                                                  *)
(***************************************************************************)
EXTENDS Integers, Sequences, FiniteSets, SequencesExt

CONSTANTS Answers,      \* the answers of servers: sequences of lines
          MaxHeaders,   \* MAX_HEADERS, 200
          MaxGets       \* bound: calls of get() on one client

VARIABLES pc,           \* where get() is
          page, read, \* the server's lines, and how many were read
          headers,      \* _headers: the values by name
          name, value,  \* the locals of parse()
          output,       \* length of the content that was read
          sockets,      \* history: TcpSockets that were made
          slow          \* history: a read timed out

vars == <<pc, page, read, headers, name, value, output, sockets, slow>>

\* The lines: the status, a field, a line that begins with a blank (its value is
\* what stands behind a colon, and none without one), an invalid one, the empty
\* line
status == [kind |-> "status", name |-> "", value |-> <<>>]
field(n, v) == [kind |-> "field", name |-> n, value |-> <<v>>]
more(n, v) == [kind |-> "more", name |-> n, value |-> v]
junk == [kind |-> "junk", name |-> "", value |-> <<>>]
end == [kind |-> "end", name |-> "", value |-> <<>>]

NoHeaders == [n \in {} |-> <<>>]
set(n, v) == [x \in DOMAIN headers \cup {n} |-> IF x = n THEN v ELSE headers[x]]

Init ==
    /\ pc = "idle" /\ page = <<>> /\ read = 0 /\ headers = NoHeaders
    /\ name = "" /\ value = <<>> /\ output = 0 /\ sockets = 0 /\ slow = FALSE

\* get(): the socket of the call before is not deleted.  The port is the
\* scheme's; another scheme throws, and so may connect().
Get ==
    /\ pc \in {"idle", "done", "failed"} /\ sockets < MaxGets
    /\ sockets' = sockets + 1
    /\ pc' \in {"failed", "status"}
    /\ page' \in Answers /\ read' = 0 /\ slow' = FALSE /\ output' = 0
    /\ UNCHANGED <<headers, name, value>>

\* the first line, for which it waits 30 seconds; parse() clears the headers
ReadStatus(inTime) ==
    /\ pc = "status"
    /\ LET good == inTime /\ read < Len(page) /\ page[read + 1].kind = "status" IN
       /\ pc' = IF good THEN "headers" ELSE "failed"
       /\ headers' = IF good THEN NoHeaders ELSE headers
    /\ read' = read + 1
    /\ name' = "" /\ value' = <<>>
    /\ UNCHANGED <<page, output, sockets, slow>>

\* a line with a name: the first of a name counts, the locals change anyway
Header(line) ==
    /\ name' = line.name /\ value' = line.value
    /\ IF line.name \in DOMAIN headers THEN pc' = "headers" /\ UNCHANGED headers
       ELSE /\ headers' = set(line.name, line.value)
            /\ pc' = IF Cardinality(DOMAIN headers') >= MaxHeaders THEN "failed" ELSE "headers"

\* HttpHeaders::parse(), one line: one that begins with a blank goes on with the
\* name read last, whether that line counted or not, or else is like others.
ParseLine ==
    /\ pc = "headers" /\ read < Len(page)
    /\ LET line == page[read + 1] IN
       \/ /\ line.kind = "more" /\ name # ""
          /\ value' = value \o line.value
          /\ headers' = set(name, value')
          /\ UNCHANGED <<name, pc>>
       \/ /\ line.kind = "field" \/ (line.kind = "more" /\ name = "" /\ line.value # <<>>)
          /\ Header(line)
       \/ /\ line.kind = "end"
          /\ pc' = "content" /\ UNCHANGED <<headers, name, value>>
       \/ /\ line.kind \in {"junk", "status"} \/ (line.kind = "more" /\ name = "" /\ line.value = <<>>)
          /\ UNCHANGED <<headers, name, value, pc>>
    /\ read' = read + 1
    /\ UNCHANGED <<page, output, sockets, slow>>

\* a line that is empty because nothing came ends the headers too
ParseTimeout ==
    /\ pc = "headers"
    /\ pc' = "content" /\ slow' = TRUE
    /\ UNCHANGED <<page, read, headers, name, value, output, sockets>>

\* The server closes: readUntil() throws.
ParseThrows ==
    /\ pc = "headers"
    /\ pc' = "failed"
    /\ UNCHANGED <<page, read, headers, name, value, output, sockets, slow>>

\* readAll() reads one byte less than it waits for, or throws: of one byte,
\* where it reads a length, always.
ReadContent ==
    /\ pc = "content"
    /\ LET n == IF "content-length" \in DOMAIN headers THEN headers["content-length"][1] ELSE 0 IN
       \/ n = 0 /\ pc' = "done" /\ UNCHANGED output
       \/ n > 1 /\ pc' = "done" /\ output' = n - 1
       \/ n > 0 /\ pc' = "failed" /\ UNCHANGED output
    /\ UNCHANGED <<page, read, headers, name, value, sockets, slow>>

Next ==
    \/ Get \/ ParseLine \/ ParseTimeout \/ ParseThrows \/ ReadContent
    \/ \E inTime \in BOOLEAN : ReadStatus(inTime)

Spec == Init /\ [][Next]_vars

-----------------------------------------------------------------------------
\* The lines that are headers: those with a colon that do not begin with a
\* blank, and one that does if none is in front of it
colon(i) == page[i].kind \in {"field", "more"} /\ page[i].value # <<>>
headerLines == {i \in 1..read : colon(i) /\ (page[i].kind = "field" \/ \A j \in 1..(i - 1) : ~colon(j))}
lines(n) == {i \in headerLines : page[i].name = n}

\* What is said in line i and in those that go on with it
goesOn(i) == {j \in (i + 1)..read : page[j].kind = "more" /\ headerLines \cap (i + 1)..j = {}}
said(i) == FlattenSeq([k \in 1..Len(page) |-> IF k \in goesOn(i) \cup {i} THEN page[k].value ELSE <<>>])

(* A get() that returns with no timeout has the headers of this answer and *)
(* nothing of an answer before: each with the value it had first and what  *)
(* stands behind a colon in the lines that go on with it, unless a         *)
(* repetition goes on; and it has the content announced but the last byte. *)
GetsTheAnswer ==
    pc = "done" /\ ~slow =>
        /\ \A n \in DOMAIN headers :
             /\ lines(n) # {}
             /\ (\A i \in lines(n) \ {Min(lines(n))} : goesOn(i) = {}) => headers[n] = said(Min(lines(n)))
        /\ \A i \in headerLines : page[i].name \in DOMAIN headers
        /\ "content-length" \in DOMAIN headers /\ headers["content-length"][1] > 0 =>
              output = headers["content-length"][1] - 1
=============================================================================
