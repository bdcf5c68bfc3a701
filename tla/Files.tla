------------------------------- MODULE Files --------------------------------
(***************************************************************************)
(* SRL::FS::File and TextFile (FileStream reads the same way): one open    *)
(* file, read by lines or as a whole and written, while another process    *)
(* appends to it.  size() keeps the first size it saw, stat()ed sizes are  *)
(* kept apart from it, and readLine() judges by the length of what fgets() *)
(* gave whether the line goes on.                                          *)
(***************************************************************************)
EXTENDS Naturals, Sequences, FiniteSets

CONSTANTS Chars, EOL, CR,
          Room,     \* what fgets() may put into the 1k buffer (1038)
          Enough,   \* the length from which a line "ran out of buffer" (1023)
          Block,    \* ROUNDVAL, the step of a String's allocation (16)
          MaxFile, MaxCalls

VARIABLES content,   \* the bytes on the disk
          mode,      \* _io_mode; "closed" when _file is NULL
          pos, eof,  \* the stdio stream
          size,      \* _file_data_size
          statSize,  \* FsObject::_file_size
          pc,        \* "idle", or inside tail(): "stat", "wait"
          tailed,    \* how far tail() has read
          ret,       \* what the last read returned, and from where
          calls

vars == <<content, mode, pos, eof, size, statSize, pc, tailed, ret, calls>>

Modes == {"r", "w", "a", "r+", "w+", "a+"}
readable == mode \in {"r", "r+", "w+", "a+"}
writable == mode \in {"w", "a", "r+", "w+", "a+"}
Nothing == [kind |-> "none", from |-> 0, text |-> <<>>]

Init == /\ content \in {<<EOL, CR, EOL>>, <<>>}
        /\ mode = "closed" /\ pos = 0 /\ eof = FALSE /\ size = 0 /\ statSize = 0
        /\ pc = "idle" /\ tailed = 0 /\ ret = Nothing /\ calls = 0

Called == pc = "idle" /\ calls < MaxCalls /\ calls' = calls + 1

\* fopen(): "w" empties the file; a file that is there can be opened in any mode.
fopen(m) == /\ mode' = m
            /\ content' = IF m \in {"w", "w+"} THEN <<>> ELSE content
            /\ eof' = FALSE

Open(m) == /\ Called /\ mode = "closed"
           /\ fopen(m)
           /\ pos' = 0 /\ size' = 0 /\ tailed' = 0 /\ ret' = Nothing
           /\ UNCHANGED <<statSize, pc>>

Close == /\ Called /\ mode # "closed"
         /\ mode' = "closed" /\ ret' = Nothing
         /\ UNCHANGED <<content, pos, eof, size, statSize, pc, tailed>>

\* setIoMode(): the file is opened again and the position set, but what size()
\* remembers stays.
SetIoMode(m) == /\ Called /\ mode # "closed" /\ m # mode
                /\ fopen(m)
                /\ ret' = Nothing
                /\ UNCHANGED <<pos, size, statSize, pc, tailed>>

rest == SubSeq(content, pos + 1, Len(content))

\* fgets(): up to Room bytes, no further than the end of a line.
fgets(s) ==
    LET lines == {i \in DOMAIN s : s[i] = EOL}
        stop == IF lines = {} THEN Len(s) ELSE CHOOSE i \in lines : \A j \in lines : i <= j
    IN SubSeq(s, 1, IF stop < Room THEN stop ELSE Room)

drop(s, c) == IF s # <<>> /\ s[Len(s)] = c THEN SubSeq(s, 1, Len(s) - 1) ELSE s
stripped(s) == drop(drop(s, EOL), CR)

\* readLine(): the text it returns, the bytes it takes from s and whether it
\* met the end of the file.  A part that
\* is Enough long is followed by whatever readLine() returns next.
readLine[s \in Seq(Chars), strip \in BOOLEAN] ==
    LET part == fgets(s)
    IN IF part = <<>> THEN [text |-> <<>>, took |-> 0, end |-> TRUE]
       ELSE IF Len(part) < Enough
       THEN [text |-> IF strip THEN stripped(part) ELSE part, took |-> Len(part),
             end |-> part[Len(part)] # EOL]
       ELSE LET more == readLine[SubSeq(s, Len(part) + 1, Len(s)), strip]
            IN [text |-> part \o more.text, took |-> Len(part) + more.took,
                end |-> more.end]

ReadLine_NoMore(strip) ==
    LET part == fgets(rest)
    IN /\ Called /\ readable
       /\ pos' = pos + Len(part)
       /\ eof' = (eof \/ pos' = Len(content))
       /\ ret' = [kind |-> IF strip THEN "stripped" ELSE "line", from |-> pos,
                  text |-> IF strip THEN stripped(part) ELSE part]
       /\ UNCHANGED <<content, mode, size, statSize, pc, tailed>>

ReadLine(strip) ==
    LET line == readLine[rest, strip]
    IN /\ Called /\ readable
       /\ pos' = pos + line.took
       /\ eof' = (eof \/ line.end)
       /\ ret' = [kind |-> IF strip THEN "stripped" ELSE "line", from |-> pos,
                  text |-> line.text]
       /\ UNCHANGED <<content, mode, size, statSize, pc, tailed>>

\* read(buf, len): fread() of up to n bytes.
Read(n) ==
    /\ Called /\ readable
    /\ LET got == SubSeq(rest, 1, IF n < Len(rest) THEN n ELSE Len(rest))
       IN /\ pos' = pos + Len(got)
          /\ eof' = (eof \/ Len(got) < n)
          /\ ret' = [kind |-> "read", from |-> pos, text |-> got]
    /\ UNCHANGED <<content, mode, size, statSize, pc, tailed>>

\* size(): asked for once; finding it out clears the end-of-file flag.
knownSize == IF size = 0 THEN Len(content) ELSE size
Size == /\ Called /\ mode # "closed"
        /\ size' = knownSize
        /\ eof' = (eof /\ size # 0)
        /\ ret' = Nothing
        /\ UNCHANGED <<content, mode, pos, statSize, pc, tailed>>

\* What the buffer of a string that was resized to n holds: ROUNDUP(n+1, Block).
allocated(n) == ((n + Block) \div Block) * Block

\* readAll(): from the start, as much as the known size has room for; a file
\* whose size is 0 (in /proc) is read until its end.
ReadAll ==
    /\ Called /\ readable
    /\ size' = knownSize
    /\ LET most == IF size' > 0 THEN allocated(size') ELSE Len(content)
           got == SubSeq(content, 1, IF most < Len(content) THEN most ELSE Len(content))
       IN /\ pos' = Len(got)
          /\ eof' = (size' = 0 \/ Len(got) < most)
          /\ ret' = [kind |-> "all", from |-> 0, text |-> got]
    /\ UNCHANGED <<content, mode, statSize, pc, tailed>>

\* write() and commit(): at the position, or at the end of a file opened to append.
Write(c) ==
    /\ Called /\ writable
    /\ LET at == IF mode \in {"a", "a+"} THEN Len(content) ELSE pos
       IN /\ at <= Len(content) /\ at < MaxFile
          /\ content' = [i \in 1..(IF at = Len(content) THEN at + 1 ELSE Len(content)) |->
                           IF i = at + 1 THEN c ELSE content[i]]
          /\ pos' = at + 1
    /\ ret' = Nothing
    /\ UNCHANGED <<mode, eof, size, statSize, pc, tailed>>

\* setPosition(), seek(), rewind() and gotoEnd() clear the end-of-file flag.
Seek(p) == /\ Called /\ mode # "closed" /\ p \in {0, Len(content)}
           /\ pos' = p /\ eof' = FALSE /\ ret' = Nothing
           /\ UNCHANGED <<content, mode, size, statSize, pc, tailed>>

\* tail(): a size that has not changed since the last stat() means that all
\* was read ...
TailStat ==
        /\ Called /\ readable
        /\ statSize' = Len(content)
        /\ pc' = IF statSize = Len(content) THEN "end" ELSE "wait"
        /\ ret' = Nothing
        /\ UNCHANGED <<content, mode, pos, eof, size, tailed>>

\* ... gotoEnd(), which may by now be further ...
TailGotoEnd == /\ pc = "end"
               /\ pos' = Len(content) /\ eof' = FALSE /\ pc' = "wait"
               /\ UNCHANGED <<content, mode, size, statSize, tailed, ret, calls>>

\* The lines from p on, until size n is reached; at least one character each.
upTo[s \in Seq(Chars), n \in Nat] ==
    IF n = 0 \/ s = <<>> THEN <<>>
    ELSE LET line == readLine[s, FALSE]
         IN line.text \o upTo[SubSeq(s, line.took + 1, Len(s)),
                              IF n > line.took THEN n - line.took ELSE 0]

\* ... and, when waitForChange() sees another size, the lines up to that size.
TailRead ==
    /\ pc = "wait" /\ Len(content) # statSize
    /\ statSize' = Len(content)
    /\ LET got == IF pos < Len(content) THEN upTo[rest, Len(content) - pos] ELSE <<>>
       IN /\ ret' = [kind |-> "tail", from |-> pos, text |-> got]
          /\ pos' = pos + Len(got)
          /\ tailed' = pos + Len(got)
    /\ eof' = (pos' >= Len(content))
    /\ pc' = "idle"
    /\ UNCHANGED <<content, mode, size, calls>>

\* Another process appends to the file.
Grow(c) == /\ Len(content) < MaxFile
           /\ content' = Append(content, c)
           /\ ret' = Nothing
           /\ UNCHANGED <<mode, pos, eof, size, statSize, pc, tailed, calls>>

Next == \/ \E m \in Modes : Open(m) \/ SetIoMode(m)
        \/ \E strip \in BOOLEAN : ReadLine(strip)
        \/ \E c \in Chars : Write(c) \/ Grow(c)
        \/ \E p \in 0..MaxFile : Seek(p)
        \/ Close \/ Read(2) \/ Size \/ ReadAll \/ TailStat \/ TailGotoEnd \/ TailRead

Spec == Init /\ [][Next]_vars

-----------------------------------------------------------------------------
\* The line that begins behind position p, with its end.
lineAt(p) ==
    LET ends == {i \in (p + 1)..Len(content) : content[i] = EOL}
        stop == IF ends = {} THEN Len(content) ELSE CHOOSE i \in ends : \A j \in ends : i <= j
    IN SubSeq(content, p + 1, stop)

\* readLine() returns the line at the position, without its end if asked to, as
\* long as the line is shorter than the buffer; a longer one is never cut short
\* and no byte between two reads is lost (TextFile.cpp:69).
ReadLineRight ==
    /\ ret.kind \in {"line", "tail", "read"} =>
           ret.text = SubSeq(content, ret.from + 1, pos)
    /\ ret.kind \in {"line", "stripped"} /\ Len(lineAt(ret.from)) < Enough =>
           ret.text = IF ret.kind = "line" THEN lineAt(ret.from) ELSE stripped(lineAt(ret.from))
    /\ ret.kind = "line" => Len(ret.text) >= Len(lineAt(ret.from))

\* readAll() returns the start of the file, and all of it if the file is no
\* longer than the size that was found first (TextFile.cpp:116).
ReadAllRight ==
    ret.kind = "all" =>
        /\ ret.text = SubSeq(content, 1, Len(ret.text))
        /\ Len(content) <= size => ret.text = content

FilesRight == ReadLineRight /\ ReadAllRight
=============================================================================
