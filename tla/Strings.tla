------------------------------ MODULE Strings ------------------------------
(***************************************************************************)
(* SRL::String (cpp/src/String.cpp): one mutable string object with its    *)
(* block of memory, the length kept beside it and the memoised hash.  A    *)
(* character is its byte; a C string argument is a sequence without NUL.   *)
(* Positions count from 0 as in the code, mem from 1.  ROUNDVAL (16) is    *)
(* the constant Round.                                                     *)
(***************************************************************************)
EXTENDS Texts

CONSTANTS Chars,     \* the bytes texts are made of
          Args,      \* the C strings calls are given
          Subst,     \* pairs <<from, to>> that replace() is given
          MaxLen,    \* bound: no call makes the text longer than this, and a
                     \* replace() whose text would grow for ever stays there
          Round

Unwritten == 999     \* memory nobody wrote to
Space == 32
CR == 13
LF == 10

VARIABLES mem,       \* _str: <<>> is EMPTY, otherwise _array_size bytes
          length,    \* _string_length
          minSize,   \* _min_size
          hashOf,    \* the text that _hash_value was computed from; None is 0
          fault,     \* a write went outside the block, or into EMPTY
          call,      \* the replace() or remove() loop that is running
          want,      \* history: the text, were String a plain sequence
          torn       \* history: replace() put in an empty text, which leaves
                     \* _string_length as it was, and nothing was assigned since

vars == <<mem, length, minSize, hashOf, fault, call, want, torn>>

None == <<-1>>
Idle == [op |-> "idle"]

content == SubSeq(mem, 1, length)

-----------------------------------------------------------------------------
(* Memory                                                                  *)

\* An error: no room for the NUL.
resize_NoRoom(m, n) ==
    LET size == ((n + Round - 1) \div Round) * Round IN
    [i \in 1..size |-> IF i = n + 1 THEN Nul ELSE IF i <= Len(m) THEN m[i] ELSE Unwritten]

\* resize(): the block is a multiple of Round and one larger than the text.
resize(m, n) ==
    LET least == IF n < minSize THEN minSize ELSE n
        size == ((least + Round) \div Round) * Round IN
    IF n = 0 /\ minSize = 0 THEN <<>>
    ELSE [i \in 1..size |-> IF i = n + 1 THEN Nul ELSE IF i <= Len(m) THEN m[i] ELSE Unwritten]

\* memcpy and memmove into the block
write(m, p, s) == [i \in DOMAIN m |-> IF i \in (p + 1)..(p + Len(s)) THEN s[i - p] ELSE m[i]]
outside(m, p, s) == s # <<>> /\ p + Len(s) > Len(m)
part(m, p, n) == [i \in 1..n |-> m[p + i]]

\* _str = m with length n, text s written at p, and a NUL behind it
store(m, n, p, s, terminate) ==
    LET all == IF terminate THEN s \o <<Nul>> ELSE s IN
    /\ mem' = write(m, p, all)
    /\ length' = n
    /\ fault' = (fault \/ outside(m, p, all))
    /\ hashOf' = None
    /\ UNCHANGED minSize

idle == call = Idle /\ UNCHANGED <<call, torn>>
fits(n) == n \in 0..MaxLen

\* The text that a call is given
start == IF torn THEN content ELSE want

\* What the calls promise, on sequences
Put(t, p, n, s) == SubSeq(t, 1, p) \o s \o SubSeq(t, p + n + 1, Len(t))
Substituted(t, from, to) ==
    LET rest[i \in 1..(Len(t) + 1 + Len(from))] ==
            IF i > Len(t) THEN <<>>
            ELSE IF i + Len(from) <= Len(t) + 1 /\ SubSeq(t, i, i + Len(from) - 1) = from
            THEN to \o rest[i + Len(from)]
            ELSE <<t[i]>> \o rest[i + 1] IN
    rest[1]

-----------------------------------------------------------------------------
(* The operations that change the text                                     *)

Init ==
    /\ mem = <<>> /\ length = 0 /\ minSize = 0
    /\ hashOf = None /\ fault = FALSE /\ call = Idle /\ want = <<>> /\ torn = FALSE

\* operator=, and the constructors on a fresh object
Assign(s) ==
    /\ call = Idle /\ fits(Len(s))
    /\ call' = Idle /\ torn' = FALSE
    /\ store(resize(mem, Len(s)), Len(s), 0, s, s # <<>>)
    /\ want' = s

Reserve(n) ==
    /\ idle /\ fits(n) /\ n # minSize
    /\ minSize' = n
    /\ LET size == IF length < n THEN n ELSE length
           new == ((size + Round) \div Round) * Round IN
       mem' = IF length = 0 /\ n = 0 THEN <<>>
              ELSE [i \in 1..new |-> IF i = length + 1 THEN Nul
                                     ELSE IF i <= Len(mem) THEN mem[i] ELSE Unwritten]
    /\ hashOf' = None
    /\ UNCHANGED <<length, fault, want>>

\* truncate() and clear()
Truncate(n) ==
    /\ idle /\ n <= length
    /\ store(resize(mem, n), n, 0, <<>>, FALSE)
    /\ want' = SubSeq(start, 1, n)

\* append() and operator+=(const char* ): these also terminate an empty text
Append1(s) ==
    /\ idle /\ fits(length + Len(s))
    /\ store(resize(mem, length + Len(s)), length + Len(s), length, s, TRUE)
    /\ want' = start \o s

\* operator+=(char) and operator+=(const String&) leave on an empty argument
AppendSafe(s) ==
    /\ idle /\ s # <<>> /\ fits(length + Len(s))
    /\ store(resize(mem, length + Len(s)), length + Len(s), length, s, TRUE)
    /\ want' = start \o s

blank(c) == c \in {Space, CR, LF}

\* trim(): trimBegin() and then trimEnd()
Trim ==
    LET ink == {i \in 0..(length - 1) : ~blank(content[i + 1])}
        b == IF ink = {} THEN length ELSE Min(ink)
        e == IF ink = {} THEN length ELSE Max(ink) + 1 IN
    /\ idle /\ mem # <<>>
    /\ store(resize(write(mem, 0, part(mem, b, e - b)), e - b), e - b, 0, <<>>, FALSE)
    /\ want' = SubSeq(start, b + 1, e)

\* toUpper() and toLower() write the text in place; the hash stays.
ToCase(up) ==
    LET f(c) == IF up THEN toupper(c) ELSE tolower(c) IN
    /\ idle
    /\ mem' = [i \in DOMAIN mem |-> IF i <= length THEN f(mem[i]) ELSE mem[i]]
    /\ want' = [i \in DOMAIN start |-> f(start[i])]
    /\ UNCHANGED <<length, minSize, hashOf, fault>>

\* fill()
Fill(c, n) ==
    /\ idle /\ fits(n) /\ (n > 0 \/ mem # <<>>)
    /\ LET len == IF n > 0 THEN n ELSE length
           m == IF n > 0 THEN resize(mem, n) ELSE mem IN
       /\ mem' = [i \in DOMAIN m |-> IF i <= len THEN c ELSE m[i]]
       /\ length' = len
       /\ want' = [i \in 1..len |-> c]
       /\ hashOf' = IF n > 0 THEN None ELSE hashOf
       /\ UNCHANGED <<minSize, fault>>

\* remove(pos, len): what memory and length become
removed(p, n) ==
    IF p + n >= length THEN [mem |-> resize(mem, p), length |-> p]
    ELSE [mem |-> resize(write(mem, p, part(mem, p + n, length - p - n)), length - n),
          length |-> length - n]
Remove(p, n) ==
    /\ idle /\ p <= length /\ n > 0
    /\ LET r == removed(p, n) IN store(r.mem, r.length, 0, <<>>, FALSE)
    /\ want' = Put(start, p, n, <<>>)

\* insert(), prepend()
Insert(p, s) ==
    LET n == length + Len(s)
        q == IF p >= length THEN length ELSE p
        m == resize(mem, n) IN
    /\ idle /\ fits(n)
    /\ store(IF mem = <<>> THEN m ELSE write(m, q + Len(s), part(mem, q, length - q)), n, q, s, FALSE)
    /\ want' = Put(start, q, 0, s)

\* replaceFrom(): nothing is moved, and the length stays, for an empty text.
replaced(p, n, s) ==
    LET new == length + Len(s) - n
        grown == IF new > length THEN resize(mem, new) ELSE mem
        shifted == write(grown, p + Len(s), part(mem, p + n, length - p - n)) IN
    IF length = 0 THEN [mem |-> mem, length |-> 0]
    ELSE IF s = <<>> THEN [mem |-> write(mem, new, <<Nul>>), length |-> length]
    ELSE [mem |-> write(write(IF new < length THEN resize(shifted, new) ELSE shifted, p, s), new, <<Nul>>),
          length |-> new]
ReplaceFrom(p, n, s) ==
    /\ idle /\ p + n <= length /\ fits(length + Len(s) - n)
    /\ LET r == replaced(p, n, s) IN store(r.mem, r.length, 0, <<>>, FALSE)
    /\ want' = IF length = 0 THEN start ELSE Put(start, p, n, s)

\* replace(char, char) writes in place: neither the length nor the hash change.
ReplaceChar(c, d) ==
    /\ idle /\ c # d
    /\ mem' = [i \in DOMAIN mem |-> IF i <= stop(content, 0) /\ mem[i] = c THEN d ELSE mem[i]]
    /\ want' = Substituted(start, <<c>>, <<d>>)
    /\ UNCHANGED <<length, minSize, hashOf, fault>>

\* remove(String) and replace(): a loop that looks for the next occurrence from
\* the place of the last one; nothing else touches the object meanwhile.
StartLoop(op, from, to) ==
    /\ call = Idle /\ from # <<>>
    /\ call' = [op |-> op, from |-> from, to |-> to, pos |-> 0, cut |-> FALSE]
    /\ want' = Substituted(start, from, to) /\ fits(Len(want'))
    /\ UNCHANGED <<mem, length, minSize, hashOf, fault, torn>>
\* An error: -1 is not told from a position, so the search starts over.
Look_NoEnd ==
    /\ call # Idle /\ ~call.cut
    /\ LET p == find(content, call.from, call.pos) IN
       call' = IF p = -1 THEN [call EXCEPT !.pos = 0] ELSE [call EXCEPT !.pos = p, !.cut = TRUE]
    /\ UNCHANGED <<mem, length, minSize, hashOf, fault, want, torn>>
Look ==
    /\ call # Idle /\ ~call.cut
    /\ LET p == find(content, call.from, call.pos) IN
       call' = IF p = -1 THEN Idle ELSE [call EXCEPT !.pos = p, !.cut = TRUE]
    /\ UNCHANGED <<mem, length, minSize, hashOf, fault, want, torn>>
Cut ==
    /\ call # Idle /\ call.cut
    /\ LET r == IF call.op = "remove" THEN removed(call.pos, Len(call.from))
                ELSE replaced(call.pos, Len(call.from), call.to) IN
       fits(r.length) /\ store(r.mem, r.length, 0, <<>>, FALSE)
    /\ call' = [call EXCEPT !.cut = FALSE]
    /\ torn' = (torn \/ (call.op = "replace" /\ call.to = <<>>))
    /\ UNCHANGED want

\* hash(): computed once and kept
Hash ==
    /\ idle /\ hashOf = None
    /\ hashOf' = content
    /\ UNCHANGED <<mem, length, minSize, fault, want>>

Next ==
    \/ \E s \in Args : Assign(s) \/ Append1(s) \/ AppendSafe(s) \/ StartLoop("remove", s, <<>>)
    \/ \E n \in 0..MaxLen : Reserve(n) \/ Truncate(n) \/ \E c \in Chars : Fill(c, n)
    \/ \E p, n \in 0..MaxLen : Remove(p, n)
    \/ \E p \in 0..MaxLen, s \in Args : Insert(p, s) \/ \E n \in 0..MaxLen : ReplaceFrom(p, n, s)
    \/ \E r \in Subst : StartLoop("replace", r[1], r[2])
    \/ \E c, d \in Chars : ReplaceChar(c, d)
    \/ (\E up \in BOOLEAN : ToCase(up)) \/ Trim \/ Look \/ Cut \/ Hash

Spec == Init /\ [][Next]_vars /\ WF_vars(Look) /\ WF_vars(Cut)

-----------------------------------------------------------------------------
(* The block is larger than the text, ends it with a NUL, and is the only  *)
(* memory that calls write to, whatever the order in which it grew and     *)
(* shrank and however often a replace() that never ends goes round.        *)
InBlock == ~fault /\ (mem = <<>> => length = 0) /\ (mem # <<>> => length < Len(mem) /\ mem[length + 1] = Nul)

\* After every call the object holds the text its declaration promises
\* (String.h), memmove, memcpy and the length kept apart from the text or not;
\* a replace() with an empty text does not keep that promise (String.cpp:399).
IsTheText == call = Idle /\ ~torn => content = want

\* The places where s occurs in the text, and the pieces between them
spots(t, s) == {i \in 0..(Len(t) - Len(s)) : SubSeq(t, i + 1, i + Len(s)) = s}
piece(t, a, b) == SubSeq(t, a + 1, b)

(* find() and rfind() return the first and the last occurrence and count() *)
(* their number, left() and right() split the text; between() and section() return the piece that the         *)
(* delimiters enclose, wherever that piece is not empty and both of its    *)
(* delimiters are there.                                                   *)
QueriesRight ==
    call = Idle /\ ~torn /\ ~fault => \A s \in Args : s # <<>> =>
        LET o == spots(want, s) IN
        /\ find(content, s, 0) = IF o = {} THEN -1 ELSE Min(o)
        /\ rfind(content, s, 0) = IF o = {} THEN -1 ELSE Max(o)
        /\ count(content, s) = Cardinality(o)
        /\ beginsWith(content, s) = (0 \in o)
        /\ ((length - Len(s)) \in o => endsWith(content, s)) /\ Compare(content, s, FALSE) = (s = want)
        /\ \A n \in 1..length : left(content, n) \o right(content, length - n + 1) = Put(want, n, 0, <<content[n]>>)
        /\ \A d \in Chars : \A b \in spots(want, <<d>>) :
              LET a == Min(o) + Len(s) IN
              o # {} /\ a < b /\ (\A x \in spots(want, <<d>>) : x >= a => x >= b)
                => between(content, s, <<d>>, 1) = piece(want, a, b)
        /\ \A a \in o : (\A x \in o : x <= a) /\ a + Len(s) < length /\ Len(s) = 1
                => /\ sectionChar(content, s[1], Cardinality(o), TRUE) = piece(want, a + 1, length)
                   /\ sectionStr(content, s, Cardinality(o)) = piece(want, a + 1, length)

\* What is put in can be found again: the text stays where it is when the new
\* one is empty, and otherwise the old one is a part of the new one.
FindsAgain == call.op = "replace" /\ (call.to = <<>> \/ spots(call.to, call.from) # {})

\* remove() comes to an end, and so does a replace() that cannot find again
\* what it put in; the search starts where the last occurrence was.
LoopsEnd == (call # Idle /\ ~FindsAgain) ~> (call = Idle)
=============================================================================
