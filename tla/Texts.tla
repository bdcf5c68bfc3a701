------------------------------- MODULE Texts -------------------------------
(***************************************************************************)
(* The searches of SRL::String (cpp/src/String.cpp) as operators on a text *)
(* t, a sequence of bytes without the NUL that ends it.  Positions count   *)
(* from 0 as in the code.  The same operators serve the parsers that use   *)
(* String.  Wrap is the width of uint32: a length below zero is huge.      *)
(***************************************************************************)
EXTENDS Integers, Sequences, FiniteSets, FiniteSetsExt

CONSTANT Wrap

Nul == 0
Crash == <<-2>>      \* what a String of a length below zero comes to

at(t, i) == IF i < Len(t) THEN t[i + 1] ELSE Nul

\* strchr(), strstr() and strlen() stop at the first NUL.
stop(t, p) == Min({i \in p..Len(t) : at(t, i) = Nul})
cstr(t, p) == SubSeq(t, p + 1, stop(t, p))
matches(t, s, i) == i + Len(s) <= Len(t) /\ \A k \in 1..Len(s) : t[i + k] = s[k]

find(t, s, p) ==
    LET hits == {i \in p..stop(t, p) : i + Len(s) <= stop(t, p) /\ matches(t, s, i)} IN
    IF hits = {} THEN -1 ELSE Min(hits)

rfind(t, s, p) ==
    LET hits == {i \in 0..(IF p = 0 THEN Len(t) ELSE p) : matches(t, s, i)} IN
    IF p > Len(t) \/ hits = {} THEN -1 ELSE Max(hits)

count(t, s) == Cardinality({i \in 0..stop(t, 0) : i + Len(s) <= stop(t, 0) /\ matches(t, s, i)})

beginsWith(t, s) == matches(t, s, 0)

\* endsWith(): the first characters of the two are not compared.
endsWith(t, s) ==
    /\ s # <<>> /\ Len(s) <= Len(t)
    /\ \A k \in 2..Len(s) : at(t, Len(t) - Len(s) + k - 1) = s[k]

\* mid(), left(), right() and substr() return String(_str + pos, len), which
\* takes a length of zero for "measure it".
mid(t, p, n) ==
    IF (p + n) % Wrap > Len(t) THEN <<>>
    ELSE IF n % Wrap > Len(t) THEN Crash
    ELSE IF n = 0 THEN cstr(t, p)
    ELSE SubSeq(t, p + 1, p + n)
left(t, n) == IF n > Len(t) THEN <<>> ELSE mid(t, 0, n)
right(t, n) == IF n > Len(t) THEN <<>> ELSE mid(t, Len(t) - n, n)
substr(t, p) == mid(t, p, Len(t) - p)

\* the four between()s
between(t, s1, s2, num) ==
    LET lost == Len(s1) - 1
        hop[n \in 0..num] ==
            IF n = 0 THEN [start |-> 0, stop |-> 0]
            ELSE IF n > 1 /\ hop[n - 1].start = lost THEN hop[n - 1]
            ELSE LET a == find(t, s1, hop[n - 1].start) + Len(s1) IN
                 [start |-> a, stop |-> IF a = lost THEN 0 ELSE find(t, s2, a) + Len(s2)]
        h == hop[num]
        e == IF h.stop = Len(s2) - 1 THEN Len(t) ELSE h.stop IN
    IF h.start = lost THEN <<>> ELSE mid(t, h.start, e - h.start - Len(s2))

\* section(char): allow_null decides whether runs of delimiters count once.
skip(t, d, p, allowNull) ==
    IF allowNull THEN p ELSE Min({i \in p..Len(t) : at(t, i) # d})
sectionChar(t, d, field, allowNull) ==
    LET hop[n \in 0..field] ==
            IF n > 0 /\ hop[n - 1].stop = -1 THEN hop[n - 1]
            ELSE LET s == skip(t, d, IF n = 0 THEN 0 ELSE hop[n - 1].stop + 1, allowNull) IN
                 [start |-> s, stop |-> find(t, <<d>>, s), count |-> n]
        h == hop[field] IN
    IF h.stop = -1 /\ h.count # field THEN <<>>
    ELSE mid(t, h.start, (IF h.stop = -1 THEN Len(t) ELSE h.stop) - h.start)

\* section(String)
sectionStr(t, d, field) ==
    LET hop[n \in 0..field] ==
            IF n > 0 /\ hop[n - 1].stop = -1 THEN hop[n - 1]
            ELSE LET s == IF n = 0 THEN 0 ELSE hop[n - 1].stop + 1 IN
                 [start |-> s, stop |-> find(t, d, s), count |-> n]
        h == hop[field]
        s == IF h.start = 0 THEN 0 ELSE h.start + Len(d) - 1 IN
    IF h.stop = -1 /\ h.count # field THEN <<>>
    ELSE mid(t, s, (IF h.stop = -1 THEN Len(t) ELSE h.stop) - s)

isDigits(t) == t # <<>> /\ \A i \in 1..Len(t) : t[i] \in 48..57 \cup {46}

toupper(c) == IF c \in 97..122 THEN c - 32 ELSE c
tolower(c) == IF c \in 65..90 THEN c + 32 ELSE c

\* Compare(): character by character up to the first NUL
Compare(t, s, ignoreCase) ==
    LET f(c) == IF ignoreCase THEN toupper(c) ELSE c
        u == cstr(t, 0) IN
    Len(s) = Len(u) /\ \A i \in 1..Len(s) : f(s[i]) = f(u[i])
=============================================================================
