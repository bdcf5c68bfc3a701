------------------------------- MODULE Codecs -------------------------------
(***************************************************************************)
(* The conversions of SRL, as operators on sequences of bytes: numbers and *)
(* escapes (cpp/src/String.cpp), percent encoding (cpp/src/net/URI.cpp),   *)
(* Base64 (cpp/src/util/Base64.cpp) and the strings of the binary streams  *)
(* (cpp/src/io).  The machine below feeds them every text over Alphabet.   *)
(* Width stands for the 32 bits of int32, twice Width for int64.           *)
(***************************************************************************)
EXTENDS Integers, Sequences, FiniteSets

CONSTANTS Alphabet,   \* bytes the texts are made of
          MaxText,    \* bound: the length of a text
          Width,      \* bits of an int32
          CharLimit   \* the 512 of BinaryReader::read(char* )

VARIABLE input

\* The concatenation of f(1), ..., f(n)
Concat(n, f(_)) ==
    LET upto[i \in 0..n] == IF i = 0 THEN <<>> ELSE upto[i - 1] \o f(i) IN upto[n]

\* operator+=(char) ignores a NUL.
plus(c) == IF c = 0 THEN <<>> ELSE <<c>>

-----------------------------------------------------------------------------
(* Numbers                                                                 *)

HEX == <<48, 49, 50, 51, 52, 53, 54, 55, 56, 57, 65, 66, 67, 68, 69, 70>>
Minus == 45

digits(n, base) ==
    LET lead[k \in 0..n] == IF k < base THEN <<HEX[k + 1]>>
                            ELSE Append(lead[k \div base], HEX[(k % base) + 1]) IN
    lead[n]

\* Val(int32): the value's magnitude is taken as a uint32.
Val(num, base) ==
    IF base \notin 2..16 THEN <<>>
    ELSE IF num < 0 THEN <<Minus>> \o digits(-num, base) ELSE digits(num, base)

\* Val(int64): the magnitude of a negative number is cut to 32 bits.
Val64(num, base) ==
    IF base \notin 2..16 THEN <<>>
    ELSE IF num < 0 THEN <<Minus>> \o digits((((-num - 1) % 2^Width) + 1) % 2^Width, base)
    ELSE digits(num, base)

nibble(c) == CASE c \in 97..102 -> c - 87 [] c \in 65..70 -> c - 55 [] c \in 48..57 -> c - 48
               [] OTHER -> 99

\* Int(), UInt(), Long(), ULong(): strtol() reads as many digits as there are.
ToInt(s, base) ==
    LET neg == s # <<>> /\ s[1] = Minus
        read[i \in 0..Len(s)] ==
            IF i = 0 \/ (i = 1 /\ neg) THEN [v |-> 0, on |-> TRUE]
            ELSE IF read[i - 1].on /\ nibble(s[i]) < base
            THEN [v |-> read[i - 1].v * base + nibble(s[i]), on |-> TRUE]
            ELSE [read[i - 1] EXCEPT !.on = FALSE] IN
    IF neg THEN -read[Len(s)].v ELSE read[Len(s)].v

Hex(c) == <<HEX[(c \div 16) + 1], HEX[(c % 16) + 1]>>
UnHex(h, l) == IF nibble(h) = 99 \/ nibble(l) = 99 THEN 0 ELSE nibble(h) * 16 + nibble(l)

\* Bits(): a byte from its highest bit, a wider number from its lowest byte.
bits(b) == [i \in 1..8 |-> (b \div 2^(8 - i)) % 2]
Bits(num, bytes) == Concat(bytes, LAMBDA i : bits((num \div 2^(8 * (i - 1))) % 256))

-----------------------------------------------------------------------------
(* escape() and unescape()                                                 *)

Backslash == 92
\* the letters behind a backslash, with what they stand for
Letter == [n \in {10, 13, 8, 11, 7, 12, 9, 92, 34, 39} |->
             CASE n = 10 -> 110 [] n = 13 -> 114 [] n = 8 -> 98 [] n = 11 -> 118 [] n = 7 -> 97
               [] n = 12 -> 102 [] n = 9 -> 116 [] OTHER -> n]
letters == {Letter[n] : n \in DOMAIN Letter}

escape(t) ==
    Concat(Len(t), LAMBDA i :
        LET c == t[i] IN
        IF c \in DOMAIN Letter THEN <<Backslash, Letter[c]>>
        ELSE IF c < 32 \/ c > 127 THEN <<Backslash, 120>> \o Hex(c)
        ELSE plus(c))

\* An error: only one hexadecimal digit is read.
run_One(t, p, base, max) == IF p <= Len(t) /\ nibble(t[p]) < base THEN 1 ELSE 0

\* how many digits of the base follow from p, at most max
run(t, p, base, max) ==
    CHOOSE n \in 0..max :
        /\ \A i \in 0..(n - 1) : p + i <= Len(t) /\ nibble(t[p + i]) < base
        /\ n = max \/ p + n > Len(t) \/ nibble(t[p + n]) >= base

unescape(t) ==
    LET rest[p \in 1..(Len(t) + 4)] ==
        IF p > Len(t) THEN <<>>
        ELSE IF t[p] # Backslash THEN plus(t[p]) \o rest[p + 1]
        ELSE IF p = Len(t) THEN <<>>
        ELSE LET c == t[p + 1] IN
             IF c \in letters
             THEN <<CHOOSE n \in DOMAIN Letter : Letter[n] = c>> \o rest[p + 2]
             ELSE IF c = 120
             THEN LET n == run(t, p + 2, 16, 2) IN
                  (IF n = 0 THEN <<120>> ELSE plus(ToInt(SubSeq(t, p + 2, p + 1 + n), 16))) \o rest[p + 2 + n]
             ELSE IF c \in 48..55
             THEN LET n == run(t, p + 2, 8, 2) IN
                  plus(ToInt(SubSeq(t, p + 1, p + 1 + n), 8) % 256) \o rest[p + 2 + n]
             ELSE plus(c) \o rest[p + 2] IN
    rest[1]

-----------------------------------------------------------------------------
(* URI::Encode() and URI::Decode()                                         *)

Percent == 37
PlusSign == 43
Blank == 32

ShouldEncode(c, exclude) ==
    ~(c \in 97..122 \/ c \in 65..90 \/ c \in 48..57 \/ c \in {45, 46, 95, 126} \/ c \in exclude)
Encode(t, exclude) ==
    Concat(Len(t), LAMBDA i : IF ShouldEncode(t[i], exclude) THEN <<Percent>> \o Hex(t[i]) ELSE plus(t[i]))

Decode(e) ==
    LET t == [i \in 1..Len(e) |-> IF e[i] = PlusSign THEN Blank ELSE e[i]]
        rest[i \in 1..(Len(t) + 3)] ==
            IF i > Len(t) THEN <<>>
            ELSE IF t[i] = Percent /\ i + 2 <= Len(t)
            THEN plus(UnHex(t[i + 1], t[i + 2])) \o rest[i + 3]
            ELSE plus(t[i]) \o rest[i + 1] IN
    rest[1]

\* what addQueryField() stores of a value
QueryValue(v) ==
    LET e == Encode(v, {32, 46, 126, 95, 45}) IN
    [i \in 1..Len(e) |-> IF e[i] = Blank THEN PlusSign ELSE e[i]]

-----------------------------------------------------------------------------
(* Base64                                                                  *)

Equals == 61
encode6(u) == CASE u < 26 -> 65 + u [] u \in 26..51 -> 71 + u [] u \in 52..61 -> u - 4
                [] u = 62 -> 43 [] OTHER -> 47
decode6(c) == CASE c \in 65..90 -> c - 65 [] c \in 97..122 -> c - 71 [] c \in 48..57 -> c + 4
                [] c = 43 -> 62 [] OTHER -> 63

Base64Encode(b) ==
    LET byte(i) == IF i <= Len(b) THEN b[i] ELSE 0 IN
    Concat((Len(b) + 2) \div 3, LAMBDA k :
        LET i == 3 * k - 2 IN
        <<encode6(byte(i) \div 4),
          encode6((byte(i) % 4) * 16 + byte(i + 1) \div 16),
          IF i + 1 <= Len(b) THEN encode6((byte(i + 1) % 16) * 4 + byte(i + 2) \div 64) ELSE Equals,
          IF i + 2 <= Len(b) THEN encode6(byte(i + 2) % 64) ELSE Equals>>)

\* decode(): the text without the foreign characters is built and not used.
Base64Decode(s) ==
    LET char(i) == IF i <= Len(s) THEN s[i] ELSE 65 IN
    Concat((Len(s) + 3) \div 4, LAMBDA k :
        LET i == 4 * k - 3
            d(j) == decode6(char(i + j)) IN
        <<(d(0) * 4 + d(1) \div 16) % 256>>
        \o (IF char(i + 2) = Equals THEN <<>> ELSE <<(d(1) % 16) * 16 + d(2) \div 4>>)
        \o (IF char(i + 3) = Equals THEN <<>> ELSE <<(d(2) % 4) * 64 + d(3)>>))

-----------------------------------------------------------------------------
(* BinaryWriter::write(String) and the two reads of BinaryReader: a number *)
(* of bytes, then the bytes.  A read returns the text and what is left.    *)

writeString(stream, t) == Append(stream, Len(t)) \o t
readString(stream) ==
    LET n == Head(stream) IN
    [text |-> SubSeq(stream, 2, n + 1), rest |-> SubSeq(stream, n + 2, Len(stream))]
\* read(char* ) leaves a text of CharLimit bytes or more in the stream.
readChars(stream) ==
    LET n == Head(stream) IN
    IF n > 0 /\ n < CharLimit THEN readString(stream)
    ELSE [text |-> <<>>, rest |-> Tail(stream)]

-----------------------------------------------------------------------------
Init == input = <<>>

Feed(b) ==
    /\ Len(input) < MaxText
    /\ input' = Append(input, b)

Next == \E b \in Alphabet : Feed(b)

Spec == Init /\ [][Next]_input

-----------------------------------------------------------------------------
(* Every conversion is undone by its counterpart: escape() by unescape(),  *)
(* an encoded query value by Decode(), Base64 by Base64, and two strings   *)
(* written one after the other are read back, by read(char* ) too as long  *)
(* as the first is shorter than its limit.                                 *)
RoundTrips ==
    /\ unescape(escape(input)) = input
    /\ Decode(QueryValue(input)) = input
    /\ Base64Decode(Base64Encode(input)) = input
    /\ LET s == writeString(writeString(<<>>, input), <<7>>)
           r == readString(s)
           c == readChars(s) IN
       /\ r.text = input /\ readString(r.rest).text = <<7>>
       /\ Len(input) < CharLimit => c = r

(* Int() reads back the number that Val() was given, in every base, and a  *)
(* byte's bits.  Left out are the int64 whose magnitude needs more than 32 *)
(* bits and that are negative: the text is of another number               *)
(* (String.cpp:1281).                                                      *)
NumbersRead ==
    input = <<>> => \A base \in {2, 10, 16} :
        /\ \A n \in -(2^(Width - 1))..(2^(Width - 1) - 1) : ToInt(Val(n, base), base) = n
        /\ \A b \in Alphabet : ToInt([i \in 1..8 |-> 48 + Bits(b, 1)[i]], 2) = b
        /\ \A n \in (1 - 2^Width)..(2^(2 * Width - 1) - 1) : ToInt(Val64(n, base), base) = n
=============================================================================
