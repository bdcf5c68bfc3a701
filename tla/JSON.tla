-------------------------------- MODULE JSON --------------------------------
(***************************************************************************)
(* SRL::JSON (cpp/src/json/JSON.cpp): values are parsed from a stream by   *)
(* trying one form after the other, and written back with operator<<.      *)
(* Positions count from 0.  Numbers are whole ones of at most six digits,  *)
(* which operator<< writes exactly; characters are below 128.              *)
(***************************************************************************)
EXTENDS Integers, Sequences, FiniteSets, FiniteSetsExt

CONSTANTS Values,     \* the values a program writes
          Documents   \* the texts it parses

VARIABLES value,      \* the Value
          text,       \* the stream
          reply,      \* what the last call left: "value", "text", "failed" or "crash"
          origin      \* history: the value that was written last

vars == <<value, text, reply, origin>>

Mark == 34
Escape == 92
Blank == {32, 9, 10, 13}
Digit == 48..57
True == <<116, 114, 117, 101>>
False == <<102, 97, 108, 115, 101>>
NullWord == <<110, 117, 108, 108>>

\* A Value: its type_, its number or bool, its string, and its members, which
\* for an ARRAY_ have no keys.
mk(type, number, string, members) ==
    [type |-> type, number |-> number, string |-> string, members |-> members]
Invalid == mk("invalid", 0, <<>>, <<>>)
ok(p, v) == [ok |-> TRUE, pos |-> p, value |-> v]
no(p) == [ok |-> FALSE, pos |-> p, value |-> Invalid]

-----------------------------------------------------------------------------
(* Reading                                                                 *)

skip(s, p) == Min({q \in p..Len(s) : q = Len(s) \/ s[q + 1] \notin Blank})

\* match(): the part of the pattern that did match stays consumed
match(pattern, s, p) ==
    LET from == skip(s, p)
        n == Max({k \in 0..Len(pattern) : from + k <= Len(s)
                                          /\ SubSeq(s, from + 1, from + k) = SubSeq(pattern, 1, k)}) IN
    [ok |-> n = Len(pattern), pos |-> from + n]

unescaped(c) ==
    CASE c \in {Mark, Escape, 47} -> <<c>>
      [] c = 98 -> <<8>>
      [] c = 102 -> <<12>>
      [] c = 110 -> <<10>>
      [] c = 114 -> <<13>>
      [] c = 116 -> <<9>>
      [] OTHER -> <<Escape, c>>

RECURSIVE characters(_, _, _)
characters(s, p, t) ==
    IF p >= Len(s) THEN no(p)
    ELSE IF s[p + 1] = Mark THEN ok(p + 1, mk("string", 0, t, <<>>))
    ELSE IF s[p + 1] # Escape THEN characters(s, p + 1, Append(t, s[p + 1]))
    ELSE IF p + 1 >= Len(s) THEN no(p + 1)
    ELSE characters(s, p + 2, t \o unescaped(s[p + 2]))

parse_string(s, p) ==
    LET m == match(<<Mark>>, s, p) IN IF m.ok THEN characters(s, m.pos, <<>>) ELSE no(m.pos)

\* parse_number(): a sign is consumed even if no digit follows it
parse_number(s, p) ==
    LET from == skip(s, p)
        signed == from < Len(s) /\ s[from + 1] \in {43, 45}
        first == IF signed THEN from + 1 ELSE from
        last == Min({q \in first..Len(s) : q = Len(s) \/ s[q + 1] \notin Digit})
        n[q \in first..last] == IF q = first THEN 0 ELSE 10 * n[q - 1] + s[q] - 48 IN
    IF last = first THEN no(first)
    ELSE ok(last, mk("number", IF signed /\ s[from + 1] = 45 THEN -n[last] ELSE n[last], <<>>, <<>>))

\* parse_bool() and parse_null(): each tries on where the one before stopped
parse_literal(s, p) ==
    LET t == match(True, s, p)
        f == match(False, s, t.pos)
        z == match(NullWord, s, f.pos) IN
    IF t.ok THEN ok(t.pos, mk("bool", 1, <<>>, <<>>))
    ELSE IF f.ok THEN ok(f.pos, mk("bool", 0, <<>>, <<>>))
    ELSE IF z.ok THEN ok(z.pos, mk("null", 0, <<>>, <<>>))
    ELSE no(z.pos)

\* std::map: members in the order of their keys, a later value replaces
RECURSIVE Less(_, _)
Less(a, b) ==
    /\ b # <<>>
    /\ a = <<>> \/ a[1] < b[1] \/ (a[1] = b[1] /\ Less(Tail(a), Tail(b)))
put(members, key, v) ==
    LET before == SelectSeq(members, LAMBDA m : Less(m.key, key))
        behind == SelectSeq(members, LAMBDA m : Less(key, m.key)) IN
    before \o <<[key |-> key, value |-> v]>> \o behind

RECURSIVE parse(_, _), elements(_, _, _), pairs(_, _, _)

\* Array::parse() behind the '['
elements(s, p, a) ==
    LET v == parse(s, p)
        more == match(<<44>>, s, v.pos)
        got == Append(a, [key |-> <<>>, value |-> v.value])
        end == match(<<93>>, s, IF v.ok THEN more.pos ELSE v.pos) IN
    IF v.ok /\ more.ok THEN elements(s, more.pos, got)
    ELSE IF end.ok THEN ok(end.pos, mk("array", 0, <<>>, IF v.ok THEN got ELSE a))
    ELSE no(end.pos)

\* Object::parse() behind the '{': a key that is missing fails at once
pairs(s, p, a) ==
    LET key == parse_string(s, p)
        colon == match(<<58>>, s, key.pos)
        v == parse(s, colon.pos)
        more == match(<<44>>, s, v.pos)
        got == put(a, key.value.string, v.value)
        end == match(<<125>>, s, IF v.ok THEN more.pos ELSE v.pos) IN
    IF ~key.ok THEN no(key.pos)
    ELSE IF ~colon.ok THEN no(colon.pos)
    ELSE IF v.ok /\ more.ok THEN pairs(s, more.pos, got)
    ELSE IF end.ok THEN ok(end.pos, mk("object", 0, <<>>, IF v.ok THEN got ELSE a))
    ELSE no(end.pos)

\* Value::parse()
parse(s, p) ==
    LET string == parse_string(s, p)
        number == parse_number(s, string.pos)
        literal == parse_literal(s, number.pos)
        open == literal.pos < Len(s) /\ s[literal.pos + 1] = 91
        array == IF open THEN elements(s, literal.pos + 1, <<>>) ELSE no(literal.pos)
        brace == match(<<123>>, s, array.pos) IN
    IF string.ok THEN string
    ELSE IF number.ok THEN number
    ELSE IF literal.ok THEN literal
    ELSE IF array.ok THEN array
    ELSE IF brace.ok THEN pairs(s, brace.pos, <<>>)
    ELSE no(brace.pos)

-----------------------------------------------------------------------------
(* Writing                                                                 *)

join(parts, between) ==
    LET j[i \in 0..Len(parts)] ==
            IF i = 0 THEN <<>> ELSE j[i - 1] \o (IF i = 1 THEN <<>> ELSE between) \o parts[i] IN
    j[Len(parts)]

hex(d) == IF d < 10 THEN 48 + d ELSE 87 + d

\* stream_string()
escaped(c) ==
    CASE c \in {Mark, Escape, 47} -> <<Escape, c>>
      [] c = 8 -> <<Escape, 98>>
      [] c = 12 -> <<Escape, 102>>
      [] c = 10 -> <<Escape, 110>>
      [] c = 13 -> <<Escape, 114>>
      [] c = 9 -> <<Escape, 116>>
      [] c \notin {8, 9, 10, 12, 13} /\ c < 32 ->
             <<Escape, 117, 48, 48, 48, 48, hex(c \div 16), hex(c % 16)>>
      [] OTHER -> <<c>>
stream_string(t) ==
    <<Mark>> \o join([i \in 1..Len(t) |-> escaped(t[i])], <<>>) \o <<Mark>>

RECURSIVE decimal(_)
decimal(n) ==
    IF n < 0 THEN <<45>> \o decimal(-n)
    ELSE IF n < 10 THEN <<48 + n>> ELSE decimal(n \div 10) \o <<48 + (n % 10)>>

RECURSIVE written(_)
written(v) ==
    LET child(i) == written(v.members[i].value)
        pair(i) == stream_string(v.members[i].key) \o <<58, 32>> \o child(i)
        n == Len(v.members) IN
    CASE v.type = "number" -> decimal(v.number)
      [] v.type = "string" -> stream_string(v.string)
      [] v.type = "bool" -> IF v.number = 1 THEN True ELSE False
      [] v.type = "null" -> NullWord
      [] v.type = "array" -> <<91>> \o join([i \in 1..n |-> child(i)], <<44, 32>>) \o <<93>>
      [] v.type = "object" -> <<123>> \o join([i \in 1..n |-> pair(i)], <<44, 32>>) \o <<125>>
      [] OTHER -> <<>>

RECURSIVE nodes(_)
nodes(v) == {v} \cup UNION {nodes(v.members[i].value) : i \in 1..Len(v.members)}
\* size() - 1 of no values is the largest unsigned number
Writable(v) == \A w \in nodes(v) : w.type = "array" => w.members # <<>>

-----------------------------------------------------------------------------
Init ==
    /\ origin = Invalid
    /\ \/ value \in Values /\ text = <<>> /\ reply = "value"
       \/ value = Invalid /\ text \in Documents /\ reply = "text"

\* operator<<
Write ==
    /\ reply = "value"
    /\ IF Writable(value) THEN text' = written(value) /\ reply' = "text"
       ELSE text' = <<>> /\ reply' = "crash"
    /\ origin' = value
    /\ UNCHANGED value

\* Value::parse()
Parse ==
    LET r == parse(text, 0) IN
    /\ reply = "text"
    /\ reply' = IF r.ok THEN "value" ELSE "failed"
    /\ value' = r.value
    /\ UNCHANGED <<text, origin>>

Next == Write \/ Parse

Spec == Init /\ [][Next]_vars

-----------------------------------------------------------------------------
\* What is written and read right: no empty array, which ends in a crash
\* (JSON.cpp:298), no empty object, which is not read again, and no control
\* character that has no letter of its own.
Plain(v) ==
    LET sound(t) == \A i \in 1..Len(t) : t[i] >= 32 \/ t[i] \in {8, 9, 10, 12, 13} IN
    \A w \in nodes(v) :
        /\ w.type \in {"array", "object"} => w.members # <<>>
        /\ sound(w.string)
        /\ \A i \in 1..Len(w.members) : sound(w.members[i].key)

(* A plain value is written, and read back as it was, however it nests and *)
(* whatever its strings hold; the value of a document that was read is     *)
(* written so that it is read again as the same.                           *)
JsonRoundTrips ==
    origin # Invalid /\ Plain(origin) =>
        reply \notin {"failed", "crash"} /\ (reply = "value" => value = origin)
=============================================================================
