---------------------------- MODULE CommandLine ----------------------------
(***************************************************************************)
(* A command on its way into a program: Process::_initialize() splits it   *)
(* into arguments at blanks and quotes, and ArgumentParser::parse() of the *)
(* program that is started sorts them into options, their values and the   *)
(* rest.                                                                   *)
(***************************************************************************)
EXTENDS Naturals, Sequences, FiniteSets

CONSTANTS Words,      \* words of a command: [text, quote], quote "" for none
          MaxWords,
          Options     \* what add() was told: [name, keys, hasValue]

VARIABLES words,      \* history: the words the command was made of
          command, pos, arg, delimiter, argv,   \* of _initialize()
          i, parsed, value, rest,               \* of parse()
          pc

splitting == <<command, pos, arg, delimiter, argv>>
parsing == <<i, parsed, value, rest>>
vars == <<words, splitting, parsing, pc>>

NUL == ""
Blank == " "
delimiters == {Blank, "\"", "'", NUL}   \* the loop of get_delimiter() takes the NUL too
char(p) == IF p < Len(command) THEN command[p + 1] ELSE NUL

quoted(w) == IF w.quote = "" THEN w.text ELSE <<w.quote>> \o w.text \o <<w.quote>>
joined[ws \in Seq(Words)] ==
    IF ws = <<>> THEN <<>> ELSE <<Blank>> \o quoted(Head(ws)) \o joined[Tail(ws)]

File == <<"x">>
NoValue == <<>>

Init == /\ words \in UNION {[1..n -> Words] : n \in 0..MaxWords}
        /\ command = File \o joined[words]
        /\ argv = <<File>> /\ pos = Len(File) /\ arg = <<>> /\ delimiter = Blank
        /\ i = 2 /\ parsed = {} /\ rest = <<>> /\ value = [o \in Options |-> NoValue]
        /\ pc = "split"

\* The characters from p on up to delimiter d, the end or a new line.
upTo(p, d) ==
    LET ends == {q \in p..Len(command) : q = Len(command) \/ char(q) \in {d, "\n"}}
    IN CHOOSE q \in ends : \A r \in ends : q <= r

Argument ==
    /\ pc = "split" /\ pos < Len(command)
    /\ LET here == char(pos) \in delimiters
           two == char(pos) = Blank /\ char(pos + 1) \in delimiters
           d == IF two THEN char(pos + 1) ELSE IF here THEN char(pos) ELSE delimiter
           from == pos + (IF here THEN 1 ELSE 0) + (IF two THEN 1 ELSE 0)
           to == IF from < Len(command) THEN upTo(from, d) ELSE from
           a == (IF here THEN <<>> ELSE arg) \o SubSeq(command, from + 1, to)
       IN /\ delimiter' = d /\ arg' = a
          /\ argv' = IF a \in {<<>>, <<Blank>>} THEN argv ELSE Append(argv, a)
          /\ pos' = IF char(to) # Blank THEN to + 1 ELSE to
    /\ UNCHANGED <<words, command, parsing, pc>>

Execute == /\ pc = "split" /\ pos >= Len(command) /\ pc' = "parse"
           /\ UNCHANGED <<words, splitting, parsing>>

Help == {<<"-", "h">>, <<"-", "-", "h">>}

\* findArgByKey(): the keys of two options differ here.
findArgByKey(key) == {o \in Options : key \in o.keys}

\* One pass of the loop of parse(); the value of an option that comes last
\* is argv[argc], a null pointer.
ParseArgument ==
    /\ pc = "parse" /\ i <= Len(argv)
    /\ LET found == findArgByKey(argv[i])
           o == CHOOSE x \in found : TRUE
       IN \/ /\ argv[i] \in Help /\ pc' = "help" /\ UNCHANGED parsing
          \/ /\ argv[i] \notin Help /\ found = {}
             /\ rest' = Append(rest, argv[i]) /\ i' = i + 1 /\ UNCHANGED <<parsed, value, pc>>
          \/ /\ argv[i] \notin Help /\ found # {}
             /\ parsed' = parsed \cup {o}
             /\ IF ~o.hasValue THEN i' = i + 1 /\ UNCHANGED <<value, pc>>
                ELSE IF i = Len(argv) THEN pc' = "crash" /\ UNCHANGED <<value, i>>
                ELSE value' = [value EXCEPT ![o] = argv[i + 1]] /\ i' = i + 2 /\ UNCHANGED pc
             /\ UNCHANGED rest
    /\ UNCHANGED <<words, splitting>>

Finish == /\ pc = "parse" /\ i > Len(argv) /\ pc' = "done"
          /\ UNCHANGED <<words, splitting, parsing>>

Next == Argument \/ Execute \/ ParseArgument \/ Finish

Spec == Init /\ [][Next]_vars

-----------------------------------------------------------------------------
\* What the k-th word is to the program: "key", "value" or "rest"
role[k \in 0..MaxWords] ==
    IF k = 0 \/ k > Len(words) THEN "rest"
    ELSE IF /\ role[k - 1] = "key"
            /\ \E o \in findArgByKey(words[k - 1].text) : o.hasValue THEN "value"
    ELSE IF findArgByKey(words[k].text) # {} THEN "key" ELSE "rest"

(* Words that are one blank apart, with quotes only around whole words,    *)
(* arrive as they were; every one of them is an option, the value of the   *)
(* option before it or left over, in the order of the command, and of      *)
(* several values the last one stays (Process.cpp:99-137,                  *)
(* ArgumentParser.cpp:112-136).                                            *)
CommandLineRight ==
    /\ pc # "split" => argv = <<File>> \o [k \in 1..Len(words) |-> words[k].text]
    /\ pc = "done" =>
        LET left == {k \in 1..Len(words) : role[k] = "rest"} IN
        /\ Len(rest) = Cardinality(left)
        /\ \A k \in left : rest[Cardinality({j \in left : j <= k})] = words[k].text
        /\ \A o \in Options :
             LET uses == {k \in 1..Len(words) : role[k] = "key" /\ words[k].text \in o.keys} IN
             /\ o \in parsed <=> uses # {}
             /\ o.hasValue /\ uses # {} =>
                  value[o] = words[(CHOOSE k \in uses : \A j \in uses : j <= k) + 1].text
=============================================================================
