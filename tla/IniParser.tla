----------------------------- MODULE IniParser -----------------------------
(***************************************************************************)
(* SRL::App::IniParser: sections of properties, read from a file that      *)
(* others edit, asked for with defaults, and set by the program.  A value  *)
(* is named by its text; Stored is what parsing makes of it.               *)
(***************************************************************************)
EXTENDS Integers, Sequences, FiniteSets

CONSTANTS Sections, Names,
          Texts,       \* values as they are in a file
          Stored,      \* without its quotes, and without what is behind a second '='
          Number,      \* String::Int() of a stored value
          Val,         \* String::Val(), from numbers to values
          Digits,      \* the stored values that are isDigits()
          MaxLines, MaxCalls

Lines == {[kind |-> "section", section |-> s] : s \in Sections}
         \cup {[kind |-> "field", name |-> n, text |-> v] : n \in Names, v \in Texts}
         \cup {[kind |-> "other"]}       \* a comment, or no field
Fields == Sections \X Names
Default == "default"

VARIABLES file,    \* the lines on the disk
          props,   \* _sections and their _properties
          told,    \* history: what the program last put or read for a field
          last,    \* history: the last call and its answer
          calls

vars == <<file, props, told, last, calls>>

NoCall == [op |-> "none"]
none == [f \in {} |-> ""]

Called == calls < MaxCalls /\ calls' = calls + 1

put(ps, f, v) == [g \in DOMAIN ps \cup {f} |-> IF g = f THEN v ELSE ps[g]]

\* One line of reparse().
line(state, l) ==
    CASE l.kind = "section" -> [state EXCEPT !.section = l.section]
      [] l.kind = "field" ->
           [state EXCEPT !.props = put(@, <<state.section, l.name>>, Stored[l.text])]
      [] OTHER -> state

\* reparse() of the lines ls: nothing is cleared before.
reparse(ps, ls) ==
    LET after[k \in 0..Len(ls)] ==
            IF k = 0 THEN [props |-> ps, section |-> Default] ELSE line(after[k - 1], ls[k])
    IN after[Len(ls)].props

\* The constructor reads the file.
Init == /\ file \in UNION {[1..n -> Lines] : n \in 0..MaxLines}
        /\ props = reparse(none, file) /\ told = props /\ last = NoCall /\ calls = 0

Reparse == /\ Called /\ props' = reparse(props, file)
           /\ last' = [op |-> "reparse"] /\ told' = props'
           /\ UNCHANGED file

Clear == /\ Called /\ props' = none /\ told' = none
         /\ last' = [op |-> "clear"] /\ UNCHANGED file

Put(f, v) == /\ Called /\ props' = put(props, f, v) /\ told' = put(told, f, v)
             /\ last' = [op |-> "put"] /\ UNCHANGED file

\* getString(): a default becomes the value.
GetString(f, v) ==
    /\ Called
    /\ props' = IF f \in DOMAIN props THEN props ELSE put(props, f, v)
    /\ last' = [op |-> "string", field |-> f, text |-> props'[f]]
    /\ UNCHANGED <<file, told>>

\* getInteger(): so it does if what is there is no string of digits, and a
\* negative number is none.
GetInteger(f, n) ==
    /\ Called
    /\ props' = IF f \in DOMAIN props /\ props[f] \in Digits THEN props ELSE put(props, f, Val[n])
    /\ last' = [op |-> "integer", field |-> f, default |-> n, answer |-> Number[props'[f]]]
    /\ UNCHANGED <<file, told>>

\* Somebody edits the file.
Edit(ls) == /\ Called /\ ls # file /\ file' = ls
            /\ last' = NoCall /\ UNCHANGED <<props, told>>

Next == \/ Reparse \/ Clear
        \/ \E f \in Fields : \/ \E v \in DOMAIN Number : Put(f, v) \/ GetString(f, v)
                             \/ \E n \in DOMAIN Val : GetInteger(f, n)
        \/ \E n \in 0..MaxLines : \E ls \in [1..n -> Lines] : Edit(ls)

Spec == Init /\ [][Next]_vars

-----------------------------------------------------------------------------
\* The section of the k-th line of the file.
sectionAt(k) ==
    LET heads == {j \in 1..k : file[j].kind = "section"}
    IN IF heads = {} THEN Default ELSE file[CHOOSE j \in heads : \A h \in heads : h <= j].section
linesOf(f) == {k \in 1..Len(file) : /\ file[k].kind = "field"
                                    /\ file[k].name = f[2] /\ sectionAt(k) = f[1]}

(* After reparse() every field of the file has the value of its last line  *)
(* in its section; a question is answered with what was put or read, or    *)
(* with the default, whatever was asked before, except that a default that *)
(* was answered once stays (IniParser.cpp:65-96, 116-141).                 *)
IniRight ==
    /\ last.op = "reparse" =>
        \A f \in Fields : linesOf(f) # {} =>
            f \in DOMAIN props /\ props[f] = Stored[file[CHOOSE k \in linesOf(f) : \A j \in linesOf(f) : j <= k].text]
    /\ last.op = "integer" /\ last.field \in DOMAIN told =>
            \/ last.answer = Number[told[last.field]]
            \/ told[last.field] \notin Digits
    /\ last.op = "string" /\ last.field \in DOMAIN told =>
            last.text = told[last.field] \/ told[last.field] \notin Digits
    /\ last.op = "integer" /\ last.field \notin DOMAIN told =>
            last.answer = last.default \/ props[last.field] \in Digits
=============================================================================
