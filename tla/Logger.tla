------------------------------- MODULE Logger -------------------------------
(***************************************************************************)
(* SRL::Log: the loggers and the outputs they share.  __mutex guards the   *)
(* vector of outputs in GetInstance(), AddOutput() and SetOutput(), but     *)
(* _log() walks the same vector without it, an index at a time, while       *)
(* SetOutput() deletes the outputs in it.  A console or syslog output       *)
(* writes a line under its own mutex; a log file has none and writes a      *)
(* line in two stdio calls.                                                *)
(***************************************************************************)
EXTENDS Integers, SequenceTheorems, TLAPS

CONSTANTS Threads, Names, Priorities, INFO, FATAL, MaxCalls, MaxOutputs, None

VARIABLES outputs,   \* __Outputs: the objects, by the order they were made
          kind,      \* what each object is: "console", "sys" or "file"
          alive,     \* the objects that are not deleted
          mutex,     \* who holds __mutex
          level,     \* _priorityLevel of every logger in __Map
          global,    \* __GlobalPriorityLevel
          pc, at, cur, priority,  \* a thread in _log(): where it is in the walk
          writing,   \* the thread that holds an output's own mutex
          text,      \* what each output was given, in order
          got,       \* lines each output has from the walk a thread is in
          quiet,     \* no output was added or set since that walk began
          given,     \* the output of the last SetOutput()
          calls

vars == <<outputs, kind, alive, mutex, level, global, pc, at, cur, priority,
          writing, text, got, quiet, given, calls>>
walk == <<pc, at, cur, priority, writing, text, got>>

Kinds == {"console", "sys", "file"}
Objects == 1..Len(kind)

\* Does the output's log() hold its own mutex for the whole line?
locks(o) == kind[o] # "file"

Init == /\ outputs = <<>> /\ kind = <<>> /\ alive = {} /\ mutex = None
        /\ level = [n \in {} |-> INFO] /\ global = FATAL
        /\ pc = [t \in Threads |-> "idle"] /\ at = [t \in Threads |-> 0]
        /\ cur = [t \in Threads |-> 0] /\ priority = [t \in Threads |-> INFO]
        /\ writing = <<>> /\ text = <<>>
        /\ got = [t \in Threads |-> <<>>] /\ quiet = [t \in Threads |-> TRUE]
        /\ given = 0 /\ calls = 0

Called == calls < MaxCalls /\ calls' = calls + 1

\* A new output object of kind k joins the vector vs.
create(k, vs) ==
    /\ Len(kind) < MaxOutputs
    /\ kind' = Append(kind, k)
    /\ outputs' = Append(vs, Len(kind) + 1)
    /\ alive' = alive \cup {Len(kind) + 1}
    /\ writing' = Append(writing, None)
    /\ text' = Append(text, <<>>)
    /\ got' = [t \in Threads |-> Append(got[t], 0)]
    /\ quiet' = [t \in Threads |-> FALSE]

\* GetInstance(n): the one logger of that name, and an output if there is none.
GetInstance(t, n) ==
    /\ Called /\ pc[t] = "idle" /\ mutex = None
    /\ level' = IF n \in DOMAIN level THEN level
                ELSE [m \in DOMAIN level \cup {n} |-> IF m = n THEN INFO ELSE level[m]]
    /\ IF outputs = <<>> THEN create("console", outputs)
       ELSE UNCHANGED <<kind, outputs, alive, writing, text, got, quiet>>
    /\ UNCHANGED <<mutex, global, pc, at, cur, priority, given>>

\* AddOutput(), LogFile::Create(), SysLog::Create(), LoggerOutput::Create().
AddOutput(t, k) ==
    /\ Called /\ pc[t] = "idle" /\ mutex = None
    /\ create(k, outputs)
    /\ UNCHANGED <<mutex, level, global, pc, at, cur, priority, given>>

\* SetOutput(): clear(true) deletes the objects, then empties the vector.
SetOutput(t) ==
    /\ Called /\ pc[t] = "idle" /\ mutex = None
    /\ mutex' = t
    /\ alive' = alive \ {outputs[i] : i \in DOMAIN outputs}
    /\ pc' = [pc EXCEPT ![t] = "clear"]
    /\ quiet' = [u \in Threads |-> FALSE]
    /\ UNCHANGED <<outputs, kind, level, global, at, cur, priority, writing,
                   text, got, given>>

SetOutputEmpty(t) ==
    /\ pc[t] = "clear"
    /\ outputs' = <<>>
    /\ pc' = [pc EXCEPT ![t] = "add"]
    /\ UNCHANGED <<kind, alive, mutex, level, global, at, cur, priority,
                   writing, text, got, quiet, given, calls>>

SetOutputAdd(t, k) ==
    /\ pc[t] = "add"
    /\ create(k, outputs)
    /\ given' = Len(kind) + 1
    /\ mutex' = None
    /\ pc' = [pc EXCEPT ![t] = "idle"]
    /\ UNCHANGED <<level, global, at, cur, priority, calls>>

SetPriorityLevel(t, n, p) ==
    /\ Called /\ pc[t] = "idle" /\ n \in DOMAIN level /\ level[n] # p
    /\ level' = [level EXCEPT ![n] = p]
    /\ UNCHANGED <<outputs, kind, alive, mutex, global, walk, quiet, given>>

SetGlobalPriorityLevel(t, p) ==
    /\ Called /\ pc[t] = "idle" /\ global # p
    /\ global' = p
    /\ UNCHANGED <<outputs, kind, alive, mutex, level, walk, quiet, given>>

\* log(p, message) and debug() to fatal(): either level lets the message through.
Log(t, n, p) ==
    /\ Called /\ pc[t] = "idle" /\ n \in DOMAIN level
    /\ p >= level[n] \/ p >= global
    /\ pc' = [pc EXCEPT ![t] = "walk"]
    /\ at' = [at EXCEPT ![t] = 1]
    /\ priority' = [priority EXCEPT ![t] = p]
    /\ got' = [got EXCEPT ![t] = [o \in Objects |-> 0]]
    /\ quiet' = [quiet EXCEPT ![t] = mutex = None]
    /\ UNCHANGED <<outputs, kind, alive, mutex, level, global, cur, writing,
                   text, given>>

\* _log(): the size is read again before every output, then the pointer.
TestSize(t) ==
    /\ pc[t] = "walk"
    /\ pc' = [pc EXCEPT ![t] = IF at[t] <= Len(outputs) THEN "fetch" ELSE "return"]
    /\ UNCHANGED <<outputs, kind, alive, mutex, level, global, at, cur, priority,
                   writing, text, got, quiet, given, calls>>
Fetch(t) ==
    /\ pc[t] = "fetch" /\ at[t] <= Len(outputs)
    /\ cur' = [cur EXCEPT ![t] = outputs[at[t]]]
    /\ pc' = [pc EXCEPT ![t] = "call"]
    /\ UNCHANGED <<outputs, kind, alive, mutex, level, global, at, priority,
                   writing, text, got, quiet, given, calls>>

LineHead_NoMutex(t) ==
    /\ pc[t] = "call" /\ cur[t] \in alive
    /\ text' = [text EXCEPT ![cur[t]] = Append(@, <<t, "head">>)]
    /\ pc' = [pc EXCEPT ![t] = "line"]
    /\ UNCHANGED <<outputs, kind, alive, mutex, level, global, at, cur,
                   priority, writing, got, quiet, given, calls>>

\* The output's log() up to the end of its text.
LineHead(t) ==
    /\ pc[t] = "call" /\ cur[t] \in alive
    /\ locks(cur[t]) => writing[cur[t]] = None
    /\ writing' = IF locks(cur[t]) THEN [writing EXCEPT ![cur[t]] = t] ELSE writing
    /\ text' = [text EXCEPT ![cur[t]] = Append(@, <<t, "head">>)]
    /\ pc' = [pc EXCEPT ![t] = "line"]
    /\ UNCHANGED <<outputs, kind, alive, mutex, level, global, at, cur,
                   priority, got, quiet, given, calls>>

\* The end of the line and, for a log file, commit(); then the next output.
LineEnd(t) ==
    /\ pc[t] = "line" /\ cur[t] \in alive
    /\ writing' = IF locks(cur[t]) THEN [writing EXCEPT ![cur[t]] = None] ELSE writing
    /\ text' = [text EXCEPT ![cur[t]] = Append(@, <<t, "end">>)]
    /\ got' = [got EXCEPT ![t][cur[t]] = @ + 1]
    /\ pc' = [pc EXCEPT ![t] = "walk"]
    /\ at' = [at EXCEPT ![t] = @ + 1]
    /\ UNCHANGED <<outputs, kind, alive, mutex, level, global, cur, priority,
                   quiet, given, calls>>

\* The object was deleted under the walk: what a call on it does is undefined.
\* Or the vector was emptied: get() throws, out of a function that never does.
Stale(t) ==
    /\ \/ pc[t] \in {"call", "line"} /\ cur[t] \notin alive
       \/ pc[t] = "fetch" /\ at[t] > Len(outputs)
    /\ pc' = [pc EXCEPT ![t] = "stale"]
    /\ UNCHANGED <<outputs, kind, alive, mutex, level, global, at, cur,
                   priority, writing, text, got, quiet, given, calls>>

Return(t) ==
    /\ pc[t] = "return"
    /\ pc' = [pc EXCEPT ![t] = "idle"]
    /\ UNCHANGED <<outputs, kind, alive, mutex, level, global, at, cur,
                   priority, writing, text, got, quiet, given, calls>>

Next ==
    \E t \in Threads :
        \/ \E n \in Names : GetInstance(t, n)
        \/ \E k \in Kinds : AddOutput(t, k) \/ SetOutputAdd(t, k)
        \/ SetOutput(t) \/ SetOutputEmpty(t)
        \/ \E n \in Names, p \in Priorities : SetPriorityLevel(t, n, p) \/ Log(t, n, p)
        \/ \E p \in Priorities : SetGlobalPriorityLevel(t, p)
        \/ TestSize(t) \/ Fetch(t) \/ LineHead(t) \/ LineEnd(t) \/ Stale(t) \/ Return(t)

Spec == Init /\ [][Next]_vars

-----------------------------------------------------------------------------
\* In the text s every end of a line follows the head by the same thread.
whole(s) ==
    \A i \in DOMAIN s : s[i][2] = "end" => i > 1 /\ s[i - 1] = <<s[i][1], "head">>

\* On an output with a mutex the text of two threads never mixes within a line
\* (LoggerOutput::log, SysLog::log).
LinesWhole == \A o \in Objects : locks(o) => whole(text[o])

\* A log() during which no output is added or set gives its message to every
\* output exactly once (the walk of Logger::_log).
Delivered ==
    \A t \in Threads : pc[t] = "return" /\ quiet[t] =>
        \A i \in DOMAIN outputs : got[t][outputs[i]] = 1

\* SetOutput() replaces whatever was there: the output it gave stays the first,
\* no default console is made in the moment the vector is empty.
SetOutputWins == given # 0 /\ mutex = None => outputs[1] = given

\* What the constants may be.
Parameters == None \notin Threads

(* Lines of two threads never mix on an output that has a mutex, a message *)
(* reaches every output once unless the outputs change meanwhile, and the  *)
(* one that SetOutput() gave is the first (Logger.cpp:150-400).            *)
LoggerRight == Parameters /\ LinesWhole /\ Delivered /\ SetOutputWins

-----------------------------------------------------------------------------
(* Proof.  What a walk has delivered is where it is in the vector, as long *)
(* as nobody touches the vector; the last text of an output with a mutex   *)
(* is the head of whoever is in its line; and the output SetOutput() gave  *)
(* stays in front because whoever empties the vector holds __mutex.        *)

Labels == {"idle", "clear", "add", "walk", "fetch", "call", "line", "return", "stale"}
Texts == Seq(Threads \X {"head", "end"})

Typed ==
    /\ kind \in Seq(Kinds) /\ outputs \in Seq(Objects)
    /\ text \in Seq(Texts) /\ Len(text) = Len(kind)
    /\ writing \in Seq(Threads \cup {None}) /\ Len(writing) = Len(kind)
    /\ got \in [Threads -> Seq(Nat)] /\ \A t \in Threads : Len(got[t]) = Len(kind)
    /\ mutex \in Threads \cup {None} /\ pc \in [Threads -> Labels]
    /\ at \in [Threads -> Nat] /\ cur \in [Threads -> Nat]
    /\ quiet \in [Threads -> BOOLEAN]

\* Whoever changes the vector in steps holds __mutex, and has emptied it.
Guarded ==
    /\ \A t \in Threads : pc[t] \in {"clear", "add"} => mutex = t
    /\ \A t \in Threads : pc[t] = "add" => outputs = <<>>

\* Where a walk is, and that it is about an output there has been.
Walking ==
    \A t \in Threads :
        /\ pc[t] \in {"walk", "fetch", "call", "line"} => at[t] > 0
        /\ pc[t] \in {"call", "line"} => cur[t] \in Objects

\* Whoever is in a line of an output with a mutex holds it, and wrote last.
Heads ==
    \A t \in Threads : pc[t] = "line" /\ locks(cur[t]) =>
        LET s == text[cur[t]] IN
        writing[cur[t]] = t /\ s # <<>> /\ s[Len(s)] = <<t, "head">>

\* No output is twice in the vector.
Distinct == \A i, j \in DOMAIN outputs : outputs[i] = outputs[j] => i = j

\* An undisturbed walk has given its message to the outputs behind it.
Counts ==
    \A t \in Threads : quiet[t] /\ pc[t] \in {"walk", "fetch", "call", "line", "return"} =>
        /\ mutex = None
        /\ pc[t] # "return" =>
             \A i \in DOMAIN outputs : got[t][outputs[i]] = IF i < at[t] THEN 1 ELSE 0
        /\ pc[t] \in {"fetch", "call", "line"} => at[t] \in DOMAIN outputs
        /\ pc[t] \in {"call", "line"} => cur[t] = outputs[at[t]]

InFront == given # 0 /\ mutex = None => outputs # <<>>

LoggerInv ==
    /\ Typed /\ Guarded /\ Walking /\ Heads /\ Distinct /\ Counts /\ InFront
    /\ LinesWhole /\ Delivered /\ SetOutputWins

(* A list with one element written over.                                   *)
LEMMA Written ==
    ASSUME NEW S, NEW s \in Seq(S), NEW i \in 1..Len(s), NEW e \in S, NEW w, w = [s EXCEPT ![i] = e]
    PROVE  /\ w \in Seq(S) /\ Len(w) = Len(s) /\ w[i] = e
           /\ \A j \in 1..Len(s) : j # i => w[j] = s[j]
BY ExceptSeq

(* A head leaves a whole text whole, and so does the end of the last line. *)
LEMMA HeadKeeps ==
    ASSUME NEW s \in Texts, NEW t \in Threads, whole(s)
    PROVE  whole(Append(s, <<t, "head">>))
<1>1. PICK n \in Nat : n = Len(s)
  BY LenProperties DEF Texts
<1>2. PICK r : r = Append(s, <<t, "head">>)
  OBVIOUS
<1>3. /\ DOMAIN r = 1..(n + 1) /\ DOMAIN s = 1..n
      /\ \A i \in 1..n : r[i] = s[i]
      /\ r[n + 1] = <<t, "head">>
  BY <1>1, <1>2 DEF Texts
<1>4. ASSUME NEW i \in 1..(n + 1), r[i][2] = "end"
      PROVE  i > 1 /\ r[i - 1] = <<r[i][1], "head">>
  <2>1. i # n + 1
    <3>1. (<<t, "head">>)[2] = "head"
      OBVIOUS
    <3> QED BY <1>3, <1>4, <3>1
  <2>2. i \in 1..n
    BY <2>1
  <2>3. i > 1 /\ s[i - 1] = <<s[i][1], "head">>
    BY <1>3, <1>4, <2>2 DEF whole
  <2>4. i - 1 \in 1..n
    BY <2>2, <2>3
  <2> QED BY <1>3, <2>2, <2>3, <2>4
<1>5. whole(r)
  BY <1>3, <1>4 DEF whole
<1> QED BY <1>2, <1>5

LEMMA EndKeeps ==
    ASSUME NEW s \in Texts, NEW t \in Threads, whole(s), s # <<>>, s[Len(s)] = <<t, "head">>
    PROVE  whole(Append(s, <<t, "end">>))
<1>1. PICK n \in Nat : n = Len(s) /\ n > 0
  BY LenProperties, EmptySeq DEF Texts
<1>2. PICK r : r = Append(s, <<t, "end">>)
  OBVIOUS
<1>3. /\ DOMAIN r = 1..(n + 1) /\ DOMAIN s = 1..n
      /\ \A i \in 1..n : r[i] = s[i]
      /\ r[n + 1] = <<t, "end">>
  BY <1>1, <1>2 DEF Texts
<1>4. ASSUME NEW i \in 1..(n + 1), r[i][2] = "end"
      PROVE  i > 1 /\ r[i - 1] = <<r[i][1], "head">>
  <2>1. CASE i = n + 1
    <3>1. i > 1 /\ i - 1 = n /\ n \in 1..n
      BY <1>1, <2>1
    <3>2. r[i][1] = t
      BY <1>3, <2>1
    <3>3. r[i - 1] = <<t, "head">>
      BY <1>1, <1>3, <3>1
    <3> QED BY <3>1, <3>2, <3>3
  <2>2. CASE i # n + 1
    <3>1. i \in 1..n
      BY <2>2
    <3>2. i > 1 /\ s[i - 1] = <<s[i][1], "head">>
      BY <1>3, <1>4, <3>1 DEF whole
    <3>3. i - 1 \in 1..n
      BY <3>1, <3>2
    <3> QED BY <1>3, <3>1, <3>2, <3>3
  <2> QED BY <2>1, <2>2
<1>5. whole(r)
  BY <1>3, <1>4 DEF whole
<1> QED BY <1>2, <1>5

(* Calls that leave the walks and the outputs alone.                       *)
LEMMA Same ==
    ASSUME LoggerInv,
           UNCHANGED <<outputs, kind, mutex, pc, at, cur, writing, text, got, quiet, given>>
    PROVE  LoggerInv'
<1>1. Typed' /\ Guarded' /\ Walking' /\ Heads'
  BY DEF LoggerInv, Typed, Guarded, Walking, Heads, Objects, locks
<1>2. Distinct' /\ Counts' /\ InFront'
  BY DEF LoggerInv, Distinct, Counts, InFront
<1>3. LinesWhole' /\ Delivered' /\ SetOutputWins'
  BY DEF LoggerInv, LinesWhole, Delivered, SetOutputWins, Objects, locks, whole
<1> QED BY <1>1, <1>2, <1>3 DEF LoggerInv

(* What create() leaves: one output more, everything else as it was.       *)
LEMMA Created ==
    ASSUME Typed, NEW k \in Kinds, create(k, outputs)
    PROVE  /\ Len(kind) \in Nat /\ Len(outputs) \in Nat
           /\ kind' \in Seq(Kinds) /\ Len(kind') = Len(kind) + 1
           /\ \A o \in Objects : kind'[o] = kind[o]
           /\ outputs' \in Seq(1..(Len(kind) + 1)) /\ Len(outputs') = Len(outputs) + 1
           /\ \A i \in DOMAIN outputs : outputs'[i] = outputs[i]
           /\ outputs'[Len(outputs) + 1] = Len(kind) + 1
           /\ text' \in Seq(Texts) /\ Len(text') = Len(kind) + 1
           /\ \A o \in Objects : text'[o] = text[o]
           /\ text'[Len(kind) + 1] = <<>>
           /\ writing' \in Seq(Threads \cup {None}) /\ Len(writing') = Len(kind) + 1
           /\ \A o \in Objects : writing'[o] = writing[o]
           /\ got' \in [Threads -> Seq(Nat)]
           /\ \A t \in Threads : Len(got'[t]) = Len(kind) + 1
           /\ quiet' = [t \in Threads |-> FALSE]
<1>1. PICK n \in Nat, m \in Nat : n = Len(kind) /\ m = Len(outputs)
  BY LenProperties DEF Typed
<1>2. /\ kind' \in Seq(Kinds) /\ Len(kind') = n + 1
      /\ \A o \in 1..n : kind'[o] = kind[o]
  BY <1>1, AppendProperties DEF create, Typed
<1>3. /\ outputs' \in Seq(1..(n + 1)) /\ Len(outputs') = m + 1
      /\ \A i \in 1..m : outputs'[i] = outputs[i]
      /\ outputs'[m + 1] = n + 1
  <2>1. outputs' = Append(outputs, n + 1)
    BY <1>1 DEF create
  <2>2. outputs \in Seq(1..n)
    BY <1>1 DEF Typed, Objects
  <2>3. outputs \in Seq(1..(n + 1))
    <3>1. \A i \in 1..m : outputs[i] \in 1..(n + 1)
      BY <1>1, <2>2, ElementOfSeq
    <3>2. outputs \in [1..m -> 1..(n + 1)]
      BY <1>1, <2>2, <3>1, LenProperties
    <3> QED BY <3>2, SeqDef
  <2> QED BY <1>1, <2>1, <2>3, AppendProperties
<1>4. /\ text' \in Seq(Texts) /\ Len(text') = n + 1 /\ text'[n + 1] = <<>>
      /\ \A o \in 1..n : text'[o] = text[o]
  <2>1. <<>> \in Texts
    BY EmptySeq DEF Texts
  <2> HIDE DEF Texts
  <2> QED BY <1>1, <2>1, AppendProperties DEF create, Typed
<1>5. /\ writing' \in Seq(Threads \cup {None}) /\ Len(writing') = n + 1
      /\ \A o \in 1..n : writing'[o] = writing[o]
  BY <1>1, AppendProperties DEF create, Typed
<1>6. /\ got' \in [Threads -> Seq(Nat)]
      /\ \A t \in Threads : Len(got'[t]) = n + 1
  <2>1. \A t \in Threads : got[t] \in Seq(Nat) /\ Len(got[t]) = n
    BY <1>1 DEF Typed
  <2>2. \A t \in Threads : Append(got[t], 0) \in Seq(Nat) /\ Len(Append(got[t], 0)) = n + 1
    BY <2>1, AppendProperties
  <2>3. got' = [t \in Threads |-> Append(got[t], 0)]
    BY DEF create
  <2> QED BY <2>2, <2>3
<1>7. quiet' = [t \in Threads |-> FALSE]
  BY DEF create
<1>8. DOMAIN outputs = 1..m
  BY <1>1 DEF Typed
<1> QED BY <1>1, <1>2, <1>3, <1>4, <1>5, <1>6, <1>7, <1>8 DEF Objects

(* GetInstance(), AddOutput() and the end of SetOutput() make an output    *)
(* while nobody is between the emptying and the filling of the vector.     *)
LEMMA CreateKeeps ==
    ASSUME LoggerInv, NEW k \in Kinds, create(k, outputs), UNCHANGED <<at, cur>>,
           mutex' = None, pc' \in [Threads -> Labels],
           \A t \in Threads : pc'[t] = pc[t] \/ pc'[t] = "idle",
           \A t \in Threads : pc'[t] \notin {"clear", "add"},
           \/ given' = 0
           \/ given' = given /\ outputs # <<>> /\ outputs[1] = given
           \/ given' = Len(kind) + 1 /\ outputs = <<>>
    PROVE  LoggerInv'
<1>1. /\ Len(kind) \in Nat /\ Len(outputs) \in Nat
      /\ kind' \in Seq(Kinds) /\ Len(kind') = Len(kind) + 1
      /\ \A o \in Objects : kind'[o] = kind[o]
      /\ outputs' \in Seq(1..(Len(kind) + 1)) /\ Len(outputs') = Len(outputs) + 1
      /\ \A i \in DOMAIN outputs : outputs'[i] = outputs[i]
      /\ outputs'[Len(outputs) + 1] = Len(kind) + 1
      /\ text' \in Seq(Texts) /\ Len(text') = Len(kind) + 1
      /\ \A o \in Objects : text'[o] = text[o]
      /\ text'[Len(kind) + 1] = <<>>
      /\ writing' \in Seq(Threads \cup {None}) /\ Len(writing') = Len(kind) + 1
      /\ \A o \in Objects : writing'[o] = writing[o]
      /\ got' \in [Threads -> Seq(Nat)]
      /\ \A t \in Threads : Len(got'[t]) = Len(kind) + 1
      /\ quiet' = [t \in Threads |-> FALSE]
  BY Created DEF LoggerInv
<1>2. /\ Objects' = 1..(Len(kind) + 1) /\ Objects = 1..Len(kind)
      /\ \A o \in Objects' : o \in Objects \/ o = Len(kind) + 1
  BY <1>1 DEF Objects
<1>3. DOMAIN outputs = 1..Len(outputs) /\ \A i \in DOMAIN outputs : outputs[i] \in Objects
  <2>1. outputs \in Seq(Objects)
    BY DEF LoggerInv, Typed
  <2> QED BY <2>1, LenProperties, ElementOfSeq
<1>4. Typed'
  <2>1. outputs' \in Seq(Objects')
    BY <1>1, <1>2, Zenon
  <2>2. Len(kind') = Len(kind) + 1 /\ Len(text') = Len(kind') /\ Len(writing') = Len(kind')
        /\ \A t \in Threads : Len(got'[t]) = Len(kind')
    BY <1>1, Zenon
  <2>3. at' \in [Threads -> Nat] /\ cur' \in [Threads -> Nat]
    BY DEF LoggerInv, Typed
  <2>4. quiet' \in [Threads -> BOOLEAN] /\ mutex' \in Threads \cup {None}
    BY <1>1
  <2>5. kind' \in Seq(Kinds) /\ text' \in Seq(Texts) /\ writing' \in Seq(Threads \cup {None})
        /\ got' \in [Threads -> Seq(Nat)]
    BY <1>1, Zenon
  <2> QED BY <2>1, <2>2, <2>3, <2>4, <2>5, Zenon DEF Typed
<1>5. Guarded'
  BY DEF Guarded
<1>6. Walking'
  <2> SUFFICES ASSUME NEW t \in Threads
               PROVE  /\ pc'[t] \in {"walk", "fetch", "call", "line"} => at'[t] > 0
                      /\ pc'[t] \in {"call", "line"} => cur'[t] \in Objects'
    BY DEF Walking
  <2>1. pc'[t] # "idle" => pc'[t] = pc[t]
    OBVIOUS
  <2>2. Objects \subseteq Objects'
    BY <1>1, <1>2
  <2> QED BY <2>1, <2>2 DEF LoggerInv, Walking
<1>7. Heads'
  <2> SUFFICES ASSUME NEW t \in Threads, pc'[t] = "line", locks(cur[t])'
               PROVE  LET s == text'[cur[t]] IN
                      writing'[cur[t]] = t /\ s # <<>> /\ s[Len(s)] = <<t, "head">>
    BY DEF Heads
  <2>1. pc[t] = "line" /\ cur[t] \in Objects /\ cur'[t] = cur[t]
    BY DEF LoggerInv, Walking
  <2>2. kind'[cur[t]] = kind[cur[t]] /\ text'[cur[t]] = text[cur[t]] /\ writing'[cur[t]] = writing[cur[t]]
    BY <1>1, <2>1
  <2>3. locks(cur[t])
    BY <2>1, <2>2 DEF locks
  <2> QED BY <2>1, <2>2, <2>3, Zenon DEF LoggerInv, Heads
<1>8. Distinct'
  <2>1. DOMAIN outputs' = 1..(Len(outputs) + 1)
    BY <1>1
  <2> SUFFICES ASSUME NEW i \in 1..(Len(outputs) + 1), NEW j \in 1..(Len(outputs) + 1),
                      outputs'[i] = outputs'[j]
               PROVE  i = j
    BY <2>1 DEF Distinct
  <2>2. \A h \in 1..(Len(outputs) + 1) :
           \/ h \in DOMAIN outputs /\ outputs'[h] = outputs[h] /\ outputs[h] # Len(kind) + 1
           \/ h = Len(outputs) + 1 /\ outputs'[h] = Len(kind) + 1
    <3>1. \A o \in Objects : o # Len(kind) + 1
      BY <1>1, <1>2
    <3>2. \A h \in 1..(Len(outputs) + 1) : h \in DOMAIN outputs \/ h = Len(outputs) + 1
      BY <1>1, <1>3
    <3> QED BY <1>1, <1>3, <3>1, <3>2, Zenon
  <2> QED BY <2>2 DEF LoggerInv, Distinct
<1>9. Counts' /\ Delivered'
  BY <1>1 DEF Counts, Delivered
<1>10. InFront' /\ SetOutputWins'
  <2>1. outputs' # <<>>
    <3>1. PICK n \in Nat : n = Len(outputs')
      BY <1>1
    <3>2. Len(outputs') # 0
      BY <1>1
    <3> QED BY <3>2, EmptySeq
  <2>2. given' # 0 => outputs'[1] = given'
    <3>1. CASE given' = given /\ outputs # <<>> /\ outputs[1] = given
      <4>1. 1 \in DOMAIN outputs
        BY <3>1, EmptySeq DEF LoggerInv, Typed
      <4> QED BY <1>1, <3>1, <4>1
    <3>2. CASE given' = Len(kind) + 1 /\ outputs = <<>>
      <4>1. Len(outputs) = 0
        BY <3>2, EmptySeq
      <4> QED BY <1>1, <3>2, <4>1
    <3> QED BY <3>1, <3>2
  <2> QED BY <2>1, <2>2 DEF InFront, SetOutputWins
<1>11. LinesWhole'
  <2> SUFFICES ASSUME NEW o \in Objects', locks(o)' PROVE whole(text'[o])
    BY DEF LinesWhole, whole
  <2>1. CASE o \in Objects
    <3>1. locks(o) /\ text'[o] = text[o]
      BY <1>1, <2>1 DEF locks
    <3>2. whole(text[o])
      BY <2>1, <3>1 DEF LoggerInv, LinesWhole
    <3> QED BY <3>1, <3>2
  <2>2. CASE o = Len(kind) + 1
    <3>1. text'[o] = <<>>
      BY <1>1, <2>2
    <3> QED BY <3>1 DEF whole
  <2> QED BY <1>2, <2>1, <2>2
<1> QED BY <1>4, <1>5, <1>6, <1>7, <1>8, <1>9, <1>10, <1>11 DEF LoggerInv

(* SetOutput() and what follows it under __mutex.                          *)
LEMMA SetKeeps ==
    ASSUME Parameters, LoggerInv, NEW t \in Threads, SetOutput(t) \/ SetOutputEmpty(t)
    PROVE  LoggerInv'
<1>0. /\ t # None /\ mutex' = t /\ pc' \in [Threads -> Labels]
      /\ pc'[t] \in {"clear", "add"} /\ \A u \in Threads : u # t => pc'[u] = pc[u]
      /\ \A u \in Threads : pc[u] \in {"clear", "add"} => u = t
      /\ UNCHANGED <<kind, at, cur, writing, text, got, given>>
  BY DEF SetOutput, SetOutputEmpty, walk, Called, Parameters, LoggerInv, Typed, Guarded, Labels
<1>1. /\ pc'[t] = "add" => outputs' = <<>>
      /\ outputs' = outputs \/ outputs' = <<>>
      /\ quiet' \in [Threads -> BOOLEAN]
      /\ \A u \in Threads : quiet'[u] => ~(pc'[u] \in {"walk", "fetch", "call", "line", "return"})
  <2>1. CASE SetOutput(t)
    BY <1>0, <2>1 DEF SetOutput, LoggerInv, Typed
  <2>2. CASE SetOutputEmpty(t)
    BY <1>0, <2>2 DEF SetOutputEmpty, LoggerInv, Typed, Guarded, Counts
  <2> QED BY <2>1, <2>2
<1>2. Typed'
  <2>1. outputs' \in Seq(Objects')
    BY <1>0, <1>1, EmptySeq DEF LoggerInv, Typed, Objects
  <2> QED BY <1>0, <1>1, <2>1 DEF LoggerInv, Typed
<1>3. Guarded'
  BY <1>0, <1>1 DEF Guarded
<1>4. Walking' /\ Heads'
  <2>1. \A u \in Threads : pc'[u] \in {"walk", "fetch", "call", "line"} => pc[u] = pc'[u]
    BY <1>0
  <2>2. Walking'
    BY <1>0, <2>1 DEF LoggerInv, Walking, Objects
  <2>3. Heads'
    BY <1>0, <2>1 DEF LoggerInv, Heads, locks
  <2> QED BY <2>2, <2>3
<1>5. Distinct'
  BY <1>1 DEF LoggerInv, Distinct
<1>6. Counts' /\ Delivered'
  BY <1>1 DEF Counts, Delivered
<1>7. InFront' /\ SetOutputWins'
  BY <1>0 DEF InFront, SetOutputWins
<1>8. LinesWhole'
  BY <1>0 DEF LoggerInv, LinesWhole, Objects, locks, whole
<1> QED BY <1>2, <1>3, <1>4, <1>5, <1>6, <1>7, <1>8 DEF LoggerInv

(* log() begins its walk with nothing delivered.                           *)
LEMMA LogKeeps ==
    ASSUME LoggerInv, NEW t \in Threads, NEW n \in Names, NEW p \in Priorities, Log(t, n, p)
    PROVE  LoggerInv'
<1>1. /\ pc[t] = "idle" /\ pc' = [pc EXCEPT ![t] = "walk"] /\ at' = [at EXCEPT ![t] = 1]
      /\ got' = [got EXCEPT ![t] = [o \in Objects |-> 0]]
      /\ quiet' = [quiet EXCEPT ![t] = mutex = None]
      /\ UNCHANGED <<outputs, kind, mutex, cur, writing, text, given>>
  BY DEF Log, Called
<1>2. Typed'
  <2>1. Len(kind) \in Nat
    BY LenProperties DEF LoggerInv, Typed
  <2>2. PICK z : z = [o \in Objects |-> 0]
    OBVIOUS
  <2>3. z \in [1..Len(kind) -> Nat]
    BY <2>1, <2>2 DEF Objects
  <2>4. z \in Seq(Nat)
    BY <2>1, <2>3, SeqDef
  <2>5. Len(z) = Len(kind)
    BY <2>1, <2>3, <2>4
  <2>6. got' = [got EXCEPT ![t] = z]
    BY <1>1, <2>2
  <2>7. got' \in [Threads -> Seq(Nat)] /\ \A u \in Threads : Len(got'[u]) = Len(kind')
    BY <1>1, <2>4, <2>5, <2>6 DEF LoggerInv, Typed
  <2>8. Objects' = Objects
    BY <1>1 DEF Objects
  <2>9. pc' \in [Threads -> Labels] /\ at' \in [Threads -> Nat] /\ quiet' \in [Threads -> BOOLEAN]
    BY <1>1 DEF LoggerInv, Typed, Labels
  <2> QED BY <1>1, <2>7, <2>8, <2>9 DEF LoggerInv, Typed
<1>3. /\ pc'[t] = "walk" /\ at'[t] = 1 /\ (quiet'[t] => mutex = None)
      /\ \A o \in Objects : got'[t][o] = 0
      /\ \A u \in Threads : u # t => /\ pc'[u] = pc[u] /\ at'[u] = at[u] /\ got'[u] = got[u]
                                     /\ quiet'[u] = quiet[u]
  BY <1>1 DEF LoggerInv, Typed
<1>4. Guarded' /\ Walking' /\ Heads'
  BY <1>1, <1>3 DEF LoggerInv, Guarded, Walking, Heads, Objects, locks
<1>5. \A i \in DOMAIN outputs : i \in Nat /\ i > 0 /\ outputs[i] \in Objects
  <2>1. outputs \in Seq(Objects)
    BY DEF LoggerInv, Typed
  <2> QED BY <2>1, LenProperties, ElementOfSeq
<1>6. Counts'
  <2> SUFFICES ASSUME NEW u \in Threads, quiet'[u], pc'[u] \in {"walk", "fetch", "call", "line", "return"}
               PROVE  /\ mutex' = None
                      /\ pc'[u] # "return" =>
                           \A i \in DOMAIN outputs' : got'[u][outputs'[i]] = IF i < at'[u] THEN 1 ELSE 0
                      /\ pc'[u] \in {"fetch", "call", "line"} => at'[u] \in DOMAIN outputs'
                      /\ pc'[u] \in {"call", "line"} => cur'[u] = outputs'[at'[u]]
    BY DEF Counts
  <2>1. CASE u = t
    BY <1>1, <1>3, <1>5, <2>1
  <2>2. CASE u # t
    BY <1>1, <1>3, <2>2 DEF LoggerInv, Counts
  <2> QED BY <2>1, <2>2
<1>7. Delivered'
  BY <1>1, <1>3 DEF LoggerInv, Delivered
<1>8. Distinct' /\ InFront' /\ SetOutputWins' /\ LinesWhole'
  BY <1>1 DEF LoggerInv, Distinct, InFront, SetOutputWins, LinesWhole, Objects, locks, whole
<1> QED BY <1>2, <1>4, <1>6, <1>7, <1>8 DEF LoggerInv

(* A thread finds whether there is another output, and then reads it.      *)
LEMMA FetchKeeps ==
    ASSUME LoggerInv, NEW t \in Threads, TestSize(t) \/ Fetch(t)
    PROVE  LoggerInv'
<1>1. /\ at[t] \in Nat /\ at[t] > 0
      /\ pc' \in [Threads -> Labels] /\ cur' \in [Threads -> Nat]
      /\ \A u \in Threads : u # t => pc'[u] = pc[u] /\ cur'[u] = cur[u]
      /\ UNCHANGED <<outputs, kind, mutex, at, writing, text, got, quiet, given>>
      /\ \/ pc[t] = "walk" /\ pc'[t] = "fetch" /\ at[t] <= Len(outputs)
         \/ pc[t] = "walk" /\ pc'[t] = "return" /\ ~(at[t] <= Len(outputs))
         \/ pc[t] = "fetch" /\ pc'[t] = "call" /\ at[t] <= Len(outputs) /\ cur'[t] = outputs[at[t]]
  <2>1. /\ at[t] \in Nat /\ at[t] > 0 /\ cur \in [Threads -> Nat] /\ pc \in [Threads -> Labels]
        /\ UNCHANGED <<outputs, kind, mutex, at, writing, text, got, quiet, given>>
    BY DEF TestSize, Fetch, LoggerInv, Typed, Walking
  <2>2. CASE TestSize(t)
    BY <2>1, <2>2 DEF TestSize, Labels
  <2>3. CASE Fetch(t)
    <3>1. outputs \in Seq(Objects) /\ Objects \subseteq Nat
      BY DEF LoggerInv, Typed, Objects
    <3>2. outputs[at[t]] \in Nat
      <4>1. at[t] \in 1..Len(outputs)
        BY <2>1, <2>3, <3>1, LenProperties DEF Fetch
      <4> QED BY <3>1, <4>1, ElementOfSeq
    <3> QED BY <2>1, <2>3, <3>2 DEF Fetch, Labels
  <2> QED BY <2>2, <2>3
<1>2. Typed'
  BY <1>1 DEF LoggerInv, Typed, Objects
<1>3. /\ DOMAIN outputs = 1..Len(outputs) /\ Len(outputs) \in Nat
      /\ \A i \in DOMAIN outputs : outputs[i] \in Objects
  <2>1. outputs \in Seq(Objects)
    BY DEF LoggerInv, Typed
  <2> QED BY <2>1, LenProperties, ElementOfSeq
<1>4. Guarded' /\ Heads'
  <2>1. Guarded'
    BY <1>1 DEF LoggerInv, Guarded
  <2>2. \A u \in Threads : pc'[u] = "line" => pc[u] = "line" /\ cur'[u] = cur[u]
    BY <1>1
  <2>3. Heads'
    <3>1. Heads /\ text' = text /\ writing' = writing /\ kind' = kind
      BY <1>1 DEF LoggerInv
    <3> SUFFICES ASSUME NEW u \in Threads, pc'[u] = "line", locks(cur[u])'
                 PROVE  LET r == text'[cur[u]] IN
                        writing'[cur[u]] = u /\ r # <<>> /\ r[Len(r)] = <<u, "head">>
      BY <2>2 DEF Heads
    <3>2. pc[u] = "line" /\ locks(cur[u])
      BY <2>2, <3>1 DEF locks
    <3> QED BY <3>1, <3>2, Zenon DEF Heads
  <2> QED BY <2>1, <2>3
<1>5. Walking'
  BY <1>1, <1>3 DEF LoggerInv, Walking, Objects
<1>6. Counts'
  <2> SUFFICES ASSUME NEW u \in Threads, quiet'[u], pc'[u] \in {"walk", "fetch", "call", "line", "return"}
               PROVE  /\ mutex' = None
                      /\ pc'[u] # "return" =>
                           \A i \in DOMAIN outputs' : got'[u][outputs'[i]] = IF i < at'[u] THEN 1 ELSE 0
                      /\ pc'[u] \in {"fetch", "call", "line"} => at'[u] \in DOMAIN outputs'
                      /\ pc'[u] \in {"call", "line"} => cur'[u] = outputs'[at'[u]]
    BY DEF Counts
  <2>1. CASE u = t
    BY <1>1, <1>3, <2>1 DEF LoggerInv, Counts
  <2>2. CASE u # t
    BY <1>1, <2>2 DEF LoggerInv, Counts
  <2> QED BY <2>1, <2>2
<1>7. Delivered'
  <2> SUFFICES ASSUME NEW u \in Threads, pc'[u] = "return", quiet'[u], NEW i \in DOMAIN outputs'
               PROVE  got'[u][outputs'[i]] = 1
    BY DEF Delivered
  <2>1. CASE u = t
    <3>1. quiet[t] /\ got'[t] = got[t] /\ outputs' = outputs /\ i < at[t]
      BY <1>1, <1>3, <2>1
    <3> QED BY <1>1, <2>1, <3>1 DEF LoggerInv, Counts
  <2>2. CASE u # t
    BY <1>1, <2>2 DEF LoggerInv, Delivered
  <2> QED BY <2>1, <2>2
<1>8. Distinct' /\ InFront' /\ SetOutputWins' /\ LinesWhole'
  BY <1>1 DEF LoggerInv, Distinct, InFront, SetOutputWins, LinesWhole, Objects, locks, whole
<1> QED BY <1>2, <1>4, <1>5, <1>6, <1>7, <1>8 DEF LoggerInv

(* The head of a line: with a mutex, nobody else is in one.                *)
LEMMA HeadStep ==
    ASSUME Parameters, LoggerInv, NEW t \in Threads, LineHead(t)
    PROVE  LoggerInv'
<1> DEFINE o == cur[t]
<1>1. /\ pc[t] = "call" /\ o \in Objects /\ o \in 1..Len(kind) /\ text[o] \in Texts
      /\ (locks(o) => writing[o] = None /\ writing' = [writing EXCEPT ![o] = t])
      /\ (~locks(o) => writing' = writing)
      /\ text' = [text EXCEPT ![o] = Append(text[o], <<t, "head">>)]
      /\ UNCHANGED <<outputs, kind, mutex, at, cur, got, quiet, given>>
  <2>1. pc[t] = "call" /\ o \in Objects
    BY DEF LineHead, LoggerInv, Walking
  <2>2. text[o] \in Texts
    BY <2>1, ElementOfSeq DEF LoggerInv, Typed, Objects
  <2> QED BY <2>1, <2>2 DEF LineHead, Objects
<1>2. /\ pc' \in [Threads -> Labels] /\ pc'[t] = "line"
      /\ \A u \in Threads : u # t => pc'[u] = pc[u]
  BY DEF LineHead, LoggerInv, Typed, Labels
<1>3. PICK s \in Texts : s = Append(text[o], <<t, "head">>) /\ s # <<>> /\ s[Len(s)] = <<t, "head">>
                         /\ (whole(text[o]) => whole(s))
  <2>1. PICK r \in Texts : r = text[o]
    BY <1>1
  <2>2. <<t, "head">> \in Threads \X {"head", "end"}
    OBVIOUS
  <2>3. PICK n \in Nat : n = Len(r)
    BY LenProperties DEF Texts
  <2>4. /\ Append(r, <<t, "head">>) \in Texts /\ Len(Append(r, <<t, "head">>)) = n + 1
        /\ Append(r, <<t, "head">>)[n + 1] = <<t, "head">>
    BY <2>2, <2>3, AppendProperties DEF Texts
  <2>5. Append(r, <<t, "head">>) # <<>>
    <3>1. PICK w : w = Append(r, <<t, "head">>)
      OBVIOUS
    <3>2. Len(w) = n + 1
      BY <2>4, <3>1
    <3>3. w # <<>>
      BY <3>2, EmptySeq
    <3> QED BY <3>1, <3>3
  <2>6. whole(r) => whole(Append(r, <<t, "head">>))
    BY HeadKeeps
  <2> QED BY <2>1, <2>4, <2>5, <2>6
<1>4. /\ text' \in Seq(Texts) /\ Len(text') = Len(kind) /\ text'[o] = s
      /\ \A q \in Objects : q # o => text'[q] = text[q]
  <2>1. text \in Seq(Texts) /\ Len(text) = Len(kind)
    BY DEF LoggerInv, Typed
  <2>2. text' = [text EXCEPT ![o] = s]
    BY <1>1, <1>3
  <2>3. o \in 1..Len(text) /\ \A q : q \in Objects <=> q \in 1..Len(text)
    BY <1>1, <2>1 DEF Objects
  <2> HIDE DEF o, Texts
  <2>4. PICK x \in Seq(Texts), i \in 1..Len(text) : x = text /\ i = o
    BY <2>1, <2>3, Zenon
  <2>5. PICK w : w = text'
    OBVIOUS
  <2>6. w = [x EXCEPT ![i] = s] /\ i \in 1..Len(x)
    BY <2>2, <2>4, <2>5, Zenon
  <2>7. /\ w \in Seq(Texts) /\ Len(w) = Len(x) /\ w[i] = s
        /\ \A q \in 1..Len(x) : q # i => w[q] = x[q]
    BY <2>6, Written
  <2> QED BY <2>1, <2>3, <2>4, <2>5, <2>7, Zenon
<1>5. /\ writing' \in Seq(Threads \cup {None}) /\ Len(writing') = Len(kind)
      /\ (locks(o) => writing'[o] = t)
      /\ \A q \in Objects : q # o => writing'[q] = writing[q]
  <2>1. writing \in Seq(Threads \cup {None}) /\ Len(writing) = Len(kind)
    BY DEF LoggerInv, Typed
  <2>2. t \in Threads \cup {None}
    OBVIOUS
  <2> HIDE DEF o
  <2>3. CASE locks(o)
    BY <1>1, <2>1, <2>2, <2>3, ExceptSeq DEF Objects
  <2>4. CASE ~locks(o)
    BY <1>1, <2>1, <2>4
  <2> QED BY <2>3, <2>4
<1>6. Typed'
  BY <1>1, <1>2, <1>4, <1>5 DEF LoggerInv, Typed, Objects
<1>7. Guarded' /\ Walking'
  BY <1>1, <1>2 DEF LoggerInv, Guarded, Walking, Objects
<1>8. Heads'
  <2> SUFFICES ASSUME NEW u \in Threads, pc'[u] = "line", locks(cur[u])'
               PROVE  LET r == text'[cur[u]] IN
                      writing'[cur[u]] = u /\ r # <<>> /\ r[Len(r)] = <<u, "head">>
    BY <1>1 DEF Heads
  <2>1. locks(cur[u])
    BY <1>1 DEF locks
  <2>2. CASE u = t
    BY <1>3, <1>4, <1>5, <2>1, <2>2
  <2>3. CASE u # t
    <3>1. pc[u] = "line" /\ cur[u] \in Objects
      BY <1>2, <2>3 DEF LoggerInv, Walking
    <3>2. writing[cur[u]] = u /\ u # None
      BY <2>1, <3>1 DEF LoggerInv, Heads, Parameters
    <3>3. cur[u] # o
      BY <1>1, <2>1, <3>2
    <3>4. text'[cur[u]] = text[cur[u]] /\ writing'[cur[u]] = writing[cur[u]]
      BY <1>4, <1>5, <3>1, <3>3
    <3> QED BY <2>1, <3>1, <3>4, Zenon DEF LoggerInv, Heads
  <2> QED BY <2>2, <2>3
<1>9. Counts' /\ Delivered'
  BY <1>1, <1>2 DEF LoggerInv, Counts, Delivered
<1>10. LinesWhole'
  <2> SUFFICES ASSUME NEW q \in Objects, locks(q) PROVE whole(text'[q])
    BY <1>1 DEF LinesWhole, whole, Objects, locks
  <2>1. whole(text[q])
    BY DEF LoggerInv, LinesWhole
  <2> QED BY <1>3, <1>4, <2>1
<1>11. Distinct' /\ InFront' /\ SetOutputWins'
  BY <1>1 DEF LoggerInv, Distinct, InFront, SetOutputWins
<1> QED BY <1>6, <1>7, <1>8, <1>9, <1>10, <1>11 DEF LoggerInv

(* The end of a line, by whoever wrote its head; one output more has it.   *)
LEMMA EndStep ==
    ASSUME Parameters, LoggerInv, NEW t \in Threads, LineEnd(t)
    PROVE  LoggerInv'
<1> DEFINE o == cur[t]
<1>1. /\ pc[t] = "line" /\ o \in Objects /\ o \in 1..Len(kind) /\ text[o] \in Texts
      /\ (locks(o) => writing' = [writing EXCEPT ![o] = None])
      /\ (~locks(o) => writing' = writing)
      /\ text' = [text EXCEPT ![o] = Append(text[o], <<t, "end">>)]
      /\ got' = [got EXCEPT ![t] = [got[t] EXCEPT ![o] = got[t][o] + 1]]
      /\ at' = [at EXCEPT ![t] = at[t] + 1]
      /\ UNCHANGED <<outputs, kind, mutex, cur, quiet, given>>
  <2>1. pc[t] = "line" /\ o \in Objects
    BY DEF LineEnd, LoggerInv, Walking
  <2>2. text[o] \in Texts
    BY <2>1, ElementOfSeq DEF LoggerInv, Typed, Objects
  <2> QED BY <2>1, <2>2 DEF LineEnd, Objects
<1>2. /\ pc' \in [Threads -> Labels] /\ pc'[t] = "walk"
      /\ \A u \in Threads : u # t => pc'[u] = pc[u]
      /\ at' \in [Threads -> Nat] /\ at[t] \in Nat /\ at[t] > 0 /\ at'[t] = at[t] + 1
      /\ \A u \in Threads : u # t => at'[u] = at[u]
  BY DEF LineEnd, LoggerInv, Typed, Labels, Walking
<1>3. PICK s \in Texts : s = Append(text[o], <<t, "end">>) /\ (locks(o) => whole(s))
  <2>1. PICK r \in Texts : r = text[o]
    BY <1>1
  <2>2. <<t, "end">> \in Threads \X {"head", "end"}
    OBVIOUS
  <2>3. Append(r, <<t, "end">>) \in Texts
    BY <2>2, AppendProperties DEF Texts
  <2>4. locks(o) => whole(r) /\ r # <<>> /\ r[Len(r)] = <<t, "head">>
    BY <1>1, <2>1 DEF LoggerInv, LinesWhole, Heads
  <2>5. locks(o) => whole(Append(r, <<t, "end">>))
    BY <2>4, EndKeeps
  <2> QED BY <2>1, <2>3, <2>5
<1>4. /\ text' \in Seq(Texts) /\ Len(text') = Len(kind) /\ text'[o] = s
      /\ \A q \in Objects : q # o => text'[q] = text[q]
  <2>1. text \in Seq(Texts) /\ Len(text) = Len(kind)
    BY DEF LoggerInv, Typed
  <2>2. text' = [text EXCEPT ![o] = s]
    BY <1>1, <1>3
  <2>3. o \in 1..Len(text) /\ \A q : q \in Objects <=> q \in 1..Len(text)
    BY <1>1, <2>1 DEF Objects
  <2> HIDE DEF o, Texts
  <2>4. PICK x \in Seq(Texts), i \in 1..Len(text) : x = text /\ i = o
    BY <2>1, <2>3, Zenon
  <2>5. PICK w : w = text'
    OBVIOUS
  <2>6. w = [x EXCEPT ![i] = s] /\ i \in 1..Len(x)
    BY <2>2, <2>4, <2>5, Zenon
  <2>7. /\ w \in Seq(Texts) /\ Len(w) = Len(x) /\ w[i] = s
        /\ \A q \in 1..Len(x) : q # i => w[q] = x[q]
    BY <2>6, Written
  <2> QED BY <2>1, <2>3, <2>4, <2>5, <2>7, Zenon
<1>5. /\ writing' \in Seq(Threads \cup {None}) /\ Len(writing') = Len(kind)
      /\ \A q \in Objects : q # o => writing'[q] = writing[q]
      /\ ~locks(o) => writing'[o] = writing[o]
  <2>1. writing \in Seq(Threads \cup {None}) /\ Len(writing) = Len(kind)
    BY DEF LoggerInv, Typed
  <2>2. None \in Threads \cup {None}
    OBVIOUS
  <2>5. o \in 1..Len(writing) /\ \A q : q \in Objects <=> q \in 1..Len(writing)
    BY <1>1, <2>1 DEF Objects
  <2> HIDE DEF o
  <2>3. CASE locks(o)
    <3>0. PICK e \in Threads \cup {None} : e = None
      BY <2>2
    <3>1. PICK x \in Seq(Threads \cup {None}), i \in 1..Len(writing) :
             x = writing /\ i = o
      BY <2>1, <2>5, Zenon
    <3>2. PICK w : w = writing'
      OBVIOUS
    <3>3. w = [x EXCEPT ![i] = e] /\ i \in 1..Len(x)
      BY <1>1, <2>3, <3>0, <3>1, <3>2, Zenon
    <3>4. /\ w \in Seq(Threads \cup {None}) /\ Len(w) = Len(x)
          /\ \A q \in 1..Len(x) : q # i => w[q] = x[q]
      BY <3>3, Written
    <3> QED BY <2>1, <2>3, <2>5, <3>1, <3>2, <3>4, Zenon
  <2>4. CASE ~locks(o)
    BY <1>1, <2>1, <2>4
  <2> QED BY <2>3, <2>4
<1>6. /\ got' \in [Threads -> Seq(Nat)] /\ \A u \in Threads : Len(got'[u]) = Len(kind)
      /\ got'[t][o] = got[t][o] + 1 /\ \A q \in Objects : q # o => got'[t][q] = got[t][q]
      /\ \A u \in Threads : u # t => got'[u] = got[u]
  <2>1. PICK g \in Seq(Nat) : g = got[t] /\ Len(g) = Len(kind)
    BY DEF LoggerInv, Typed
  <2>2. g[o] + 1 \in Nat
    BY <1>1, <2>1, ElementOfSeq
  <2>3. PICK h : h = [g EXCEPT ![o] = g[o] + 1]
    OBVIOUS
  <2>4. /\ h \in Seq(Nat) /\ Len(h) = Len(kind) /\ h[o] = g[o] + 1
        /\ \A q \in Objects : q # o => h[q] = g[q]
    <3> HIDE DEF o
    <3> QED BY <1>1, <2>1, <2>2, <2>3, ExceptSeq DEF Objects
  <2>5. got' = [got EXCEPT ![t] = h]
    BY <1>1, <2>1, <2>3
  <2> QED BY <2>1, <2>4, <2>5 DEF LoggerInv, Typed
<1>7. Typed'
  BY <1>1, <1>2, <1>4, <1>5, <1>6 DEF LoggerInv, Typed, Objects
<1>8. Guarded' /\ Walking'
  BY <1>1, <1>2 DEF LoggerInv, Guarded, Walking, Objects
<1>9. Heads'
  <2> SUFFICES ASSUME NEW u \in Threads, pc'[u] = "line", locks(cur[u])'
               PROVE  LET r == text'[cur[u]] IN
                      writing'[cur[u]] = u /\ r # <<>> /\ r[Len(r)] = <<u, "head">>
    BY <1>1 DEF Heads
  <2>1. locks(cur[u]) /\ u # t
    BY <1>1, <1>2 DEF locks
  <2>2. pc[u] = "line" /\ cur[u] \in Objects
    BY <1>2, <2>1 DEF LoggerInv, Walking
  <2>3. writing[cur[u]] = u
    BY <2>1, <2>2 DEF LoggerInv, Heads
  <2>4. cur[u] # o
    BY <1>1, <2>1, <2>3 DEF LoggerInv, Heads
  <2>5. text'[cur[u]] = text[cur[u]] /\ writing'[cur[u]] = writing[cur[u]]
    BY <1>4, <1>5, <2>2, <2>4
  <2> QED BY <2>1, <2>2, <2>5, Zenon DEF LoggerInv, Heads
<1>10. Counts'
  <2> SUFFICES ASSUME NEW u \in Threads, quiet'[u], pc'[u] \in {"walk", "fetch", "call", "line", "return"}
               PROVE  /\ mutex' = None
                      /\ pc'[u] # "return" =>
                           \A i \in DOMAIN outputs' : got'[u][outputs'[i]] = IF i < at'[u] THEN 1 ELSE 0
                      /\ pc'[u] \in {"fetch", "call", "line"} => at'[u] \in DOMAIN outputs'
                      /\ pc'[u] \in {"call", "line"} => cur'[u] = outputs'[at'[u]]
    BY DEF Counts
  <2>1. CASE u = t
    <3>1. /\ mutex = None /\ at[t] \in DOMAIN outputs /\ o = outputs[at[t]]
          /\ \A i \in DOMAIN outputs : got[t][outputs[i]] = IF i < at[t] THEN 1 ELSE 0
      BY <1>1, <2>1 DEF LoggerInv, Counts
    <3>2. \A i \in DOMAIN outputs : i \in Nat /\ outputs[i] \in Objects
      <4>1. outputs \in Seq(Objects)
        BY DEF LoggerInv, Typed
      <4> QED BY <4>1, LenProperties, ElementOfSeq
    <3>3. \A i \in DOMAIN outputs : outputs[i] = o => i = at[t]
      BY <3>1 DEF LoggerInv, Distinct
    <3> HIDE DEF o
    <3>4. ASSUME NEW i \in DOMAIN outputs
          PROVE  got'[t][outputs[i]] = IF i < at[t] + 1 THEN 1 ELSE 0
      <4>1. CASE i = at[t]
        BY <1>2, <1>6, <3>1, <4>1
      <4>2. CASE i # at[t]
        <5>1. got'[t][outputs[i]] = got[t][outputs[i]]
          BY <1>6, <3>2, <3>3, <4>2
        <5>2. i < at[t] + 1 <=> i < at[t]
          BY <1>2, <3>2, <4>2
        <5> QED BY <3>1, <5>1, <5>2
      <4> QED BY <4>1, <4>2
    <3> QED BY <1>1, <1>2, <2>1, <3>1, <3>4
  <2>2. CASE u # t
    <3>1. /\ pc'[u] = pc[u] /\ at'[u] = at[u] /\ got'[u] = got[u] /\ quiet'[u] = quiet[u]
          /\ UNCHANGED <<outputs, mutex, cur>>
      BY <1>1, <1>2, <1>6, <2>2
    <3>2. Counts /\ quiet[u] /\ pc[u] \in {"walk", "fetch", "call", "line", "return"}
      BY <3>1 DEF LoggerInv
    <3> QED BY <3>1, <3>2 DEF Counts
  <2> QED BY <2>1, <2>2
<1>11. Delivered'
  <2>1. \A u \in Threads : pc'[u] = "return" => pc[u] = "return" /\ got'[u] = got[u]
    BY <1>2, <1>6
  <2>2. Delivered /\ outputs' = outputs /\ quiet' = quiet
    BY <1>1 DEF LoggerInv
  <2> QED BY <2>1, <2>2 DEF Delivered
<1>12. LinesWhole'
  <2> SUFFICES ASSUME NEW q \in Objects, locks(q) PROVE whole(text'[q])
    BY <1>1 DEF LinesWhole, whole, Objects, locks
  <2>1. whole(text[q])
    BY DEF LoggerInv, LinesWhole
  <2> QED BY <1>3, <1>4, <2>1
<1>13. Distinct' /\ InFront' /\ SetOutputWins'
  BY <1>1 DEF LoggerInv, Distinct, InFront, SetOutputWins
<1> QED BY <1>7, <1>8, <1>9, <1>10, <1>11, <1>12, <1>13 DEF LoggerInv

(* A walk that ends, or meets an output that was deleted.                  *)
LEMMA LeaveKeeps ==
    ASSUME LoggerInv, NEW t \in Threads, Stale(t) \/ Return(t)
    PROVE  LoggerInv'
<1>1. /\ pc' \in [Threads -> Labels] /\ pc'[t] \in {"idle", "stale"}
      /\ \A u \in Threads : u # t => pc'[u] = pc[u]
      /\ UNCHANGED <<outputs, kind, mutex, at, cur, writing, text, got, quiet, given>>
  BY DEF Stale, Return, LoggerInv, Typed, Labels
<1>2. Typed' /\ Guarded' /\ Walking' /\ Heads'
  BY <1>1 DEF LoggerInv, Typed, Guarded, Walking, Heads, Objects, locks
<1>3. Distinct' /\ InFront' /\ SetOutputWins' /\ LinesWhole'
  BY <1>1 DEF LoggerInv, Distinct, InFront, SetOutputWins, LinesWhole, Objects, locks, whole
<1>4. Counts' /\ Delivered'
  BY <1>1 DEF LoggerInv, Counts, Delivered
<1> QED BY <1>2, <1>3, <1>4 DEF LoggerInv

(* Whatever the threads log while others add and replace the outputs: on   *)
(* an output with a mutex lines stay whole, an undisturbed message reaches *)
(* every output once, and SetOutput() keeps its place at the front, for    *)
(* any number of threads, loggers and outputs (Logger.cpp:150-400).        *)
THEOREM LinesStayRight == ASSUME Parameters PROVE Spec => []LoggerRight
<1>1. Init => LoggerInv
  <2> SUFFICES ASSUME Init PROVE LoggerInv
    OBVIOUS
  <2>1. <<>> \in Seq(Kinds) /\ <<>> \in Seq(Objects) /\ <<>> \in Seq(Texts) /\ <<>> \in Seq(Nat)
        /\ <<>> \in Seq(Threads \cup {None}) /\ Len(<<>>) = 0
    BY EmptySeq
  <2>2. Typed
    BY <2>1 DEF Init, Typed, Labels
  <2>3. Guarded /\ Walking /\ Heads /\ Distinct /\ Counts /\ InFront
    BY DEF Init, Guarded, Walking, Heads, Distinct, Counts, InFront
  <2>4. LinesWhole /\ Delivered /\ SetOutputWins
    BY DEF Init, LinesWhole, Delivered, SetOutputWins, Objects
  <2> QED BY <2>2, <2>3, <2>4 DEF LoggerInv
<1>2. LoggerInv /\ [Next]_vars => LoggerInv'
  <2> SUFFICES ASSUME LoggerInv, [Next]_vars PROVE LoggerInv'
    OBVIOUS
  <2>1. CASE UNCHANGED vars
    BY <2>1, Same DEF vars
  <2>2. ASSUME NEW t \in Threads, NEW n \in Names, GetInstance(t, n) PROVE LoggerInv'
    <3>1. CASE outputs = <<>>
      <4>1. /\ create("console", outputs) /\ mutex = None /\ mutex' = None
            /\ UNCHANGED <<at, cur, pc, given>> /\ "console" \in Kinds
        BY <2>2, <3>1 DEF GetInstance, Kinds
      <4>2. pc' \in [Threads -> Labels] /\ \A u \in Threads : pc'[u] = pc[u] /\ pc'[u] \notin {"clear", "add"}
        BY <4>1 DEF LoggerInv, Typed, Guarded, Parameters
      <4>3. given' = 0
        BY <3>1, <4>1 DEF LoggerInv, InFront
      <4> QED BY <4>1, <4>2, <4>3, CreateKeeps
    <3>2. CASE outputs # <<>>
      BY <2>2, <3>2, Same DEF GetInstance
    <3> QED BY <3>1, <3>2
  <2>3. ASSUME NEW t \in Threads, NEW k \in Kinds, AddOutput(t, k) PROVE LoggerInv'
    <3>1. create(k, outputs) /\ mutex = None /\ mutex' = None /\ UNCHANGED <<at, cur, pc, given>>
      BY <2>3 DEF AddOutput
    <3>2. pc' \in [Threads -> Labels] /\ \A u \in Threads : pc'[u] = pc[u] /\ pc'[u] \notin {"clear", "add"}
      BY <3>1 DEF LoggerInv, Typed, Guarded, Parameters
    <3>3. given' = 0 \/ (given' = given /\ outputs # <<>> /\ outputs[1] = given)
      BY <3>1 DEF LoggerInv, InFront, SetOutputWins
    <3> QED BY <3>1, <3>2, <3>3, CreateKeeps
  <2>4. ASSUME NEW t \in Threads, NEW k \in Kinds, SetOutputAdd(t, k) PROVE LoggerInv'
    <3>1. /\ pc[t] = "add" /\ create(k, outputs) /\ mutex' = None /\ given' = Len(kind) + 1
          /\ pc' = [pc EXCEPT ![t] = "idle"] /\ UNCHANGED <<at, cur>>
      BY <2>4 DEF SetOutputAdd
    <3>2. outputs = <<>> /\ \A u \in Threads : u # t => pc[u] \notin {"clear", "add"}
      BY <3>1 DEF LoggerInv, Guarded
    <3>3. /\ pc' \in [Threads -> Labels]
          /\ \A u \in Threads : (pc'[u] = pc[u] \/ pc'[u] = "idle") /\ pc'[u] \notin {"clear", "add"}
      BY <3>1, <3>2 DEF LoggerInv, Typed, Labels
    <3> QED BY <3>1, <3>2, <3>3, CreateKeeps
  <2>5. ASSUME NEW t \in Threads, NEW n \in Names, NEW p \in Priorities, SetPriorityLevel(t, n, p)
        PROVE  LoggerInv'
    BY <2>5, Same DEF SetPriorityLevel, walk
  <2>6. ASSUME NEW t \in Threads, NEW p \in Priorities, SetGlobalPriorityLevel(t, p) PROVE LoggerInv'
    BY <2>6, Same DEF SetGlobalPriorityLevel, walk
  <2> QED BY <2>1, <2>2, <2>3, <2>4, <2>5, <2>6, SetKeeps, LogKeeps, FetchKeeps, HeadStep, EndStep,
             LeaveKeeps DEF Next
<1>3. LoggerInv => LoggerRight
  BY DEF LoggerInv, LoggerRight
<1> QED BY <1>1, <1>2, <1>3, PTL DEF Spec
=============================================================================
