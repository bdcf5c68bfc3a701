---------------------------- MODULE SystemProofs ----------------------------
(***************************************************************************)
(* The invariants of the classes over the operating system, of the         *)
(* triggers of radmin's monitors and of the probes of the network, proved  *)
(* for every value of the constants.  The modules share no variable: each  *)
(* section strengthens the invariant of one of them until it is inductive. *)
(***************************************************************************)
EXTENDS Process, ProcessList, Watch, Directory, SystemInfo, Triggers, TraceRoute,
        SequenceTheorems, FiniteSetTheorems, TLAPS

-----------------------------------------------------------------------------
(* Sequences                                                               *)

LEMMA AppendedRange ==
    ASSUME NEW S, NEW s \in Seq(S), NEW e \in S
    PROVE  Append(s, e) \in Seq(S) /\ Range(Append(s, e)) = Range(s) \cup {e}
<1>1. /\ Append(s, e) \in Seq(S) /\ Len(Append(s, e)) = Len(s) + 1 /\ Len(s) \in Nat
      /\ \A i \in 1..Len(s) : Append(s, e)[i] = s[i]
      /\ Append(s, e)[Len(s) + 1] = e
  OBVIOUS
<1>2. \A i \in 1..(Len(s) + 1) : i \in 1..Len(s) \/ i = Len(s) + 1
  BY <1>1
<1>3. DOMAIN s = 1..Len(s) /\ DOMAIN Append(s, e) = 1..(Len(s) + 1)
  BY <1>1
<1> QED
  BY <1>1, <1>2, <1>3 DEF Range

LEMMA RemovedAt ==
    ASSUME NEW S, NEW s \in Seq(S), NEW i \in 1..Len(s)
    PROVE  /\ RemoveAt(s, i) \in Seq(S) /\ Len(RemoveAt(s, i)) = Len(s) - 1
           /\ \A k \in 1..(Len(s) - 1) : RemoveAt(s, i)[k] = IF k < i THEN s[k] ELSE s[k + 1]
<1> DEFINE l == SubSeq(s, 1, i - 1)
           r == SubSeq(s, i + 1, Len(s))
<1>1. Len(s) \in Nat /\ i \in Nat /\ RemoveAt(s, i) = l \o r
  BY DEF RemoveAt
<1>2. l \in Seq(S) /\ Len(l) = i - 1 /\ \A k \in 1..(i - 1) : l[k] = s[k]
  BY <1>1
<1>3. r \in Seq(S) /\ Len(r) = Len(s) - i /\ \A k \in 1..(Len(s) - i) : r[k] = s[i + k]
  BY <1>1
<1> HIDE DEF l, r
<1>4. /\ l \o r \in Seq(S) /\ Len(l \o r) = Len(s) - 1
      /\ \A k \in 1..(Len(s) - 1) : (l \o r)[k] = IF k <= Len(l) THEN l[k] ELSE r[k - Len(l)]
  <2>1. l \o r \in Seq(S) /\ Len(l \o r) = Len(l) + Len(r)
    BY <1>2, <1>3, ConcatProperties
  <2>2. \A k \in 1..(Len(l) + Len(r)) : (l \o r)[k] = IF k <= Len(l) THEN l[k] ELSE r[k - Len(l)]
    BY <1>2, <1>3, ConcatProperties
  <2> QED
    BY <1>1, <1>2, <1>3, <2>1, <2>2
<1>5. ASSUME NEW k \in 1..(Len(s) - 1) PROVE (l \o r)[k] = IF k < i THEN s[k] ELSE s[k + 1]
  <2>1. CASE k < i
    BY <1>1, <1>2, <1>4, <2>1
  <2>2. CASE ~(k < i)
    <3>1. k - (i - 1) \in 1..(Len(s) - i) /\ i + (k - (i - 1)) = k + 1 /\ ~(k <= Len(l))
      BY <1>1, <1>2, <2>2
    <3> QED
      BY <1>2, <1>3, <1>4, <2>2, <3>1
  <2> QED
    BY <2>1, <2>2
<1> QED
  BY <1>1, <1>4, <1>5

-----------------------------------------------------------------------------
(* Process: the child, its pid, and the pipes                              *)

Terminating == {"kill", "killGone", "check", "checkGone"}

ProcessTyped ==
    /\ obj \in [Processes -> {"none", "live", "gone"} \cup Starting \cup Terminating]
    /\ heirs \in [Processes -> SUBSET Processes]
    /\ pid \in [Processes -> Pids \cup {Nobody}]
    /\ child \in [Pids -> [who : Processes \cup {Nobody, "stranger"}, st : {"free", "runs", "zombie"}]]
    /\ ends \in [Pids \cup {"parent"} -> SUBSET PipeEnds]

\* What is signalled was forked by the object and is not reaped: isRunning()
\* and waitFor() of another object reap none but their own child.
Forked ==
    /\ \A o \in Processes : obj[o] \in {"none", "piped"} => pid[o] = Nobody
    /\ \A o \in Processes : pid[o] = Nobody => obj[o] \in {"none", "piped", "gone"}
    /\ \A o \in Processes : obj[o] \in Terminating => mine(o)

\* A process that has ended holds no pipe; the parent holds its own sides, and
\* both while the constructor runs, so that a child is given the writing side
\* of another's output only by a fork in between.
Piped ==
    /\ \A p \in Pids : child[p].st # "runs" => ends[p] = {}
    /\ \A e \in ends["parent"] : e.side = parentSide(e.stream) \/ obj[e.of] \in Starting
    /\ \A p \in Pids : \A e \in ends[p] : e.stream # "in" /\ e.side = "write" =>
          (e.of = child[p].who /\ pid[e.of] = p) \/ child[p].who \in heirs[e.of]

ProcessInv == ProcessTyped /\ Forked /\ Piped /\ SignalsOwnChild

\* The constructor, up to the fork and after it.
LEMMA ConstructorPipes ==
    ASSUME ProcessInv, NEW o \in Processes, Pipe(o) \/ ForkFails(o) \/ CloseChildSides(o)
    PROVE  ProcessInv'
<1>1. /\ UNCHANGED <<pid, child, heirs, hit>> /\ obj[o] \in {"none", "piped", "forked"}
      /\ \E l \in {"piped", "live", "gone"} :
            /\ obj' = [obj EXCEPT ![o] = l] /\ (obj[o] = "none" <=> l = "piped") /\ (obj[o] = "forked" <=> l = "live")
  BY DEF Pipe, ForkFails, CloseChildSides
<1>2. /\ ends' \in [Pids \cup {"parent"} -> SUBSET PipeEnds]
      /\ \A p \in Pids : ends'[p] = ends[p]
      /\ \A e \in ends'["parent"] : \/ e \in ends["parent"] /\ e.of # o
                                    \/ e.of = o /\ obj'[o] \in Starting
                                    \/ e \in ends["parent"] /\ e.side = parentSide(e.stream)
  <2>1. "parent" \notin Pids /\ ownEnds(o) \subseteq PipeEnds /\ \A e \in ends["parent"] \cup PipeEnds : e.of \in Processes
    BY ProcessAssumption DEF ownEnds, ProcessInv, ProcessTyped, PipeEnds
  <2>2. CASE Pipe(o)
    BY <2>1, <2>2 DEF Pipe, ownEnds, ProcessInv, ProcessTyped, Starting
  <2>3. CASE CloseChildSides(o)
    BY <2>1, <2>3 DEF CloseChildSides, ProcessInv, ProcessTyped
  <2>4. CASE ForkFails(o)
    BY <2>1, <2>4 DEF ForkFails, ProcessInv, ProcessTyped
  <2> QED
    BY <2>2, <2>3, <2>4
<1>3. ProcessTyped'
  BY <1>1, <1>2 DEF ProcessInv, ProcessTyped, Starting
<1>4. Forked'
  BY <1>1, ProcessAssumption DEF ProcessInv, ProcessTyped, Forked, mine, Terminating
<1>5. Piped'
  <2>1. \A q \in Processes \ {o} : obj'[q] = obj[q]
    BY <1>1 DEF ProcessInv, ProcessTyped
  <2>2. \A e \in ends["parent"] : e.of \in Processes
    BY DEF ProcessInv, ProcessTyped, PipeEnds
  <2> QED
    BY <1>1, <1>2, <2>1, <2>2 DEF ProcessInv, Piped
<1> QED
  BY <1>1, <1>3, <1>4, <1>5 DEF ProcessInv, SignalsOwnChild

LEMMA ForkKeeps ==
    ASSUME ProcessInv, NEW o \in Processes, NEW p \in Pids, Fork(o, p)
    PROVE  ProcessInv'
<1>1. /\ obj[o] = "piped" /\ child[p] = Free /\ obj' = [obj EXCEPT ![o] = "forked"] /\ pid' = [pid EXCEPT ![o] = p]
      /\ child' = [child EXCEPT ![p] = [who |-> o, st |-> "runs"]] /\ UNCHANGED hit
      /\ ends' = [ends EXCEPT ![p] = {e \in ends["parent"] : e.of # o \/ e.side = childSide(e.stream)}]
      /\ heirs' = [q \in Processes |-> IF q # o /\ obj[q] \in Starting THEN heirs[q] \cup {o} ELSE heirs[q]]
  BY DEF Fork
<1>2. "parent" \notin Pids /\ Nobody \notin Pids /\ Nobody \notin Processes /\ pid[o] = Nobody
  BY <1>1, ProcessAssumption DEF ProcessInv, Forked
<1>3. ProcessTyped'
  BY <1>1, <1>2 DEF ProcessInv, ProcessTyped, Starting
<1>4. Forked'
  BY <1>1, <1>2 DEF ProcessInv, ProcessTyped, Forked, mine, Free, Terminating
<1>5. Piped'
  <2>1. /\ ends'["parent"] = ends["parent"]
        /\ ends'[p] = {e \in ends["parent"] : e.of # o \/ e.side = childSide(e.stream)}
        /\ \A q \in Pids \ {p} : ends'[q] = ends[q] /\ child'[q] = child[q]
        /\ child'[p].who = o /\ child'[p].st = "runs" /\ pid'[o] = p
        /\ \A q \in Processes \ {o} : pid'[q] = pid[q] /\ obj'[q] = obj[q]
        /\ obj'[o] \in Starting /\ \A q \in Processes : heirs[q] \subseteq heirs'[q]
    BY <1>1, <1>2 DEF ProcessInv, ProcessTyped, Starting
  <2>2. \A e \in ends["parent"] : e.of \in Processes
    BY DEF ProcessInv, ProcessTyped, PipeEnds
  \* The new child has an output that is not its own from a constructor that runs.
  <2>3. \A e \in ends'[p] : e.stream # "in" /\ e.side = "write" => e.of = o \/ o \in heirs'[e.of]
    <3> SUFFICES ASSUME NEW e \in ends["parent"], e.stream # "in", e.side = "write", e.of # o PROVE o \in heirs'[e.of]
      BY <2>1
    <3>1. obj[e.of] \in Starting
      BY DEF ProcessInv, Piped, parentSide
    <3> QED
      BY <1>1, <2>2, <3>1
  <2>4. \A q \in Pids \ {p} : \A e \in ends[q] : e.stream # "in" /\ e.side = "write" =>
            (e.of = child[q].who /\ pid'[e.of] = q) \/ child[q].who \in heirs'[e.of]
    <3> SUFFICES ASSUME NEW q \in Pids \ {p}, NEW e \in ends[q], e.stream # "in", e.side = "write"
                 PROVE  (e.of = child[q].who /\ pid'[e.of] = q) \/ child[q].who \in heirs'[e.of]
      OBVIOUS
    <3>1. e.of \in Processes
      BY DEF ProcessInv, ProcessTyped, PipeEnds
    <3>2. (e.of = child[q].who /\ pid[e.of] = q) \/ child[q].who \in heirs[e.of]
      BY DEF ProcessInv, Piped
    <3> QED
      BY <1>2, <2>1, <3>1, <3>2
  <2> QED
    BY <2>1, <2>2, <2>3, <2>4 DEF Piped, ProcessInv
<1> QED
  BY <1>1, <1>3, <1>4, <1>5 DEF ProcessInv, SignalsOwnChild

\* Steps that fork nothing and hand on no pipe.
LEMMA RestForked ==
    ASSUME ProcessInv, UNCHANGED pid, NEW o \in Processes, obj[o] \in {"live"} \cup Terminating,
           obj' \in [Processes -> {"none", "live", "gone"} \cup Starting \cup Terminating],
           \A q \in Processes \ {o} : obj'[q] = obj[q] /\ (mine(q) => mine(q)'),
           obj'[o] \notin {"none", "piped"}, obj'[o] \in Terminating => mine(o)'
    PROVE  Forked'
<1>1. \A q \in Processes : (obj'[q] \in {"none", "piped"} => pid'[q] = Nobody)
                          /\ (pid'[q] = Nobody => obj'[q] \in {"none", "piped", "gone"})
  BY DEF ProcessInv, Forked, Terminating
<1>2. \A q \in Processes : obj'[q] \in Terminating => mine(q)'
  BY DEF ProcessInv, Forked
<1> QED
  BY <1>1, <1>2 DEF Forked

LEMMA CallsKeep ==
    ASSUME ProcessInv, NEW o \in Processes,
           IsRunning(o) \/ WaitFor(o) \/ Terminate(o) \/ Destroy(o) \/ KillCheck(o)
    PROVE  ProcessInv'
<1> DEFINE parted == ends' = [ends EXCEPT !["parent"] = {e \in @ : e.of # o}]
<1>1. obj[o] \in {"live"} \cup Terminating /\ UNCHANGED <<pid, heirs>> /\ hit' \in {hit, Nobody} /\ (UNCHANGED ends \/ parted)
  BY DEF IsRunning, WaitFor, Terminate, Destroy, KillCheck, terminate, signalled, Terminating
<1>2. /\ obj' = obj \/ \E s \in {"live", "gone"} \cup Terminating : obj' = [obj EXCEPT ![o] = s]
      /\ obj'[o] \in Terminating => childRuns(o)
      /\ reap(o) \/ UNCHANGED child
  BY DEF IsRunning, WaitFor, Terminate, Destroy, KillCheck, terminate, signalled, ProcessInv, ProcessTyped, Terminating
<1>3. /\ child' \in [Pids -> [who : Processes \cup {Nobody, "stranger"}, st : {"free", "runs", "zombie"}]]
      /\ \A q \in Processes : q # o /\ mine(q) => mine(q)'
      /\ childRuns(o) => child' = child
      /\ \A p \in Pids : child'[p] = child[p] \/ (ends[p] = {} /\ child'[p] = Free)
  <2>1. CASE reap(o)
    <3>1. pid[o] \in Pids /\ Free \in [who : Processes \cup {Nobody, "stranger"}, st : {"free", "runs", "zombie"}]
      BY <1>1 DEF ProcessInv, ProcessTyped, Forked, Free, Terminating
    <3>2. CASE mine(o) /\ child[pid[o]].st = "zombie"
      BY <1>1, <2>1, <3>1, <3>2 DEF reap, mine, childRuns, ProcessInv, ProcessTyped, Piped
    <3> QED
      BY <1>1, <2>1, <3>1, <3>2 DEF reap, mine, ProcessInv, ProcessTyped
  <2> QED
    BY <1>1, <1>2, <2>1 DEF mine, ProcessInv, ProcessTyped
<1>4. ProcessTyped'
  <2>1. obj' \in [Processes -> {"none", "live", "gone"} \cup Starting \cup Terminating]
    BY <1>2 DEF ProcessInv, ProcessTyped
  <2>2. ends' \in [Pids \cup {"parent"} -> SUBSET PipeEnds]
    BY <1>1 DEF ProcessInv, ProcessTyped
  <2> QED
    BY <1>1, <1>3, <2>1, <2>2 DEF ProcessInv, ProcessTyped
<1>5. Forked'
  <2>1. \A q \in Processes \ {o} : obj'[q] = obj[q] /\ (mine(q) => mine(q)')
    BY <1>2, <1>3 DEF ProcessInv, ProcessTyped
  <2>2. obj'[o] \notin {"none", "piped"}
    BY <1>1, <1>2 DEF ProcessInv, ProcessTyped, Terminating
  <2>3. obj'[o] \in Terminating => mine(o)'
    BY <1>1, <1>2, <1>3 DEF childRuns, mine
  <2> QED
    BY <1>1, <1>4, <2>1, <2>2, <2>3, RestForked DEF ProcessTyped
<1>6. Piped'
  <2>1. (\A p \in Pids : ends'[p] = ends[p]) /\ ends'["parent"] \subseteq ends["parent"]
    BY <1>1, ProcessAssumption DEF ProcessInv, ProcessTyped
  <2>2. \A q \in Processes : obj[q] \in Starting => obj'[q] = obj[q]
    BY <1>1, <1>2 DEF ProcessInv, ProcessTyped, Starting, Terminating
  <2>3. \A e \in ends["parent"] : e.of \in Processes
    BY DEF ProcessInv, ProcessTyped, PipeEnds
  <2> QED
    BY <1>1, <1>3, <2>1, <2>2, <2>3 DEF Piped, ProcessInv
<1> QED
  BY <1>1, <1>4, <1>5, <1>6, ProcessAssumption DEF ProcessInv, SignalsOwnChild

LEMMA KillKeeps ==
    ASSUME ProcessInv, NEW o \in Processes, Kill(o)
    PROVE  ProcessInv'
<1>1. /\ obj[o] \in {"kill", "killGone"} /\ mine(o) /\ hit' = child[pid[o]].who /\ UNCHANGED <<pid, heirs>>
      /\ obj' = [obj EXCEPT ![o] = IF @ = "kill" THEN "check" ELSE "checkGone"]
  BY DEF Kill, killing, ProcessInv, Forked, Terminating
<1>2. hit' = o /\ pid[o] \in Pids
  BY <1>1, ProcessAssumption DEF mine, ProcessInv, ProcessTyped
<1>3. \/ /\ child' = [child EXCEPT ![pid[o]].st = "zombie"]
         /\ ends' = [ends EXCEPT ![pid[o]] = {}]
      \/ UNCHANGED <<child, ends>>
  BY DEF Kill
<1>4. /\ ProcessTyped'
      /\ \A q \in Processes : mine(q) => mine(q)'
  BY <1>1, <1>2, <1>3 DEF ProcessInv, ProcessTyped, mine, Terminating
<1>5. Forked'
  <2>1. \A q \in Processes \ {o} : obj'[q] = obj[q] /\ (mine(q) => mine(q)')
    BY <1>1, <1>4 DEF ProcessInv, ProcessTyped
  <2>2. obj'[o] \notin {"none", "piped"} /\ (obj'[o] \in Terminating => mine(o)') /\ obj[o] \in Terminating
    BY <1>1, <1>4 DEF ProcessInv, ProcessTyped, Terminating
  <2> QED
    BY <1>1, <1>4, <2>1, <2>2, RestForked DEF ProcessTyped
<1>6. Piped'
  <2>1. \A q \in Processes : obj[q] \in Starting => obj'[q] = obj[q]
    BY <1>1 DEF ProcessInv, ProcessTyped, Starting
  <2>2. \A e \in ends["parent"] : e.of \in Processes
    BY DEF ProcessInv, ProcessTyped, PipeEnds
  <2> QED
    BY <1>1, <1>2, <1>3, <2>1, <2>2, ProcessAssumption DEF ProcessInv, ProcessTyped, Piped
<1> QED
  BY <1>2, <1>4, <1>5, <1>6, ProcessAssumption DEF ProcessInv, SignalsOwnChild

LEMMA WorldKeeps ==
    ASSUME ProcessInv, NEW p \in Pids,
           StrangerStarts(p) \/ \E c \in Codes : Ends(p, c)
    PROVE  ProcessInv'
<1>1. UNCHANGED <<obj, pid, heirs, hit>>
  BY DEF StrangerStarts, Ends
<1>2. CASE StrangerStarts(p)
  <2>1. child[p] = Free /\ child' = [child EXCEPT ![p] = [who |-> "stranger", st |-> "runs"]] /\ ends' = ends
    BY <1>2 DEF StrangerStarts
  <2>2. ProcessTyped'
    BY <1>1, <2>1 DEF ProcessInv, ProcessTyped
  <2>3. Forked'
    BY <1>1, <2>1, ProcessAssumption DEF ProcessInv, ProcessTyped, Forked, mine, Free
  <2>4. Piped'
    BY <1>1, <2>1 DEF ProcessInv, ProcessTyped, Piped, Free
  <2> QED
    BY <1>1, <2>2, <2>3, <2>4 DEF ProcessInv, SignalsOwnChild
<1>3. ASSUME NEW c \in Codes, Ends(p, c) PROVE ProcessInv'
  <2>1. /\ child[p].st = "runs" /\ ends' = [ends EXCEPT ![p] = {}]
        /\ \/ child[p].who \in Processes /\ child' = [child EXCEPT ![p].st = "zombie"]
           \/ child[p].who \notin Processes /\ child' = [child EXCEPT ![p] = Free]
    BY <1>3 DEF Ends
  <2>2. ProcessTyped'
    BY <1>1, <2>1 DEF ProcessInv, ProcessTyped, Free
  <2>3. Forked'
    BY <1>1, <2>1 DEF ProcessInv, ProcessTyped, Forked, mine
  <2>4. Piped'
    BY <1>1, <2>1, ProcessAssumption DEF ProcessInv, ProcessTyped, Piped, Free
  <2> QED
    BY <1>1, <2>2, <2>3, <2>4 DEF ProcessInv, SignalsOwnChild
<1> QED
  BY <1>2, <1>3

LEMMA ChildrenAreRight ==
    ASSUME ProcessInv
    PROVE  ChildrenRight
<1>1. ASSUME NEW o \in Processes, NEW h \in DOMAIN ends, NEW s \in {"out", "err"}, end(o, s, "write") \in ends[h]
      PROVE  \/ h = pid[o] /\ mine(o)
             \/ h = "parent" /\ obj[o] \in Starting
             \/ h \in Pids /\ child[h].who \in heirs[o]
  <2>1. CASE h = "parent"
    BY <1>1, <2>1 DEF ProcessInv, Piped, end, parentSide
  <2>2. CASE h \in Pids
    BY <1>1, <2>2, ProcessAssumption DEF ProcessInv, Piped, end, mine
  <2> QED
    BY <2>1, <2>2 DEF ProcessInv, ProcessTyped
<1> QED
  BY <1>1 DEF ChildrenRight, OutputEndsWithChild, ProcessInv

(* No signal reaches a process that is not the object's child, and nobody  *)
(* but the child, the parent while the constructor runs, and the children  *)
(* forked meanwhile can write to what the parent reads as its output, for  *)
(* any number of objects and pids (Process.cpp:190, 206-346).              *)
THEOREM ChildrenStayRight == ProcessSpec => []ChildrenRight
<1>1. ProcessInit => ProcessInv
  BY ProcessAssumption DEF ProcessInit, ProcessInv, ProcessTyped, Forked, Piped, Free, SignalsOwnChild, Terminating
<1>2. ProcessInv /\ [ProcessNext]_processVars => ProcessInv'
  <2> SUFFICES ASSUME ProcessInv, [ProcessNext]_processVars PROVE ProcessInv'
    OBVIOUS
  <2>1. CASE UNCHANGED processVars
    BY <2>1 DEF processVars, ProcessInv, ProcessTyped, Forked, Piped, mine, SignalsOwnChild
  <2> QED
    BY <2>1, ConstructorPipes, ForkKeeps, CallsKeep, KillKeeps, WorldKeeps DEF ProcessNext, ProcessStep
<1>3. ProcessInv => ChildrenRight
  BY ChildrenAreRight
<1> QED
  BY <1>1, <1>2, <1>3, PTL DEF ProcessSpec

-----------------------------------------------------------------------------
(* ProcessList: what a refresh() that is under way has done so far         *)

ListedProcesses == [name : Nat \cup {"unknown"}, running : BOOLEAN]
ListTyped ==
    /\ world \in [Numbers -> Nat] /\ births \in Nat /\ entry \in Nat
    /\ DOMAIN list \subseteq Numbers /\ list \in [DOMAIN list -> ListedProcesses]
    /\ listPc \in {"idle", "read", "look", "done"}

\* The pids up to the entry have been read, and all of them but the last have
\* been looked at.
Reading ==
    listPc \in {"read", "look"} =>
        /\ listedBefore \subseteq DOMAIN list /\ newPids = DOMAIN list \ listedBefore
        /\ newPids \subseteq pids
        /\ \A p \in stayed : p <= entry => p \in pids
        /\ \A p \in stayed : p < entry \/ (listPc = "read" /\ p = entry) => p \in DOMAIN list /\ list[p].running
        /\ listPc = "look" => entry \in pids /\ entry \in Numbers

ListInv == ListTyped /\ stayed \subseteq living /\ Reading /\ ListedRight

LEMMA RefreshSteps ==
    ASSUME Numbers \subseteq Nat \ {0}, ListInv, BeginRefresh \/ ReadProc \/ LookAt \/ EndOfProc
    PROVE  ListInv'
<1>1. CASE BeginRefresh
  BY <1>1 DEF BeginRefresh, ListInv, ListTyped, Reading, ListedRight, living
<1>2. CASE ReadProc
  <2>1. PICK p \in living : p > entry /\ (\A q \in living : q > entry => p <= q) /\ entry' = p /\ pids' = pids \cup {p}
    BY <1>2 DEF ReadProc
  <2>2. /\ listPc = "read" /\ listPc' = "look" /\ UNCHANGED <<world, births, list, newPids, listedBefore, stayed>>
        /\ living' = living
    BY <1>2 DEF ReadProc, living
  <2>3. p \in Numbers /\ p \in Nat /\ entry \in Nat /\ stayed \subseteq living /\ living \subseteq Nat
    BY DEF ListInv, ListTyped, living
  <2>4. \A q \in stayed : q <= p => q <= entry \/ q = p
    BY <2>1, <2>3
  <2> QED
    BY <2>1, <2>2, <2>3, <2>4 DEF ListInv, ListTyped, Reading, ListedRight
<1>3. CASE LookAt
  <2>1. /\ listPc = "look" /\ listPc' = "read" /\ UNCHANGED <<world, births, pids, entry, listedBefore, stayed>>
        /\ living' = living /\ entry \in Numbers /\ entry \in pids
    BY <1>3 DEF LookAt, living, ListInv, Reading
  <2>2. world[entry] \in Nat /\ initialize(entry) \in ListedProcesses /\ (entry \in living => initialize(entry).running)
    BY <2>1 DEF ListInv, ListTyped, ListedProcesses, initialize, living
  <2>3. /\ DOMAIN list' = DOMAIN list \cup {entry} /\ list' \in [DOMAIN list' -> ListedProcesses]
        /\ \A p \in DOMAIN list \ {entry} : list'[p] = list[p]
        /\ entry \in living => list'[entry].running
        /\ newPids' = IF entry \in DOMAIN list THEN newPids ELSE newPids \cup {entry}
    <3>1. CASE entry \in DOMAIN list
      <4>1. list[entry] \in ListedProcesses /\ refresh(entry) \in ListedProcesses
            /\ (entry \in living => refresh(entry).running)
        BY <2>1, <2>2, <3>1 DEF ListInv, ListTyped, ListedProcesses, refresh, living
      <4> QED
        BY <1>3, <3>1, <4>1 DEF LookAt, ListInv, ListTyped
    <3>2. CASE entry \notin DOMAIN list
      BY <1>3, <2>2, <3>2 DEF LookAt, ListInv, ListTyped
    <3> QED
      BY <3>1, <3>2
  <2>4. \A p \in stayed : p \in Nat /\ p \in living
    BY DEF ListInv, living
  <2> QED
    BY <2>1, <2>3, <2>4 DEF ListInv, ListTyped, Reading, ListedRight
<1>4. CASE EndOfProc
  <2>1. /\ listPc = "read" /\ listPc' = "done" /\ UNCHANGED <<world, births, pids, newPids, entry, listedBefore, stayed>>
        /\ living' = living /\ deadPids' = DOMAIN list \ pids
        /\ list' = [p \in DOMAIN list \cap pids |-> list[p]] /\ \A q \in living : q <= entry
    BY <1>4 DEF EndOfProc, remove_dead, living
  <2>2. DOMAIN list' = DOMAIN list \cap pids /\ \A p \in DOMAIN list' : list'[p] = list[p]
    BY <2>1
  <2>3. \A p \in stayed : p \in Nat /\ p \in living /\ p \in pids /\ p \in DOMAIN list /\ list[p].running
    BY <2>1 DEF ListInv, living, Reading, ListTyped
  <2> QED
    BY <2>1, <2>2, <2>3 DEF ListInv, ListTyped, Reading, ListedRight
<1> QED
  BY <1>1, <1>2, <1>3, <1>4

(* When refresh() returns, every process that was there all the time is    *)
(* listed as running, and newPids() and deadPids() are the difference      *)
(* between the lists, however many processes start and exit meanwhile      *)
(* (ProcessList.cpp:60).                                                   *)
THEOREM ListStaysRight == ListSpec => []ListedRight
<1> USE NumbersAssumption
<1>1. ListInit => ListInv
  BY DEF ListInit, ListInv, ListTyped, Reading, ListedRight
<1>2. ListInv /\ [ListNext]_listVars => ListInv'
  <2> SUFFICES ASSUME ListInv, [ListNext]_listVars PROVE ListInv'
    OBVIOUS
  <2>1. CASE UNCHANGED listVars \/ RefreshDone
    BY <2>1 DEF listVars, RefreshDone, ListInv, ListTyped, Reading, ListedRight, living
  <2>2. ASSUME NEW p \in Numbers, Born(p) \/ Exits(p) PROVE ListInv'
    <3>1. /\ UNCHANGED <<list, pids, newPids, deadPids, listPc, entry, listedBefore>>
          /\ stayed' \subseteq stayed \ (living \ living') /\ births' \in Nat /\ world' \in [Numbers -> Nat]
      BY <2>2 DEF Born, Exits, living, ListInv, ListTyped
    <3> QED
      BY <3>1 DEF ListInv, ListTyped, Reading, ListedRight
  <2> QED
    BY <2>1, <2>2, RefreshSteps DEF ListNext
<1>3. ListInv => ListedRight
  BY DEF ListInv
<1> QED
  BY <1>1, <1>2, <1>3, PTL DEF ListSpec

-----------------------------------------------------------------------------
(* Watch: the listening objects                                            *)

WatchLabels == {"idle", "look", "test", "sleep", "pause", "woken", "other", "returned", "threw"}

WatchTyped ==
    /\ handlers = NULL \/ handlers \subseteq FsObjects
    /\ fd \in [FsObjects -> {"none", "open", "notifies"}] /\ opened \in Nat /\ failures \in Nat
    /\ changed \in [FsObjects -> BOOLEAN] /\ handlerRan \in [FsObjects -> BOOLEAN]
    /\ watchPc \in [FsObjects -> WatchLabels] /\ watchLoop \in [FsObjects -> {"dir", "appear", "file"}]

\* Only the handler says that something changed; waitForChange() forgets it.
WatchInv ==
    /\ WatchTyped
    /\ \A o \in FsObjects : fd[o] = "notifies" <=> o \in listening
    /\ opened = Cardinality(listening) + failures
    /\ \A o \in FsObjects : changed[o] => handlerRan[o]
    /\ \A o \in FsObjects : watchPc[o] = "look" => o \notin Dirs
    /\ \A o \in FsObjects : watchPc[o] = "returned" => handlerRan[o] \/ o \notin Dirs

LEMMA OpenListeners ==
    ASSUME WatchInv, NEW o \in FsObjects, StartChangeListener(o) \/ StopChangeListener(o)
    PROVE  WatchInv'
<1> USE ObjectsAssumption
<1>1. UNCHANGED <<watchPc, watchLoop, handlerRan>>
  BY DEF StartChangeListener, StopChangeListener, listenerVars
<1>2. changed' = changed \/ changed' = [changed EXCEPT ![o] = FALSE]
  BY DEF StartChangeListener, StopChangeListener, Listens, ListenFails
<1>3. /\ listening \subseteq FsObjects /\ NULL # {} /\ \A hs \in SUBSET FsObjects : hs # NULL
      /\ opened \in Nat /\ failures \in Nat /\ IsFiniteSet(listening) /\ Cardinality(listening) \in Nat
  BY FS_Subset, FS_CardinalityType DEF WatchInv, WatchTyped, listening, NULL
<1>4. /\ handlers' = NULL \/ handlers' \subseteq FsObjects
      /\ fd' \in [FsObjects -> {"none", "open", "notifies"}] /\ opened' \in Nat /\ failures' \in Nat
      /\ \A q \in FsObjects : fd'[q] = "notifies" <=> q \in listening'
      /\ opened' = Cardinality(listening') + failures'
  <2>1. CASE UNCHANGED <<handlers, fd, opened, failures>>
    BY <2>1 DEF WatchInv, WatchTyped, listening
  <2>2. CASE o \notin listening /\ Listens(o)
    <3>1. /\ handlers' = listening \cup {o} /\ fd' = [fd EXCEPT ![o] = "notifies"]
          /\ opened' = opened + 1 /\ failures' = failures
      BY <2>2 DEF Listens
    <3>2. listening' = listening \cup {o}
      BY <1>3, <3>1 DEF listening
    <3>3. Cardinality(listening') = Cardinality(listening) + 1
      BY <1>3, <2>2, <3>2, FS_AddElement
    <3> QED
      BY <1>3, <3>1, <3>2, <3>3 DEF WatchInv, WatchTyped
  <2>3. CASE o \notin listening /\ ListenFails(o)
    <3>1. /\ handlers' = listening /\ opened' - failures' = opened - failures /\ opened' \in Nat /\ failures' \in Nat
          /\ \E f \in {"none", "open"} : fd' = [fd EXCEPT ![o] = f] \/ fd' = fd
      BY <1>3, <2>3 DEF ListenFails
    <3>2. listening' = listening
      BY <1>3, <3>1 DEF listening
    <3>3. \A q \in FsObjects : fd'[q] = "notifies" <=> fd[q] = "notifies"
      BY <2>3, <3>1 DEF WatchInv, WatchTyped
    <3>4. fd' \in [FsObjects -> {"none", "open", "notifies"}]
      BY <3>1 DEF WatchInv, WatchTyped
    <3>5. opened' = Cardinality(listening) + failures'
      BY <1>3, <3>1 DEF WatchInv
    <3> QED
      BY <1>3, <3>1, <3>2, <3>3, <3>4, <3>5 DEF WatchInv, WatchTyped
  <2>4. CASE StopChangeListener(o) /\ o \in listening
    <3>1. /\ handlers' = listening \ {o} /\ fd' = [fd EXCEPT ![o] = "none"] /\ opened' = opened - 1
          /\ failures' = failures
      BY <2>4 DEF StopChangeListener, listening
    <3>2. listening' = listening \ {o}
      BY <1>3, <3>1 DEF listening
    <3>3. Cardinality(listening') = Cardinality(listening) - 1 /\ Cardinality(listening') \in Nat
      BY <1>3, <2>4, <3>2, FS_RemoveElement, FS_CardinalityType
    <3> QED
      BY <1>3, <3>1, <3>2, <3>3 DEF WatchInv, WatchTyped
  <2> QED
    BY <2>1, <2>2, <2>3, <2>4 DEF StartChangeListener, StopChangeListener, listenerVars, listening
<1>5. changed' \in [FsObjects -> BOOLEAN] /\ \A q \in FsObjects : changed'[q] => changed[q]
  BY <1>2 DEF WatchInv, WatchTyped
<1> QED
  BY <1>1, <1>4, <1>5 DEF WatchInv, WatchTyped

LEMMA Waits ==
    ASSUME WatchInv, NEW o \in FsObjects,
           \/ WaitForChange(o) \/ Look(o) \/ TestChanged(o) \/ Pause(o)
           \/ Woken(o) \/ NotThisFile(o) \/ WaitReturns(o)
    PROVE  WatchInv'
<1>1. CASE WaitForChange(o)
  <2>1. /\ UNCHANGED listenerVars
        /\ changed' = [changed EXCEPT ![o] = FALSE] /\ handlerRan' = [handlerRan EXCEPT ![o] = FALSE]
        /\ \E k \in {"dir", "appear", "file"}, l \in {"test", "look"} :
               /\ watchLoop' = [watchLoop EXCEPT ![o] = k] /\ watchPc' = [watchPc EXCEPT ![o] = l]
               /\ l = "look" => o \notin Dirs
    <3>1. PICK k \in {"dir", "appear", "file"} :
            watchLoop' = [watchLoop EXCEPT ![o] = k] /\ (k = "file" => o \notin Dirs)
      BY <1>1 DEF WaitForChange
    <3>2. watchLoop'[o] = k
      BY <3>1 DEF WatchInv, WatchTyped
    <3> QED
      BY <1>1, <3>1, <3>2 DEF WaitForChange
  <2> QED
    BY <2>1 DEF WatchInv, WatchTyped, WatchLabels, listening, listenerVars
<1>2. CASE ~WaitForChange(o)
  <2>1. \E from \in WatchLabels, to \in WatchLabels :
            /\ WaitGoes(o, from, to)
            /\ to # "look" /\ (to = "returned" => from = "look" \/ changed[o])
    BY <1>2 DEF Look, TestChanged, Pause, Woken, NotThisFile, WaitReturns, WatchLabels, WatchInv, WatchTyped
  <2>2. /\ UNCHANGED <<listenerVars, watchLoop, handlerRan>>
        /\ \E l \in WatchLabels \ {"look"} :
              /\ watchPc' = [watchPc EXCEPT ![o] = l]
              /\ l = "returned" => watchPc[o] = "look" \/ changed[o]
    BY <2>1 DEF WaitGoes
  <2>3. changed' \in [FsObjects -> BOOLEAN] /\ \A q \in FsObjects : changed'[q] => changed[q]
    BY <1>2 DEF Look, TestChanged, Pause, Woken, NotThisFile, WaitReturns, WatchInv, WatchTyped
  <2> QED
    BY <2>2, <2>3 DEF WatchInv, WatchTyped, listening, listenerVars
<1> QED
  BY <1>1, <1>2

LEMMA Signalled ==
    ASSUME WatchInv, NEW o \in FsObjects, Signal(o)
    PROVE  WatchInv'
<1>1. /\ UNCHANGED <<listenerVars, watchLoop>>
      /\ changed' = [p \in FsObjects |-> changed[p] \/ p \in listening]
      /\ handlerRan' = [p \in FsObjects |-> handlerRan[p] \/ p \in listening]
  BY DEF Signal
<1>2. \E l \in WatchLabels : /\ watchPc' = [watchPc EXCEPT ![o] = l]
                             /\ l \in {"returned", "look"} => watchPc[o] = l
  BY DEF Signal, WatchInv, WatchTyped, WatchLabels
<1> QED
  BY <1>1, <1>2 DEF WatchInv, WatchTyped, listening, listenerVars

(* The objects that listen are the ones whose descriptor notifies; one is  *)
(* open for each of them, and one for every call that fcntl() ended; and a *)
(* wait for a directory returns only after the handler ran, for any number *)
(* of objects (linux/FsObject.cpp:47-67, 91-141).                          *)
THEOREM WatchStaysRight == WatchSpec => []WatchRight
<1> USE ObjectsAssumption
<1>1. WatchInit => WatchInv
  BY FS_EmptySet DEF WatchInit, WatchInv, WatchTyped, WatchLabels, listening, NULL
<1>2. WatchInv /\ [WatchNext]_watchVars => WatchInv'
  <2> SUFFICES ASSUME WatchInv, [WatchNext]_watchVars PROVE WatchInv'
    OBVIOUS
  <2>1. CASE UNCHANGED watchVars \/ Change
    BY <2>1 DEF watchVars, Change, listenerVars, WatchInv, WatchTyped, listening
  <2> QED
    BY <2>1, OpenListeners, Waits, Signalled DEF WatchNext
<1>3. WatchInv => WatchRight
  BY DEF WatchInv, WatchTyped, WatchRight, listening
<1> QED
  BY <1>1, <1>2, <1>3, PTL DEF WatchSpec

-----------------------------------------------------------------------------
(* Directory: what a refresh() that is under way has read                  *)

Children == [name : FileNames, id : Nat, size : 0..2]
DirectoryTyped ==
    /\ dirDisk \in [FileNames -> 0..2] /\ childrenMade \in Nat
    /\ children \in Seq(Children) /\ \A i \in 1..Len(children) : children[i].id <= childrenMade
    /\ new_list \in Seq(FileNames)
    /\ todo \subseteq FileNames \/ todo \in {NoRead, Closed}
    /\ stable \subseteq FileNames

\* Every name is one child and one object.
OneEach ==
    \A i, j \in 1..Len(children) :
        i # j => children[i].name # children[j].name /\ children[i].id # children[j].id

\* What was there all the time has been read or will be, what never was will
\* not, and every name read is a child.
ReadSoFar ==
    /\ reading => stable \subseteq todo \cup Range(new_list) /\ todo \cap never = {}
    /\ todo # NoRead =>
          Range(new_list) \subseteq names(children) /\ Range(new_list) \cap never = {}
    /\ todo = Closed => stable \subseteq Range(new_list)

DirectoryInv == DirectoryTyped /\ OneEach /\ ReadSoFar /\ DirectoryRight

LEMMA ReadDirKeeps ==
    ASSUME "NoRead" \notin FileNames, "Closed" \notin FileNames, DirectoryInv, NEW n \in FileNames, ReadDir(n)
    PROVE  DirectoryInv'
<1>1. /\ reading /\ n \in todo /\ todo' = todo \ {n} /\ new_list' = Append(new_list, n)
      /\ UNCHANGED <<dirDisk, stable, never, events>>
  BY DEF ReadDir
<1>2. todo \subseteq FileNames /\ reading' /\ todo' \notin {NoRead, Closed}
  BY <1>1 DEF reading, DirectoryInv, DirectoryTyped, NoRead, Closed
<1>3. new_list' \in Seq(FileNames) /\ Range(new_list') = Range(new_list) \cup {n}
  BY <1>1, AppendedRange DEF DirectoryInv, DirectoryTyped
<1>4. /\ children' \in Seq(Children) /\ childrenMade' \in Nat
      /\ \A i \in 1..Len(children') : children'[i].id <= childrenMade'
      /\ names(children') = names(children) \cup {n}
      /\ OneEach'
  <2>1. CASE n \in names(children)
    BY <1>1, <2>1 DEF ReadDir, DirectoryInv, DirectoryTyped, OneEach
  <2>2. CASE n \notin names(children)
    <3> DEFINE c == [name |-> n, id |-> childrenMade + 1, size |-> NotAsked]
    <3>1. children' = Append(children, c) /\ childrenMade' = childrenMade + 1
      BY <2>2 DEF ReadDir
    <3>2. c \in Children /\ c.name = n /\ c.id = childrenMade + 1
      BY DEF Children, NotAsked, DirectoryInv, DirectoryTyped
    <3> HIDE DEF c
    <3>3. /\ children' \in Seq(Children) /\ Len(children') = Len(children) + 1
          /\ \A i \in 1..Len(children) : children'[i] = children[i]
          /\ children'[Len(children) + 1] = c /\ Len(children) \in Nat
      BY <3>1, <3>2 DEF DirectoryInv, DirectoryTyped
    <3>4. \A i \in 1..Len(children') : i \in 1..Len(children) \/ i = Len(children) + 1
      BY <3>3
    <3>5. \A i \in 1..Len(children) : children[i].name # n /\ children[i].id <= childrenMade /\ children[i].id \in Nat
      <4>1. \A i \in 1..Len(children) : children[i] \in Children
        BY DEF DirectoryInv, DirectoryTyped
      <4> QED
        BY <2>2, <4>1 DEF names, DirectoryInv, DirectoryTyped, Children
    <3>6. OneEach'
      BY <3>1, <3>2, <3>3, <3>4, <3>5 DEF OneEach, DirectoryInv, DirectoryTyped
    <3>7. names(children') = names(children) \cup {n}
      BY <3>2, <3>3, <3>4 DEF names
    <3>8. \A i \in 1..Len(children') : children'[i].id <= childrenMade'
      BY <3>1, <3>2, <3>3, <3>4, <3>5 DEF DirectoryInv, DirectoryTyped
    <3> QED
      BY <3>1, <3>3, <3>6, <3>7, <3>8 DEF DirectoryInv, DirectoryTyped
  <2> QED
    BY <2>1, <2>2
<1>5. DirectoryTyped'
  BY <1>1, <1>2, <1>3, <1>4 DEF DirectoryInv, DirectoryTyped
<1>6. ReadSoFar'
  <2>1. reading /\ todo # NoRead /\ todo' # Closed
    BY <1>1, <1>2 DEF reading
  <2>2. Range(new_list') \subseteq names(children') /\ Range(new_list') \cap never' = {}
    BY <1>1, <1>3, <1>4, <2>1 DEF DirectoryInv, ReadSoFar
  <2>3. stable' \subseteq todo' \cup Range(new_list') /\ todo' \cap never' = {}
    BY <1>1, <1>3, <2>1 DEF DirectoryInv, ReadSoFar
  <2> QED
    BY <2>1, <2>2, <2>3 DEF ReadSoFar
<1> QED
  BY <1>2, <1>4, <1>5, <1>6 DEF DirectoryInv, DirectoryRight, OneEach

LEMMA RemoveChildKeeps ==
    ASSUME "NoRead" \notin FileNames, "Closed" \notin FileNames, DirectoryInv,
           NEW i \in 1..Len(children), RemoveChild(i)
    PROVE  DirectoryInv'
<1>1. /\ todo = Closed /\ ~Contains(new_list, children[i].name) /\ children' = RemoveAt(children, i)
      /\ UNCHANGED <<dirDisk, todo, new_list, stable, never, childrenMade, events>>
  BY DEF RemoveChild
<1>2. children \in Seq(Children) /\ Len(children) \in Nat
  BY DEF DirectoryInv, DirectoryTyped
<1>3. /\ children' \in Seq(Children) /\ Len(children') = Len(children) - 1
      /\ \A k \in 1..Len(children') : children'[k] = IF k < i THEN children[k] ELSE children[k + 1]
  BY <1>1, <1>2, RemovedAt
<1>4. \A k \in 1..Len(children') : IF k < i THEN k \in 1..Len(children) ELSE k + 1 \in 1..Len(children) /\ k + 1 > i
  BY <1>2, <1>3
<1>5. \A k \in 1..Len(children) : k # i => \E m \in 1..Len(children') : children'[m] = children[k]
  <2> SUFFICES ASSUME NEW k \in 1..Len(children), k # i PROVE \E m \in 1..Len(children') : children'[m] = children[k]
    OBVIOUS
  <2>1. CASE k < i
    BY <1>2, <1>3, <2>1
  <2>2. CASE ~(k < i)
    <3>1. k - 1 \in 1..Len(children') /\ ~(k - 1 < i) /\ (k - 1) + 1 = k
      BY <1>2, <1>3, <2>2
    <3> QED
      BY <1>3, <3>1
  <2> QED
    BY <2>1, <2>2
<1>6. OneEach'
  <2> DEFINE old(k) == IF k < i THEN k ELSE k + 1
  <2>1. \A k \in 1..Len(children') : old(k) \in 1..Len(children) /\ children'[k] = children[old(k)]
    BY <1>2, <1>3, <1>4
  <2>2. \A k, m \in 1..Len(children') : k # m => old(k) # old(m)
    BY <1>2, <1>3
  <2> HIDE DEF old
  <2> QED
    BY <2>1, <2>2 DEF OneEach, DirectoryInv
<1>7. Range(new_list) \subseteq names(children')
  <2> SUFFICES ASSUME NEW n \in Range(new_list) PROVE n \in names(children')
    OBVIOUS
  <2>1. PICK k \in 1..Len(children) : children[k].name = n
    BY <1>1 DEF DirectoryInv, ReadSoFar, names, NoRead, Closed
  <2>2. k # i
    BY <1>1, <2>1 DEF Contains, Range, DirectoryInv, DirectoryTyped
  <2> QED
    BY <1>5, <2>1, <2>2 DEF names
<1>8. \A k \in 1..Len(children') : children'[k].id <= childrenMade'
  BY <1>1, <1>3, <1>4 DEF DirectoryInv, DirectoryTyped
<1> QED
  BY <1>1, <1>3, <1>6, <1>7, <1>8
     DEF DirectoryInv, DirectoryTyped, ReadSoFar, DirectoryRight, OneEach, reading, NoRead, Closed

(* However the directory changes while it is read, every name is one child *)
(* and one object, what was there all the time is among the children after *)
(* refresh() and what never was is not (linux/Directory.cpp:23-53).        *)
THEOREM DirectoryStaysRight == DirectorySpec => []DirectoryRight
<1> USE FileNamesAssumption
<1>1. DirectoryInit => DirectoryInv
  BY DEF DirectoryInit, DirectoryInv, DirectoryTyped, OneEach, ReadSoFar, DirectoryRight, reading, names, NoRead, Closed
<1>2. DirectoryInv /\ [DirectoryNext]_dirVars => DirectoryInv'
  <2> SUFFICES ASSUME DirectoryInv, [DirectoryNext]_dirVars PROVE DirectoryInv'
    OBVIOUS
  <2>1. CASE UNCHANGED dirVars
    BY <2>1 DEF dirVars, DirectoryInv, DirectoryTyped, OneEach, ReadSoFar, DirectoryRight, reading, names, there
  <2>2. CASE Refresh
    <3>1. CASE UNCHANGED <<todo, new_list, stable, never>>
      BY <2>2, <3>1 DEF Refresh, DirectoryInv, DirectoryTyped, OneEach, ReadSoFar, DirectoryRight, reading, names
    <3>2. CASE todo' = there /\ new_list' = <<>> /\ stable' = there /\ never' = FileNames \ there
      <4>1. there \subseteq FileNames /\ there \notin {NoRead, Closed} /\ <<>> \in Seq(FileNames) /\ Range(<<>>) = {}
        BY DEF there, NoRead, Closed, Range
      <4> QED
        BY <2>2, <3>2, <4>1
           DEF Refresh, DirectoryInv, DirectoryTyped, OneEach, ReadSoFar, DirectoryRight, reading
    <3> QED
      BY <2>2, <3>1, <3>2 DEF Refresh
  <2>3. CASE CloseDir
    BY <2>3 DEF CloseDir, DirectoryInv, DirectoryTyped, OneEach, ReadSoFar, DirectoryRight, reading, NoRead, Closed
  <2>4. CASE Finish
    <3>1. names(children) \subseteq Range(new_list)
      BY <2>4 DEF Finish, names, Range, Contains, DirectoryInv, DirectoryTyped
    <3> QED
      BY <2>4, <3>1 DEF Finish, DirectoryInv, DirectoryTyped, OneEach, ReadSoFar, DirectoryRight, reading, NoRead, Closed
  <2>5. ASSUME NEW n \in FileNames, NEW size \in 0..2, Outside(n, size) PROVE DirectoryInv'
    <3>1. /\ UNCHANGED <<children, new_list, childrenMade>> /\ dirDisk' \in [FileNames -> 0..2]
          /\ stable' \subseteq stable /\ never' \subseteq never
      BY <2>5 DEF Outside, DirectoryInv, DirectoryTyped
    <3>2. CASE UNCHANGED todo
      BY <3>1, <3>2 DEF DirectoryInv, DirectoryTyped, OneEach, ReadSoFar, DirectoryRight, reading
    <3>3. CASE ~UNCHANGED todo
      <4>1. /\ reading /\ todo \subseteq FileNames
            /\ todo' \in {todo \cup {n}, todo \ {n}}
            /\ n \in todo' => n \notin never' \/ n \in todo
            /\ n \notin todo' => n \notin stable'
        BY <2>5, <3>3 DEF Outside, DirectoryInv, DirectoryTyped, reading
      <4>2. reading' /\ todo' \subseteq FileNames /\ todo' \notin {NoRead, Closed}
        BY <4>1 DEF reading, NoRead, Closed
      <4>3. DirectoryTyped' /\ OneEach' /\ DirectoryRight'
        BY <3>1, <4>2 DEF DirectoryInv, DirectoryTyped, OneEach, DirectoryRight
      <4>4. ReadSoFar'
        <5>1. stable' \subseteq todo' \cup Range(new_list)
          BY <3>1, <4>1 DEF DirectoryInv, ReadSoFar
        <5>2. todo' \cap never' = {}
          BY <3>1, <4>1 DEF DirectoryInv, ReadSoFar
        <5> QED
          BY <3>1, <4>1, <4>2, <5>1, <5>2 DEF DirectoryInv, ReadSoFar, reading, names
      <4> QED
        BY <4>3, <4>4 DEF DirectoryInv
    <3> QED
      BY <3>2, <3>3
  <2>6. ASSUME NEW i \in 1..Len(children), Size(i) PROVE DirectoryInv'
    <3>1. children' = [children EXCEPT ![i].size = dirDisk[children[i].name]]
          /\ UNCHANGED <<dirDisk, todo, new_list, stable, never, childrenMade, events>>
      BY <2>6 DEF Size
    <3>2. children' \in Seq(Children) /\ Len(children') = Len(children)
          /\ \A k \in 1..Len(children) : children'[k].name = children[k].name /\ children'[k].id = children[k].id
      <4>0. children[i] \in Children
        BY DEF DirectoryInv, DirectoryTyped
      <4>1. children[i] \in Children /\ dirDisk[children[i].name] \in 0..2
        BY <4>0 DEF DirectoryInv, DirectoryTyped, Children
      <4>2. [children[i] EXCEPT !.size = dirDisk[children[i].name]] \in Children
        BY <4>1 DEF Children
      <4>3. children' = [children EXCEPT ![i] = [children[i] EXCEPT !.size = dirDisk[children[i].name]]]
        BY <3>1
      <4>4. \A k \in 1..Len(children) : children[k] \in Children
        BY DEF DirectoryInv, DirectoryTyped
      <4> QED
        BY <4>1, <4>2, <4>3, <4>4, ExceptSeq DEF DirectoryInv, DirectoryTyped, Children
    <3>3. names(children') = names(children)
      BY <3>2 DEF names
    <3>4. DirectoryTyped' /\ OneEach'
      BY <3>1, <3>2 DEF DirectoryInv, DirectoryTyped, OneEach
    <3> QED
      BY <3>1, <3>3, <3>4 DEF DirectoryInv, OneEach, ReadSoFar, DirectoryRight, reading
  <2> QED
    BY <2>1, <2>2, <2>3, <2>4, <2>5, <2>6, ReadDirKeeps, RemoveChildKeeps DEF DirectoryNext
<1>3. DirectoryInv => DirectoryRight
  BY DEF DirectoryInv
<1> QED
  BY <1>1, <1>2, <1>3, PTL DEF DirectorySpec

-----------------------------------------------------------------------------
(* SystemInfo: what the constructor counts, and the lines being read       *)

InfoFields == {"phase", "apic", "orig", "ids", "physical", "perCpu", "support", "enabled"}

\* The constructor: after one pass there is a package.
Constructed ==
    /\ DOMAIN info = InfoFields /\ info.physical \in Nat
    /\ \E S : info.ids \in Seq(S)
    /\ info.ids # <<>> => info.physical >= 1
    /\ info.phase = "start" => info.ids = <<>>
    /\ info.phase = "done" => info.ids # <<>> /\ affinity = info.orig

InfoLabels == {"new", "idle", "stamp", "cpus", "loads", "string"} \cup Updating
InfoTyped ==
    /\ machine \in Machines /\ now \in Nat /\ free \in Nat /\ uptime \in Nat
    /\ active \in SUBSET Callers /\ infoPc \in [Callers -> InfoLabels]
    /\ DOMAIN reg = Callers /\ DOMAIN cpus = Lines /\ DOMAIN reads = Lines
    /\ \A l \in Lines : DOMAIN cpus[l] = {"load", "seen", "mutex"} /\ cpus[l].mutex \in BOOLEAN
    /\ \A t \in Callers \ active : infoPc[t] = "new"

\* A line is read under its mutex, and then it is seen.
LinesRead ==
    \A l \in Lines :
        /\ cpus[l].seen = reads[l][IF cpus[l].mutex THEN 1 ELSE 2]
        /\ ~cpus[l].mutex => \A m \in Modes : cpus[l].load[m] = reads[l][2][m] - reads[l][1][m]

\* The lines that a caller has yet to read; with "loads", what it has read comes first.
LinesLeft ==
    /\ \A t \in Callers : infoPc[t] = "cpus" => reg[t] \in Seq(Lines)
    /\ \A t \in Callers : infoPc[t] = "loads" =>
          /\ reg[t][2] \in Lines /\ cpus[reg[t][2]].mutex /\ reg[t][1] = reads[reg[t][2]][2]
          /\ SubSeq(reg[t], 3, Len(reg[t])) \in Seq(Lines)
    /\ \A t, u \in Callers : infoPc[t] = "loads" /\ infoPc[u] = "loads" /\ reg[t][2] = reg[u][2] => t = u

\* The used memory is what the total and the free memory say, once it is
\* written; while nobody has overlapped, there is one who writes.
MemoryAdds ==
    /\ DOMAIN mem = {"total", "free", "used"} /\ mem.total \in 0..(Wrap - 1) /\ mem.free \in 0..(Wrap - 1)
    /\ ~raced =>
        /\ \A t, u \in Callers : infoPc[t] \in Updating /\ infoPc[u] \in Updating => t = u
        /\ \A t \in Callers : infoPc[t] = "used" => reg[t][1] = (mem.total - mem.free) % Wrap
        /\ (\A t \in Callers : infoPc[t] \notin Updating) => (mem.used + mem.free) % Wrap = mem.total

\* With one caller, the text is that of the uptime.
UptimeShown ==
    \A t \in Callers : active = {t} =>
        /\ infoPc[t] = "string" => reg[t][1] = uptime
        /\ \A s \in str_uptime : s = shown(uptime)

InfoInv == Constructed /\ InfoTyped /\ LinesRead /\ LinesLeft /\ MemoryAdds /\ UptimeShown

\* The used memory and the free make up the total, whatever wraps.
LEMMA WrapsBack ==
    ASSUME NEW w \in Nat \ {0}, NEW a \in 0..(w - 1), NEW b \in 0..(w - 1)
    PROVE  (((a - b) % w) + b) % w = a
<1>1. ASSUME NEW x \in 0..(w - 1) PROVE x % w = x
  OBVIOUS
<1>2. CASE a >= b
  <2>1. a - b \in 0..(w - 1)
    BY <1>2
  <2>2. (a - b) % w = a - b
    BY <1>1, <2>1
  <2> QED
    BY <1>1, <2>2
<1>3. CASE a < b
  <2>1. (a - b) + w \in 0..(w - 1)
    BY <1>3
  <2>2. (a - b) % w = (a - b) + w
    BY <2>1
  <2>3. ((a - b) + w + b) = a + w
    OBVIOUS
  <2>4. (a + w) % w = a
    OBVIOUS
  <2> QED
    BY <2>2, <2>3, <2>4
<1> QED
  BY <1>2, <1>3

LEMMA ShownIsUptime ==
    ASSUME NEW u \in Nat
    PROVE  LET s == shown(u) IN s.secs + 60 * (s.mins + 60 * (s.hours + 24 * s.days)) = u
<1>1. u = (u % 60) + 60 * (u \div 60) /\ u \div 60 \in Nat
  OBVIOUS
<1>2. u \div 60 = ((u \div 60) % 60) + 60 * (u \div 3600)
  OBVIOUS
<1>3. u \div 3600 = ((u \div 3600) % 24) + 24 * (u \div 86400)
  OBVIOUS
<1> QED
  BY <1>1, <1>2, <1>3 DEF shown

\* A line is read before those that are left.
LEMMA ReadAhead ==
    ASSUME NEW S, NEW q \in Seq(S), q # <<>>, NEW s
    PROVE  LET r == <<s>> \o q IN
           r[1] = s /\ r[2] = Head(q) /\ Head(q) \in S /\ SubSeq(r, 3, Len(r)) \in Seq(S)
<1> DEFINE T == S \cup {s}
           r == <<s>> \o q
<1>1. q \in Seq(T) /\ <<s>> \in Seq(T) /\ Len(<<s>>) = 1 /\ <<s>>[1] = s /\ Len(q) \in Nat \ {0} /\ Head(q) = q[1]
  BY SeqMonotonic, EmptySeq
<1>2. /\ r \in Seq(T) /\ Len(r) = 1 + Len(q)
      /\ \A i \in 1..(1 + Len(q)) : r[i] = IF i <= 1 THEN <<s>>[i] ELSE q[i - 1]
  BY <1>1, ConcatProperties
<1> HIDE DEF r, T
<1>3. r[1] = s /\ r[2] = q[1] /\ q[1] \in S
  BY <1>1, <1>2
<1>4. \A i \in 3..Len(r) : r[i] \in S
  <2> SUFFICES ASSUME NEW i \in 3..Len(r) PROVE r[i] \in S
    OBVIOUS
  <2>1. r[i] = q[i - 1] /\ i - 1 \in 1..Len(q)
    BY <1>1, <1>2
  <2> QED
    BY <2>1
<1>5. SubSeq(r, 3, Len(r)) \in Seq(S)
  BY <1>1, <1>2, <1>4, SubSeqProperties
<1> QED
  BY <1>1, <1>3, <1>5 DEF r

LEMMA OrderOfLines == ASSUME machine \in Machines PROVE order \in Seq(Lines)
<1>1. Count \in Nat \ {0}
  BY MachinesAssumption, EmptySeq DEF Count
<1>2. Cardinality(Lines) = (IF Count > 1 THEN Count + 1 ELSE Count) /\ Cardinality(Lines) \in Nat
  <2>1. Cardinality(0..Count) = Count + 1 /\ Cardinality(1..Count) = Count
    BY <1>1, FS_Interval
  <2> QED
    BY <1>1, <2>1 DEF Lines
<1>3. \A k \in 1..Cardinality(Lines) : (IF k > Count THEN 0 ELSE k) \in Lines
  BY <1>1, <1>2 DEF Lines
<1> QED
  BY <1>2, <1>3 DEF order

LEMMA ConstructorKeeps ==
    ASSUME InfoInv, (\E c \in 1..Count : ReadApicId(c)) \/ PinTo \/ CountCores
    PROVE  InfoInv'
<1>1. UNCHANGED <<computer, instance, active, infoPc, reg, reads, raced>>
  BY DEF ReadApicId, PinTo, CountCores
<1>2. InfoTyped' /\ LinesRead' /\ LinesLeft' /\ MemoryAdds' /\ UptimeShown' /\ Count' = Count
  BY <1>1 DEF InfoInv, InfoTyped, LinesRead, LinesLeft, MemoryAdds, UptimeShown, computer, instance, Lines, Count, shown
<1>3. DOMAIN info = InfoFields /\ info.physical \in Nat /\ Count \in Nat \ {0}
  BY MachinesAssumption, EmptySeq DEF InfoInv, Constructed, InfoTyped, Count
<1>4. PICK S : info.ids \in Seq(S)
  BY DEF InfoInv, Constructed
<1>5. CASE \E c \in 1..Count : ReadApicId(c)
  BY <1>2, <1>3, <1>4, <1>5 DEF ReadApicId, InfoInv, Constructed, InfoFields
<1>6. CASE PinTo
  <2>1. PICK ids : /\ info'.ids = Append(info.ids, ids) /\ info'.phase = "pin" /\ DOMAIN info' = InfoFields
                   /\ info'.physical = IF \E k \in 1..Len(info.ids) : info.ids[k].package = ids.package
                                       THEN info.physical ELSE info.physical + 1
    BY <1>3, <1>6 DEF PinTo, InfoFields
  <2>2. info.ids \in Seq(S \cup {ids}) /\ Append(info.ids, ids) \in Seq(S \cup {ids})
    BY <1>4
  <2>3. info'.physical \in Nat /\ info'.physical >= 1
    <3>1. CASE info.ids = <<>>
      BY <1>3, <2>1, <3>1
    <3>2. CASE info.ids # <<>>
      BY <1>3, <2>1, <3>2 DEF InfoInv, Constructed
    <3> QED
      BY <3>1, <3>2
  <2> QED
    BY <1>2, <2>1, <2>2, <2>3 DEF InfoInv, Constructed
<1>7. CASE CountCores
  <2>1. Len(info.ids) = Count /\ affinity' = info.orig
    BY <1>7 DEF CountCores
  <2>2. info'.ids = info.ids /\ info'.physical = info.physical /\ info'.orig = info.orig /\ info'.phase = "done" /\ DOMAIN info' = InfoFields
    BY <1>3, <1>7 DEF CountCores, InfoFields
  <2>3. info.ids # <<>>
    BY <1>3, <1>4, <2>1
  <2> QED
    BY <1>2, <1>3, <1>4, <2>1, <2>2, <2>3 DEF InfoInv, Constructed
<1> QED
  BY <1>2, <1>5, <1>6, <1>7 DEF InfoInv

\* A caller moves on, and what the lines are is left alone.
LEMMA CallerMoves ==
    ASSUME InfoInv, NEW t \in Callers, NEW pc \in InfoLabels \ {"loads"}, NEW r,
           infoPc' = [infoPc EXCEPT ![t] = pc], reg' = [reg EXCEPT ![t] = r] \/ (UNCHANGED reg /\ r = reg[t]),
           pc = "cpus" => r \in Seq(Lines),
           pc # "new" => t \in active,
           UNCHANGED <<computer, affinity, info, cpus, active, reads>>, uptime' \in Nat
    PROVE  Constructed' /\ InfoTyped' /\ LinesRead' /\ LinesLeft'
<1>1. /\ infoPc' \in [Callers -> InfoLabels] /\ DOMAIN reg' = Callers /\ infoPc'[t] = pc /\ reg'[t] = r
      /\ \A u \in Callers \ {t} : infoPc'[u] = infoPc[u] /\ reg'[u] = reg[u]
  BY DEF InfoInv, InfoTyped
<1>2. Lines' = Lines
  BY DEF computer, Lines, Count
<1>3. Constructed' /\ LinesRead'
  BY <1>2 DEF InfoInv, Constructed, LinesRead
<1>4. InfoTyped'
  BY <1>1, <1>2 DEF InfoInv, InfoTyped, computer
<1>5. LinesLeft'
  BY <1>1, <1>2 DEF InfoInv, LinesLeft
<1> QED
  BY <1>3, <1>4, <1>5

\* A caller that does not write the memory leaves it as it is.
LEMMA MemoryStays ==
    ASSUME InfoInv, NEW t \in Callers, infoPc[t] \notin Updating, infoPc'[t] \notin Updating,
           \A u \in Callers \ {t} : infoPc'[u] = infoPc[u] /\ reg'[u] = reg[u],
           UNCHANGED <<mem, raced>>
    PROVE  MemoryAdds'
<1>1. \A u \in Callers : infoPc'[u] \in Updating <=> infoPc[u] \in Updating
  OBVIOUS
<1>2. \A u \in Callers : infoPc'[u] = "used" => infoPc[u] = "used" /\ reg'[u] = reg[u]
  BY DEF Updating
<1> QED
  BY <1>1, <1>2 DEF InfoInv, MemoryAdds

LEMMA CallersKeep ==
    ASSUME InfoInv, NEW t \in Callers,
           RefreshCheck(t) \/ RefreshStamp(t) \/ StrUptime(t) \/ StrUptimeDone(t)
    PROVE  InfoInv'
<1>1. DOMAIN reg = Callers /\ machine \in Machines /\ uptime \in Nat /\ now \in Nat /\ free \in Nat
      /\ infoPc \in [Callers -> InfoLabels] /\ \A u \in Callers : infoPc[u] # "new" => u \in active
  BY DEF InfoInv, InfoTyped
<1>2. CASE RefreshCheck(t)
  <2>0. PICK r : r = IF now - last_update < 2 THEN <<>> ELSE <<now>>
    OBVIOUS
  <2>1. PICK pc \in {"idle", "stamp"} : infoPc' = [infoPc EXCEPT ![t] = pc] /\ reg' = [reg EXCEPT ![t] = r]
    BY <1>2, <2>0 DEF RefreshCheck
  <2>2. t \in active /\ UNCHANGED <<computer, affinity, info, instance, active, reads, raced>>
    BY <1>2 DEF RefreshCheck
  <2>3. Constructed' /\ InfoTyped' /\ LinesRead' /\ LinesLeft'
    BY <1>1, <2>1, <2>2, CallerMoves DEF instance, InfoLabels
  <2>4. \A u \in Callers : infoPc'[u] = "string" => infoPc[u] = "string" /\ reg'[u] = reg[u]
    BY <1>1, <2>1 DEF InfoInv, InfoTyped
  <2>5. MemoryAdds'
    BY <1>1, <1>2, <2>1, <2>2, MemoryStays DEF RefreshCheck, Updating, instance
  <2> QED
    BY <2>2, <2>3, <2>4, <2>5 DEF InfoInv, UptimeShown, instance, shown
<1>3. CASE RefreshStamp(t)
  <2>1. infoPc' = [infoPc EXCEPT ![t] = "cpus"] /\ reg' = [reg EXCEPT ![t] = order] /\ t \in active
        /\ UNCHANGED <<computer, affinity, info, cpus, mem, uptime, str_uptime, active, reads, raced>>
    BY <1>1, <1>3 DEF RefreshStamp
  <2>2. Constructed' /\ InfoTyped' /\ LinesRead' /\ LinesLeft'
    BY <1>1, <2>1, OrderOfLines, CallerMoves DEF InfoLabels
  <2>3. \A u \in Callers : infoPc'[u] = "string" => infoPc[u] = "string" /\ reg'[u] = reg[u]
    BY <1>1, <2>1 DEF InfoInv, InfoTyped
  <2>4. MemoryAdds'
    BY <1>1, <1>3, <2>1, MemoryStays DEF RefreshStamp, Updating
  <2> QED
    BY <2>1, <2>2, <2>3, <2>4 DEF InfoInv, UptimeShown, shown
<1>4. CASE StrUptime(t)
  <2>1. infoPc' = [infoPc EXCEPT ![t] = "string"] /\ reg' = [reg EXCEPT ![t] = <<uptime>>] /\ t \in active
        /\ UNCHANGED <<computer, affinity, info, instance, active, reads, raced>>
    BY <1>1, <1>4 DEF StrUptime
  <2>2. Constructed' /\ InfoTyped' /\ LinesRead' /\ LinesLeft'
    BY <1>1, <2>1, CallerMoves DEF instance, InfoLabels
  <2>3. \A u \in Callers : infoPc'[u] = "string" =>
            \/ u = t /\ reg'[u] = <<uptime>>
            \/ infoPc[u] = "string" /\ reg'[u] = reg[u]
    BY <1>1, <2>1 DEF InfoInv, InfoTyped
  <2>4. MemoryAdds'
    BY <1>1, <1>4, <2>1, MemoryStays DEF StrUptime, Updating, instance
  <2> QED
    BY <2>1, <2>2, <2>3, <2>4 DEF InfoInv, UptimeShown, instance, shown
<1>5. CASE StrUptimeDone(t)
  <2>1. infoPc' = [infoPc EXCEPT ![t] = "idle"] /\ reg' = [reg EXCEPT ![t] = <<>>] /\ t \in active
        /\ infoPc[t] = "string" /\ str_uptime' = {shown(reg[t][1])}
        /\ UNCHANGED <<computer, affinity, info, last_update, cpus, mem, uptime, active, reads, raced>>
    BY <1>1, <1>5 DEF StrUptimeDone
  <2>2. Constructed' /\ InfoTyped' /\ LinesRead' /\ LinesLeft'
    BY <1>1, <2>1, CallerMoves DEF InfoLabels
  <2>3. \A u \in Callers : infoPc'[u] = "string" => infoPc[u] = "string" /\ reg'[u] = reg[u]
    BY <1>1, <2>1 DEF InfoInv, InfoTyped
  <2>4. \A u \in Callers : active = {u} => reg[t][1] = uptime
    BY <2>1 DEF InfoInv, UptimeShown
  <2>5. UptimeShown'
    BY <2>1, <2>3, <2>4 DEF InfoInv, UptimeShown, shown
  <2>6. MemoryAdds'
    BY <1>1, <2>1, MemoryStays DEF Updating
  <2> QED
    BY <2>1, <2>2, <2>5, <2>6 DEF InfoInv
<1> QED
  BY <1>2, <1>3, <1>4, <1>5

LEMMA MemoryKeeps ==
    ASSUME InfoInv, NEW t \in Callers,
           UpdateUptime(t) \/ WriteTotal(t) \/ WriteFree(t) \/ LoadUsed(t) \/ StoreUsed(t)
    PROVE  InfoInv'
<1>1. /\ DOMAIN reg = Callers /\ machine \in Machines /\ uptime \in Nat /\ now \in Nat /\ free \in Nat
      /\ infoPc \in [Callers -> InfoLabels] /\ \A u \in Callers : infoPc[u] # "new" => u \in active
  BY DEF InfoInv, InfoTyped
<1>2. /\ DOMAIN mem = {"total", "free", "used"} /\ mem.total \in 0..(Wrap - 1) /\ mem.free \in 0..(Wrap - 1)
      /\ Wrap \in Nat \ {0} /\ machine.memory \in Nat
  BY <1>1, MachinesAssumption, UnitsAssumption DEF InfoInv, MemoryAdds
\* Whatever a step writes, the lines are left alone.
<1>3. ASSUME NEW pc \in {"total", "free", "load", "used", "idle"}, NEW r,
             infoPc' = [infoPc EXCEPT ![t] = pc], reg' = [reg EXCEPT ![t] = r] \/ (UNCHANGED reg /\ r = reg[t]),
             infoPc[t] # "new", UNCHANGED <<computer, affinity, info, cpus, active, reads>>, uptime' \in Nat
      PROVE  Constructed' /\ InfoTyped' /\ LinesRead' /\ LinesLeft'
  <2>1. pc \in InfoLabels \ {"loads"} /\ pc # "cpus" /\ t \in active
    BY <1>1, <1>3 DEF InfoLabels, Updating
  <2> QED
    BY <1>3, <2>1, CallerMoves
<1>4. CASE UpdateUptime(t)
  <2>1. /\ infoPc' = [infoPc EXCEPT ![t] = "total"] /\ UNCHANGED reg /\ infoPc[t] # "new"
        /\ UNCHANGED <<computer, affinity, info, cpus, active, reads, mem>>
        /\ uptime' = Boot + now \div 2 /\ str_uptime' = {}
        /\ raced' = (raced \/ \E u \in Callers : infoPc[u] \in Updating)
    BY <1>4 DEF UpdateUptime
  <2>2. uptime' \in Nat
    BY <1>1, <2>1, UnitsAssumption
  <2>3. Constructed' /\ InfoTyped' /\ LinesRead' /\ LinesLeft'
    BY <1>3, <2>1, <2>2
  <2>4. infoPc'[t] = "total" /\ \A u \in Callers \ {t} : infoPc'[u] = infoPc[u]
    BY <1>1, <2>1
  <2>5. MemoryAdds'
    <3>1. ~raced' => \A u \in Callers \ {t} : infoPc'[u] \notin Updating
      BY <2>1, <2>4
    <3> QED
      BY <1>2, <2>1, <2>4, <3>1 DEF MemoryAdds, Updating
  <2>6. UptimeShown'
    <3> SUFFICES ASSUME NEW u \in Callers, active' = {u} PROVE infoPc'[u] # "string"
      BY <2>1 DEF UptimeShown
    <3> QED
      BY <1>1, <2>1, <2>4
  <2> QED
    BY <2>3, <2>5, <2>6 DEF InfoInv
<1>5. ASSUME NEW from \in Updating, NEW to \in {"free", "load", "used", "idle"}, MemoryStep(t, from, to), NEW r,
             reg' = [reg EXCEPT ![t] = r] \/ (UNCHANGED reg /\ r = reg[t])
      PROVE  /\ Constructed' /\ InfoTyped' /\ LinesRead' /\ LinesLeft' /\ UptimeShown' /\ UNCHANGED raced
             /\ infoPc[t] = from /\ infoPc'[t] = to /\ reg'[t] = r
             /\ \A u \in Callers \ {t} : infoPc'[u] = infoPc[u] /\ reg'[u] = reg[u]
             /\ ~raced => \A u \in Callers \ {t} : infoPc[u] \notin Updating
  <2>1. /\ infoPc[t] = from /\ infoPc' = [infoPc EXCEPT ![t] = to] /\ infoPc[t] # "new"
        /\ UNCHANGED <<computer, affinity, info, last_update, cpus, uptime, str_uptime, active, reads, raced>>
    BY <1>5 DEF MemoryStep, Updating
  <2>2. Constructed' /\ InfoTyped' /\ LinesRead' /\ LinesLeft'
    BY <1>1, <1>3, <1>5, <2>1
  <2>3. /\ infoPc'[t] = to /\ reg'[t] = r /\ to # "string"
        /\ \A u \in Callers \ {t} : infoPc'[u] = infoPc[u] /\ reg'[u] = reg[u]
    BY <1>1, <1>5, <2>1
  <2>4. UptimeShown'
    BY <2>1, <2>3 DEF InfoInv, UptimeShown, shown
  <2>5. ~raced => \A u \in Callers \ {t} : infoPc[u] \notin Updating
    BY <1>5, <2>1 DEF InfoInv, MemoryAdds
  <2> QED
    BY <2>1, <2>2, <2>3, <2>4, <2>5
<1>6. CASE WriteTotal(t)
  <2>1. MemoryStep(t, "total", "free") /\ mem' = [mem EXCEPT !.total = machine.memory % Wrap] /\ UNCHANGED reg
    BY <1>6 DEF WriteTotal
  <2>2. PICK r : r = reg[t]
    OBVIOUS
  <2>3. /\ Constructed' /\ InfoTyped' /\ LinesRead' /\ LinesLeft' /\ UptimeShown' /\ UNCHANGED raced /\ infoPc'[t] = "free"
        /\ \A u \in Callers \ {t} : infoPc'[u] = infoPc[u]
        /\ ~raced => \A u \in Callers \ {t} : infoPc[u] \notin Updating
    BY <1>5, <2>1, <2>2 DEF Updating
  <2>4. machine.memory % Wrap \in 0..(Wrap - 1)
    BY <1>2
  <2> QED
    BY <1>2, <2>1, <2>3, <2>4 DEF InfoInv, MemoryAdds, Updating
<1>7. CASE WriteFree(t)
  <2>1. MemoryStep(t, "free", "load") /\ mem' = [mem EXCEPT !.free = free % Wrap] /\ UNCHANGED reg
    BY <1>7 DEF WriteFree
  <2>2. PICK r : r = reg[t]
    OBVIOUS
  <2>3. /\ Constructed' /\ InfoTyped' /\ LinesRead' /\ LinesLeft' /\ UptimeShown' /\ UNCHANGED raced /\ infoPc'[t] = "load"
        /\ \A u \in Callers \ {t} : infoPc'[u] = infoPc[u]
        /\ ~raced => \A u \in Callers \ {t} : infoPc[u] \notin Updating
    BY <1>5, <2>1, <2>2 DEF Updating
  <2>4. free % Wrap \in 0..(Wrap - 1)
    BY <1>1, <1>2
  <2> QED
    BY <1>2, <2>1, <2>3, <2>4 DEF InfoInv, MemoryAdds, Updating
<1>8. CASE LoadUsed(t)
  <2>1. /\ MemoryStep(t, "load", "used") /\ UNCHANGED mem
        /\ reg' = [reg EXCEPT ![t] = <<(mem.total - mem.free) % Wrap>>]
    BY <1>8 DEF LoadUsed
  <2>2. PICK r : r = <<(mem.total - mem.free) % Wrap>>
    OBVIOUS
  <2>3. MemoryStep(t, "load", "used") /\ reg' = [reg EXCEPT ![t] = r]
    BY <2>1, <2>2
  <2>4. /\ Constructed' /\ InfoTyped' /\ LinesRead' /\ LinesLeft' /\ UptimeShown' /\ UNCHANGED raced /\ infoPc'[t] = "used"
        /\ \A u \in Callers \ {t} : infoPc'[u] = infoPc[u]
        /\ ~raced => \A u \in Callers \ {t} : infoPc[u] \notin Updating
    BY <1>5, <2>3 DEF Updating
  <2>5. reg'[t][1] = (mem.total - mem.free) % Wrap
    BY <1>1, <2>1
  <2> QED
    BY <1>2, <2>1, <2>4, <2>5 DEF InfoInv, MemoryAdds, Updating
<1>9. CASE StoreUsed(t)
  <2>1. MemoryStep(t, "used", "idle") /\ mem' = [mem EXCEPT !.used = reg[t][1]] /\ reg' = [reg EXCEPT ![t] = <<>>]
    BY <1>9 DEF StoreUsed
  <2>2. PICK r : r = <<>>
    OBVIOUS
  <2>3. /\ Constructed' /\ InfoTyped' /\ LinesRead' /\ LinesLeft' /\ UptimeShown' /\ UNCHANGED raced
        /\ infoPc[t] = "used" /\ infoPc'[t] = "idle"
        /\ \A u \in Callers \ {t} : infoPc'[u] = infoPc[u]
        /\ ~raced => \A u \in Callers \ {t} : infoPc[u] \notin Updating
    BY <1>5, <2>1, <2>2 DEF Updating
  <2>4. ~raced => mem'.used = (mem.total - mem.free) % Wrap
    BY <1>2, <2>1, <2>3 DEF InfoInv, MemoryAdds
  <2>5. mem'.total = mem.total /\ mem'.free = mem.free /\ DOMAIN mem' = DOMAIN mem
    BY <1>2, <2>1
  <2>6. ~raced => (mem'.used + mem'.free) % Wrap = mem'.total
    BY <1>2, <2>4, <2>5, WrapsBack
  <2> QED
    BY <1>2, <2>3, <2>5, <2>6 DEF InfoInv, MemoryAdds, Updating
<1> QED
  BY <1>4, <1>6, <1>7, <1>8, <1>9

\* One line changes, with its mutex, and one caller.
LEMMA LineChanges ==
    ASSUME InfoInv, NEW t \in Callers, NEW l \in Lines, NEW pc \in {"cpus", "loads"}, NEW r, NEW c,
           infoPc' = [infoPc EXCEPT ![t] = pc], reg' = [reg EXCEPT ![t] = r], t \in active,
           cpus' = [cpus EXCEPT ![l] = c], DOMAIN reads' = Lines, \A k \in Lines \ {l} : reads'[k] = reads[k],
           DOMAIN c = {"load", "seen", "mutex"}, c.mutex \in BOOLEAN,
           c.seen = reads'[l][IF c.mutex THEN 1 ELSE 2], c.mutex <=> pc = "loads",
           ~c.mutex => \A m \in Modes : c.load[m] = reads'[l][2][m] - reads'[l][1][m],
           pc = "cpus" => r \in Seq(Lines),
           pc = "loads" => r[2] = l /\ r[1] = reads'[l][2] /\ SubSeq(r, 3, Len(r)) \in Seq(Lines) /\ ~cpus[l].mutex,
           pc = "cpus" => infoPc[t] = "loads" /\ reg[t][2] = l,
           infoPc[t] \notin Updating,
           UNCHANGED <<computer, affinity, info, last_update, mem, uptime, str_uptime, active, raced>>
    PROVE  InfoInv'
<1>1. /\ infoPc' \in [Callers -> InfoLabels] /\ DOMAIN reg' = Callers /\ infoPc'[t] = pc /\ reg'[t] = r
      /\ \A u \in Callers \ {t} : infoPc'[u] = infoPc[u] /\ reg'[u] = reg[u]
  BY DEF InfoInv, InfoTyped, InfoLabels
<1>2. Lines' = Lines
  BY DEF computer, Lines, Count
<1>3. /\ DOMAIN cpus' = Lines /\ DOMAIN reads' = Lines /\ cpus'[l] = c
      /\ \A k \in Lines \ {l} : cpus'[k] = cpus[k] /\ reads'[k] = reads[k]
  BY DEF InfoInv, InfoTyped
<1>4. Constructed'
  BY DEF InfoInv, Constructed
<1>5. InfoTyped'
  BY <1>1, <1>2, <1>3 DEF InfoInv, InfoTyped, computer
<1>6. LinesRead'
  BY <1>2, <1>3 DEF InfoInv, LinesRead
\* Nobody else reads this line.
<1>7. \A u \in Callers \ {t} : infoPc[u] = "loads" => reg[u][2] # l
  BY DEF InfoInv, LinesLeft
<1>8. LinesLeft'
  BY <1>1, <1>2, <1>3, <1>7 DEF InfoInv, LinesLeft
<1>9. UptimeShown' /\ MemoryAdds'
  BY <1>1, MemoryStays DEF InfoInv, UptimeShown, Updating, shown
<1> QED
  BY <1>4, <1>5, <1>6, <1>8, <1>9 DEF InfoInv

LEMMA ReadersKeep ==
    ASSUME InfoInv, NEW t \in Callers, ReadStat(t) \/ update_times(t)
    PROVE  InfoInv'
<1>1. infoPc[t] # "new" => t \in active
  BY DEF InfoInv, InfoTyped
<1>2. CASE ReadStat(t)
  <2>1. PICK l, n : l = Head(reg[t]) /\ n = stat(jiffies, l)
    OBVIOUS
  <2>2. PICK r, s : r = <<n>> \o reg[t] /\ s = <<reads[l][2], n>>
    OBVIOUS
  <2>3. infoPc[t] = "cpus" /\ reg[t] # <<>> /\ reg[t] \in Seq(Lines) /\ ~cpus[l].mutex
    BY <1>2, <2>1 DEF ReadStat, InfoInv, LinesLeft
  <2>4. r[1] = n /\ r[2] = l /\ l \in Lines /\ SubSeq(r, 3, Len(r)) \in Seq(Lines)
    BY <2>1, <2>2, <2>3, ReadAhead
  <2>5. PICK c : c = [cpus[l] EXCEPT !.mutex = TRUE]
    OBVIOUS
  <2>6. DOMAIN c = {"load", "seen", "mutex"} /\ c.mutex = TRUE /\ c.seen = cpus[l].seen /\ cpus[l].seen = reads[l][2]
    BY <2>3, <2>4, <2>5 DEF InfoInv, InfoTyped, LinesRead
  <2>7. /\ infoPc' = [infoPc EXCEPT ![t] = "loads"] /\ reg' = [reg EXCEPT ![t] = r]
        /\ cpus' = [cpus EXCEPT ![l] = c] /\ reads' = [reads EXCEPT ![l] = s]
        /\ UNCHANGED <<computer, affinity, info, last_update, mem, uptime, str_uptime, active, raced>>
    BY <1>2, <2>1, <2>2, <2>5 DEF ReadStat
  <2>8. /\ DOMAIN reads' = Lines /\ reads'[l][1] = reads[l][2] /\ reads'[l][2] = n
        /\ \A k \in Lines \ {l} : reads'[k] = reads[k]
    BY <2>2, <2>4, <2>7 DEF InfoInv, InfoTyped
  <2>9. /\ DOMAIN c = {"load", "seen", "mutex"} /\ c.mutex = TRUE /\ c.seen = reads'[l][1]
        /\ r[2] = l /\ r[1] = reads'[l][2] /\ SubSeq(r, 3, Len(r)) \in Seq(Lines) /\ ~cpus[l].mutex
        /\ t \in active /\ l \in Lines
    BY <1>1, <2>3, <2>4, <2>6, <2>8
  <2>10. /\ infoPc' = [infoPc EXCEPT ![t] = "loads"] /\ reg' = [reg EXCEPT ![t] = r] /\ cpus' = [cpus EXCEPT ![l] = c]
         /\ DOMAIN reads' = Lines /\ \A k \in Lines \ {l} : reads'[k] = reads[k]
         /\ UNCHANGED <<computer, affinity, info, last_update, mem, uptime, str_uptime, active, raced>>
    BY <2>7, <2>8
  <2> QED
    BY <2>3, <2>9, <2>10, LineChanges DEF Updating
<1>3. CASE update_times(t)
  <2>1. PICK l, n : l = reg[t][2] /\ n = reg[t][1]
    OBVIOUS
  <2>2. /\ infoPc[t] = "loads" /\ l \in Lines /\ cpus[l].mutex /\ n = reads[l][2]
        /\ SubSeq(reg[t], 3, Len(reg[t])) \in Seq(Lines)
    BY <1>3, <2>1 DEF update_times, InfoInv, LinesLeft
  <2>3. PICK c : c = [load |-> [m \in Modes |-> n[m] - cpus[l].seen[m]], seen |-> n, mutex |-> FALSE]
    OBVIOUS
  <2>4. DOMAIN c = {"load", "seen", "mutex"} /\ c.mutex = FALSE /\ c.seen = n
        /\ \A m \in Modes : c.load[m] = n[m] - cpus[l].seen[m]
    BY <2>3
  <2>5. cpus[l].seen = reads[l][1]
    BY <2>2 DEF InfoInv, LinesRead
  <2>6. /\ infoPc' = [infoPc EXCEPT ![t] = "cpus"] /\ reg' = [reg EXCEPT ![t] = SubSeq(reg[t], 3, Len(reg[t]))]
        /\ cpus' = [cpus EXCEPT ![l] = c] /\ UNCHANGED reads
        /\ UNCHANGED <<computer, affinity, info, last_update, mem, uptime, str_uptime, active, raced>>
    BY <1>3, <2>1, <2>3 DEF update_times
  <2>7. PICK r : r = SubSeq(reg[t], 3, Len(reg[t]))
    OBVIOUS
  <2>8. /\ c.seen = reads'[l][2] /\ \A m \in Modes : c.load[m] = reads'[l][2][m] - reads'[l][1][m]
        /\ r \in Seq(Lines) /\ reg' = [reg EXCEPT ![t] = r]
    BY <2>2, <2>4, <2>5, <2>6, <2>7
  <2>9. /\ infoPc' = [infoPc EXCEPT ![t] = "cpus"] /\ cpus' = [cpus EXCEPT ![l] = c]
        /\ DOMAIN reads' = Lines /\ \A k \in Lines \ {l} : reads'[k] = reads[k]
        /\ t \in active /\ l \in Lines /\ infoPc[t] = "loads" /\ reg[t][2] = l
        /\ UNCHANGED <<computer, affinity, info, last_update, mem, uptime, str_uptime, active, raced>>
    BY <1>1, <2>1, <2>2, <2>6 DEF InfoInv, InfoTyped
  <2>10. DOMAIN c = {"load", "seen", "mutex"} /\ c.mutex = FALSE
    BY <2>4
  <2> QED
    BY <2>8, <2>9, <2>10, LineChanges DEF Updating
<1> QED
  BY <1>2, <1>3

(* However many callers share the instance, and whatever machine it runs   *)
(* on: the load of every line is what it gained between two reads that     *)
(* follow one another, the process may run where it might before, used and *)
(* free memory are the total when nobody writes them and no two callers    *)
(* ever did so at once, and with one caller the text is that of the uptime *)
(* (SystemInfo.cpp:33-228, linux/SystemInfo.cpp:151-190).                  *)
THEOREM InfoStaysRight == InfoSpec => []SystemInfoRight
<1>1. InfoInit => InfoInv
  <2> SUFFICES ASSUME InfoInit PROVE InfoInv
    OBVIOUS
  <2>1. /\ machine \in Machines /\ now = 2 /\ free = 0 /\ uptime = 0 /\ str_uptime = {} /\ mem.used = 0 /\ mem.free = 0
        /\ mem.total = 0 /\ infoPc = [t \in Callers |-> "new"] /\ reg = [t \in Callers |-> <<>>]
        /\ cpus = [l \in Lines |-> Unread] /\ reads = [l \in Lines |-> <<Zero, Zero>>]
    BY DEF InfoInit
  <2>2. Constructed
    BY DEF InfoInit, Constructed, InfoFields
  <2>3. active \in SUBSET Callers
    BY UnitsAssumption DEF InfoInit
  <2>4. InfoTyped
    BY <2>1, <2>3 DEF InfoTyped, InfoLabels, Unread
  <2>5. LinesRead
    BY <2>1 DEF LinesRead, Unread, Zero
  <2>6. MemoryAdds
    BY <2>1, UnitsAssumption DEF MemoryAdds, InfoInit, Updating
  <2> QED
    BY <2>1, <2>2, <2>4, <2>5, <2>6 DEF InfoInv, LinesLeft, UptimeShown
<1>2. InfoInv /\ [InfoNext]_infoVars => InfoInv'
  <2> SUFFICES ASSUME InfoInv, [InfoNext]_infoVars PROVE InfoInv'
    OBVIOUS
  <2>1. CASE UNCHANGED infoVars
    BY <2>1 DEF infoVars, computer, instance, InfoInv, Constructed, InfoTyped, LinesRead, LinesLeft, MemoryAdds,
                UptimeShown, Lines, Count, shown
  <2>2. ASSUME NEW modes \in Loads, Elapse(modes, now % machine.memory) PROVE InfoInv'
    <3>1. /\ now' = now + 1 /\ free' = now % machine.memory
          /\ UNCHANGED <<machine, affinity, info, instance, active, infoPc, reg, reads, raced>>
      BY <2>2 DEF Elapse
    <3>2. now' \in Nat /\ free' \in Nat
      <4>1. now \in Nat /\ machine.memory \in Nat \ {0}
        BY MachinesAssumption DEF InfoInv, InfoTyped
      <4> QED
        BY <3>1, <4>1
    <3> QED
      BY <3>1, <3>2 DEF instance, InfoInv, Constructed, InfoTyped, LinesRead, LinesLeft, MemoryAdds,
                        UptimeShown, Lines, Count, shown
  <2> QED
    BY <2>1, <2>2, ConstructorKeeps, CallersKeep, MemoryKeeps, ReadersKeep DEF InfoNext
<1>3. InfoInv => SystemInfoRight
  <2> SUFFICES ASSUME InfoInv PROVE SystemInfoRight
    OBVIOUS
  <2>1. info.phase = "done" => affinity = info.orig /\ info.physical >= 1
    BY DEF InfoInv, Constructed
  <2>2. ASSUME Cardinality(active) = 1, NEW s \in str_uptime
        PROVE  s.secs + 60 * (s.mins + 60 * (s.hours + 24 * s.days)) = uptime
    <3>1. IsFiniteSet(active)
      BY UnitsAssumption, FS_Subset DEF InfoInv, InfoTyped
    <3>2. PICK t : active = {t}
      BY <2>2, <3>1, FS_Singleton
    <3>3. s = shown(uptime) /\ uptime \in Nat
      BY <3>2 DEF InfoInv, InfoTyped, UptimeShown
    <3> QED
      BY <3>3, ShownIsUptime
  <2> QED
    BY <2>1, <2>2 DEF InfoInv, LinesRead, MemoryAdds, SystemInfoRight
<1> QED
  BY <1>1, <1>2, <1>3, PTL DEF InfoSpec

-----------------------------------------------------------------------------
(* Triggers: the vectors, and the loop over one of them                    *)

Trigger == [id : 1..MaxTriggers, actions : Actions, checks : Nat, value : Keywords \cup Values]

\* The triggers of a kind, in the order in which they were added.
Vectors ==
    /\ triggers \in [TriggerKinds -> Seq(Trigger)] /\ triggersMade \in 0..MaxTriggers
    /\ \A k \in TriggerKinds : \A p, q \in 1..Len(triggers[k]) : p < q => triggers[k][p].id < triggers[k][q].id
    /\ \A k \in TriggerKinds : \A p \in 1..Len(triggers[k]) : triggers[k][p].id <= triggersMade
    /\ \A p \in 1..Len(triggers["keyword"]), q \in 1..Len(triggers["value"]) :
          triggers["keyword"][p].id # triggers["value"][q].id

\* A trigger is in its vector, freed once, or was removed.
inVector(i) == \E k \in TriggerKinds : \E p \in 1..Len(triggers[k]) : triggers[k][p].id = i
Freed ==
    /\ deleted \in [1..MaxTriggers -> {0, 1}]
    /\ \A i \in 1..MaxTriggers : inVector(i) \/ i > triggersMade => deleted[i] = 0
    /\ \A i \in 1..triggersMade : inVector(i) \/ deleted[i] = 1 \/ i \in removed

\* What the loop has not come to is the end of the vector that there was when
\* it began; the listeners have heard of what was met before.
metIn(last) ==
    {triggersBefore[p].id : p \in {q \in 1..Len(triggersBefore) : q <= last /\ check(triggersBefore[q], data)}}
erasedSoFar == Len(triggersBefore) - Len(triggers[data.kind])
Loop ==
    data # NoData =>
        /\ data \in Data /\ triggersBefore \in Seq(Trigger) /\ iter \in Nat /\ toldOf \in Seq(1..MaxTriggers)
        /\ iter <= Len(triggers[data.kind]) /\ erasedSoFar >= 0
        /\ \A p, q \in 1..Len(triggersBefore) : p < q => triggersBefore[p].id < triggersBefore[q].id
        /\ \A p \in 1..Len(triggers[data.kind]) :
              p > iter => triggers[data.kind][p] = triggersBefore[p + erasedSoFar]
        /\ Range(toldOf) = metIn(iter + erasedSoFar)
        /\ \A m, n \in 1..Len(toldOf) : m < n => toldOf[m] < toldOf[n]

TriggersInv == Vectors /\ Freed /\ Loop

LEMMA Kinds ==
    ASSUME MaxTriggers \in Nat, TriggersInv, data # NoData
    PROVE  data.kind \in TriggerKinds
BY DEF TriggersInv, Loop, Data, TriggerKinds

LEMMA AddTriggerKeeps ==
    ASSUME MaxTriggers \in Nat, TriggersInv, NEW k \in TriggerKinds, NEW a \in Actions, NEW c \in Nat,
           NEW v \in Keywords \cup Values, addTrigger(k, a, c, v)
    PROVE  TriggersInv'
<1> DEFINE t == [id |-> triggersMade', actions |-> a, checks |-> c, value |-> v]
<1>1. /\ triggersMade < MaxTriggers /\ triggersMade' = triggersMade + 1 /\ data' = NoData
      /\ triggers' = [triggers EXCEPT ![k] = Append(triggers[k], t)] /\ UNCHANGED <<deleted, removed>>
  BY DEF addTrigger
<1>2. t \in Trigger /\ t.id = triggersMade + 1 /\ triggersMade \in Nat /\ triggersMade' \in 0..MaxTriggers
  BY <1>1 DEF Trigger, TriggersInv, Vectors
<1> HIDE DEF t
<1>3. /\ triggers' \in [TriggerKinds -> Seq(Trigger)] /\ Len(triggers'[k]) = Len(triggers[k]) + 1
      /\ Len(triggers[k]) \in Nat
      /\ \A p \in 1..Len(triggers[k]) : triggers'[k][p] = triggers[k][p]
      /\ triggers'[k][Len(triggers[k]) + 1] = t
      /\ \A j \in TriggerKinds \ {k} : triggers'[j] = triggers[j]
  BY <1>1, <1>2 DEF TriggersInv, Vectors
<1>4. \A p \in 1..Len(triggers'[k]) : p \in 1..Len(triggers[k]) \/ p = Len(triggers[k]) + 1
  BY <1>3
<1>5. \A j \in TriggerKinds : \A p \in 1..Len(triggers[j]) : triggers[j][p] \in Trigger /\ triggers[j][p].id \in Nat
  <2>1. \A j \in TriggerKinds : \A p \in 1..Len(triggers[j]) : triggers[j][p] \in Trigger
    BY DEF TriggersInv, Vectors
  <2> QED
    BY <2>1 DEF Trigger
<1>6. Vectors'
  <2>1. \A j \in TriggerKinds : \A p, q \in 1..Len(triggers'[j]) :
            p < q => triggers'[j][p].id < triggers'[j][q].id
    <3>1. ASSUME NEW p \in 1..Len(triggers'[k]), NEW q \in 1..Len(triggers'[k]), p < q
          PROVE  triggers'[k][p].id < triggers'[k][q].id
      <4>1. p \in 1..Len(triggers[k])
        BY <1>3, <1>4, <3>1
      <4>2. CASE q \in 1..Len(triggers[k])
        BY <1>3, <3>1, <4>1, <4>2 DEF TriggersInv, Vectors
      <4>3. CASE q = Len(triggers[k]) + 1
        <5>1. triggers'[k][p].id <= triggersMade /\ triggers'[k][p].id \in Nat
          BY <1>3, <1>5, <4>1 DEF TriggersInv, Vectors
        <5> QED
          BY <1>2, <1>3, <4>3, <5>1
      <4> QED
        BY <1>4, <4>2, <4>3
    <3> QED
      BY <1>3, <3>1 DEF TriggersInv, Vectors
  <2>2. \A j \in TriggerKinds : \A p \in 1..Len(triggers'[j]) : triggers'[j][p].id <= triggersMade'
    BY <1>1, <1>2, <1>3, <1>4, <1>5 DEF TriggersInv, Vectors
  <2>3. \A p \in 1..Len(triggers'["keyword"]), q \in 1..Len(triggers'["value"]) :
            triggers'["keyword"][p].id # triggers'["value"][q].id
    BY <1>1, <1>2, <1>3, <1>4, <1>5 DEF TriggersInv, Vectors, TriggerKinds
  <2> QED
    BY <1>2, <1>3, <2>1, <2>2, <2>3 DEF Vectors
<1>7. \A i \in 1..MaxTriggers : inVector(i)' <=> inVector(i) \/ i = triggersMade + 1
  <2> SUFFICES ASSUME NEW i \in 1..MaxTriggers PROVE inVector(i)' <=> inVector(i) \/ i = triggersMade + 1
    OBVIOUS
  <2>1. ASSUME inVector(i) PROVE inVector(i)'
    <3>1. PICK j \in TriggerKinds : \E p \in 1..Len(triggers[j]) : triggers[j][p].id = i
      BY <2>1 DEF inVector
    <3>2. PICK p \in 1..Len(triggers[j]) : triggers[j][p].id = i
      BY <3>1
    <3>3. p \in 1..Len(triggers'[j]) /\ triggers'[j][p] = triggers[j][p]
      BY <1>3
    <3> QED
      BY <3>2, <3>3 DEF inVector
  <2>2. ASSUME i = triggersMade + 1 PROVE inVector(i)'
    BY <1>2, <1>3, <2>2 DEF inVector
  <2>3. ASSUME inVector(i)', i # triggersMade + 1 PROVE inVector(i)
    <3>1. PICK j \in TriggerKinds : \E p \in 1..Len(triggers'[j]) : triggers'[j][p].id = i
      BY <2>3 DEF inVector
    <3>2. PICK p \in 1..Len(triggers'[j]) : triggers'[j][p].id = i
      BY <3>1
    <3>3. p \in 1..Len(triggers[j]) /\ triggers'[j][p] = triggers[j][p]
      BY <1>2, <1>3, <1>4, <2>3, <3>2
    <3> QED
      BY <3>2, <3>3 DEF inVector
  <2> QED
    BY <2>1, <2>2, <2>3
<1>8. Freed'
  BY <1>1, <1>2, <1>7 DEF TriggersInv, Freed
<1> QED
  BY <1>1, <1>6, <1>8 DEF TriggersInv, Loop

\* One trigger of the loop's vector goes.
LEMMA Erased ==
    ASSUME MaxTriggers \in Nat, Vectors, NEW k \in TriggerKinds, NEW n \in 1..Len(triggers[k]),
           triggers' = [triggers EXCEPT ![k] = RemoveAt(triggers[k], n)], UNCHANGED triggersMade
    PROVE  /\ Vectors'
           /\ Len(triggers'[k]) = Len(triggers[k]) - 1
           /\ \A p \in 1..Len(triggers'[k]) : triggers'[k][p] = IF p < n THEN triggers[k][p] ELSE triggers[k][p + 1]
           /\ \A i \in 1..MaxTriggers : inVector(i)' <=> inVector(i) /\ i # triggers[k][n].id
<1> DEFINE old(p) == IF p < n THEN p ELSE p + 1
<1>1. triggers[k] \in Seq(Trigger) /\ Len(triggers[k]) \in Nat
  BY DEF Vectors
<1>2. /\ RemoveAt(triggers[k], n) \in Seq(Trigger) /\ Len(RemoveAt(triggers[k], n)) = Len(triggers[k]) - 1
      /\ \A p \in 1..(Len(triggers[k]) - 1) : RemoveAt(triggers[k], n)[p] = IF p < n THEN triggers[k][p] ELSE triggers[k][p + 1]
  BY <1>1, RemovedAt
<1>3. /\ triggers'[k] = RemoveAt(triggers[k], n) /\ triggers' \in [TriggerKinds -> Seq(Trigger)]
      /\ \A j \in TriggerKinds \ {k} : triggers'[j] = triggers[j]
  BY <1>2 DEF Vectors
<1>4. /\ Len(triggers'[k]) = Len(triggers[k]) - 1
      /\ \A p \in 1..Len(triggers'[k]) :
            triggers'[k][p] = triggers[k][old(p)] /\ old(p) \in 1..Len(triggers[k]) /\ old(p) # n
      /\ \A p, q \in 1..Len(triggers'[k]) : p < q => old(p) < old(q)
      /\ \A q \in 1..Len(triggers[k]) : q # n => \E p \in 1..Len(triggers'[k]) : old(p) = q
  <2>1. /\ Len(triggers'[k]) = Len(triggers[k]) - 1
        /\ \A p \in 1..Len(triggers'[k]) : triggers'[k][p] = triggers[k][old(p)]
    BY <1>2, <1>3
  <2>2. \A p \in 1..(Len(triggers[k]) - 1) : old(p) \in 1..Len(triggers[k]) /\ old(p) # n
    BY <1>1
  <2>3. \A p, q \in 1..(Len(triggers[k]) - 1) : p < q => old(p) < old(q)
    BY <1>1
  <2>4. ASSUME NEW q \in 1..Len(triggers[k]), q # n PROVE \E p \in 1..(Len(triggers[k]) - 1) : old(p) = q
    <3>1. CASE q < n
      BY <1>1, <3>1
    <3>2. CASE ~(q < n)
      <4>1. q - 1 \in 1..(Len(triggers[k]) - 1) /\ old(q - 1) = q
        BY <1>1, <2>4, <3>2
      <4> QED
        BY <4>1
    <3> QED
      BY <3>1, <3>2
  <2> QED
    BY <2>1, <2>2, <2>3, <2>4
<1>5. \A p \in 1..Len(triggers'[k]) : triggers'[k][p] = IF p < n THEN triggers[k][p] ELSE triggers[k][p + 1]
  BY <1>2, <1>3
<1> HIDE DEF old
<1>6. Vectors'
  <2>1. \A j \in TriggerKinds : \A p, q \in 1..Len(triggers'[j]) : p < q => triggers'[j][p].id < triggers'[j][q].id
    <3>1. \A p, q \in 1..Len(triggers'[k]) : p < q => triggers'[k][p].id < triggers'[k][q].id
      <4> SUFFICES ASSUME NEW p \in 1..Len(triggers'[k]), NEW q \in 1..Len(triggers'[k]), p < q
                   PROVE  triggers'[k][p].id < triggers'[k][q].id
        OBVIOUS
      <4>1. old(p) \in 1..Len(triggers[k]) /\ old(q) \in 1..Len(triggers[k]) /\ old(p) < old(q)
        BY <1>4
      <4>2. triggers[k][old(p)].id < triggers[k][old(q)].id
        BY <4>1 DEF Vectors
      <4> QED
        BY <1>4, <4>2
    <3>2. \A j \in TriggerKinds \ {k} : \A p, q \in 1..Len(triggers'[j]) : p < q => triggers'[j][p].id < triggers'[j][q].id
      BY <1>3 DEF Vectors
    <3> QED
      BY <3>1, <3>2
  <2>2. \A j \in TriggerKinds : \A p \in 1..Len(triggers'[j]) : triggers'[j][p].id <= triggersMade
    BY <1>3, <1>4 DEF Vectors
  <2>3. \A p \in 1..Len(triggers'["keyword"]), q \in 1..Len(triggers'["value"]) :
            triggers'["keyword"][p].id # triggers'["value"][q].id
    <3>1. CASE k = "keyword"
      BY SMTT(30), <1>3, <1>4, <3>1 DEF Vectors, TriggerKinds
    <3>2. CASE k = "value"
      BY SMTT(30), <1>3, <1>4, <3>2 DEF Vectors, TriggerKinds
    <3> QED
      BY <3>1, <3>2 DEF TriggerKinds
  <2> QED
    BY <1>3, <2>1, <2>2, <2>3 DEF Vectors
<1>7. ASSUME NEW i \in 1..MaxTriggers PROVE inVector(i)' <=> inVector(i) /\ i # triggers[k][n].id
  <2>1. ASSUME inVector(i)' PROVE inVector(i) /\ i # triggers[k][n].id
    <3>1. PICK j \in TriggerKinds : \E p \in 1..Len(triggers'[j]) : triggers'[j][p].id = i
      BY <2>1 DEF inVector
    <3>2. PICK p \in 1..Len(triggers'[j]) : triggers'[j][p].id = i
      BY <3>1
    <3>3. \A x, y \in Nat : x < y => x # y
      OBVIOUS
    <3>4. \A q \in 1..Len(triggers[k]) : triggers[k][q].id \in Nat
      <4>1. \A q \in 1..Len(triggers[k]) : triggers[k][q] \in Trigger
        BY <1>1
      <4> QED
        BY <4>1 DEF Trigger
    <3>5. CASE j = k
      <4>1. old(p) \in 1..Len(triggers[k]) /\ old(p) # n /\ triggers[k][old(p)].id = i
        BY <1>4, <3>2, <3>5
      <4>2. old(p) < n \/ n < old(p)
        BY <1>1, <4>1
      <4>3. triggers[k][old(p)].id # triggers[k][n].id
        BY <3>4, <4>1, <4>2 DEF Vectors
      <4> QED
        BY <4>1, <4>3 DEF inVector
    <3>6. CASE j # k
      <4>1. p \in 1..Len(triggers[j]) /\ triggers[j][p].id = i
        BY <1>3, <3>2, <3>6
      <4>2. triggers[k][n].id # triggers[j][p].id
        <5>1. CASE k = "keyword"
          BY <3>6, <4>1, <5>1 DEF Vectors, TriggerKinds
        <5>2. CASE k = "value"
          BY <3>6, <4>1, <5>2 DEF Vectors, TriggerKinds
        <5> QED
          BY <5>1, <5>2 DEF TriggerKinds
      <4> QED
        BY <4>1, <4>2 DEF inVector
    <3> QED
      BY <3>5, <3>6
  <2>2. ASSUME inVector(i), i # triggers[k][n].id PROVE inVector(i)'
    <3>1. PICK j \in TriggerKinds : \E p \in 1..Len(triggers[j]) : triggers[j][p].id = i
      BY <2>2 DEF inVector
    <3>2. PICK p \in 1..Len(triggers[j]) : triggers[j][p].id = i
      BY <3>1
    <3>3. CASE j = k
      <4>1. PICK m \in 1..Len(triggers'[k]) : old(m) = p
        BY <1>4, <2>2, <3>2, <3>3
      <4>2. triggers'[k][m].id = i
        BY <1>4, <3>2, <3>3, <4>1
      <4> QED
        BY <4>2 DEF inVector
    <3>4. CASE j # k
      BY <1>3, <3>2, <3>4 DEF inVector
    <3> QED
      BY <3>3, <3>4
  <2> QED
    BY <2>1, <2>2
<1> QED
  BY <1>4, <1>5, <1>6, <1>7

\* What the listeners have heard after one more trigger.
LEMMA ToldOneMore ==
    ASSUME MaxTriggers \in Nat, TriggersInv, data # NoData, iter < Len(triggers[data.kind]),
           UNCHANGED <<data, triggersBefore>>,
           toldOf' = IF check(trigger, data) THEN Append(toldOf, trigger.id) ELSE toldOf
    PROVE  /\ toldOf' \in Seq(1..MaxTriggers)
           /\ Range(toldOf') = metIn(iter + erasedSoFar + 1)
           /\ \A m, n \in 1..Len(toldOf') : m < n => toldOf'[m] < toldOf'[n]
<1> DEFINE b == triggersBefore
           last == iter + erasedSoFar + 1
           met(x) == check(x, data)
<1>1. /\ b \in Seq(Trigger) /\ Len(b) \in Nat /\ iter \in Nat /\ erasedSoFar \in Nat
      /\ toldOf \in Seq(1..MaxTriggers) /\ last \in 1..Len(b) /\ trigger = b[last]
  <2>1. data.kind \in TriggerKinds /\ triggers[data.kind] \in Seq(Trigger)
    BY Kinds DEF TriggersInv, Vectors
  <2>2. /\ b \in Seq(Trigger) /\ iter \in Nat /\ toldOf \in Seq(1..MaxTriggers) /\ erasedSoFar >= 0
        /\ triggers[data.kind][iter + 1] = b[(iter + 1) + erasedSoFar]
    <3>1. iter \in Nat /\ Len(triggers[data.kind]) \in Nat
      BY <2>1 DEF TriggersInv, Loop
    <3>2. iter + 1 \in 1..Len(triggers[data.kind]) /\ iter + 1 > iter
      BY <3>1
    <3> QED
      BY <3>1, <3>2 DEF TriggersInv, Loop
  <2>3. Len(b) \in Nat /\ Len(triggers[data.kind]) \in Nat /\ erasedSoFar = Len(b) - Len(triggers[data.kind])
    BY <2>1, <2>2 DEF erasedSoFar
  <2>4. last \in 1..Len(b) /\ last = (iter + 1) + erasedSoFar /\ erasedSoFar \in Nat
    BY <2>2, <2>3
  <2> QED
    BY <2>2, <2>3, <2>4 DEF trigger
<1>2. /\ Range(toldOf) = metIn(last - 1)
      /\ \A p, q \in 1..Len(b) : p < q => b[p].id < b[q].id
      /\ \A m, n \in 1..Len(toldOf) : m < n => toldOf[m] < toldOf[n]
  <2>1. last - 1 = iter + erasedSoFar
    BY <1>1
  <2> QED
    BY <2>1 DEF TriggersInv, Loop
<1>3. b[last] \in Trigger /\ b[last].id \in 1..MaxTriggers
  <2>1. b[last] \in Trigger
    BY <1>1
  <2> QED
    BY <2>1 DEF Trigger
<1>4. toldOf' = IF met(b[last]) THEN Append(toldOf, b[last].id) ELSE toldOf
  BY <1>1
<1> HIDE DEF b, last, met
<1>5. metIn(last) = metIn(last - 1) \cup (IF met(b[last]) THEN {b[last].id} ELSE {})
  <2>1. \A q \in 1..Len(b) : q <= last <=> q <= last - 1 \/ q = last
    BY <1>1
  <2>2. last \in 1..Len(b)
    BY <1>1
  <2> QED
    BY <2>1, <2>2 DEF metIn, b, met
<1>6. \A i \in metIn(last - 1) : i < b[last].id
  <2>1. \A q \in 1..Len(b) : q <= last - 1 => q < last
    BY <1>1
  <2>2. \A q \in 1..Len(b) : q <= last - 1 => b[q].id < b[last].id
    BY <1>1, <1>2, <2>1
  <2> QED
    BY <2>2 DEF metIn, b
<1>7. toldOf' \in Seq(1..MaxTriggers) /\ Range(toldOf') = metIn(last)
  <2>1. CASE met(b[last])
    <3>1. toldOf' = Append(toldOf, b[last].id) /\ metIn(last) = metIn(last - 1) \cup {b[last].id}
      BY <1>4, <1>5, <2>1
    <3>2. /\ Append(toldOf, b[last].id) \in Seq(1..MaxTriggers)
          /\ Range(Append(toldOf, b[last].id)) = Range(toldOf) \cup {b[last].id}
      <4> DEFINE Ids == 1..MaxTriggers
      <4>1. toldOf \in Seq(Ids) /\ b[last].id \in Ids
        BY <1>1, <1>3
      <4> HIDE DEF Ids
      <4>2. /\ Append(toldOf, b[last].id) \in Seq(Ids)
            /\ Range(Append(toldOf, b[last].id)) = Range(toldOf) \cup {b[last].id}
        BY <4>1, AppendedRange
      <4> QED
        BY <4>2 DEF Ids
    <3> QED
      BY <1>2, <3>1, <3>2
  <2>2. CASE ~met(b[last])
    BY <1>1, <1>2, <1>4, <1>5, <2>2
  <2> QED
    BY <2>1, <2>2
<1>8. ASSUME NEW m \in 1..Len(toldOf'), NEW n \in 1..Len(toldOf'), m < n PROVE toldOf'[m] < toldOf'[n]
  <2>1. CASE met(b[last])
    <3>1. /\ Len(toldOf') = Len(toldOf) + 1 /\ Len(toldOf) \in Nat /\ toldOf'[Len(toldOf) + 1] = b[last].id
          /\ \A i \in 1..Len(toldOf) : toldOf'[i] = toldOf[i]
      BY <1>1, <1>3, <1>4, <2>1
    <3>2. m \in 1..Len(toldOf) /\ toldOf[m] \in Range(toldOf)
      BY <1>1, <1>8, <3>1 DEF Range
    <3> QED
      BY <1>2, <1>6, <1>8, <3>1, <3>2
  <2>2. CASE ~met(b[last])
    BY <1>2, <1>4, <1>8, <2>2
  <2> QED
    BY <2>1, <2>2
<1> QED
  BY <1>7, <1>8 DEF last

LEMMA NextTriggerKeeps ==
    ASSUME MaxTriggers \in Nat, TriggersInv, NextTrigger
    PROVE  TriggersInv'
<1> DEFINE k == data.kind
           fires == check(trigger, data)
           stops == fires /\ "STOP_MONITOR" \in trigger.actions
           erases == fires /\ ~stops /\ "REMOVE_TRIGGER" \in trigger.actions
<1>1. /\ data # NoData /\ iter < Len(triggers[k]) /\ UNCHANGED <<triggersBefore, triggersMade, feeds>>
      /\ toldOf' = IF fires THEN Append(toldOf, trigger.id) ELSE toldOf
      /\ data' = IF stops THEN NoData ELSE data
      /\ triggers' = IF erases THEN [triggers EXCEPT ![k] = RemoveAt(triggers[k], iter + 1)] ELSE triggers
      /\ deleted' = IF erases /\ k = "keyword" THEN [deleted EXCEPT ![trigger.id] = @ + 1] ELSE deleted
      /\ removed' = IF erases THEN removed \cup {trigger.id} ELSE removed
      /\ iter' = IF erases THEN iter ELSE iter + 1
  BY DEF NextTrigger, erased
<1>2. /\ k \in TriggerKinds /\ triggers[k] \in Seq(Trigger) /\ Len(triggers[k]) \in Nat /\ iter \in Nat
      /\ iter + 1 \in 1..Len(triggers[k]) /\ triggersMade \in 0..MaxTriggers
  <2>1. k \in TriggerKinds
    BY <1>1, Kinds
  <2>2. triggers[k] \in Seq(Trigger) /\ iter \in Nat
    BY <1>1, <2>1 DEF TriggersInv, Vectors, Loop
  <2> QED
    BY <1>1, <2>1, <2>2 DEF TriggersInv, Vectors
<1>3. trigger = triggers[k][iter + 1] /\ trigger \in Trigger /\ trigger.id \in 1..MaxTriggers /\ inVector(trigger.id)
  <2>1. trigger = triggers[k][iter + 1] /\ trigger \in Trigger
    BY <1>2 DEF trigger
  <2> QED
    BY <1>2, <2>1 DEF Trigger, inVector
<1>4. CASE stops
  <2>1. data' = NoData /\ UNCHANGED <<triggers, deleted, removed>>
    BY <1>1, <1>4
  <2>2. Vectors' /\ Freed'
    BY <1>1, <2>1 DEF TriggersInv, Vectors, Freed, inVector
  <2> QED
    BY <2>1, <2>2 DEF TriggersInv, Loop
<1>5. CASE ~stops
  <2> DEFINE e == erasedSoFar
  <2>1. /\ toldOf' \in Seq(1..MaxTriggers)
        /\ Range(toldOf') = metIn(iter + e + 1)
        /\ \A m, n \in 1..Len(toldOf') : m < n => toldOf'[m] < toldOf'[n]
    BY <1>1, <1>5, ToldOneMore
  <2>2. data' = data /\ e = Len(triggersBefore) - Len(triggers[k]) /\ erasedSoFar' = Len(triggersBefore) - Len(triggers'[k])
        /\ Len(triggersBefore) \in Nat /\ e \in Nat
    <3>1. data' = data /\ triggersBefore' = triggersBefore
      BY <1>1, <1>5
    <3>2. e >= 0 /\ Len(triggersBefore) \in Nat
      BY <1>1 DEF TriggersInv, Loop
    <3>3. e = Len(triggersBefore) - Len(triggers[k]) /\ erasedSoFar' = Len(triggersBefore) - Len(triggers'[k])
      BY <3>1 DEF erasedSoFar
    <3> QED
      BY <1>2, <3>1, <3>2, <3>3
  <2>3. \A p \in 1..Len(triggers[k]) : p > iter => triggers[k][p] = triggersBefore[p + e]
    BY <1>1 DEF TriggersInv, Loop
  <2> HIDE DEF e
  <2>4. CASE ~erases
    <3>1. UNCHANGED <<triggers, deleted, removed, triggersMade>> /\ iter' = iter + 1 /\ erasedSoFar' = e
      BY <1>1, <2>2, <2>4
    <3>2. Vectors' /\ Freed'
      BY <3>1 DEF TriggersInv, Vectors, Freed, inVector
    <3>3. iter' + erasedSoFar' = iter + e + 1 /\ iter' \in Nat /\ iter' <= Len(triggers[k])
          /\ \A p \in 1..Len(triggers[k]) : p > iter' => p > iter
      BY <1>2, <2>2, <3>1
    <3>4. \A p \in 1..Len(triggers[k]) : p > iter' => triggers[k][p] = triggersBefore[p + erasedSoFar']
      BY <2>3, <3>1, <3>3
    <3>5. metIn(iter + erasedSoFar)' = metIn(iter + e + 1)
      BY <1>1, <2>2, <3>3 DEF metIn
    <3>6. Loop'
      <4>1. /\ data' \in Data /\ triggersBefore' \in Seq(Trigger)
            /\ \A p, q \in 1..Len(triggersBefore') : p < q => triggersBefore'[p].id < triggersBefore'[q].id
        BY <1>1, <2>2 DEF TriggersInv, Loop
      <4>2. triggers'[data'.kind] = triggers[k] /\ iter' \in Nat /\ iter' <= Len(triggers[k]) /\ erasedSoFar' >= 0
        BY <2>2, <3>1, <3>3
      <4>3. \A p \in 1..Len(triggers'[data'.kind]) :
                p > iter' => triggers'[data'.kind][p] = triggersBefore'[p + erasedSoFar']
        BY <1>1, <3>4, <4>2
      <4> QED
        BY <2>1, <3>5, <4>1, <4>2, <4>3 DEF Loop
    <3> QED
      BY <3>2, <3>6 DEF TriggersInv
  <2>5. CASE erases
    <3>1. /\ Vectors' /\ Len(triggers'[k]) = Len(triggers[k]) - 1
          /\ \A p \in 1..Len(triggers'[k]) :
                triggers'[k][p] = IF p < iter + 1 THEN triggers[k][p] ELSE triggers[k][p + 1]
          /\ \A i \in 1..MaxTriggers : inVector(i)' <=> inVector(i) /\ i # trigger.id
      <4>1. triggers' = [triggers EXCEPT ![k] = RemoveAt(triggers[k], iter + 1)]
        BY <1>1, <2>5
      <4> HIDE DEF k
      <4> QED
        BY <1>1, <1>2, <1>3, <4>1, Erased DEF TriggersInv
    <3>2. Freed'
      <4>1. deleted[trigger.id] = 0 /\ deleted' \in [1..MaxTriggers -> {0, 1}]
            /\ \A i \in 1..MaxTriggers : i # trigger.id => deleted'[i] = deleted[i]
        BY SMTT(30), <1>1, <1>3 DEF TriggersInv, Freed
      <4>2. trigger.id <= triggersMade
        BY <1>2, <1>3 DEF TriggersInv, Vectors
      <4>3. removed' = removed \cup {trigger.id}
        BY <1>1, <2>5
      <4>4. \A i \in 1..MaxTriggers : inVector(i)' \/ i > triggersMade' => deleted'[i] = 0
        BY SMTT(30), <1>1, <1>2, <1>3, <3>1, <4>1, <4>2 DEF TriggersInv, Freed
      <4>5. \A i \in 1..triggersMade' : inVector(i)' \/ deleted'[i] = 1 \/ i \in removed'
        <5> SUFFICES ASSUME NEW i \in 1..triggersMade PROVE inVector(i)' \/ deleted'[i] = 1 \/ i \in removed'
          BY <1>1
        <5>1. i \in 1..MaxTriggers
          BY <1>2
        <5> QED
          BY <3>1, <4>1, <4>3, <5>1 DEF TriggersInv, Freed
      <4> QED
        BY <4>1, <4>4, <4>5 DEF Freed
    <3>3. /\ iter' = iter /\ erasedSoFar' = e + 1 /\ iter' + erasedSoFar' = iter + e + 1
          /\ iter' <= Len(triggers'[k]) /\ erasedSoFar' >= 0
      <4>1. iter' = iter
        BY <1>1, <2>5
      <4>2. Len(triggers'[k]) = Len(triggers[k]) - 1
        BY <3>1
      <4> HIDE DEF k
      <4>3. erasedSoFar' = e + 1
        BY <1>2, <2>2, <4>2
      <4>4. iter + 1 <= Len(triggers[k])
        BY <1>2
      <4> QED
        BY <1>2, <2>2, <4>1, <4>2, <4>3, <4>4
    <3>4. ASSUME NEW p \in 1..Len(triggers'[k]), p > iter PROVE triggers'[k][p] = triggersBefore[p + erasedSoFar']
      <4>1. ~(p < iter + 1) /\ p + 1 \in 1..Len(triggers[k]) /\ p + 1 > iter /\ (p + 1) + e = p + erasedSoFar'
        BY <1>2, <2>2, <3>1, <3>3, <3>4
      <4> QED
        BY <2>3, <3>1, <4>1
    <3>5. metIn(iter + erasedSoFar)' = metIn(iter + e + 1)
      BY <1>1, <2>2, <3>3 DEF metIn
    <3>6. Loop'
      <4>1. /\ data' \in Data /\ triggersBefore' \in Seq(Trigger)
            /\ \A p, q \in 1..Len(triggersBefore') : p < q => triggersBefore'[p].id < triggersBefore'[q].id
        BY <1>1, <2>2 DEF TriggersInv, Loop
      <4>2. triggers'[data'.kind] = triggers'[k] /\ iter' \in Nat /\ iter' <= Len(triggers'[k]) /\ erasedSoFar' >= 0
        BY <1>2, <2>2, <3>3
      <4>3. \A p \in 1..Len(triggers'[data'.kind]) :
                p > iter' => triggers'[data'.kind][p] = triggersBefore'[p + erasedSoFar']
        BY <1>1, <3>3, <3>4, <4>2
      <4> QED
        BY <2>1, <3>5, <4>1, <4>2, <4>3 DEF Loop
    <3> QED
      BY <3>1, <3>2, <3>6 DEF TriggersInv
  <2> QED
    BY <2>4, <2>5
<1> QED
  BY <1>4, <1>5

LEMMA FinalKeeps ==
    ASSUME MaxTriggers \in Nat, TriggersInv, final
    PROVE  TriggersInv'
<1>1. /\ data = NoData /\ data' = NoData /\ UNCHANGED <<removed, triggersMade>>
      /\ deleted' = [i \in DOMAIN deleted |-> IF inVector(i) THEN deleted[i] + 1 ELSE deleted[i]]
      /\ triggers' = [k \in TriggerKinds |-> <<>>]
  BY DEF final, inVector
<1>2. \A k \in TriggerKinds : triggers'[k] = <<>> /\ Len(triggers'[k]) = 0
  BY <1>1
<1>3. \A i \in 1..MaxTriggers : ~inVector(i)'
  BY <1>2 DEF inVector
<1>4. \A i \in 1..MaxTriggers : inVector(i) => i <= triggersMade
  BY DEF inVector, TriggersInv, Vectors
<1>5. Freed'
  <2>1. deleted' \in [1..MaxTriggers -> {0, 1}] /\ \A i \in 1..MaxTriggers :
            deleted'[i] = IF inVector(i) THEN 1 ELSE deleted[i]
    BY <1>1 DEF TriggersInv, Freed
  <2>2. triggersMade \in 0..MaxTriggers
    BY DEF TriggersInv, Vectors
  <2>3. \A i \in 1..MaxTriggers : i > triggersMade => deleted'[i] = 0
    BY <1>4, <2>1, <2>2 DEF TriggersInv, Freed
  <2>4. \A i \in 1..triggersMade : deleted'[i] = 1 \/ i \in removed
    BY <2>1, <2>2 DEF TriggersInv, Freed
  <2> QED
    BY <1>1, <1>3, <2>1, <2>3, <2>4 DEF Freed
<1>6. Vectors'
  BY <1>1, <1>2 DEF TriggersInv, Vectors, TriggerKinds
<1> QED
  BY <1>1, <1>5, <1>6 DEF TriggersInv, Loop

LEMMA TriggersAreRight ==
    ASSUME MaxTriggers \in Nat, TriggersInv
    PROVE  TriggersRight
<1>1. ASSUME data # NoData, iter >= Len(triggers[data.kind])
      PROVE  /\ Range(toldOf) = {t.id : t \in {u \in Range(triggersBefore) : check(u, data)}}
             /\ \A m, n \in 1..Len(toldOf) : m < n => toldOf[m] < toldOf[n]
  <2>1. data.kind \in TriggerKinds /\ Len(triggers[data.kind]) \in Nat
    <3>1. data.kind \in TriggerKinds
      BY <1>1, Kinds
    <3>2. triggers[data.kind] \in Seq(Trigger)
      BY <3>1 DEF TriggersInv, Vectors
    <3> QED
      BY <3>1, <3>2
  <2>2. /\ iter \in Nat /\ iter <= Len(triggers[data.kind]) /\ triggersBefore \in Seq(Trigger)
        /\ Range(toldOf) = metIn(iter + erasedSoFar)
        /\ \A m, n \in 1..Len(toldOf) : m < n => toldOf[m] < toldOf[n]
    BY <1>1 DEF TriggersInv, Loop
  <2>3. iter + erasedSoFar = Len(triggersBefore)
    BY <1>1, <2>1, <2>2 DEF erasedSoFar
  <2>4. metIn(Len(triggersBefore)) = {t.id : t \in {u \in Range(triggersBefore) : check(u, data)}}
    <3>1. \A q \in 1..Len(triggersBefore) : q <= Len(triggersBefore)
      BY <2>2
    <3>2. DOMAIN triggersBefore = 1..Len(triggersBefore)
      BY <2>2
    <3> QED
      BY <3>1, <3>2 DEF metIn, Range
  <2> QED
    BY <2>2, <2>3, <2>4
<1>2. \A i \in 1..MaxTriggers : deleted[i] <= 1
  BY DEF TriggersInv, Freed
<1>3. \A k \in TriggerKinds : \A p \in 1..Len(triggers[k]) : deleted[triggers[k][p].id] = 0
  <2> SUFFICES ASSUME NEW k \in TriggerKinds, NEW p \in 1..Len(triggers[k]) PROVE deleted[triggers[k][p].id] = 0
    OBVIOUS
  <2>1. triggers[k][p] \in Trigger
    BY DEF TriggersInv, Vectors
  <2>2. triggers[k][p].id \in 1..MaxTriggers /\ inVector(triggers[k][p].id)
    BY <2>1 DEF Trigger, inVector
  <2> QED
    BY <2>2 DEF TriggersInv, Freed
<1>4. (\A k \in TriggerKinds : triggers[k] = <<>>) => \A i \in 1..triggersMade : deleted[i] = 1 \/ i \in removed
  BY DEF TriggersInv, Freed, inVector
<1> QED
  BY <1>1, <1>2, <1>3, <1>4 DEF TriggersRight

(* The listeners hear of every trigger that the data meets, once and in    *)
(* order, whatever the loop erases on its way, and no trigger is freed   *)
(* twice or while it is in a vector, for any number of triggers and any    *)
(* data (Monitor.cpp:83-126).                                              *)
THEOREM TriggersStayRight == TriggersSpec => []TriggersRight
<1> USE TriggersAssumption
<1>1. TriggersInit => TriggersInv
  <2> SUFFICES ASSUME TriggersInit PROVE TriggersInv
    OBVIOUS
  <2>1. triggers = [k \in TriggerKinds |-> <<>>] /\ data = NoData /\ triggersMade = 0 /\ deleted = [i \in 1..MaxTriggers |-> 0]
    BY DEF TriggersInit
  <2>2. \A k \in TriggerKinds : triggers[k] = <<>> /\ Len(triggers[k]) = 0
    BY <2>1
  <2>3. Vectors
    BY <2>1, <2>2 DEF Vectors, TriggerKinds
  <2> QED
    BY <2>1, <2>3 DEF TriggersInv, Freed, Loop
<1>2. TriggersInv /\ [TriggersNext]_triggerVars => TriggersInv'
  <2> SUFFICES ASSUME TriggersInv, [TriggersNext]_triggerVars PROVE TriggersInv'
    OBVIOUS
  <2>1. CASE UNCHANGED triggerVars
    <3>1. UNCHANGED <<triggers, triggersMade>> /\ Vectors'
      BY <2>1 DEF triggerVars, TriggersInv, Vectors
    <3>2. Freed'
      BY <2>1 DEF triggerVars, TriggersInv, Freed, inVector
    <3>3. Loop'
      BY <2>1 DEF triggerVars, TriggersInv, Loop, metIn, erasedSoFar
    <3> QED
      BY <3>1, <3>2, <3>3 DEF TriggersInv
  <2>2. ASSUME NEW d \in Data, Check(d) PROVE TriggersInv'
    <3>1. /\ data = NoData /\ data' = d /\ iter' = 0 /\ toldOf' = <<>> /\ triggersBefore' = triggers[d.kind]
          /\ UNCHANGED <<triggers, deleted, removed, triggersMade>>
      BY <2>2 DEF Check
    <3>2. Vectors' /\ Freed'
      BY <3>1 DEF TriggersInv, Vectors, Freed, inVector
    <3>3. d.kind \in TriggerKinds /\ triggers[d.kind] \in Seq(Trigger) /\ Len(triggers[d.kind]) \in Nat
      BY DEF Data, TriggerKinds, TriggersInv, Vectors
    <3>4. erasedSoFar' = 0 /\ \A p, q \in 1..Len(triggers[d.kind]) : p < q => triggers[d.kind][p].id < triggers[d.kind][q].id
      BY <3>1, <3>3 DEF erasedSoFar, TriggersInv, Vectors
    <3>5. Range(toldOf') = {} /\ toldOf' \in Seq(1..MaxTriggers) /\ Len(toldOf') = 0
      BY <3>1 DEF Range
    <3>6. metIn(iter + erasedSoFar)' = {}
      BY <3>1, <3>3, <3>4 DEF metIn
    <3>7. \A p \in 1..Len(triggers'[data'.kind]) :
              p > iter' => triggers'[data'.kind][p] = triggersBefore'[p + erasedSoFar']
      BY <3>1, <3>3, <3>4
    <3>8. /\ data' \in Data /\ triggersBefore' \in Seq(Trigger) /\ iter' \in Nat
          /\ iter' <= Len(triggers'[data'.kind]) /\ erasedSoFar' >= 0
          /\ \A p, q \in 1..Len(triggersBefore') : p < q => triggersBefore'[p].id < triggersBefore'[q].id
          /\ \A m, n \in 1..Len(toldOf') : m < n => toldOf'[m] < toldOf'[n]
      BY <3>1, <3>3, <3>4, <3>5
    <3>9. Loop'
      BY <3>5, <3>6, <3>7, <3>8 DEF Loop
    <3> QED
      BY <3>2, <3>9 DEF TriggersInv
  <2>3. CASE EndOfLoop
    <3>1. data' = NoData /\ UNCHANGED <<triggers, deleted, removed, triggersMade>>
      BY <2>3 DEF EndOfLoop
    <3> QED
      BY <3>1 DEF TriggersInv, Vectors, Freed, inVector, Loop
  <2>4. ASSUME NEW a \in Actions, NEW w \in Keywords, addTrigger("keyword", a, EQUAL_TO, w) PROVE TriggersInv'
    BY <2>4, AddTriggerKeeps DEF TriggerKinds, EQUAL_TO
  <2>5. ASSUME NEW a \in Actions, NEW c \in {GREATER_THAN, LESS_THAN, EQUAL_TO}, NEW v \in Values,
               addTrigger("value", a, c, v)
        PROVE  TriggersInv'
    <3>1. c \in Nat
      BY DEF GREATER_THAN, LESS_THAN, EQUAL_TO
    <3> QED
      BY <2>5, <3>1, AddTriggerKeeps DEF TriggerKinds
  <2> QED
    BY <2>1, <2>2, <2>3, <2>4, <2>5, NextTriggerKeeps, FinalKeeps DEF TriggersNext
<1>3. TriggersInv => TriggersRight
  BY TriggersAreRight
<1> QED
  BY <1>1, <1>2, <1>3, PTL DEF TriggersSpec

-----------------------------------------------------------------------------
(* TraceRoute: the one runner and the traces                               *)

TraceIds == 1..Len(traceInfo)
Hopped == [attempts : Nat, hopIP : Hosts \cup {Unknown}]
TraceRouteInfos == [host : Hosts, hops : Seq(Hopped)]
Runners == [pc : {"while", "each", "pong", "remove", "stop", "dead"}, active : Seq(Nat), hop : Nat]

\* Every hop but the last has had its attempts.
GoodHops(i) ==
    \A n \in 1..Len(i.hops) : IF n < Len(i.hops) THEN i.hops[n].attempts = AttemptsPerHop
                              ELSE i.hops[n].attempts <= AttemptsPerHop

TracesTyped ==
    /\ runners \in Seq(Runners) /\ traceInfo \in Seq(TraceRouteInfos)
    /\ traces \in [Hosts -> Nat] /\ traceTold \in Seq(Nat) /\ net \subseteq Hosts
    /\ \A h \in Hosts : traces[h] # 0 => traces[h] \in TraceIds /\ traceInfo[traces[h]].host = h
    /\ Range(traceTold) \subseteq TraceIds
    /\ runners = <<>> => traceInfo = <<>> /\ ~is_running

Traced ==
    /\ \A k \in TraceIds : GoodHops(traceInfo[k])
    /\ \A a, b \in 1..Len(traceTold) : traceTold[a] = traceTold[b] => a = b
    /\ \A k \in Range(traceTold) : hasTraceCompleted(traceInfo[k])

\* What the one runner has to do: traces that are not complete, but for the
\* one that it removes.
Working(w) ==
    /\ Range(w.active) \subseteq TraceIds
    /\ \A a, b \in 1..Len(w.active) : w.active[a] = w.active[b] => a = b
    /\ w.pc \in {"pong", "remove"} => w.active # <<>>
    /\ \A n \in 1..Len(w.active) : w.active[n] \in Range(traceTold) => w.pc = "remove" /\ n = 1
    /\ w.pc = "pong" =>
          LET hops == traceInfo[w.active[1]].hops
          IN w.hop = Len(hops) /\ w.hop > 0 /\ hops[w.hop].attempts < AttemptsPerHop
    /\ \A h \in Hosts : traces[h] # 0 /\ traces[h] \in Range(traceTold) =>
          w.pc = "remove" /\ w.active[1] = traces[h]

\* Runners come and do not go; while there is one, all this holds.
TraceInv ==
    /\ \E S : runners \in Seq(S)
    /\ Len(runners) <= 1 => /\ TracesTyped /\ Traced
                            /\ \A r \in 1..Len(runners) : Working(runners[r])

LEMMA RunnersStay ==
    ASSUME TraceInv, TraceNext
    PROVE  (\E S : runners' \in Seq(S)) /\ Len(runners') >= Len(runners)
<1>1. PICK S : runners \in Seq(S)
  BY DEF TraceInv
<1>2. Len(runners) \in Nat
  BY <1>1
<1>3. ASSUME NEW x, runners' = Append(runners, x) PROVE (\E T : runners' \in Seq(T)) /\ Len(runners') >= Len(runners)
  <2>1. runners \in Seq(S \cup {x}) /\ x \in S \cup {x}
    BY <1>1
  <2>2. Append(runners, x) \in Seq(S \cup {x}) /\ Len(Append(runners, x)) = Len(runners) + 1
    BY <2>1
  <2> QED
    BY <1>2, <1>3, <2>2
<1>4. ASSUME NEW r \in 1..Len(runners), NEW x, runners' = [runners EXCEPT ![r] = x]
      PROVE  (\E T : runners' \in Seq(T)) /\ Len(runners') >= Len(runners)
  <2>1. runners \in Seq(S \cup {x}) /\ x \in S \cup {x}
    BY <1>1
  <2>2. [runners EXCEPT ![r] = x] \in Seq(S \cup {x}) /\ Len([runners EXCEPT ![r] = x]) = Len(runners)
    BY <2>1, ExceptSeq
  <2> QED
    BY <1>2, <1>4, <2>2
<1>5. CASE \E h \in Hosts : startTrace(h)
  <2>1. UNCHANGED runners \/ \E x : runners' = Append(runners, x)
    BY <1>5 DEF startTrace
  <2> QED
    BY <1>1, <1>2, <1>3, <2>1
<1>6. ASSUME NEW r \in 1..Len(runners),
             \/ WhileRunning(r) \/ Send(r) \/ TimesOut(r) \/ RemoveTrace(r) \/ AsksSize(r) \/ StopRunning(r)
             \/ \E ip \in Hosts : Pong(r, ip)
      PROVE  \E x : runners' = [runners EXCEPT ![r] = x]
  BY <1>6 DEF WhileRunning, Send, TimesOut, RemoveTrace, AsksSize, StopRunning, Pong, Attempt, goes
<1> QED
  BY <1>4, <1>5, <1>6 DEF TraceNext

LEMMA SetAsSeq ==
    ASSUME NEW n \in Nat, NEW S \in SUBSET (1..n)
    PROVE  /\ SetToSeq(S) \in Seq(S)
           /\ \A a, b \in 1..Len(SetToSeq(S)) : SetToSeq(S)[a] = SetToSeq(S)[b] => a = b
<1>1. IsFiniteSet(S)
  <2>1. IsFiniteSet(1..n)
    BY FS_Interval
  <2> QED
    BY <2>1, FS_Subset
<1>2. Cardinality(S) \in Nat /\ ExistsBijection(1..Cardinality(S), S)
  BY <1>1, FS_CardinalityType
<1>3. \E f \in [1..Cardinality(S) -> S] : IsInjective(f)
  BY <1>2 DEF ExistsBijection, Bijection, Injection
<1>4. SetToSeq(S) \in [1..Cardinality(S) -> S] /\ IsInjective(SetToSeq(S))
  BY <1>3 DEF SetToSeq
<1>5. SetToSeq(S) \in Seq(S) /\ Len(SetToSeq(S)) = Cardinality(S)
  BY <1>2, <1>4
<1> QED
  BY <1>4, <1>5 DEF IsInjective

\* The one runner changes, and the others of which there are none.
OneRunner(w) == Len(runners) = 1 /\ runners[1] = w /\ w \in Runners /\ Working(w)

LEMMA ItGoesOn ==
    ASSUME TracesTyped, NEW w, OneRunner(w), NEW x \in Runners, runners' = [runners EXCEPT ![1] = x]
    PROVE  runners' \in Seq(Runners) /\ Len(runners') = 1 /\ runners'[1] = x /\ runners' # <<>>
<1>1. 1 \in 1..Len(runners) /\ runners \in Seq(Runners)
  BY DEF OneRunner, TracesTyped
<1>2. runners' \in Seq(Runners) /\ Len(runners') = 1 /\ runners'[1] = x
  BY SMTT(30), <1>1, ExceptSeq DEF OneRunner
<1> QED
  BY <1>2

LEMMA StartTraceKeeps ==
    ASSUME TracesTyped, Traced, Len(runners) <= 1, \A r \in 1..Len(runners) : Working(runners[r]),
           NEW h \in Hosts, startTrace(h), Len(runners') <= 1
    PROVE  TracesTyped' /\ Traced' /\ \A r \in 1..Len(runners') : Working(runners[r])'
<1> DEFINE i == [host |-> h, hops |-> <<>>]
<1>1. /\ traceInfo' = Append(traceInfo, i) /\ traces' = [traces EXCEPT ![h] = Len(traceInfo')] /\ traceTold' = traceTold
      /\ UNCHANGED net
  BY DEF startTrace
<1>2. i \in TraceRouteInfos /\ i.host = h /\ i.hops = <<>>
  BY DEF TraceRouteInfos
<1> HIDE DEF i
<1>3. /\ traceInfo' \in Seq(TraceRouteInfos) /\ Len(traceInfo') = Len(traceInfo) + 1 /\ Len(traceInfo) \in Nat
      /\ \A k \in TraceIds : traceInfo'[k] = traceInfo[k]
      /\ traceInfo'[Len(traceInfo) + 1] = i
  BY <1>1, <1>2 DEF TracesTyped, TraceIds
<1>4. TraceIds' = TraceIds \cup {Len(traceInfo) + 1} /\ Len(traceInfo) + 1 \notin TraceIds /\ TraceIds \subseteq Nat
  BY <1>3 DEF TraceIds
<1>5. /\ traces' \in [Hosts -> Nat] /\ traces'[h] = Len(traceInfo) + 1 /\ \A q \in Hosts \ {h} : traces'[q] = traces[q]
  BY <1>1, <1>3 DEF TracesTyped
<1>6. Traced'
  <2>1. GoodHops(i)
    BY <1>2 DEF GoodHops
  <2>2. \A k \in TraceIds' : GoodHops(traceInfo'[k])
    BY <1>3, <1>4, <2>1 DEF Traced
  <2>3. \A k \in Range(traceTold) : hasTraceCompleted(traceInfo'[k])
    BY <1>3 DEF Traced, TracesTyped
  <2> QED
    BY <1>1, <2>2, <2>3 DEF Traced, GoodHops, hasTraceCompleted, hasHopCompleted, getLastHop
<1>7. runners' \in Seq(Runners) /\ runners' # <<>> /\ \A r \in 1..Len(runners') : Working(runners[r])'
  <2>1. CASE UNCHANGED runners /\ runners # <<>>
    <3>1. \A r \in 1..Len(runners) : runners[r].pc = "pong" => traceInfo'[runners[r].active[1]] = traceInfo[runners[r].active[1]]
      <4> SUFFICES ASSUME NEW r \in 1..Len(runners), runners[r].pc = "pong"
                   PROVE  runners[r].active[1] \in TraceIds
        BY <1>3
      <4>1. runners[r] \in Runners /\ runners[r].active # <<>> /\ Range(runners[r].active) \subseteq TraceIds
        BY DEF TracesTyped, Working
      <4>2. 1 \in DOMAIN runners[r].active
        BY <4>1 DEF Runners
      <4> QED
        BY <4>1, <4>2 DEF Range
    <3>2. \A q \in Hosts : traces'[q] # 0 /\ traces'[q] \in Range(traceTold) => traces[q] = traces'[q]
      BY <1>4, <1>5 DEF TracesTyped
    <3>3. ASSUME NEW r \in 1..Len(runners) PROVE Working(runners[r])'
      <4> DEFINE w == runners[r]
      <4>1. Working(w) /\ w' = w
        BY <2>1
      <4>2. w.pc = "pong" => traceInfo'[w.active[1]] = traceInfo[w.active[1]]
        BY <3>1
      <4> HIDE DEF w
      <4>3. \A q \in Hosts : traces'[q] # 0 /\ traces'[q] \in Range(traceTold') => w.pc = "remove" /\ w.active[1] = traces'[q]
        BY <1>1, <3>2, <4>1 DEF Working
      <4>4. Range(w.active) \subseteq TraceIds'
        BY <1>4, <4>1 DEF Working
      <4>5. \A n \in 1..Len(w.active) : w.active[n] \in Range(traceTold') => w.pc = "remove" /\ n = 1
        BY <1>1, <4>1 DEF Working
      <4>6. Working(w)'
        BY <4>1, <4>2, <4>3, <4>4, <4>5 DEF Working
      <4> QED
        BY <4>6 DEF w
    <3> QED
      BY <2>1, <3>3 DEF TracesTyped
  <2>2. CASE ~(UNCHANGED runners /\ runners # <<>>)
    <3> DEFINE x == [pc |-> "while", active |-> <<>>, hop |-> 0]
    <3>1. runners' = Append(runners, x) \/ (runners = <<>> /\ UNCHANGED runners)
      BY <2>2 DEF startTrace
    <3>2. x \in Runners /\ x.pc = "while" /\ x.active = <<>> /\ Range(<<>>) = {}
      BY DEF Runners, Range
    <3> HIDE DEF x
    <3>3. runners = <<>>
      <4>1. CASE runners' = Append(runners, x)
        <5>1. Len(runners') = Len(runners) + 1 /\ Len(runners) \in Nat
          BY <3>2, <4>1 DEF TracesTyped
        <5> QED
          BY <5>1 DEF TracesTyped
      <4> QED
        BY <3>1, <4>1
    <3>4. ~is_running /\ traceInfo = <<>> /\ Range(traceTold) = {}
      BY <3>3 DEF TracesTyped, TraceIds
    <3>5. runners' = Append(runners, x)
      BY <2>2, <3>4 DEF startTrace, x
    <3>6. runners' \in Seq(Runners) /\ Len(runners') = 1 /\ runners'[1] = x
      BY <3>2, <3>3, <3>5
    <3>7. Working(x)'
      <4>1. Range(traceTold') = {}
        BY <1>1, <3>4
      <4> QED
        BY <3>2, <4>1 DEF Working
    <3> QED
      BY <3>6, <3>7
  <2> QED
    BY <2>1, <2>2
<1>8. \A q \in Hosts : traces'[q] # 0 => traces'[q] \in TraceIds' /\ traceInfo'[traces'[q]].host = q
  BY <1>2, <1>3, <1>4, <1>5 DEF TracesTyped
<1>9. TracesTyped'
  BY <1>1, <1>3, <1>4, <1>5, <1>7, <1>8 DEF TracesTyped
<1> QED
  BY <1>6, <1>7, <1>9

\* A hop more, if the last one has had its attempts.
LEMMA NextHop ==
    ASSUME AttemptsPerHop \in Nat \ {0}, NEW i \in TraceRouteInfos, GoodHops(i)
    PROVE  /\ getNextHop(i) \in TraceRouteInfos /\ GoodHops(getNextHop(i)) /\ getNextHop(i).host = i.host
           /\ Len(getNextHop(i).hops) > 0
           /\ getNextHop(i).hops[Len(getNextHop(i).hops)].attempts < AttemptsPerHop
<1>1. i.hops \in Seq(Hopped) /\ Len(i.hops) \in Nat /\ Hop \in Hopped /\ Hop.attempts = 0
  BY DEF TraceRouteInfos, Hop, Hopped
<1>2. \A n \in 1..Len(i.hops) : i.hops[n].attempts \in Nat
  <2>1. \A n \in 1..Len(i.hops) : i.hops[n] \in Hopped
    BY <1>1
  <2> QED
    BY <2>1 DEF Hopped
<1>3. CASE i.hops = <<>> \/ hasHopCompleted(i)
  <2> DEFINE hs == Append(i.hops, Hop)
  <2>1. getNextHop(i) = [i EXCEPT !.hops = hs]
    BY <1>3 DEF getNextHop
  <2>2. /\ hs \in Seq(Hopped) /\ Len(hs) = Len(i.hops) + 1 /\ hs[Len(hs)] = Hop
        /\ \A n \in 1..Len(i.hops) : hs[n] = i.hops[n]
    BY <1>1
  <2> HIDE DEF hs
  <2>3. getNextHop(i) \in TraceRouteInfos /\ getNextHop(i).hops = hs /\ getNextHop(i).host = i.host
    BY <2>1, <2>2 DEF TraceRouteInfos
  <2>4. \A n \in 1..Len(i.hops) : i.hops[n].attempts = AttemptsPerHop
    <3>1. i.hops # <<>> => i.hops[Len(i.hops)].attempts >= AttemptsPerHop /\ Len(i.hops) \in 1..Len(i.hops)
      BY <1>1, <1>3 DEF hasHopCompleted, getLastHop
    <3>2. \A n \in 1..Len(i.hops) : n < Len(i.hops) \/ n = Len(i.hops)
      BY <1>1
    <3> QED
      BY <1>2, <3>1, <3>2 DEF GoodHops
  <2>5. \A n \in 1..Len(hs) : n < Len(hs) => n \in 1..Len(i.hops)
    BY <1>1, <2>2
  <2>6. \A n \in 1..Len(hs) : ~(n < Len(hs)) => n = Len(hs)
    BY <1>1, <2>2
  <2>7. GoodHops(getNextHop(i))
    BY <1>1, <2>2, <2>3, <2>4, <2>5, <2>6 DEF GoodHops
  <2> QED
    BY <1>1, <2>2, <2>3, <2>7
<1>4. CASE ~(i.hops = <<>> \/ hasHopCompleted(i))
  <2>1. getNextHop(i) = i /\ i.hops # <<>> /\ ~(i.hops[Len(i.hops)].attempts >= AttemptsPerHop)
    BY <1>4 DEF getNextHop, hasHopCompleted, getLastHop
  <2>2. Len(i.hops) > 0
    BY <1>1, <2>1
  <2> QED
    BY <1>1, <1>2, <2>1, <2>2
<1> QED
  BY <1>3, <1>4

\* An attempt more, of the last hop.
LEMMA MoreAttempts ==
    ASSUME AttemptsPerHop \in Nat \ {0}, NEW i \in TraceRouteInfos, GoodHops(i), NEW n, n = Len(i.hops), n > 0,
           i.hops[n].attempts < AttemptsPerHop, NEW ip \in Hosts \cup {Unknown},
           NEW j, j = [i EXCEPT !.hops[n] = [attempts |-> @.attempts + 1, hopIP |-> ip]]
    PROVE  j \in TraceRouteInfos /\ GoodHops(j) /\ j.host = i.host
<1> DEFINE hop == [attempts |-> i.hops[n].attempts + 1, hopIP |-> ip]
           hs == [i.hops EXCEPT ![n] = hop]
<1>1. i.hops \in Seq(Hopped) /\ n \in 1..Len(i.hops) /\ Len(i.hops) \in Nat
  BY DEF TraceRouteInfos
<1>2. i.hops[n] \in Hopped
  BY <1>1
<1>3. hop \in Hopped /\ hop.attempts <= AttemptsPerHop
  BY <1>2 DEF Hopped
<1>4. j = [i EXCEPT !.hops = hs]
  OBVIOUS
<1> HIDE DEF hop
<1>5. /\ hs \in Seq(Hopped) /\ Len(hs) = Len(i.hops)
      /\ \A k \in 1..Len(i.hops) : hs[k] = IF k = n THEN hop ELSE i.hops[k]
  BY <1>1, <1>3, ExceptSeq
<1> HIDE DEF hs
<1>6. j \in TraceRouteInfos /\ j.hops = hs /\ j.host = i.host
  BY <1>4, <1>5 DEF TraceRouteInfos
<1>7. GoodHops(j)
  BY <1>1, <1>3, <1>5, <1>6 DEF GoodHops
<1> QED
  BY <1>6, <1>7

\* The info of one trace changes, which nobody has been told is complete.
LEMMA InfoChanges ==
    ASSUME TracesTyped, Traced, NEW id \in TraceIds, id \notin Range(traceTold), NEW i \in TraceRouteInfos, GoodHops(i),
           i.host = traceInfo[id].host, traceInfo' = [traceInfo EXCEPT ![id] = i]
    PROVE  /\ traceInfo' \in Seq(TraceRouteInfos) /\ TraceIds' = TraceIds /\ traceInfo'[id] = i
           /\ \A k \in TraceIds \ {id} : traceInfo'[k] = traceInfo[k]
           /\ \A k \in TraceIds : GoodHops(traceInfo'[k])
           /\ \A k \in Range(traceTold) : hasTraceCompleted(traceInfo'[k])
           /\ \A h \in Hosts : traces[h] # 0 => traces[h] \in TraceIds /\ traceInfo'[traces[h]].host = h
           /\ traceInfo' # <<>>
<1>1. /\ traceInfo' \in Seq(TraceRouteInfos) /\ Len(traceInfo') = Len(traceInfo)
      /\ \A k \in 1..Len(traceInfo) : traceInfo'[k] = IF k = id THEN i ELSE traceInfo[k]
  BY ExceptSeq DEF TracesTyped, TraceIds
<1>2. TraceIds' = TraceIds /\ \A k \in TraceIds : traceInfo'[k] = IF k = id THEN i ELSE traceInfo[k]
  BY <1>1 DEF TraceIds
<1>3. \A k \in TraceIds : GoodHops(traceInfo'[k])
  BY <1>2 DEF Traced
<1>4. \A k \in Range(traceTold) : hasTraceCompleted(traceInfo'[k])
  BY <1>2 DEF Traced, TracesTyped
<1>5. \A h \in Hosts : traces[h] # 0 => traces[h] \in TraceIds /\ traceInfo'[traces[h]].host = h
  BY <1>2 DEF TracesTyped
<1>6. traceInfo' # <<>>
  BY <1>1 DEF TraceIds
<1> QED
  BY <1>1, <1>2, <1>3, <1>4, <1>5, <1>6

\* Some entries of the map go, and nothing else of the traces changes.
LEMMA SameTraces ==
    ASSUME TracesTyped, Traced, UNCHANGED <<traceInfo, traceTold, net>>, traces' \in [Hosts -> Nat],
           \A h \in Hosts : traces'[h] \in {0, traces[h]}, runners' \in Seq(Runners), runners' # <<>>
    PROVE  TracesTyped' /\ Traced' /\ TraceIds' = TraceIds
<1>1. TraceIds' = TraceIds
  BY DEF TraceIds
<1>2. \A h \in Hosts : traces'[h] # 0 => traces'[h] \in TraceIds /\ traceInfo[traces'[h]].host = h
  BY DEF TracesTyped
<1>3. TracesTyped'
  BY <1>1, <1>2 DEF TracesTyped
<1> QED
  BY <1>1, <1>3 DEF Traced, GoodHops, hasTraceCompleted, hasHopCompleted, getLastHop

\* The runner goes on, with nothing in hand.
LEMMA NothingInHand ==
    ASSUME TracesTyped, Traced, NEW w, OneRunner(w), UNCHANGED <<traceInfo, traceTold>>,
           NEW x \in Runners, x.pc \notin {"pong", "remove"}, Range(x.active) \subseteq TraceIds,
           \A a, b \in 1..Len(x.active) : x.active[a] = x.active[b] => a = b,
           \A n \in 1..Len(x.active) : x.active[n] \notin Range(traceTold),
           \A h \in Hosts : traces'[h] # 0 => traces'[h] \notin Range(traceTold)
    PROVE  Working(x)'
<1>1. TraceIds' = TraceIds
  BY DEF TraceIds
<1> QED
  BY <1>1 DEF Working

LEMMA WhileRunningKeeps ==
    ASSUME TracesTyped, Traced, NEW w, OneRunner(w), WhileRunning(1)
    PROVE  TracesTyped' /\ Traced' /\ \A r \in 1..Len(runners') : Working(runners[r])'
<1> DEFINE S == {traces[h] : h \in Hosts} \ {0}
<1>1. /\ w \in Runners /\ w.pc = "while" /\ runners[1] = w /\ Working(w)
      /\ UNCHANGED <<traces, traceInfo, is_running, net, traceTold>>
  BY DEF OneRunner, WhileRunning, runnerAt
<1>2. PICK x : x = IF is_running THEN [w EXCEPT !.pc = "each", !.active = SetToSeq(S)] ELSE [w EXCEPT !.pc = "dead"]
  OBVIOUS
<1>3. runners' = [runners EXCEPT ![1] = x]
  BY <1>1, <1>2 DEF WhileRunning, goes
<1>4. Len(traceInfo) \in Nat /\ S \in SUBSET (1..Len(traceInfo))
  BY DEF TracesTyped, TraceIds
<1>5. SetToSeq(S) \in Seq(S) /\ \A a, b \in 1..Len(SetToSeq(S)) : SetToSeq(S)[a] = SetToSeq(S)[b] => a = b
  BY <1>4, SetAsSeq
<1>6. S \cap Range(traceTold) = {}
  BY <1>1 DEF Working
<1> DEFINE q == SetToSeq(S)
<1> HIDE DEF S
<1>7. Range(q) \subseteq S /\ \A n \in 1..Len(q) : q[n] \in S
  BY <1>5 DEF Range
<1> HIDE DEF q
<1>8. q \in Seq(Nat)
  <2>1. S \subseteq Nat
    BY <1>4
  <2> QED
    BY <1>5, <2>1, SeqMonotonic DEF q
<1>9. x = IF is_running THEN [w EXCEPT !.pc = "each", !.active = q] ELSE [w EXCEPT !.pc = "dead"]
  BY <1>2 DEF q
<1>10. x \in Runners /\ x.pc \in {"each", "dead"} /\ x.active = IF is_running THEN q ELSE w.active
  BY <1>1, <1>8, <1>9 DEF Runners
<1>11. runners' \in Seq(Runners) /\ Len(runners') = 1 /\ runners'[1] = x /\ runners' # <<>>
  BY <1>3, <1>10, ItGoesOn
<1>12. TracesTyped' /\ Traced'
  BY <1>1, <1>11, SameTraces DEF TracesTyped
<1>13. Working(x)'
  <2>1. /\ Range(x.active) \subseteq TraceIds
        /\ \A a, b \in 1..Len(x.active) : x.active[a] = x.active[b] => a = b
        /\ \A n \in 1..Len(x.active) : x.active[n] \notin Range(traceTold)
    <3>1. CASE is_running
      BY <1>4, <1>5, <1>6, <1>7, <1>10, <3>1 DEF q, TraceIds
    <3>2. CASE ~is_running
      BY <1>1, <1>10, <3>2 DEF Working
    <3> QED
      BY <3>1, <3>2
  <2>2. \A h \in Hosts : traces'[h] # 0 => traces'[h] \notin Range(traceTold)
    BY <1>1 DEF Working
  <2> QED
    BY <1>1, <1>10, <2>1, <2>2, NothingInHand
<1> QED
  BY <1>11, <1>12, <1>13

LEMMA SizeKeeps ==
    ASSUME TracesTyped, Traced, NEW w, OneRunner(w), AsksSize(1) \/ StopRunning(1)
    PROVE  TracesTyped' /\ Traced' /\ \A r \in 1..Len(runners') : Working(runners[r])'
<1>1. /\ w \in Runners /\ w.pc \in {"each", "stop"} /\ runners[1] = w /\ Working(w)
      /\ UNCHANGED <<traces, traceInfo, net, traceTold>>
  BY DEF OneRunner, AsksSize, StopRunning, runnerAt
<1>2. PICK pc \in {"stop", "while"} : runners' = [runners EXCEPT ![1] = [w EXCEPT !.pc = pc]]
  BY <1>1 DEF AsksSize, StopRunning, goes
<1> DEFINE x == [w EXCEPT !.pc = pc]
<1>3. x \in Runners /\ x.pc = pc /\ x.active = w.active
  BY <1>1 DEF Runners
<1>4. runners' \in Seq(Runners) /\ Len(runners') = 1 /\ runners'[1] = x /\ runners' # <<>>
  BY <1>2, <1>3, ItGoesOn
<1> HIDE DEF x
<1>5. TracesTyped' /\ Traced'
  BY <1>1, <1>4, SameTraces DEF TracesTyped
<1>6. \A h \in Hosts : traces'[h] # 0 => traces'[h] \notin Range(traceTold)
  BY <1>1 DEF Working
<1>7. \A n \in 1..Len(x.active) : x.active[n] \notin Range(traceTold)
  BY <1>1, <1>3 DEF Working
<1>8. Working(x)'
  BY <1>1, <1>3, <1>6, <1>7, NothingInHand DEF Working
<1> QED
  BY <1>4, <1>5, <1>8

\* The rest of what there is to do.
LEMMA RestOfActive ==
    ASSUME NEW w \in Runners, w.active # <<>>, Range(w.active) \subseteq TraceIds,
           \A a, b \in 1..Len(w.active) : w.active[a] = w.active[b] => a = b
    PROVE  LET q == Tail(w.active) IN
           /\ q \in Seq(Nat) /\ Range(q) \subseteq TraceIds
           /\ \A a, b \in 1..Len(q) : q[a] = q[b] => a = b
           /\ \A n \in 1..Len(q) : q[n] \in Range(w.active) /\ q[n] # w.active[1] /\ q[n] = w.active[n + 1]
           /\ w.active[1] \in TraceIds /\ 1 \in 1..Len(w.active) /\ Head(w.active) = w.active[1]
<1> DEFINE q == Tail(w.active)
<1>1. w.active \in Seq(Nat) /\ Len(w.active) \in Nat \ {0}
  BY EmptySeq DEF Runners
<1>2. q \in Seq(Nat) /\ Len(q) = Len(w.active) - 1 /\ \A n \in 1..Len(q) : q[n] = w.active[n + 1] /\ n + 1 \in 1..Len(w.active)
  BY <1>1
<1>3. 1 \in 1..Len(w.active) /\ Head(w.active) = w.active[1] /\ \A n \in 1..Len(w.active) : w.active[n] \in Range(w.active)
  BY <1>1 DEF Range
<1> HIDE DEF q
<1>4. \A n \in 1..Len(q) : q[n] \in Range(w.active) /\ q[n] # w.active[1]
  <2> SUFFICES ASSUME NEW n \in 1..Len(q) PROVE q[n] \in Range(w.active) /\ q[n] # w.active[1]
    OBVIOUS
  <2>1. q[n] = w.active[n + 1] /\ n + 1 \in 1..Len(w.active) /\ n + 1 # 1
    BY <1>2
  <2> QED
    BY <1>3, <2>1
<1>5. \A a, b \in 1..Len(q) : q[a] = q[b] => a = b
  <2> SUFFICES ASSUME NEW a \in 1..Len(q), NEW b \in 1..Len(q), q[a] = q[b] PROVE a = b
    OBVIOUS
  <2>1. a + 1 = b + 1
    BY <1>2
  <2> QED
    BY <1>2, <2>1
<1>6. Range(q) \subseteq TraceIds
  BY <1>2, <1>4 DEF Range
<1> QED
  BY <1>2, <1>3, <1>4, <1>5, <1>6 DEF q

LEMMA RemoveTraceKeeps ==
    ASSUME TracesTyped, Traced, NEW w, OneRunner(w), RemoveTrace(1)
    PROVE  TracesTyped' /\ Traced' /\ \A r \in 1..Len(runners') : Working(runners[r])'
<1> DEFINE x == [w EXCEPT !.pc = "each", !.active = Tail(@)]
<1>1. /\ w \in Runners /\ w.pc = "remove" /\ runners[1] = w /\ Working(w) /\ w.active # <<>>
      /\ UNCHANGED <<traceInfo, is_running, net, traceTold>>
      /\ traced(1) = Head(w.active)
  BY DEF OneRunner, RemoveTrace, runnerAt, Working, traced
<1>2. /\ w.active[1] \in TraceIds /\ 1 \in 1..Len(w.active) /\ Head(w.active) = w.active[1] /\ Tail(w.active) \in Seq(Nat)
      /\ Range(Tail(w.active)) \subseteq TraceIds
      /\ \A a, b \in 1..Len(Tail(w.active)) : Tail(w.active)[a] = Tail(w.active)[b] => a = b
      /\ \A n \in 1..Len(Tail(w.active)) : Tail(w.active)[n] = w.active[n + 1]
  BY <1>1, RestOfActive DEF Working
<1>3. x \in Runners /\ x.pc = "each" /\ x.active = Tail(w.active)
  BY <1>1, <1>2 DEF Runners
<1>4. runners' = [runners EXCEPT ![1] = x]
  BY <1>1 DEF RemoveTrace
<1> HIDE DEF x
<1>5. runners' \in Seq(Runners) /\ Len(runners') = 1 /\ runners'[1] = x /\ runners' # <<>>
  BY <1>3, <1>4, ItGoesOn
<1> DEFINE host == traceInfo[w.active[1]].host
<1>6. /\ traces' = [traces EXCEPT ![host] = 0] /\ traces' \in [Hosts -> Nat]
      /\ \A h \in Hosts : traces'[h] = IF h = host THEN 0 ELSE traces[h]
  <2>1. traces' = [traces EXCEPT ![host] = 0]
    BY <1>1, <1>2 DEF RemoveTrace
  <2> HIDE DEF host
  <2> QED
    BY <2>1 DEF TracesTyped
<1>7. TracesTyped' /\ Traced'
  BY <1>1, <1>5, <1>6, SameTraces
<1>8. \A h \in Hosts : traces'[h] # 0 => traces'[h] \notin Range(traceTold)
  <2> SUFFICES ASSUME NEW h \in Hosts, traces'[h] # 0, traces'[h] \in Range(traceTold) PROVE FALSE
    OBVIOUS
  <2>1. h # host /\ traces[h] = traces'[h]
    BY <1>6
  <2>2. w.active[1] = traces[h]
    BY <1>1, <2>1 DEF Working
  <2>3. host = h
    BY <2>1, <2>2 DEF TracesTyped
  <2> QED
    BY <2>1, <2>3
<1>9. \A n \in 1..Len(x.active) : x.active[n] \notin Range(traceTold)
  <2> SUFFICES ASSUME NEW n \in 1..Len(Tail(w.active)), w.active[n + 1] \in Range(traceTold) PROVE FALSE
    BY <1>2, <1>3
  <2>1. w.active \in Seq(Nat) /\ Len(Tail(w.active)) = Len(w.active) - 1
    BY <1>1 DEF Runners
  <2>2. n + 1 \in 1..Len(w.active) /\ n + 1 # 1
    BY <2>1
  <2> QED
    BY <1>1, <2>2 DEF Working
<1>10. Range(x.active) \subseteq TraceIds /\ \A a, b \in 1..Len(x.active) : x.active[a] = x.active[b] => a = b
  BY <1>2, <1>3
<1>11. Working(x)'
  BY <1>1, <1>3, <1>8, <1>9, <1>10, NothingInHand
<1> QED
  BY <1>5, <1>7, <1>11

LEMMA SendKeeps ==
    ASSUME AttemptsPerHop \in Nat \ {0}, TracesTyped, Traced, NEW w, OneRunner(w), Send(1)
    PROVE  TracesTyped' /\ Traced' /\ \A r \in 1..Len(runners') : Working(runners[r])'
<1> DEFINE id == w.active[1]
<1>1. /\ w \in Runners /\ w.pc = "each" /\ runners[1] = w /\ Working(w) /\ w.active # <<>>
      /\ UNCHANGED <<traces, is_running, traceTold>>
      /\ traced(1) = Head(w.active)
  BY DEF OneRunner, Send, runnerAt, traced
<1>2. id \in TraceIds /\ 1 \in 1..Len(w.active) /\ Head(w.active) = id
  BY <1>1, RestOfActive DEF Working
<1>3. PICK i : i = getNextHop(traceInfo[id])
  OBVIOUS
<1>4. PICK x : x = [w EXCEPT !.pc = "pong", !.hop = Len(i.hops)]
  OBVIOUS
<1>5. /\ traceInfo' = [traceInfo EXCEPT ![id] = i] /\ runners' = [runners EXCEPT ![1] = x]
      /\ net' = net \cup {pongFrom(pong(i.host, Len(i.hops)))} \/ net' = net
  BY <1>1, <1>2, <1>3, <1>4 DEF Send
<1>6. traceInfo[id] \in TraceRouteInfos /\ GoodHops(traceInfo[id])
  BY <1>2 DEF TracesTyped, Traced, TraceIds
<1>7. /\ i \in TraceRouteInfos /\ GoodHops(i) /\ i.host = traceInfo[id].host
      /\ Len(i.hops) > 0 /\ i.hops[Len(i.hops)].attempts < AttemptsPerHop
  BY <1>3, <1>6, NextHop
<1>8. id \notin Range(traceTold)
  BY <1>1, <1>2 DEF Working
<1>9. /\ traceInfo' \in Seq(TraceRouteInfos) /\ TraceIds' = TraceIds /\ traceInfo'[id] = i
      /\ \A k \in TraceIds : GoodHops(traceInfo'[k])
      /\ \A k \in Range(traceTold) : hasTraceCompleted(traceInfo'[k])
      /\ \A h \in Hosts : traces[h] # 0 => traces[h] \in TraceIds /\ traceInfo'[traces[h]].host = h
  <2> HIDE DEF id
  <2> QED
    BY ZenonT(40), <1>2, <1>5, <1>7, <1>8, InfoChanges
<1>10. Len(i.hops) \in Nat /\ i.host \in Hosts
  BY <1>7 DEF TraceRouteInfos
<1>11. x \in Runners /\ x.pc = "pong" /\ x.active = w.active /\ x.hop = Len(i.hops)
  BY <1>1, <1>4, <1>10 DEF Runners
<1>12. runners' \in Seq(Runners) /\ Len(runners') = 1 /\ runners'[1] = x /\ runners' # <<>>
  BY <1>5, <1>11, ItGoesOn
<1>13. net' \subseteq Hosts
  BY <1>5, <1>10 DEF TracesTyped, pong, pongFrom
<1>14. TracesTyped'
  BY <1>1, <1>9, <1>12, <1>13 DEF TracesTyped
<1>15. Traced'
  BY <1>1, <1>9 DEF Traced, GoodHops, hasTraceCompleted, hasHopCompleted, getLastHop
<1>16. Working(x)'
  BY <1>1, <1>7, <1>9, <1>11 DEF Working
<1> QED
  BY <1>12, <1>14, <1>15, <1>16

LEMMA AttemptKeeps ==
    ASSUME AttemptsPerHop \in Nat \ {0}, TracesTyped, Traced, NEW w, OneRunner(w), w.pc = "pong",
           NEW ip \in Hosts \cup {Unknown}, Attempt(1, ip), net' \subseteq net
    PROVE  TracesTyped' /\ Traced' /\ \A r \in 1..Len(runners') : Working(runners[r])'
<1> DEFINE id == w.active[1]
<1>1. /\ w \in Runners /\ runners[1] = w /\ Working(w) /\ w.active # <<>> /\ traced(1) = Head(w.active)
      /\ UNCHANGED <<traces, is_running>>
  BY DEF OneRunner, Attempt, Working, traced
<1>2. /\ id \in TraceIds /\ 1 \in 1..Len(w.active) /\ Head(w.active) = id /\ Tail(w.active) \in Seq(Nat)
      /\ Range(Tail(w.active)) \subseteq TraceIds
      /\ \A a, b \in 1..Len(Tail(w.active)) : Tail(w.active)[a] = Tail(w.active)[b] => a = b
      /\ \A n \in 1..Len(Tail(w.active)) : Tail(w.active)[n] \in Range(w.active) /\ Tail(w.active)[n] # id
                                           /\ Tail(w.active)[n] = w.active[n + 1]
  BY <1>1, RestOfActive DEF Working
<1>3. /\ traceInfo[id] \in TraceRouteInfos /\ GoodHops(traceInfo[id])
      /\ w.hop = Len(traceInfo[id].hops) /\ w.hop > 0 /\ traceInfo[id].hops[w.hop].attempts < AttemptsPerHop
  BY <1>1, <1>2 DEF TracesTyped, Traced, TraceIds, Working
<1>4. PICK i : i = [traceInfo[id] EXCEPT !.hops[w.hop] = [attempts |-> @.attempts + 1, hopIP |-> ip]]
  OBVIOUS
<1>5. id \notin Range(traceTold) /\ \A n \in 1..Len(w.active) : w.active[n] \notin Range(traceTold)
  BY <1>1, <1>2 DEF Working
<1>6. PICK complete \in BOOLEAN : complete = hasTraceCompleted(i)
  BY DEF hasTraceCompleted
<1>7. PICK x : x = [w EXCEPT !.pc = IF complete THEN "remove" ELSE "each", !.active = IF complete THEN @ ELSE Tail(@)]
  OBVIOUS
<1>8. /\ traceInfo' = [traceInfo EXCEPT ![id] = i]
      /\ traceTold' = IF complete THEN Append(traceTold, id) ELSE traceTold
      /\ runners' = [runners EXCEPT ![1] = x]
  BY <1>1, <1>2, <1>4, <1>5, <1>6, <1>7 DEF Attempt
<1>9. i \in TraceRouteInfos /\ GoodHops(i) /\ i.host = traceInfo[id].host
  <2>1. PICK o : o = traceInfo[id]
    OBVIOUS
  <2>2. /\ o \in TraceRouteInfos /\ GoodHops(o) /\ w.hop = Len(o.hops) /\ w.hop > 0
        /\ o.hops[w.hop].attempts < AttemptsPerHop
    BY <1>3, <2>1
  <2>3. i = [o EXCEPT !.hops[w.hop] = [attempts |-> @.attempts + 1, hopIP |-> ip]]
    BY <1>4, <2>1
  <2> HIDE DEF id
  <2>4. i \in TraceRouteInfos /\ GoodHops(i) /\ i.host = o.host
    BY SMTT(30), <2>2, <2>3, MoreAttempts
  <2> QED
    BY <2>1, <2>4
<1>10. /\ traceInfo' \in Seq(TraceRouteInfos) /\ TraceIds' = TraceIds /\ traceInfo'[id] = i
       /\ \A k \in TraceIds : GoodHops(traceInfo'[k])
       /\ \A k \in Range(traceTold) : hasTraceCompleted(traceInfo'[k])
       /\ \A h \in Hosts : traces[h] # 0 => traces[h] \in TraceIds /\ traceInfo'[traces[h]].host = h
  <2> HIDE DEF id
  <2> QED
    <3>1. id \in TraceIds /\ id \notin Range(traceTold) /\ traceInfo' = [traceInfo EXCEPT ![id] = i]
      BY <1>2, <1>5, <1>8
    <3> QED
      BY <1>9, <3>1, InfoChanges
<1>11. /\ x \in Runners /\ x.pc = IF complete THEN "remove" ELSE "each"
       /\ x.active = IF complete THEN w.active ELSE Tail(w.active)
  BY <1>1, <1>2, <1>7 DEF Runners
<1>12. runners' \in Seq(Runners) /\ Len(runners') = 1 /\ runners'[1] = x /\ runners' # <<>>
  BY <1>8, <1>11, ItGoesOn
\* Who has been told.
<1>13. /\ traceTold' \in Seq(Nat) /\ Range(traceTold') = IF complete THEN Range(traceTold) \cup {id} ELSE Range(traceTold)
       /\ \A a, b \in 1..Len(traceTold') : traceTold'[a] = traceTold'[b] => a = b
  <2>1. CASE complete
    <3>1. traceTold' = Append(traceTold, id) /\ traceTold \in Seq(Nat) /\ Len(traceTold) \in Nat /\ id \in Nat
      BY <1>2, <1>8, <2>1 DEF TracesTyped, TraceIds
    <3> HIDE DEF id
    <3>2. /\ traceTold' \in Seq(Nat) /\ Len(traceTold') = Len(traceTold) + 1 /\ traceTold'[Len(traceTold) + 1] = id
          /\ \A a \in 1..Len(traceTold) : traceTold'[a] = traceTold[a]
      BY <3>1
    <3>3. Range(traceTold') = Range(traceTold) \cup {id}
      BY <3>1, AppendedRange
    <3>4. \A a \in 1..Len(traceTold) : traceTold[a] # id
      BY <1>5, <3>1 DEF Range
    <3>5. \A a \in 1..Len(traceTold') : a \in 1..Len(traceTold) \/ a = Len(traceTold) + 1
      BY <3>1, <3>2
    <3>6. \A a, b \in 1..Len(traceTold') : traceTold'[a] = traceTold'[b] => a = b
      BY <3>2, <3>4, <3>5 DEF Traced
    <3> QED
      BY <2>1, <3>2, <3>3, <3>6
  <2>2. CASE ~complete
    BY <1>8, <2>2 DEF TracesTyped, Traced
  <2> QED
    BY <2>1, <2>2
<1>14. TracesTyped'
  BY <1>1, <1>2, <1>10, <1>12, <1>13 DEF TracesTyped
<1>15. Traced'
  <2>1. \A k \in Range(traceTold') : hasTraceCompleted(traceInfo'[k])
    BY <1>6, <1>10, <1>13
  <2> QED
    BY <1>10, <1>13, <2>1 DEF Traced, GoodHops, hasTraceCompleted, hasHopCompleted, getLastHop
<1>16. \A h \in Hosts : traces'[h] # 0 /\ traces'[h] \in Range(traceTold') => complete /\ traces'[h] = id
  <2>1. \A h \in Hosts : traces[h] # 0 => traces[h] \notin Range(traceTold)
    BY <1>1 DEF Working
  <2> QED
    BY <1>1, <1>13, <2>1
<1>17. \A n \in 1..Len(x.active) : x.active[n] \in Range(traceTold') => complete /\ n = 1
  <2>1. CASE complete
    <3>1. \A n \in 1..Len(w.active) : w.active[n] = id => n = 1
      BY <1>1, <1>2 DEF Working
    <3> QED
      BY <1>5, <1>11, <1>13, <2>1, <3>1
  <2>2. CASE ~complete
    <3>1. w.active \in Seq(Nat) /\ Len(Tail(w.active)) = Len(w.active) - 1
      BY <1>1 DEF Runners
    <3>2. \A n \in 1..Len(Tail(w.active)) : n + 1 \in 1..Len(w.active)
      BY <3>1
    <3> QED
      BY <1>2, <1>5, <1>11, <1>13, <2>2, <3>2
  <2> QED
    BY <2>1, <2>2
<1>18. Range(x.active) \subseteq TraceIds' /\ \A a, b \in 1..Len(x.active) : x.active[a] = x.active[b] => a = b
  BY <1>1, <1>2, <1>10, <1>11 DEF Working
<1>19. Working(x)'
  BY <1>1, <1>11, <1>16, <1>17, <1>18 DEF Working
<1> QED
  BY <1>12, <1>14, <1>15, <1>19

LEMMA TraceInvHolds ==
    ASSUME AttemptsPerHop \in Nat \ {0}
    PROVE  (TraceInit => TraceInv) /\ (TraceInv /\ [TraceNext]_traceVars => TraceInv')
<1>1. ASSUME TraceInit PROVE TraceInv
  <2>1. runners = <<>> /\ traceInfo = <<>> /\ traceTold = <<>> /\ Range(<<>>) = {} /\ traces \in [Hosts -> Nat]
    BY <1>1 DEF TraceInit, Range
  <2> QED
    BY <1>1, <2>1 DEF TraceInit, TraceInv, TracesTyped, Traced, TraceIds
<1>2. ASSUME TraceInv, UNCHANGED traceVars PROVE TraceInv'
  <2>1. runners' = runners /\ (TracesTyped => TracesTyped')
    BY <1>2 DEF traceVars, TracesTyped, TraceIds
  <2>2. Traced => Traced'
    BY <1>2 DEF traceVars, Traced, TraceIds, GoodHops, hasTraceCompleted, hasHopCompleted, getLastHop
  <2>3. \A r \in 1..Len(runners) : Working(runners[r]) => Working(runners[r])'
    BY <1>2 DEF traceVars, Working, TraceIds
  <2> QED
    BY <1>2, <2>1, <2>2, <2>3 DEF TraceInv
<1>3. ASSUME TraceInv, TraceNext PROVE TraceInv'
  <2>1. (\E S : runners' \in Seq(S)) /\ Len(runners') >= Len(runners)
    BY <1>3, RunnersStay
  <2>2. Len(runners) \in Nat /\ Len(runners') \in Nat
    BY <1>3, <2>1 DEF TraceInv
  <2>3. SUFFICES ASSUME Len(runners') <= 1 
                 PROVE  TracesTyped' /\ Traced' /\ \A r \in 1..Len(runners') : Working(runners[r])'
    BY <2>1 DEF TraceInv
  <2>4. Len(runners) <= 1 /\ TracesTyped /\ Traced /\ \A r \in 1..Len(runners) : Working(runners[r])
    BY <1>3, <2>1, <2>2, <2>3 DEF TraceInv
  <2>5. CASE \E h \in Hosts : startTrace(h)
    BY <2>3, <2>4, <2>5, StartTraceKeeps
  <2>6. ASSUME NEW r \in 1..Len(runners),
               \/ WhileRunning(r) \/ Send(r) \/ TimesOut(r) \/ RemoveTrace(r) \/ AsksSize(r) \/ StopRunning(r)
               \/ \E ip \in Hosts : Pong(r, ip)
        PROVE  TracesTyped' /\ Traced' /\ \A s \in 1..Len(runners') : Working(runners[s])'
    <3>1. r = 1 /\ Len(runners) = 1
      BY <2>2, <2>4
    <3>2. PICK w : w = runners[1]
      OBVIOUS
    <3>3. OneRunner(w)
      <4>1. 1 \in 1..Len(runners) /\ runners \in Seq(Runners)
        BY <2>4, <3>1 DEF TracesTyped
      <4>2. runners[1] \in Runners /\ Working(runners[1])
        BY <2>4, <4>1
      <4> QED
        BY <3>1, <3>2, <4>2 DEF OneRunner
    <3>4. CASE WhileRunning(1)
      BY <2>4, <3>3, <3>4, WhileRunningKeeps
    <3>5. CASE Send(1)
      BY <2>4, <3>3, <3>5, SendKeeps
    <3>6. CASE RemoveTrace(1)
      BY <2>4, <3>3, <3>6, RemoveTraceKeeps
    <3>7. CASE AsksSize(1) \/ StopRunning(1)
      BY <2>4, <3>3, <3>7, SizeKeeps
    <3>8. CASE TimesOut(1) \/ \E ip \in Hosts : Pong(1, ip)
      <4>1. PICK ip \in Hosts \cup {Unknown} : Attempt(1, ip) /\ net' \subseteq net /\ runners[1].pc = "pong"
        BY <3>8 DEF TimesOut, Pong, runnerAt
      <4> QED
        BY <2>4, <3>2, <3>3, <4>1, AttemptKeeps
    <3> QED
      BY <2>6, <3>1, <3>4, <3>5, <3>6, <3>7, <3>8
  <2> QED
    BY <1>3, <2>5, <2>6 DEF TraceNext
<1> QED
  BY <1>1, <1>2, <1>3

(* However late replies are taken for those of other pings, as long as     *)
(* there is one thread, every hop gets its attempts before the next is     *)
(* tried, a trace is complete once and only when its host has answered,    *)
(* and then its entry is about to go.                                      *)
THEOREM TraceStaysRight == TraceSpec => []TraceRight
<1>1. TraceInv => TraceRight
  <2> SUFFICES ASSUME TraceInv, Len(runners) <= 1 PROVE TraceRight
    BY DEF TraceRight
  <2>1. TracesTyped /\ Traced /\ \A r \in 1..Len(runners) : Working(runners[r])
    BY DEF TraceInv
  <2>2. \A h \in Hosts : traces[h] # 0 /\ traces[h] \in Range(traceTold) =>
          \E r \in aliveRunners : runners[r].pc = "remove" /\ traced(r) = traces[h]
    <3> SUFFICES ASSUME NEW h \in Hosts, traces[h] # 0, traces[h] \in Range(traceTold)
                 PROVE  \E r \in aliveRunners : runners[r].pc = "remove" /\ traced(r) = traces[h]
      OBVIOUS
    <3>1. runners # <<>> /\ runners \in Seq(Runners)
      BY <2>1 DEF TracesTyped, TraceIds
    <3>2. 1 \in 1..Len(runners) /\ runners[1] \in Runners
      BY <3>1
    <3>3. runners[1].pc = "remove" /\ runners[1].active[1] = traces[h] /\ runners[1].active # <<>>
      BY <2>1, <3>2 DEF Working
    <3>4. traced(1) = runners[1].active[1]
      BY <3>2, <3>3 DEF traced, Runners
    <3> QED
      BY <3>2, <3>3, <3>4 DEF aliveRunners
  <2> QED
    BY <2>1, <2>2 DEF TraceRight, Traced, TraceIds, GoodHops
<1>2. (TraceInit => TraceInv) /\ (TraceInv /\ [TraceNext]_traceVars => TraceInv')
  BY AttemptsAssumption, TraceInvHolds
<1> QED
  BY <1>1, <1>2, PTL DEF TraceSpec
=============================================================================
