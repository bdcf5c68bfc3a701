---------------------------- MODULE ProcessList -----------------------------
(***************************************************************************)
(* SRL::System::ProcessList on Linux: refresh() reads /proc an entry at a  *)
(* time while processes start, exit and take over pids, makes or refreshes *)
(* a Process for each entry from files that may be gone by then, and       *)
(* remove_dead() drops the ones it did not meet.  A refresh() within a     *)
(* second of the last one, or one that cannot open /proc, changes nothing. *)
(***************************************************************************)
EXTENDS Naturals, FiniteSets

CONSTANTS Numbers, MaxBirths, MaxRefreshes

ASSUME NumbersAssumption == Numbers \subseteq Nat \ {0}

VARIABLES world,     \* the process under each pid, by its birth; 0 if none
          births,
          list,      \* _list: the Process kept for a pid
          pids, newPids, deadPids,   \* _pids, _new_pids, _dead_pids
          listPc, entry, \* where refresh() is: "idle", "read", "look"
          listedBefore,    \* _list when this refresh() began
          stayed,    \* the pids whose process was there all the time since
          refreshes

listVars == <<world, births, list, pids, newPids, deadPids, listPc, entry, listedBefore,
              stayed, refreshes>>

ListInit == /\ world \in [Numbers -> {0}] /\ births = 0
            /\ list = [p \in {} |-> 0] /\ pids = {} /\ newPids = {} /\ deadPids = {}
            /\ listPc = "idle" /\ entry = 0 /\ listedBefore = {} /\ stayed = {} /\ refreshes = 0

living == {p \in Numbers : world[p] # 0}

BeginRefresh == /\ listPc = "idle" /\ refreshes < MaxRefreshes
                /\ listPc' = "read" /\ entry' = 0
                /\ pids' = {} /\ newPids' = {}
                /\ listedBefore' = DOMAIN list /\ stayed' = living
                /\ refreshes' = refreshes + 1
                /\ UNCHANGED <<world, births, list, deadPids>>

\* readdir(): the next pid of /proc, in ascending order.
ReadProc ==
    /\ listPc = "read"
    /\ \E p \in living : /\ p > entry
                         /\ \A q \in living : q > entry => p <= q
                         /\ entry' = p /\ pids' = pids \cup {p}
    /\ listPc' = "look"
    /\ UNCHANGED <<world, births, list, newPids, deadPids, listedBefore, stayed, refreshes>>

\* What initialize() makes of the files of pid p: a process that has exited
\* since is kept as "<unknown>", and is_running stays false.
initialize(p) == IF world[p] = 0 THEN [name |-> "unknown", running |-> FALSE]
                 ELSE [name |-> world[p], running |-> TRUE]

\* Process::refresh(): only the counters are read again, the name is kept.
refresh(p) == [list[p] EXCEPT !.running = world[p] # 0]

\* A new Process for a pid that is not listed, refresh() of one that is.
LookAt ==
    /\ listPc = "look"
    /\ IF entry \in DOMAIN list
       THEN /\ list' = [list EXCEPT ![entry] = refresh(entry)]
            /\ UNCHANGED newPids
       ELSE /\ list' = [p \in DOMAIN list \cup {entry} |->
                          IF p = entry THEN initialize(p) ELSE list[p]]
            /\ newPids' = newPids \cup {entry}
    /\ listPc' = "read"
    /\ UNCHANGED <<world, births, pids, deadPids, entry, listedBefore, stayed, refreshes>>

remove_dead_Keeps ==
    /\ deadPids' = deadPids \cup (DOMAIN list \ pids)
    /\ list' = [p \in DOMAIN list \cap pids |-> list[p]]

\* remove_dead(): the listed pids that /proc did not have.
remove_dead ==
    /\ deadPids' = DOMAIN list \ pids
    /\ list' = [p \in DOMAIN list \cap pids |-> list[p]]

\* The end of /proc.
EndOfProc == /\ listPc = "read" /\ \A q \in living : q <= entry
             /\ remove_dead
             /\ listPc' = "done"
             /\ UNCHANGED <<world, births, pids, newPids, entry, listedBefore, stayed, refreshes>>

RefreshDone == /\ listPc = "done" /\ listPc' = "idle"
               /\ UNCHANGED <<world, births, list, pids, newPids, deadPids, entry,
                              listedBefore, stayed, refreshes>>

\* A process of the system starts or exits.
Born(p) == /\ world[p] = 0 /\ births < MaxBirths
           /\ world' = [world EXCEPT ![p] = births + 1] /\ births' = births + 1
           /\ UNCHANGED <<list, pids, newPids, deadPids, listPc, entry, listedBefore, stayed, refreshes>>
Exits(p) == /\ world[p] # 0
            /\ world' = [world EXCEPT ![p] = 0]
            /\ stayed' = stayed \ {p}
            /\ UNCHANGED <<births, list, pids, newPids, deadPids, listPc, entry, listedBefore, refreshes>>

ListNext == BeginRefresh \/ ReadProc \/ LookAt \/ EndOfProc \/ RefreshDone
            \/ \E p \in Numbers : Born(p) \/ Exits(p)

ListSpec == ListInit /\ [][ListNext]_listVars

-----------------------------------------------------------------------------
\* When refresh() returns, every process that was there all the time is listed
\* as running, and newPids() and deadPids() are exactly the difference between
\* the list before and the list now (ProcessList.cpp:60).
ListedRight ==
    listPc = "done" =>
        /\ \A p \in stayed : p \in DOMAIN list /\ list[p].running
        /\ newPids = DOMAIN list \ listedBefore
        /\ deadPids = listedBefore \ DOMAIN list
=============================================================================
