----------------------------- MODULE Directory -----------------------------
(***************************************************************************)
(* SRL::FS::Directory: the children are FsObjects that live as long as     *)
(* refresh() finds their names; each remembers what stat() told when it    *)
(* was first asked.  Other processes make and delete files meanwhile.      *)
(***************************************************************************)
EXTENDS Naturals, Sequences, FiniteSets, SequencesExt

CONSTANTS FileNames, MaxEvents

\* The words for a directory that is not read are no names.
ASSUME FileNamesAssumption == {"NoRead", "Closed"} \cap FileNames = {}

VARIABLES dirDisk,      \* the files of the directory and their sizes
          children,  \* _children
          todo,      \* names readdir() has still to return, NoRead or Closed
          new_list,  \* the names it returned
          stable,    \* history: names that were there all the time, and ones
          never,     \* that never were, since refresh() began
          childrenMade, events

dirVars == <<dirDisk, children, todo, new_list, stable, never, childrenMade, events>>

NoRead == {"NoRead"}   \* of todo: no refresh() runs,
Closed == {"Closed"}   \* it has read all the names
reading == todo \notin {NoRead, Closed}
NotAsked == 0          \* !_did_stats

DirectoryInit == /\ dirDisk \in [FileNames -> {0, 1}]   \* 0: no such file
                 /\ children = <<>> /\ todo = NoRead /\ new_list = <<>>
                 /\ stable = {} /\ never = {} /\ childrenMade = 0 /\ events = 0

names(cs) == {cs[i].name : i \in 1..Len(cs)}
there == {n \in FileNames : dirDisk[n] > 0}

\* refresh(): opendir(), which may throw
Refresh ==
    /\ todo = NoRead /\ events < MaxEvents /\ events' = events + 1
    /\ \/ todo' = there /\ new_list' = <<>> /\ stable' = there /\ never' = FileNames \ there
       \/ UNCHANGED <<todo, new_list, stable, never>>
    /\ UNCHANGED <<dirDisk, children, childrenMade>>

\* Faulty: a name that becomes a child does not get into the list.
ReadDir_OldOnly(n) ==
    /\ reading /\ n \in todo /\ todo' = todo \ {n}
    /\ IF n \in names(children) THEN new_list' = Append(new_list, n) /\ UNCHANGED <<children, childrenMade>>
       ELSE /\ children' = Append(children, [name |-> n, id |-> childrenMade + 1, size |-> NotAsked])
            /\ childrenMade' = childrenMade + 1 /\ UNCHANGED new_list
    /\ UNCHANGED <<dirDisk, stable, never, events>>

\* readdir(): a name that is no child yet becomes one.
ReadDir(n) ==
    /\ reading /\ n \in todo /\ todo' = todo \ {n}
    /\ new_list' = Append(new_list, n)
    /\ IF n \in names(children) THEN UNCHANGED <<children, childrenMade>>
       ELSE /\ children' = Append(children, [name |-> n, id |-> childrenMade + 1, size |-> NotAsked])
            /\ childrenMade' = childrenMade + 1
    /\ UNCHANGED <<dirDisk, stable, never, events>>

\* closedir(), and the children whose names were not read are removed, one
\* after the other.
CloseDir ==
    /\ todo = {} /\ todo' = Closed
    /\ UNCHANGED <<dirDisk, children, new_list, stable, never, childrenMade, events>>

RemoveChild(i) ==
    /\ todo = Closed /\ ~Contains(new_list, children[i].name)
    /\ \A j \in 1..(i - 1) : Contains(new_list, children[j].name)
    /\ children' = RemoveAt(children, i)
    /\ UNCHANGED <<dirDisk, todo, new_list, stable, never, childrenMade, events>>

Finish ==
    /\ todo = Closed /\ \A i \in 1..Len(children) : Contains(new_list, children[i].name)
    /\ todo' = NoRead
    /\ UNCHANGED <<dirDisk, children, new_list, stable, never, childrenMade, events>>

\* size() of a child, and the other accessors: stat() the first time only.
Size(i) ==
    /\ todo = NoRead /\ children[i].size = NotAsked /\ dirDisk[children[i].name] > 0
    /\ children' = [children EXCEPT ![i].size = dirDisk[children[i].name]]
    /\ UNCHANGED <<dirDisk, todo, new_list, stable, never, childrenMade, events>>

\* Another process makes, changes or deletes a file; readdir() may still
\* return a name that is gone, and may or may not return a new one.
Outside(n, size) ==
    /\ events < MaxEvents /\ events' = events + 1 /\ dirDisk[n] # size
    /\ dirDisk' = [dirDisk EXCEPT ![n] = size]
    /\ stable' = IF size = 0 THEN stable \ {n} ELSE stable
    /\ never' = IF size > 0 THEN never \ {n} ELSE never
    /\ \/ UNCHANGED todo
       \/ /\ reading /\ dirDisk[n] = 0 /\ ~Contains(new_list, n)
          /\ todo' = todo \cup {n}
       \/ reading /\ size = 0 /\ todo' = todo \ {n}
    /\ UNCHANGED <<children, new_list, childrenMade>>

DirectoryNext == \/ Refresh \/ CloseDir \/ Finish
                 \/ \E n \in FileNames : ReadDir(n) \/ \E size \in 0..2 : Outside(n, size)
                 \/ \E i \in 1..Len(children) : Size(i) \/ RemoveChild(i)

DirectorySpec == DirectoryInit /\ [][DirectoryNext]_dirVars

-----------------------------------------------------------------------------
(* However the directory changes while it is read, every name is one child *)
(* and one object, what was there all the time is among the children after *)
(* refresh() and what never was is not (linux/Directory.cpp:23-53).        *)
DirectoryRight ==
    /\ \A i, j \in 1..Len(children) :
           i # j => children[i].name # children[j].name /\ children[i].id # children[j].id
    /\ todo = NoRead =>
           stable \subseteq names(children) /\ names(children) \cap never = {}
=============================================================================
