------------------------------- MODULE Watch -------------------------------
(***************************************************************************)
(* The change listeners of SRL::FS::FsObject on Linux.  The kernel sends a *)
(* signal when something in the directory of a listening object changes;   *)
(* the handler sets the flag of every listening object, and the pause() of *)
(* one thread returns, if it has begun.                                    *)
(***************************************************************************)
EXTENDS Naturals, FiniteSets

CONSTANTS FsObjects,        \* the FsObjects, each used by a thread of its own
          Dirs,             \* those that stand for a directory
          MaxChanges, MaxWatchCalls

\* A file is no null pointer.
ASSUME ObjectsAssumption == "NULL" \notin FsObjects /\ IsFiniteSet(FsObjects)

NULL == {"NULL"}       \* of change_handlers
Gone == 0              \* the size of a file that is not there

VARIABLES handlers,    \* change_handlers
          change_mutex,       \* the threads that hold change_mutex: at most one
          fd,          \* what _fd names: "none", a descriptor that is "open", one that "notifies"
          opened,      \* descriptors the process has open
          failures,    \* history: calls of startChangeListener() that fcntl() has ended
          changed,     \* _is_changed
          fileSize, file_size,  \* what is on the disk, and _file_size
          watchPc, watchLoop,   \* where the thread is, and in which loop of waitForChange()
          handlerRan,  \* history: the handler ran since the thread waits
          signals,     \* sent and not delivered
          changes, watchCalls

listenerVars == <<handlers, change_mutex, fd, opened, failures>>
watchVars == <<listenerVars, changed, fileSize, file_size, watchPc, watchLoop, handlerRan,
               signals, changes, watchCalls>>

WatchInit == /\ handlers = NULL /\ change_mutex = {}
             /\ fd = [o \in FsObjects |-> "none"] /\ opened = 0 /\ failures = 0
             /\ changed = [o \in FsObjects |-> FALSE]
             /\ fileSize \in [FsObjects -> {Gone, 1}] /\ \A o \in Dirs : fileSize[o] = 1
             /\ file_size = fileSize
             /\ watchPc = [o \in FsObjects |-> "idle"] /\ watchLoop = [o \in FsObjects |-> "dir"]
             /\ handlerRan = [o \in FsObjects |-> FALSE]
             /\ signals = 0 /\ changes = 0 /\ watchCalls = 0

listening == IF handlers = NULL THEN {} ELSE handlers

\* _update_stats(): nothing is learnt of a file that is not there.  It throws
\* if the file goes between its Exists() and stat().
update_stats(o) == file_size' = IF fileSize[o] = Gone THEN file_size ELSE [file_size EXCEPT ![o] = fileSize[o]]
statFails(o) == fileSize[o] # Gone /\ UNCHANGED file_size

WatchCalled(o) == watchPc[o] = "idle" /\ watchCalls < MaxWatchCalls /\ watchCalls' = watchCalls + 1

\* startChangeListener(): what _fd named before is overwritten.
Listens(o) ==
    /\ update_stats(o) /\ changed' = [changed EXCEPT ![o] = FALSE]
    /\ handlers' = listening \cup {o} /\ fd' = [fd EXCEPT ![o] = "notifies"]
    /\ opened' = opened + 1 /\ UNCHANGED <<change_mutex, failures>>

\* Its exceptions: of stat(), with change_mutex locked; of open(); and of
\* fcntl(), which leaves the descriptor open.
ListenFails(o) ==
    /\ handlers' = listening
    /\ \/ statFails(o) /\ change_mutex' = {o} /\ UNCHANGED <<fd, opened, failures, changed>>
       \/ /\ update_stats(o) /\ changed' = [changed EXCEPT ![o] = FALSE] /\ fd' = [fd EXCEPT ![o] = "none"]
          /\ UNCHANGED <<change_mutex, opened, failures>>
       \/ /\ update_stats(o) /\ changed' = [changed EXCEPT ![o] = FALSE] /\ fd' = [fd EXCEPT ![o] = "open"]
          /\ opened' = opened + 1 /\ failures' = failures + 1 /\ UNCHANGED change_mutex

StartChangeListener(o) ==
    /\ WatchCalled(o) /\ change_mutex \subseteq {o}
    /\ IF o \in listening THEN UNCHANGED <<listenerVars, file_size, changed>>
       ELSE Listens(o) \/ ListenFails(o)
    /\ UNCHANGED <<fileSize, watchPc, watchLoop, handlerRan, signals, changes>>

\* Faulty: the descriptor stays open.
StopChangeListener_NoClose(o) ==
    /\ WatchCalled(o) /\ change_mutex = {} /\ handlers # NULL
    /\ handlers' = handlers \ {o}
    /\ UNCHANGED <<change_mutex, fd, opened, failures, changed, fileSize, file_size, watchPc, watchLoop, handlerRan, signals, changes>>

\* stopChangeListener(): without any listener so far it returns with the
\* mutex locked, which leaves it locked for all other threads.
StopChangeListener(o) ==
    /\ WatchCalled(o) /\ change_mutex \subseteq {o}
    /\ CASE handlers = NULL -> change_mutex' = {o} /\ UNCHANGED <<handlers, fd, opened>>
         [] o \in listening -> /\ handlers' = handlers \ {o} /\ fd' = [fd EXCEPT ![o] = "none"] /\ opened' = opened - 1
                               /\ UNCHANGED change_mutex
         [] OTHER -> UNCHANGED <<handlers, change_mutex, fd, opened>>
    /\ UNCHANGED <<failures, changed, fileSize, file_size, watchPc, watchLoop, handlerRan, signals, changes>>

\* waitForChange() up to its loop, or up to the second look at a file that is there.
WaitForChange(o) ==
    /\ WatchCalled(o) /\ o \in listening
    /\ changed' = [changed EXCEPT ![o] = FALSE]
    /\ handlerRan' = [handlerRan EXCEPT ![o] = FALSE]
    /\ watchLoop' = [watchLoop EXCEPT ![o] = IF o \in Dirs THEN "dir" ELSE IF fileSize[o] = Gone THEN "appear" ELSE "file"]
    /\ watchPc' = [watchPc EXCEPT ![o] = IF watchLoop'[o] = "file" THEN "look" ELSE "test"]
    /\ UNCHANGED <<listenerVars, fileSize, file_size, signals, changes>>

\* A step of a wait that moves its thread on.
WaitGoes(o, from, to) ==
    /\ watchPc[o] = from /\ watchPc' = [watchPc EXCEPT ![o] = to]
    /\ UNCHANGED <<listenerVars, fileSize, watchLoop, handlerRan, signals, changes, watchCalls>>

\* A file that has another size than the last time returns at once.
Look(o) ==
    /\ \/ update_stats(o) /\ WaitGoes(o, "look", IF file_size'[o] # file_size[o] THEN "returned" ELSE "test")
       \/ statFails(o) /\ WaitGoes(o, "look", "threw")
    /\ UNCHANGED changed

\* while (!_is_changed)
TestChanged(o) ==
    /\ IF ~changed[o] THEN WaitGoes(o, "test", "sleep") /\ UNCHANGED file_size
       ELSE IF watchLoop[o] = "file" THEN WaitGoes(o, "test", "returned") /\ UNCHANGED file_size
       ELSE \/ update_stats(o) /\ WaitGoes(o, "test", "returned")
            \/ statFails(o) /\ WaitGoes(o, "test", "threw")
    /\ UNCHANGED changed

\* A signal that comes before this one wakes nobody.
Pause(o) == WaitGoes(o, "sleep", "pause") /\ UNCHANGED <<changed, file_size>>

\* The signal reaches the process: the handler runs, in one of the threads.
Signal(o) ==
    /\ signals > 0 /\ signals' = signals - 1
    /\ changed' = [p \in FsObjects |-> changed[p] \/ p \in listening]
    /\ watchPc' = [watchPc EXCEPT ![o] = IF @ = "pause" THEN "woken" ELSE @]
    /\ handlerRan' = [p \in FsObjects |-> handlerRan[p] \/ p \in listening]
    /\ UNCHANGED <<listenerVars, fileSize, file_size, watchLoop, changes, watchCalls>>

\* After pause(): what happened may have been to another file, and then the
\* flag is cleared, also if it was set again after the look at the file.
Woken(o) ==
    /\ CASE watchLoop[o] = "dir" -> WaitGoes(o, "woken", "test") /\ UNCHANGED file_size
         [] watchLoop[o] = "appear" ->
                WaitGoes(o, "woken", IF fileSize[o] = Gone THEN "other" ELSE "test") /\ UNCHANGED file_size
         [] OTHER -> \/ /\ fileSize[o] # Gone /\ update_stats(o)
                        /\ WaitGoes(o, "woken", IF file_size'[o] = file_size[o] THEN "other" ELSE "test")
                     \/ WaitGoes(o, "woken", "threw") /\ UNCHANGED file_size
    /\ UNCHANGED changed

NotThisFile(o) ==
    WaitGoes(o, "other", "test") /\ changed' = [changed EXCEPT ![o] = FALSE] /\ UNCHANGED file_size

WaitReturns(o) ==
    (WaitGoes(o, "returned", "idle") \/ WaitGoes(o, "threw", "idle")) /\ UNCHANGED <<changed, file_size>>

\* A file is made, grows or goes, or something else changes in the
\* directory; every descriptor that notifies has the kernel send a signal.
Change ==
    /\ changes < MaxChanges /\ changes' = changes + 1
    /\ \/ UNCHANGED fileSize
       \/ \E o \in FsObjects \ Dirs, n \in {Gone, 1, 2} : n # fileSize[o] /\ fileSize' = [fileSize EXCEPT ![o] = n]
    /\ signals' = IF \E o \in FsObjects : fd[o] = "notifies" THEN signals + 1 ELSE signals
    /\ UNCHANGED <<listenerVars, changed, file_size, watchPc, watchLoop, handlerRan, watchCalls>>

WatchNext == \/ Change
             \/ \E o \in FsObjects :
                    \/ StartChangeListener(o) \/ StopChangeListener(o) \/ WaitForChange(o)
                    \/ Look(o) \/ TestChanged(o) \/ Pause(o) \/ Signal(o) \/ Woken(o) \/ NotThisFile(o)
                    \/ WaitReturns(o)

WatchSpec == WatchInit /\ [][WatchNext]_watchVars

-----------------------------------------------------------------------------
(* The objects that listen are the ones whose descriptor notifies; the     *)
(* process has one descriptor open for each of them, and one more, which   *)
(* nobody closes, for every startChangeListener() that fcntl() ended.  A   *)
(* wait returns only after the handler ran, or to report a file whose size *)
(* is not the one last seen.  It says nothing of a change that is missed:  *)
(* a signal before pause(), or one that another thread takes, leaves a     *)
(* thread asleep with its flag set (linux/FsObject.cpp:47-67, 80, 91-141). *)
WatchRight ==
    /\ \A o \in FsObjects : (fd[o] = "notifies") <=> o \in listening
    /\ opened = Cardinality(listening) + failures
    /\ \A o \in FsObjects : changed[o] /\ watchPc[o] = "test" => handlerRan[o]
    /\ \A o \in FsObjects : watchPc[o] = "returned" => handlerRan[o] \/ o \notin Dirs
=============================================================================
