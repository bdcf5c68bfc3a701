------------------------------ MODULE Triggers ------------------------------
(***************************************************************************)
(* SRL::Radmin::Monitor and its triggers: data that a monitor meets is     *)
(* held against the keyword triggers or the value triggers, which may stop *)
(* the monitor, or go away while the loop that asks them is running.       *)
(***************************************************************************)
EXTENDS Integers, Sequences, FiniteSets, SequencesExt

CONSTANTS Keywords, Values,
          MaxTriggers, MaxFeeds

ASSUME TriggersAssumption == MaxTriggers \in Nat

VARIABLES triggers,   \* kind -> the vector of that kind, of [id, actions, checks, value]
          iter, data, \* the loop: _pos, and what is checked; NoData if none runs
          deleted,    \* triggers that are freed, as often as they are
          toldOf,       \* triggers that the listeners were told of, by this loop
          removed,    \* history: triggers erased
          triggersBefore,     \* history: the triggers there were when the loop began
          monitoring, triggersMade, feeds

triggerVars == <<triggers, iter, data, deleted, toldOf, removed,
                 triggersBefore, monitoring, triggersMade, feeds>>

TriggerKinds == {"keyword", "value"}
NoData == [kind |-> "none"]
Data == [kind : {"keyword"}, words : SUBSET Keywords] \cup [kind : {"value"}, value : Values, float : BOOLEAN]
Actions == SUBSET {"STOP_MONITOR", "REMOVE_TRIGGER"}

-----------------------------------------------------------------------------
(* The members of Checks count from 0, and are used as bits.               *)
GREATER_THAN == 3
LESS_THAN == 4
EQUAL_TO == 5
Bits(n) == {b \in 0..2 : (n \div 2^b) % 2 = 1}
has(checks, flag) == Bits(checks) \cap Bits(flag) # {}

\* ValueTrigger::check(): of a double, EQUAL_TO alone is never asked.
checkValue(t, v, float) ==
    LET greater == has(t.checks, GREATER_THAN)
        less == has(t.checks, LESS_THAN)
        equal == has(t.checks, EQUAL_TO)
    IN IF greater /\ equal THEN v >= t.value
       ELSE IF less /\ equal THEN v <= t.value
       ELSE IF equal /\ ~float THEN v = t.value
       ELSE IF greater THEN v > t.value
       ELSE less /\ v < t.value

check(t, d) == IF d.kind = "keyword" THEN t.value \in d.words ELSE checkValue(t, d.value, d.float)

-----------------------------------------------------------------------------
TriggersInit == /\ triggers = [k \in TriggerKinds |-> <<>>] /\ iter = 0 /\ data = NoData
                /\ deleted = [i \in 1..MaxTriggers |-> 0] /\ toldOf = <<>> /\ removed = {}
                /\ triggersBefore = <<>>
                /\ monitoring = TRUE /\ triggersMade = 0 /\ feeds = 0

addTrigger(k, actions, checks, value) ==
    /\ data = NoData /\ feeds = 0 /\ triggersMade < MaxTriggers /\ triggersMade' = triggersMade + 1
    /\ triggers' = [triggers EXCEPT ![k] =
            Append(@, [id |-> triggersMade', actions |-> actions, checks |-> checks, value |-> value])]
    /\ UNCHANGED <<iter, data, deleted, toldOf, removed, triggersBefore, monitoring, feeds>>

\* checkKeywords() or checkValues() is called.
Check(d) ==
    /\ monitoring /\ data = NoData /\ feeds < MaxFeeds /\ feeds' = feeds + 1
    /\ data' = d /\ iter' = 0 /\ toldOf' = <<>> /\ triggersBefore' = triggers[d.kind]
    /\ UNCHANGED <<triggers, deleted, removed, monitoring, triggersMade>>

trigger == triggers[data.kind][iter + 1]
erased(s, p) == RemoveAt(s, p + 1)

\* Faulty: the iterator goes on from the trigger behind the one erased.
NextTrigger_Skips ==
    /\ data # NoData /\ iter < Len(triggers[data.kind])
    /\ LET fires == check(trigger, data)
           stops == fires /\ "STOP_MONITOR" \in trigger.actions
           goes == fires /\ ~stops /\ "REMOVE_TRIGGER" \in trigger.actions
       IN /\ toldOf' = IF fires THEN Append(toldOf, trigger.id) ELSE toldOf
          /\ data' = IF stops THEN NoData ELSE data
          /\ monitoring' = (monitoring /\ ~stops)
          /\ triggers' = IF goes THEN [triggers EXCEPT ![data.kind] = erased(@, iter)] ELSE triggers
          /\ deleted' = IF goes /\ data.kind = "keyword" THEN [deleted EXCEPT ![trigger.id] = @ + 1] ELSE deleted
          /\ removed' = IF goes THEN removed \cup {trigger.id} ELSE removed
          /\ iter' = iter + 1
    /\ UNCHANGED <<triggersBefore, triggersMade, feeds>>

\* One pass of the loop: the listeners are told, and the answer false stops
\* the monitor before the trigger is removed.  A value trigger that goes is
\* never deleted.
NextTrigger ==
    /\ data # NoData /\ iter < Len(triggers[data.kind])
    /\ LET fires == check(trigger, data)
           stops == fires /\ "STOP_MONITOR" \in trigger.actions
           goes == fires /\ ~stops /\ "REMOVE_TRIGGER" \in trigger.actions
       IN /\ toldOf' = IF fires THEN Append(toldOf, trigger.id) ELSE toldOf
          /\ data' = IF stops THEN NoData ELSE data
          /\ monitoring' = (monitoring /\ ~stops)
          /\ triggers' = IF goes THEN [triggers EXCEPT ![data.kind] = erased(@, iter)] ELSE triggers
          /\ deleted' = IF goes /\ data.kind = "keyword" THEN [deleted EXCEPT ![trigger.id] = @ + 1] ELSE deleted
          /\ removed' = IF goes THEN removed \cup {trigger.id} ELSE removed
          /\ iter' = IF goes THEN iter ELSE iter + 1     \* erase, --iter, ++iter
    /\ UNCHANGED <<triggersBefore, triggersMade, feeds>>

EndOfLoop == /\ data # NoData /\ iter >= Len(triggers[data.kind]) /\ data' = NoData
             /\ UNCHANGED <<triggers, iter, deleted, toldOf, removed,
                            triggersBefore, monitoring, triggersMade, feeds>>

\* final(): clear(true) of every vector; the destructor finds them empty.
final == /\ data = NoData /\ feeds > 0 /\ \E k \in TriggerKinds : triggers[k] # <<>>
         /\ deleted' = [i \in DOMAIN deleted |->
                IF \E k \in TriggerKinds : \E p \in 1..Len(triggers[k]) : triggers[k][p].id = i
                THEN deleted[i] + 1 ELSE deleted[i]]
         /\ triggers' = [k \in TriggerKinds |-> <<>>] /\ monitoring' = FALSE
         /\ toldOf' = <<>> /\ triggersBefore' = <<>>
         /\ UNCHANGED <<iter, data, removed, triggersMade, feeds>>

TriggersNext == \/ \E a \in Actions : \/ \E w \in Keywords : addTrigger("keyword", a, EQUAL_TO, w)
                                      \/ \E c \in {GREATER_THAN, LESS_THAN, EQUAL_TO}, v \in Values :
                                            addTrigger("value", a, c, v)
                \/ \E d \in Data : Check(d)
                \/ NextTrigger \/ EndOfLoop \/ final

TriggersSpec == TriggersInit /\ [][TriggersNext]_triggerVars

-----------------------------------------------------------------------------
(* The listeners hear of every trigger that the data meets, once and in    *)
(* order, unless one of them stops the monitor, whatever the loop erases   *)
(* on its way; nothing is deleted twice, nothing that is still in a vector *)
(* is, and after final() nothing remains but the value triggers that were  *)
(* removed (Monitor.cpp:83-126).                                           *)
TriggersRight ==
    /\ data # NoData /\ iter >= Len(triggers[data.kind]) =>
        /\ Range(toldOf) = {t.id : t \in {u \in Range(triggersBefore) : check(u, data)}}
        /\ \A m, n \in 1..Len(toldOf) : m < n => toldOf[m] < toldOf[n]
    /\ \A i \in 1..MaxTriggers : deleted[i] <= 1
    /\ \A k \in TriggerKinds : \A p \in 1..Len(triggers[k]) : deleted[triggers[k][p].id] = 0
    /\ ~monitoring /\ (\A k \in TriggerKinds : triggers[k] = <<>>) =>
        \A i \in 1..triggersMade : deleted[i] = 1 \/ i \in removed
=============================================================================
