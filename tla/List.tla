-------------------------------- MODULE List --------------------------------
(***************************************************************************)
(* What srl/util/List.h promises of a list: the elements in order, and     *)
(* what each call answers.  Positions count from 0; a call with a position *)
(* that is not in the list throws and changes nothing.                     *)
(***************************************************************************)
EXTENDS Integers, SequencesExt

CONSTANTS Values,   \* what can be put in the list
          Threw,    \* the answer of a call that throws
          Done      \* the answer of a call that returns nothing

VARIABLES list, result

vars == <<list, result>>

Positions == 0..(Len(list) - 1)

Init == list = <<>> /\ result = Done

Add(v) == list' = Append(list, v) /\ result' = Done

\* The elements from position i on move up by one.
Insert(i, v) == i \in Positions /\ list' = InsertAt(list, i + 1, v) /\ result' = Done

\* remove(), removeAt() and erase() answer nothing, pop() the element.
Delete(i) ==
    /\ i \in Positions
    /\ list' = RemoveAt(list, i + 1)
    /\ result' \in {Done, list[i + 1]}

Set(i, v) == i \in Positions /\ list' = ReplaceAt(list, i + 1, v) /\ result' = list[i + 1]

Clear == list' = <<>> /\ result' = Done

Get(i) == i \in Positions /\ result' = list[i + 1] /\ UNCHANGED list

\* The first position of v, or -1.
Find(v) ==
    /\ result' = SelectInSeq(list, LAMBDA x : x = v) - 1
    /\ UNCHANGED list

Throw == result' = Threw /\ UNCHANGED list

Next ==
    \/ Clear \/ Throw
    \/ \E v \in Values : Add(v) \/ Find(v)
    \/ \E i \in Positions : Delete(i) \/ Get(i)
    \/ \E i \in Positions, v \in Values : Insert(i, v) \/ Set(i, v)

Spec == Init /\ [][Next]_vars
=============================================================================
