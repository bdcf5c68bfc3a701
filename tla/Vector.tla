------------------------------- MODULE Vector -------------------------------
(***************************************************************************)
(* SRL::Util::Vector (cpp/include/srl/util/Vector.h): a block of memory    *)
(* that grows and shrinks with the number of elements.  Pointers tells the *)
(* two versions of the class apart: Vector<Value*> moves its block with    *)
(* realloc(), Vector<Value> with new[] and a loop.                         *)
(***************************************************************************)
EXTENDS Integers

CONSTANTS Values,      \* what callers put in the vector
          Null,        \* the null pointer resize() writes behind the elements
          Junk,        \* what a slot nobody has written to holds
          Pointers,    \* is it the Vector<Value*>?
          Block,       \* sizes are rounded up to it: 16 for pointers, 32 for values
          InitSize,    \* _init_size
          MaxUint,     \* UINT32_MAX, what position -1 becomes
          MaxSize,     \* bound on the number of elements
          AddAtLast,   \* do callers insert right before the last element?
          Threw, Done  \* the answer of a call that throws, that returns nothing

ASSUME SizesAssumption ==
    /\ Block \in Nat \ {0} /\ InitSize \in Nat /\ MaxSize \in Nat
    /\ MaxUint \in Nat /\ MaxUint > MaxSize
ASSUME FlagsAssumption == Pointers \in BOOLEAN /\ AddAtLast \in BOOLEAN
ASSUME ValuesAssumption == {Null, Junk} \cap Values = {} /\ Done # Threw

VARIABLES size,       \* _size
          arraySize,  \* _array_size
          array,      \* _array, a function on 0..arraySize - 1
          endPos,     \* _end_iter._pos
          result      \* what the last call answered

vars == <<size, arraySize, array, endPos, result>>

-----------------------------------------------------------------------------
\* ROUNDUP(n, Block)
RoundUp(n) == ((n + Block - 1) \div Block) * Block

\* The new_size of resize(needed).
newSize(needed) ==
    IF needed = 0 THEN 0
    ELSE RoundUp((IF needed < InitSize THEN InitSize ELSE needed) + 1)

\* What resize(needed) makes of the block a, when _size is n: nothing if the
\* size of the block stays, else a new one.  realloc() keeps what fits, the
\* loop of Vector<Value> copies when the vector grows.
resize(needed, a, n) ==
    LET m == newSize(needed) IN
    IF m = arraySize THEN a
    ELSE [i \in 0..(m - 1) |->
            IF Pointers
            THEN IF i = n THEN Null ELSE IF i < arraySize THEN a[i] ELSE Junk
            ELSE IF m > arraySize /\ i < n THEN a[i] ELSE Junk]

\* memmove() of the elements from position i on, one up or one down.
movedUp(a, i) == [k \in DOMAIN a |-> IF k > i /\ k <= size THEN a[k - 1] ELSE a[k]]

\* Faulty: the last element is left behind.
movedDown_OneShort(a, i) ==
    [k \in DOMAIN a |-> IF k >= i /\ k < size - 2 THEN a[k + 1] ELSE a[k]]

movedDown(a, i) == [k \in DOMAIN a |-> IF k >= i /\ k < size - 1 THEN a[k + 1] ELSE a[k]]

Init ==
    /\ size = 0 /\ endPos = 0
    /\ arraySize = newSize(InitSize)
    /\ array = [i \in 0..(newSize(InitSize) - 1) |-> IF Pointers /\ i = 0 THEN Null ELSE Junk]
    /\ result = Done

-----------------------------------------------------------------------------
\* Faulty: room is made for the elements there are, not for the new one.
Add_NoRoom(v) ==
    /\ size < MaxSize
    /\ arraySize' = newSize(size)
    /\ array' = [resize(size, array, size) EXCEPT ![size] = v]
    /\ size' = size + 1 /\ endPos' = endPos + 1
    /\ result' = Done

\* add()
Add(v) ==
    /\ size < MaxSize
    /\ arraySize' = newSize(size + 1)
    /\ array' = [resize(size + 1, array, size) EXCEPT ![size] = v]
    /\ size' = size + 1 /\ endPos' = endPos + 1
    /\ result' = Done

\* The call throws IndexOutOfBoundsException.
throws == result' = Threw /\ UNCHANGED <<size, arraySize, array, endPos>>

\* Faulty: the elements are not moved.
insert_NoMove(i, v) ==
    /\ size < MaxSize
    /\ AddAtLast \/ i # size - 1
    /\ arraySize' = newSize(size + 1)
    /\ array' = [resize(size + 1, array, size) EXCEPT ![i] = v]
    /\ size' = size + 1 /\ endPos' = endPos + 1
    /\ result' = Done

\* addAt() of a position it takes: nothing is moved for the last one.
insert(i, v) ==
    /\ size < MaxSize
    /\ AddAtLast \/ i # size - 1
    /\ arraySize' = newSize(size + 1)
    /\ LET a == resize(size + 1, array, size) IN
       array' = [(IF i = size - 1 THEN a ELSE movedUp(a, i)) EXCEPT ![i] = v]
    /\ size' = size + 1 /\ endPos' = endPos + 1
    /\ result' = Done

AddAt(i, v) == IF i < size THEN insert(i, v) ELSE throws

\* Faulty: the vector never shrinks.
take_KeepsBlock(i, answer) ==
    /\ i < size
    /\ size' = size - 1 /\ endPos' = endPos - 1
    /\ arraySize' = arraySize /\ array' = movedDown(array, i)
    /\ result' = answer

\* removeAt(i); a vector that is larger than its first size may shrink.
take(i, answer) ==
    /\ i < size
    /\ size' = size - 1 /\ endPos' = endPos - 1
    /\ IF size - 1 > InitSize
       THEN /\ arraySize' = newSize(size - 1)
            /\ array' = resize(size - 1, movedDown(array, i), size - 1)
       ELSE arraySize' = arraySize /\ array' = movedDown(array, i)
    /\ result' = answer

\* removeAt(), and erase() of an iterator at i
RemoveAt(i) == IF i < size THEN take(i, Done) ELSE throws

\* positionOf(v): the first position that holds v, -1 for an absent v
first(v, i) ==
    /\ i < size /\ array[i] = v
    /\ \A j \in 0..(i - 1) : array[j] # v

absent(v) == \A i \in 0..(size - 1) : array[i] # v

\* remove(): removeAt() throws for position UINT32_MAX.
Remove(v) ==
    \/ \E i \in 0..(size - 1) : first(v, i) /\ take(i, Done)
    \/ absent(v) /\ throws

\* A position passed as uint32.
index(i) == IF i = -1 THEN MaxUint ELSE i

\* pop(): the last element if no position is given
Pop(i) ==
    LET pos == IF i = -1 THEN index(size - 1) ELSE i IN
    IF pos < size THEN take(pos, array[pos]) ELSE throws

\* clear(): Vector<Value> resizes before it forgets its elements.
Clear ==
    /\ arraySize' = newSize(InitSize)
    /\ array' = resize(InitSize, array, IF Pointers THEN 0 ELSE size)
    /\ size' = 0 /\ endPos' = 0
    /\ result' = Done

\* set(): Vector<Value> answers a reference to the slot it just changed.
Set(i, v) ==
    IF i < size
    THEN /\ array' = [array EXCEPT ![i] = v]
         /\ result' = IF Pointers THEN array[i] ELSE v
         /\ UNCHANGED <<size, arraySize, endPos>>
    ELSE throws

Get(i) ==
    IF i < size
    THEN result' = array[i] /\ UNCHANGED <<size, arraySize, array, endPos>>
    ELSE throws

PositionOf(v) ==
    /\ \/ \E i \in 0..(size - 1) : first(v, i) /\ result' = i
       \/ absent(v) /\ result' = -1
    /\ UNCHANGED <<size, arraySize, array, endPos>>

Next ==
    \/ Clear
    \/ \E v \in Values : Add(v) \/ Remove(v) \/ PositionOf(v)
    \/ \E i \in 0..MaxSize : RemoveAt(i) \/ Get(i)
    \/ Pointers /\ \E i \in -1..MaxSize : Pop(i)
    \/ \E i \in 0..MaxSize, v \in Values : AddAt(i, v) \/ Set(i, v)

Spec == Init /\ [][Next]_vars

-----------------------------------------------------------------------------
TypeOK ==
    /\ size \in 0..MaxSize
    /\ arraySize \in Nat
    /\ array \in [0..(arraySize - 1) -> Values \cup {Null, Junk}]
    /\ endPos \in 0..MaxSize
    /\ result \in Values \cup {Null, Junk, Threw, Done} \cup -1..MaxSize

(* Whatever the order of growing and shrinking, the slot behind the last   *)
(* element is inside the block: add(), the memmove of addAt() and the      *)
(* _array[_size] = NULL of resize() stay in bounds (Vector.h:396, 408,     *)
(* 720), and begin() reaches end() in exactly as many steps as there are   *)
(* elements (Vector.h:57, 86).                                             *)
Fits == (size > 0 => size < arraySize) /\ endPos = size

(* "remove object from list by index" (Vector.h:77): the other elements    *)
(* stay; no position ever shows a slot that no caller wrote.               *)
NoJunk == \A i \in 0..(size - 1) : array[i] \in Values

(* Memory is given back: the block is never a whole Block larger than the  *)
(* elements, or the first size, need (Vector.h:87, 331, 706).              *)
GivesBack ==
    arraySize <= RoundUp((IF size < InitSize THEN InitSize ELSE size) + 2)

(* The vector is a list: every call does to the elements, and answers,     *)
(* what List.h says (Vector.h:402-482).                                    *)
Abstract == INSTANCE List WITH list <- [i \in 1..size |-> array[i - 1]]

ImplementsList == Abstract!Spec
=============================================================================
