---------------------------- MODULE VectorProofs ----------------------------
(***************************************************************************)
(* Proofs about Vector, for every block size, first size and bound.        *)
(***************************************************************************)
EXTENDS Vector, SequenceTheorems, TLAPS

Slots == Values \cup {Null, Junk}

(* ROUNDUP never rounds down (types.h:152).                                *)
LEMMA RoundUpIsUp ==
    ASSUME NEW n \in Nat
    PROVE  RoundUp(n) \in Nat /\ n <= RoundUp(n)
BY SizesAssumption DEF RoundUp

(* ROUNDUP keeps the order (types.h:152).                                  *)
LEMMA RoundUpMonotone ==
    ASSUME NEW m \in Nat, NEW n \in Nat, m <= n
    PROVE  RoundUp(m) <= RoundUp(n)
<1> DEFINE p == (m + Block - 1) \div Block
           q == (n + Block - 1) \div Block
<1>1. p \in Nat /\ q \in Nat /\ p <= q
  BY SizesAssumption
<1>2. p * Block <= q * Block
  <2> HIDE DEF p, q
  <2> QED BY <1>1, SizesAssumption
<1> QED BY <1>2 DEF RoundUp

(* resize() makes room for the elements it was asked for and for the slot  *)
(* behind them (Vector.h:331, 706).                                        *)
LEMMA NewSizeFits ==
    ASSUME NEW n \in Nat
    PROVE  newSize(n) \in Nat /\ (n > 0 => n < newSize(n))
<1> DEFINE k == IF n < InitSize THEN InitSize ELSE n
<1>1. k + 1 \in Nat /\ n < k + 1
  BY SizesAssumption
<1>2. RoundUp(k + 1) \in Nat /\ k + 1 <= RoundUp(k + 1)
  <2> HIDE DEF k
  <2> QED BY <1>1, RoundUpIsUp
<1> QED BY <1>1, <1>2 DEF newSize

(* The block resize() leaves is as large as _array_size says.              *)
LEMMA ResizeType ==
    ASSUME NEW n \in Nat, NEW m \in Nat, arraySize \in Nat,
           NEW a \in [0..(arraySize - 1) -> Slots], m <= arraySize
    PROVE  resize(n, a, m) \in [0..(newSize(n) - 1) -> Slots]
<1>1. newSize(n) \in Nat
  BY NewSizeFits
<1> QED BY <1>1, FlagsAssumption DEF resize, Slots

(* realloc() keeps the elements (Vector.h:718).                            *)
LEMMA ReallocKeeps ==
    ASSUME Pointers, NEW n \in Nat, NEW m \in Nat, arraySize \in Nat,
           NEW a \in [0..(arraySize - 1) -> Slots], m <= arraySize, m <= newSize(n),
           NEW i \in 0..(m - 1)
    PROVE  resize(n, a, m)[i] = a[i]
<1>1. newSize(n) \in Nat
  BY NewSizeFits
<1> QED BY <1>1 DEF resize, Slots

(* The inductive invariant: types, the room behind the elements, nothing   *)
(* that no caller wrote among them, and the size of the block.  NoJunk     *)
(* holds for the pointer version only, and while nobody inserts before the *)
(* last element; GivesBack needs that a vector larger than its first size  *)
(* has exactly the block resize() would give it.                           *)
Sound == Pointers /\ ~AddAtLast => NoJunk
Exact == size > InitSize => arraySize = newSize(size)
IInv == TypeOK /\ Fits /\ Sound /\ GivesBack /\ Exact

(* What the invariant says in the form the lemmas on resize() want it.     *)
LEMMA Facts ==
    ASSUME IInv
    PROVE  /\ size \in Nat /\ size + 1 \in Nat /\ size <= MaxSize
           /\ arraySize \in Nat /\ size <= arraySize
           /\ size > 0 => size < arraySize
           /\ array \in [0..(arraySize - 1) -> Slots]
BY SizesAssumption DEF IInv, TypeOK, Fits, Slots

(* resize(_size + 1) makes room and, for pointers, keeps the elements      *)
(* (Vector.h:395, 406).                                                    *)
LEMMA Grown ==
    ASSUME IInv
    PROVE  LET a == resize(size + 1, array, size)
               m == newSize(size + 1)
           IN  /\ m \in Nat /\ size + 1 < m
               /\ m <= RoundUp((IF size + 1 < InitSize THEN InitSize ELSE size + 1) + 2)
               /\ a \in [0..(m - 1) -> Slots]
               /\ Pointers => \A i \in 0..(size - 1) : a[i] = array[i]
<1>1. newSize(size + 1) \in Nat /\ size + 1 < newSize(size + 1)
  BY Facts, NewSizeFits
<1>2. newSize(size + 1) <= RoundUp((IF size + 1 < InitSize THEN InitSize ELSE size + 1) + 2)
  BY Facts, RoundUpMonotone, SizesAssumption DEF newSize
<1>3. resize(size + 1, array, size) \in [0..(newSize(size + 1) - 1) -> Slots]
  BY <1>1, Facts, ResizeType
<1>4. ASSUME Pointers, NEW i \in 0..(size - 1)
      PROVE  resize(size + 1, array, size)[i] = array[i]
  BY <1>1, <1>4, Facts, ReallocKeeps
<1> QED BY <1>1, <1>2, <1>3, <1>4

(* add() (Vector.h:393-399).                                               *)
LEMMA AddIInv ==
    ASSUME IInv, NEW v \in Values, Add(v)
    PROVE  IInv'
<1> DEFINE a == resize(size + 1, array, size)
           m == newSize(size + 1)
<1>1. /\ m \in Nat /\ size + 1 < m
      /\ m <= RoundUp((IF size + 1 < InitSize THEN InitSize ELSE size + 1) + 2)
      /\ a \in [0..(m - 1) -> Slots]
      /\ Pointers => \A i \in 0..(size - 1) : a[i] = array[i]
  BY Grown
<1>2. /\ size < MaxSize /\ size' = size + 1 /\ endPos' = endPos + 1
      /\ arraySize' = m /\ array' = [a EXCEPT ![size] = v] /\ result' = Done
  BY DEF Add
<1> HIDE DEF a, m
<1>3. TypeOK' /\ Fits'
  BY <1>1, <1>2, SizesAssumption DEF IInv, TypeOK, Fits, Slots
<1>4. Sound'
  <2> SUFFICES ASSUME Pointers, ~AddAtLast, NEW k \in 0..size
               PROVE  array'[k] \in Values
    BY <1>2, Facts DEF Sound, NoJunk
  <2>1. \A j \in 0..(size - 1) : a[j] \in Values
    BY <1>1, Facts DEF IInv, Sound, NoJunk
  <2> QED BY <1>1, <1>2, <2>1, Facts
<1>5. GivesBack' /\ Exact'
  BY <1>1, <1>2 DEF GivesBack, Exact, m
<1> QED BY <1>3, <1>4, <1>5 DEF IInv

(* addAt() (Vector.h:402-412).                                             *)
LEMMA InsertIInv ==
    ASSUME IInv, NEW i \in 0..MaxSize, NEW v \in Values, i < size, insert(i, v)
    PROVE  IInv'
<1> DEFINE a == resize(size + 1, array, size)
           m == newSize(size + 1)
           b == IF i = size - 1 THEN a ELSE movedUp(a, i)
<1>1. /\ m \in Nat /\ size + 1 < m
      /\ m <= RoundUp((IF size + 1 < InitSize THEN InitSize ELSE size + 1) + 2)
      /\ a \in [0..(m - 1) -> Slots]
      /\ Pointers => \A k \in 0..(size - 1) : a[k] = array[k]
  BY Grown
<1>2. /\ size < MaxSize /\ i < size /\ (AddAtLast \/ i # size - 1)
      /\ size' = size + 1 /\ endPos' = endPos + 1
      /\ arraySize' = m /\ array' = [b EXCEPT ![i] = v] /\ result' = Done
  BY DEF insert
<1> HIDE DEF a, m
<1>3. b \in [0..(m - 1) -> Slots]
  BY <1>1, <1>2, Facts DEF movedUp
<1>4. ASSUME i # size - 1, NEW k \in 0..size
      PROVE  b[k] = IF k > i THEN a[k - 1] ELSE a[k]
  BY <1>1, <1>4, Facts DEF movedUp
<1> HIDE DEF b
<1>5. TypeOK' /\ Fits'
  BY <1>1, <1>2, <1>3, SizesAssumption DEF IInv, TypeOK, Fits, Slots
<1>6. Sound'
  <2> SUFFICES ASSUME Pointers, ~AddAtLast, NEW k \in 0..size
               PROVE  array'[k] \in Values
    BY <1>2, Facts DEF Sound, NoJunk
  <2>1. \A j \in 0..(size - 1) : a[j] \in Values
    BY <1>1, Facts DEF IInv, Sound, NoJunk
  <2>2. k # i => b[k] \in Values
    BY <1>2, <1>4, <2>1, Facts
  <2> QED BY <1>1, <1>2, <1>3, <2>2, Facts
<1>7. GivesBack' /\ Exact'
  BY <1>1, <1>2 DEF GivesBack, Exact, m
<1> QED BY <1>5, <1>6, <1>7 DEF IInv

(* removeAt(), in all its uses (Vector.h:419-445).                         *)
LEMMA TakeIInv ==
    ASSUME IInv, NEW i \in 0..(size - 1), NEW answer, take(i, answer),
           answer \in Slots \cup {Done}
    PROVE  IInv'
<1> DEFINE d == movedDown(array, i)
<1>1. /\ size - 1 \in Nat /\ InitSize \in Nat
      /\ d \in [0..(arraySize - 1) -> Slots]
      /\ \A k \in 0..(size - 2) : d[k] = IF k >= i THEN array[k + 1] ELSE array[k]
  BY Facts, SizesAssumption DEF movedDown
<1>2. size' = size - 1 /\ endPos' = endPos - 1 /\ result' = answer
  BY DEF take
<1> HIDE DEF d
<1>3. ASSUME Pointers, ~AddAtLast, NEW k \in 0..(size - 2)
      PROVE  d[k] \in Values
  <2>1. \A j \in 0..(size - 1) : array[j] \in Values
    BY <1>3 DEF IInv, Sound, NoJunk
  <2> QED BY <1>1, <2>1, Facts
<1>4. CASE size - 1 > InitSize
  <2> DEFINE m == newSize(size - 1)
             a == resize(size - 1, d, size - 1)
  <2>1. m \in Nat /\ size - 1 < m
    BY <1>1, <1>4, NewSizeFits
  <2>2. m <= RoundUp((IF size - 1 < InitSize THEN InitSize ELSE size - 1) + 2)
    BY <1>1, <1>4, RoundUpMonotone DEF newSize
  <2>3. a \in [0..(m - 1) -> Slots]
    BY <1>1, Facts, ResizeType
  <2>4. Pointers => \A k \in 0..(size - 2) : a[k] = d[k]
    BY <1>1, <2>1, Facts, ReallocKeeps
  <2>5. arraySize' = m /\ array' = a
    BY <1>4 DEF take, d
  <2> HIDE DEF a
  <2>6. GivesBack' /\ Exact'
    BY <1>2, <2>2, <2>5 DEF GivesBack, Exact
  <2> HIDE DEF m
  <2>7. TypeOK' /\ Fits'
    <3>1. endPos = size
      BY DEF IInv, Fits
    <3> QED BY <1>1, <1>2, <2>1, <2>3, <2>5, <3>1, Facts, SizesAssumption
            DEF TypeOK, Fits, Slots
  <2>8. Sound'
    <3> SUFFICES ASSUME Pointers, ~AddAtLast, NEW k \in 0..(size - 2)
                 PROVE  a[k] \in Values
      BY <1>1, <1>2, <2>5, Facts DEF Sound, NoJunk
    <3> QED BY <1>3, <2>4
  <2> QED BY <2>6, <2>7, <2>8 DEF IInv
<1>5. CASE ~(size - 1 > InitSize)
  <2>0. arraySize' = arraySize /\ array' = d
    BY <1>5 DEF take, d
  <2>1. TypeOK' /\ Fits'
    <3>1. endPos = size
      BY DEF IInv, Fits
    <3> QED BY <1>1, <1>2, <2>0, <3>1, Facts, SizesAssumption
            DEF TypeOK, Fits, Slots
  <2>2. Sound'
    <3> SUFFICES ASSUME Pointers, ~AddAtLast, NEW k \in 0..(size - 2)
                 PROVE  d[k] \in Values
      BY <1>1, <1>2, <2>0, Facts DEF Sound, NoJunk
    <3> QED BY <1>3
  <2>3. arraySize <= RoundUp(InitSize + 2)
    <3>1. CASE size > InitSize
      BY <1>1, <1>5, <3>1, Facts, RoundUpMonotone DEF IInv, Exact, newSize
    <3>2. CASE size <= InitSize
      BY <1>1, <3>2, Facts, RoundUpMonotone DEF IInv, GivesBack
    <3> QED BY <1>1, <3>1, <3>2, Facts
  <2>4. (IF size - 1 < InitSize THEN InitSize ELSE size - 1) = InitSize
    BY <1>1, <1>5
  <2>5. GivesBack' /\ Exact'
    BY <1>2, <1>5, <2>0, <2>3, <2>4 DEF GivesBack, Exact
  <2> QED BY <2>1, <2>2, <2>5 DEF IInv
<1> QED BY <1>4, <1>5

(* clear() (Vector.h:448-459).                                             *)
LEMMA ClearIInv ==
    ASSUME IInv, Clear
    PROVE  IInv'
<1> DEFINE n == IF Pointers THEN 0 ELSE size
           a == resize(InitSize, array, n)
<1>1. newSize(InitSize) \in Nat
  BY NewSizeFits, SizesAssumption
<1>2. n \in Nat /\ n <= arraySize
  BY Facts
<1>3. a \in [0..(newSize(InitSize) - 1) -> Slots]
  <2> HIDE DEF n
  <2> QED BY <1>2, Facts, ResizeType, SizesAssumption
<1>4. /\ size' = 0 /\ endPos' = 0 /\ result' = Done
      /\ arraySize' = newSize(InitSize) /\ array' = a
  BY DEF Clear
<1> HIDE DEF a
<1>5. TypeOK' /\ Fits'
  BY <1>1, <1>3, <1>4, SizesAssumption DEF TypeOK, Fits, Slots
<1>6. Sound'
  BY <1>4 DEF Sound, NoJunk
<1>7. newSize(InitSize) <= RoundUp(InitSize + 2)
  BY RoundUpMonotone, RoundUpIsUp, SizesAssumption DEF newSize
<1>8. GivesBack' /\ Exact'
  BY <1>4, <1>7, SizesAssumption DEF GivesBack, Exact
<1> QED BY <1>5, <1>6, <1>8 DEF IInv

(* A call that only answers (Vector.h:472, 506, and every throw).          *)
LEMMA AnswerIInv ==
    ASSUME IInv, UNCHANGED <<size, arraySize, array, endPos>>,
           result' \in Slots \cup {Threw, Done} \cup -1..MaxSize
    PROVE  IInv'
<1>1. TypeOK'
  BY DEF IInv, TypeOK, Slots
<1>2. Fits' /\ Sound' /\ GivesBack' /\ Exact'
  BY DEF IInv, Fits, Sound, NoJunk, GivesBack, Exact
<1> QED BY <1>1, <1>2 DEF IInv

(* set() (Vector.h:462-469).                                               *)
LEMMA SetIInv ==
    ASSUME IInv, NEW i \in 0..MaxSize, NEW v \in Values, Set(i, v)
    PROVE  IInv'
<1>1. CASE ~(i < size)
  BY <1>1, AnswerIInv DEF Set, throws
<1>2. CASE i < size
  <2>1. /\ array' = [array EXCEPT ![i] = v] /\ UNCHANGED <<size, arraySize, endPos>>
        /\ result' = IF Pointers THEN array[i] ELSE v
    BY <1>2 DEF Set
  <2>2. array[i] \in Slots /\ i \in 0..(arraySize - 1)
    BY <1>2, Facts
  <2>3. TypeOK'
    BY <2>1, <2>2, Facts DEF IInv, TypeOK, Slots
  <2>4. Sound'
    BY <2>1, <2>2, Facts DEF IInv, Sound, NoJunk
  <2>5. Fits' /\ GivesBack' /\ Exact'
    BY <2>1 DEF IInv, Fits, GivesBack, Exact
  <2> QED BY <2>3, <2>4, <2>5 DEF IInv
<1> QED BY <1>1, <1>2

(* The constructor (Vector.h:377-381).                                     *)
LEMMA InitIInv == Init => IInv
<1> SUFFICES ASSUME Init PROVE IInv
  OBVIOUS
<1>1. newSize(InitSize) \in Nat
  BY NewSizeFits, SizesAssumption
<1>2. TypeOK /\ Fits
  BY <1>1, SizesAssumption DEF Init, TypeOK, Fits
<1>3. Sound
  BY DEF Init, Sound, NoJunk
<1>4. newSize(InitSize) <= RoundUp(InitSize + 2)
  BY RoundUpMonotone, RoundUpIsUp, SizesAssumption DEF newSize
<1>5. GivesBack /\ Exact
  BY <1>4, SizesAssumption DEF Init, GivesBack, Exact
<1> QED BY <1>2, <1>3, <1>5 DEF IInv

(* Every call of the class keeps the invariant.                            *)
LEMMA NextIInv == IInv /\ [Next]_vars => IInv'
<1> SUFFICES ASSUME IInv, [Next]_vars PROVE IInv'
  OBVIOUS
<1>1. CASE Clear
  BY <1>1, ClearIInv
<1>2. ASSUME NEW v \in Values, Add(v) PROVE IInv'
  BY <1>2, AddIInv
<1>3. ASSUME NEW v \in Values, Remove(v) PROVE IInv'
  <2>1. CASE \E i \in 0..(size - 1) : take(i, Done)
    BY <2>1, TakeIInv
  <2>2. CASE throws
    BY <2>2, AnswerIInv DEF throws
  <2> QED BY <1>3, <2>1, <2>2 DEF Remove
<1>4. ASSUME NEW v \in Values, PositionOf(v) PROVE IInv'
  <2>1. result' \in -1..MaxSize
    BY <1>4, Facts, SizesAssumption DEF PositionOf
  <2> QED BY <1>4, <2>1, AnswerIInv DEF PositionOf
<1>5. ASSUME NEW i \in 0..MaxSize, RemoveAt(i) PROVE IInv'
  <2>1. CASE i < size
    BY <1>5, <2>1, TakeIInv, Facts DEF RemoveAt
  <2>2. CASE ~(i < size)
    BY <1>5, <2>2, AnswerIInv DEF RemoveAt, throws
  <2> QED BY <2>1, <2>2
<1>6. ASSUME NEW i \in 0..MaxSize, Get(i) PROVE IInv'
  <2>1. CASE i < size
    <3>1. array[i] \in Slots
      BY <2>1, Facts
    <3> QED BY <1>6, <2>1, <3>1, AnswerIInv DEF Get
  <2>2. CASE ~(i < size)
    BY <1>6, <2>2, AnswerIInv DEF Get, throws
  <2> QED BY <2>1, <2>2
<1>7. ASSUME NEW i \in -1..MaxSize, Pop(i) PROVE IInv'
  <2> DEFINE pos == IF i = -1 THEN index(size - 1) ELSE i
  <2>1. pos \in Nat
    BY Facts, SizesAssumption DEF index
  <2>2. CASE pos < size
    <3>1. array[pos] \in Slots /\ pos \in 0..(size - 1)
      BY <2>1, <2>2, Facts
    <3>2. take(pos, array[pos])
      BY <1>7, <2>2 DEF Pop
    <3> HIDE DEF pos
    <3> QED BY <3>1, <3>2, TakeIInv
  <2>3. CASE ~(pos < size)
    BY <1>7, <2>3, AnswerIInv DEF Pop, throws
  <2> QED BY <2>2, <2>3
<1>8. ASSUME NEW i \in 0..MaxSize, NEW v \in Values, AddAt(i, v) PROVE IInv'
  <2>1. CASE i < size
    BY <1>8, <2>1, InsertIInv DEF AddAt
  <2>2. CASE ~(i < size)
    BY <1>8, <2>2, AnswerIInv DEF AddAt, throws
  <2> QED BY <2>1, <2>2
<1>9. ASSUME NEW i \in 0..MaxSize, NEW v \in Values, Set(i, v) PROVE IInv'
  BY <1>9, SetIInv
<1>10. CASE UNCHANGED vars
  <2>1. result' \in Slots \cup {Threw, Done} \cup -1..MaxSize
    BY <1>10 DEF vars, IInv, TypeOK, Slots
  <2> QED BY <1>10, <2>1, AnswerIInv DEF vars
<1> QED BY <1>1, <1>2, <1>3, <1>4, <1>5, <1>6, <1>7, <1>8, <1>9, <1>10 DEF Next

(* IInv holds in every reachable state of both versions of the class.      *)
THEOREM Inductive == Spec => []IInv
BY InitIInv, NextIInv, PTL DEF Spec

(* The fields keep their types, whatever the callers do.                   *)
THEOREM TypeCorrect == Spec => []TypeOK
<1>1. IInv => TypeOK
  BY DEF IInv
<1> QED BY Inductive, <1>1, PTL

(* For every block size, first size and sequence of calls the elements and *)
(* the slot behind them are inside the block, and the end iterator stands  *)
(* right behind the last element (Vector.h:393-459).                       *)
THEOREM InBounds == Spec => []Fits
<1>1. IInv => Fits
  BY DEF IInv
<1> QED BY Inductive, <1>1, PTL

(* A vector of pointers never shows a slot that no caller wrote, as long   *)
(* as nobody inserts right before its last element (Vector.h:402-430).     *)
THEOREM OnlyElements ==
    ASSUME Pointers, ~AddAtLast
    PROVE  Spec => []NoJunk
<1>1. IInv => NoJunk
  BY DEF IInv, Sound
<1> QED BY Inductive, <1>1, PTL

(* Memory is given back (Vector.h:428, 706).                               *)
THEOREM Tight == Spec => []GivesBack
<1>1. IInv => GivesBack
  BY DEF IInv
<1> QED BY Inductive, <1>1, PTL

-----------------------------------------------------------------------------
(* Vector<Value*> implements List.h.  The list is the first _size slots of *)
(* the block; memmove() and realloc() are cutting and joining of lists.    *)
elements == [k \in 1..size |-> array[k - 1]]

(* The list in terms of the block, before a call and after it.             *)
LEMMA Listed ==
    ASSUME NEW n \in Nat, NEW m \in Nat, n <= m, NEW a \in [0..(m - 1) -> Slots],
           NEW s, s = [k \in 1..n |-> a[k - 1]]
    PROVE  s \in Seq(Slots) /\ Len(s) = n /\ \A k \in 1..n : s[k] = a[k - 1]
<1>1. \A k \in 1..n : k - 1 \in 0..(m - 1)
  OBVIOUS
<1>2. s \in [1..n -> Slots]
  BY <1>1
<1>3. s \in Seq(Slots)
  BY <1>2, SeqDef
<1>4. Len(s) = n
  BY <1>2, <1>3
<1> QED BY <1>3, <1>4

LEMMA ElementsAre ==
    ASSUME IInv
    PROVE  /\ elements \in Seq(Slots) /\ Len(elements) = size
           /\ \A k \in 1..size : elements[k] = array[k - 1]
BY Facts, Listed DEF elements

LEMMA ElementsThen ==
    ASSUME IInv'
    PROVE  /\ elements' \in Seq(Slots) /\ Len(elements') = size'
           /\ \A k \in 1..size' : elements'[k] = array'[k - 1]
<1>1. /\ size' \in Nat /\ arraySize' \in Nat /\ size' <= arraySize'
      /\ array' \in [0..(arraySize' - 1) -> Slots]
  <2>1. TypeOK' /\ Fits'
    BY DEF IInv
  <2>2. /\ size' \in 0..MaxSize /\ arraySize' \in Nat /\ (size' > 0 => size' < arraySize')
    BY <2>1 DEF TypeOK, Fits
  <2>3. size' \in Nat /\ size' <= arraySize'
    BY <2>2, SizesAssumption
  <2>4. array' \in [0..(arraySize' - 1) -> Slots]
    BY <2>1 DEF TypeOK, Slots
  <2> QED BY <2>2, <2>3, <2>4
<1>2. elements' = [k \in 1..size' |-> array'[k - 1]]
  BY DEF elements
<1>3. PICK n \in Nat, m \in Nat, a \in [0..(arraySize' - 1) -> Slots] :
             n = size' /\ m = arraySize' /\ a = array'
  BY <1>1
<1>4. n <= m /\ a \in [0..(m - 1) -> Slots] /\ elements' = [k \in 1..n |-> a[k - 1]]
  BY <1>1, <1>2, <1>3
<1>5. /\ elements' \in Seq(Slots) /\ Len(elements') = n
      /\ \A k \in 1..n : elements'[k] = a[k - 1]
  <2>1. \A k \in 1..n : k - 1 \in 0..(m - 1)
    BY <1>4
  <2>2. elements' \in [1..n -> Slots]
    BY <1>4, <2>1
  <2>3. elements' \in Seq(Slots)
    BY <2>2, SeqDef
  <2>4. Len(elements') = n
    BY <2>2, <2>3
  <2> QED BY <1>4, <2>3, <2>4
<1> QED BY <1>3, <1>5

(* add(): Append (Vector.h:393).                                           *)
LEMMA AddIsAdd ==
    ASSUME Pointers, IInv, NEW v \in Values, Add(v)
    PROVE  Abstract!Add(v)
<1>1. IInv'
  BY AddIInv
<1>2. /\ size' = size + 1 /\ result' = Done /\ array'[size] = v
      /\ \A k \in 0..(size - 1) : array'[k] = array[k]
  <2> DEFINE a == resize(size + 1, array, size)
  <2>1. /\ newSize(size + 1) \in Nat /\ size + 1 < newSize(size + 1)
        /\ a \in [0..(newSize(size + 1) - 1) -> Slots]
        /\ \A k \in 0..(size - 1) : a[k] = array[k]
    BY Grown
  <2>2. size' = size + 1 /\ result' = Done /\ array' = [a EXCEPT ![size] = v]
    BY DEF Add
  <2> HIDE DEF a
  <2> QED BY <2>1, <2>2, Facts
<1>3. /\ elements \in Seq(Slots) /\ Len(elements) = size
      /\ \A k \in 1..size : elements[k] = array[k - 1]
  BY ElementsAre
<1>4. /\ elements' \in Seq(Slots) /\ Len(elements') = size + 1
      /\ \A k \in 1..(size + 1) : elements'[k] = array'[k - 1]
  BY <1>1, <1>2, ElementsThen
<1>5. /\ Append(elements, v) \in Seq(Slots) /\ Len(Append(elements, v)) = size + 1
      /\ \A k \in 1..size : Append(elements, v)[k] = elements[k]
      /\ Append(elements, v)[size + 1] = v
  BY <1>3, AppendProperties DEF Slots
<1>6. \A k \in 1..(size + 1) : elements'[k] = Append(elements, v)[k]
  <2> SUFFICES ASSUME NEW k \in 1..(size + 1) PROVE elements'[k] = Append(elements, v)[k]
    OBVIOUS
  <2>1. CASE k = size + 1
    BY <1>2, <1>4, <1>5, <2>1, Facts
  <2>2. CASE k # size + 1
    <3>1. k \in 1..size /\ k - 1 \in 0..(size - 1)
      BY <2>2, Facts
    <3> QED BY <1>2, <1>3, <1>4, <1>5, <3>1
  <2> QED BY <2>1, <2>2
<1>7. elements' = Append(elements, v)
  BY <1>4, <1>5, <1>6, SeqEqual
<1> QED BY <1>2, <1>7 DEF Abstract!Add, elements

(* Both parts of a list that is cut before position i.                     *)
LEMMA Cut ==
    ASSUME NEW S, NEW s \in Seq(S), NEW n \in Nat, n = Len(s), NEW i \in 1..(n + 1)
    PROVE  /\ SubSeq(s, 1, i - 1) \in Seq(S) /\ Len(SubSeq(s, 1, i - 1)) = i - 1
           /\ \A j \in 1..(i - 1) : SubSeq(s, 1, i - 1)[j] = s[j]
           /\ SubSeq(s, i, n) \in Seq(S) /\ Len(SubSeq(s, i, n)) = n - i + 1
           /\ \A j \in 1..(n - i + 1) : SubSeq(s, i, n)[j] = s[i + j - 1]
<1>1. PICK m \in Nat : m = i - 1 /\ m <= n
  OBVIOUS
<1>2. \A j \in 1..n : s[j] \in S
  BY ElementOfSeq
<1>3. (\A j \in 1..m : s[j] \in S) /\ (\A j \in i..n : s[j] \in S)
  BY <1>1, <1>2
<1>4. /\ SubSeq(s, 1, m) \in Seq(S) /\ Len(SubSeq(s, 1, m)) = IF 1 <= m THEN m - 1 + 1 ELSE 0
      /\ \A j \in 1..(m - 1 + 1) : SubSeq(s, 1, m)[j] = s[1 + j - 1]
  BY <1>3, SubSeqProperties
<1>5. /\ SubSeq(s, i, n) \in Seq(S) /\ Len(SubSeq(s, i, n)) = IF i <= n THEN n - i + 1 ELSE 0
      /\ \A j \in 1..(n - i + 1) : SubSeq(s, i, n)[j] = s[i + j - 1]
  BY <1>3, SubSeqProperties
<1>6. /\ SubSeq(s, 1, m) \in Seq(S) /\ Len(SubSeq(s, 1, m)) = m
      /\ \A j \in 1..m : SubSeq(s, 1, m)[j] = s[j]
  BY <1>4
<1>7. Len(SubSeq(s, i, n)) = n - i + 1
  BY <1>5
<1> QED BY <1>1, <1>5, <1>6, <1>7

(* A list with e put in at position i.                                     *)
Put(s, i, e) == SubSeq(s, 1, i - 1) \o <<e>> \o SubSeq(s, i, Len(s))
IsPut(S, s, i, e, t) ==
    /\ t \in Seq(S) /\ Len(t) = Len(s) + 1
    /\ \A j \in 1..(Len(s) + 1) :
           t[j] = IF j < i THEN s[j] ELSE IF j = i THEN e ELSE s[j - 1]

LEMMA Inserted ==
    ASSUME NEW S, NEW s \in Seq(S), NEW i \in 1..Len(s), NEW e \in S
    PROVE  IsPut(S, s, i, e, Put(s, i, e))
<1> DEFINE t == Put(s, i, e)
<1>x. PICK x \in Seq(S) : x = <<e>> /\ Len(x) = 1 /\ x[1] = e
  <2>1. <<e>> \in Seq(S) /\ Len(<<e>>) = 1 /\ <<e>>[1] = e
    OBVIOUS
  <2> QED BY <2>1, Zenon
<1>0. PICK n \in Nat : n = Len(s) /\ i \in 1..n
  BY LenProperties
<1>1. i \in 1..(n + 1)
  BY <1>0
<1>a. PICK a, b : a = SubSeq(s, 1, i - 1) /\ b = SubSeq(s, i, n)
  OBVIOUS
<1>b. /\ SubSeq(s, 1, i - 1) \in Seq(S) /\ Len(SubSeq(s, 1, i - 1)) = i - 1
      /\ \A j \in 1..(i - 1) : SubSeq(s, 1, i - 1)[j] = s[j]
      /\ SubSeq(s, i, n) \in Seq(S) /\ Len(SubSeq(s, i, n)) = n - i + 1
      /\ \A j \in 1..(n - i + 1) : SubSeq(s, i, n)[j] = s[i + j - 1]
  BY <1>0, <1>1, Cut
<1>2. /\ a \in Seq(S) /\ Len(a) = i - 1 /\ \A j \in 1..(i - 1) : a[j] = s[j]
      /\ b \in Seq(S) /\ Len(b) = n - i + 1
      /\ \A j \in 1..(n - i + 1) : b[j] = s[i + j - 1]
  BY <1>a, <1>b, Zenon
<1>4. PICK c \in Seq(S) :
         /\ c = a \o x /\ Len(c) = i
         /\ \A j \in 1..i : c[j] = IF j <= i - 1 THEN a[j] ELSE e
  <2>1. /\ a \o x \in Seq(S) /\ Len(a \o x) = Len(a) + 1
        /\ \A j \in 1..(Len(a) + 1) :
              (a \o x)[j] = IF j <= Len(a) THEN a[j] ELSE x[j - Len(a)]
    BY <1>x, <1>2, ConcatProperties
  <2>2. PICK k \in Nat : k = Len(a) /\ k + 1 = i
    BY <1>0, <1>2
  <2>3. \A j \in 1..i : (a \o x)[j] = IF j <= k THEN a[j] ELSE x[j - k]
    BY <2>1, <2>2
  <2>4. \A j \in 1..i : ~(j <= k) => x[j - k] = e
    BY <1>0, <1>x, <2>2
  <2>5. \A j \in 1..i : (a \o x)[j] = IF j <= i - 1 THEN a[j] ELSE e
    <3>1. i - 1 = k
      BY <1>0, <2>2
    <3> QED BY <2>3, <2>4, <3>1, Zenon
  <2> QED BY <2>1, <2>2, <2>5
<1>5. /\ c \o b \in Seq(S) /\ Len(c \o b) = Len(c) + Len(b)
      /\ \A j \in 1..(Len(c) + Len(b)) : (c \o b)[j] = IF j <= Len(c) THEN c[j] ELSE b[j - Len(c)]
  BY <1>x, <1>2, ConcatProperties
<1>6. PICK p \in Nat, q \in Nat : p = Len(c) /\ q = Len(b) /\ p = i /\ q = n - i + 1 /\ p + q = n + 1
  <2>1. i \in Nat /\ n - i + 1 \in Nat /\ i + (n - i + 1) = n + 1
    BY <1>0
  <2>2. Len(c) = i /\ Len(b) = n - i + 1
    BY <1>2, <1>4, Zenon
  <2> QED BY <2>1, <2>2, Zenon
<1>7. Len(c \o b) = n + 1 /\ \A j \in 1..(n + 1) : (c \o b)[j] = IF j <= i THEN c[j] ELSE b[j - i]
  <2>1. /\ Len(c \o b) = p + q
        /\ \A j \in 1..(p + q) : (c \o b)[j] = IF j <= p THEN c[j] ELSE b[j - p]
    BY <1>5, <1>6, Zenon
  <2> QED BY <1>6, <2>1, Zenon
<1>8. \A j \in 1..(n + 1) :
         (c \o b)[j] = IF j < i THEN s[j] ELSE IF j = i THEN e ELSE s[j - 1]
  <2> SUFFICES ASSUME NEW j \in 1..(n + 1)
               PROVE  (c \o b)[j] = IF j < i THEN s[j] ELSE IF j = i THEN e ELSE s[j - 1]
    OBVIOUS
  <2>0. (j <= i => j \in 1..i) /\ (j < i => j \in 1..(i - 1) /\ j <= i /\ j <= i - 1)
    BY <1>0
  <2>1. CASE j < i
    <3>1. (c \o b)[j] = c[j] /\ c[j] = a[j] /\ a[j] = s[j]
      BY <1>2, <1>4, <1>7, <2>0, <2>1
    <3> QED BY <2>1, <3>1
  <2>3. CASE j = i
    <3>1. (c \o b)[j] = c[j] /\ c[j] = e
      BY <1>4, <1>7, <2>0, <2>3
    <3> QED BY <2>3, <3>1
  <2>2. CASE j > i
    <3>1. PICK k \in Nat : k = j - i /\ k \in 1..(n - i + 1) /\ i + k - 1 = j - 1 /\ ~(j <= i)
      BY <1>0, <2>2
    <3>2. (c \o b)[j] = b[k] /\ b[k] = s[i + k - 1]
      BY <1>2, <1>7, <3>1, Zenon
    <3>3. (c \o b)[j] = s[j - 1]
      BY <3>1, <3>2, Zenon
    <3>4. ~(j < i) /\ ~(j = i)
      BY <1>0, <2>2
    <3> QED BY <3>3, <3>4, Zenon
  <2>4. j < i \/ j = i \/ j > i
    BY <1>0
  <2> QED BY <2>1, <2>2, <2>3, <2>4, Zenon
<1>9. t = c \o b
  BY <1>0, <1>a, <1>x, <1>4, Zenon DEF Put
<1> QED BY <1>0, <1>5, <1>7, <1>8, <1>9, Zenon DEF IsPut

(* A list without its element at position i.                               *)
LEMMA Removed ==
    ASSUME NEW S, NEW s \in Seq(S), NEW i \in 1..Len(s),
           NEW t, t = SubSeq(s, 1, i - 1) \o SubSeq(s, i + 1, Len(s))
    PROVE  /\ t \in Seq(S) /\ Len(t) = Len(s) - 1
           /\ \A j \in 1..(Len(s) - 1) : t[j] = IF j < i THEN s[j] ELSE s[j + 1]
<1>0. PICK n \in Nat : n = Len(s) /\ i \in 1..n
  BY LenProperties
<1>1. PICK h \in 1..(n + 1) : h = i + 1
  BY <1>0
<1>a. PICK a, b : a = SubSeq(s, 1, i - 1) /\ b = SubSeq(s, h, n)
  OBVIOUS
<1>2. /\ a \in Seq(S) /\ Len(a) = i - 1 /\ \A j \in 1..(i - 1) : a[j] = s[j]
      /\ b \in Seq(S) /\ Len(b) = n - h + 1
      /\ \A j \in 1..(n - h + 1) : b[j] = s[h + j - 1]
  <2>1. i \in 1..(n + 1)
    BY <1>0
  <2>2. /\ SubSeq(s, 1, i - 1) \in Seq(S) /\ Len(SubSeq(s, 1, i - 1)) = i - 1
        /\ \A j \in 1..(i - 1) : SubSeq(s, 1, i - 1)[j] = s[j]
    BY <1>0, <2>1, Cut
  <2>3. /\ SubSeq(s, h, n) \in Seq(S) /\ Len(SubSeq(s, h, n)) = n - h + 1
        /\ \A j \in 1..(n - h + 1) : SubSeq(s, h, n)[j] = s[h + j - 1]
    BY <1>0, Cut
  <2> QED BY <1>a, <2>2, <2>3, Zenon
<1>3. /\ a \o b \in Seq(S) /\ Len(a \o b) = Len(a) + Len(b)
      /\ \A j \in 1..(Len(a) + Len(b)) : (a \o b)[j] = IF j <= Len(a) THEN a[j] ELSE b[j - Len(a)]
  BY <1>2, ConcatProperties
<1>4. PICK m \in Nat, q \in Nat : m = Len(a) /\ q = Len(b) /\ m = i - 1 /\ q = n - h + 1 /\ m + q = n - 1
  <2>1. i - 1 \in Nat /\ n - h + 1 \in Nat /\ (i - 1) + (n - h + 1) = n - 1
    BY <1>0, <1>1
  <2> QED BY <1>2, <2>1, Zenon
<1>5. Len(a \o b) = n - 1 /\ \A j \in 1..(n - 1) : (a \o b)[j] = IF j <= m THEN a[j] ELSE b[j - m]
  <2>1. /\ Len(a \o b) = m + q
        /\ \A j \in 1..(m + q) : (a \o b)[j] = IF j <= m THEN a[j] ELSE b[j - m]
    BY <1>3, <1>4, Zenon
  <2> QED BY <1>4, <2>1, Zenon
<1>6. \A j \in 1..(n - 1) : (a \o b)[j] = IF j < i THEN s[j] ELSE s[j + 1]
  <2> SUFFICES ASSUME NEW j \in 1..(n - 1) PROVE (a \o b)[j] = IF j < i THEN s[j] ELSE s[j + 1]
    OBVIOUS
  <2>1. CASE j < i
    <3>1. j \in 1..(i - 1) /\ j <= m
      BY <1>0, <1>4, <2>1
    <3>2. (a \o b)[j] = a[j] /\ a[j] = s[j]
      BY <1>2, <1>5, <3>1, Zenon
    <3> QED BY <2>1, <3>2
  <2>2. CASE ~(j < i)
    <3>1. PICK k \in Nat : k = j - m /\ k \in 1..(n - h + 1) /\ h + k - 1 = j + 1 /\ ~(j <= m)
      BY <1>0, <1>1, <1>4, <2>2
    <3>2. (a \o b)[j] = b[k] /\ b[k] = s[h + k - 1]
      BY <1>2, <1>5, <3>1, Zenon
    <3> QED BY <2>2, <3>1, <3>2
  <2> QED BY <2>1, <2>2
<1>7. t = a \o b
  BY <1>0, <1>1, <1>a, Zenon
<1> QED BY <1>0, <1>3, <1>5, <1>6, <1>7, Zenon

(* addAt(): InsertAt (Vector.h:402).                                       *)
LEMMA InsertIsInsert ==
    ASSUME Pointers, ~AddAtLast, IInv, NEW i \in 0..MaxSize, NEW v \in Values,
           i < size, insert(i, v)
    PROVE  Abstract!Insert(i, v)
<1>1. IInv'
  BY InsertIInv
<1>2. /\ size' = size + 1 /\ result' = Done
      /\ \A k \in 0..size :
            array'[k] = IF k < i THEN array[k] ELSE IF k = i THEN v ELSE array[k - 1]
  <2> DEFINE a == resize(size + 1, array, size)
             m == newSize(size + 1)
  <2>1. /\ m \in Nat /\ size + 1 < m /\ a \in [0..(m - 1) -> Slots]
        /\ \A k \in 0..(size - 1) : a[k] = array[k]
    BY Grown
  <2>2. /\ size' = size + 1 /\ result' = Done /\ i # size - 1
        /\ array' = [movedUp(a, i) EXCEPT ![i] = v]
    BY DEF insert
  <2> HIDE DEF a, m
  <2>3. /\ DOMAIN movedUp(a, i) = 0..(m - 1)
        /\ \A k \in 0..size : movedUp(a, i)[k] = IF k > i THEN a[k - 1] ELSE a[k]
    BY <2>1, Facts DEF movedUp
  <2>4. ASSUME NEW k \in 0..size
        PROVE  array'[k] = IF k < i THEN array[k] ELSE IF k = i THEN v ELSE array[k - 1]
    <3>1. k \in 0..(m - 1) /\ i \in 0..(m - 1)
      BY <2>1, Facts
    <3>2. array'[k] = IF k = i THEN v ELSE movedUp(a, i)[k]
      BY <2>2, <2>3, <3>1
    <3>3. (k < i => k \in 0..(size - 1)) /\ (k > i => k - 1 \in 0..(size - 1))
      BY Facts
    <3> QED BY <2>1, <2>3, <3>2, <3>3, Facts
  <2> QED BY <2>2, <2>4
<1>3. /\ elements \in Seq(Slots) /\ Len(elements) = size
      /\ \A k \in 1..size : elements[k] = array[k - 1]
  BY ElementsAre
<1>4. /\ elements' \in Seq(Slots) /\ Len(elements') = size + 1
      /\ \A k \in 1..(size + 1) : elements'[k] = array'[k - 1]
  BY <1>1, <1>2, ElementsThen
<1> DEFINE t == Put(elements, i + 1, v)
<1>5. /\ t \in Seq(Slots) /\ Len(t) = size + 1
      /\ \A j \in 1..(size + 1) :
            t[j] = IF j < i + 1 THEN elements[j] ELSE IF j = i + 1 THEN v ELSE elements[j - 1]
  <2>1. size \in Nat /\ i + 1 \in 1..size /\ v \in Slots
    BY Facts DEF Slots
  <2> HIDE DEF t
  <2>2. i + 1 \in 1..Len(elements)
    BY <1>3, <2>1, Zenon
  <2>3. IsPut(Slots, elements, i + 1, v, t)
    BY <1>3, <2>1, <2>2, Inserted DEF t
  <2> QED BY <1>3, <2>3, Zenon DEF IsPut
<1> HIDE DEF t
<1>6. \A k \in 1..(size + 1) : elements'[k] = t[k]
  <2> SUFFICES ASSUME NEW k \in 1..(size + 1) PROVE elements'[k] = t[k]
    OBVIOUS
  <2>1. PICK j \in 0..size : j = k - 1
    BY Facts
  <2>2. elements'[k] = IF j < i THEN array[j] ELSE IF j = i THEN v ELSE array[j - 1]
    BY <1>2, <1>4, <2>1, Zenon
  <2>3. CASE j < i
    <3>1. k \in 1..size /\ k < i + 1
      BY <2>1, <2>3, Facts
    <3>2. t[k] = elements[k] /\ elements[k] = array[k - 1]
      BY <1>3, <1>5, <3>1
    <3> QED BY <2>1, <2>2, <2>3, <3>2
  <2>4. CASE j = i
    <3>1. k = i + 1 /\ ~(k < i + 1) /\ ~(j < i)
      BY <2>1, <2>4
    <3>2. t[k] = v
      BY <1>5, <3>1
    <3> QED BY <2>2, <2>4, <3>1, <3>2
  <2>5. CASE j > i
    <3>1. PICK l \in 1..size : l = k - 1 /\ ~(k < i + 1) /\ ~(k = i + 1) /\ l - 1 = j - 1
      BY <2>1, <2>5, Facts
    <3>2. t[k] = elements[l] /\ elements[l] = array[l - 1]
      BY <1>3, <1>5, <3>1, Zenon
    <3>3. ~(j < i) /\ ~(j = i)
      BY <2>5
    <3> QED BY <2>2, <3>1, <3>2, <3>3, Zenon
  <2> QED BY <2>1, <2>3, <2>4, <2>5
<1>7. elements' = t
  BY <1>4, <1>5, <1>6, SeqEqual
<1>8. i \in 0..(Len(elements) - 1)
  BY <1>3, Facts
<1> QED BY <1>2, <1>7, <1>8 DEF Abstract!Insert, Abstract!Positions, Abstract!InsertAt, Put, elements, t

(* removeAt(), in all its uses: RemoveAt (Vector.h:419).                   *)
LEMMA TakeIsDelete ==
    ASSUME Pointers, IInv, NEW i \in 0..(size - 1), NEW answer, take(i, answer),
           answer \in {Done, array[i]}
    PROVE  Abstract!Delete(i)
<1>0. array[i] \in Slots /\ size \in Nat /\ size - 1 \in Nat
  BY Facts
<1>1. IInv'
  BY <1>0, TakeIInv
<1>2. /\ size' = size - 1 /\ result' = answer
      /\ \A k \in 0..(size - 2) : array'[k] = IF k < i THEN array[k] ELSE array[k + 1]
  <2> DEFINE d == movedDown(array, i)
  <2>1. /\ d \in [0..(arraySize - 1) -> Slots]
        /\ \A k \in 0..(size - 2) : d[k] = IF k < i THEN array[k] ELSE array[k + 1]
    BY Facts DEF movedDown
  <2>2. size' = size - 1 /\ result' = answer
    BY DEF take
  <2> HIDE DEF d
  <2>3. CASE size - 1 > InitSize
    <3>1. newSize(size - 1) \in Nat /\ size - 1 < newSize(size - 1)
      BY <1>0, <2>3, NewSizeFits, SizesAssumption
    <3>2. \A k \in 0..(size - 2) : resize(size - 1, d, size - 1)[k] = d[k]
      BY <1>0, <2>1, <3>1, Facts, ReallocKeeps
    <3>3. array' = resize(size - 1, d, size - 1)
      BY <2>3 DEF take, d
    <3> QED BY <2>1, <2>2, <3>2, <3>3
  <2>4. CASE ~(size - 1 > InitSize)
    <3>1. array' = d
      BY <2>4 DEF take, d
    <3> QED BY <2>1, <2>2, <3>1
  <2> QED BY <2>3, <2>4
<1>3. /\ elements \in Seq(Slots) /\ Len(elements) = size
      /\ \A k \in 1..size : elements[k] = array[k - 1]
  BY ElementsAre
<1>4. /\ elements' \in Seq(Slots) /\ Len(elements') = size - 1
      /\ \A k \in 1..(size - 1) : elements'[k] = array'[k - 1]
  BY <1>1, <1>2, ElementsThen
<1> DEFINE t == SubSeq(elements, 1, (i + 1) - 1) \o SubSeq(elements, (i + 1) + 1, Len(elements))
<1>5. /\ t \in Seq(Slots) /\ Len(t) = size - 1
      /\ \A j \in 1..(size - 1) : t[j] = IF j < i + 1 THEN elements[j] ELSE elements[j + 1]
  <2>1. size \in Nat /\ i + 1 \in 1..size
    BY <1>0
  <2> HIDE DEF t
  <2>2. t = SubSeq(elements, 1, (i + 1) - 1) \o SubSeq(elements, (i + 1) + 1, Len(elements))
    BY DEF t
  <2>3. PICK s \in Seq(Slots), h \in 1..size : s = elements /\ h = i + 1
    BY <1>3, <2>1, Zenon
  <2>4. PICK w : w = t
    OBVIOUS
  <2>5. size = Len(s) /\ w = SubSeq(s, 1, h - 1) \o SubSeq(s, h + 1, Len(s))
    BY <1>3, <2>2, <2>3, <2>4, Zenon
  <2>6. /\ w \in Seq(Slots) /\ Len(w) = size - 1
        /\ \A j \in 1..(size - 1) : w[j] = IF j < h THEN s[j] ELSE s[j + 1]
    <3>1. PICK n \in Nat : n = size
      BY <2>1
    <3>2. /\ n = Len(s) /\ h \in 1..Len(s)
          /\ w = SubSeq(s, 1, h - 1) \o SubSeq(s, h + 1, Len(s))
      BY <2>3, <2>5, <3>1, Zenon
    <3>3. /\ w \in Seq(Slots) /\ Len(w) = Len(s) - 1
          /\ \A j \in 1..(Len(s) - 1) : w[j] = IF j < h THEN s[j] ELSE s[j + 1]
      BY <3>2, Removed
    <3> QED BY <3>1, <3>2, <3>3, Zenon
  <2> QED BY <2>3, <2>4, <2>6, Zenon
<1> HIDE DEF t
<1>6. \A k \in 1..(size - 1) : elements'[k] = t[k]
  <2> SUFFICES ASSUME NEW k \in 1..(size - 1) PROVE elements'[k] = t[k]
    OBVIOUS
  <2>1. PICK j \in 0..(size - 2) : j = k - 1
    BY <1>0
  <2>2. elements'[k] = IF j < i THEN array[j] ELSE array[j + 1]
    BY <1>2, <1>4, <2>1, Zenon
  <2>3. CASE j < i
    <3>1. k \in 1..size /\ k < i + 1
      BY <1>0, <2>1, <2>3
    <3>2. t[k] = elements[k] /\ elements[k] = array[k - 1]
      BY <1>3, <1>5, <3>1
    <3> QED BY <2>1, <2>2, <2>3, <3>2
  <2>4. CASE ~(j < i)
    <3>1. PICK l \in 1..size : l = k + 1 /\ ~(k < i + 1) /\ l - 1 = j + 1
      BY <1>0, <2>1, <2>4
    <3>2. t[k] = elements[l] /\ elements[l] = array[l - 1]
      BY <1>3, <1>5, <3>1, Zenon
    <3> QED BY <2>2, <2>4, <3>1, <3>2, Zenon
  <2> QED BY <2>3, <2>4
<1>7. elements' = t
  BY <1>4, <1>5, <1>6, SeqEqual
<1>8. i \in 0..(Len(elements) - 1) /\ elements[i + 1] = array[i]
  <2>1. PICK h \in 1..size : h = i + 1 /\ h - 1 = i
    BY <1>0
  <2>2. elements[h] = array[h - 1]
    BY <1>3
  <2>3. elements[i + 1] = array[i]
    BY <2>1, <2>2, Zenon
  <2> QED BY <1>3, <2>3, Facts
<1> QED BY <1>2, <1>7, <1>8 DEF Abstract!Delete, Abstract!Positions, Abstract!RemoveAt, elements, t

(* set(): ReplaceAt, and the element that was there (Vector.h:462).        *)
LEMMA SetIsSet ==
    ASSUME Pointers, IInv, NEW i \in 0..MaxSize, NEW v \in Values, i < size, Set(i, v)
    PROVE  Abstract!Set(i, v)
<1>1. IInv'
  BY SetIInv
<1>2. array' = [array EXCEPT ![i] = v] /\ result' = array[i] /\ size' = size
  BY DEF Set
<1>3. /\ elements \in Seq(Slots) /\ Len(elements) = size
      /\ \A k \in 1..size : elements[k] = array[k - 1]
  BY ElementsAre
<1>4. /\ elements' \in Seq(Slots) /\ Len(elements') = size
      /\ \A k \in 1..size : elements'[k] = array'[k - 1]
  BY <1>1, <1>2, ElementsThen
<1>5. PICK h \in 1..size : h = i + 1 /\ h - 1 = i
  BY Facts
<1>6. PICK t : t = [elements EXCEPT ![h] = v]
  OBVIOUS
<1>7. /\ t \in Seq(Slots) /\ Len(t) = size
      /\ \A k \in 1..size : t[k] = IF k = h THEN v ELSE elements[k]
  BY <1>3, <1>5, <1>6, ExceptSeq DEF Slots
<1>8. \A k \in 1..size : elements'[k] = t[k]
  <2> SUFFICES ASSUME NEW k \in 1..size PROVE elements'[k] = t[k]
    OBVIOUS
  <2>1. k - 1 \in 0..(arraySize - 1) /\ (k - 1 = i <=> k = h)
    BY <1>5, Facts
  <2>2. array'[k - 1] = IF k - 1 = i THEN v ELSE array[k - 1]
    BY <1>2, <2>1, Facts
  <2> QED BY <1>3, <1>4, <1>7, <2>1, <2>2, Zenon
<1>9. elements' = t
  BY <1>4, <1>7, <1>8, SeqEqual
<1>10. i \in 0..(Len(elements) - 1)
  BY <1>3, Facts
<1>11. elements[i + 1] = array[i] /\ elements' = [elements EXCEPT ![i + 1] = v]
  BY <1>3, <1>5, <1>6, <1>9, Zenon
<1> QED BY <1>2, <1>10, <1>11 DEF Abstract!Set, Abstract!Positions, Abstract!ReplaceAt, elements

(* The smallest number of a set.                                           *)
LEMMA MinIs ==
    ASSUME NEW I \in SUBSET Int, NEW m \in I, \A k \in I : m <= k
    PROVE  Abstract!Min(I) = m
<1>1. \E x \in I : \A y \in I : x =< y
  OBVIOUS
<1>2. PICK c : c = CHOOSE x \in I : \A y \in I : x =< y
  OBVIOUS
<1>3. c \in I /\ \A y \in I : c =< y
  BY <1>1, <1>2
<1>4. c = m
  BY <1>3
<1> QED BY <1>2, <1>4 DEF Abstract!Min

(* positionOf(): the first position that holds v (Vector.h:506).           *)
LEMMA FindIsFind ==
    ASSUME IInv, NEW v \in Values, PositionOf(v)
    PROVE  Abstract!Find(v)
<1> DEFINE I == {k \in 1..Len(elements) : elements[k] = v}
<1>1. /\ Len(elements) = size /\ size \in Nat
      /\ \A k \in 1..size : elements[k] = array[k - 1]
  BY ElementsAre, Facts
<1>2. elements' = elements
  BY DEF PositionOf, elements
<1>3. \A k : k \in I <=> k \in 1..size /\ array[k - 1] = v
  BY <1>1
<1>4. ASSUME NEW i \in 0..(size - 1), first(v, i), result' = i
      PROVE  I # {} /\ result' = Abstract!Min(I) - 1
  <2>1. PICK m \in 1..size : m = i + 1 /\ m - 1 = i
    BY <1>1
  <2>2. m \in I
    BY <1>3, <1>4, <2>1, Zenon DEF first
  <2>3. \A k \in I : m <= k
    <3> SUFFICES ASSUME NEW k \in I, ~(m <= k) PROVE FALSE
      OBVIOUS
    <3>1. k \in 1..size /\ array[k - 1] = v
      BY <1>3
    <3>2. k - 1 \in 0..(i - 1)
      BY <2>1, <3>1
    <3> QED BY <1>4, <3>1, <3>2 DEF first
  <2>4. I \in SUBSET Int
    BY <1>3
  <2> HIDE DEF I
  <2>5. Abstract!Min(I) = m
    BY <2>2, <2>3, <2>4, MinIs
  <2> QED BY <1>4, <2>1, <2>2, <2>5
<1>5. ASSUME absent(v), result' = -1
      PROVE  I = {} /\ result' = 0 - 1
  <2>1. \A k \in 1..size : k - 1 \in 0..(size - 1)
    BY <1>1
  <2>2. \A k : k \notin I
    BY <1>3, <1>5, <2>1 DEF absent
  <2> QED BY <1>5, <2>2
<1>6. result' = (IF I # {} THEN Abstract!Min(I) ELSE 0) - 1
  <2> HIDE DEF I
  <2> QED BY <1>4, <1>5 DEF PositionOf
<1> QED BY <1>2, <1>6 DEF Abstract!Find, Abstract!SelectInSeq, elements

(* A call that throws (Vector.h:404, 421).                                 *)
LEMMA ThrowIsThrow ==
    ASSUME throws
    PROVE  Abstract!Throw
BY DEF throws, Abstract!Throw

(* get() (Vector.h:472).                                                   *)
LEMMA GetIsGet ==
    ASSUME IInv, NEW i \in 0..MaxSize, i < size, Get(i)
    PROVE  Abstract!Get(i)
<1>1. /\ Len(elements) = size /\ size \in Nat
      /\ \A k \in 1..size : elements[k] = array[k - 1]
  BY ElementsAre, Facts
<1>2. PICK h \in 1..size : h = i + 1 /\ h - 1 = i
  BY <1>1
<1>3. elements[i + 1] = array[i]
  BY <1>1, <1>2, Zenon
<1>4. i \in 0..(Len(elements) - 1)
  BY <1>1
<1>5. result' = array[i] /\ UNCHANGED <<size, arraySize, array, endPos>>
  BY DEF Get
<1> QED BY <1>3, <1>4, <1>5 DEF Abstract!Get, Abstract!Positions, elements

(* clear() (Vector.h:448).                                                 *)
LEMMA ClearIsClear ==
    ASSUME IInv, Clear
    PROVE  Abstract!Clear
<1>1. size' = 0 /\ result' = Done
  BY DEF Clear
<1>2. IInv'
  BY ClearIInv
<1>3. elements' \in Seq(Slots) /\ Len(elements') = 0
  BY <1>1, <1>2, ElementsThen
<1>4. elements' = <<>>
  BY <1>3, EmptySeq
<1> QED BY <1>1, <1>4 DEF Abstract!Clear, elements

(* Every call does to the list what List.h says, or throws.                *)
LEMMA StepIsStep ==
    ASSUME Pointers, ~AddAtLast, IInv, [Next]_vars
    PROVE  [Abstract!Next]_(Abstract!vars)
<1>0. /\ Len(elements) = size /\ size \in Nat /\ size <= MaxSize
  BY ElementsAre, Facts
<1>a. Abstract!Positions = 0..(size - 1)
  BY <1>0 DEF Abstract!Positions, elements
<1>b. ASSUME NEW i \in 0..(size - 1), NEW answer, take(i, answer), answer \in {Done, array[i]}
      PROVE  Abstract!Next
  BY <1>a, <1>b, TakeIsDelete DEF Abstract!Next
<1>c. ASSUME throws PROVE Abstract!Next
  BY <1>c, ThrowIsThrow DEF Abstract!Next
<1>1. CASE Clear
  BY <1>1, ClearIsClear DEF Abstract!Next
<1>2. ASSUME NEW v \in Values, Add(v) PROVE Abstract!Next
  BY <1>2, AddIsAdd DEF Abstract!Next
<1>3. ASSUME NEW v \in Values, Remove(v) PROVE Abstract!Next
  BY <1>3, <1>b, <1>c DEF Remove
<1>4. ASSUME NEW v \in Values, PositionOf(v) PROVE Abstract!Next
  BY <1>4, FindIsFind DEF Abstract!Next
<1>5. ASSUME NEW i \in 0..MaxSize, RemoveAt(i) PROVE Abstract!Next
  <2>1. CASE i < size
    <3>1. i \in 0..(size - 1) /\ take(i, Done)
      BY <1>0, <1>5, <2>1 DEF RemoveAt
    <3> QED BY <1>b, <3>1
  <2>2. CASE ~(i < size)
    BY <1>5, <1>c, <2>2 DEF RemoveAt
  <2> QED BY <2>1, <2>2
<1>6. ASSUME NEW i \in 0..MaxSize, Get(i) PROVE Abstract!Next
  <2>1. CASE i < size
    <3>1. i \in 0..(size - 1)
      BY <1>0, <2>1
    <3>2. Abstract!Get(i)
      BY <1>6, <2>1, GetIsGet
    <3> QED BY <1>a, <3>1, <3>2 DEF Abstract!Next
  <2>2. CASE ~(i < size)
    BY <1>6, <1>c, <2>2 DEF Get
  <2> QED BY <2>1, <2>2
<1>7. ASSUME NEW i \in -1..MaxSize, Pop(i) PROVE Abstract!Next
  <2>1. PICK pos : pos = IF i = -1 THEN index(size - 1) ELSE i
    OBVIOUS
  <2>2. pos \in Nat
    BY <1>0, <2>1, SizesAssumption DEF index
  <2>3. IF pos < size THEN take(pos, array[pos]) ELSE throws
    BY <1>7, <2>1 DEF Pop
  <2>4. CASE pos < size
    <3>1. pos \in 0..(size - 1)
      BY <1>0, <2>2, <2>4
    <3> QED BY <1>b, <2>3, <2>4, <3>1
  <2>5. CASE ~(pos < size)
    BY <1>c, <2>3, <2>5
  <2> QED BY <2>4, <2>5
<1>8. ASSUME NEW i \in 0..MaxSize, NEW v \in Values, AddAt(i, v) PROVE Abstract!Next
  <2>1. CASE i < size
    <3>1. i \in 0..(size - 1)
      BY <1>0, <2>1
    <3>2. Abstract!Insert(i, v)
      BY <1>8, <2>1, InsertIsInsert DEF AddAt
    <3> QED BY <1>a, <3>1, <3>2 DEF Abstract!Next
  <2>2. CASE ~(i < size)
    BY <1>8, <1>c, <2>2 DEF AddAt
  <2> QED BY <2>1, <2>2
<1>9. ASSUME NEW i \in 0..MaxSize, NEW v \in Values, Set(i, v) PROVE Abstract!Next
  <2>1. CASE i < size
    <3>1. i \in 0..(size - 1)
      BY <1>0, <2>1
    <3>2. Abstract!Set(i, v)
      BY <1>9, <2>1, SetIsSet
    <3> QED BY <1>a, <3>1, <3>2 DEF Abstract!Next
  <2>2. CASE ~(i < size)
    BY <1>9, <1>c, <2>2 DEF Set
  <2> QED BY <2>1, <2>2
<1>10. CASE UNCHANGED vars
  BY <1>10 DEF vars, Abstract!vars
<1> QED BY <1>1, <1>2, <1>3, <1>4, <1>5, <1>6, <1>7, <1>8, <1>9, <1>10 DEF Next

(* A vector of pointers is the list of List.h, for every block size and    *)
(* sequence of calls, as long as nobody inserts right before its last      *)
(* element (Vector.h:393-515).                                             *)
THEOREM IsAList ==
    ASSUME Pointers, ~AddAtLast
    PROVE  Spec => ImplementsList
<1>1. Init => Abstract!Init
  <2> SUFFICES ASSUME Init PROVE Abstract!Init
    OBVIOUS
  <2>1. IInv /\ size = 0 /\ result = Done
    BY InitIInv DEF Init
  <2>2. elements \in Seq(Slots) /\ Len(elements) = 0
    BY <2>1, ElementsAre
  <2>3. elements = <<>>
    BY <2>2, EmptySeq
  <2> QED BY <2>1, <2>3 DEF Abstract!Init, elements
<1>2. IInv /\ [Next]_vars => [Abstract!Next]_(Abstract!vars)
  BY StepIsStep
<1> QED BY Inductive, <1>1, <1>2, PTL DEF Spec, ImplementsList, Abstract!Spec
=============================================================================
