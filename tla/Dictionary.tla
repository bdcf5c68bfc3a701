----------------------------- MODULE Dictionary -----------------------------
(***************************************************************************)
(* SRL::Util::Dictionary (cpp/include/srl/util/Dictionary.h): entries in a *)
(* doubly linked list, for iteration, and in a red-black tree ordered by   *)
(* hash, for retrieval.  The left and the right halves of the tree's code  *)
(* mirror each other: a side is "lesser" or "greater", and one definition  *)
(* stands for both.  An entry is named by the key it was made for.         *)
(***************************************************************************)
EXTENDS Integers, Sequences, FiniteSets

CONSTANTS Keys,      \* positive numbers
          Values,
          Hash,      \* Hasher::Hash
          Default,   \* Value()
          Yes, No, Threw, Done

NULL == 0
Entries == Keys \cup {NULL}
Sides == {"lesser", "greater"}
other(s) == IF s = "lesser" THEN "greater" ELSE "lesser"

VARIABLES dict,   \* the fields of the dictionary and of its entries
          answer  \* the last call, and what it answered

vars == <<dict, answer>>

\* Between two calls.
Idle == [call |-> "none", of |-> Done, is |-> Done]

Init ==
    /\ dict = [root |-> NULL, first |-> NULL, last |-> NULL, size |-> 0,
               prev |-> [e \in Keys |-> NULL], next |-> [e \in Keys |-> NULL],
               parent |-> [e \in Keys |-> NULL],
               child |-> [s \in Sides |-> [e \in Keys |-> NULL]],
               color |-> [e \in Keys |-> "RED"],
               value |-> [e \in Keys |-> Default]]
    /\ answer = Idle

-----------------------------------------------------------------------------
(* The tree                                                                *)

\* _setLesser(), _setGreater()
setChild(d, p, s, e) ==
    LET d1 == [d EXCEPT !.child[s][p] = e] IN
    IF e = NULL THEN d1 ELSE [d1 EXCEPT !.parent[e] = p]

paint(d, e, c) == IF e = NULL THEN d ELSE [d EXCEPT !.color[e] = c]
isRed(d, e) == e # NULL /\ d.color[e] = "RED"
parentOf(d, e) == IF e = NULL THEN NULL ELSE d.parent[e]
grandparent(d, e) == parentOf(d, parentOf(d, e))
sideOf(d, e) == IF d.child["lesser"][d.parent[e]] = e THEN "lesser" ELSE "greater"

RECURSIVE findFrom(_, _, _)
findFrom(d, h, node) ==
    IF node = NULL \/ h = Hash[node] THEN node
    ELSE findFrom(d, h, d.child[IF h > Hash[node] THEN "greater" ELSE "lesser"][node])

\* _find()
find(d, k) == findFrom(d, Hash[k], d.root)

\* Faulty: the subtree between the two nodes is dropped.
rotate_DropsSubtree(d, r, s) ==
    LET o == other(s)
        x == d.child[o][r]
        up == IF r = d.root THEN [d EXCEPT !.root = x, !.parent[x] = NULL]
              ELSE setChild(d, d.parent[r], IF d.child[o][d.parent[r]] = r THEN o ELSE s, x)
    IN  IF x = NULL THEN d ELSE setChild(setChild(up, r, o, NULL), x, s, r)

\* _rotateLeft() for s = "lesser", _rotateRight() for s = "greater"
rotate(d, r, s) ==
    LET o == other(s)
        x == d.child[o][r]
        up == IF r = d.root THEN [d EXCEPT !.root = x, !.parent[x] = NULL]
              ELSE setChild(d, d.parent[r], IF d.child[o][d.parent[r]] = r THEN o ELSE s, x)
    IN  IF x = NULL THEN d ELSE setChild(setChild(up, r, o, up.child[s][x]), x, s, r)

\* The loop of _insert() and its _setLesser() or _setGreater().
RECURSIVE place(_, _, _)
place(d, e, p) ==
    LET s == IF Hash[e] >= Hash[p] THEN "greater" ELSE "lesser" IN
    IF d.child[s][p] = NULL THEN setChild(d, p, s, e) ELSE place(d, e, d.child[s][p])

\* _validateInsert()
RECURSIVE validateInsert(_, _)
validateInsert(d, e) ==
    IF e = d.root \/ ~isRed(d, d.parent[e]) \/ grandparent(d, e) = NULL
    THEN paint(d, d.root, "BLACK")
    ELSE
    LET p == d.parent[e]
        g == d.parent[p]
        s == sideOf(d, p)
        y == d.child[other(s)][g]
    IN  IF isRed(d, y)
        THEN validateInsert(paint(paint(paint(d, p, "BLACK"), y, "BLACK"), g, "RED"), g)
        ELSE LET inner == e = d.child[other(s)][p]
                 e1 == IF inner THEN p ELSE e
                 d1 == IF inner THEN rotate(d, p, s) ELSE d
                 g1 == grandparent(d1, e1)
                 d2 == paint(paint(d1, parentOf(d1, e1), "BLACK"), g1, "RED")
             IN  validateInsert(IF g1 = NULL THEN d2 ELSE rotate(d2, g1, other(s)), e1)

\* _insert()
insert(d, e) ==
    IF d.root = NULL THEN [d EXCEPT !.root = e]
    ELSE validateInsert(place(d, e, d.root), e)

\* successor(): the smallest entry on the greater side of an entry with both
RECURSIVE smallest(_, _)
smallest(d, e) ==
    IF d.child["lesser"][e] = NULL THEN e ELSE smallest(d, d.child["lesser"][e])

\* _removeFixTree()
RECURSIVE removeFixTree(_, _)
removeFixTree(d, e) ==
    IF e = d.root \/ isRed(d, e) THEN paint(d, e, "BLACK") ELSE
    LET s == sideOf(d, e)
        o == other(s)
        w0 == d.child[o][d.parent[e]]
        d1 == IF isRed(d, w0)
              THEN rotate(paint(paint(d, w0, "BLACK"), d.parent[e], "RED"), d.parent[e], s)
              ELSE d
        p == d1.parent[e]
        w == d1.child[o][p]
    IN  IF w # NULL /\ \A t \in Sides : ~isRed(d1, d1.child[t][w])
        THEN removeFixTree(paint(d1, w, "RED"), p)
        ELSE IF w = NULL THEN paint(d1, e, "BLACK")
        ELSE LET outer == isRed(d1, d1.child[o][w])
                 d2 == IF outer THEN d1
                       ELSE rotate(paint(paint(d1, d1.child[s][w], "BLACK"), w, "RED"), w, o)
                 w2 == d2.child[o][p]
                 d3 == paint(paint([d2 EXCEPT !.color[w2] = d2.color[p]], p, "BLACK"),
                             d2.child[o][w2], "BLACK")
                 d4 == rotate(d3, p, s)
             IN  paint(d4, d4.root, "BLACK")

\* Faulty: the entry that takes the removed one's place does not tell the
\* children it takes over.
removeTree_KeepsParents(d, e) ==
    LET y == IF \E s \in Sides : d.child[s][e] = NULL THEN e
             ELSE smallest(d, d.child["greater"][e])
        x == IF d.child["lesser"][y] # NULL THEN d.child["lesser"][y] ELSE d.child["greater"][y]
        d1 == IF x = NULL THEN d ELSE [d EXCEPT !.parent[x] = d.parent[y]]
        d2 == IF d.parent[y] = NULL THEN [d1 EXCEPT !.root = x]
              ELSE [d1 EXCEPT !.child[sideOf(d1, y)][d.parent[y]] = x]
        d3 == [d2 EXCEPT !.child["lesser"][y] = d2.child["lesser"][e],
                         !.child["greater"][y] = d2.child["greater"][e],
                         !.parent[y] = d2.parent[e], !.color[y] = d2.color[e]]
        d4 == IF d3.parent[y] = NULL THEN d3 ELSE setChild(d3, d3.parent[y], sideOf(d3, e), y)
        d5 == IF y = e THEN d2 ELSE IF e = d4.root THEN [d4 EXCEPT !.root = y] ELSE d4
    IN  IF d.color[y] = "BLACK" /\ x # NULL THEN removeFixTree(d5, x) ELSE d5

\* _remove(): y leaves its place in the tree, and takes that of e if it is
\* another one; the tree is mended only if y had a child.
removeTree(d, e) ==
    LET y == IF \E s \in Sides : d.child[s][e] = NULL THEN e
             ELSE smallest(d, d.child["greater"][e])
        x == IF d.child["lesser"][y] # NULL THEN d.child["lesser"][y] ELSE d.child["greater"][y]
        d1 == IF x = NULL THEN d ELSE [d EXCEPT !.parent[x] = d.parent[y]]
        d2 == IF d.parent[y] = NULL THEN [d1 EXCEPT !.root = x]
              ELSE [d1 EXCEPT !.child[sideOf(d1, y)][d.parent[y]] = x]
        d3 == [setChild(setChild(d2, y, "lesser", d2.child["lesser"][e]),
                        y, "greater", d2.child["greater"][e])
                  EXCEPT !.parent[y] = d2.parent[e], !.color[y] = d2.color[e]]
        d4 == IF d3.parent[y] = NULL THEN d3 ELSE setChild(d3, d3.parent[y], sideOf(d3, e), y)
        d5 == IF y = e THEN d2 ELSE IF e = d4.root THEN [d4 EXCEPT !.root = y] ELSE d4
    IN  IF d.color[y] = "BLACK" /\ x # NULL THEN removeFixTree(d5, x) ELSE d5

-----------------------------------------------------------------------------
(* The list                                                                *)

\* _link()
link(d, e) ==
    LET d1 == IF d.last # NULL
              THEN [d EXCEPT !.next[d.last] = e, !.prev[e] = d.last]
              ELSE [d EXCEPT !.first = e]
    IN  [d1 EXCEPT !.last = e, !.size = @ + 1]

\* _unlink()
unlink(d, e) ==
    LET p == d.prev[e]
        n == d.next[e]
        d1 == IF p # NULL THEN [d EXCEPT !.next[p] = n] ELSE d
        d2 == IF n # NULL THEN [d1 EXCEPT !.prev[n] = p] ELSE d1
    IN  [d2 EXCEPT !.first = IF @ = e THEN n ELSE @,
                   !.last = IF @ = e THEN p ELSE @,
                   !.size = @ - 1]

\* delete: the fields of an entry are gone, and a new one starts from these.
free(d, e) ==
    [d EXCEPT !.prev[e] = NULL, !.next[e] = NULL, !.parent[e] = NULL,
              !.child["lesser"][e] = NULL, !.child["greater"][e] = NULL,
              !.color[e] = "RED", !.value[e] = Default]

\* The entries from e on, by _next.
RECURSIVE walk(_, _)
walk(d, e) == IF e = NULL THEN <<>> ELSE <<e>> \o walk(d, d.next[e])
list == walk(dict, dict.first)
Linked == LET w == list IN {w[i] : i \in DOMAIN w}

-----------------------------------------------------------------------------
(* The calls                                                               *)

drop(e) == dict' = free(removeTree(unlink(dict, e), e), e)

\* _link(entry); _insert(entry); and the value
enter(k, v) == dict' = [insert(link(dict, k), k) EXCEPT !.value[k] = v]

truth(b) == IF b THEN Yes ELSE No

\* The call c for k said a, and the caller has the answer before its next call.
said(c, k, a) == answer = Idle /\ answer' = [call |-> c, of |-> k, is |-> a]
TakeAnswer == answer # Idle /\ answer' = Idle /\ UNCHANGED dict
throws(c, k) == said(c, k, Threw) /\ UNCHANGED dict

Add(k, v) ==
    IF find(dict, k) # NULL THEN throws("add", k) ELSE enter(k, v) /\ said("add", k, Done)

Remove(k) ==
    LET e == find(dict, k) IN
    IF e = NULL THEN throws("remove", k) ELSE drop(e) /\ said("remove", k, Done)

\* remove() through an iterator, which moves on to the next entry first.
RemoveHere(e) ==
    /\ e \in Linked
    /\ IF find(dict, e) = NULL THEN throws("removeHere", e)
       ELSE /\ drop(find(dict, e))
            /\ said("removeHere", e, IF dict.next[e] = NULL THEN Done ELSE dict.next[e])

Get(k) ==
    LET e == find(dict, k) IN
    IF e = NULL THEN throws("get", k) ELSE said("get", k, dict.value[e]) /\ UNCHANGED dict

\* operator[], read or assigned to
Assign(k, v) ==
    /\ LET e == find(dict, k) IN
       IF e = NULL THEN enter(k, v) ELSE dict' = [dict EXCEPT !.value[e] = v]
    /\ said("assign", k, Done)

\* hasKey(), and find() compared with end()
HasKey(k) == said("hasKey", k, truth(find(dict, k) # NULL)) /\ UNCHANGED dict

ContainsValue(v) ==
    /\ said("containsValue", v, truth(\E e \in Linked : dict.value[e] = v))
    /\ UNCHANGED dict

\* clear() deletes what the list reaches.
Clear ==
    LET gone == Linked
    IN  /\ dict' = [root |-> NULL, first |-> NULL, last |-> NULL, size |-> 0,
                    prev |-> [e \in Keys |-> IF e \in gone THEN NULL ELSE dict.prev[e]],
                    next |-> [e \in Keys |-> IF e \in gone THEN NULL ELSE dict.next[e]],
                    parent |-> [e \in Keys |-> IF e \in gone THEN NULL ELSE dict.parent[e]],
                    child |-> [s \in Sides |->
                                [e \in Keys |-> IF e \in gone THEN NULL ELSE dict.child[s][e]]],
                    color |-> [e \in Keys |-> IF e \in gone THEN "RED" ELSE dict.color[e]],
                    value |-> [e \in Keys |-> IF e \in gone THEN Default ELSE dict.value[e]]]
        /\ said("clear", Done, Done)

Next ==
    \/ TakeAnswer \/ Clear
    \/ \E k \in Keys : Remove(k) \/ RemoveHere(k) \/ Get(k) \/ HasKey(k)
    \/ \E v \in Values : ContainsValue(v)
    \/ \E k \in Keys, v \in Values : Add(k, v) \/ Assign(k, v)

Spec == Init /\ [][Next]_vars

-----------------------------------------------------------------------------
(* However entries come and go, the list and the tree hold the same ones,  *)
(* every pointer has its counterpart, nothing points to a deleted entry    *)
(* and no red entry has a red child (Dictionary.h:427, 487, 624, 681).     *)
WellFormed ==
    LET d == dict
        T == {e \in Keys : e = d.root \/ d.parent[e] # NULL}
    IN  /\ T = Linked /\ Cardinality(T) = d.size
        /\ d.root # NULL => d.parent[d.root] = NULL
        /\ \A e \in T, s \in Sides :
            d.child[s][e] # NULL =>
                /\ d.parent[d.child[s][e]] = e /\ d.child[s][e] \in T
                /\ ~(isRed(d, e) /\ isRed(d, d.child[s][e]))
        /\ \A e \in T \ {d.root} : d.child[sideOf(d, e)][d.parent[e]] = e
        /\ \A e \in T :
            /\ d.next[e] # NULL => d.prev[d.next[e]] = e
            /\ d.next[e] = NULL => d.last = e
            /\ d.prev[e] = NULL => d.first = e

(* "Dictionary that is a simple key value pairing" (Dictionary.h:36): every *)
(* lookup through the tree answers what the entries in the list say of the *)
(* key (Map.h:33-47, Dictionary.h:387).  The code compares hashes only, so *)
(* this holds as long as no two keys have the same hash.                   *)
Abstract == INSTANCE OrderedMap
    WITH entries <- LET w == list
                    IN  [i \in DOMAIN w |-> [key |-> w[i], value |-> dict.value[w[i]]]]

ImplementsMap == Abstract!Spec
=============================================================================
