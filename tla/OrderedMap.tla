----------------------------- MODULE OrderedMap -----------------------------
(***************************************************************************)
(* What srl/util/Map.h and the comments of Dictionary.h promise of a map:  *)
(* at most one entry for a key, entries walked in the order in which they  *)
(* were added, and what each call answers.                                 *)
(***************************************************************************)
EXTENDS Naturals, SequencesExt

CONSTANTS Keys, Values,
          Yes, No, Threw, Done

VARIABLES entries,   \* in insertion order
          answer     \* the last call, and what it answered

vars == <<entries, answer>>

\* Between two calls.
Idle == [call |-> "none", of |-> Done, is |-> Done]
Init == entries = <<>> /\ answer = Idle

\* Where the entry of a key is, if there is one.
Place(k) == {i \in DOMAIN entries : entries[i].key = k}
Has(k) == Place(k) # {}

said(c, k, a) == answer = Idle /\ answer' = [call |-> c, of |-> k, is |-> a]
throws(c, k, refuse) == said(c, k, Threw) /\ refuse /\ UNCHANGED entries
query(c, k, b) ==
    ((said(c, k, Yes) /\ b) \/ (said(c, k, No) /\ ~b)) /\ UNCHANGED entries

Add(k, v) ==
    \/ throws("add", k, Has(k))
    \/ said("add", k, Done) /\ ~Has(k) /\ entries' = Append(entries, [key |-> k, value |-> v])

Delete(k) ==
    \/ throws("remove", k, ~Has(k))
    \/ said("remove", k, Done) /\ \E i \in Place(k) : entries' = RemoveAt(entries, i)

\* remove() through an iterator answers where the walk goes on.
RemoveHere(i) ==
    /\ said("removeHere", entries[i].key, IF i < Len(entries) THEN entries[i + 1].key ELSE Done)
    /\ entries' = RemoveAt(entries, i)

Get(k) ==
    \/ throws("get", k, ~Has(k))
    \/ (\E i \in Place(k) : said("get", k, entries[i].value)) /\ UNCHANGED entries

\* operator[] on the left of an assignment.
Assign(k, v) ==
    /\ said("assign", k, Done)
    /\ \/ \E i \in Place(k) : entries' = [entries EXCEPT ![i].value = v]
       \/ ~Has(k) /\ entries' = Append(entries, [key |-> k, value |-> v])

HasKey(k) == query("hasKey", k, Has(k))
ContainsValue(v) == query("containsValue", v, \E i \in DOMAIN entries : entries[i].value = v)
Clear == said("clear", Done, Done) /\ entries' = <<>>
TakeAnswer == answer # Idle /\ answer' = Idle /\ UNCHANGED entries

Next ==
    \/ TakeAnswer \/ Clear
    \/ \E k \in Keys : Delete(k) \/ Get(k) \/ HasKey(k)
    \/ \E i \in DOMAIN entries : RemoveHere(i)
    \/ \E v \in Values : ContainsValue(v)
    \/ \E k \in Keys, v \in Values : Add(k, v) \/ Assign(k, v)

Spec == Init /\ [][Next]_vars
=============================================================================
