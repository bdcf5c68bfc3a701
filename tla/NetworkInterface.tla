-------------------------- MODULE NetworkInterface --------------------------
(***************************************************************************)
(* SRL::Net::NetworkInterface on Linux: a shared list of objects, one for  *)
(* each device of /proc/net/dev, brought up to date at most once in a      *)
(* second; the objects of devices that are gone are kept until the next    *)
(* update, as callers may still hold them.                                 *)
(***************************************************************************)
EXTENDS Naturals, Sequences, FiniteSets, SequencesExt

CONSTANTS Names, Addresses,
          Strange,      \* devices whose type is not known
          MaxObjects, MaxCalls

VARIABLES devices,      \* the kernel: name -> [ip, bytes], for the devices there are
          objects,      \* the heap: of each object [name, ip, bytes]
          interfaces, newifs, deadifs,   \* the lists, of objects
          freed,        \* objects deleted
          due,          \* a second has gone by since the last update
          sockets,      \* descriptors left open
          lost,         \* history: objects that an update made before it threw
          half,         \* history: the last update threw
          held,         \* history: what a caller got from GetAll() after the last update
          seen,         \* history: the devices at the last update
          calls

lists == <<interfaces, newifs, deadifs>>
vars == <<devices, objects, lists, freed, due, sockets, lost, half, held, seen, calls>>

NoIP == "0.0.0.0"
Absent == [ip |-> "absent", bytes |-> 0]
there == {n \in Names : devices[n] # Absent}
Called == calls < MaxCalls /\ calls' = calls + 1

Init == /\ devices \in [Names -> {Absent, [ip |-> NoIP, bytes |-> 0]}]
        /\ objects = <<>> /\ interfaces = <<>> /\ newifs = <<>> /\ deadifs = <<>>
        /\ freed = {} /\ lost = {} /\ half = FALSE /\ due = TRUE /\ sockets = 0 /\ held = {} /\ calls = 0
        /\ seen = [n \in Names |-> Absent]

\* GetByName() without an update: the object, or 0 for none.
GetByName(n) == LET found == {k \in Range(interfaces) : objects[k].name = n}
                IN IF found = {} THEN 0 ELSE CHOOSE k \in found : TRUE

\* The object of a device, as the kernel describes it now: an ip that is
\* gone is still shown.
described(n, ip) == [name |-> n, ip |-> IF devices[n].ip = NoIP THEN ip ELSE devices[n].ip,
                     bytes |-> devices[n].bytes]

\* Faulty: the iterator moves on from what it has erased.
_remove_dead_Skips(list, alive) ==
    LET keep == {p \in 1..Len(list) : list[p] \in alive \/ (p > 1 /\ list[p - 1] \notin alive)}
    IN [k \in 1..Cardinality(keep) |-> list[CHOOSE p \in keep : Cardinality({q \in keep : q <= p}) = k]]
\* What stays of the list.
_remove_dead(list, alive) == SelectSeq(list, LAMBDA k : k \in alive)

\* The objects deleted so far, with those that died last time.
_delete_dead == freed \cup Range(deadifs)

\* The devices of ns that are new, and the objects that are made for them
fresh(ns) == SetToSeq({n \in ns : GetByName(n) = 0})
made(ns) == [k \in 1..Len(fresh(ns)) |-> Len(objects) + k]

\* The heap when the devices of ns have been looked up, and the one of stuck,
\* which throws, has not.
heap(ns, stuck) ==
    LET known == {GetByName(n) : n \in ns}
        new == fresh(ns \cup stuck)
    IN [k \in 1..Len(objects) |-> IF k \in known THEN described(objects[k].name, objects[k].ip) ELSE objects[k]]
       \o [k \in 1..Len(new) |-> IF new[k] \in ns THEN described(new[k], NoIP)
                                ELSE [name |-> new[k], ip |-> NoIP, bytes |-> 0]]

\* __update(): the dead of the last time are deleted, the devices are looked
\* up by name, and an object made for a strange device goes at once.
Update ==
    /\ due /\ Called
    /\ LET h == heap(there, {})
           new == SelectSeq(made(there), LAMBDA k : h[k].name \notin Strange)
           stay == _remove_dead(interfaces, {GetByName(n) : n \in there} \cup Range(new))
       IN /\ Len(h) <= MaxObjects
          /\ objects' = h
          /\ newifs' = new
          /\ interfaces' = stay \o new
          /\ deadifs' = SelectSeq(interfaces, LAMBDA k : k \notin Range(stay))
          /\ freed' = _delete_dead \cup (Range(made(there)) \ Range(new))
    /\ due' = FALSE /\ half' = FALSE /\ held' = Range(interfaces') /\ seen' = devices
    /\ UNCHANGED <<devices, sockets, lost>>

\* For want of a descriptor it throws: at /proc/net/dev, or at the device of
\* stuck in _update_interface(), when it has looked up those of ns.
UpdateThrows(ns, stuck) ==
    /\ due /\ Called
    /\ Cardinality(stuck) <= 1 /\ (stuck = {} => ns = {})
    /\ LET h == heap(ns, stuck)
           all == made(ns \cup stuck)
           new == SelectSeq(all, LAMBDA k : h[k].name \notin Strange \/ h[k].name \in stuck)
       IN /\ Len(h) <= MaxObjects
          /\ objects' = h
          /\ newifs' = new
          /\ lost' = lost \cup Range(new)
          /\ freed' = _delete_dead \cup (Range(all) \ Range(new))
    /\ deadifs' = <<>> /\ due' = FALSE /\ half' = TRUE
    /\ UNCHANGED <<devices, interfaces, sockets, held, seen>>

\* setIP(), setNetmask(), setBroadcast(): an address that is none is thrown
\* out of while the socket is open.
setIP(n, ip, valid) ==
    /\ Called /\ GetByName(n) # 0
    /\ IF valid THEN /\ devices' = IF n \in there THEN [devices EXCEPT ![n].ip = ip] ELSE devices
                     /\ UNCHANGED sockets
       ELSE sockets' = sockets + 1 /\ UNCHANGED devices
    /\ UNCHANGED <<objects, lists, freed, due, lost, half, held, seen>>

Elapse == ~due /\ due' = TRUE /\ UNCHANGED <<devices, objects, lists, freed, sockets, lost, half, held, seen, calls>>

\* Devices come, go and pass bytes on; one may lose its address.
Outside(n, d) == /\ Called /\ devices[n] # d /\ devices' = [devices EXCEPT ![n] = d]
                 /\ UNCHANGED <<objects, lists, freed, due, sockets, lost, half, held, seen>>

Next == \/ Update \/ Elapse
        \/ \E ns \in SUBSET there : \E stuck \in SUBSET (there \ ns) : UpdateThrows(ns, stuck)
        \/ \E n \in Names : \/ \E ip \in Addresses, valid \in BOOLEAN : setIP(n, ip, valid)
                            \/ \E d \in {Absent} \cup [ip : Addresses \cup {NoIP}, bytes : {1}] : Outside(n, d)

Spec == Init /\ [][Next]_vars

-----------------------------------------------------------------------------
(* Every object is in the list, dead, deleted or lost by an update that    *)
(* threw, and none of them is two of these; no list has a device twice;    *)
(* what a caller got from the last update but one may be dead, but what it *)
(* got from the last is never deleted; and the list has exactly the known  *)
(* devices of the last update that came to its end, with what the kernel   *)
(* said of them unless one threw since                                     *)
(* (linux/NetworkInterface.cpp:139-210, NetworkInterface.cpp:66-97).       *)
InterfacesRight ==
    /\ \A k \in 1..Len(objects) :
         Cardinality({s \in {<<1, Range(interfaces)>>, <<2, Range(deadifs)>>, <<3, freed>>, <<4, lost>>} : k \in s[2]}) = 1
    /\ Range(newifs) \cap freed = {}
    /\ \A p, q \in 1..Len(interfaces) : objects[interfaces[p]].name = objects[interfaces[q]].name => p = q
    /\ held \cap freed = {}
    /\ {objects[k].name : k \in Range(interfaces)} = {n \in Names : seen[n] # Absent} \ Strange
    /\ ~half => \A k \in Range(interfaces) : objects[k].bytes = seen[objects[k].name].bytes
=============================================================================
