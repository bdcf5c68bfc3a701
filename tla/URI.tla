-------------------------------- MODULE URI --------------------------------
(***************************************************************************)
(* SRL::Net::URI (cpp/src/net/URI.cpp): a URI taken apart by position, the *)
(* map of its query fields that is parsed on demand, and the text put      *)
(* together again by asString().  The URIs given are encoded already.      *)
(***************************************************************************)
EXTENDS Texts, SequencesExt

CONSTANTS Given,     \* the URIs set() is given: records of parts
          Keys,      \* the keys of query fields, bytes
          Values,    \* the values added, texts
          MaxAdds    \* bound: the fields added to one URI

Conv == INSTANCE Codecs WITH Alphabet <- {}, MaxText <- 0, Width <- 1, CharLimit <- 1, input <- <<>>

Colon == 58
Slash == 47
At == 64
Question == 63
Hash == 35
Ampersand == 38
Equals == 61

VARIABLES parts,     \* _scheme, _user, _host, _port, _path, _query, _fragment
          map,       \* _query_map: from keys to values joined by '&'
          str,       \* _str
          shown,     \* what asString() returned, None since the last change
          given,     \* history: the parts last given to set()
          fields     \* history: the fields of that URI, and those added to it

vars == <<parts, map, str, shown, given, fields>>

None == <<-1>>

Blank == [scheme |-> <<>>, user |-> <<>>, host |-> <<>>, port |-> 0,
          path |-> <<>>, query |-> <<>>, fragment |-> <<>>]
orElse(p, default) == IF p = -1 THEN default ELSE p

-----------------------------------------------------------------------------
(* set()                                                                   *)

\* _parseScheme(): the position behind the scheme, 0 without one
schemeEnd(u) ==
    LET colon == find(u, <<Colon>>, 0) IN
    IF colon # -1 /\ colon < find(u, <<Slash>>, 0) THEN colon + 1 ELSE 0

\* _parseAuthority(): user, host and port, and where the path begins
authority(u, pos) ==
    LET slashes == find(u, <<Slash, Slash>>, 0)
        start == slashes + 2
        end == orElse(find(u, <<Slash>>, start), Len(u))
        amp == find(u, <<At>>, pos)
        hasUser == amp # -1 /\ amp < end
        host == IF hasUser THEN amp + 1 ELSE start
        colon == find(u, <<Colon>>, host)
        hasPort == colon # -1 /\ colon <= end
        hostEnd == IF hasPort THEN colon ELSE end IN
    IF slashes = -1 THEN [user |-> <<>>, host |-> <<>>, port |-> 0, pos |-> pos]
    ELSE [user |-> IF hasUser THEN mid(u, start, amp - start) ELSE <<>>,
          host |-> mid(u, host, hostEnd - host),
          port |-> IF hasPort THEN Conv!ToInt(mid(u, colon + 1, end - colon - 1), 10) ELSE 0,
          pos |-> IF hostEnd < Len(u) THEN end ELSE -1]

\* _parsePath(): the query reaches to the end of the URI, and the path to the
\* fragment, if there are both.
rest(u, pos) ==
    LET q == find(u, <<Question>>, pos)
        f == find(u, <<Hash>>, pos)
        end == IF q >= 0 THEN (IF f > q THEN f ELSE q) ELSE IF f > 0 THEN f ELSE Len(u)
        next == IF q >= 0 THEN q + 1 ELSE q
        fragEnd == IF next > f THEN next ELSE Len(u) IN
    [path |-> mid(u, pos, end - pos),
     query |-> IF q >= 0 THEN mid(u, next, Len(u) - next) ELSE <<>>,
     fragment |-> IF f >= 0 THEN mid(u, f + 1, fragEnd - f - 1) ELSE <<>>]

parse(u) ==
    LET s == schemeEnd(u)
        a == authority(u, s)
        r == IF a.pos = -1 THEN Blank ELSE rest(u, a.pos) IN
    [scheme |-> IF s = 0 THEN <<>> ELSE left(u, s - 1),
     user |-> a.user, host |-> a.host, port |-> a.port,
     path |-> r.path, query |-> r.query, fragment |-> r.fragment]

\* _generateString(): without a path there is no query and no fragment.
when(c, t) == IF c THEN t ELSE <<>>
generate(p) ==
    when(p.scheme # <<>>, p.scheme \o <<Colon>>)
    \o when(p.host # <<>>, <<Slash, Slash>> \o when(p.user # <<>>, p.user \o <<At>>) \o p.host
                           \o when(p.port > 0, <<Colon>> \o Conv!Val(p.port, 10)))
    \o when(p.path # <<>>, p.path \o when(p.query # <<>>, <<Question>> \o p.query)
                                  \o when(p.fragment # <<>>, <<Hash>> \o p.fragment))

-----------------------------------------------------------------------------
(* The query map                                                           *)

NoFields == [k \in {} |-> <<>>]
join(a, b) == a \o <<Ampersand>> \o b
put(m, k, v) == [x \in DOMAIN m \cup {k} |-> IF x # k THEN m[x] ELSE IF k \in DOMAIN m THEN join(m[k], v) ELSE v]

\* getQueryMap(): one round of the loop per '&', ended by a field without '='
parsed(q) ==
    LET n == count(q, <<Ampersand>>) + 1
        round[i \in 0..n] ==
            IF i = 0 THEN [map |-> NoFields, pos |-> 0]
            ELSE LET r == round[i - 1]
                     eq == IF r.pos > Len(q) THEN -1 ELSE find(q, <<Equals>>, r.pos)
                     end == orElse(find(q, <<Ampersand>>, eq + 1), Len(q)) IN
                 IF eq = -1 THEN [r EXCEPT !.pos = Len(q) + 1]
                 ELSE [map |-> put(r.map, mid(q, r.pos, eq - r.pos), mid(q, eq + 1, end - eq - 1)),
                       pos |-> end + 1] IN
    round[n].map

current == IF DOMAIN map = {} /\ parts.query # <<>> THEN parsed(parts.query) ELSE map

\* asString(): the fields in the order of the keys, a value per '&'
rebuilt(m) ==
    LET keys == SetToSortSeq(DOMAIN m, LAMBDA a, b : a[1] < b[1])
        one(k) == LET n == count(m[k], <<Ampersand>>)
                      field(i) == k \o <<Equals>> \o sectionChar(m[k], Ampersand, i, TRUE)
                      upto[i \in 0..n] == IF i = 0 THEN field(0) ELSE join(upto[i - 1], field(i)) IN
                  upto[n]
        all[i \in 1..Len(keys)] == IF i = 1 THEN one(keys[1]) ELSE join(all[i - 1], one(keys[i])) IN
    all[Len(keys)]
\* the query is put together again if the numbers of fields differ
outdated == count(parts.query, <<Ampersand>>) + 1 # Cardinality(DOMAIN map)

-----------------------------------------------------------------------------
Init ==
    /\ parts = Blank /\ map = NoFields /\ str = <<>>
    /\ shown = None /\ given = Blank /\ fields = <<>>

Set(p) ==
    /\ parts' = parse(generate(p))
    /\ map' = NoFields
    /\ str' = generate(parts')
    /\ given' = p
    /\ fields' = <<>> /\ shown' = None

AddQueryField(k, v) ==
    /\ Len(fields) < MaxAdds /\ given # Blank
    /\ map' = put(current, <<k>>, Conv!QueryValue(v))
    /\ fields' = Append(fields, <<<<k>>, Conv!QueryValue(v)>>)
    /\ shown' = None
    /\ UNCHANGED <<parts, str, given>>

GetQueryMap ==
    /\ map' = current
    /\ UNCHANGED <<parts, str, shown, given, fields>>

AsString ==
    /\ parts' = IF DOMAIN map # {} /\ outdated THEN [parts EXCEPT !.query = rebuilt(map)] ELSE parts
    /\ str' = IF parts' # parts THEN generate(parts') ELSE str
    /\ shown' = str'
    /\ UNCHANGED <<map, given, fields>>

Next ==
    \/ \E p \in Given : Set(p)
    \/ \E k \in Keys, v \in Values : AddQueryField(k, v)
    \/ GetQueryMap \/ AsString

Spec == Init /\ [][Next]_vars

-----------------------------------------------------------------------------
(* A URI with a query or a fragment, and not both: parse() takes the       *)
(* fragment for a part of the query's last value (URI.cpp:112).            *)
simple == given.query = <<>> \/ given.fragment = <<>>

(* set() finds the parts that the text was put together from, and          *)
(* asString() puts the same text together again.                           *)
FindsTheParts ==
    fields = <<>> /\ DOMAIN map = {} /\ simple => parts = given /\ shown \in {None, generate(given)}

\* the fields of a map
pairs(m) == UNION {{<<k, sectionChar(m[k], Ampersand, i, TRUE)>> : i \in 0..count(m[k], <<Ampersand>>)} : k \in DOMAIN m}

(* The map holds every field that was added and every field of the URI     *)
(* that set() was given, and no other, whatever URI the object held before *)
(* and also after asString() rebuilt the query from the map.  The text of  *)
(* asString() may lack them: it is rebuilt only when the numbers differ.   *)
KeepsFields ==
    DOMAIN map # {} /\ simple =>
        pairs(map) = {fields[i] : i \in 1..Len(fields)} \cup pairs(parsed(given.query))
=============================================================================
