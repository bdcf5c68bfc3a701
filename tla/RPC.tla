--------------------------------- MODULE RPC ---------------------------------
(***************************************************************************)
(* SRL::RPC: the values and their XML form (cpp/src/rpc/RpcValue.cpp), the *)
(* services and methods of a protocol (RpcProtocol.cpp), the POST handler  *)
(* of XmlRpcProtocol (cpp/src/xml/XmlRpcProtocol.cpp) and the dispatch of  *)
(* RpcSystemService (RpcSystemService.cpp).  A document is the sequence of *)
(* its tags, each with the text that follows it; a text is a sequence of   *)
(* symbols, in which an XML entity is one symbol.  How XML::Parser finds   *)
(* the tags is module XML.                                                 *)
(***************************************************************************)
EXTENDS Integers, Sequences, FiniteSets, FiniteSetsExt

CONSTANTS Services,    \* services that may be registered, besides "system"
          Methods,     \* their methods
          Requests,    \* the requests that arrive
          Cuts         \* how many tags at the end of a document may be missing

VARIABLES services,    \* _services: the methods of every registered service
          reply,       \* how the last request was answered
          request,     \* history: the last request
          executed,    \* history: the service, method and arguments it ran
          effects,     \* history: what it did to the host
          result       \* history: the value it returned

vars == <<services, reply, request, executed, effects, result>>

-----------------------------------------------------------------------------
(* Texts                                                                   *)

Spaces == {" ", "nl"}
Controls == {"bell"}
Entities == {"&lt;", "&gt;", "&amp;"}
entity(c) == CASE c = "<" -> "&lt;" [] c = ">" -> "&gt;" [] c = "&" -> "&amp;" [] OTHER -> c
raw(c) == CASE c = "&lt;" -> "<" [] c = "&gt;" -> ">" [] c = "&amp;" -> "&" [] OTHER -> c

\* XML::encode(): control characters are dropped
encode(t) ==
    LET kept == SelectSeq(t, LAMBDA c : c \notin Controls) IN
    [i \in 1..Len(kept) |-> entity(kept[i])]

\* XML::decode(): String(text, 0) measures the text, so an entity in front
\* leaves the encoded text before the decoded one.
decode(t) ==
    LET plain == [i \in 1..Len(t) |-> raw(t[i])] IN
    IF t # <<>> /\ t[1] \in Entities THEN t \o plain ELSE plain

-----------------------------------------------------------------------------
(* Values                                                                  *)

\* A value, its text, its members, and whether _value has the number of the text
mk(type, str, members) == [type |-> type, str |-> str, members |-> members, exact |-> TRUE]
NullValue == mk("null", <<>>, <<>>)
tag(name, text) == <<[name |-> name, closing |-> FALSE, text |-> text]>>
close(name) == <<[name |-> name, closing |-> TRUE, text |-> <<>>]>>

\* Dictionary::add(): the value of a key is replaced; the order of the keys,
\* which is the tree's, is the order they were added in here.
place(members, key, v) ==
    LET at == {i \in 1..Len(members) : members[i].key = key} IN
    IF at = {} THEN Append(members, [key |-> key, value |-> v])
    ELSE [members EXCEPT ![CHOOSE i \in at : TRUE] = [key |-> key, value |-> v]]

RECURSIVE asXml(_), structXml(_, _), arrayXml(_, _)

\* RpcStructValue::asXml() and RpcArrayValue::asXml(), from member i on
structXml(v, i) ==
    IF i > Len(v.members) THEN close("struct")
    ELSE tag("member", <<>>) \o tag("name", encode(v.members[i].key)) \o close("name")
         \o asXml(v.members[i].value) \o close("member") \o structXml(v, i + 1)
arrayXml(v, i) ==
    IF i > Len(v.members) THEN close("data") \o close("array")
    ELSE asXml(v.members[i].value) \o arrayXml(v, i + 1)
binaryXml(v) == tag("base64", v.str) \o close("base64")

asXml(v) ==
    tag("value", <<>>)
    \o (CASE v.type = "array" -> tag("array", <<>>) \o tag("data", <<>>) \o arrayXml(v, 1)
          [] v.type = "struct" -> tag("struct", <<>>) \o structXml(v, 1)
          [] v.type = "base64" -> binaryXml(v)
          [] OTHER -> tag(v.type, encode(v.str)) \o close(v.type))
    \o close("value")

\* getNextElement(): behind the last tag the element has no name
step(d, i) == IF i > Len(d) THEN i ELSE i + 1
name(d, i) == IF i \in 1..Len(d) THEN d[i].name ELSE ""
closing(d, i) == d[IF i > Len(d) THEN Len(d) ELSE i].closing

\* hasContent() and, where it is true, getContent(): both need a tag behind
content(d, i) ==
    IF i > Len(d) \/ closing(d, i) THEN "no"
    ELSE IF i = Len(d) THEN "throw"
    ELSE IF \E k \in 1..Len(d[i].text) : d[i].text[k] \notin Spaces THEN "yes" ELSE "no"

done(i, v) == [how |-> "ok", pos |-> i, value |-> v]
throw(i) == [how |-> "throw", pos |-> i, value |-> NullValue]

Simple == {"int", "i4", "double", "boolean"}
Stamp == <<"stamp">>    \* a text that sscanf() takes for a date

RECURSIVE FromXml(_, _), arrayFrom(_, _, _), structFrom(_, _, _)

\* RpcArrayValue(parser), behind the data tag
arrayFrom(d, i, got) ==
    LET next == step(d, i)
        end == step(d, next)
        r == FromXml(d, next) IN
    IF name(d, next) = "value" /\ ~closing(d, next)
    THEN IF r.how = "throw" THEN r
         ELSE arrayFrom(d, r.pos, Append(got, [key |-> <<>>, value |-> r.value]))
    ELSE IF name(d, next) = "data" /\ closing(d, next) /\ name(d, end) = "array" /\ closing(d, end)
    THEN done(end, mk("array", <<>>, got))
    ELSE throw(end)

\* RpcStructValue(parser): the name is not decoded
structFrom(d, i, got) ==
    LET member == step(d, i)
        title == step(d, member)
        v == step(d, step(d, title))
        r == FromXml(d, v) IN
    IF name(d, member) # "member" \/ closing(d, member) THEN done(member, mk("struct", <<>>, got))
    ELSE IF \/ name(d, title) # "name" \/ closing(d, title) \/ content(d, title) # "yes"
            \/ name(d, step(d, title)) # "name" \/ ~closing(d, step(d, title))
            \/ name(d, v) # "value"
    THEN throw(v)
    ELSE IF r.how = "throw" THEN r
    ELSE structFrom(d, step(d, r.pos), place(got, d[title].text, r.value))

\* RpcValue::FromXml(): a value without a type is left at its first tag, and
\* a base64 one looks for its end where it stands.  A double is put into asInt:
\* what asDouble() reads was never written.
FromXml(d, i) ==
    LET t == step(d, i)
        kind == name(d, t)
        made(v) == done(step(d, step(d, t)), v)
        ends(r) == IF r.how = "throw" THEN r ELSE [r EXCEPT !.pos = step(d, r.pos)] IN
    IF name(d, i) # "value" THEN done(i, NullValue)
    ELSE IF content(d, i) = "throw" THEN throw(i)
    ELSE IF content(d, i) = "yes" THEN done(i, mk("string", decode(d[i].text), <<>>))
    ELSE IF t > Len(d) THEN throw(t)
    ELSE IF kind = "array" THEN IF name(d, step(d, t)) # "data" THEN throw(t)
                                ELSE ends(arrayFrom(d, step(d, t), <<>>))
    ELSE IF kind = "struct" THEN ends(structFrom(d, t, <<>>))
    ELSE IF kind = "base64" THEN throw(t)
    ELSE IF kind \notin Simple \cup {"string", "dateTime.iso8601"} THEN done(step(d, t), NullValue)
    ELSE IF content(d, t) = "throw" THEN throw(t)
    ELSE IF kind = "string"
         THEN made(mk("string", IF content(d, t) = "yes" THEN decode(d[t].text) ELSE <<>>, <<>>))
    ELSE IF content(d, t) = "no" THEN made(NullValue)
    ELSE IF kind = "dateTime.iso8601" /\ d[t].text # Stamp THEN done(t, NullValue)
    ELSE made([mk(IF kind = "i4" THEN "int" ELSE kind, d[t].text, <<>>) EXCEPT !.exact = kind # "double"])

-----------------------------------------------------------------------------
(* RpcSystemService: what a method answers and what it does to the host.   *)
(* A null argument is dereferenced.                                        *)

SystemMethods ==
    {"getInfo", "getUsage", "getNetUsage", "configureNetwork", "getHistory", "listProcesses",
     "execute", "getCommandOutput", "getStatusOutput", "runCommands", "reboot", "version",
     "findProcess", "getProcess", "killProcess", "pathExists", "writeToFile", "catFile",
     "makeDir", "removeDir"}

answer(v, what) == [how |-> IF v.type = "null" THEN "nil" ELSE "value", value |-> v, effects |-> what]
raised(how) == [how |-> how, value |-> NullValue, effects |-> <<>>]
String(t) == mk("string", t, <<>>)
Number == mk("int", <<"7">>, <<>>)
Yes == mk("boolean", <<"1">>, <<>>)
arrayOf(vs) == mk("array", <<>>, [k \in 1..Len(vs) |-> [key |-> <<>>, value |-> vs[k]]])
structOf(keys, v) == mk("struct", <<>>, [k \in 1..Len(keys) |-> [key |-> <<keys[k]>>, value |-> v]])
with(struct, key, v) == [struct EXCEPT !.members = place(@, <<key>>, v)]

getInfo ==
    LET strings == structOf(<<"hostname", "os_name", "os_kernel", "os_version", "cpu_model", "uptime">>, String(<<"text">>))
        numbers == structOf(<<"cpu_count", "cpu_speed", "cpu_physical", "cpu_logical", "cpu_cores", "memory_total">>, Number)
        all == mk("struct", <<>>, strings.members \o numbers.members) IN
    with(with(all, "datetime", mk("dateTime.iso8601", Stamp, <<>>)),
         "network", arrayOf(<<structOf(<<"name", "mac", "ip", "type">>, String(<<"lo">>))>>))
getUsage == structOf(<<"cpu_load", "memory_total", "memory_free", "swap_total", "swap_free">>, Number)
counters == structOf(<<"bytes", "packets", "multicast", "errors", "dropped">>, Number)
getNetUsage ==
    arrayOf(<<with(with(structOf(<<"name", "mac", "ip">>, String(<<"lo">>)), "rx", counters), "tx", counters)>>)

\* the processes of the host
process(p) == with(with(structOf(<<"pid", "parent_pid", "threads", "handles">>, Number),
                        "name", String(p.name)), "owner", String(p.owner))
Processes == <<[name |-> <<"a">>, owner |-> <<"root">>, pid |-> <<"7">>], [name |-> <<"b">>, owner |-> <<"u", "s">>, pid |-> <<"9">>]>>
chosen(ps) == arrayOf([k \in 1..Len(ps) |-> process(ps[k])])
listProcesses(user) == chosen(SelectSeq(Processes, LAMBDA p : user = <<>> \/ p.owner = user))
findProcess(pname) == chosen(SelectSeq(Processes, LAMBDA p : pname = <<>> \/ p.name = pname))
getProcess(pid) ==
    LET ps == SelectSeq(Processes, LAMBDA p : p.pid = pid) IN
    IF ps = <<>> THEN raised("throw") ELSE answer(process(ps[1]), <<>>)

\* getStatusOutput() and getCommandOutput(): a user of one letter is none
outputOf(user, v) == answer(v, IF Len(user) < 2 THEN <<"run">> ELSE <<"sleep", "runAs">>)

\* writeToFile(): the owner is never changed, since !size > 2 is false
writeToFile(append) == answer(Yes, IF append THEN <<"append">> ELSE <<"write">>)

systemExecute(m, args) ==
    LET n == Len(args)
        null(k) == k <= n /\ args[k].type = "null"
        is(k, t) == k <= n /\ args[k].type = t
        user == IF is(2, "string") THEN args[2].str ELSE <<>>
        nil == answer(NullValue, <<>>)
        looks(t, yes) == IF null(1) THEN raised("crash") ELSE IF is(1, t) THEN yes ELSE nil
        takes(sizes, yes) == IF n \notin sizes THEN nil
                             ELSE IF \E k \in 1..n : null(k) THEN raised("crash") ELSE yes
        commands == args[1].members
        outputs == arrayOf([k \in 1..Len(commands) |-> String(<<"text">>)]) IN
    CASE m = "getInfo" -> answer(getInfo, <<>>)
      [] m = "getUsage" -> answer(getUsage, <<>>)
      [] m = "getNetUsage" -> answer(getNetUsage, <<>>)
      [] m = "version" -> answer(String(<<"text">>), <<>>)
      [] m \in {"configureNetwork", "getHistory"} -> nil
      [] m = "listProcesses" -> IF null(1) THEN raised("crash")
                                ELSE answer(listProcesses(IF is(1, "string") THEN args[1].str ELSE <<>>), <<>>)
      [] m = "getProcess" -> looks("int", getProcess(args[1].str))
      [] m = "findProcess" -> looks("string", answer(findProcess(args[1].str), <<>>))
      [] m = "reboot" -> answer(NullValue, <<"reboot">>)
      [] m = "execute" -> looks("string", answer(Number, <<"spawn">>))
      [] m = "getStatusOutput" ->
             looks("string", IF null(2) THEN raised("crash") ELSE outputOf(user, structOf(<<"status", "output">>, Number)))
      [] m = "getCommandOutput" ->
             looks("string", IF null(2) THEN raised("crash") ELSE outputOf(user, String(<<"text">>)))
      [] m = "runCommands" ->
             looks("array", IF \E k \in 1..Len(commands) : commands[k].value.type = "null" THEN raised("crash")
                            ELSE answer(outputs, [k \in 1..Len(commands) |-> "run"]))
      [] m = "killProcess" -> looks("int", answer(Yes, <<"kill">>))
      [] m = "pathExists" -> looks("string", answer(Yes, <<>>))
      [] m = "catFile" -> looks("string", answer(String(<<"text">>), <<>>))
      [] m = "writeToFile" -> takes({2, 4}, writeToFile(n = 4 /\ args[4].str = <<"1">>))
      [] m = "makeDir" -> takes({1, 2}, answer(Yes, IF n = 2 THEN <<"makeDir", "chown">> ELSE <<"makeDir">>))
      [] m = "removeDir" -> looks("string", answer(Yes, <<"delete">>))

-----------------------------------------------------------------------------
(* XmlRpcProtocol::http_post()                                             *)

\* the arguments, from the params tag on
RECURSIVE params(_, _, _)
params(d, i, got) ==
    LET p == step(d, i)
        v == step(d, p)
        r == FromXml(d, v) IN
    IF name(d, p) # "param" \/ name(d, v) # "value" THEN [how |-> "ok", args |-> got]
    ELSE IF r.how = "throw" THEN [how |-> "throw", args |-> got]
    ELSE params(d, step(d, r.pos), Append(got, r.value))

sections(t) == Cardinality({i \in 1..Len(t) : t[i] = "."})
fault == [how |-> "fault", run |-> <<>>, effects |-> <<>>, result |-> NullValue]
crash == [fault EXCEPT !.how = "crash"]

handled(d) ==
    LET calls == {i \in 1..4 : name(d, i) = "methodCall"}
        m == Min(calls) + 1
        words == SelectSeq(d[m].text, LAMBDA c : c # ".")
        par == step(d, step(d, m))
        got == params(d, par, <<>>)
        svc == words[1]
        ran(a) == [how |-> CASE a.how = "throw" -> "fault" [] a.how = "crash" -> "crash" [] OTHER -> "response",
                   run |-> <<[service |-> svc, method |-> words[2], args |-> got.args]>>,
                   effects |-> a.effects, result |-> a.value] IN
    IF calls = {} THEN IF Len(d) < 4 THEN crash ELSE fault
    ELSE IF name(d, m) # "methodName" \/ content(d, m) # "yes" THEN fault
    ELSE IF sections(d[m].text) = 0 \/ Len(words) < 2 THEN fault
    ELSE IF svc = "system" /\ words[2] = "listMethods" THEN [fault EXCEPT !.how = "response"]
    ELSE IF svc \notin DOMAIN services \/ words[2] \notin services[svc] THEN fault
    ELSE IF par > Len(d) THEN crash
    ELSE IF name(d, par) # "params" \/ got.how = "throw" THEN fault
    ELSE IF svc = "system" /\ words[2] \in SystemMethods THEN ran(systemExecute(words[2], got.args))
    ELSE ran(answer(Yes, <<>>))

\* The document of a call: an optional header, and the arguments
document(r) ==
    LET par(v) == tag("param", <<>>) \o asXml(v) \o close("param")
        pars[k \in 0..Len(r.args)] == IF k = 0 THEN <<>> ELSE pars[k - 1] \o par(r.args[k])
        whole == tag("?xml", <<>>) \o tag("methodCall", <<>>)
                 \o tag("methodName", <<r.service, ".", r.method>>) \o close("methodName")
                 \o tag("params", <<>>) \o pars[Len(r.args)] \o close("params") \o close("methodCall") IN
    SubSeq(whole, 1, Len(whole) - r.cut)

NoRequest ==
    [service |-> "", method |-> "", args |-> <<>>, cut |-> 0, uri |-> "", type |-> "none", known |-> FALSE]

http_post(r) ==
    LET h == handled(document(r)) IN
    /\ reply = "none"
    /\ IF r.uri # "/RPC2" \/ r.type \in {"none", "text/html"} \/ document(r) = <<>>
       THEN reply' = "fault" /\ executed' = <<>> /\ effects' = <<>> /\ result' = NullValue
       ELSE reply' = h.how /\ executed' = h.run /\ effects' = h.effects /\ result' = h.result
    /\ request' = [r EXCEPT !.known = r.service \in DOMAIN services /\ r.method \in services[r.service]]
    /\ UNCHANGED services

\* The connection is ready for the next request.
ready ==
    /\ reply \notin {"none", "crash"}
    /\ reply' = "none" /\ request' = NoRequest /\ executed' = <<>> /\ effects' = <<>>
    /\ result' = NullValue
    /\ UNCHANGED services

-----------------------------------------------------------------------------
(* The registry                                                            *)

addService(s) ==
    /\ s \notin DOMAIN services
    /\ services' = [x \in DOMAIN services \cup {s} |-> IF x = s THEN {} ELSE services[x]]
    /\ UNCHANGED <<reply, request, executed, effects, result>>

\* removeService() and removeMethod() remove what is not there.
removeService(s) ==
    /\ IF s \in DOMAIN services THEN UNCHANGED services
       ELSE services' = [x \in DOMAIN services \ {s} |-> services[x]]
    /\ UNCHANGED <<reply, request, executed, effects, result>>

addMethod(s, m) ==
    /\ s \in DOMAIN services /\ m \notin services[s]
    /\ services' = [services EXCEPT ![s] = @ \cup {m}]
    /\ UNCHANGED <<reply, request, executed, effects, result>>

removeMethod(s, m) ==
    /\ s \in DOMAIN services
    /\ services' = [services EXCEPT ![s] = IF m \notin @ THEN @ \ {m} ELSE @]
    /\ UNCHANGED <<reply, request, executed, effects, result>>

Init ==
    /\ services = [s \in {"system"} |-> SystemMethods]
    /\ reply = "none" /\ request = NoRequest /\ executed = <<>> /\ effects = <<>>
    /\ result = NullValue

Next ==
    \/ \E r \in Requests, k \in Cuts : http_post([r EXCEPT !.cut = k])
    \/ ready
    \/ \E s \in Services : addService(s) \/ removeService(s)
    \/ \E s \in Services, m \in Methods : addMethod(s, m) \/ removeMethod(s, m)

Spec == Init /\ [][Next]_vars

-----------------------------------------------------------------------------
\* A text that survives: not blank, no control character, and none in front
\* that is sent as an entity, which decode() leaves in the text
sound(t) ==
    /\ t # <<>> => \E i \in 1..Len(t) : t[i] \notin Spaces
    /\ \A i \in 1..Len(t) : t[i] \notin Controls
    /\ t # <<>> => entity(t[1]) = t[1]

RECURSIVE Sendable(_)
Sendable(v) ==
    CASE v.type \in {"base64", "double"} -> FALSE
      [] v.type = "string" -> sound(v.str)
      [] v.type = "dateTime.iso8601" -> v.str = Stamp
      [] v.type \in {"array", "struct"} ->
            \A i \in 1..Len(v.members) :
                /\ Sendable(v.members[i].value)
                /\ v.type = "struct" => /\ v.members[i].key # <<>>
                                        /\ sound(v.members[i].key) /\ encode(v.members[i].key) = v.members[i].key
      [] OTHER -> v.str # <<>> /\ sound(v.str)

(* A complete call of a method that is there is executed, with exactly the *)
(* arguments that were sent, arrays and structs inside one another         *)
(* included, and is answered; the answer reads as the value it returned.   *)
(* Texts that do not survive, base64 and doubles are left out: of a double *)
(* only the text arrives (RpcValue.cpp:104, 182, RpcValue.h:93).           *)
CallsIntact ==
    LET r == request IN
    /\ r.known /\ r.cut = 0 /\ r.uri = "/RPC2" /\ r.type = "text/xml"
    /\ \A k \in 1..Len(r.args) : Sendable(r.args[k])
    => /\ executed = <<[service |-> r.service, method |-> r.method, args |-> r.args]>>
       /\ reply \in {"response", "fault"}
       /\ result.type # "null" => FromXml(asXml(result), 1).value = result
=============================================================================
