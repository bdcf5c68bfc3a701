----------------------------- MODULE MCLibrary -----------------------------
(***************************************************************************)
(* The value classes, containers, parsers and codecs of the library for    *)
(* TLC.  They share no state, so one run looks at each of them by itself:  *)
(* part says which one a behaviour is about, and the variables of the      *)
(* others stay as they are.  Vector, with the constants of the cfg, is     *)
(* extended; the others are instances.                                     *)
(***************************************************************************)
EXTENDS Vector, Sequences

\* URIs in all the shapes of s://u@h:80/p?a=1&a=2, and with a fragment.
Shapes ==
    {[scheme |-> s, user |-> u, host |-> h, port |-> n, path |-> p, query |-> q, fragment |-> f] :
        s \in {<<115>>}, u \in {<<>>, <<117>>}, h \in {<<104>>}, n \in {0, 80},
        p \in {<<>>, <<47, 112>>}, q \in {<<>>, <<97, 61, 49>>, <<97, 61, 49, 38, 97, 61, 50>>},
        f \in {<<>>, <<102>>}}
URIs == {u \in Shapes : u.path = <<>> => u.query = <<>> /\ u.fragment = <<>>}

\* <r><a b="1" c=2>x y</a><d/></r>, a longer content, and texts that are cut
\* short in a value, in a content, in blanks and in a tag.
Pages ==
    {<<60, 114, 62, 60, 97, 32, 98, 61, 34, 49, 34, 32, 99, 61, 50, 62, 120, 32, 121,
       60, 47, 97, 62, 60, 100, 47, 62, 60, 47, 114, 62>>,
     <<60, 63, 112, 63, 62, 60, 97, 62, 32, 120, 121, 122, 122, 121, 120, 60, 47, 97, 62, 60, 98>>,
     <<60, 97, 32, 98, 61, 62, 120>>, <<60, 97, 62, 32, 32>>, <<60, 97, 32, 98, 99>>}

\* JSON: leaves, arrays and objects of them, and these inside one another.
json(t, n, s, m) == [type |-> t, number |-> n, string |-> s, members |-> m]
Leaves ==
    {json("number", n, <<>>, <<>>) : n \in {-12, 0, 7}}
    \cup {json("bool", 1, <<>>, <<>>), json("null", 0, <<>>, <<>>)}
    \cup {json("string", 0, s, <<>>) : s \in {<<>>, <<97>>, <<34, 92>>, <<10, 47>>, <<1>>}}
Few == {json("number", 3, <<>>, <<>>), json("string", 0, <<93>>, <<>>)}
arraysOf(vs) == {json("array", 0, <<>>, m) : m \in {<<>>} \cup [1..2 -> [key : {<<>>}, value : vs]]}
objectsOf(vs) ==
    {json("object", 0, <<>>, m) :
        m \in {<<>>} \cup {<<[key |-> <<97>>, value |-> x], [key |-> <<98, 34>>, value |-> y]>> : x, y \in vs}}
nested(vs) == arraysOf(vs) \cup objectsOf(vs)
\* brackets, marks, a digit and a quote in every short order
Signs == {91, 93, 123, 125, 44, 58, 53, 34, 45}
True == <<116, 114, 117, 101>>
False == <<102, 97, 108, 115, 101>>
Notes ==
    UNION {[1..n -> Signs] : n \in 0..3}
    \cup {<<123>> \o s \o <<34, 97, 34, 58>> \o t \o <<125>> : s, t \in {<<>>} \cup {<<a, b>> : a, b \in Signs}}
    \cup {<<123, 34, 97, 34, 58, 116, 102, 44, 34, 97, 34, 58>> \o True \o <<125>>,
          <<123, 34, 97, 34, 58>> \o True \o <<44, 34, 97, 34, 58>> \o False \o <<125>>}

\* XML-RPC: arguments of every type, nested, and more than a method takes.
rpc(t, s, m) == [type |-> t, str |-> s, members |-> m, exact |-> TRUE]
Scalars ==
    {rpc("string", s, <<>>) : s \in {<<>>, <<"a", "&">>, <<"&", "a">>, <<" ">>, <<"u", "s">>, <<"a", "bell">>}}
    \cup {rpc("int", <<"7">>, <<>>), rpc("boolean", <<"1">>, <<>>), rpc("double", <<"9">>, <<>>),
          rpc("dateTime.iso8601", <<"stamp">>, <<>>), rpc("base64", <<"a">>, <<>>)}
Two == {rpc("string", <<>>, <<>>), rpc("int", <<"7">>, <<>>)}
rpcArrays(vs) == {rpc("array", <<>>, m) : m \in {<<>>} \cup [1..2 -> [key : {<<>>}, value : vs]]}
rpcStructs(vs) ==
    {rpc("struct", <<>>, m) :
        m \in {<<>>} \cup {<<[key |-> k, value |-> x], [key |-> <<"b">>, value |-> y]>> :
                              k \in {<<"a">>, <<"a", "<">>}, x, y \in vs}}
RpcValues ==
    Scalars \cup rpcArrays(Two) \cup rpcStructs(Two)
    \cup rpcArrays(rpcStructs(Two) \cup rpcArrays(Two)) \cup rpcStructs(rpcArrays(Two))
Arguments ==
    {<<>>} \cup {<<v>> : v \in Scalars} \cup {<<v, w>> : v \in Two, w \in Scalars \cup {rpc("array", <<>>, <<>>)}}
    \cup {<<v, v, v, w>> : v \in Two, w \in {rpc("boolean", <<"1">>, <<>>), rpc("boolean", <<"0">>, <<>>)}}
post(s, ms, as) ==
    [service : {s}, method : ms, args : as, cut : {0}, uri : {"/RPC2"}, type : {"text/xml"}, known : {FALSE}]
SystemMethods ==
    {"getInfo", "getUsage", "getNetUsage", "configureNetwork", "getHistory", "listProcesses",
     "execute", "getCommandOutput", "getStatusOutput", "runCommands", "reboot", "version",
     "findProcess", "getProcess", "killProcess", "pathExists", "writeToFile", "catFile",
     "makeDir", "removeDir", "listMethods", "none"}
Posts ==
    post("system", SystemMethods, Arguments)
    \cup post("system", {"runCommands"},
               {<<v>> : v \in RpcValues} \cup {<<v, w>> : v \in rpcArrays(Two), w \in rpcStructs(Two)})
    \cup post("files", {"read"}, {<<>>, <<rpc("int", <<"7">>, <<>>)>>})
    \cup {[r EXCEPT !.uri = "/"] : r \in post("files", {"read"}, {<<>>})}
    \cup {[r EXCEPT !.type = "text/html"] : r \in post("files", {"read"}, {<<>>})}

\* Commands of words with and without blanks, quotes and the keys of options.
word(t, q) == [text |-> t, quote |-> q]
Words ==
    {word(<<"a">>, ""), word(<<"a", " ", "b">>, "'"), word(<<"i", "'", "s">>, "\""), word(<<"-", "v">>, ""),
     word(<<"-", "f">>, ""), word(<<"-", "f">>, "'"), word(<<"-", "h">>, "")}
Switches ==
    {[name |-> "verbose", keys |-> {<<"-", "v">>}, hasValue |-> FALSE],
     [name |-> "file", keys |-> {<<"-", "f">>, <<"-", "-", "f">>}, hasValue |-> TRUE]}

\* Values of an ini file: numbers, a word, one in quotes, one with a second '='.
Entries == {"5", "-5", "w", "'w'", "w=5"}
StoredEntry == [t \in Entries |-> IF t \in {"'w'", "w=5"} THEN "w" ELSE t]
NumberOf == [v \in {"5", "-5", "w"} |-> CASE v = "5" -> 5 [] v = "-5" -> -5 [] OTHER -> 0]
TextOf == [n \in {5, -5} |-> IF n = 5 THEN "5" ELSE "-5"]

VARIABLES part,
          mem, length, minSize, hashOf, fault, call, want, torn,
          input,
          parts, map, str, shown, given, fields,
          julian, day, month, year, time, moment,
          doc, chunk, fpos, xml, pos, elem, attr, reply, tagEnd,
          value, text, jsonReply, origin,
          services, rpcReply, request, executed, effects, rpcResult,
          words, command, commandPos, arg, delimiter, argv, i, parsed,
          commandValue, rest, pc,
          file, props, told, last, calls,
          values, next, remaining, drawn, bound, randomResult,
          clock, counter, timer, precise, set, began, halted, timerCalls

stringVars == <<mem, length, minSize, hashOf, fault, call, want, torn>>
codecVars == <<input>>
uriVars == <<parts, map, str, shown, given, fields>>
dateVars == <<julian, day, month, year, time, moment>>
xmlVars == <<doc, chunk, fpos, xml, pos, elem, attr, reply, tagEnd>>
jsonVars == <<value, text, jsonReply, origin>>
rpcVars == <<services, rpcReply, request, executed, effects, rpcResult>>
commandVars == <<words, command, commandPos, arg, delimiter, argv, i, parsed,
                 commandValue, rest, pc>>
iniVars == <<file, props, told, last, calls>>
randomVars == <<values, next, remaining, drawn, bound, randomResult>>
timerVars == <<clock, counter, timer, precise, set, began, halted,
               timerCalls>>
vectorVars == vars
libraryVars == <<part, vectorVars, stringVars, codecVars, uriVars, dateVars, xmlVars, jsonVars,
          rpcVars, commandVars, iniVars, randomVars, timerVars>>

Str == INSTANCE Strings
    WITH Chars <- {97, 66}, Args <- {<<97>>, <<66, 97>>, <<32, 97>>},
         Subst <- {<<<<97>>, <<66, 66>>>>, <<<<66, 97>>, <<32>>>>,
                   <<<<97>>, <<66, 97>>>>, <<<<97>>, <<>>>>},
         MaxLen <- 3, Round <- 2, Wrap <- 64
Codec == INSTANCE Codecs
    WITH Alphabet <- {1, 10, 32, 37, 43, 52, 92, 120, 200, 255}, MaxText <- 4,
         Width <- 5, CharLimit <- 3
Uri == INSTANCE URI
    WITH Given <- URIs, Keys <- {97, 98}, Values <- {<<51>>, <<32, 38>>},
         MaxAdds <- 2, Wrap <- 64
Dates == INSTANCE DateTime
    WITH Dates <- {<<31, 1, 2004>>, <<28, 2, 2003>>, <<30, 11, 2000>>},
         Stamps <- {951782400, 951868801, 1078012800}, Days <- {1, -1, 30},
         Months <- {1, -1, -14, 25}, Years <- {1, -1, 4},
         Seconds <- {43200, -43200, 129600}, MinDay <- 2451500,
         MaxDay <- 2453200, Decembers <- FALSE
Xml == INSTANCE XML
    WITH Docs <- Pages, Chunks <- {0, 3, 4, 5, 7, 11, 13}, NameLimit <- 14,
         Wrap <- 128
Json == INSTANCE JSON
    WITH Values <- Leaves \cup nested(Leaves) \cup nested(nested(Few)),
         Documents <- Notes, reply <- jsonReply
Rpc == INSTANCE RPC
    WITH Services <- {"files"}, Methods <- {"read"}, Requests <- Posts,
         Cuts <- {0, 1, 4, 6, 9}, reply <- rpcReply, result <- rpcResult
Cmd == INSTANCE CommandLine
    WITH Words <- Words, Options <- Switches, MaxWords <- 4,
         pos <- commandPos, value <- commandValue
Ini == INSTANCE IniParser
    WITH Sections <- {"default", "s"}, Names <- {"n"}, Texts <- Entries,
         Stored <- StoredEntry, Number <- NumberOf, Val <- TextOf,
         Digits <- {"5"}, MaxLines <- 2, MaxCalls <- 2
Rand == INSTANCE Random
    WITH Width <- 5, N <- 4, M <- 3, Multiplier <- 13, Matrix <- 19,
         Seeds <- {1, 2, 7, 30}, MaxDraws <- 9, result <- randomResult
Watches == INSTANCE Timer
    WITH Micro <- 3, MaxTime <- 2, MaxCalls <- 3, calls <- timerCalls

\* A part that does not run.
Off == "off"
dateOff == /\ julian = Off /\ day = Off /\ month = Off /\ year = Off
           /\ time = Off /\ moment = Off
xmlOff == /\ doc = Off /\ chunk = Off /\ fpos = Off /\ xml = Off /\ pos = Off
          /\ elem = Off /\ attr = Off /\ reply = Off /\ tagEnd = Off
jsonOff == /\ value = Off /\ text = Off /\ jsonReply = Off /\ origin = Off
commandOff == /\ words = Off /\ command = Off /\ commandPos = Off /\ arg = Off
              /\ delimiter = Off /\ argv = Off /\ i = Off /\ parsed = Off
              /\ commandValue = Off /\ rest = Off /\ pc = Off
iniOff == /\ file = Off /\ props = Off /\ told = Off /\ last = Off
          /\ calls = Off
randomOff == /\ values = Off /\ next = Off /\ remaining = Off /\ drawn = Off
             /\ bound = Off /\ randomResult = Off

LibraryInit ==
    /\ part \in {"string", "codec", "uri", "date", "xml", "json", "rpc",
                 "command", "ini", "random", "timer", "vector"}
    /\ Init
    /\ Str!Init
    /\ Codec!Init
    /\ Uri!Init
    /\ IF part = "date" THEN Dates!Init ELSE dateOff
    /\ IF part = "xml" THEN Xml!Init ELSE xmlOff
    /\ IF part = "json" THEN Json!Init ELSE jsonOff
    /\ Rpc!Init
    /\ IF part = "command" THEN Cmd!Init ELSE commandOff
    /\ IF part = "ini" THEN Ini!Init ELSE iniOff
    /\ IF part = "random" THEN Rand!Init ELSE randomOff
    /\ Watches!Init

LibraryNext ==
    \/ part = "vector" /\ Next /\ UNCHANGED <<part, stringVars, codecVars,
            uriVars, dateVars, xmlVars, jsonVars, rpcVars, commandVars,
            iniVars, randomVars, timerVars>>
    \/ part = "string" /\ Str!Next /\ UNCHANGED <<part, vectorVars, codecVars, uriVars,
            dateVars, xmlVars, jsonVars, rpcVars, commandVars, iniVars,
            randomVars, timerVars>>
    \/ part = "codec" /\ Codec!Next /\ UNCHANGED <<part, vectorVars, stringVars, uriVars,
            dateVars, xmlVars, jsonVars, rpcVars, commandVars, iniVars,
            randomVars, timerVars>>
    \/ part = "uri" /\ Uri!Next /\ UNCHANGED <<part, vectorVars, stringVars, codecVars,
            dateVars, xmlVars, jsonVars, rpcVars, commandVars, iniVars,
            randomVars, timerVars>>
    \/ part = "date" /\ Dates!Next /\ UNCHANGED <<part, vectorVars, stringVars, codecVars,
            uriVars, xmlVars, jsonVars, rpcVars, commandVars, iniVars,
            randomVars, timerVars>>
    \/ part = "xml" /\ Xml!Next /\ UNCHANGED <<part, vectorVars, stringVars, codecVars,
            uriVars, dateVars, jsonVars, rpcVars, commandVars, iniVars,
            randomVars, timerVars>>
    \/ part = "json" /\ Json!Next /\ UNCHANGED <<part, vectorVars, stringVars, codecVars,
            uriVars, dateVars, xmlVars, rpcVars, commandVars, iniVars,
            randomVars, timerVars>>
    \/ part = "rpc" /\ Rpc!Next /\ UNCHANGED <<part, vectorVars, stringVars, codecVars,
            uriVars, dateVars, xmlVars, jsonVars, commandVars, iniVars,
            randomVars, timerVars>>
    \/ part = "command" /\ Cmd!Next /\ UNCHANGED <<part, vectorVars, stringVars,
            codecVars, uriVars, dateVars, xmlVars, jsonVars, rpcVars, iniVars,
            randomVars, timerVars>>
    \/ part = "ini" /\ Ini!Next /\ UNCHANGED <<part, vectorVars, stringVars, codecVars,
            uriVars, dateVars, xmlVars, jsonVars, rpcVars, commandVars,
            randomVars, timerVars>>
    \/ part = "random" /\ Rand!Next /\ UNCHANGED <<part, vectorVars, stringVars,
            codecVars, uriVars, dateVars, xmlVars, jsonVars, rpcVars,
            commandVars, iniVars, timerVars>>
    \/ part = "timer" /\ Watches!Next /\ UNCHANGED <<part, vectorVars, stringVars,
            codecVars, uriVars, dateVars, xmlVars, jsonVars, rpcVars,
            commandVars, iniVars, randomVars>>

\* The thread that is in replace() or remove() goes on.
LibrarySpec ==
    /\ LibraryInit /\ [][LibraryNext]_vars
    /\ WF_stringVars(part = "string" /\ Str!Look)
    /\ WF_stringVars(part = "string" /\ Str!Cut)

-----------------------------------------------------------------------------
(* A String is the text its calls describe, writes nowhere but in its      *)
(* block, and is searched right, but after a replace() with an empty text  *)
(* (String.cpp:399).                                                       *)
StringsRight == part = "string" => Str!InBlock /\ Str!IsTheText /\ Str!QueriesRight

(* remove() comes to an end, and so does replace() if what it puts in is   *)
(* not empty and does not have in it what is replaced (String.cpp:454); in *)
(* the other cases the loop may go round for ever.                         *)
LoopsEnd == Str!LoopsEnd

(* Escapes, percent encoding, Base64, counted strings and numbers are      *)
(* undone by their counterparts, but for negative numbers of more than 32  *)
(* bits; a URI without a query or without a fragment has the parts that it *)
(* was given, and its map the fields, and no others (String.cpp:1281,      *)
(* Base64.cpp, URI.cpp:51, 112).                                           *)
CodecsRight ==
    /\ part = "codec" => Codec!RoundTrips /\ Codec!NumbersRead
    /\ part = "uri" => Uri!FindsTheParts /\ Uri!KeepsFields

(* Tags and contents are read whole wherever a chunk ends but in front of  *)
(* a mark, JSON with no empty array or object is read back as it was       *)
(* written, an XML-RPC call runs with the arguments that were sent if they *)
(* are Sendable, the words of a command are its options, their values and  *)
(* the rest, and a field of an ini file is answered with what was read or  *)
(* put last (XML.cpp:415, JSON.cpp:298, RpcValue.cpp:69,                   *)
(* XmlRpcProtocol.cpp:127, ArgumentParser.cpp:112, IniParser.cpp:65).      *)
DocumentsRight ==
    /\ part = "xml" => Xml!TagsWhole /\ Xml!ContentRight
    /\ part = "json" => Json!JsonRoundTrips
    /\ part = "rpc" => Rpc!CallsIntact
    /\ part = "command" => Cmd!CommandLineRight
    /\ part = "ini" => Ini!IniRight

(* Julian days follow the calendar and no second is lost, a stop watch     *)
(* shows what went by, and random numbers are the twister's sequence       *)
(* (Date.cpp:200-300, DateTime.cpp:85-250, Timer.cpp:61-170,               *)
(* Random.cpp:38-99).                                                      *)
ArithmeticRight ==
    /\ part = "date" => Dates!SameDay /\ Dates!KeepsMoment
    /\ part = "timer" => Watches!TimerRight
    /\ part = "random" => Rand!RandomRight
=============================================================================
