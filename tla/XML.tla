-------------------------------- MODULE XML --------------------------------
(***************************************************************************)
(* SRL::XML::Parser (cpp/src/xml/XML.cpp), a pull parser over a text or    *)
(* over a file that is read in chunks: it walks the tags forwards and      *)
(* backwards and reads the content and the attributes of the current one.  *)
(* A chunk is Chunk bytes (1024 in the code), a text is one chunk.         *)
(***************************************************************************)
EXTENDS Texts

CONSTANTS Docs,       \* the documents, sequences of bytes
          Chunks,     \* the chunk sizes; 0 is a parser of a text
          NameLimit   \* the 124 of _parseElement()

Open == 60
Close == 62
SlashChar == 47
QuestionChar == 63
EqualsChar == 61
SpaceChar == 32
Quotes == {39, 34}

VARIABLES doc, chunk, fpos,   \* the file: its bytes, chunk size and position
          xml, pos,           \* _xml and _pos
          elem,               \* _element
          attr,               \* _attribute
          reply,              \* how the last call ended
          tagEnd              \* history: where the current tag ends in doc

vars == <<doc, chunk, fpos, xml, pos, elem, attr, reply, tagEnd>>

here == [xml |-> xml, pos |-> pos, fpos |-> fpos]

Cleared(e) == [e EXCEPT !.name = <<>>, !.attributes = <<>>, !.content = <<>>, !.apos = 0]

-----------------------------------------------------------------------------
(* Reading on.  _getXML() drops the chunk it had.                          *)

more(r) ==
    LET end == IF r.fpos + chunk > Len(doc) THEN Len(doc) ELSE r.fpos + chunk IN
    [xml |-> SubSeq(doc, r.fpos + 1, end), pos |-> 0, fpos |-> end]
atEnd(r) == chunk = 0 \/ r.fpos = Len(doc)

\* The reader after k chunks, and the first k whose chunk has the byte c
after(r, k) == LET a[i \in 0..k] == IF i = 0 THEN r ELSE more(a[i - 1]) IN a[k]
chunksLeft(r) == IF atEnd(r) THEN 0 ELSE (Len(doc) - r.fpos + chunk - 1) \div chunk
until(r, c) ==
    LET hits == {k \in 0..chunksLeft(r) : find(after(r, k).xml, <<c>>, after(r, k).pos) # -1} IN
    IF hits = {} THEN -1 ELSE Min(hits)

\* An error: only the last chunk is used.
collected_Last(r, c, k) ==
    LET a == after(r, k) IN mid(a.xml, a.pos, find(a.xml, <<c>>, a.pos) - a.pos)

\* what += collects on the way: the rest of k chunks, then up to the byte
collected(r, c, k) ==
    LET got[i \in 0..k] ==
            LET a == after(r, i)
                piece == IF i < k THEN substr(a.xml, a.pos)
                         ELSE mid(a.xml, a.pos, find(a.xml, <<c>>, a.pos) - a.pos) IN
            IF i = 0 THEN piece ELSE got[i - 1] \o piece IN
    got[k]

spent(r) == [xml |-> <<>>, pos |-> 0, fpos |-> r.fpos]
moveTo(r) == xml' = r.xml /\ pos' = r.pos /\ fpos' = r.fpos
globally(r) == r.fpos - Len(r.xml) + r.pos

-----------------------------------------------------------------------------
(* _parseElement()                                                         *)

blankless(t) == [i \in 1..Len(t) |-> IF t[i] \in {10, 13} THEN SpaceChar ELSE t[i]]

\* the element for the text of a tag; a "?" tag keeps the closing mark it finds
tagOf(e, t) ==
    LET last == Len(t)
        slashed == t[1] = SlashChar
        single == ~slashed /\ t[last] = SlashChar
        instr == ~slashed /\ ~single /\ t[1] = QuestionChar
        name == IF slashed THEN SubSeq(t, 2, last) ELSE IF single THEN SubSeq(t, 1, last - 1)
                ELSE IF instr THEN SubSeq(t, 2, last - 1) ELSE t
        space == find(name, <<SpaceChar>>, 0)
        has == find(name, <<EqualsChar>>, 0) > 0 IN
    [e EXCEPT !.name = IF has THEN SubSeq(name, 1, space) ELSE name,
              !.attributes = IF has THEN blankless(substr(name, space + 1)) ELSE <<>>,
              !.hasAttributes = has,
              !.closing = IF instr THEN e.closing ELSE slashed \/ single]

\* _parseElement() from r, just behind the '<'
parseElement(r, e) ==
    LET k == until(r, Close)
        parts == collected(r, Close, k)
        a == after(r, k)
        next == [a EXCEPT !.pos = find(a.xml, <<Close>>, a.pos) + 1]
        last == mid(a.xml, a.pos, find(a.xml, <<Close>>, a.pos) - a.pos)
        long == k > 0 /\ Len(parts) - Len(last) > NameLimit IN
    IF k = -1 \/ long THEN /\ reply' = "invalid" /\ elem' = e
                           /\ moveTo(spent(r)) /\ tagEnd' = 0
    ELSE LET t == tagOf(e, parts) IN
         /\ elem' = t /\ moveTo(next) /\ tagEnd' = globally(next)
         /\ reply' = IF t.hasAttributes /\ find(parts, <<SpaceChar>>, 0) = -1
                     THEN "invalid" ELSE "element"

-----------------------------------------------------------------------------
Init ==
    /\ doc \in Docs /\ chunk \in Chunks
    /\ xml = (IF chunk = 0 THEN doc ELSE <<>>) /\ pos = 0
    /\ fpos = (IF chunk = 0 THEN Len(doc) ELSE 0)
    /\ elem = [name |-> <<>>, attributes |-> <<>>, content |-> <<>>, closing |-> FALSE,
               hasAttributes |-> FALSE, apos |-> 0]
    /\ attr = [name |-> <<>>, value |-> <<>>]
    /\ reply = "none" /\ tagEnd = 0

\* getNextElement()
GetNextElement ==
    LET r == IF pos < Len(xml) THEN here ELSE IF atEnd(here) THEN spent(here) ELSE more(here)
        k == until(r, Open)
        a == after(r, k) IN
    /\ reply # "invalid"
    /\ IF k = -1
       THEN /\ elem' = Cleared(elem) /\ reply' = "null" /\ tagEnd' = 0
            /\ moveTo(spent([r EXCEPT !.fpos = Len(doc)]))
       ELSE parseElement([a EXCEPT !.pos = find(a.xml, <<Open>>, a.pos) + 1], Cleared(elem))
    /\ UNCHANGED <<doc, chunk, attr>>

\* getPreviousElement() of a text: the second '<' back from the position;
\* rfind() takes the position 0 for the end of the text.
back(p) == IF p < 0 THEN -1 ELSE rfind(xml, <<Open>>, p)
GetPreviousElement ==
    LET current == back(pos - 1)
        previous == IF current = -1 THEN -1 ELSE back(current - 1) IN
    /\ chunk = 0 /\ reply \notin {"invalid", "null"}
    /\ IF previous = -1
       THEN /\ moveTo(spent(here)) /\ reply' = "null" /\ tagEnd' = 0 /\ UNCHANGED elem
       ELSE parseElement([here EXCEPT !.pos = previous + 1], Cleared(elem))
    /\ UNCHANGED <<doc, chunk, attr>>

\* getContent() and parseContent(): the position moves only with the chunk.
GetContent ==
    LET k == until(here, Open) IN
    /\ reply \in {"element", "content"}
    /\ IF elem.content # <<>> THEN reply' = "content" /\ UNCHANGED <<elem, xml, pos, fpos>>
       ELSE IF k = -1 THEN reply' = "invalid" /\ moveTo(spent(here)) /\ UNCHANGED elem
       ELSE /\ elem' = [elem EXCEPT !.content = collected(here, Open, k)]
            /\ moveTo(after(here, k)) /\ reply' = "content"
    /\ UNCHANGED <<doc, chunk, attr, tagEnd>>

\* hasContent(): the first byte that is not white space decides
inked(r) == {i \in r.pos..(Len(r.xml) - 1) : at(r.xml, i) \notin {32, 10, 13, 9}}
HasContent ==
    LET hits == {k \in 0..chunksLeft(here) : inked(after(here, k)) # {}}
        a == after(here, Min(hits)) IN
    /\ reply = "element" /\ ~elem.closing
    /\ IF hits = {} THEN reply' = "invalid" /\ moveTo(spent(here))
       ELSE /\ reply' = IF at(a.xml, Min(inked(a))) = Open THEN "empty" ELSE "filled"
            /\ moveTo(a)
    /\ UNCHANGED <<doc, chunk, elem, attr, tagEnd>>

\* getNextAttribute()
GetNextAttribute ==
    LET t == elem.attributes
        eq == find(t, <<EqualsChar>>, elem.apos)
        start == Min({i \in (eq + 1)..Len(t) : at(t, i) # SpaceChar})
        quoted == at(t, start) \in Quotes
        from == IF quoted THEN start + 1 ELSE start
        ends == {i \in from..(Len(t) - 1) : at(t, i) = (IF quoted THEN at(t, start) ELSE SpaceChar)} IN
    /\ reply \in {"element", "attribute"} /\ elem.hasAttributes /\ elem.apos < Len(t)
    /\ IF eq = -1 THEN reply' = "element" /\ UNCHANGED <<elem, attr>>
       ELSE IF start >= Len(t) \/ (quoted /\ ends = {}) THEN reply' = "invalid" /\ UNCHANGED <<elem, attr>>
       ELSE /\ reply' = "attribute"
            /\ attr' = [name |-> mid(t, elem.apos, eq - elem.apos),
                        value |-> IF ends = {} THEN substr(t, from) ELSE mid(t, from, Min(ends) - from)]
            /\ elem' = [elem EXCEPT !.apos = IF ends = {} THEN Len(t)
                                             ELSE Min(ends) + (IF quoted THEN 2 ELSE 1)]
    /\ UNCHANGED <<doc, chunk, fpos, xml, pos, tagEnd>>

Next ==
    \/ GetNextElement \/ GetPreviousElement
    \/ GetContent \/ HasContent \/ GetNextAttribute

Spec == Init /\ [][Next]_vars

-----------------------------------------------------------------------------
(* The text of the tag that ends at a position of the document             *)
lastOpen == Max({i \in 0..(tagEnd - 1) : at(doc, i) = Open})
tagText == SubSeq(doc, lastOpen + 2, tagEnd - 1)

\* No chunk begins with a '<' or a '>': the piece in front of it has no length,
\* and substr(_pos, 0) returns the whole chunk instead (String.cpp:161, 745).
SplitsWell == chunk # 0 => \A i \in 1..(Len(doc) - 1) : i % chunk = 0 => at(doc, i) \notin {Open, Close}

(* The tag that a call returns is a tag of the document, whole and read    *)
(* alike wherever the chunks split it, but in front of a mark.             *)
TagsWhole ==
    tagEnd # 0 /\ SplitsWell /\ reply = "element" =>
        LET e == tagOf([elem EXCEPT !.closing = FALSE], tagText) IN
        at(doc, tagEnd - 1) = Close /\ elem.name = e.name /\ elem.attributes = e.attributes

\* the text between the current tag and the next one
contentText == SubSeq(doc, tagEnd + 1, Min({i \in tagEnd..Len(doc) : at(doc, i) \in {Open, Nul}}))

(* The content that is returned is the text behind the tag, up to the next *)
(* one, wherever the chunks split it, but in front of a mark.  Of a tag    *)
(* with no text behind it the code returns the rest of the chunk, for the  *)
(* same reason.                                                            *)
ContentRight ==
    reply = "content" /\ contentText # <<>> /\ SplitsWell => elem.content = contentText
=============================================================================
