----------------------------- MODULE FileSystem -----------------------------
(***************************************************************************)
(* SRL::FS: MakeDir, MakeSymLink, Move, Copy and Delete on a tree of       *)
(* files, directories and symbolic links.  Every one of them asks with     *)
(* stat(), which follows links, and then acts in several system calls; an  *)
(* exception in the middle leaves what was done before it.                 *)
(***************************************************************************)
EXTENDS Naturals, Sequences, FiniteSets

CONSTANTS Names, Contents, MaxDepth,
          MaxCalls

VARIABLES tree,    \* what is at each path
          last,    \* the last call: its arguments, outcome and the tree before it
          calls

vars == <<tree, last, calls>>

Paths == UNION {[1..n -> Names] : n \in 1..MaxDepth}
Bits == {"r", "w", "x"}

\* S_IRUSR and the others: the bits a mode has for one class.
of(modes, class) == {b \in Bits : <<class, b>> \in modes}

\* ModesToPermissions: FS::EXECUTE is the bit of the others, not the owner's.
ModesToPermissions(modes) ==
    [owners |-> (of(modes, "usr") \ {"x"}) \cup (of(modes, "oth") \cap {"x"}),
     groups |-> of(modes, "grp"),
     others |-> of(modes, "oth")]

\* PermissionsToModes: what the others may write and execute is the owner's.
PermissionsToModes(perms) ==
    ({"usr"} \X perms.owners) \cup ({"grp"} \X perms.groups)
    \cup ({"oth"} \X ((perms.others \cap {"r"}) \cup (perms.owners \cap {"w", "x"})))

Dir(modes) == [kind |-> "dir", modes |-> modes]
File(c) == [kind |-> "file", content |-> c]
Link(p) == [kind |-> "link", to |-> p]

parent(p) == SubSeq(p, 1, Len(p) - 1)
under(p, q) == Len(q) >= Len(p) /\ SubSeq(q, 1, Len(p)) = p
below(t, p) == {q \in DOMAIN t : under(p, q) /\ q # p}
children(t, p) == {q \in DOMAIN t : Len(q) = Len(p) + 1 /\ under(p, q)}

RECURSIVE follow(_, _, _)
\* The kernel's walk along path p: the first link on the way is replaced by
\* what it points to, n times at most; <<>> is a path that leads nowhere.
follow(t, p, n) ==
    LET links == {i \in 1..Len(p) : /\ SubSeq(p, 1, i) \in DOMAIN t
                                    /\ t[SubSeq(p, 1, i)].kind = "link"}
        i == CHOOSE j \in links : \A k \in links : j <= k
    IN IF links = {} THEN p
       ELSE IF n = 0 THEN <<>>
       ELSE follow(t, t[SubSeq(p, 1, i)].to \o SubSeq(p, i + 1, Len(p)), n - 1)

\* Where stat() ends, and where a call that does not follow the last link does.
real(t, p) == follow(t, p, 2)
entry(t, p) == IF Len(p) = 1 THEN p ELSE real(t, parent(p)) \o <<p[Len(p)]>>

Exists(t, p) == real(t, p) \in DOMAIN t
IsDir(t, p) == Exists(t, p) /\ t[real(t, p)].kind = "dir"
IsFile(t, p) == Exists(t, p) /\ t[real(t, p)].kind = "file"

\* An entry can be made at path p: its directory is there and its name not too long.
roomFor(t, p) == /\ Len(p) <= MaxDepth /\ Len(entry(t, p)) <= MaxDepth
                 /\ Len(p) = 1 \/ IsDir(t, parent(p))

put(t, p, node) == [q \in DOMAIN t \cup {p} |-> IF q = p THEN node ELSE t[q]]
without(t, gone) == [q \in DOMAIN t \ gone |-> t[q]]

done(t) == {[tree |-> t, err |-> FALSE]}
throw(t) == {[tree |-> t, err |-> TRUE]}

\* MakeDir(p, perms): one mkdir(), under a umask of 0.
MakeDir(t, p, perms) ==
    IF roomFor(t, p) /\ entry(t, p) \notin DOMAIN t
    THEN done(put(t, entry(t, p), Dir(PermissionsToModes(perms))))
    ELSE throw(t)

NullPermissions == [owners |-> Bits, groups |-> Bits, others |-> {}]

RECURSIVE makeDirs(_, _, _)
\* MakeDir(p, NULL, TRUE): every directory of the path that is not there yet.
makeDirs(t, p, i) ==
    IF i > Len(p) THEN done(t)
    ELSE IF Exists(t, SubSeq(p, 1, i)) THEN makeDirs(t, p, i + 1)
    ELSE UNION {IF r.err THEN {r} ELSE makeDirs(r.tree, p, i + 1) :
                r \in MakeDir(t, SubSeq(p, 1, i), NullPermissions)}

\* ::remove(): an entry that is no directory, or an empty one.
remove(t, p) == IF entry(t, p) \in DOMAIN t /\ children(t, entry(t, p)) = {}
                THEN without(t, {entry(t, p)}) ELSE t

RECURSIVE Delete(_, _, _)
RECURSIVE deleteEach(_, _, _)
\* The entries of directory p, in any order; the first exception ends it.
deleteEach(t, p, names) ==
    IF names = {} THEN done(t)
    ELSE UNION {UNION {IF r.err THEN {r} ELSE deleteEach(r.tree, p, names \ {n}) :
                       r \in Delete(t, p \o <<n>>, TRUE)} : n \in names}

names(t, p) == {q[Len(q)] : q \in children(t, real(t, p))}

\* Delete(p, recursive): what a directory is, is asked with stat().
Delete(t, p, recursive) ==
    IF ~Exists(t, p) THEN throw(t)
    ELSE IF ~IsDir(t, p) THEN done(remove(t, p))
    ELSE IF recursive
    THEN UNION {IF r.err THEN {r} ELSE done(remove(r.tree, p)) :
                r \in deleteEach(t, p, names(t, p))}
    ELSE IF names(t, p) = {} THEN done(remove(t, p)) ELSE throw(t)

\* The start of Move() and Copy(): an existing target goes first, if it may.
cleared(t, from, to, replace) ==
    IF ~Exists(t, from) THEN throw(t)
    ELSE IF ~Exists(t, to) THEN done(t)
    ELSE IF replace THEN Delete(t, to, FALSE) ELSE throw(t)

moved(t, from, to) ==
    LET stay == without(t, below(t, from) \cup {from, to})
        sub == [q \in {to \o SubSeq(p, Len(from) + 1, Len(p)) :
                       p \in below(t, from) \cup {from}} |->
                  t[from \o SubSeq(q, Len(to) + 1, Len(q))]]
    IN [q \in DOMAIN stay \cup DOMAIN sub |-> IF q \in DOMAIN sub THEN sub[q] ELSE stay[q]]

\* Move(): rename() fails on another device, under itself and where there is
\* no directory; the target is gone by then.
Move(t, from, to, replace) ==
    UNION {IF r.err THEN {r}
           ELSE LET f == entry(r.tree, from)  g == entry(r.tree, to)
                IN throw(r.tree) \cup
                   IF f \in DOMAIN r.tree /\ roomFor(r.tree, to) /\ ~under(f, g)
                      /\ \A q \in below(r.tree, f) : Len(q) + Len(g) - Len(f) <= MaxDepth
                   THEN done(moved(r.tree, f, g)) ELSE {}
           : r \in cleared(t, from, to, replace)}

RECURSIVE Copy(_, _, _, _)
RECURSIVE copyEach(_, _, _, _)
copyEach(t, from, to, ns) ==
    IF ns = {} THEN done(t)
    ELSE UNION {UNION {IF r.err THEN {r} ELSE copyEach(r.tree, from, to, ns \ {n}) :
                       r \in Copy(t, from \o <<n>>, to \o <<n>>, FALSE)} : n \in ns}

copyFile(t, from, to) ==
    IF roomFor(t, to) THEN done(put(t, real(t, to), t[real(t, from)])) ELSE throw(t)

\* Copy(): a directory is made with the permissions read back from the
\* original, then filled; a file that cannot be opened for writing ends the
\* program, counted as an exception here.
Copy(t, from, to, replace) ==
    UNION {IF r.err THEN {r}
           ELSE IF IsDir(r.tree, from)
           THEN UNION {IF m.err THEN {m}
                       ELSE copyEach(m.tree, from, to, names(r.tree, from)) :
                       m \in MakeDir(r.tree, to,
                               ModesToPermissions(r.tree[real(r.tree, from)].modes))}
           ELSE IF IsFile(r.tree, from) THEN copyFile(r.tree, from, to)
           ELSE done(r.tree)
           : r \in cleared(t, from, to, replace)}

NoCall == [op |-> "none", err |-> FALSE]

Init == /\ tree = [p \in {} |-> 0] /\ last = NoCall /\ calls = 0

\* A call with one of its possible outcomes.
Call(op, from, to, flag, outcomes) ==
    /\ last = NoCall
    /\ \E r \in outcomes :
           /\ tree' = r.tree
           /\ last' = [op |-> op, from |-> from, to |-> to, flag |-> flag,
                       err |-> r.err, before |-> tree]
           /\ calls' = calls + 1

\* The caller has seen how it went.
Return == last # NoCall /\ calls < MaxCalls /\ last' = NoCall /\ UNCHANGED <<tree, calls>>

\* The program writes a file.
Create(p, c) == /\ calls < MaxCalls /\ roomFor(tree, p) /\ ~Exists(tree, p)
                /\ Call("create", p, p, FALSE, done(put(tree, entry(tree, p), File(c))))

\* MakeSymLink(from, to): symlink() to a path that is there.
MakeSymLink(p, q) ==
    /\ calls < MaxCalls
    /\ Call("link", p, q, FALSE,
            IF Exists(tree, p) /\ roomFor(tree, q) /\ entry(tree, q) \notin DOMAIN tree
            THEN done(put(tree, entry(tree, q), Link(p))) ELSE throw(tree))

CallMakeDir(p, recursive) ==
    calls < MaxCalls /\ Call("mkdir", p, p, recursive,
        IF recursive THEN makeDirs(tree, p, 1) ELSE MakeDir(tree, p, NullPermissions))
CallDelete(p, recursive) ==
    calls < MaxCalls /\ Call("delete", p, p, recursive, Delete(tree, p, recursive))
CallMove(p, q, replace) ==
    calls < MaxCalls /\ Call("move", p, q, replace, Move(tree, p, q, replace))
CallCopy(p, q, replace) ==
    calls < MaxCalls /\ Call("copy", p, q, replace, Copy(tree, p, q, replace))

Next == \/ Return
        \/ \E p \in Paths :
            \/ \E c \in Contents : Create(p, c)
            \/ \E flag \in BOOLEAN : CallMakeDir(p, flag) \/ CallDelete(p, flag)
            \/ \E q \in Paths : \/ MakeSymLink(p, q)
                                \/ \E flag \in BOOLEAN : CallMove(p, q, flag) \/ CallCopy(p, q, flag)

Spec == Init /\ [][Next]_vars

-----------------------------------------------------------------------------
same(t, p, u, q) ==
    /\ t[p].kind = u[q].kind
    /\ t[p].kind = "file" => t[p].content = u[q].content

\* The tree below p in t is the tree below q in u.
copied(t, p, u, q) ==
    /\ \A x \in below(t, p) \cup {p} :
           LET y == q \o SubSeq(x, Len(p) + 1, Len(x))
           IN y \in DOMAIN u /\ same(t, x, u, y)
    /\ \A y \in below(u, q) : p \o SubSeq(y, Len(q) + 1, Len(y)) \in DOMAIN t

\* A path that neither argument of the last call leads to is left alone, also
\* by a call that throws half way.
OthersKept ==
    ~(last.op = "mkdir" /\ last.flag) =>
        \A p \in DOMAIN tree \cup DOMAIN last.before :
            ~under(last.from, p) /\ ~under(last.to, p) =>
                p \in DOMAIN tree /\ p \in DOMAIN last.before /\ tree[p] = last.before[p]

\* Delete(p, TRUE) that returns has removed the whole tree; Copy() that
\* returns has made an equal one and kept the original; Move() to another
\* place loses nothing of what it moves, whether it returns or throws.
TreesRight ==
    /\ last.op = "delete" /\ ~last.err =>
           last.from \notin DOMAIN tree /\ below(tree, last.from) = {}
    /\ last.op = "copy" /\ ~last.err /\ ~under(last.from, last.to) /\ ~under(last.to, last.from) =>
           /\ copied(last.before, last.from, tree, last.to)
           /\ copied(last.before, last.from, tree, last.from)
    /\ last.op = "move" /\ last.from \in DOMAIN last.before
       /\ ~under(last.from, last.to) /\ ~under(last.to, last.from) =>
           copied(last.before, last.from, tree, IF last.err THEN last.from ELSE last.to)

(* Both hold of a tree without symbolic links; a call that meets one may   *)
(* reach, and delete, what the link leads to (FS.cpp:631).                 *)
FileSystemRight ==
    last.op # "none" /\ (\A p \in DOMAIN last.before : last.before[p].kind # "link")
        => OthersKept /\ TreesRight
=============================================================================
