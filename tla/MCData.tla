-------------------------------- MODULE MCData --------------------------------
(***************************************************************************)
(* Values for the data structures, and besides those of Buffers, Data and  *)
(* Lists the remote procedure calls and the red-black tree.                *)
(***************************************************************************)
EXTENDS Buffers, Data, Lists, Integers, Sequences

VARIABLES rpc, tree

\* Byte buffers.
BufBytes == {NUL, "a", "A"}
LowerOf(c) == IF c = "A" THEN "a" ELSE c
UpperOf(c) == IF c = "a" THEN "A" ELSE c
BufKeys == {<<"a">>, <<"a", "A">>}

\* The reader of files.
FileBytes  == {NUL, "x", "nl"}
ShortFiles == UNION {[1..n -> {"x", "nl"}] : n \in 0..3} \cup {<<NUL, "nl">>, <<"x", NUL, "nl">>}
OneOrTwo   == {<<"nl">>, <<"x", "nl">>}
SomeWrites == {<<"x">>, <<"nl", "x">>}

\* Configuration files: names and values keep two characters; a is the name of
\* the number of processes, g of the first section.
Line(b, m)   == [bytes |-> b, means |-> m]
Section(n)   == [kind |-> "section", name |-> n]
Entry(k, v)  == [kind |-> "entry", key |-> k, val |-> v]
Nothing      == [kind |-> "nothing"]
Wrong        == [kind |-> "wrong"]
a  == <<"a">>
ab == <<"a", "b">>
abc == <<"a", "b", "c">>
TwelveLines == {
  Line(<<" ", "\r">>, Nothing), Line(<<"#", "a", "=", "1">>, Nothing),
  Line(<<"a", "=", "1">>, Entry(a, <<"1">>)),
  Line(<<" ", "a", " ", "=", " ", "b", "\r">>, Entry(a, <<"b">>)),
  Line(<<"a", "b", "c", "=", "1">>, Entry(abc, <<"1">>)),
  Line(<<"a", "b", "=", "b", "1", "1">>, Entry(ab, <<"b", "1", "1">>)),
  Line(<<"[", "a", "]">>, Section(a)), Line(<<"[", " ", "g", "]", "\t">>, Section(<<"g">>)),
  Line(<<"[", "a", "b", "c", "]">>, Section(abc)),
  Line(<<"[", " ", "]">>, Wrong), Line(<<"a", "=", "b", "=", "1">>, Wrong),
  Line(<<"a", "=">>, Wrong)}
FourNames  == {a, ab, abc, <<"g">>}
FirstGlobal == <<"g">>
NameOfSetting(s) ==
  CASE s = "procs" -> a [] s = "daemon" -> ab [] s = "maxfd" -> <<"m">> [] s = "pidfile" -> <<"b">>
NumberOf(v) == IF v = <<"1">> THEN 1 ELSE 0

\* The map: keys keep two characters; abc hashes like ab, abd does not.
FourKeys == {a, ab, abc, <<"a", "b", "d">>}
HashOf(n) == IF n \in {a, <<"a", "b", "d">>} THEN 0 ELSE 1

\* Requests: c is a command, d is not.
CRLF  == <<"\r", "\n">>
Count(mark, n) == <<mark, n>> \o CRLF
c == <<"c">>
Requests == {<<c>>, <<<<"d">>, <<"x">>>>, <<c, <<>>>>, <<c, CRLF>>,
             <<c, <<"x", "\r", "\n", "\r", "x">>>>, <<CRLF \o c>>}
Wrongs == {<<>>, c \o CRLF, <<"*">> \o CRLF, Count("*", "0"), Count("*", "1") \o Count("*", "1"),
           Count("*", "1") \o <<"$", "-", "1">> \o CRLF,
           Count("*", "1") \o Count("$", "0") \o <<"x">> \o CRLF,
           Count("*", "1") \o Count("$", "3") \o <<"x", "x">> \o CRLF \o CRLF}
Streams == [means : UNION {[1..n -> Requests] : n \in 0..2}, wrong : {<<>>}]
             \cup [means : {<<<<c>>>>}, wrong : Wrongs]
R == INSTANCE Rpc WITH Commands <- {c}

\* The tree: eight timers, two of them due at the same time.
KeyOf(n) == IF n > 3 THEN n - 1 ELSE n
T == INSTANCE Rbtree WITH Nodes <- 1..8, Key <- KeyOf, NULL <- 0
----------------------------------------------------------------------------
Init ==
  /\ part \in {"buf", "io", "opt", "map", "rpc", "tree", "list", "hlist"}
  /\ B!Init /\ DataInit /\ ListsInit /\ T!Init
  /\ IF part = "rpc" THEN R!Init ELSE rpc = R!Start([means |-> <<>>, wrong |-> <<>>])

Next ==
  \/ BuffersNext /\ UNCHANGED <<datavars, listvars, rpc, tree>>
  \/ DataNext /\ UNCHANGED <<buf, last, listvars, rpc, tree>>
  \/ ListsNext /\ UNCHANGED <<buf, last, datavars, rpc, tree>>
  \/ part = "rpc"  /\ R!Next /\ UNCHANGED <<part, buf, last, datavars, listvars, tree>>
  \/ part = "tree" /\ T!Next /\ UNCHANGED <<part, buf, last, datavars, listvars, rpc>>

Spec == Init /\ [][Next]_<<part, buf, last, datavars, listvars, rpc, tree>>
----------------------------------------------------------------------------
\* The requests are those of the client, however they come in (spe_rpc.c).
RequestsFollow == [](part = "rpc" => R!RequestsAsMeant) /\ R!Patient
\* The tree is balanced and sorted (spe_rbtree.c).
TreeIsSorted ==
  [](part = "tree" => T!Balanced) /\ T!Queue!Init /\ [][part = "tree" /\ T!Queue!Next]_(T!InOrder(tree, tree.root))
=============================================================================
