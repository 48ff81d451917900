----------------------------- MODULE ByteString -----------------------------
(***************************************************************************)
(* What a spe_buf_t stands for: a string of bytes.  Every call changes the *)
(* string as its name says and gives its answer, or, where memory may run  *)
(* out, leaves it as it was and says so.                                   *)
(***************************************************************************)
EXTENDS Integers, Sequences, SequencesExt, FiniteSetsExt

CONSTANTS
  Bytes,
  Strings,   \* arguments of the calls
  Counts,    \* numbers of bytes to consume
  NUL,       \* the byte 0
  Lower(_), Upper(_)

VARIABLES
  text,   \* the string
  last    \* the last call: its name, its argument and its answer

vars == <<text, last>>

Call(name, arg, answer) == last' = <<name, arg, answer>>

Init == text = <<>> /\ last = <<"create", 0, 0>>

Add(s)    == Call("append", s, TRUE) /\ text' = text \o s
Copy(s)   == Call("copy", s, TRUE) /\ text' = s
Refuse(name, s, answer) == Call(name, s, answer) /\ UNCHANGED text

LConsume(n) ==
  /\ Call("lconsume", n, 0)
  /\ text' = SubSeq(text, n + 1, Len(text))
RConsume(n) ==
  /\ Call("rconsume", n, 0)
  /\ text' = SubSeq(text, 1, Len(text) - n)

\* The first place where key begins, before any 0.
Search(key) ==
  LET before == {i \in 0..Len(text) - Len(key) :
                   /\ SubSeq(text, i + 1, i + Len(key)) = key
                   /\ \A j \in 1..i + Len(key) : text[j] # NUL}
  IN /\ UNCHANGED text
     /\ Call("search", key, IF text = <<>> \/ before = {} THEN -1 ELSE Min(before))

\* The longest string left that neither begins nor ends with a byte of the token or a 0.
Trim(token) ==
  LET stays == {i \in DOMAIN text : text[i] \notin Range(token) \cup {NUL}}
  IN /\ Call("strim", token, 0)
     /\ text' = IF stays = {} THEN <<>> ELSE SubSeq(text, Min(stays), Max(stays))

\* What stands between two tokens of one byte, or before or behind all of
\* them, and is not empty; a token behind a 0 is not one.
Cuts(c) == {i \in 1..Len(text) : text[i] = c /\ \A j \in 1..i : text[j] # NUL}
Runs(c) ==
  {r \in (1..Len(text)) \X (1..Len(text)) :
     /\ r[1] <= r[2] /\ \A i \in Cuts(c) : ~(r[1] <= i /\ i <= r[2])
     /\ r[1] = 1 \/ r[1] - 1 \in Cuts(c)
     /\ r[2] = Len(text) \/ r[2] + 1 \in Cuts(c)}
Split(c) ==
  /\ UNCHANGED text
  /\ \E n \in 0..Len(text) : \E r \in [1..n -> Runs(c)] :
       /\ \A k \in 1..n : \A m \in 1..n : k < m => r[k][1] < r[m][1]
       /\ \A run \in Runs(c) : \E k \in 1..n : r[k] = run
       /\ Call("split", c, [k \in 1..n |-> SubSeq(text, r[k][1], r[k][2])])

ToLower == Call("to_lower", 0, 0) /\ text' = [i \in DOMAIN text |-> Lower(text[i])]
ToUpper == Call("to_upper", 0, 0) /\ text' = [i \in DOMAIN text |-> Upper(text[i])]
Clean   == Call("clean", 0, 0) /\ text' = <<>>

\* Bytes read from a descriptor come at the end or in place of the text; if
\* there are none, the text stays.
ReadAppend(s) == Call("read_fd_append", s, Len(s)) /\ text' = text \o s
ReadCopy(s) ==
  /\ Call("read_fd_copy", s, Len(s))
  /\ text' = IF s = <<>> THEN text ELSE s

Next ==
  \/ \E s \in Strings :
       \/ Add(s) \/ Copy(s) \/ Search(s) \/ Trim(s) \/ ReadAppend(s) \/ ReadCopy(s)
       \/ Refuse("append", s, FALSE) \/ Refuse("copy", s, FALSE)
       \/ Refuse("read_fd_append", s, -2) \/ Refuse("read_fd_copy", s, -2)
  \/ \E n \in Counts : LConsume(n) \/ RConsume(n)
  \/ \E c \in Bytes : Split(c)
  \/ ToLower \/ ToUpper \/ Clean

Spec == Init /\ [][Next]_vars
=============================================================================
