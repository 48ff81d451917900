--------------------------------- MODULE Buf ---------------------------------
(***************************************************************************)
(* A spe_buf_t under any sequence of calls, shown to be the ByteString it  *)
(* stands for.                                                             *)
(*                                                                         *)
(* A call that writes outside the memory, or with a size that 25 * n / 16  *)
(* did not hold, ends the model: the buffer only keeps the note of it.     *)
(***************************************************************************)
EXTENDS BufOps

CONSTANTS
  Bytes,      \* the bytes told apart, NUL among them
  Keys,       \* what is searched for, and trimmed
  MaxText,    \* bound: length of the text
  MaxArg,     \* bound: length of an argument
  ReadLen,    \* the bytes a read asks for
  Lower(_), Upper(_)

\* Case is a map of bytes; a token has at least one.
BufAssumption ==
  /\ W \in Nat \ {0} /\ MaxText \in Nat /\ MaxArg \in Nat /\ ReadLen \in Nat
  /\ NUL \in Bytes /\ Keys \subseteq Seq(Bytes) \ {<<>>}
  /\ \A c \in Bytes : Lower(c) \in Bytes /\ Upper(c) \in Bytes

Strings == UNION {[1..n -> Bytes] : n \in 0..MaxArg}
Counts  == 0..MaxArg

VARIABLES buf, last
vars == <<buf, last>>

Init == buf = Fresh /\ last = <<"create", 0, 0>>

\* The call leaves the buffer as b, if nothing went wrong in it.
Leaves(b, name, arg, answer) ==
  IF b.bad = "no" /\ ~b.over
  THEN buf' = Tidy(b) /\ last' = <<name, arg, answer>>
  ELSE buf' = [buf EXCEPT !.bad = IF b.bad = "no" THEN "size" ELSE b.bad,
                          !.over = b.over] /\ UNCHANGED last

Sound == buf.bad = "no"

spe_buf_append(s) ==
  /\ Sound /\ buf.len + Len(s) <= MaxText
  /\ \E r \in Appended(buf, s) : Leaves(r.buf, "append", s, r.done)

spe_buf_copy(s) ==
  /\ Sound
  /\ \E r \in Copied(buf, s) : Leaves(r.buf, "copy", s, r.done)

spe_buf_lconsume(n) == Sound /\ Leaves(LConsumed(buf, n), "lconsume", n, 0)
spe_buf_rconsume(n) == Sound /\ Leaves(RConsumed(buf, n), "rconsume", n, 0)
spe_buf_search(key) == Sound /\ Leaves(buf, "search", key, Searched(buf, key))
spe_buf_strim(token) == Sound /\ Leaves(Trimmed(buf, token), "strim", token, 0)
\* With a token of one byte, as everywhere in the program.
spe_buf_split(c) == Sound /\ Leaves(buf, "split", c, Split(buf, <<c>>))
spe_buf_to_lower == Sound /\ Leaves(Recased(buf, Lower), "to_lower", 0, 0)
spe_buf_to_upper == Sound /\ Leaves(Recased(buf, Upper), "to_upper", 0, 0)
spe_buf_clean == Sound /\ Leaves(Cleaned(buf), "clean", 0, 0)

\* read brings as much as there is and fits, which may be more than ReadLen.
\* Out of memory is the answer SPE_BUF_ERROR, -2; a read that fails is
\* one that brings nothing.
spe_buf_read_fd_append(s) ==
  /\ Sound /\ buf.len + Len(s) <= MaxText
  /\ \E r \in ReadyToAppend(buf, ReadLen) :
       \/ /\ r.done /\ Len(s) <= Room(r.buf, r.buf.len)
          /\ Leaves(ReadAppended(r.buf, s), "read_fd_append", s, Len(s))
       \/ ~r.done /\ Leaves(r.buf, "read_fd_append", s, -2)

spe_buf_read_fd_copy(s) ==
  /\ Sound
  /\ \E r \in ReadyToCopy(buf, ReadLen) :
       \/ /\ r.done /\ Len(s) <= Room(r.buf, 0)
          /\ Leaves(ReadCopied(r.buf, s), "read_fd_copy", s, Len(s))
       \/ ~r.done /\ Leaves(r.buf, "read_fd_copy", s, -2)

Next ==
  \/ \E s \in Strings :
       \/ spe_buf_append(s) \/ spe_buf_copy(s)
       \/ spe_buf_read_fd_append(s) \/ spe_buf_read_fd_copy(s)
  \/ \E k \in Keys : spe_buf_search(k) \/ spe_buf_strim(k)
  \/ \E n \in Counts : spe_buf_lconsume(n) \/ spe_buf_rconsume(n)
  \/ \E c \in Bytes \ {NUL} : spe_buf_split(c)
  \/ spe_buf_to_lower \/ spe_buf_to_upper \/ spe_buf_clean

Spec == Init /\ [][Next]_vars
----------------------------------------------------------------------------
\* A write goes outside the memory only after a size has been asked for that
\* 25 * n / 16 does not hold in an unsigned, and through a null pointer only
\* before anything was ever put into the buffer (spe_buf.c:12, 30-40, 73, 86).
\* A text that is not empty is terminated; memory a read got and did not fill is not.
InBounds ==
  /\ buf.bad = "bounds" => buf.over
  /\ buf.bad = "null" => buf.mem = <<>>
  /\ Sound => \/ buf.off + buf.len < Size(buf)
              \/ buf.mem = <<>> /\ buf.off = 0 /\ buf.len = 0
  /\ Sound /\ buf.len > 0 => buf.mem[buf.off + buf.len + 1] = NUL

\* Whatever the memory looks like, the buffer is the string of bytes the calls
\* make of it, and their answers are those of the string.
String == INSTANCE ByteString WITH text <- Text(buf), Strings <- Strings \cup Keys
IsByteString == String!Spec
=============================================================================
