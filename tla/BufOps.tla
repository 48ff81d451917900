------------------------------- MODULE BufOps -------------------------------
(***************************************************************************)
(* spe_buf.c and spe_buf.h: the operations of spe_buf_t as functions of    *)
(* the buffer and the arguments.                                           *)
(*                                                                         *)
(* A buffer is the memory at _start (its length is _size, none is NULL),   *)
(* the offset of data in it and len.  Every write goes through Put, which  *)
(* notes in `bad' the first that falls outside the memory.  unsigned is    *)
(* counted modulo W.  Bytes before data and behind the terminator are not  *)
(* kept from one call to the next (Tidy): what reads one gets Junk.        *)
(*                                                                         *)
(* What may fail for lack of memory is a set of outcomes.                  *)
(***************************************************************************)
EXTENDS Bytes

CONSTANTS
  Junk,  \* content of memory nobody has written
  W      \* 2^32

Fresh == [mem |-> <<>>, off |-> 0, len |-> 0, bad |-> "no", over |-> FALSE]

Size(b) == Len(b.mem)
Text(b) == [i \in 1..b.len |-> IF b.off + i <= Size(b) THEN b.mem[b.off + i] ELSE Junk]

Put(b, at, s) ==
  IF at + Len(s) > Size(b)
  THEN [b EXCEPT !.bad = IF @ # "no" THEN @ ELSE IF b.mem = <<>> THEN "null" ELSE "bounds"]
  ELSE [b EXCEPT !.mem = [i \in 1..Size(b) |->
                            IF i \in at + 1..at + Len(s) THEN s[i - at] ELSE @[i]]]

Terminated(b) == Put(b, b.off + b.len, <<NUL>>)
AtFront(b)    == Terminated([Put(b, 0, Text(b)) EXCEPT !.off = 0])

Tidy(b) == [b EXCEPT !.mem = [i \in 1..Size(b) |->
                                IF i \in b.off + 1..b.off + b.len + 1 THEN @[i] ELSE Junk]]

\* The size asked of realloc.
NewSize(n) == ((25 * n) % W) \div 16

\* buf_expand.  realloc of 0 bytes gives the memory up.
Expanded(b, n) ==
  LET moved == IF b.off # 0 THEN AtFront(b) ELSE b
      grown == [moved EXCEPT !.mem = [i \in 1..NewSize(n) |->
                                        IF i <= Size(b) THEN moved.mem[i] ELSE Junk],
                             !.off = 0, !.over = @ \/ 25 * n >= W,
                             !.bad = IF NewSize(n) = 0 /\ b.mem # <<>> THEN "bounds" ELSE @]
  IN {[buf |-> moved, done |-> FALSE], [buf |-> grown, done |-> TRUE]}

\* The room is made if it is not there.
WithRoom(b, there, n) ==
  IF there THEN {[buf |-> b, done |-> TRUE]} ELSE Expanded(b, n)

\* spe_buf_append.  A slip forgets that the text may start late in the memory.
FitsBehindFree(b, n) == Size(b) - b.len >= n + 1
FitsBehind(b, n) == Size(b) - b.len - b.off >= n + 1

Appended(b, s) ==
  { IF ~r.done THEN r
    ELSE LET at == IF FitsBehind(r.buf, Len(s)) THEN r.buf ELSE AtFront(r.buf)
         IN [buf |-> Terminated([Put(at, at.off + at.len, s) EXCEPT !.len = @ + Len(s)]),
             done |-> TRUE]
    : r \in WithRoom(b, Size(b) - b.len >= Len(s) + 1, Size(b) + Len(s) + 1) }

\* spe_buf_copy
Copied(b, s) ==
  { IF ~r.done THEN r
    ELSE [buf |-> Terminated([Put(r.buf, 0, s) EXCEPT !.off = 0, !.len = Len(s)]),
          done |-> TRUE]
    : r \in WithRoom(b, Size(b) >= Len(s) + 1, Len(s) + 1) }

\* spe_buf_lconsume and spe_buf_rconsume
LConsumed(b, n) ==
  LET k == Min({n, b.len})
  IN Terminated([b EXCEPT !.off = @ + k, !.len = @ - k])
RConsumed(b, n) == Terminated([b EXCEPT !.len = @ - Min({n, @})])

\* spe_buf_search
Searched(b, key) ==
  IF b.len = 0 THEN -1
  ELSE Find(From(b.mem, b.off), key)

\* strchr finds the terminating 0 of the token as well.
Trims(token) == Range(token) \cup {NUL}

\* spe_buf_lstrim, spe_buf_rstrim, spe_buf_strim
LTrimmed(b, token) ==
  LET stay == {i \in 1..b.len : Text(b)[i] \notin Trims(token)}
      pos  == IF stay = {} THEN b.len ELSE Min(stay) - 1
  IN IF pos > 0 THEN LConsumed(b, pos) ELSE b
RTrimmed(b, token) ==
  LET stay == {i \in 1..b.len : Text(b)[i] \notin Trims(token)}
  IN Terminated([b EXCEPT !.len = IF stay = {} THEN 0 ELSE Max(stay)])
Trimmed(b, token) == RTrimmed(LTrimmed(b, token), token)

\* spe_buf_to_lower and spe_buf_to_upper; Case is a map of bytes.
Recased(b, Case(_)) == Put(b, b.off, [i \in 1..b.len |-> Case(Text(b)[i])])

\* spe_buf_clean
Cleaned(b) ==
  LET e == [b EXCEPT !.off = 0, !.len = 0] IN IF b.mem = <<>> THEN e ELSE Terminated(e)

\* spe_buf_read_fd_copy and spe_buf_read_fd_append: the memory the bytes read
\* go to, which is then filled with s, at most Room of them.  A slip takes no
\* bytes for the new text.
ReadyToCopy(b, n) == WithRoom(b, Size(b) >= n + 1, n + 1)
ReadCopiedAlways(b, s) == Terminated([Put(b, 0, s) EXCEPT !.off = 0, !.len = Len(s)])
ReadCopied(b, s) ==
  IF s = <<>> THEN b
  ELSE Terminated([Put(b, 0, s) EXCEPT !.off = 0, !.len = Len(s)])

ReadyToAppend(b, n) ==
  { IF r.done /\ r.buf.off # 0 THEN [r EXCEPT !.buf = AtFront(@)] ELSE r
    : r \in WithRoom(b, Size(b) - b.len >= n + 1, Size(b) + n + 1) }
ReadAppended(b, s) ==
  IF s = <<>> THEN b
  ELSE Terminated([Put(b, b.off + b.len, s) EXCEPT !.len = @ + Len(s)])
Room(b, used) == Size(b) - used - 1

\* spe_buf_split: the pieces between the tokens, without the empty ones.
Split(b, token) ==
  LET from[i \in 0..b.len] ==
        LET rest == From(Text(b), i)
            at   == Find(rest, token)
            piece(k) == IF k = 0 THEN <<>> ELSE <<First(rest, k)>>
        IN IF i = b.len THEN <<>>
           ELSE IF at = -1 THEN piece(Len(rest))
           ELSE piece(at) \o from[i + at + Len(token)]
  IN from[0]
=============================================================================
