---------------------------------- MODULE Io ----------------------------------
(***************************************************************************)
(* spe_io.c: reading and writing a file with calls that wait.              *)
(*                                                                         *)
(* A read is answered from the read buffer as soon as that holds what was  *)
(* asked for; until then read(2) brings more, in pieces of any size.  At   *)
(* the end of the file, or when read(2) or the buffer fails, the user is   *)
(* given what there is.  Buffers are the strings of bytes they stand for   *)
(* (Buf); interrupted system calls are repeated and leave no trace.        *)
(*                                                                         *)
(* spe_io_create opens a file for reading and writing with one offset for  *)
(* both: a write lands behind all that was read ahead, over bytes that     *)
(* will never be read.  What spe_io_create_fd is given may be a stream,    *)
(* whose two directions have nothing to do with each other.                *)
(***************************************************************************)
EXTENDS Bytes

CONSTANTS
  Bytes,
  Files,      \* contents a file may have
  Delims,     \* delimiters asked for
  MaxBytes,   \* bound: bytes asked for at once
  MaxBuf,     \* BUF_LEN, the most read(2) brings
  Writes,     \* strings written
  MaxLost,    \* bound: appends to the user's buffer that fail
  MaxFile     \* bound: where the offset gets to by writing

\* Files and arguments are strings of bytes; a delimiter has at least one.
IoAssumption ==
  /\ Files \subseteq Seq(Bytes) /\ Writes \subseteq Seq(Bytes)
  /\ Delims \subseteq Seq(Bytes) \ {<<>>}
  /\ MaxBytes \in Nat /\ MaxBuf \in Nat /\ MaxLost \in Nat /\ MaxFile \in Nat

VARIABLE io
\* file: history, the content when it was opened     disk: the content now
\* offset: of the descriptor     stream: is it none of a file?
\* places: history, where the bytes that were read stood; own: where it wrote
\* rbuf, rtype, arg, closed, error: of the spe_io_t, arg being _rbytes or _delim
\* given: history, all bytes the user was given   lost: appends that failed
\* last: the call that has just returned, its argument, what it gave and what it returned
\* wfail: history, a write has failed

None     == [call |-> "none", arg |-> 0, piece |-> <<>>, res |-> 0]
Wrote(n) == [call |-> "write", arg |-> 0, piece |-> <<>>, res |-> n]

\* spe_io_create, and spe_io_create_fd with a stream that brings f.
Start(f, stream) ==
  [file |-> f, disk |-> f, offset |-> 0, stream |-> stream, places |-> <<>>, own |-> {},
   rbuf |-> <<>>, rtype |-> "none", arg |-> 0, closed |-> FALSE, error |-> FALSE,
   given |-> <<>>, lost |-> 0, last |-> None, wfail |-> FALSE]
Init == \E f \in Files, stream \in BOOLEAN : io = Start(f, stream)

Ended == io.closed \/ io.error

\* spe_io_read, spe_io_readbytes and spe_io_readuntil.
Begin(call, arg) ==
  /\ io.rtype = "none"
  /\ io' = IF Ended
           THEN [io EXCEPT !.last = [call |-> call, arg |-> arg, piece |-> <<>>,
                                     res |-> IF io.closed THEN 0 ELSE -1]]
           ELSE [io EXCEPT !.rtype = call, !.arg = arg, !.last = None]

\* How many bytes of the buffer answer the read, -1 if they do not.  Slips: all
\* the buffer is given; the delimiter is not counted.
AnswersAll(rbuf, rtype, arg) ==
  CASE rtype = "read"      -> IF rbuf = <<>> THEN -1 ELSE Len(rbuf)
    [] rtype = "readbytes" -> IF arg > Len(rbuf) THEN -1 ELSE Len(rbuf)
    [] rtype = "readuntil" -> IF Find(rbuf, arg) = -1 THEN -1 ELSE Len(rbuf)
Answers(rbuf, rtype, arg) ==
  CASE rtype = "read"      -> IF rbuf = <<>> THEN -1 ELSE Len(rbuf)
    [] rtype = "readbytes" -> IF arg > Len(rbuf) THEN -1 ELSE arg
    [] rtype = "readuntil" -> IF rbuf = <<>> \/ Find(rbuf, arg) = -1 THEN -1
                              ELSE Find(rbuf, arg) + Len(arg)

\* The user gets n bytes and is told res.  Nobody looks whether spe_buf_append
\* found the memory for them.
Give(n, res) ==
  LET told(piece) == [call |-> io.rtype, arg |-> io.arg, piece |-> piece, res |-> res]
      served == [io EXCEPT !.rbuf = From(@, n), !.rtype = "none", !.arg = 0]
  IN \/ io' = [served EXCEPT !.last = told(First(io.rbuf, n)),
                             !.given = @ \o First(io.rbuf, n),
                             !.closed = @ \/ res = 0, !.error = @ \/ res < 0]
     \/ /\ io.lost < MaxLost
        /\ io' = [served EXCEPT !.last = told(<<>>), !.lost = @ + 1,
                                !.closed = @ \/ res = 0, !.error = @ \/ res < 0]

Served  == Answers(io.rbuf, io.rtype, io.arg)
Answer  == io.rtype # "none" /\ Served > -1 /\ Give(Served, Served)
Waiting == io.rtype # "none" /\ Served = -1

Unread == Len(io.disk) - io.offset

\* The places of the next n bytes.
Ahead(n) == [i \in 1..n |-> io.offset + i]

ReadSome ==
  /\ Waiting
  /\ \E n \in 1..Min({MaxBuf, Unread}) :
       io' = [io EXCEPT !.rbuf = @ \o SubSeq(io.disk, io.offset + 1, io.offset + n),
                        !.places = @ \o Ahead(n), !.offset = @ + n]

ReadEnd == Waiting /\ Unread = 0 /\ Give(Len(io.rbuf), 0)

\* read(2) fails, or the buffer cannot grow before it (SPE_BUF_ERROR).
ReadFails == Waiting /\ \E res \in {-1, -2} : Give(Len(io.rbuf), res)

\* The content of the file after w was written at the offset.
Overwritten(w) ==
  [i \in 1..Max({Len(io.disk), io.offset + Len(w)}) |->
     IF i \in io.offset + 1..io.offset + Len(w) THEN w[i - io.offset] ELSE io.disk[i]]

\* spe_io_write: it goes on until all is written or write(2) fails.
spe_io_write(s) ==
  /\ io.rtype = "none"
  /\ \E n \in 0..Len(s) :
       LET said == [io EXCEPT !.error = n < Len(s), !.wfail = n < Len(s), !.last = Wrote(n)]
       IN \/ Ended /\ n = 0 /\ io' = [io EXCEPT !.last = Wrote(-1)]
          \/ ~Ended /\ io.stream /\ io' = said
          \/ ~Ended /\ ~io.stream /\ io.offset + n <= MaxFile
             /\ io' = [said EXCEPT !.disk = Overwritten(First(s, n)), !.offset = @ + n,
                                   !.own = @ \cup (io.offset + 1..io.offset + n)]

Next ==
  \/ Begin("read", 0)
  \/ \E n \in 1..MaxBytes : Begin("readbytes", n)
  \/ \E d \in Delims : Begin("readuntil", d)
  \/ Answer \/ ReadSome \/ ReadEnd \/ ReadFails
  \/ \E s \in Writes : spe_io_write(s)

Spec == Init /\ [][Next]_io
----------------------------------------------------------------------------
\* No byte is lost, doubled or moved on its way through the read buffer, unless
\* the user's buffer had no memory for it, though writes move the offset between
\* reads: what comes is the file as it was opened, in order and up to the
\* offset, but for the bytes written over before they were read
\* (spe_io.c:26-48, 62, 118-131, 145).
Conserved ==
  /\ io.lost = 0 => io.given \o io.rbuf = [i \in 1..Len(io.places) |-> io.file[io.places[i]]]
  /\ \A i, j \in DOMAIN io.places : i < j => io.places[i] < io.places[j]
  /\ ToSet(io.places) = (1..io.offset) \ io.own

\* Writes change nothing else: the rest of the file is as it was.
Untouched ==
  /\ Len(io.file) <= Len(io.disk)
  /\ \A i \in (1..Len(io.disk)) \ io.own : i <= Len(io.file) /\ io.disk[i] = io.file[i]

\* A read gives what was asked for or the file is at its end, or has failed,
\* and all that was read is given, but for what a failed write has left behind.
Asked(l) ==
  /\ l.call = "read"      => l.piece # <<>> /\ l.res = Len(l.piece)
  /\ l.call = "readbytes" => Len(l.piece) = l.arg /\ l.res = l.arg
  /\ l.call = "readuntil" => /\ Find(l.piece, l.arg) + Len(l.arg) = Len(l.piece)
                             /\ Find(l.piece, l.arg) >= 0 /\ l.res = Len(l.piece)
TooLittle(l) ==
  /\ l.call = "read"      => l.piece = <<>>
  /\ l.call = "readbytes" => Len(l.piece) < l.arg
  /\ l.call = "readuntil" => Find(l.piece, l.arg) = -1
ReadKept ==
  LET l == io.last IN
  l.call \in {"read", "readbytes", "readuntil"} /\ io.lost = 0 =>
    \/ l.res > 0 /\ Asked(l)
    \/ l.res = 0 /\ io.closed /\ TooLittle(l) /\ io.rbuf = <<>> /\ Unread = 0
    \/ l.res \in {-1, -2} /\ io.error /\ TooLittle(l) /\ (io.rbuf = <<>> \/ io.wfail)

ReadsKeepTheirWord == Conserved /\ Untouched /\ ReadKept
=============================================================================
