----------------------------- MODULE DataProofs -----------------------------
(***************************************************************************)
(* Theorems about the data structures, each for every value of its         *)
(* constants: what the file reader promises of its calls, that the hash    *)
(* map is a table, and that an option file gives the options it means.     *)
(*                                                                         *)
(* Each part has an inductive invariant that says how the representation   *)
(* holds the abstract value (IoInv, MapInv, OptInv), lemmas about the      *)
(* helpers of the code, and one lemma per operation: it keeps the          *)
(* invariant and is the step of the abstract specification.                *)
(***************************************************************************)
EXTENDS Data, QueueLemmas, FiniteSetTheorems

----------------------------------------------------------------------------
(* The file reader (spe_io.c).                                             *)

\* The C string in s: all before the first 0.
LEMMA UpToNULPrefix ==
  ASSUME NEW S, NEW s \in Seq(S)
  PROVE  \E m \in 0..Len(s) :
           /\ I!UpToNUL(s) = SubSeq(s, 1, m)
           /\ \A i \in 1..m : s[i] # NUL
           /\ m = Len(s) \/ s[m + 1] = NUL
<1> DEFINE nuls == {i \in 1..Len(s) : s[i] = NUL}
           at   == IF nuls # {} THEN I!Min(nuls) ELSE 0
<1>1. Len(s) \in Nat
  BY LenProperties
<1>2. I!UpToNUL(s) = IF at = 0 THEN s ELSE SubSeq(s, 1, at - 1)
  BY DEF I!UpToNUL, I!SelectInSeq
<1>3. CASE nuls = {}
  <2>1. at = 0 /\ SubSeq(s, 1, Len(s)) = s
    BY <1>3, SubSeqFull
  <2>2. \A i \in 1..Len(s) : s[i] # NUL
    BY <1>3
  <2>3. Len(s) \in 0..Len(s)
    BY <1>1
  <2> HIDE DEF at
  <2> QED BY <1>2, <2>1, <2>2, <2>3
<1>4. CASE nuls # {}
  <2>1. at \in nuls /\ \A i \in nuls : at <= i
    <3>1. nuls \subseteq Nat
      BY <1>1
    <3> HIDE DEF nuls
    <3>2. \E n \in nuls : \A m \in nuls : n <= m
      BY <1>4, <3>1, LeastNatural
    <3> QED BY <1>4, <3>2 DEF I!Min
  <2> HIDE DEF at
  <2>2. at \in 1..Len(s) /\ s[at] = NUL /\ \A i \in 1..at - 1 : s[i] # NUL
    BY <1>1, <2>1
  <2>3. at - 1 \in 0..Len(s) /\ at # 0 /\ (at - 1) + 1 = at
    BY <1>1, <2>2
  <2> QED BY <1>2, <2>2, <2>3
<1> QED BY <1>3, <1>4

\* Where a key stands in a string, counted in the bytes before it.
Occurrences(c, k) == {i \in 0..Len(c) - Len(k) : SubSeq(c, i + 1, i + Len(k)) = k}

\* spe_buf_search: strstr finds the first occurrence in the C string.
LEMMA FindIsFirst ==
  ASSUME NEW S, NEW s \in Seq(S), NEW k \in Seq(S), NEW m \in 0..Len(s),
         I!UpToNUL(s) = SubSeq(s, 1, m)
  PROVE  \/ Occurrences(SubSeq(s, 1, m), k) = {} /\ I!Find(s, k) = -1
         \/ /\ I!Find(s, k) \in Occurrences(SubSeq(s, 1, m), k)
            /\ \A i \in Occurrences(SubSeq(s, 1, m), k) : I!Find(s, k) <= i
<1> DEFINE c  == SubSeq(s, 1, m)
           at == Occurrences(c, k)
<1>1. I!Find(s, k) = IF at = {} THEN -1 ELSE I!Min(at)
  BY DEF I!Find, Occurrences
<1>2. at \subseteq Nat
  BY DEF Occurrences
<1> HIDE DEF at
<1>3. CASE at # {}
  <2>1. \E n \in at : \A i \in at : n <= i
    BY <1>2, <1>3, LeastNatural
  <2>2. I!Min(at) \in at /\ \A i \in at : I!Min(at) <= i
    BY <2>1 DEF I!Min
  <2> QED BY <1>1, <1>3, <2>2 DEF at
<1> QED BY <1>1, <1>3 DEF at

\* A string without the byte 0 is its own C string.
LEMMA UpToNULWhole ==
  ASSUME NEW S, NEW s \in Seq(S), \A i \in 1..Len(s) : s[i] # NUL
  PROVE  I!UpToNUL(s) = SubSeq(s, 1, Len(s)) /\ Len(s) \in 0..Len(s)
<1>1. Len(s) \in Nat
  BY LenProperties
<1>2. PICK m \in 0..Len(s) : I!UpToNUL(s) = SubSeq(s, 1, m) /\ (m = Len(s) \/ s[m + 1] = NUL)
  BY UpToNULPrefix
<1>3. m = Len(s)
  BY <1>1, <1>2
<1> QED BY <1>1, <1>2, <1>3

\* strstr finds nothing in the empty string, and what it finds in a string is
\* where it finds it in the part of the string that ends with the key.
LEMMA FindProperties ==
  ASSUME NEW S, NEW s \in Seq(S), NEW k \in Seq(S), k # <<>>
  PROVE  \/ I!Find(s, k) = -1
         \/ /\ I!Find(s, k) \in 0..Len(s) - Len(k)
            /\ I!Find(SubSeq(s, 1, I!Find(s, k) + Len(k)), k) = I!Find(s, k)
<1> DEFINE f == I!Find(s, k)
           n == f + Len(k)
           p == SubSeq(s, 1, n)
<1>1. Len(s) \in Nat /\ Len(k) \in Nat /\ Len(k) > 0
  BY LenProperties, EmptySeq
<1>2. PICK m \in 0..Len(s) : I!UpToNUL(s) = SubSeq(s, 1, m) /\ \A i \in 1..m : s[i] # NUL
  BY UpToNULPrefix
<1> DEFINE c == SubSeq(s, 1, m)
<1>3. /\ c \in Seq(S) /\ Len(c) = m /\ \A i \in 1..m : c[i] = s[i]
  BY SplitAt
<1>4. SUFFICES ASSUME f # -1 PROVE f \in 0..Len(s) - Len(k) /\ I!Find(p, k) = f
  OBVIOUS
<1>5. f \in Occurrences(c, k) /\ \A i \in Occurrences(c, k) : f <= i
  BY <1>2, <1>4, FindIsFirst
<1>6. f \in 0..m - Len(k) /\ SubSeq(c, f + 1, f + Len(k)) = k
  BY <1>3, <1>5 DEF Occurrences
<1>7. n \in 0..m /\ n \in 0..Len(s) /\ f \in 0..Len(s) - Len(k)
  BY <1>1, <1>6, SMTT(20)
<1> HIDE DEF f, n
<1>8. p \in Seq(S) /\ Len(p) = n /\ \A i \in 1..n : p[i] = s[i]
  BY <1>7, SplitAt
<1> HIDE DEF p
<1>9. I!UpToNUL(p) = SubSeq(p, 1, n) /\ n \in 0..Len(p)
  <2>1. \A i \in 1..Len(p) : p[i] # NUL
    BY <1>2, <1>7, <1>8
  <2>2. I!UpToNUL(p) = SubSeq(p, 1, Len(p)) /\ Len(p) \in 0..Len(p)
    BY <1>8, <2>1, UpToNULWhole
  <2> QED BY <1>8, <2>2
<1>10. SubSeq(p, 1, n) = p
  BY <1>8, SubSeqFull
<1>11. \A i \in 0..n - Len(k) : SubSeq(p, i + 1, i + Len(k)) = SubSeq(c, i + 1, i + Len(k))
  <2> SUFFICES ASSUME NEW i \in 0..n - Len(k)
               PROVE  SubSeq(p, i + 1, i + Len(k)) = SubSeq(c, i + 1, i + Len(k))
    OBVIOUS
  <2> DEFINE b == i + Len(k)
  <2>1. /\ i + 1 \in Int /\ b \in Int /\ i + 1 >= 1 /\ b <= n /\ b <= m
        /\ n \in Int /\ m \in Int
    BY <1>1, <1>7
  <2> HIDE DEF b
  <2>2. \A j \in i + 1..b : p[j] \in S /\ c[j] \in S /\ p[j] = c[j]
    BY <1>3, <1>7, <1>8, <2>1, ElementOfSeq
  <2>3. /\ SubSeq(p, i + 1, b) \in Seq(S)
        /\ Len(SubSeq(p, i + 1, b)) = IF i + 1 <= b THEN b - (i + 1) + 1 ELSE 0
        /\ \A j \in 1..b - (i + 1) + 1 : SubSeq(p, i + 1, b)[j] = p[(i + 1) + j - 1]
    BY <2>1, <2>2, SubSeqProperties, Z3
  <2> HIDE DEF c
  <2>4. /\ SubSeq(c, i + 1, b) \in Seq(S)
        /\ Len(SubSeq(c, i + 1, b)) = IF i + 1 <= b THEN b - (i + 1) + 1 ELSE 0
        /\ \A j \in 1..b - (i + 1) + 1 : SubSeq(c, i + 1, b)[j] = c[(i + 1) + j - 1]
    BY <2>1, <2>2, SubSeqProperties, Z3
  <2>5. \A j \in 1..b - (i + 1) + 1 : (i + 1) + j - 1 \in i + 1..b
    BY <2>1
  <2>6. SubSeq(p, i + 1, b) = SubSeq(c, i + 1, b)
    <3> DEFINE u == SubSeq(p, i + 1, b)
               v == SubSeq(c, i + 1, b)
    <3>1. u \in Seq(S) /\ v \in Seq(S) /\ Len(u) = Len(v)
      BY <2>3, <2>4
    <3>2. \A j \in 1..Len(u) : u[j] = v[j]
      BY <2>1, <2>2, <2>3, <2>4, <2>5
    <3> HIDE DEF u, v
    <3>3. u = v
      BY <3>1, <3>2, SeqEqual
    <3> QED BY <3>3 DEF u, v
  <2> QED BY <2>6 DEF b
<1> HIDE DEF c
<1>12. f \in Occurrences(p, k) /\ \A i \in Occurrences(p, k) : i \in Occurrences(c, k)
  <2>1. f \in 0..n - Len(k) /\ \A i \in 0..n - Len(k) : i \in 0..m - Len(k)
    BY <1>1, <1>6, <1>7 DEF n
  <2> QED BY <1>3, <1>6, <1>8, <1>11, <2>1 DEF Occurrences
<1>13. \/ Occurrences(p, k) = {} /\ I!Find(p, k) = -1
       \/ /\ I!Find(p, k) \in Occurrences(p, k)
          /\ \A i \in Occurrences(p, k) : I!Find(p, k) <= i
  BY <1>8, <1>9, <1>10, FindIsFirst
<1>14. I!Find(p, k) \in Int /\ f \in Int
  BY <1>6, <1>13 DEF Occurrences
<1>15. I!Find(p, k) = f
  BY <1>5, <1>12, <1>13, <1>14
<1> QED BY <1>7, <1>15

\* There is no delimiter in the empty buffer.
LEMMA FindInNothing ==
  ASSUME NEW S, NEW k \in Seq(S), k # <<>>
  PROVE  I!Find(<<>>, k) = -1
<1>1. <<>> \in Seq(S) /\ Len(<<>>) = 0 /\ Len(k) \in Nat /\ Len(k) > 0
  BY LenProperties, EmptySeq
<1>2. \/ I!Find(<<>>, k) = -1
      \/ I!Find(<<>>, k) \in 0..Len(<<>>) - Len(k)
  BY <1>1, FindProperties
<1> QED BY <1>1, <1>2
----------------------------------------------------------------------------
(* The reader of files                                                     *)

Calls == {"none", "read", "readbytes", "readuntil", "write"}
Args  == Nat \cup Seq(Octets)
IoType ==
  [file : Seq(Octets), disk : Seq(Octets), offset : Nat, stream : BOOLEAN, places : Seq(Nat),
   own : SUBSET Nat, rbuf : Seq(Octets), rtype : Calls \ {"write"}, arg : Args,
   closed : BOOLEAN, error : BOOLEAN, given : Seq(Octets), lost : Nat,
   last : [call : Calls, arg : Args, piece : Seq(Octets), res : Int], wfail : BOOLEAN]

\* A read waits only on a reader that has not ended; at the end nothing is left
\* over, and after a failure nothing but what a write that failed left there.
IoInv ==
  /\ io \in IoType
  /\ io.rtype = "readbytes" => io.arg \in Nat \ {0}
  /\ io.rtype = "readuntil" => io.arg \in Seq(Octets) \ {<<>>}
  /\ io.rtype # "none" => ~I!Ended
  /\ io.wfail => io.error
  /\ io.closed => io.rbuf = <<>> /\ I!Unread = 0
  /\ io.error => io.rbuf = <<>> \/ io.wfail
  /\ io.offset <= Len(io.disk) /\ io.own \subseteq 1..io.offset
  /\ I!Conserved
  /\ I!Untouched
  /\ I!ReadKept

\* The bytes of f at the places p.
BytesAt(f, p) == [i \in 1..Len(p) |-> f[p[i]]]

\* What a read may be told.
Told(n, res) == [call |-> io.rtype, arg |-> io.arg, piece |-> SubSeq(io.rbuf, 1, n), res |-> res]
MayTell(n, res) ==
  \/ res > 0 /\ I!Asked(Told(n, res))
  \/ res = 0 /\ I!TooLittle(Told(n, res)) /\ n = Len(io.rbuf) /\ I!Unread = 0
  \/ res \in {-1, -2} /\ I!TooLittle(Told(n, res)) /\ n = Len(io.rbuf)

\* A reader starts without a call, and with nothing read.
LEMMA InitIo == I!IoAssumption /\ I!Init => IoInv
<1> SUFFICES ASSUME I!IoAssumption, NEW f \in Files, NEW stream \in BOOLEAN, io = I!Start(f, stream)
             PROVE  IoInv
  BY DEF I!Init
<1>1. f \in Seq(Octets) /\ <<>> \in Seq(Octets) /\ Len(f) \in Nat /\ <<>> \in Seq(Nat)
  BY LenProperties DEF I!IoAssumption
<1>2. /\ io.file = f /\ io.disk = f /\ io.offset = 0 /\ io.places = <<>> /\ io.own = {} /\ io.rbuf = <<>>
      /\ io.given = <<>> /\ io.lost = 0 /\ io.rtype = "none" /\ ~io.closed /\ ~io.error /\ ~io.wfail
      /\ io.last = I!None
  BY DEF I!Start
<1>3. io \in IoType
  BY <1>1 DEF I!Start, I!None, IoType, Calls, Args
<1>4. I!Conserved
  <2>1. <<>> \o <<>> = <<>> /\ Len(<<>>) = 0 /\ 1..0 = {} /\ DOMAIN <<>> = {}
    BY <1>1, ConcatEmptySeq
  <2>2. BytesAt(f, <<>>) = <<>>
    BY <2>1 DEF BytesAt
  <2>3. I!ToSet(<<>>) = {}
    BY <2>1 DEF I!ToSet
  <2> QED BY <1>2, <2>1, <2>2, <2>3 DEF I!Conserved, BytesAt
<1>5. I!Untouched
  <2>1. \A i \in 1..Len(f) : i <= Len(f) /\ f[i] = f[i]
    BY <1>1
  <2> QED BY <1>1, <1>2, <2>1 DEF I!Untouched
<1>6. I!ReadKept
  BY <1>2 DEF I!ReadKept, I!None
<1> QED BY <1>1, <1>2, <1>3, <1>4, <1>5, <1>6 DEF IoInv, I!Ended

\* Appending pieces one after the other or together gives the same bytes.
LEMMA Assoc ==
  ASSUME NEW s \in Seq(Octets), NEW t \in Seq(Octets), NEW u \in Seq(Octets)
  PROVE  (s \o t) \o u = s \o (t \o u)
  BY ConcatAssociative, SMTT(20)

\* A step that hands on bytes, or takes some that no memory was found for, and
\* leaves the file, changes nothing of what came from where.
LEMMA SamePlaces ==
  ASSUME IoInv, io'.file = io.file, io'.disk = io.disk, io'.offset = io.offset, io'.places = io.places,
         io'.own = io.own, io'.lost = 0 => io.lost = 0 /\ io'.given \o io'.rbuf = io.given \o io.rbuf
  PROVE  I!Conserved' /\ I!Untouched' /\ (I!Unread)' = I!Unread
<1>1. I!Conserved
  BY DEF IoInv
<1>2. I!Untouched
  BY DEF IoInv
<1>3. io'.lost = 0 => io'.given \o io'.rbuf = BytesAt(io'.file, io'.places)
  BY <1>1 DEF I!Conserved, BytesAt
<1>4. \A i, j \in DOMAIN io'.places : i < j => io'.places[i] < io'.places[j]
  BY <1>1 DEF I!Conserved
<1>5. I!ToSet(io'.places) = (1..io'.offset) \ io'.own
  BY <1>1 DEF I!Conserved
<1>6. Len(io'.file) <= Len(io'.disk)
  BY <1>2 DEF I!Untouched
<1>7. \A i \in (1..Len(io'.disk)) \ io'.own : i <= Len(io'.file) /\ io'.disk[i] = io'.file[i]
  BY <1>2 DEF I!Untouched
<1>8. I!Conserved'
  BY <1>3, <1>4, <1>5 DEF I!Conserved, BytesAt
<1>9. I!Untouched'
  BY <1>6, <1>7 DEF I!Untouched
<1> QED BY <1>8, <1>9 DEF I!Unread

\* Handing out the first n bytes (spe_buf_copy, spe_buf_consume) keeps what is
\* given, held and still to come together the bytes of the file.
LEMMA GiveStep ==
  ASSUME IoInv, io.rtype # "none", NEW n \in 0..Len(io.rbuf), NEW res \in Int,
         MayTell(n, res), I!Give(n, res)
  PROVE  IoInv'
<1> DEFINE piece == SubSeq(io.rbuf, 1, n)
           left  == SubSeq(io.rbuf, n + 1, Len(io.rbuf))
           heard(p) == [call |-> io.rtype, arg |-> io.arg, piece |-> p, res |-> res]
           closed == io.closed \/ res = 0
           error  == io.error \/ res < 0
<1>1. /\ io \in IoType /\ ~io.closed /\ ~io.error /\ ~io.wfail
      /\ io.rbuf \in Seq(Octets) /\ io.given \in Seq(Octets) /\ io.lost \in Nat
  BY DEF IoInv, IoType, I!Ended
<1>2. /\ piece \in Seq(Octets) /\ left \in Seq(Octets) /\ piece \o left = io.rbuf
      /\ Len(left) = Len(io.rbuf) - n
  BY <1>1, SplitAt
<1>3. n = Len(io.rbuf) => left = <<>>
  <2>1. Len(io.rbuf) \in Nat
    BY <1>1, LenProperties
  <2> HIDE DEF left
  <2> QED BY <1>2, <2>1, EmptySeq
<1>4. closed \in BOOLEAN /\ error \in BOOLEAN /\ (closed <=> res = 0) /\ (error <=> res < 0)
  BY <1>1
<1>5. CASE io' = [io EXCEPT !.rbuf = left, !.rtype = "none", !.arg = 0, !.last = heard(piece),
                            !.given = io.given \o piece, !.closed = closed, !.error = error]
  <2> DEFINE given == io.given \o piece
  <2>1. given \in Seq(Octets) /\ given \o left = io.given \o io.rbuf
    <3> HIDE DEF piece, left
    <3>1. io.given \in Seq(Octets) /\ piece \in Seq(Octets) /\ left \in Seq(Octets)
      BY <1>1, <1>2
    <3>2. (io.given \o piece) \o left = io.given \o (piece \o left)
      BY <3>1, Assoc
    <3> QED BY <1>2, <3>1, <3>2, ConcatProperties
  <2>2. heard(piece) = Told(n, res) /\ heard(piece) \in [call : Calls, arg : Args, piece : Seq(Octets), res : Int]
    BY <1>1, <1>2 DEF Told, IoType
  <2> DEFINE l == heard(piece)
  <2>3. io' = [io EXCEPT !.rbuf = left, !.rtype = "none", !.arg = 0, !.last = l,
                         !.given = given, !.closed = closed, !.error = error]
    BY <1>5
  <2>4. l.call = io.rtype /\ l.res = res
    OBVIOUS
  <2> HIDE DEF given, left, closed, error, l, piece
  <2>a. 0 \in Args /\ "none" \in Calls \ {"write"}
    BY DEF Args, Calls
  <2>b. l \in [call : Calls, arg : Args, piece : Seq(Octets), res : Int]
    BY <2>2 DEF l
  <2>5. /\ io'.rbuf = left /\ io'.rtype = "none" /\ io'.arg = 0 /\ io'.last = l
        /\ io'.given = given /\ io'.closed = closed /\ io'.error = error /\ io'.wfail = io.wfail
        /\ io'.lost = io.lost /\ io'.file = io.file
        /\ io'.disk = io.disk /\ io'.offset = io.offset /\ io'.places = io.places /\ io'.own = io.own
    BY <1>1, <2>3 DEF IoType
  <2>c. io' \in IoType 
    BY <1>1, <1>2, <1>4, <2>1, <2>3, <2>a, <2>b, ZenonT(20) DEF IoType
  <2>d. I!Conserved' /\ I!Untouched' /\ (I!Unread)' = I!Unread
    BY <2>1, <2>5, SamePlaces
  <2>7. I!ReadKept'
    BY <1>3, <1>4, <2>2, <2>4, <2>5, <2>d DEF MayTell, I!ReadKept, l, piece
  <2>8. /\ closed => left = <<>> /\ I!Unread = 0
        /\ error => left = <<>>
    BY <1>3, <1>4 DEF MayTell
  <2> QED BY <1>1, <2>5, <2>7, <2>8, <2>c, <2>d DEF IoInv, I!Ended
<1>6. CASE io' = [io EXCEPT !.rbuf = left, !.rtype = "none", !.arg = 0, !.last = heard(<<>>),
                            !.lost = io.lost + 1, !.closed = closed, !.error = error]
  <2> DEFINE l == heard(<<>>)
  <2>1. l \in [call : Calls, arg : Args, piece : Seq(Octets), res : Int]
    BY <1>1 DEF IoType
  <2>2. io' = [io EXCEPT !.rbuf = left, !.rtype = "none", !.arg = 0, !.last = l,
                         !.lost = io.lost + 1, !.closed = closed, !.error = error]
    BY <1>6
  <2> HIDE DEF left, closed, error, l
  <2>a. 0 \in Args /\ "none" \in Calls \ {"write"}
    BY DEF Args, Calls
  <2>3. /\ io'.rbuf = left /\ io'.rtype = "none" /\ io'.closed = closed
        /\ io'.error = error /\ io'.wfail = io.wfail /\ io'.lost = io.lost + 1 /\ io'.file = io.file
        /\ io'.disk = io.disk /\ io'.offset = io.offset /\ io'.places = io.places /\ io'.own = io.own
    BY <1>1, <2>2 DEF IoType
  <2>b. io.lost + 1 \in Nat
    BY <1>1
  <2>c. io' \in IoType 
    BY <1>1, <1>2, <1>4, <2>1, <2>2, <2>a, <2>b DEF IoType
  <2>4. io'.lost # 0
    BY <1>1, <2>3
  <2>5. /\ closed => left = <<>> /\ I!Unread = 0
        /\ error => left = <<>>
    BY <1>3, <1>4 DEF MayTell
  <2>6. I!Conserved' /\ I!Untouched' /\ (I!Unread)' = I!Unread
    BY <2>3, <2>4, SamePlaces
  <2> QED BY <1>1, <2>3, <2>4, <2>5, <2>6, <2>c DEF IoInv, I!Ended, I!ReadKept
<1>7. /\ I!From(io.rbuf, n) = left /\ I!First(io.rbuf, n) = piece
  BY DEF I!From, I!First
<1>8. I!Give(n, res) =>
        \/ io' = [io EXCEPT !.rbuf = left, !.rtype = "none", !.arg = 0, !.last = heard(piece),
                            !.given = io.given \o piece, !.closed = closed, !.error = error]
        \/ io' = [io EXCEPT !.rbuf = left, !.rtype = "none", !.arg = 0, !.last = heard(<<>>),
                            !.lost = io.lost + 1, !.closed = closed, !.error = error]
  BY <1>1, <1>7 DEF I!Give, IoType
<1> QED BY <1>5, <1>6, <1>8

\* What the reader of files is asked for, and what it has.
LEMMA Reading ==
  ASSUME IoInv, io.rtype # "none"
  PROVE  /\ io.rbuf \in Seq(Octets) /\ Len(io.rbuf) \in Nat
         /\ io.rtype \in {"read", "readbytes", "readuntil"}
         /\ io.rtype = "readbytes" => io.arg \in Nat \ {0}
         /\ io.rtype = "readuntil" => io.arg \in Seq(Octets) /\ io.arg # <<>> /\ Len(io.arg) \in Nat \ {0}
         /\ \A n, res : /\ Told(n, res).call = io.rtype /\ Told(n, res).arg = io.arg
                        /\ Told(n, res).piece = SubSeq(io.rbuf, 1, n) /\ Told(n, res).res = res
<1>1. /\ io.rbuf \in Seq(Octets) /\ io.rtype \in Calls \ {"write"}
      /\ io.rtype = "readbytes" => io.arg \in Nat \ {0}
      /\ io.rtype = "readuntil" => io.arg \in Seq(Octets) \ {<<>>}
  BY DEF IoInv, IoType
<1>2. io.rtype \in {"read", "readbytes", "readuntil"}
  BY <1>1 DEF Calls
<1> QED BY <1>1, <1>2, LenProperties, EmptySeq DEF Told

\* The return of a call that has enough (the tests before each read).
LEMMA AnswerStep == ASSUME IoInv, I!Answer PROVE IoInv'
<1> DEFINE n == I!Served
<1>1. io.rtype # "none" /\ n > -1 /\ I!Give(n, n)
  BY DEF I!Answer
<1>2. n = I!Answers(io.rbuf, io.rtype, io.arg)
  BY DEF I!Served
<1> HIDE DEF n
<1>3. CASE io.rtype = "read"
  <2>1. io.rbuf # <<>> /\ n = Len(io.rbuf) /\ SubSeq(io.rbuf, 1, n) = io.rbuf /\ Len(io.rbuf) > 0
    BY <1>1, <1>2, <1>3, Reading, SubSeqFull, EmptySeq DEF I!Answers
  <2>2. n \in 0..Len(io.rbuf) /\ n \in Int /\ n > 0
    BY <1>1, <2>1, Reading
  <2>3. MayTell(n, n)
    BY <1>1, <1>3, <2>1, <2>2, Reading DEF MayTell, I!Asked
  <2> QED BY <1>1, <2>2, <2>3, GiveStep
<1>4. CASE io.rtype = "readbytes"
  <2>1. n = io.arg /\ ~(io.arg > Len(io.rbuf))
    BY <1>1, <1>2, <1>4 DEF I!Answers
  <2>2. n \in 0..Len(io.rbuf) /\ n \in Int /\ n > 0
    BY <1>1, <1>4, <2>1, Reading
  <2>3. Len(SubSeq(io.rbuf, 1, n)) = n
    BY <1>1, <2>2, Reading, SplitAt
  <2>4. MayTell(n, n)
    BY <1>1, <1>4, <2>1, <2>2, <2>3, Reading DEF MayTell, I!Asked
  <2> QED BY <1>1, <2>2, <2>4, GiveStep
<1>5. CASE io.rtype = "readuntil"
  <2> DEFINE f == I!Find(io.rbuf, io.arg)
  <2>1. f # -1 /\ n = f + Len(io.arg)
    BY <1>1, <1>2, <1>5 DEF I!Answers
  <2>2. f \in 0..Len(io.rbuf) - Len(io.arg) /\ I!Find(SubSeq(io.rbuf, 1, n), io.arg) = f
    <3>1. io.rbuf \in Seq(Octets) /\ io.arg \in Seq(Octets) /\ io.arg # <<>>
      BY <1>1, <1>5, Reading
    <3>2. \/ f = -1
          \/ f \in 0..Len(io.rbuf) - Len(io.arg) /\ I!Find(SubSeq(io.rbuf, 1, f + Len(io.arg)), io.arg) = f
      BY <3>1, FindProperties
    <3> HIDE DEF f
    <3> QED BY <2>1, <3>2
  <2> HIDE DEF f
  <2>3. n \in 0..Len(io.rbuf) /\ n \in Int /\ n > 0
    BY <1>1, <1>5, <2>1, <2>2, Reading
  <2>4. Len(SubSeq(io.rbuf, 1, n)) = n
    BY <1>1, <2>3, Reading, SplitAt
  <2>5. I!Find(SubSeq(io.rbuf, 1, n), io.arg) >= 0
    BY <2>2
  <2>6. I!Asked(Told(n, n))
    <3> DEFINE l == Told(n, n)
    <3>1. l.call = "readuntil" /\ l.arg = io.arg /\ l.piece = SubSeq(io.rbuf, 1, n) /\ l.res = n
      BY <1>1, <1>5, Reading
    <3> HIDE DEF l
    <3>2. I!Find(l.piece, l.arg) = f /\ Len(l.piece) = n
      BY <2>2, <2>4, <3>1, Zenon
    <3>4. f >= 0
      BY <2>2
    <3>3. I!Asked(l)
      BY <2>1, <3>1, <3>2, <3>4 DEF I!Asked
    <3> QED BY <3>3 DEF l
  <2>7. MayTell(n, n)
    BY <2>3, <2>6 DEF MayTell
  <2> QED BY <1>1, <2>3, <2>7, GiveStep
<1> QED BY <1>1, <1>3, <1>4, <1>5, Reading

\* While a read waits, all that there is is too little.
LEMMA AllTooLittle ==
  ASSUME IoInv, I!Waiting, NEW res
  PROVE  I!TooLittle(Told(Len(io.rbuf), res))
<1>1. io.rtype # "none" /\ I!Answers(io.rbuf, io.rtype, io.arg) = -1
  BY DEF I!Waiting, I!Served
<1>2. SubSeq(io.rbuf, 1, Len(io.rbuf)) = io.rbuf
  BY <1>1, Reading, SubSeqFull
<1>3. CASE io.rtype = "read"
  BY <1>1, <1>2, <1>3, Reading DEF I!Answers, I!TooLittle
<1>4. CASE io.rtype = "readbytes"
  BY <1>1, <1>2, <1>4, Reading DEF I!Answers, I!TooLittle
<1>5. CASE io.rtype = "readuntil"
  <2>1. I!Find(io.rbuf, io.arg) = -1
    <3>1. CASE io.rbuf = <<>>
      BY <1>1, <1>5, <3>1, Reading, FindInNothing
    <3>2. CASE io.rbuf # <<>> /\ I!Find(io.rbuf, io.arg) # -1
      <4>1. I!Find(io.rbuf, io.arg) + Len(io.arg) = -1
        BY <1>1, <1>5, <3>2 DEF I!Answers
      <4>2. I!Find(io.rbuf, io.arg) \in 0..Len(io.rbuf) - Len(io.arg)
        BY <1>1, <1>5, <3>2, Reading, FindProperties
      <4> QED BY <1>1, <1>5, <4>1, <4>2, Reading
    <3> QED BY <3>1, <3>2
  <2> QED BY <1>1, <1>2, <1>5, <2>1, Reading DEF I!TooLittle
<1> QED BY <1>1, <1>3, <1>4, <1>5, Reading

\* A read that finds the end of the file or fails: the call gives all it holds.
LEMMA EndStep == ASSUME IoInv, I!ReadEnd \/ I!ReadFails PROVE IoInv'
<1>1. I!Waiting /\ io.rtype # "none"
  BY DEF I!ReadEnd, I!ReadFails, I!Waiting
<1>2. Len(io.rbuf) \in 0..Len(io.rbuf)
  BY <1>1, Reading
<1>3. CASE I!ReadEnd
  <2>1. I!Give(Len(io.rbuf), 0) /\ MayTell(Len(io.rbuf), 0)
    BY <1>1, <1>3, AllTooLittle DEF I!ReadEnd, MayTell
  <2> QED BY <1>1, <1>2, <2>1, GiveStep
<1>4. CASE I!ReadFails
  <2>1. PICK res \in {-1, -2} : I!Give(Len(io.rbuf), res)
    BY <1>4 DEF I!ReadFails
  <2>2. MayTell(Len(io.rbuf), res) /\ res \in Int
    BY <1>1, AllTooLittle DEF MayTell
  <2> QED BY <1>1, <1>2, <2>1, <2>2, GiveStep
<1> QED BY <1>3, <1>4

\* The n places behind o, and p being all the places up to o but the own.
Behind(o, n) == [i \in 1..n |-> o + i]
UpTo(p, o, own) ==
  /\ \A i, j \in DOMAIN p : i < j => p[i] < p[j]
  /\ I!ToSet(p) = (1..o) \ own

LEMMA FartherUp ==
  ASSUME NEW p \in Seq(Nat), NEW q \in Seq(Nat), NEW o \in Nat, NEW n \in Nat, NEW own \in SUBSET (1..o),
         UpTo(p, o, own), Len(q) = Len(p) + n,
         \A i \in 1..Len(p) : q[i] = p[i], \A i \in 1..n : q[Len(p) + i] = o + i
  PROVE  UpTo(q, o + n, own)
<1>1. /\ Len(p) \in Nat /\ DOMAIN p = 1..Len(p) /\ DOMAIN q = 1..Len(p) + n
      /\ \A i \in 1..Len(p) : p[i] \in Nat
  BY LenProperties, ElementOfSeq
<1>2. /\ \A i, j \in DOMAIN p : i < j => p[i] < p[j]
      /\ I!ToSet(p) = (1..o) \ own
  BY DEF UpTo
<1>3. ASSUME NEW i \in DOMAIN q, i > Len(p) PROVE q[i] = o + (i - Len(p)) /\ i - Len(p) \in 1..n
  <2>1. i - Len(p) \in 1..n /\ Len(p) + (i - Len(p)) = i
    BY <1>1, <1>3
  <2> QED BY <2>1
<1>4. \A i \in 1..Len(p) : p[i] \in (1..o) \ own
  BY <1>1, <1>2 DEF I!ToSet
<1>5. ASSUME NEW i \in DOMAIN q, NEW j \in DOMAIN q, i < j PROVE q[i] < q[j]
  <2>1. CASE j <= Len(p)
    <3>1. i \in DOMAIN p /\ j \in DOMAIN p /\ q[i] = p[i] /\ q[j] = p[j]
      <4>1. i \in 1..Len(p) /\ j \in 1..Len(p)
        BY <1>1, <1>5, <2>1
      <4> QED BY <1>1, <4>1
    <3> QED BY <1>2, <1>5, <3>1
  <2>2. CASE i <= Len(p) /\ j > Len(p)
    <3>1. i \in 1..Len(p)
      BY <1>1, <2>2
    <3>2. q[i] = p[i] /\ p[i] \in 1..o
      BY <1>4, <3>1
    <3>3. q[j] = o + (j - Len(p)) /\ j - Len(p) \in 1..n
      BY <1>3, <2>2
    <3>4. \A u \in 1..o, k \in 1..n : u < o + k
      OBVIOUS
    <3> QED BY <3>2, <3>3, <3>4
  <2>3. CASE i > Len(p)
    <3>1. q[i] = o + (i - Len(p)) /\ q[j] = o + (j - Len(p))
      BY <1>1, <1>3, <1>5, <2>3
    <3> QED BY <1>1, <1>5, <3>1
  <2>4. j <= Len(p) \/ (i <= Len(p) /\ j > Len(p)) \/ i > Len(p)
    BY <1>1
  <2> QED BY <2>1, <2>2, <2>3, <2>4
<1>6. ASSUME NEW x \in I!ToSet(q) PROVE x \in (1..o + n) \ own
  <2>1. PICK i \in DOMAIN q : x = q[i]
    BY DEF I!ToSet
  <2>2. CASE i <= Len(p)
    <3>1. i \in 1..Len(p)
      BY <1>1, <2>2
    <3>2. x \in (1..o) \ own
      BY <1>4, <2>1, <3>1
    <3> QED BY <3>2
  <2>3. CASE i > Len(p)
    <3>1. x = o + (i - Len(p)) /\ i - Len(p) \in 1..n
      BY <1>3, <2>1, <2>3
    <3>2. \A k \in 1..n : o + k \in (1..o + n) \ own
      OBVIOUS
    <3> QED BY <3>1, <3>2
  <2> QED BY <1>1, <2>2, <2>3
<1>7. ASSUME NEW x \in (1..o + n) \ own PROVE x \in I!ToSet(q)
  <2>1. CASE x <= o
    <3>1. x \in I!ToSet(p)
      BY <1>2, <2>1
    <3>2. PICK i \in 1..Len(p) : x = p[i]
      BY <1>1, <3>1 DEF I!ToSet
    <3>3. i \in DOMAIN q /\ x = q[i]
      BY <1>1, <3>2
    <3> QED BY <3>3 DEF I!ToSet
  <2>2. CASE x > o
    <3>1. x - o \in 1..n /\ x = o + (x - o)
      BY <2>2
    <3>2. x = q[Len(p) + (x - o)]
      BY <3>1
    <3>3. Len(p) + (x - o) \in DOMAIN q
      BY <1>1, <3>1
    <3> QED BY <3>2, <3>3 DEF I!ToSet
  <2> QED BY <2>1, <2>2
<1>8. I!ToSet(q) = (1..o + n) \ own
  BY <1>6, <1>7
<1> QED BY <1>5, <1>8 DEF UpTo

\* What is read next stands behind all that was read.
LEMMA MorePlaces ==
  ASSUME NEW p \in Seq(Nat), NEW o \in Nat, NEW n \in Nat, NEW own \in SUBSET (1..o), UpTo(p, o, own)
  PROVE  \A q : q = p \o Behind(o, n) =>
           /\ q \in Seq(Nat) /\ Len(q) = Len(p) + n
           /\ \A i \in 1..Len(p) : q[i] = p[i]
           /\ \A i \in 1..n : q[Len(p) + i] = o + i
           /\ UpTo(q, o + n, own)
<1> SUFFICES ASSUME NEW q, q = p \o Behind(o, n)
             PROVE  /\ q \in Seq(Nat) /\ Len(q) = Len(p) + n
                    /\ \A i \in 1..Len(p) : q[i] = p[i]
                    /\ \A i \in 1..n : q[Len(p) + i] = o + i
                    /\ UpTo(q, o + n, own)
  OBVIOUS
<1> DEFINE a == Behind(o, n)
<1>1. a \in Seq(Nat) /\ Len(a) = n /\ \A i \in 1..n : a[i] = o + i
  BY DEF Behind
<1>2. q = p \o a
  OBVIOUS
<1> HIDE DEF a
<1>3. q \in Seq(Nat) /\ Len(q) = Len(p) + Len(a)
  BY <1>1, <1>2, ConcatProperties
<1>4. \A i \in 1..Len(p) + Len(a) : q[i] = IF i <= Len(p) THEN p[i] ELSE a[i - Len(p)]
  BY <1>1, <1>2, ConcatProperties
<1>5. Len(p) \in Nat
  BY LenProperties
<1>6. \A i \in 1..Len(p) : q[i] = p[i]
  BY <1>1, <1>4, <1>5
<1>7. \A i \in 1..n : q[Len(p) + i] = o + i
  <2> TAKE i \in 1..n
  <2>1. /\ Len(p) + i \in 1..Len(p) + Len(a) /\ ~(Len(p) + i <= Len(p))
        /\ (Len(p) + i) - Len(p) = i
    BY <1>1, <1>5
  <2>2. q[Len(p) + i] = a[i]
    BY <1>4, <2>1
  <2> QED BY <1>1, <2>2
<1>8. Len(q) = Len(p) + n
  BY <1>1, <1>3
<1> HIDE DEF a
<1>9. UpTo(q, o + n, own)
  BY <1>3, <1>6, <1>7, <1>8, FartherUp
<1> QED BY <1>3, <1>6, <1>7, <1>8, <1>9

\* The bytes at two runs of places are the one string behind the other.
Continued(f, p, q, more) ==
  /\ Len(q) = Len(p) + Len(more)
  /\ \A i \in 1..Len(p) : q[i] = p[i]
  /\ \A i \in 1..Len(more) : f[q[Len(p) + i]] = more[i]
LEMMA BytesAppended ==
  ASSUME NEW f, NEW p \in Seq(Nat), NEW q \in Seq(Nat), NEW more \in Seq(Octets), Continued(f, p, q, more)
  PROVE  \A b \in Seq(Octets) : b = BytesAt(f, p) => b \o more = BytesAt(f, q)
<1> SUFFICES ASSUME NEW b \in Seq(Octets), b = BytesAt(f, p) PROVE b \o more = BytesAt(f, q)
  OBVIOUS
<1> DEFINE d == b \o more
           n == Len(p) + Len(more)
<1>1. Len(p) \in Nat /\ Len(more) \in Nat
  BY LenProperties
<1>0. /\ Len(q) = n /\ \A i \in 1..Len(p) : q[i] = p[i]
      /\ \A i \in 1..Len(more) : f[q[Len(p) + i]] = more[i]
  BY DEF Continued
<1>2. Len(b) = Len(p) /\ \A i \in 1..Len(p) : b[i] = f[p[i]]
  BY <1>1 DEF BytesAt
<1>3. d \in Seq(Octets) /\ Len(d) = Len(b) + Len(more)
  BY ConcatProperties
<1>4. \A i \in 1..Len(b) + Len(more) : d[i] = IF i <= Len(b) THEN b[i] ELSE more[i - Len(b)]
  BY ConcatProperties
<1> HIDE DEF d
<1>5. ASSUME NEW i \in 1..n PROVE d[i] = f[q[i]]
  <2>1. CASE i <= Len(p)
    <3>1. i \in 1..Len(p) /\ d[i] = b[i]
      BY <1>1, <1>2, <1>4, <2>1
    <3> QED BY <1>0, <1>2, <3>1
  <2>2. CASE i > Len(p)
    <3>1. i - Len(p) \in 1..Len(more) /\ Len(p) + (i - Len(p)) = i
      BY <1>1, <2>2
    <3>2. d[i] = more[i - Len(p)]
      BY <1>1, <1>2, <1>4, <2>2
    <3> QED BY <1>0, <3>1, <3>2
  <2> QED BY <1>1, <2>1, <2>2
<1>6. Len(d) = n /\ n \in Nat
  BY <1>1, <1>2, <1>3
<1>7. d = [i \in 1..n |-> d[i]]
  <2>1. DOMAIN d = 1..n /\ d \in [1..n -> Octets]
    BY <1>3, <1>6, LenProperties
  <2> QED BY <2>1
<1>8. [i \in 1..n |-> d[i]] = [i \in 1..n |-> f[q[i]]]
  BY <1>5
<1> QED BY <1>0, <1>7, <1>8 DEF BytesAt, d

\* What stands in a string from one place to another.
LEMMA SliceIs ==
  ASSUME NEW S, NEW s \in Seq(S), NEW o \in Nat, NEW n \in Nat, o + n <= Len(s)
  PROVE  /\ SubSeq(s, o + 1, o + n) \in Seq(S) /\ Len(SubSeq(s, o + 1, o + n)) = n
         /\ \A i \in 1..n : SubSeq(s, o + 1, o + n)[i] = s[o + i]
<1> DEFINE a == o + 1
           b == o + n
<1>1. Len(s) \in Nat /\ a \in Int /\ b \in Int /\ a >= 1 /\ b <= Len(s)
      /\ (IF a <= b THEN b - a + 1 ELSE 0) = n /\ \A i \in 1..n : i \in 1..b - a + 1 /\ a + i - 1 = o + i
  BY LenProperties
<1> HIDE DEF a, b
<1>2. \A i \in a..b : s[i] \in S
  BY <1>1, ElementOfSeq
<1>3. /\ SubSeq(s, a, b) \in Seq(S)
      /\ Len(SubSeq(s, a, b)) = IF a <= b THEN b - a + 1 ELSE 0
      /\ \A i \in 1..b - a + 1 : SubSeq(s, a, b)[i] = s[a + i - 1]
  BY <1>1, <1>2, SubSeqProperties, Z3
<1>4. Len(SubSeq(s, a, b)) = n /\ \A i \in 1..n : SubSeq(s, a, b)[i] = s[o + i]
  BY <1>1, <1>3
<1> QED BY <1>3, <1>4 DEF a, b

\* The least of two numbers.
LEMMA LeastOfTwo ==
  ASSUME NEW a \in Nat, NEW b \in Nat
  PROVE  I!Min({a, b}) \in Nat /\ I!Min({a, b}) <= b
  BY DEF I!Min

\* A read that appends some bytes of the file to the buffer.
LEMMA ReadSomeStep == ASSUME IoInv, I!IoAssumption, I!ReadSome PROVE IoInv'
<1>1. /\ io \in IoType /\ ~io.closed /\ ~io.error /\ ~io.wfail /\ io.rtype # "none"
      /\ io.rbuf \in Seq(Octets) /\ io.given \in Seq(Octets) /\ io.disk \in Seq(Octets)
      /\ io.file \in Seq(Octets) /\ io.places \in Seq(Nat) /\ io.offset \in Nat /\ Len(io.disk) \in Nat
      /\ io.offset <= Len(io.disk) /\ io.own \in SUBSET (1..io.offset) /\ MaxBuf \in Nat
  BY LenProperties DEF IoInv, IoType, I!Ended, I!ReadSome, I!Waiting, I!IoAssumption
<1>2. I!Unread \in Nat /\ io.offset + I!Unread = Len(io.disk)
  BY <1>1 DEF I!Unread
<1> DEFINE more(n)   == SubSeq(io.disk, io.offset + 1, io.offset + n)
           rbuf(n)   == io.rbuf \o more(n)
           places(n) == io.places \o [i \in 1..n |-> io.offset + i]
<1>3. PICK n \in Nat :
        /\ io.offset + n <= Len(io.disk)
        /\ io' = [io EXCEPT !.rbuf = rbuf(n), !.places = places(n), !.offset = io.offset + n]
  <2>1. I!Min({MaxBuf, I!Unread}) \in Nat /\ I!Min({MaxBuf, I!Unread}) <= I!Unread
    BY <1>1, <1>2, LeastOfTwo
  <2>2. PICK n \in 1..I!Min({MaxBuf, I!Unread}) :
          io' = [io EXCEPT !.rbuf = @ \o SubSeq(io.disk, io.offset + 1, io.offset + n),
                           !.places = @ \o I!Ahead(n), !.offset = @ + n]
    BY DEF I!ReadSome
  <2>3. n \in Nat /\ io.offset + n <= Len(io.disk)
    BY <1>1, <1>2, <2>1
  <2>4. io' = [io EXCEPT !.rbuf = rbuf(n), !.places = places(n), !.offset = io.offset + n]
    BY <1>1, <2>2 DEF IoType, I!Ahead
  <2> QED BY <2>3, <2>4, Zenon
<1> DEFINE m == more(n)
           b == rbuf(n)
           q == places(n)
<1>4. m \in Seq(Octets) /\ Len(m) = n /\ \A i \in 1..n : m[i] = io.disk[io.offset + i]
  <2>1. io.disk \in Seq(Octets) /\ io.offset \in Nat /\ n \in Nat /\ io.offset + n <= Len(io.disk)
    BY <1>1, <1>3
  <2> QED BY <2>1, SliceIs, ZenonT(30)
<1>5. /\ q \in Seq(Nat) /\ Len(q) = Len(io.places) + n
      /\ \A i \in 1..Len(io.places) : q[i] = io.places[i]
      /\ \A i \in 1..n : q[Len(io.places) + i] = io.offset + i
      /\ UpTo(q, io.offset + n, io.own)
  <2>1. UpTo(io.places, io.offset, io.own)
    BY DEF IoInv, I!Conserved, UpTo
  <2>2. q = io.places \o Behind(io.offset, n)
    BY DEF Behind
  <2>3. io.places \in Seq(Nat) /\ io.offset \in Nat /\ n \in Nat /\ io.own \in SUBSET (1..io.offset)
    BY <1>1, <1>3
  <2> HIDE DEF q
  <2>4. \A r : r = io.places \o Behind(io.offset, n) =>
           /\ r \in Seq(Nat) /\ Len(r) = Len(io.places) + n
           /\ \A i \in 1..Len(io.places) : r[i] = io.places[i]
           /\ \A i \in 1..n : r[Len(io.places) + i] = io.offset + i
           /\ UpTo(r, io.offset + n, io.own)
    BY <2>1, <2>3, MorePlaces, Zenon
  <2> QED BY <2>2, <2>4
<1>6. \A i \in 1..n : io.disk[io.offset + i] = io.file[io.offset + i]
  <2> TAKE i \in 1..n
  <2>1. io.offset + i \in (1..Len(io.disk)) \ io.own
    BY <1>1, <1>3, SMTT(20)
  <2> QED BY <2>1 DEF IoInv, I!Untouched
<1> HIDE DEF m, q
<1>7. b \in Seq(Octets) /\ b = io.rbuf \o m
  BY <1>1, <1>4, ConcatProperties DEF m
<1> HIDE DEF b
<1>8. ASSUME io.lost = 0 PROVE io.given \o b = BytesAt(io.file, q)
  <2> DEFINE held == io.given \o io.rbuf
  <2>1. held = BytesAt(io.file, io.places)
    BY <1>8 DEF IoInv, I!Conserved, BytesAt
  <2>2. held \in Seq(Octets)
    <3>1. io.given \in Seq(Octets) /\ io.rbuf \in Seq(Octets)
      BY <1>1
    <3> QED BY <3>1, ConcatProperties
  <2>3. held \o m = io.given \o b
    <3>1. io.given \in Seq(Octets) /\ io.rbuf \in Seq(Octets) /\ m \in Seq(Octets)
      BY <1>1, <1>4
    <3>2. (io.given \o io.rbuf) \o m = io.given \o (io.rbuf \o m)
      BY <3>1, Assoc
    <3> QED BY <1>7, <3>2
  <2> HIDE DEF held
  <2>4. \A i \in 1..Len(m) : io.file[q[Len(io.places) + i]] = m[i]
    <3> TAKE i \in 1..Len(m)
    <3>1. i \in 1..n
      BY <1>4
    <3> QED BY <1>4, <1>5, <1>6, <3>1
  <2>5. io.places \in Seq(Nat) /\ q \in Seq(Nat) /\ m \in Seq(Octets) /\ Continued(io.file, io.places, q, m)
    BY <1>1, <1>4, <1>5, <2>4 DEF Continued
  <2>6. \A b1 \in Seq(Octets) : b1 = BytesAt(io.file, io.places) => b1 \o m = BytesAt(io.file, q)
    BY <2>5, BytesAppended, ZenonT(30)
  <2> QED BY <2>1, <2>2, <2>3, <2>6
<1>9. io' = [io EXCEPT !.rbuf = b, !.places = q, !.offset = io.offset + n]
  BY <1>3 DEF b, q
<1>10. /\ io'.rbuf = b /\ io'.places = q /\ io'.offset = io.offset + n /\ io'.given = io.given
       /\ io'.file = io.file /\ io'.disk = io.disk /\ io'.own = io.own /\ io'.lost = io.lost
       /\ io'.closed = io.closed /\ io'.error = io.error /\ io'.wfail = io.wfail
       /\ io'.last = io.last /\ io'.rtype = io.rtype /\ io'.arg = io.arg
  BY <1>1, <1>9 DEF IoType
<1>11. io' \in IoType
  <2>1. io.offset + n \in Nat /\ q \in Seq(Nat) /\ b \in Seq(Octets)
    BY <1>1, <1>3, <1>5, <1>7
  <2> QED BY <1>1, <1>9, <2>1 DEF IoType
<1>12. I!Conserved'
  BY <1>5, <1>8, <1>10 DEF I!Conserved, BytesAt, UpTo
<1>13. I!Untouched'
  BY <1>10 DEF IoInv, I!Untouched
<1>14. I!ReadKept'
  BY <1>1, <1>10 DEF IoInv, I!ReadKept
<1>15. io'.offset <= Len(io'.disk) /\ io'.own \subseteq 1..io'.offset
  <2>1. 1..io.offset \subseteq 1..io.offset + n
    BY <1>1, <1>3
  <2>2. io.offset + n \in Nat /\ io.own \subseteq 1..io.offset + n /\ io.offset + n <= Len(io.disk)
    BY <1>1, <1>3, <2>1
  <2> QED BY <1>10, <2>2
<1> QED BY <1>1, <1>10, <1>11, <1>12, <1>13, <1>14, <1>15 DEF IoInv, I!Ended

\* A read begins, or is answered at once by a reader that has ended.
LEMMA BeginStep ==
  ASSUME IoInv, NEW call \in {"read", "readbytes", "readuntil"}, NEW arg \in Args,
         call = "readbytes" => arg \in Nat \ {0},
         call = "readuntil" => arg \in Seq(Octets) \ {<<>>},
         I!Begin(call, arg)
  PROVE  IoInv'
<1>1. io \in IoType /\ io.rtype = "none" /\ call \in Calls \ {"write"}
  BY DEF IoInv, I!Begin, Calls
<1>2. CASE I!Ended
  <2> DEFINE res == IF io.closed THEN 0 ELSE -1
             l == [call |-> call, arg |-> arg, piece |-> <<>>, res |-> res]
  <2>1. io' = [io EXCEPT !.last = l]
    BY <1>2 DEF I!Begin
  <2>2. l \in [call : Calls, arg : Args, piece : Seq(Octets), res : Int]
    BY <1>1, EmptySeq
  <2>3. I!TooLittle(l)
    <3>1. l.call = call /\ l.arg = arg /\ l.piece = <<>> /\ Len(l.piece) = 0
      BY EmptySeq
    <3> HIDE DEF l
    <3>2. call = "readuntil" => I!Find(<<>>, arg) = -1
      BY FindInNothing
    <3> QED BY <3>1, <3>2 DEF I!TooLittle
  <2>4. l.res = IF io.closed THEN 0 ELSE -1
    OBVIOUS
  <2> HIDE DEF l
  <2>5. /\ io' \in IoType /\ io'.rbuf = io.rbuf /\ io'.given = io.given
        /\ io'.file = io.file /\ io'.lost = io.lost /\ io'.closed = io.closed /\ io'.error = io.error
        /\ io'.wfail = io.wfail /\ io'.last = l /\ io'.rtype = io.rtype /\ io'.arg = io.arg
        /\ io'.disk = io.disk /\ io'.offset = io.offset /\ io'.places = io.places /\ io'.own = io.own
    BY <1>1, <2>1, <2>2 DEF IoType
  <2>6. I!Conserved' /\ I!Untouched' /\ (I!Unread)' = I!Unread
    BY <2>5, SamePlaces
  <2>7. I!ReadKept'
    BY <1>2, <2>3, <2>4, <2>5, <2>6 DEF IoInv, I!ReadKept, I!Ended
  <2> QED BY <1>1, <2>5, <2>6, <2>7 DEF IoInv, I!Ended
<1>3. CASE ~I!Ended
  <2>1. io' = [io EXCEPT !.rtype = call, !.arg = arg, !.last = I!None]
    BY <1>3 DEF I!Begin
  <2>2. /\ io' \in IoType /\ io'.rbuf = io.rbuf /\ io'.given = io.given
        /\ io'.file = io.file /\ io'.lost = io.lost /\ io'.closed = io.closed /\ io'.error = io.error
        /\ io'.wfail = io.wfail /\ io'.last.call = "none" /\ io'.rtype = call /\ io'.arg = arg
        /\ io'.disk = io.disk /\ io'.offset = io.offset /\ io'.places = io.places /\ io'.own = io.own
    <3>1. I!None \in [call : Calls, arg : Args, piece : Seq(Octets), res : Int] /\ I!None.call = "none"
      BY EmptySeq DEF I!None, Calls, Args
    <3> QED BY <1>1, <2>1, <3>1 DEF IoType
  <2>3. I!Conserved' /\ I!Untouched' /\ (I!Unread)' = I!Unread
    BY <2>2, SamePlaces
  <2>4. I!ReadKept'
    BY <2>2 DEF I!ReadKept
  <2> QED BY <1>1, <1>3, <2>2, <2>3, <2>4 DEF IoInv, I!Ended
<1> QED BY <1>2, <1>3

\* What a write reports.
LEMMA WroteType ==
  ASSUME NEW n \in Int
  PROVE  /\ I!Wrote(n) \in [call : Calls, arg : Args, piece : Seq(Octets), res : Int]
         /\ I!Wrote(n).call = "write"
<1>1. I!Wrote(n) = [call |-> "write", arg |-> 0, piece |-> <<>>, res |-> n]
  BY DEF I!Wrote
<1>2. "write" \in Calls /\ 0 \in Args /\ <<>> \in Seq(Octets)
  BY EmptySeq DEF Calls, Args
<1> QED BY <1>1, <1>2

\* Writing over a file leaves all of it that was not written over.
LEMMA OverwrittenIs ==
  ASSUME NEW w \in Seq(Octets), NEW n \in Nat, Len(w) = n, io.disk \in Seq(Octets), io.offset \in Nat,
         io.offset <= Len(io.disk)
  PROVE  /\ I!Overwritten(w) \in Seq(Octets) /\ Len(I!Overwritten(w)) >= Len(io.disk)
         /\ Len(I!Overwritten(w)) >= io.offset + n
         /\ Len(I!Overwritten(w)) <= Len(io.disk) \/ Len(I!Overwritten(w)) <= io.offset + n
         /\ \A i \in 1..Len(I!Overwritten(w)) :
              i \notin io.offset + 1..io.offset + n => i <= Len(io.disk) /\ I!Overwritten(w)[i] = io.disk[i]
<1> DEFINE k == I!Max({Len(io.disk), io.offset + n})
           d == I!Overwritten(w)
<1>1. Len(io.disk) \in Nat /\ io.offset + n \in Nat
  BY LenProperties
<1>2. /\ k \in Nat /\ k >= Len(io.disk) /\ k >= io.offset + n
      /\ k = Len(io.disk) \/ k = io.offset + n
  BY <1>1 DEF I!Max
<1> HIDE DEF k
<1> DEFINE at(i) == IF i \in io.offset + 1..io.offset + n THEN w[i - io.offset] ELSE io.disk[i]
<1>3. d = [i \in 1..k |-> at(i)]
  BY DEF I!Overwritten, k
<1> HIDE DEF d
<1>4. ASSUME NEW i \in 1..k PROVE at(i) \in Octets /\ (i \notin io.offset + 1..io.offset + n => i <= Len(io.disk))
  <2>1. CASE i \in io.offset + 1..io.offset + n
    <3>1. i - io.offset \in 1..n
      BY <2>1
    <3> QED BY <2>1, <3>1, ElementOfSeq
  <2>2. CASE i \notin io.offset + 1..io.offset + n
    <3>1. i \in 1..Len(io.disk)
      BY <1>1, <1>2, <2>2
    <3> QED BY <2>2, <3>1, ElementOfSeq
  <2> QED BY <2>1, <2>2
<1>5. \A i \in 1..k : d[i] = at(i)
  BY <1>3
<1>6. \A i \in 1..k : i \notin io.offset + 1..io.offset + n => i <= Len(io.disk) /\ d[i] = io.disk[i]
  BY <1>4, <1>5
<1>7. \A i \in 1..k : at(i) \in Octets
  BY <1>4
<1> HIDE DEF at
<1>8. d \in Seq(Octets) /\ Len(d) = k
  BY <1>2, <1>3, <1>7
<1> QED BY <1>2, <1>6, <1>8 DEF d

\* spe_io_write: what was read is left alone, and of what was not only the
\* bytes at the offset change.
LEMMA WriteStep == ASSUME IoInv, NEW s \in Seq(Octets), I!spe_io_write(s) PROVE IoInv'
<1>1. /\ io \in IoType /\ io.rtype = "none" /\ Len(s) \in Nat
      /\ io.disk \in Seq(Octets) /\ io.offset \in Nat /\ io.offset <= Len(io.disk)
      /\ io.own \subseteq 1..io.offset /\ Len(io.disk) \in Nat /\ io.file \in Seq(Octets) /\ Len(io.file) \in Nat
  BY LenProperties DEF IoInv, IoType, I!spe_io_write
<1>2. CASE I!Ended
  <2>1. io' = [io EXCEPT !.last = I!Wrote(-1)]
    BY <1>2 DEF I!spe_io_write
  <2>2. /\ I!Wrote(-1) \in [call : Calls, arg : Args, piece : Seq(Octets), res : Int]
        /\ I!Wrote(-1).call = "write"
    <3>1. -1 \in Int
      OBVIOUS
    <3> QED BY <3>1, WroteType
  <2>3. /\ io' \in IoType /\ io'.rbuf = io.rbuf /\ io'.given = io.given
        /\ io'.file = io.file /\ io'.lost = io.lost /\ io'.closed = io.closed /\ io'.error = io.error
        /\ io'.wfail = io.wfail /\ io'.last.call = "write" /\ io'.rtype = io.rtype /\ io'.arg = io.arg
        /\ io'.disk = io.disk /\ io'.offset = io.offset /\ io'.places = io.places /\ io'.own = io.own
    BY <1>1, <2>1, <2>2 DEF IoType
  <2>4. I!Conserved' /\ I!Untouched' /\ (I!Unread)' = I!Unread
    BY <2>3, SamePlaces
  <2> QED BY <1>1, <2>3, <2>4 DEF IoInv, I!Ended, I!ReadKept
<1>3. CASE ~I!Ended
  <2> DEFINE said(n) == [io EXCEPT !.error = n < Len(s), !.wfail = n < Len(s), !.last = I!Wrote(n)]
  <2>1. PICK n \in 0..Len(s) :
          \/ io' = said(n)
          \/ io' = [said(n) EXCEPT !.disk = I!Overwritten(I!First(s, n)), !.offset = @ + n,
                                   !.own = @ \cup (io.offset + 1..io.offset + n)]
    BY <1>3 DEF I!spe_io_write
  <2> DEFINE l == I!Wrote(n)
             short == n < Len(s)
             d == I!Overwritten(I!First(s, n))
             new == io.offset + 1..io.offset + n
             own == io.own \cup new
  <2>2. l \in [call : Calls, arg : Args, piece : Seq(Octets), res : Int] /\ l.call = "write"
    BY WroteType
  <2>3. short \in BOOLEAN /\ n \in Nat
    OBVIOUS
  <2> DEFINE Same ==
        /\ io'.rbuf = io.rbuf /\ io'.given = io.given /\ io'.file = io.file /\ io'.lost = io.lost
        /\ io'.closed = io.closed /\ io'.error = short /\ io'.wfail = short /\ io'.last = l
        /\ io'.rtype = io.rtype /\ io'.arg = io.arg /\ io'.places = io.places
  <2>4. CASE io' = said(n)
    <3>1. io' = [io EXCEPT !.error = short, !.wfail = short, !.last = l]
      BY <2>4
    <3> HIDE DEF l, short
    <3>2. io' \in IoType /\ Same /\ io'.disk = io.disk /\ io'.offset = io.offset /\ io'.own = io.own
      BY <1>1, <2>2, <2>3, <3>1 DEF IoType
    <3>3. I!Conserved' /\ I!Untouched'
      BY <3>2, SamePlaces
    <3> QED BY <1>1, <1>3, <2>2, <3>2, <3>3 DEF IoInv, I!Ended, I!ReadKept
  <2>5. CASE io' = [said(n) EXCEPT !.disk = d, !.offset = @ + n, !.own = @ \cup new]
    <3>1. I!First(s, n) \in Seq(Octets) /\ Len(I!First(s, n)) = n
      BY <1>1, <2>3, SplitAt DEF I!First
    <3>2. /\ d \in Seq(Octets) /\ Len(d) >= Len(io.disk) /\ Len(d) >= io.offset + n /\ Len(d) \in Nat
          /\ Len(d) <= Len(io.disk) \/ Len(d) <= io.offset + n
          /\ \A i \in 1..Len(d) : i \notin new => i <= Len(io.disk) /\ d[i] = io.disk[i]
      BY <1>1, <2>3, <3>1, OverwrittenIs, LenProperties
    <3>3. own \in SUBSET Nat /\ own \subseteq 1..io.offset + n /\ io.offset + n \in Nat
      BY <1>1, <2>3
    <3>4. io' = [io EXCEPT !.error = short, !.wfail = short, !.last = l, !.disk = d,
                           !.offset = io.offset + n, !.own = own]
      BY <1>1, <2>5 DEF IoType
    <3>5. (1..io.offset + n) \ own = (1..io.offset) \ io.own
      BY <1>1, <2>3
    <3>6. /\ Len(io.file) <= Len(io.disk)
          /\ \A i \in (1..Len(io.disk)) \ io.own : i <= Len(io.file) /\ io.disk[i] = io.file[i]
      BY DEF IoInv, I!Untouched
    <3>7. \A i \in (1..Len(d)) \ own : i <= Len(io.file) /\ d[i] = io.file[i]
      <4> TAKE i \in (1..Len(d)) \ own
      <4>1. i \notin new /\ i \notin io.own
        OBVIOUS
      <4>2. i \in (1..Len(io.disk)) \ io.own /\ d[i] = io.disk[i]
        BY <3>2, <4>1
      <4> QED BY <3>6, <4>2
    <3> HIDE DEF l, short, d, own, new
    <3>8. Same /\ io'.disk = d /\ io'.offset = io.offset + n /\ io'.own = own
      BY <1>1, <3>4 DEF IoType
    <3>9. io' \in IoType
      BY <1>1, <2>2, <2>3, <3>2, <3>3, <3>4 DEF IoType
    <3>10. I!Conserved'
      BY <3>5, <3>8 DEF IoInv, I!Conserved
    <3>11. I!Untouched'
      BY <1>1, <3>2, <3>6, <3>7, <3>8 DEF I!Untouched
    <3>12. io'.offset <= Len(io'.disk) /\ io'.own \subseteq 1..io'.offset
      BY <3>2, <3>3, <3>8
    <3> QED BY <1>1, <1>3, <2>2, <3>8, <3>9, <3>10, <3>11, <3>12 DEF IoInv, I!Ended, I!ReadKept
  <2> QED BY <2>1, <2>4, <2>5
<1> QED BY <1>2, <1>3

\* The inductive step of FileReadsRight: one case per action of Io.
LEMMA NextIo == ASSUME IoInv, I!IoAssumption, [I!Next]_io PROVE IoInv'
<1>1. ASSUME I!Begin("read", 0) PROVE IoInv'
  BY <1>1, BeginStep DEF Args
<1>2. ASSUME NEW n \in 1..MaxBytes, I!Begin("readbytes", n) PROVE IoInv'
  <2>1. n \in Nat \ {0} /\ n \in Args
    BY DEF I!IoAssumption, Args
  <2> QED BY <1>2, <2>1, BeginStep
<1>3. ASSUME NEW d \in Delims, I!Begin("readuntil", d) PROVE IoInv'
  <2>1. d \in Seq(Octets) \ {<<>>} /\ d \in Args
    BY DEF I!IoAssumption, Args
  <2> QED BY <1>3, <2>1, BeginStep
<1>4. ASSUME NEW s \in Writes, I!spe_io_write(s) PROVE IoInv'
  BY <1>4, WriteStep DEF I!IoAssumption
<1>5. CASE UNCHANGED io
  BY <1>5 DEF IoInv, I!Ended, I!Conserved, I!Untouched, I!Unread, I!ReadKept
<1> QED BY <1>1, <1>2, <1>3, <1>4, <1>5, AnswerStep, EndStep, ReadSomeStep DEF I!Next

\* No byte of a file is lost, doubled or moved between read(2) and the user, and
\* every call that reads is told the truth about what it gives.
THEOREM FileReadsRight == ASSUME I!IoAssumption PROVE I!Spec => []I!ReadsKeepTheirWord
<1>1. I!Init => IoInv
  BY InitIo
<1>2. IoInv /\ [I!Next]_io => IoInv'
  BY NextIo
<1>3. IoInv => I!ReadsKeepTheirWord
  BY DEF IoInv, I!ReadsKeepTheirWord
<1> QED BY <1>1, <1>2, <1>3, PTL DEF I!Spec

----------------------------------------------------------------------------
(* The hash map (spe_map.c).                                               *)

Entry == [name : Names, obj : Objects]

\* The chain c of bucket b holds the items of the list l that hash to b, the newest first.
ChainOf(c, l, b) ==
  /\ c \in Seq(Entry)
  /\ \A k \in DOMAIN l : Hash(l[k].name) = b => \E i \in DOMAIN c : c[i] = l[k]
  /\ \A i \in DOMAIN c : \E k \in DOMAIN l : c[i] = l[k] /\ Hash(l[k].name) = b
  /\ \A i, j \in DOMAIN c, k, n \in DOMAIN l : i < j /\ c[i] = l[k] /\ c[j] = l[n] => n < k

\* Objects are stored once, names that fit as well.
ListOK(l) ==
  /\ l \in Seq(Entry)
  /\ \A i, j \in DOMAIN l : l[i].obj = l[j].obj => i = j
  /\ \A i, j \in DOMAIN l : M!Fits(l[i].name) /\ l[i].name = l[j].name => i = j

MapInv ==
  /\ DOMAIN map = {"chain", "list", "Len", "said"}
  /\ ListOK(map.list)
  /\ map.Len = Len(map.list)
  /\ DOMAIN map.chain = Buckets
  /\ \A b \in Buckets : ChainOf(map.chain[b], map.list, b)

\* strncpy of a key that was already cut to KeyMax changes nothing.
LEMMA KeptOnce ==
  ASSUME M!MapAssumption, NEW n \in Names
  PROVE  M!Kept(M!Kept(n)) = M!Kept(n)
<1>1. PICK S : n \in Seq(S)
  BY DEF M!MapAssumption
<1>2. Len(n) \in Nat /\ KeyMax \in Nat
  BY <1>1, LenProperties DEF M!MapAssumption
<1> DEFINE k == IF Len(n) < KeyMax THEN Len(n) ELSE KeyMax
           p == SubSeq(n, 1, k)
<1>3. k \in 0..Len(n) /\ (IF k < KeyMax THEN k ELSE KeyMax) = k
  BY <1>2
<1> HIDE DEF k
<1>4. p \in Seq(S) /\ Len(p) = k
  BY <1>1, <1>3, SplitAt
<1>5. SubSeq(p, 1, k) = p
  BY <1>4, SubSeqFull
<1>6. M!Kept(n) = p
  BY DEF M!Kept, k
<1> HIDE DEF p
<1>7. M!Kept(p) = SubSeq(p, 1, k)
  BY <1>3, <1>4 DEF M!Kept
<1> QED BY <1>5, <1>6, <1>7

\* What a search in the chain finds is the newest entry of the list that it looks for.
LEMMA SearchFinds ==
  ASSUME M!MapAssumption, MapInv, NEW key \in Names
  PROVE  \/ M!Search(key) = {} /\ M!Table!Found(key) = 0
         \/ /\ M!Table!Found(key) \in DOMAIN map.list
            /\ M!Search(key) = {map.list[M!Table!Found(key)]}
            /\ M!Kept(map.list[M!Table!Found(key)].name) = key
            /\ Hash(map.list[M!Table!Found(key)].name) = Hash(key)
<1> DEFINE l  == map.list
           b  == Hash(key)
           c  == map.chain[b]
           at == {i \in DOMAIN c : M!Kept(c[i].name) = key}
           in == {k \in DOMAIN l : key = M!Kept(l[k].name) /\ Hash(key) = Hash(l[k].name)}
<1>1. ChainOf(c, l, b) /\ ListOK(l)
  BY DEF MapInv, M!MapAssumption
<1>2. M!Search(key) = IF at = {} THEN {} ELSE {c[M!Min(at)]}
  BY DEF M!Search
<1>3. M!Table!Found(key) = IF in = {} THEN 0 ELSE M!Table!Max(in)
  BY DEF M!Table!Found, M!Same
<1>4. /\ DOMAIN c = 1..Len(c) /\ DOMAIN l = 1..Len(l) /\ Len(c) \in Nat /\ Len(l) \in Nat
  BY <1>1, LenProperties DEF ChainOf, ListOK
<1>5. \A k \in in : \E i \in at : c[i] = l[k]
  BY <1>1 DEF ChainOf
<1>6. \A i \in at : \E k \in in : c[i] = l[k]
  BY <1>1 DEF ChainOf
<1>7. /\ \A i, j \in DOMAIN l : l[i] = l[j] => i = j
      /\ \A i, j \in DOMAIN c, k, n \in DOMAIN l : i < j /\ c[i] = l[k] /\ c[j] = l[n] => n < k
  BY <1>1 DEF ListOK, ChainOf
<1>8. at \subseteq Nat /\ in \subseteq DOMAIN l /\ at \subseteq DOMAIN c
      /\ \A k \in in : M!Kept(l[k].name) = key /\ Hash(l[k].name) = Hash(key)
  BY <1>4
<1> HIDE DEF c, l, at, in
<1>9. CASE at = {}
  BY <1>2, <1>3, <1>5, <1>9
<1>10. CASE at # {}
  <2>1. PICK m \in at : \A i \in at : m <= i
    BY <1>8, <1>10, LeastNatural
  <2>2. M!Min(at) = m
    <3>1. M!Min(at) \in at /\ \A i \in at : M!Min(at) <= i
      BY <2>1 DEF M!Min
    <3>2. M!Min(at) \in Nat /\ m \in Nat
      BY <1>8, <3>1
    <3> QED BY <2>1, <3>1, <3>2
  <2>3. PICK k \in in : c[m] = l[k]
    BY <1>6, <2>1
  <2>4. \A n \in in : n <= k
    <3> SUFFICES ASSUME NEW n \in in PROVE n <= k
      OBVIOUS
    <3>1. PICK i \in at : c[i] = l[n]
      BY <1>5
    <3>2. CASE i = m
      BY <1>4, <1>7, <1>8, <2>3, <3>1, <3>2
    <3>3. CASE i # m
      BY <1>4, <1>7, <1>8, <2>1, <2>3, <3>1, <3>3
    <3> QED BY <3>2, <3>3
  <2>5. M!Table!Max(in) = k
    <3>1. \A x \in in : x \in Int
      BY <1>4, <1>8
    <3> QED BY <2>3, <2>4, <3>1 DEF M!Table!Max
  <2>6. M!Table!Found(key) = k /\ M!Search(key) = {l[k]}
    BY <1>2, <1>3, <1>10, <2>2, <2>3, <2>5
  <2> QED BY <1>8, <2>3, <2>6 DEF l
<1> QED BY <1>9, <1>10

\* An entry stored comes last in the list and first in its chain.
LEMMA ChainGrows ==
  ASSUME NEW c, NEW l, NEW b, NEW e \in Entry, ListOK(l), ChainOf(c, l, b),
         \A i \in DOMAIN l : l[i] # e
  PROVE  ChainOf(IF Hash(e.name) = b THEN <<e>> \o c ELSE c, Append(l, e), b)
<1> DEFINE l2 == Append(l, e)
           c2 == <<e>> \o c
<1>1. /\ l \in Seq(Entry) /\ c \in Seq(Entry) /\ Len(l) \in Nat /\ Len(c) \in Nat
      /\ DOMAIN l = 1..Len(l) /\ DOMAIN c = 1..Len(c)
  BY LenProperties DEF ListOK, ChainOf
<1>2. /\ l2 \in Seq(Entry) /\ DOMAIN l2 = 1..Len(l) + 1
      /\ \A i \in 1..Len(l) : l2[i] = l[i]
      /\ l2[Len(l) + 1] = e
  BY <1>1, AppendProperties, LenProperties
<1>3. /\ c2 \in Seq(Entry) /\ DOMAIN c2 = 1..Len(c) + 1 /\ c2[1] = e
      /\ \A i \in 1..Len(c) : c2[i + 1] = c[i]
  <2>1. <<e>> \in Seq(Entry) /\ Len(<<e>>) = 1 /\ <<e>>[1] = e
    OBVIOUS
  <2>2. /\ c2 \in Seq(Entry) /\ Len(c2) = 1 + Len(c)
        /\ \A i \in 1..(1 + Len(c)) : c2[i] = IF i <= 1 THEN <<e>>[i] ELSE c[i - 1]
    BY <1>1, <2>1, ConcatProperties
  <2>3. DOMAIN c2 = 1..Len(c) + 1
    BY <1>1, <2>2, LenProperties
  <2> HIDE DEF c2
  <2> QED BY <1>1, <2>1, <2>2, <2>3
<1> HIDE DEF l2, c2
<1>4. CASE Hash(e.name) = b
  <2>1. ASSUME NEW k \in DOMAIN l2, Hash(l2[k].name) = b
        PROVE  \E i \in DOMAIN c2 : c2[i] = l2[k]
    <3>1. CASE k = Len(l) + 1
      BY <1>1, <1>2, <1>3, <3>1, SMTT(20)
    <3>2. CASE k \in DOMAIN l
      <4>1. PICK i \in DOMAIN c : c[i] = l[k]
        BY <1>1, <1>2, <2>1, <3>2 DEF ChainOf
      <4>2. i + 1 \in DOMAIN c2 /\ c2[i + 1] = l2[k]
        BY <1>1, <1>2, <1>3, <3>2, <4>1
      <4> QED BY <4>2
    <3> QED BY <1>1, <1>2, <3>1, <3>2
  <2>2. ASSUME NEW i \in DOMAIN c2
        PROVE  \E k \in DOMAIN l2 : c2[i] = l2[k] /\ Hash(l2[k].name) = b
    <3>1. CASE i = 1
      <4>1. Len(l) + 1 \in DOMAIN l2
        BY <1>1, <1>2
      <4> QED BY <1>2, <1>3, <1>4, <3>1, <4>1
    <3>2. CASE i # 1
      <4>1. i - 1 \in DOMAIN c /\ c2[i] = c[i - 1]
        BY <1>1, <1>3, <3>2
      <4>2. PICK k \in DOMAIN l : c[i - 1] = l[k] /\ Hash(l[k].name) = b
        BY <4>1 DEF ChainOf
      <4>3. k \in DOMAIN l2 /\ l2[k] = l[k]
        BY <1>1, <1>2
      <4> QED BY <4>1, <4>2, <4>3
    <3> QED BY <3>1, <3>2
  <2>3. ASSUME NEW i \in DOMAIN c2, NEW j \in DOMAIN c2, NEW k \in DOMAIN l2, NEW n \in DOMAIN l2,
               i < j, c2[i] = l2[k], c2[j] = l2[n]
        PROVE  n < k
    <3>1. j - 1 \in DOMAIN c /\ c2[j] = c[j - 1]
      BY <1>1, <1>3, <2>3
    <3>2. c[j - 1] # e
      <4>1. PICK m \in DOMAIN l : c[j - 1] = l[m]
        BY <3>1 DEF ChainOf
      <4> QED BY <4>1
    <3>3. n \in DOMAIN l /\ l2[n] = l[n]
      <4>1. n # Len(l) + 1
        BY <1>2, <2>3, <3>1, <3>2
      <4> QED BY <1>1, <1>2, <4>1
    <3>4. CASE i = 1
      <4>1. k = Len(l) + 1
        BY <1>1, <1>2, <1>3, <2>3, <3>4
      <4> QED BY <1>1, <3>3, <4>1
    <3>5. CASE i # 1
      <4>1. i - 1 \in DOMAIN c /\ c2[i] = c[i - 1]
        BY <1>1, <1>3, <3>5
      <4>2. c[i - 1] # e
        <5>1. PICK m \in DOMAIN l : c[i - 1] = l[m]
          BY <4>1 DEF ChainOf
        <5> QED BY <5>1
      <4>3. k \in DOMAIN l /\ l2[k] = l[k]
        <5>1. k # Len(l) + 1
          BY <1>2, <2>3, <4>1, <4>2
        <5> QED BY <1>1, <1>2, <5>1
      <4>4. i - 1 < j - 1
        BY <1>1, <1>3, <2>3
      <4>5. c[i - 1] = l[k] /\ c[j - 1] = l[n]
        BY <2>3, <3>1, <3>3, <4>1, <4>3
      <4> QED BY <3>1, <3>3, <4>1, <4>3, <4>4, <4>5 DEF ChainOf
    <3> QED BY <3>4, <3>5
  <2> QED BY <1>3, <1>4, <2>1, <2>2, <2>3 DEF ChainOf, c2, l2
<1>5. CASE Hash(e.name) # b
  <2>1. ASSUME NEW k \in DOMAIN l2, Hash(l2[k].name) = b
        PROVE  \E i \in DOMAIN c : c[i] = l2[k]
    BY <1>1, <1>2, <1>5, <2>1 DEF ChainOf
  <2>2. ASSUME NEW i \in DOMAIN c
        PROVE  \E k \in DOMAIN l2 : c[i] = l2[k] /\ Hash(l2[k].name) = b
    <3>1. PICK k \in DOMAIN l : c[i] = l[k] /\ Hash(l[k].name) = b
      BY DEF ChainOf
    <3>2. k \in DOMAIN l2 /\ l2[k] = l[k]
      BY <1>1, <1>2
    <3> QED BY <3>1, <3>2
  <2>3. ASSUME NEW i \in DOMAIN c, NEW j \in DOMAIN c, NEW k \in DOMAIN l2, NEW n \in DOMAIN l2,
               i < j, c[i] = l2[k], c[j] = l2[n]
        PROVE  n < k
    <3>1. c[i] # e /\ c[j] # e
      BY DEF ChainOf
    <3>2. k \in DOMAIN l /\ l2[k] = l[k] /\ n \in DOMAIN l /\ l2[n] = l[n]
      BY <1>1, <1>2, <2>3, <3>1
    <3> QED BY <2>3, <3>2 DEF ChainOf
  <2> QED BY <1>1, <1>5, <2>1, <2>2, <2>3 DEF ChainOf, l2
<1> QED BY <1>4, <1>5

\* The module SpeMap has its own copy of the sequence operators.
LEMMA SameRemoveFirst == ASSUME NEW q, NEW e PROVE M!RemoveFirst(q, e) = RemoveFirst(q, e)
  BY DEF M!RemoveFirst, M!RemoveAt, M!SelectInSeq, M!Min, RemoveFirst, RemoveAt, SelectInSeq, Min

\* An entry deleted leaves the list and its chain, and the others stay where they are.
LEMMA ChainShrinks ==
  ASSUME NEW c, NEW l, NEW b, ListOK(l), ChainOf(c, l, b), NEW m \in DOMAIN l
  PROVE  ChainOf(M!RemoveFirst(c, l[m]), RemoveAt(l, m), b)
<1> DEFINE l2 == RemoveAt(l, m)
<1>1. /\ l \in Seq(Entry) /\ c \in Seq(Entry) /\ Len(l) \in Nat /\ Len(c) \in Nat
      /\ DOMAIN l = 1..Len(l) /\ DOMAIN c = 1..Len(c)
      /\ \A i, j \in DOMAIN l : l[i] = l[j] => i = j
  BY LenProperties DEF ListOK, ChainOf
<1>2. /\ l2 \in Seq(Entry)
      /\ \A i \in DOMAIN l2 : Old(i, m) \in DOMAIN l /\ Old(i, m) # m /\ l2[i] = l[Old(i, m)]
      /\ \A i, j \in DOMAIN l2 : (i < j <=> Old(i, m) < Old(j, m))
      /\ \A k \in DOMAIN l : k # m => \E i \in DOMAIN l2 : k = Old(i, m)
  <2>1. l2 \in Seq(Entry) /\ Shortened(l2, l, m)
    BY <1>1, RemoveAtOld
  <2> HIDE DEF l2
  <2> QED BY <2>1 DEF Shortened
<1> HIDE DEF l2
<1>3. CASE \A i \in DOMAIN c : c[i] # l[m]
  <2>1. M!RemoveFirst(c, l[m]) = c
    BY <1>1, <1>3 DEF M!RemoveFirst
  <2>2. ASSUME NEW k \in DOMAIN l2, Hash(l2[k].name) = b
        PROVE  \E i \in DOMAIN c : c[i] = l2[k]
    BY <1>1, <1>2, <2>2 DEF ChainOf
  <2>3. ASSUME NEW i \in DOMAIN c
        PROVE  \E k \in DOMAIN l2 : c[i] = l2[k] /\ Hash(l2[k].name) = b
    <3>1. PICK k \in DOMAIN l : c[i] = l[k] /\ Hash(l[k].name) = b
      BY DEF ChainOf
    <3>2. k # m
      BY <1>3, <3>1
    <3>3. PICK n \in DOMAIN l2 : k = Old(n, m)
      BY <1>2, <3>2
    <3> QED BY <1>2, <3>1, <3>3
  <2>4. ASSUME NEW i \in DOMAIN c, NEW j \in DOMAIN c, NEW k \in DOMAIN l2, NEW n \in DOMAIN l2,
               i < j, c[i] = l2[k], c[j] = l2[n]
        PROVE  n < k
    BY <1>2, <2>4 DEF ChainOf
  <2> QED BY <1>1, <2>1, <2>2, <2>3, <2>4 DEF ChainOf, l2
<1>4. CASE \E i \in DOMAIN c : c[i] = l[m]
  <2>1. PICK p \in DOMAIN c : c[p] = l[m]
    BY <1>4
  <2>2. IsInjective(c)
    <3> SUFFICES ASSUME NEW i \in DOMAIN c, NEW j \in DOMAIN c, c[i] = c[j], i < j PROVE FALSE
      BY <1>1 DEF IsInjective
    <3>1. PICK k \in DOMAIN l : c[i] = l[k]
      BY DEF ChainOf
    <3>2. k < k
      BY <3>1 DEF ChainOf
    <3> QED BY <1>1, <3>2
  <2> DEFINE c2 == RemoveAt(c, p)
  <2>3. M!RemoveFirst(c, l[m]) = c2
    BY <1>1, <2>1, <2>2, RemoveFirstAt, SameRemoveFirst
  <2>4. /\ c2 \in Seq(Entry)
        /\ \A i \in DOMAIN c2 : Old(i, p) \in DOMAIN c /\ Old(i, p) # p /\ c2[i] = c[Old(i, p)]
        /\ \A i, j \in DOMAIN c2 : (i < j <=> Old(i, p) < Old(j, p))
        /\ \A k \in DOMAIN c : k # p => \E i \in DOMAIN c2 : k = Old(i, p)
    <3>1. c \in Seq(Entry) /\ p \in DOMAIN c
      BY <1>1, <2>1
    <3>2. c2 \in Seq(Entry) /\ Shortened(c2, c, p)
      BY <3>1, RemoveAtOld
    <3> HIDE DEF c2
    <3> QED BY <3>2 DEF Shortened
  <2> HIDE DEF c2
  <2>5. ASSUME NEW k \in DOMAIN l2, Hash(l2[k].name) = b
        PROVE  \E i \in DOMAIN c2 : c2[i] = l2[k]
    <3>1. l2[k] = l[Old(k, m)] /\ Old(k, m) \in DOMAIN l /\ Old(k, m) # m
      BY <1>2
    <3>2. PICK i \in DOMAIN c : c[i] = l2[k]
      BY <2>5, <3>1 DEF ChainOf
    <3>3. i # p
      BY <1>1, <2>1, <3>1, <3>2
    <3> QED BY <2>4, <3>2, <3>3
  <2>6. ASSUME NEW i \in DOMAIN c2
        PROVE  \E k \in DOMAIN l2 : c2[i] = l2[k] /\ Hash(l2[k].name) = b
    <3>1. PICK k \in DOMAIN l : c2[i] = l[k] /\ Hash(l[k].name) = b
      BY <2>4 DEF ChainOf
    <3>2. k # m
      BY <2>1, <2>2, <2>4, <3>1 DEF IsInjective
    <3>3. PICK n \in DOMAIN l2 : k = Old(n, m)
      BY <1>2, <3>2
    <3> QED BY <1>2, <3>1, <3>3
  <2>7. ASSUME NEW i \in DOMAIN c2, NEW j \in DOMAIN c2, NEW k \in DOMAIN l2, NEW n \in DOMAIN l2,
               i < j, c2[i] = l2[k], c2[j] = l2[n]
        PROVE  n < k
    <3>1. /\ c[Old(i, p)] = l[Old(k, m)] /\ c[Old(j, p)] = l[Old(n, m)] /\ Old(i, p) < Old(j, p)
          /\ Old(i, p) \in DOMAIN c /\ Old(j, p) \in DOMAIN c
          /\ Old(k, m) \in DOMAIN l /\ Old(n, m) \in DOMAIN l
      BY <1>2, <2>4, <2>7
    <3>2. Old(n, m) < Old(k, m)
      BY <3>1 DEF ChainOf
    <3> QED BY <1>2, <3>2
  <2> QED BY <2>3, <2>4, <2>5, <2>6, <2>7 DEF ChainOf, l2
<1> QED BY <1>3, <1>4

\* SpeMapClean: when every item is freed, the list is empty.
LEMMA AllGone ==
  ASSUME NEW l \in Seq(Entry), NEW gone, \A k \in DOMAIN l : l[k] \in gone
  PROVE  M!Left(l, gone) = <<>>
<1>1. Len(l) \in Nat /\ DOMAIN l = 1..Len(l)
  BY LenProperties
<1> DEFINE G(u) == [i \in 0..Len(l) |->
                      IF i = 0 THEN <<>>
                      ELSE IF l[i] \in gone THEN u[i - 1] ELSE Append(u[i - 1], l[i])]
           f == CHOOSE u : u = G(u)
           w == [i \in 0..Len(l) |-> <<>>]
<1>2. w = G(w)
  <2>1. ASSUME NEW i \in 0..Len(l)
        PROVE  G(w)[i] = <<>>
    <3>1. CASE i = 0
      BY <3>1
    <3>2. CASE i # 0
      <4>1. i - 1 \in 0..Len(l) /\ i \in DOMAIN l
        BY <1>1, <3>2
      <4> QED BY <3>2, <4>1
    <3> QED BY <3>1, <3>2
  <2> QED BY <2>1
<1>3. f = G(f)
  <2> HIDE DEF w, G
  <2> QED BY <1>2
<1>4. \A i \in 0..Len(l) : f[i] = G(f)[i]
  <2> HIDE DEF f, G
  <2> QED BY <1>3
<1>5. M!Left(l, gone) = f[Len(l)]
  BY DEF M!Left
<1> HIDE DEF f
<1>6. /\ f[0] = <<>>
      /\ \A i \in 1..Len(l) : f[i] = f[i - 1]
  BY <1>1, <1>4
<1> DEFINE T == {i \in 0..Len(l) : f[i] # <<>>}
<1>7. CASE T = {}
  BY <1>1, <1>5, <1>7
<1>8. CASE T # {}
  <2>1. T \subseteq Nat
    BY <1>1
  <2>2. \A i \in T : i \in 0..Len(l) /\ f[i] # <<>>
    OBVIOUS
  <2>3. \A i \in 0..Len(l) : f[i] # <<>> => i \in T
    OBVIOUS
  <2> HIDE DEF T
  <2>4. PICK i \in T : \A j \in T : i <= j
    BY <1>8, <2>1, LeastNatural
  <2>5. i \in 1..Len(l) /\ i - 1 \in 0..Len(l)
    BY <1>1, <1>6, <2>2
  <2>6. f[i - 1] # <<>>
    BY <1>6, <2>2, <2>5
  <2> QED BY <1>1, <2>3, <2>4, <2>5, <2>6
<1> QED BY <1>7, <1>8

\* SpeMapCreate: the empty chains hold the empty list.
LEMMA InitMap ==
  ASSUME M!MapAssumption, M!Init
  PROVE  MapInv /\ M!Table!Init
<1>1. map = [chain |-> [b \in Buckets |-> <<>>], list |-> <<>>, Len |-> 0,
             said |-> <<"create">>]
  BY DEF M!Init
<1>2. ListOK(<<>>)
  BY DEF ListOK
<1>3. \A b \in Buckets : ChainOf(<<>>, <<>>, b)
  BY DEF ChainOf
<1> QED BY <1>1, <1>2, <1>3 DEF MapInv, M!Table!Init

\* The list with one entry more.
LEMMA ListGrows ==
  ASSUME NEW l, NEW e \in Entry, ListOK(l), \A i \in DOMAIN l : l[i].obj # e.obj,
         \A i \in DOMAIN l : ~(M!Fits(e.name) /\ l[i].name = e.name)
  PROVE  ListOK(Append(l, e)) /\ Len(Append(l, e)) = Len(l) + 1
<1> DEFINE l2 == Append(l, e)
<1>1. l \in Seq(Entry) /\ Len(l) \in Nat /\ DOMAIN l = 1..Len(l)
  BY LenProperties DEF ListOK
<1>2. /\ l2 \in Seq(Entry) /\ Len(l2) = Len(l) + 1 /\ DOMAIN l2 = 1..Len(l) + 1
      /\ \A i \in 1..Len(l) : l2[i] = l[i]
      /\ l2[Len(l) + 1] = e
  BY <1>1, AppendProperties, LenProperties
<1> HIDE DEF l2
<1>3. \A i, j \in DOMAIN l2 : l2[i].obj = l2[j].obj => i = j
  BY <1>1, <1>2 DEF ListOK
<1>4. ASSUME NEW i \in DOMAIN l2, NEW j \in DOMAIN l2, M!Fits(l2[i].name), l2[i].name = l2[j].name
      PROVE  i = j
  <2>1. CASE i \in DOMAIN l /\ j \in DOMAIN l
    BY <1>1, <1>2, <1>4, <2>1 DEF ListOK
  <2>2. CASE i = Len(l) + 1 /\ j \in DOMAIN l
    BY <1>1, <1>2, <1>4, <2>2
  <2>3. CASE i \in DOMAIN l /\ j = Len(l) + 1
    BY <1>1, <1>2, <1>4, <2>3
  <2> QED BY <1>1, <1>2, <2>1, <2>2, <2>3
<1> QED BY <1>2, <1>3, <1>4 DEF ListOK, l2

\* Deleting an entry keeps objects and fitting names unique.
LEMMA ListShrinks ==
  ASSUME NEW l, NEW m \in DOMAIN l, ListOK(l)
  PROVE  ListOK(RemoveAt(l, m)) /\ Len(RemoveAt(l, m)) = Len(l) - 1
<1> DEFINE l2 == RemoveAt(l, m)
<1>1. l2 \in Seq(Entry) /\ Shortened(l2, l, m)
  BY RemoveAtOld DEF ListOK
<1>2. l \in Seq(Entry) /\ Len(l) \in Nat /\ DOMAIN l = 1..Len(l)
  BY LenProperties DEF ListOK
<1> HIDE DEF l2
<1>3. \A i, j \in DOMAIN l2 : Old(i, m) = Old(j, m) => i = j
  <2>1. \A i \in DOMAIN l2 : i \in Int /\ Old(i, m) \in Int
    BY <1>1, <1>2 DEF Shortened
  <2> QED BY <1>1, <2>1 DEF Shortened
<1>4. \A i, j \in DOMAIN l2 : l2[i].obj = l2[j].obj => i = j
  BY <1>1, <1>3 DEF ListOK, Shortened
<1>5. \A i, j \in DOMAIN l2 : M!Fits(l2[i].name) /\ l2[i].name = l2[j].name => i = j
  BY <1>1, <1>3 DEF ListOK, Shortened
<1> QED BY <1>1, <1>4, <1>5 DEF ListOK, Shortened, l2

\* What a search returns.
LEMMA SearchedFor ==
  ASSUME M!MapAssumption, MapInv, NEW key \in Names
  PROVE  \/ M!Search(key) = {} /\ M!Table!Found(key) = 0
         \/ /\ M!Table!Found(key) \in DOMAIN map.list
            /\ M!Search(key) # {} /\ M!Table!Found(key) # 0
            /\ (CHOOSE i \in M!Search(key) : TRUE) = map.list[M!Table!Found(key)]
<1> DEFINE f == M!Table!Found(key)
<1>1. \/ M!Search(key) = {} /\ f = 0
      \/ f \in DOMAIN map.list /\ M!Search(key) = {map.list[f]}
  BY SearchFinds
<1>2. \A k \in DOMAIN map.list : k # 0
  BY LenProperties DEF MapInv, ListOK
<1> HIDE DEF f
<1>3. \A x : (CHOOSE i \in {x} : TRUE) = x
  OBVIOUS
<1> QED BY <1>1, <1>2, <1>3 DEF f

\* A call that leaves the map alone.
LEMMA MapStays ==
  ASSUME MapInv, NEW call, NEW arg, NEW answer, NEW gone, M!Does(map, call, arg, answer, gone)
  PROVE  /\ MapInv' /\ map'.list = map.list
         /\ map'.said = <<call, arg, answer, gone>>
<1>1. map' = [map EXCEPT !.said = <<call, arg, answer, gone>>]
  BY DEF M!Does
<1>2. /\ DOMAIN map' = DOMAIN map /\ map'.list = map.list /\ map'.Len = map.Len
      /\ map'.chain = map.chain /\ map'.said = <<call, arg, answer, gone>>
  BY <1>1 DEF MapInv
<1> QED BY <1>2 DEF MapInv

\* SpeMapGet gives what the table has, and changes nothing.
LEMMA GetStep ==
  ASSUME M!MapAssumption, MapInv, NEW key \in Names, M!SpeMapGet(key)
  PROVE  MapInv' /\ M!Table!Get(key)
<1> DEFINE a == IF M!Search(key) = {} THEN Nobody ELSE (CHOOSE i \in M!Search(key) : TRUE).obj
<1>1. M!Does(map, "get", key, a, {})
  BY DEF M!SpeMapGet
<1>2. a = IF M!Table!Found(key) = 0 THEN Nobody ELSE map.list[M!Table!Found(key)].obj
  <2>1. CASE M!Search(key) = {}
    BY <2>1, SearchedFor
  <2>2. CASE M!Search(key) # {}
    <3> DEFINE i == CHOOSE i \in M!Search(key) : TRUE
    <3>1. i = map.list[M!Table!Found(key)] /\ M!Table!Found(key) # 0
      BY <2>2, SearchedFor
    <3>2. a = i.obj
      BY <2>2
    <3> HIDE DEF i, a
    <3> QED BY <3>1, <3>2
  <2> QED BY <2>1, <2>2
<1> HIDE DEF a
<1> QED BY <1>1, <1>2, MapStays DEF M!Table!Get, M!Table!Call

\* SpeMapNext goes to the following entry of the list, and changes nothing.
LEMMA NextStep ==
  ASSUME MapInv, NEW i \in 0..Len(map.list), M!SpeMapNext(i)
  PROVE  MapInv' /\ M!Table!Following
<1> DEFINE a == IF i = 0 THEN Nobody ELSE map.list[i].obj
           r == IF i = Len(map.list) THEN Nobody ELSE map.list[i + 1].obj
<1>1. M!Does(map, "next", a, r, {})
  BY DEF M!SpeMapNext
<1>2. MapInv' /\ map'.list = map.list /\ map'.said = <<"next", a, r, {}>>
  BY <1>1, MapStays
<1> QED BY <1>2 DEF M!Table!Following, M!Table!Call

\* SpeMapSet: a fitting key that is not there gets its object, in the chain and
\* in the list; one that is there is refused.
LEMMA SetStep ==
  ASSUME M!MapAssumption, MapInv, NEW key \in Names, NEW obj \in Objects, M!SpeMapSet(key, obj)
  PROVE  MapInv' /\ M!Table!Set(key, obj)
<1> DEFINE item == [name |-> key, obj |-> obj]
           l == map.list
<1>1. \A i \in DOMAIN l : l[i].obj # obj
  BY DEF M!SpeMapSet
<1>2. obj \notin {l[i].obj : i \in DOMAIN l}
  BY <1>1
<1>3. CASE M!Conflict(key)
  <2>1. M!Does(map, "set", key, "conflict", {})
    BY <1>3 DEF M!SpeMapSet
  <2>2. M!Table!Found(key) # 0
    BY <1>3, SearchedFor DEF M!Conflict
  <2> QED BY <1>2, <2>1, <2>2, MapStays DEF M!Table!Set, M!Table!Call
<1>4. CASE ~M!Conflict(key)
  <2>1. M!Table!Found(key) = 0
    BY <1>4, SearchedFor DEF M!Conflict
  <2>2. CASE M!Does(map, "set", key, "error", {})
    BY <1>2, <2>1, <2>2, MapStays DEF M!Table!Set, M!Table!Call
  <2>3. CASE M!Does([map EXCEPT !.list = Append(@, item),
                                !.chain[Hash(key)] = <<item>> \o @, !.Len = @ + 1],
                    "set", key, "ok", {})
    <3>1. /\ DOMAIN map' = DOMAIN map /\ map'.list = Append(l, item) /\ map'.Len = map.Len + 1
          /\ map'.chain = [map.chain EXCEPT ![Hash(key)] = <<item>> \o @]
          /\ map'.said = <<"set", key, "ok", {}>>
      BY <2>3 DEF M!Does, MapInv
    <3>2. item \in Entry /\ item.name = key /\ item.obj = obj
      BY DEF Entry
    <3> HIDE DEF item
    <3>3. \A i \in DOMAIN l : ~(M!Fits(key) /\ l[i].name = key)
      <4> SUFFICES ASSUME NEW i \in DOMAIN l, M!Fits(key), l[i].name = key PROVE FALSE
        OBVIOUS
      <4>1. M!Search(key) # {}
        <5>1. PICK j \in DOMAIN map.chain[Hash(key)] : map.chain[Hash(key)][j] = l[i]
          BY DEF MapInv, ChainOf, M!MapAssumption
        <5> QED BY <5>1 DEF M!Search, M!Fits
      <4> QED BY <1>4, <4>1 DEF M!Conflict
    <3>4. ListOK(Append(l, item)) /\ Len(Append(l, item)) = Len(l) + 1
      BY <1>1, <3>2, <3>3, ListGrows DEF MapInv
    <3>5. ASSUME NEW b \in Buckets PROVE ChainOf(map'.chain[b], Append(l, item), b)
      <4>1. map'.chain[b] = IF Hash(key) = b THEN <<item>> \o map.chain[b] ELSE map.chain[b]
        BY <3>1 DEF MapInv
      <4>2. ListOK(l) /\ ChainOf(map.chain[b], l, b) /\ \A i \in DOMAIN l : l[i] # item
        BY <1>1, <3>2 DEF MapInv
      <4>3. ChainOf(IF Hash(item.name) = b THEN <<item>> \o map.chain[b] ELSE map.chain[b],
                    Append(l, item), b)
        BY <3>2, <4>2, ChainGrows
      <4> QED BY <3>2, <4>1, <4>3
    <3>6. MapInv'
      BY <3>1, <3>4, <3>5 DEF MapInv
    <3> QED BY <1>2, <2>1, <3>1, <3>6 DEF M!Table!Set, M!Table!Call, item
  <2> QED BY <1>4, <2>2, <2>3 DEF M!SpeMapSet
<1> QED BY <1>3, <1>4

\* SpeMapDel takes the item found out of its chain and out of the list.
LEMMA DelStep ==
  ASSUME M!MapAssumption, MapInv, NEW key \in Names, M!SpeMapDel(key)
  PROVE  MapInv' /\ M!Table!Del(key)
<1> DEFINE l == map.list
           f == M!Table!Found(key)
<1>1. CASE M!Search(key) = {}
  <2>1. M!Does(map, "del", key, FALSE, {})
    BY <1>1 DEF M!SpeMapDel
  <2>2. f = 0
    BY <1>1, SearchedFor
  <2> QED BY <2>1, <2>2, MapStays DEF M!Table!Del, M!Table!Call
<1>2. CASE M!Search(key) # {}
  <2> DEFINE item == CHOOSE i \in M!Search(key) : TRUE
  <2>1. f \in DOMAIN l /\ f # 0 /\ item = l[f]
    BY <1>2, SearchedFor
  <2>2. M!Does([map EXCEPT !.list = M!RemoveFirst(@, item), !.Len = @ - 1,
                           !.chain = [b \in Buckets |-> M!RemoveFirst(@[b], item)]],
               "del", key, TRUE, {item.obj})
    BY <1>2 DEF M!SpeMapDel
  <2> HIDE DEF item, f
  <2>3. /\ DOMAIN map' = DOMAIN map /\ map'.list = M!RemoveFirst(l, item)
        /\ map'.Len = map.Len - 1
        /\ map'.chain = [b \in Buckets |-> M!RemoveFirst(map.chain[b], item)]
        /\ map'.said = <<"del", key, TRUE, {item.obj}>>
    BY <2>2 DEF M!Does, MapInv
  <2>4. ListOK(l)
    BY DEF MapInv
  <2>5. M!RemoveFirst(l, item) = RemoveAt(l, f)
    <3>1. l \in Seq(Entry) /\ IsInjective(l)
      BY <2>4 DEF ListOK, IsInjective
    <3>2. RemoveFirst(l, l[f]) = RemoveAt(l, f)
      BY <2>1, <3>1, RemoveFirstAt
    <3> QED BY <2>1, <3>2, SameRemoveFirst
  <2>6. ListOK(RemoveAt(l, f)) /\ Len(RemoveAt(l, f)) = Len(l) - 1
    BY <2>1, <2>4, ListShrinks
  <2>7. ASSUME NEW b \in Buckets PROVE ChainOf(map'.chain[b], RemoveAt(l, f), b)
    <3>1. map'.chain[b] = M!RemoveFirst(map.chain[b], l[f])
      BY <2>1, <2>3
    <3>2. ChainOf(map.chain[b], l, b)
      BY DEF MapInv
    <3>3. ChainOf(M!RemoveFirst(map.chain[b], l[f]), RemoveAt(l, f), b)
      BY <2>1, <2>4, <3>2, ChainShrinks
    <3> QED BY <3>1, <3>3
  <2>8. MapInv'
    BY <2>3, <2>5, <2>6, <2>7 DEF MapInv
  <2>9. map'.list = M!Table!RemoveAt(l, f)
    BY <2>3, <2>5 DEF M!Table!RemoveAt, RemoveAt
  <2> QED BY <2>1, <2>3, <2>8, <2>9 DEF M!Table!Del, M!Table!Call, f
<1> QED BY <1>1, <1>2

\* SpeMapClean frees every item it walks over, and those are all.
LEMMA CleanStep ==
  ASSUME MapInv, M!MapAssumption, M!SpeMapClean
  PROVE  MapInv' /\ M!Table!Clean
<1> DEFINE l == map.list
           gone == UNION {M!Range(map.chain[b]) : b \in Buckets}
           objs == {i.obj : i \in gone}
<1>1. M!Does([map EXCEPT !.chain = [b \in Buckets |-> <<>>], !.Len = 0,
                         !.list = M!Left(@, gone)],
             "clean", Nobody, TRUE, objs)
  BY DEF M!SpeMapClean
<1>2. \A i : i \in gone <=> \E k \in DOMAIN l : i = l[k]
  <2>1. ASSUME NEW k \in DOMAIN l PROVE l[k] \in gone
    <3>1. l \in Seq(Entry)
      BY DEF MapInv, ListOK
    <3>2. l[k].name \in Names
      <4>1. l[k] \in Entry
        BY <3>1, LenProperties, ElementOfSeq
      <4> QED BY <4>1 DEF Entry
    <3>3. Hash(l[k].name) \in Buckets
      BY <3>2 DEF M!MapAssumption
    <3>4. PICK i \in DOMAIN map.chain[Hash(l[k].name)] : map.chain[Hash(l[k].name)][i] = l[k]
      BY <3>3 DEF MapInv, ChainOf
    <3> QED BY <3>3, <3>4 DEF M!Range
  <2>2. ASSUME NEW i \in gone PROVE \E k \in DOMAIN l : i = l[k]
    <3>1. PICK b \in Buckets : i \in M!Range(map.chain[b])
      OBVIOUS
    <3>2. PICK j \in DOMAIN map.chain[b] : i = map.chain[b][j]
      BY <3>1 DEF M!Range
    <3> QED BY <3>2 DEF MapInv, ChainOf
  <2> HIDE DEF gone
  <2> QED BY <2>1, <2>2
<1>3. objs = {l[k].obj : k \in DOMAIN l}
  <2> HIDE DEF gone
  <2> QED BY <1>2
<1> HIDE DEF objs, gone
<1>4. M!Left(l, gone) = <<>>
  BY <1>2, AllGone DEF MapInv, ListOK
<1>5. /\ DOMAIN map' = DOMAIN map /\ map'.list = <<>> /\ map'.Len = 0
      /\ map'.chain = [b \in Buckets |-> <<>>]
      /\ map'.said = <<"clean", Nobody, TRUE, objs>>
  BY <1>1, <1>4 DEF M!Does, MapInv
<1>6. ListOK(<<>>)
  BY DEF ListOK
<1>7. \A b \in Buckets : ChainOf(<<>>, <<>>, b)
  BY DEF ChainOf
<1>8. MapInv'
  BY <1>5, <1>6, <1>7 DEF MapInv
<1> QED BY <1>3, <1>5, <1>8 DEF M!Table!Clean, M!Table!Call

\* What the map keeps true.
LEMMA MapIsTidy ==
  ASSUME M!MapAssumption, MapInv
  PROVE  M!Tidy
<1> DEFINE l == map.list
<1>1. ListOK(l) /\ map.Len = Len(l)
  BY DEF MapInv
<1>2. M!IsInjective(l)
  BY <1>1 DEF ListOK, M!IsInjective
<1>3. \A i : i \in M!Items <=> \E k \in DOMAIN l : i = l[k]
  BY DEF M!Items, M!Range
<1>4. ASSUME NEW b \in Buckets
      PROVE  M!Range(map.chain[b]) = {i \in M!Items : Hash(i.name) = b}
  <2>1. ChainOf(map.chain[b], l, b)
    BY DEF MapInv
  <2> QED BY <1>3, <2>1 DEF ChainOf, M!Range
<1>5. \A i, j \in M!Items : M!Fits(i.name) /\ i.name = j.name => i = j
  BY <1>1, <1>3 DEF ListOK
<1>6. ASSUME NEW name \in Names, ~M!Fits(name)
      PROVE  M!Search(name) = {}
  <2> SUFFICES ASSUME M!Search(name) # {} PROVE FALSE
    OBVIOUS
  <2> DEFINE f == M!Table!Found(name)
  <2>1. f \in DOMAIN l /\ M!Kept(l[f].name) = name
    BY SearchFinds
  <2> HIDE DEF f
  <2>2. l[f] \in Entry
    BY <1>1, <2>1, LenProperties, ElementOfSeq DEF ListOK
  <2>3. l[f].name \in Names
    BY <2>2 DEF Entry
  <2> QED BY <1>6, <2>1, <2>3, KeptOnce DEF M!Fits
<1> QED BY <1>1, <1>2, <1>4, <1>5, <1>6 DEF M!Tidy

\* The refinement step: every operation of the map is one of the table, or nothing.
LEMMA MapStep ==
  ASSUME M!MapAssumption, MapInv, [M!Next]_map
  PROVE  MapInv' /\ [M!Table!Next]_(M!Table!vars)
<1>1. ASSUME NEW key \in Names, M!SpeMapGet(key) PROVE MapInv' /\ M!Table!Next
  BY <1>1, GetStep DEF M!Table!Next
<1>2. ASSUME NEW key \in Names, M!SpeMapDel(key) PROVE MapInv' /\ M!Table!Next
  BY <1>2, DelStep DEF M!Table!Next
<1>3. ASSUME NEW key \in Names, NEW obj \in Objects, M!SpeMapSet(key, obj)
      PROVE  MapInv' /\ M!Table!Next
  BY <1>3, SetStep DEF M!Table!Next
<1>4. ASSUME M!SpeMapClean PROVE MapInv' /\ M!Table!Next
  BY <1>4, CleanStep DEF M!Table!Next
<1>5. ASSUME NEW i \in 0..Len(map.list), M!SpeMapNext(i) PROVE MapInv' /\ M!Table!Next
  BY <1>5, NextStep DEF M!Table!Next
<1>6. CASE UNCHANGED map
  BY <1>6 DEF MapInv, M!Table!vars
<1> QED BY <1>1, <1>2, <1>3, <1>4, <1>5, <1>6 DEF M!Next

\* Every behaviour of the chained hash map is one of a table with the names as keys
\* (KeyTable): SpeMapGet answers with the entry whose key was set, SpeMapSet
\* refuses a second one, SpeMapDel and SpeMapClean hand each object to its handler
\* once, SpeMapNext visits all; and the chains and the list always hold the same
\* items.  For every hash function, number of buckets and set of names and objects.
THEOREM MapImplementsTable ==
  ASSUME M!MapAssumption
  PROVE  M!Spec => M!MapIsTable
<1>1. M!Init => MapInv /\ M!Table!Init
  BY InitMap
<1>2. MapInv /\ [M!Next]_map => MapInv' /\ [M!Table!Next]_(M!Table!vars)
  BY MapStep
<1>3. MapInv => M!Tidy
  BY MapIsTidy
<1> QED BY <1>1, <1>2, <1>3, PTL DEF M!Spec, M!MapIsTable, M!Table!Spec

----------------------------------------------------------------------------
(* The options (spe_opt.c, spe_cycle.c).                                   *)

\* The section that the first i lines of f lead to, and the lines of an option.
SectionAt(f, i) ==
  LET before == {j \in 1..i : f[j].means.kind = "section"}
  IN IF before = {} THEN Global ELSE O!Cut(f[O!Max(before)].means.name, NameMax)
Entries(f, n, sec, key) ==
  {i \in 1..n : /\ f[i].means.kind = "entry" /\ SectionAt(f, i) = sec
                /\ O!Cut(f[i].means.key, NameMax) = key}
Matches(l, sec, key) == {i \in DOMAIN l : l[i].sec = sec /\ l[i].key = key}

\* The first entry of the list has the value of the first line.
Agree(o, sec, key) ==
  \/ Entries(o.file, o.at, sec, key) = {} /\ (Matches(o.list, sec, key) = {} \/ o.broken)
  \/ /\ Entries(o.file, o.at, sec, key) # {} /\ Matches(o.list, sec, key) # {}
     /\ o.list[O!Min(Matches(o.list, sec, key))].val
          = O!Cut(o.file[O!Min(Entries(o.file, o.at, sec, key))].means.val, ValMax)

AsRead(o) ==
  /\ ~o.broken => o.sec = SectionAt(o.file, o.at)
  /\ \A sec, key : Agree(o, sec, key)
  /\ \A i \in 1..o.at :
       o.file[i].means.kind = "wrong" <=> o.res = "false" /\ i = o.at /\ ~o.broken
  /\ o.res = "true" => o.broken \/ o.at = Len(o.file)
  /\ o.res = "false" => o.broken \/ o.file[o.at].means.kind = "wrong"

OptType(o) ==
  /\ DOMAIN o = {"file", "ends", "at", "sec", "list", "res", "broken", "lost", "cycle"}
  /\ o.file \in Seq(Lines) /\ o.at \in 0..Len(o.file) /\ o.lost \in Nat
  /\ o.broken \in BOOLEAN /\ o.res \in {"pending", "true", "false"}
  /\ \E S : o.list \in Seq(S)
  /\ o.broken => o.res # "pending"

OptOK(o) == OptType(o) /\ (o.lost = 0 => AsRead(o))

\* A number greater than all others does not change the least one.
LEMMA LeastOfMore ==
  ASSUME NEW T, T \subseteq Nat, NEW n \in Nat, \A m \in T : m < n
  PROVE  /\ O!Min({n}) = n
         /\ T # {} => O!Min(T \cup {n}) = O!Min(T) /\ O!Min(T) \in T
<1>1. O!Min({n}) = n
  BY DEF O!Min
<1>2. ASSUME T # {}
      PROVE  O!Min(T \cup {n}) = O!Min(T) /\ O!Min(T) \in T
  <2>1. PICK k \in T : \A m \in T : k <= m
    BY <1>2, LeastNatural
  <2>2. O!Min(T) \in T /\ \A m \in T : O!Min(T) <= m
    BY <2>1 DEF O!Min
  <2>3. k \in T \cup {n} /\ \A m \in T \cup {n} : k <= m
    BY <2>1
  <2>4. O!Min(T \cup {n}) \in T \cup {n} /\ \A m \in T \cup {n} : O!Min(T \cup {n}) <= m
    BY <2>3 DEF O!Min
  <2>5. O!Min(T) = k
    <3>1. O!Min(T) \in Nat /\ k \in Nat /\ O!Min(T) <= k /\ k <= O!Min(T)
      BY <2>1, <2>2
    <3> QED BY <3>1
  <2>6. O!Min(T \cup {n}) = k
    <3>1. /\ O!Min(T \cup {n}) \in Nat /\ k \in Nat
          /\ O!Min(T \cup {n}) <= k /\ k <= O!Min(T \cup {n})
      BY <2>1, <2>3, <2>4
    <3> QED BY <3>1
  <2> QED BY <2>2, <2>5, <2>6
<1> QED BY <1>1, <1>2

\* The last line is the greatest one of any set of lines that has it.
LEMMA GreatestIsLast ==
  ASSUME NEW n \in Nat, NEW T, T \subseteq 1..n, n \in T
  PROVE  O!Max(T) = n
<1>1. n \in T /\ \A m \in T : n >= m
  OBVIOUS
<1>2. O!Max(T) \in T /\ \A m \in T : O!Max(T) >= m
  BY <1>1 DEF O!Max
<1> DEFINE x == O!Max(T)
<1>3. x \in 1..n /\ x >= n
  BY <1>1, <1>2
<1> HIDE DEF x
<1>4. x = n
  BY <1>3
<1> QED BY <1>4 DEF x

\* An entry added at the end of the list is found only if there was none.
FoundIn(l2, l, e, sec, key) ==
  LET was == Matches(l, sec, key)
      are == Matches(l2, sec, key)
  IN IF was # {} THEN are # {} /\ l2[O!Min(are)] = l[O!Min(was)]
     ELSE IF e.sec = sec /\ e.key = key THEN are # {} /\ l2[O!Min(are)] = e
     ELSE are = {}

\* An option appended to the list is found only when none before it matches.
LEMMA FirstMatch ==
  ASSUME NEW S, NEW l \in Seq(S), NEW e, NEW sec, NEW key, NEW l2, l2 = Append(l, e)
  PROVE  FoundIn(l2, l, e, sec, key)
<1> DEFINE old == Matches(l, sec, key)
           now == Matches(l2, sec, key)
           n   == Len(l) + 1
<1>1. Len(l) \in Nat /\ DOMAIN l = 1..Len(l) /\ n \in Nat
  BY LenProperties
<1>2. /\ DOMAIN l2 = 1..n /\ l2[n] = e
      /\ \A i \in 1..Len(l) : l2[i] = l[i]
  BY <1>1, LenProperties
<1>3. /\ old \subseteq 1..Len(l) /\ old \subseteq Nat /\ \A m \in old : m < n
  BY <1>1 DEF Matches
<1>4. now = old \cup (IF e.sec = sec /\ e.key = key THEN {n} ELSE {})
  BY <1>1, <1>2 DEF Matches
<1>5. /\ O!Min({n}) = n
      /\ old # {} => O!Min(old \cup {n}) = O!Min(old) /\ O!Min(old) \in old
  BY <1>1, <1>3, LeastOfMore
<1> HIDE DEF old, now, n
<1>6. old # {} => O!Min(now) = O!Min(old) /\ O!Min(old) \in 1..Len(l)
  BY <1>3, <1>4, <1>5
<1>7. old = {} /\ now # {} => O!Min(now) = n
  BY <1>4, <1>5
<1> QED BY <1>2, <1>4, <1>6, <1>7 DEF old, now, FoundIn

\* One line more.
LEMMA SectionNext ==
  ASSUME NEW f, NEW n \in Nat
  PROVE  SectionAt(f, n + 1) = IF f[n + 1].means.kind = "section"
                               THEN O!Cut(f[n + 1].means.name, NameMax)
                               ELSE SectionAt(f, n)
<1> DEFINE before(i) == {j \in 1..i : f[j].means.kind = "section"}
<1>1. CASE f[n + 1].means.kind = "section"
  <2>1. n + 1 \in before(n + 1) /\ before(n + 1) \subseteq 1..n + 1 /\ n + 1 \in Nat
    BY <1>1
  <2> HIDE DEF before
  <2>2. O!Max(before(n + 1)) = n + 1
    BY <2>1, GreatestIsLast
  <2> QED BY <1>1, <2>1, <2>2 DEF SectionAt, before
<1>2. CASE f[n + 1].means.kind # "section"
  <2>1. before(n + 1) = before(n)
    BY <1>2
  <2> QED BY <1>2, <2>1 DEF SectionAt
<1> QED BY <1>1, <1>2

\* A further line changes the first entry of an option only when there was none.
LEMMA FirstEntry ==
  ASSUME NEW f, NEW n \in Nat, NEW sec, NEW key
  PROVE  LET old == Entries(f, n, sec, key)
             now == Entries(f, n + 1, sec, key)
         IN IF old # {} THEN now # {} /\ O!Min(now) = O!Min(old)
            ELSE IF /\ f[n + 1].means.kind = "entry" /\ SectionAt(f, n + 1) = sec
                    /\ O!Cut(f[n + 1].means.key, NameMax) = key
            THEN now # {} /\ O!Min(now) = n + 1
            ELSE now = {}
<1> DEFINE old == Entries(f, n, sec, key)
           now == Entries(f, n + 1, sec, key)
           new == /\ f[n + 1].means.kind = "entry" /\ SectionAt(f, n + 1) = sec
                  /\ O!Cut(f[n + 1].means.key, NameMax) = key
<1>1. old \subseteq Nat /\ n + 1 \in Nat /\ \A m \in old : m < n + 1
  BY DEF Entries
<1>2. now = old \cup (IF new THEN {n + 1} ELSE {})
  BY DEF Entries
<1> HIDE DEF old, now, new
<1>3. /\ O!Min({n + 1}) = n + 1
      /\ old # {} => O!Min(old \cup {n + 1}) = O!Min(old)
  BY <1>1, LeastOfMore
<1>4. old # {} => now # {} /\ O!Min(now) = O!Min(old)
  BY <1>2, <1>3
<1>5. old = {} => IF new THEN now # {} /\ O!Min(now) = n + 1 ELSE now = {}
  BY <1>2, <1>3
<1> QED BY <1>4, <1>5 DEF old, now, new

\* What the parser makes of a line is one of four kinds.
LEMMA ParsedKind ==
  ASSUME NEW b
  PROVE  O!Parsed(b).kind \in {"nothing", "section", "entry", "wrong"}
BY DEF O!Parsed

\* What a turn of the loop does, by what the line says.
Turned(o, p, o2) ==
  \/ p.kind = "nothing" /\ o2 = o
  \/ p.kind = "section" /\ o2 = [o EXCEPT !.sec = p.name]
  \/ p.kind = "wrong" /\ o2 = [o EXCEPT !.res = "false"]
  \/ p.kind = "entry" /\ o2 = [o EXCEPT !.sec = o.sec, !.list = Append(@, O!Entry(o.sec, p.key, p.val))]
  \/ p.kind = "entry" /\ o2 = [o EXCEPT !.lost = @ + 1]

\* A turn of the loop of spe_opt_create does what the line it parsed asks for.
LEMMA TurnIs ==
  ASSUME NEW o, NEW b, NEW o2 \in O!Turn(o, b)
  PROVE  Turned(o, O!Parsed(b), o2)
<1> DEFINE p == O!Parsed(b)
<1>1. p.kind \in {"nothing", "section", "entry", "wrong"}
  BY ParsedKind
<1>2. o2 \in CASE p.kind = "nothing" -> {o}
    [] p.kind = "section" -> {[o EXCEPT !.sec = p.name]}
    [] p.kind = "wrong"   -> {[o EXCEPT !.res = "false"]}
    [] p.kind = "entry"   ->
         {[o EXCEPT !.sec = o.sec, !.list = Append(@, O!Entry(o.sec, p.key, p.val))]}
           \cup (IF o.lost < MaxLost THEN {[o EXCEPT !.lost = @ + 1]} ELSE {})
  BY DEF O!Turn, O!SectionAfter
<1> HIDE DEF p
<1>3. CASE p.kind = "nothing"
  BY <1>2, <1>3 DEF Turned, p
<1>4. CASE p.kind = "section"
  BY <1>2, <1>4 DEF Turned, p
<1>5. CASE p.kind = "wrong"
  BY <1>2, <1>5 DEF Turned, p
<1>6. CASE p.kind = "entry"
  BY <1>2, <1>6 DEF Turned, p
<1> QED BY <1>1, <1>3, <1>4, <1>5, <1>6

\* Taking a whole line.
LEMMA TakeLine ==
  ASSUME NEW o, OptOK(o), o.res = "pending", o.at < Len(o.file),
         NEW p, O!Says(p, o.file[o.at + 1].means),
         p.kind \in {"nothing", "section", "entry", "wrong"},
         NEW o2, Turned([o EXCEPT !.at = @ + 1], p, o2)
  PROVE  /\ OptOK(o2) /\ o2.at = o.at + 1
         /\ o2.file = o.file /\ o2.cycle = o.cycle
<1> DEFINE f == o.file
           n == o.at
           m == f[n + 1].means
           next == [o EXCEPT !.at = @ + 1]
<1>1. /\ OptType(o) /\ n \in Nat /\ n + 1 \in 0..Len(f) /\ ~o.broken
      /\ f \in Seq(Lines) /\ Len(f) \in Nat
  BY LenProperties DEF OptOK, OptType
<1>2. /\ DOMAIN next = DOMAIN o /\ next.at = n + 1 /\ next.file = f /\ next.sec = o.sec
      /\ next.list = o.list /\ next.res = o.res /\ next.broken = o.broken /\ next.lost = o.lost
      /\ next.cycle = o.cycle
  BY <1>1 DEF OptType
<1>3. SectionAt(f, n + 1) = IF m.kind = "section" THEN O!Cut(m.name, NameMax) ELSE SectionAt(f, n)
  BY <1>1, SectionNext
<1>4. p.kind = m.kind /\ (m.kind = "section" => p.name = O!Cut(m.name, NameMax))
      /\ (m.kind = "entry" => p.key = O!Cut(m.key, NameMax) /\ p.val = O!Cut(m.val, ValMax))
  BY DEF O!Says
<1>5. PICK S : o.list \in Seq(S)
  BY <1>1 DEF OptType
<1> HIDE DEF next
<1>6. /\ DOMAIN o2 = DOMAIN o /\ o2.at = n + 1 /\ o2.file = f /\ o2.broken = o.broken /\ o2.cycle = o.cycle
      /\ o2.res = (IF p.kind = "wrong" THEN "false" ELSE "pending")
      /\ \/ o2.lost = o.lost
         \/ o2.lost = o.lost + 1
      /\ o2.sec = (IF p.kind = "section" THEN p.name ELSE o.sec)
      /\ \/ o2.list = o.list /\ (p.kind # "entry" \/ o2.lost = o.lost + 1)
         \/ p.kind = "entry" /\ o2.list = Append(o.list, O!Entry(o.sec, p.key, p.val))
  <2>1. CASE p.kind = "nothing"
    BY <1>1, <1>2, <2>1 DEF Turned, next
  <2>2. CASE p.kind = "section"
    BY <1>1, <1>2, <2>2 DEF Turned, OptType, next
  <2>3. CASE p.kind = "wrong"
    BY <1>1, <1>2, <2>3 DEF Turned, OptType, next
  <2>4. CASE p.kind = "entry"
    BY <1>1, <1>2, <2>4, ZenonT(20) DEF Turned, OptType, next
  <2> QED BY <2>1, <2>2, <2>3, <2>4
<1>7. \E T : o2.list \in Seq(T)
  <2>1. CASE o2.list = o.list
    BY <1>5, <2>1
  <2>2. CASE o2.list = Append(o.list, O!Entry(o.sec, p.key, p.val))
    <3> DEFINE e == O!Entry(o.sec, p.key, p.val)
    <3>1. o.list \in Seq(S \cup {e}) /\ e \in S \cup {e}
      BY <1>5, SeqMonotonic
    <3> HIDE DEF e
    <3>2. Append(o.list, e) \in Seq(S \cup {e})
      BY <3>1, AppendProperties
    <3> QED BY <2>2, <3>2 DEF e
  <2> QED BY <1>6, <2>1, <2>2
<1>8. OptType(o2)
  BY <1>1, <1>6, <1>7 DEF OptType
<1>9. ASSUME o2.lost = 0
      PROVE  AsRead(o2)
  <2>1. o.lost = 0 /\ o2.lost # o.lost + 1
    BY <1>1, <1>6, <1>9 DEF OptType
  <2>2. AsRead(o)
    BY <2>1 DEF OptOK
  <2>3. o2.sec = SectionAt(f, n + 1)
    BY <1>1, <1>3, <1>4, <1>6, <2>2 DEF AsRead
  <2>4. ASSUME NEW sec, NEW key
        PROVE  Agree(o2, sec, key)
    <3> DEFINE old == Entries(f, n, sec, key)
               now == Entries(f, n + 1, sec, key)
               was == Matches(o.list, sec, key)
               are == Matches(o2.list, sec, key)
               new == m.kind = "entry" /\ SectionAt(f, n + 1) = sec /\ O!Cut(m.key, NameMax) = key
    <3>1. IF old # {} THEN now # {} /\ O!Min(now) = O!Min(old)
          ELSE IF new THEN now # {} /\ O!Min(now) = n + 1
          ELSE now = {}
      BY <1>1, FirstEntry
    <3>2. \/ old = {} /\ was = {}
          \/ /\ old # {} /\ was # {}
             /\ o.list[O!Min(was)].val = O!Cut(f[O!Min(old)].means.val, ValMax)
      BY <1>1, <2>2 DEF AsRead, Agree
    <3>3. CASE m.kind # "entry"
      <4>1. are = was /\ o2.list = o.list
        BY <1>4, <1>6, <3>3
      <4>2. ~new
        BY <3>3
      <4> HIDE DEF old, now, was, are, new
      <4>3. \/ now = {} /\ are = {}
            \/ now # {} /\ are # {} /\ o2.list[O!Min(are)].val = O!Cut(f[O!Min(now)].means.val, ValMax)
        BY <3>1, <3>2, <4>1, <4>2
      <4> QED BY <1>6, <4>3 DEF Agree, now, are
    <3>4. CASE m.kind = "entry"
      <4> DEFINE e == O!Entry(o.sec, p.key, p.val)
      <4>1. o2.list = Append(o.list, e)
        BY <1>4, <1>6, <2>1, <3>4
      <4>2. new <=> e.sec = sec /\ e.key = key
        BY <1>3, <1>4, <1>6, <2>3, <3>4 DEF O!Entry
      <4>3. e.val = O!Cut(f[n + 1].means.val, ValMax)
        BY <1>4, <3>4 DEF O!Entry
      <4> HIDE DEF e
      <4>4. FoundIn(o2.list, o.list, e, sec, key)
        BY <1>5, <4>1, FirstMatch
      <4>6. IF was # {} THEN are # {} /\ o2.list[O!Min(are)] = o.list[O!Min(was)]
            ELSE IF e.sec = sec /\ e.key = key THEN are # {} /\ o2.list[O!Min(are)] = e
            ELSE are = {}
        BY <4>4 DEF FoundIn
      <4> HIDE DEF old, now, was, are, new
      <4>5. \/ now = {} /\ are = {}
            \/ now # {} /\ are # {} /\ o2.list[O!Min(are)].val = O!Cut(f[O!Min(now)].means.val, ValMax)
        BY <3>1, <3>2, <4>2, <4>3, <4>6
      <4> QED BY <1>6, <4>5 DEF Agree, now, are
    <3> QED BY <3>3, <3>4
  <2>5. \A i \in 1..o2.at :
          f[i].means.kind = "wrong" <=> o2.res = "false" /\ i = o2.at /\ ~o2.broken
    <3>1. \A i \in 1..n : f[i].means.kind # "wrong"
      BY <1>1, <2>2 DEF AsRead
    <3> QED BY <1>1, <1>4, <1>6, <3>1
  <2>6. o2.res = "false" => f[o2.at].means.kind = "wrong"
    BY <1>4, <1>6
  <2> QED BY <1>1, <1>6, <2>3, <2>4, <2>5, <2>6 DEF AsRead
<1> QED BY <1>6, <1>8, <1>9 DEF OptOK

\* The end of the loop.
LEMMA EndIsTaken ==
  ASSUME NEW o, OptOK(o), o.at = Len(o.file) \/ o.broken
  PROVE  /\ OptOK(O!End(o)) /\ O!End(o).cycle = o.cycle
         /\ O!End(o).res # "pending"
<1>1. CASE o.res # "pending"
  BY <1>1 DEF O!End, O!Pending
<1>2. CASE o.res = "pending"
  <2> DEFINE e == O!End(o)
  <2>1. e = [o EXCEPT !.res = "true"]
    BY <1>2 DEF O!End, O!Pending
  <2>2. /\ DOMAIN e = DOMAIN o /\ e.res = "true" /\ e.file = o.file /\ e.at = o.at
        /\ e.broken = o.broken /\ e.lost = o.lost /\ e.list = o.list /\ e.sec = o.sec
        /\ e.cycle = o.cycle
    BY <2>1 DEF OptOK, OptType
  <2> HIDE DEF e
  <2>3. OptType(e)
    BY <1>2, <2>2 DEF OptOK, OptType
  <2>4. AsRead(o) => AsRead(e)
    BY <1>2, <2>2 DEF AsRead, Agree
  <2> QED BY <2>2, <2>3, <2>4 DEF OptOK, e
<1> QED BY <1>1, <1>2

\* A read that fails, and the turn for what it brought.
LEMMA TakePiece ==
  ASSUME NEW o, OptOK(o), o.res = "pending",
         NEW p, p.kind \in {"nothing", "section", "entry", "wrong"},
         NEW o2, Turned([o EXCEPT !.broken = TRUE], p, o2)
  PROVE  OptOK(O!End(o2)) /\ O!End(o2).cycle = o.cycle /\ O!End(o2).res # "pending"
<1> DEFINE next == [o EXCEPT !.broken = TRUE]
           e == O!End(o2)
<1>1. /\ OptType(o) /\ ~o.broken
  BY DEF OptOK, OptType
<1>2. /\ DOMAIN next = DOMAIN o /\ next.at = o.at /\ next.file = o.file /\ next.sec = o.sec
      /\ next.list = o.list /\ next.res = o.res /\ next.broken = TRUE /\ next.lost = o.lost
      /\ next.cycle = o.cycle
  BY <1>1 DEF OptType
<1>5. PICK S : o.list \in Seq(S)
  BY <1>1 DEF OptType
<1> HIDE DEF next
<1>6. /\ DOMAIN o2 = DOMAIN o /\ o2.at = o.at /\ o2.file = o.file /\ o2.broken = TRUE
      /\ o2.cycle = o.cycle /\ o2.res \in {"pending", "false"}
      /\ \/ o2.lost = o.lost
         \/ o2.lost = o.lost + 1
      /\ \/ o2.list = o.list
         \/ o2.list = Append(o.list, O!Entry(o.sec, p.key, p.val))
  <2>1. CASE p.kind = "nothing"
    BY <1>1, <1>2, <2>1 DEF Turned, next
  <2>2. CASE p.kind = "section"
    BY <1>1, <1>2, <2>2 DEF Turned, OptType, next
  <2>3. CASE p.kind = "wrong"
    BY <1>1, <1>2, <2>3 DEF Turned, OptType, next
  <2>4. CASE p.kind = "entry"
    BY <1>1, <1>2, <2>4 DEF Turned, OptType, next
  <2> QED BY <2>1, <2>2, <2>3, <2>4
<1>7. \E T : o2.list \in Seq(T)
  <2>1. CASE o2.list = o.list
    BY <1>5, <2>1
  <2>2. CASE o2.list = Append(o.list, O!Entry(o.sec, p.key, p.val))
    <3> DEFINE x == O!Entry(o.sec, p.key, p.val)
    <3>1. o.list \in Seq(S \cup {x}) /\ x \in S \cup {x}
      BY <1>5, SeqMonotonic
    <3> HIDE DEF x
    <3>2. Append(o.list, x) \in Seq(S \cup {x})
      BY <3>1, AppendProperties
    <3> QED BY <2>2, <3>2 DEF x
  <2> QED BY <1>6, <2>1, <2>2
<1>8. /\ DOMAIN e = DOMAIN o /\ e.at = o.at /\ e.file = o.file /\ e.broken = TRUE
      /\ e.cycle = o.cycle /\ e.res \in {"true", "false"} /\ e.lost = o2.lost /\ e.list = o2.list
  BY <1>1, <1>6 DEF O!End, O!Pending, OptType
<1> HIDE DEF e
<1>9. OptType(e)
  <2>1. o.file \in Seq(Lines) /\ o.at \in 0..Len(o.file) /\ e.lost \in Nat
    BY <1>1, <1>6, <1>8 DEF OptType
  <2>2. DOMAIN e = {"file", "ends", "at", "sec", "list", "res", "broken", "lost", "cycle"}
    BY <1>1, <1>6, <1>8 DEF OptType
  <2> QED BY <1>7, <1>8, <2>1, <2>2 DEF OptType
<1>10. ASSUME e.lost = 0
       PROVE  AsRead(e)
  <2>1. AsRead(o)
    BY <1>1, <1>6, <1>8, <1>10 DEF OptOK, OptType
  <2>2. ASSUME NEW sec, NEW key
        PROVE  Agree(e, sec, key)
    <3> DEFINE now == Entries(o.file, o.at, sec, key)
               was == Matches(o.list, sec, key)
               are == Matches(o2.list, sec, key)
    <3>1. \/ now = {}
          \/ /\ now # {} /\ was # {}
             /\ o.list[O!Min(was)].val = O!Cut(o.file[O!Min(now)].means.val, ValMax)
      BY <2>1 DEF AsRead, Agree
    <3>2. was # {} => are # {} /\ o2.list[O!Min(are)] = o.list[O!Min(was)]
      <4>1. CASE o2.list = o.list
        BY <4>1
      <4>2. CASE o2.list = Append(o.list, O!Entry(o.sec, p.key, p.val))
        <5> DEFINE x == O!Entry(o.sec, p.key, p.val)
        <5>1. FoundIn(o2.list, o.list, x, sec, key)
          BY <1>5, <4>2, FirstMatch
        <5> HIDE DEF x
        <5> QED BY <5>1 DEF FoundIn
      <4> QED BY <1>6, <4>1, <4>2
    <3> HIDE DEF now, was, are
    <3>3. \/ now = {}
          \/ now # {} /\ are # {} /\ o2.list[O!Min(are)].val = O!Cut(o.file[O!Min(now)].means.val, ValMax)
      BY <3>1, <3>2
    <3> QED BY <1>8, <3>3 DEF Agree, now, are
  <2>3. \A i \in 1..o.at : o.file[i].means.kind # "wrong"
    BY <2>1 DEF AsRead
  <2> QED BY <1>8, <2>2, <2>3 DEF AsRead
<1> QED BY <1>8, <1>9, <1>10 DEF OptOK, e

\* The settings taken are those that the entries of the file ask for.
LookIn(o, sec, key, def) ==
  IF Matches(o.list, sec, key) = {} THEN def ELSE o.list[O!Min(Matches(o.list, sec, key))].val
MeantIn(o, sec, key) ==
  IF Entries(o.file, o.at, sec, key) = {} THEN O!Absent
  ELSE O!Cut(o.file[O!Min(Entries(o.file, o.at, sec, key))].means.val, ValMax)
AskedIn(o, name, def) ==
  IF MeantIn(o, Global, NameOf(name)) = O!Absent THEN def
  ELSE ValueOf(MeantIn(o, Global, NameOf(name)))

CycleOK(o) ==
  /\ o.cycle.is # "pending" => o.res = "true"
  /\ o.lost = 0 /\ ~o.broken =>
       /\ o.cycle.is = "refused" => AskedIn(o, "procs", 1) <= 0 \/ AskedIn(o, "maxfd", 1) <= 0
       /\ o.cycle.is = "set" =>
            /\ o.cycle.procs = AskedIn(o, "procs", 1) /\ o.cycle.procs > 0
            /\ o.cycle.daemon = AskedIn(o, "daemon", 0)

OptInv == OptOK(opt) /\ CycleOK(opt)

\* The file before its first line is read.
LEMMA InitOpt ==
  ASSUME O!OptAssumption, O!Init
  PROVE  OptInv
<1>0. PICK n \in 0..MaxLines : \E f \in [1..n -> Lines], ends \in BOOLEAN : opt = O!Start(f, ends)
  BY DEF O!Init
<1>1. PICK f \in [1..n -> Lines], ends \in BOOLEAN : opt = O!Start(f, ends)
  BY <1>0
<1>2. f \in Seq(Lines) /\ 0 \in 0..Len(f)
  <2>1. n \in Nat
    BY DEF O!OptAssumption
  <2>2. f \in Seq(Lines)
    BY <2>1
  <2> QED BY <2>2, LenProperties
<1>3. /\ DOMAIN opt = {"file", "ends", "at", "sec", "list", "res", "broken", "lost", "cycle"}
      /\ opt.file = f /\ opt.at = 0 /\ opt.lost = 0 /\ opt.broken = FALSE /\ opt.res = "pending"
      /\ opt.list = <<>> /\ opt.sec = Global /\ opt.cycle.is = "pending"
  BY <1>1 DEF O!Start, O!Pending
<1>4. \E S : opt.list \in Seq(S)
  <2>1. <<>> \in Seq({})
    OBVIOUS
  <2> QED BY <1>3, <2>1
<1>5. OptType(opt)
  <2>1. opt.file \in Seq(Lines) /\ opt.at \in 0..Len(opt.file) /\ opt.lost \in Nat
    BY <1>2, <1>3
  <2> QED BY <1>3, <1>4, <2>1 DEF OptType
<1>6. SectionAt(f, 0) = Global
  BY DEF SectionAt
<1>7. \A sec, key : Agree(opt, sec, key)
  <2> SUFFICES ASSUME NEW sec, NEW key PROVE Agree(opt, sec, key)
    OBVIOUS
  <2>1. Entries(opt.file, opt.at, sec, key) = {}
    BY <1>3 DEF Entries
  <2>2. Matches(opt.list, sec, key) = {}
    BY <1>3 DEF Matches
  <2> QED BY <2>1, <2>2 DEF Agree
<1>8. AsRead(opt)
  BY <1>3, <1>6, <1>7 DEF AsRead
<1> QED BY <1>3, <1>5, <1>8 DEF OptInv, OptOK, CycleOK

\* A whole line is read and taken.
LEMMA ReadLineStep ==
  ASSUME O!OptAssumption, OptInv, O!ReadLine
  PROVE  OptInv'
<1> DEFINE line  == opt.file[opt.at + 1]
           whole == opt.at + 1 < Len(opt.file) \/ opt.ends
           next  == [opt EXCEPT !.at = @ + 1]
           b     == IF whole THEN Append(line.bytes, "\n") ELSE line.bytes
           p     == O!Parsed(b)
<1>1. PICK o \in O!Turn(next, b) : opt' = IF whole THEN o ELSE O!End(o)
  BY DEF O!ReadLine
<1>2. /\ opt.res = "pending" /\ opt.at < Len(opt.file) /\ OptOK(opt) /\ OptType(opt)
      /\ opt.at \in Nat /\ Len(opt.file) \in Nat
  BY LenProperties DEF O!ReadLine, O!Pending, OptInv, OptOK, OptType
<1>3. line \in Lines
  <2>1. opt.file \in Seq(Lines) /\ opt.at + 1 \in 1..Len(opt.file)
    BY <1>2 DEF OptType
  <2> QED BY <2>1, ElementOfSeq
<1>4. O!Says(p, line.means)
  BY <1>3 DEF O!OptAssumption
<1>5. p.kind \in {"nothing", "section", "entry", "wrong"}
  BY ParsedKind
<1>6. Turned(next, p, o)
  BY TurnIs
<1>7. opt.cycle.is = "pending"
  BY <1>2 DEF OptInv, CycleOK
<1> HIDE DEF p, b, whole
<1>8. OptOK(o) /\ o.at = opt.at + 1 /\ o.file = opt.file /\ o.cycle = opt.cycle
  BY <1>2, <1>4, <1>5, <1>6, TakeLine
<1>9. CASE whole
  BY <1>1, <1>7, <1>8, <1>9 DEF OptInv, CycleOK
<1>10. CASE ~whole
  <2>1. o.at = Len(o.file)
    BY <1>2, <1>8, <1>10 DEF whole
  <2>2. OptOK(O!End(o)) /\ O!End(o).cycle = o.cycle
    BY <1>8, <2>1, EndIsTaken
  <2> QED BY <1>1, <1>7, <1>8, <1>10, <2>2 DEF OptInv, CycleOK
<1> QED BY <1>9, <1>10

\* The end of the file: the piece that is left is the last line.
LEMMA ReadEndStep ==
  ASSUME OptInv, O!ReadEnd
  PROVE  OptInv'
<1>1. OptOK(opt) /\ opt.at = Len(opt.file) /\ opt.cycle.is = "pending"
  BY DEF OptInv, O!ReadEnd, O!Pending, CycleOK
<1>2. OptOK(O!End(opt)) /\ O!End(opt).cycle = opt.cycle
  BY <1>1, EndIsTaken
<1>3. opt' = O!End(opt)
  BY DEF O!ReadEnd
<1> QED BY <1>1, <1>2, <1>3 DEF OptInv, CycleOK

\* A failing read ends the parsing with the piece that was read.
LEMMA ReadFailsStep ==
  ASSUME OptInv, O!ReadFails
  PROVE  OptInv'
<1>0. PICK b : \E o \in O!Turn([opt EXCEPT !.broken = TRUE], b) : opt' = O!End(o)
  BY DEF O!ReadFails
<1>1. PICK o \in O!Turn([opt EXCEPT !.broken = TRUE], b) : opt' = O!End(o)
  BY <1>0
<1>2. OptOK(opt) /\ opt.res = "pending" /\ opt.cycle.is = "pending"
  BY DEF OptInv, O!ReadFails, O!Pending, CycleOK
<1>3. Turned([opt EXCEPT !.broken = TRUE], O!Parsed(b), o)
  BY TurnIs
<1>4. O!Parsed(b).kind \in {"nothing", "section", "entry", "wrong"}
  BY ParsedKind
<1>5. OptOK(O!End(o)) /\ O!End(o).cycle = opt.cycle
  BY <1>2, <1>3, <1>4, TakePiece
<1> QED BY <1>1, <1>2, <1>5 DEF OptInv, CycleOK

\* spe_opt_int and spe_opt_string take the first entry that matches.
LEMMA LookupIs ==
  ASSUME NEW sec, NEW key, NEW def
  PROVE  O!Lookup(sec, key, def) = LookIn(opt, sec, key, def)
BY DEF O!Lookup, LookIn, Matches

\* The first match has the value of the first line for that option, unless the
\* file was broken off before it.
LEMMA FoundAsMeant ==
  ASSUME NEW o, AsRead(o), NEW sec, NEW key
  PROVE  \/ LookIn(o, sec, key, O!Absent) = MeantIn(o, sec, key)
         \/ o.broken /\ MeantIn(o, sec, key) = O!Absent
<1>1. Agree(o, sec, key)
  BY DEF AsRead
<1> QED BY <1>1 DEF Agree, LookIn, MeantIn

\* An option asked for as a number is one.
LEMMA AskedIsNumber ==
  ASSUME O!OptAssumption, NEW o, OptType(o), NEW name, NEW def \in Int
  PROVE  AskedIn(o, name, def) \in Int
<1> DEFINE at == Entries(o.file, o.at, Global, NameOf(name))
<1>1. CASE at = {}
  BY <1>1 DEF AskedIn, MeantIn
<1>2. CASE at # {}
  <2>1. o.file \in Seq(Lines) /\ o.at \in 0..Len(o.file) /\ Len(o.file) \in Nat
    BY LenProperties DEF OptType
  <2>2. at \subseteq Nat /\ \A i \in at : i \in 1..Len(o.file) /\ o.file[i].means.kind = "entry"
    BY <2>1 DEF Entries
  <2> DEFINE i == O!Min(at)
  <2> HIDE DEF at
  <2>3. PICK k \in at : \A m \in at : k <= m
    BY <1>2, <2>2, LeastNatural
  <2>4. i \in at
    BY <2>3 DEF O!Min
  <2>5. i \in 1..Len(o.file) /\ o.file[i].means.kind = "entry"
    BY <2>2, <2>4
  <2>6. o.file[i] \in Lines
    BY <2>1, <2>5, ElementOfSeq
  <2>7. ValueOf(O!Cut(o.file[i].means.val, ValMax)) \in Int
    BY <2>5, <2>6 DEF O!OptAssumption
  <2> QED BY <1>2, <2>7 DEF AskedIn, MeantIn, at
<1> QED BY <1>1, <1>2

\* spe_cycle_init asks for the options it knows and takes their values.
LEMMA CycleStep ==
  ASSUME O!OptAssumption, OptInv, O!spe_cycle_init
  PROVE  OptInv'
<1> DEFINE procs == O!LookupInt("procs", 1)
           maxfd == O!LookupInt("maxfd", 1000000)
           daemon == O!LookupInt("daemon", 0)
           cycle == IF procs <= 0 \/ maxfd <= 0 THEN [is |-> "refused"]
                    ELSE [is |-> "set", daemon |-> daemon, procs |-> procs, maxfd |-> maxfd,
                          pidfile |-> O!Lookup(Global, NameOf("pidfile"), O!Absent)]
<1>1. opt.res = "true" /\ opt' = [opt EXCEPT !.cycle = cycle]
  BY DEF O!spe_cycle_init
<1> HIDE DEF cycle
<1>2. /\ DOMAIN opt' = DOMAIN opt /\ opt'.cycle = cycle /\ opt'.res = opt.res /\ opt'.file = opt.file
      /\ opt'.at = opt.at /\ opt'.broken = opt.broken /\ opt'.lost = opt.lost
      /\ opt'.list = opt.list /\ opt'.sec = opt.sec
  BY <1>1 DEF OptInv, OptOK, OptType
<1>3. OptOK(opt')
  <2>1. OptType(opt')
    BY <1>2 DEF OptInv, OptOK, OptType
  <2>2. AsRead(opt) => AsRead(opt')
    BY <1>2 DEF AsRead, Agree
  <2> QED BY <1>2, <2>1, <2>2 DEF OptInv, OptOK
<1>4. ASSUME opt.lost = 0, ~opt.broken
      PROVE  /\ cycle.is = "refused" => AskedIn(opt, "procs", 1) <= 0 \/ AskedIn(opt, "maxfd", 1) <= 0
             /\ cycle.is = "set" =>
                  /\ cycle.procs = AskedIn(opt, "procs", 1) /\ cycle.procs > 0
                  /\ cycle.daemon = AskedIn(opt, "daemon", 0)
  <2>1. AsRead(opt) /\ OptType(opt)
    BY <1>4 DEF OptInv, OptOK
  <2>2. ASSUME NEW name, NEW def
        PROVE  O!LookupInt(name, def) = AskedIn(opt, name, def)
    <3>1. LookIn(opt, Global, NameOf(name), O!Absent) = MeantIn(opt, Global, NameOf(name))
      BY <1>4, <2>1, FoundAsMeant
    <3> QED BY <3>1, LookupIs DEF O!LookupInt, AskedIn
  <2>3. procs = AskedIn(opt, "procs", 1) /\ procs \in Int
    BY <2>1, <2>2, AskedIsNumber
  <2>4. daemon = AskedIn(opt, "daemon", 0)
    BY <2>2
  <2>5. maxfd = AskedIn(opt, "maxfd", 1000000) /\ maxfd \in Int
    BY <2>1, <2>2, AskedIsNumber
  <2>6. maxfd <= 0 => AskedIn(opt, "maxfd", 1) <= 0
    BY <2>5 DEF AskedIn
  <2> HIDE DEF procs, maxfd, daemon
  <2> QED BY <2>3, <2>4, <2>5, <2>6 DEF cycle
<1>5. CycleOK(opt')
  <2>1. \A name, def : AskedIn(opt', name, def) = AskedIn(opt, name, def)
    BY <1>2 DEF AskedIn, MeantIn
  <2> HIDE DEF procs, maxfd, daemon
  <2> QED BY <1>1, <1>2, <1>4, <2>1 DEF CycleOK
<1> QED BY <1>3, <1>5 DEF OptInv

\* The inductive invariant says more than OptionsAsMeant.
LEMMA OptInvMeans ==
  ASSUME OptInv
  PROVE  O!OptionsAsMeant
<1> SUFFICES ASSUME opt.lost = 0 PROVE O!OptionsAsMeant
  BY DEF O!OptionsAsMeant
<1>1. AsRead(opt)
  BY DEF OptInv, OptOK
<1>2. \A i : O!Section(i) = SectionAt(opt.file, i)
  BY DEF O!Section, SectionAt, O!Means
<1>3. \A sec, key : O!Meant(sec, key) = MeantIn(opt, sec, key)
  BY <1>2 DEF O!Meant, MeantIn, Entries, O!Means
<1>4. \A sec, key : \/ O!Lookup(sec, key, O!Absent) = O!Meant(sec, key)
                    \/ opt.broken /\ O!Meant(sec, key) = O!Absent
  BY <1>1, <1>3, LookupIs, FoundAsMeant
<1>5. \A name, def : AskedIn(opt, name, def)
                       = IF O!Meant(Global, NameOf(name)) = O!Absent THEN def
                         ELSE ValueOf(O!Meant(Global, NameOf(name)))
  BY <1>3 DEF AskedIn
<1> QED BY <1>1, <1>4, <1>5 DEF O!OptionsAsMeant, OptInv, CycleOK, AsRead, O!Means

\* The option file means what it says: once spe_opt_create has read it, every option
\* that spe_cycle_init asks for has the value of its first line in its section, or its
\* default when there is no such line.  For every file made of lines that are read
\* as they are meant (OptAssumption), whole or cut off by a failing read.
THEOREM FileMeansOptions ==
  ASSUME O!OptAssumption
  PROVE  O!Spec => []O!OptionsAsMeant
<1>1. O!Init => OptInv
  BY InitOpt
<1>2. OptInv /\ [O!Next]_opt => OptInv'
  <2> SUFFICES ASSUME OptInv, [O!Next]_opt PROVE OptInv'
    OBVIOUS
  <2>1. CASE O!ReadLine
    BY <2>1, ReadLineStep
  <2>2. CASE O!ReadEnd
    BY <2>2, ReadEndStep
  <2>3. CASE O!ReadFails
    BY <2>3, ReadFailsStep
  <2>4. CASE O!spe_cycle_init
    BY <2>4, CycleStep
  <2>5. CASE UNCHANGED opt
    BY <2>5 DEF OptInv
  <2> QED BY <2>1, <2>2, <2>3, <2>4, <2>5 DEF O!Next
<1>3. OptInv => O!OptionsAsMeant
  BY OptInvMeans
<1> QED BY <1>1, <1>2, <1>3, PTL DEF O!Spec
----------------------------------------------------------------------------
(* The parts side by side, as in the module Data                           *)

\* A read from a file keeps its word: spe_io_read gives some of it,
\* spe_io_readbytes as many bytes as asked for, spe_io_readuntil all up to the
\* delimiter, in the order of the file and without a gap; or it gives what was
\* left, and says that the end or an error came.  For every file.
THEOREM ReadsRight == DataSpec => []ReadsKeepTheirWord
<1>1. I!IoAssumption /\ <<>> \in Files
  BY DataAssumption
<1>2. DataInit => I!Init
  BY <1>1 DEF DataInit, I!Init
<1>3. [DataNext]_<<part, datavars>> => [I!Next]_io
  BY DEF DataNext, datavars
<1>4. I!Spec => []I!ReadsKeepTheirWord
  BY <1>1, FileReadsRight
<1> QED BY <1>2, <1>3, <1>4, PTL DEF DataSpec, I!Spec, ReadsKeepTheirWord

\* The settings of spe_cycle.c are what the lines of the configuration file mean,
\* as far as it was read.  For files of any length.
THEOREM OptionsRight == DataSpec => []OptionsAsMeant
<1>1. O!OptAssumption
  BY DataAssumption
<1>2. DataInit => O!Init
  <2> SUFFICES ASSUME DataInit, part # "opt"
               PROVE  O!Init
    BY DEF DataInit
  <2>1. opt = O!Start(<<>>, TRUE)
    BY DEF DataInit
  <2>2. 0 \in 0..MaxLines
    BY <1>1 DEF O!OptAssumption
  <2>3. <<>> \in [1..0 -> Lines]
    OBVIOUS
  <2> QED BY <2>1, <2>2, <2>3 DEF O!Init
<1>3. [DataNext]_<<part, datavars>> => [O!Next]_opt
  BY DEF DataNext, datavars
<1>4. O!Spec => []O!OptionsAsMeant
  BY <1>1, FileMeansOptions
<1> QED BY <1>2, <1>3, <1>4, PTL DEF DataSpec, O!Spec, OptionsAsMeant

\* The map is the table of the entries made, and its chains and its list have
\* the same items.  For every hash function and all sets of names and objects.
THEOREM MapRight == DataSpec => MapIsTable
<1>1. M!MapAssumption
  BY DataAssumption
<1>2. DataInit => M!Init
  BY DEF DataInit
<1>3. [DataNext]_<<part, datavars>> => [M!Next]_map
  BY DEF DataNext, datavars
<1>4. M!Spec => M!MapIsTable
  BY <1>1, MapImplementsTable
<1>5. ASSUME [DataNext]_<<part, datavars>>, [M!Table!Next]_(M!Table!vars)
      PROVE  [part = "map" /\ M!Table!Next]_(M!Table!vars)
  <2>1. CASE part = "map"
    BY <1>5, <2>1
  <2>2. CASE part # "map"
    <3>1. UNCHANGED map
      BY <1>5, <2>2 DEF DataNext, datavars
    <3>2. UNCHANGED M!Table!vars
      BY <3>1 DEF M!Table!vars
    <3> QED BY <3>2
  <2> QED BY <2>1, <2>2
<1> QED
  BY <1>2, <1>3, <1>4, <1>5, PTL
     DEF DataSpec, MapIsTable, M!Spec, M!MapIsTable, M!Table!Spec

=============================================================================
