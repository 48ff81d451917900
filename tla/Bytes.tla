-------------------------------- MODULE Bytes --------------------------------
(* Strings of bytes, as C sees them: what stands behind a 0 is not found.  *)
EXTENDS Integers, Sequences, SequencesExt, FiniteSetsExt

CONSTANT NUL   \* the byte 0

UpToNUL(s) ==
  LET at == SelectInSeq(s, LAMBDA c : c = NUL)
  IN IF at = 0 THEN s ELSE SubSeq(s, 1, at - 1)

\* strstr: the number of bytes before the first occurrence of key, -1 if there is none.
Find(s, key) ==
  LET c  == UpToNUL(s)
      at == {i \in 0..Len(c) - Len(key) : SubSeq(c, i + 1, i + Len(key)) = key}
  IN IF at = {} THEN -1 ELSE Min(at)

From(s, n)  == SubSeq(s, n + 1, Len(s))
First(s, n) == SubSeq(s, 1, n)
=============================================================================
