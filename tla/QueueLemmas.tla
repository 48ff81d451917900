---------------------------- MODULE QueueLemmas ----------------------------
(***************************************************************************)
(* Facts about the sequence operators with which the modules represent the *)
(* intrusive lists and the in-order sequence of the red-black tree: taking *)
(* an element out (RemoveAt) and putting one in (InsertAt).                *)
(***************************************************************************)
EXTENDS Integers, Sequences, SequencesExt, SequenceTheorems,
        WellFoundedInduction, TLAPS

\* Unlinking element k closes the gap and keeps the order of the others.
LEMMA RemoveAtProperties ==
  ASSUME NEW S, NEW q \in Seq(S), NEW k \in 1..Len(q)
  PROVE  /\ RemoveAt(q, k) \in Seq(S)
         /\ Len(RemoveAt(q, k)) = Len(q) - 1
         /\ \A i \in 1..(Len(q) - 1) :
              RemoveAt(q, k)[i] = IF i < k THEN q[i] ELSE q[i + 1]
<1> DEFINE a == SubSeq(q, 1, k - 1)
           b == SubSeq(q, k + 1, Len(q))
<1>1. Len(q) \in Nat /\ k \in Int /\ \A i \in 1..Len(q) : q[i] \in S
  BY LenProperties, ElementOfSeq
<1>2. /\ a \in Seq(S) /\ Len(a) = k - 1
      /\ \A i \in 1..(k - 1) : a[i] = q[i]
  <2>1. \A i \in 1..(k - 1) : q[i] \in S
    BY <1>1
  <2>2. /\ a \in Seq(S)
        /\ Len(a) = IF 1 <= k - 1 THEN (k - 1) - 1 + 1 ELSE 0
        /\ \A i \in 1..((k - 1) - 1 + 1) : a[i] = q[1 + i - 1]
    BY <1>1, <2>1, SubSeqProperties, Z3
  <2> QED BY <1>1, <2>2
<1>3. /\ b \in Seq(S) /\ Len(b) = Len(q) - k
      /\ \A i \in 1..(Len(q) - k) : b[i] = q[k + i]
  <2>1. \A i \in (k + 1)..Len(q) : q[i] \in S
    BY <1>1
  <2>2. /\ b \in Seq(S)
        /\ Len(b) = IF k + 1 <= Len(q) THEN Len(q) - (k + 1) + 1 ELSE 0
        /\ \A i \in 1..(Len(q) - (k + 1) + 1) : b[i] = q[(k + 1) + i - 1]
    BY <1>1, <2>1, SubSeqProperties, Z3
  <2> QED BY <1>1, <2>2
<1>4. /\ a \o b \in Seq(S)
      /\ Len(a \o b) = Len(a) + Len(b)
      /\ \A i \in 1..(Len(a) + Len(b)) :
           (a \o b)[i] = IF i <= Len(a) THEN a[i] ELSE b[i - Len(a)]
  BY <1>2, <1>3, ConcatProperties
<1>5. RemoveAt(q, k) = a \o b
  BY DEF RemoveAt
<1> HIDE DEF a, b
<1>6. /\ a \o b \in Seq(S) /\ Len(a \o b) = Len(q) - 1
  BY <1>1, <1>2, <1>3, <1>4
<1>7. ASSUME NEW i \in 1..(Len(q) - 1)
      PROVE  (a \o b)[i] = IF i < k THEN q[i] ELSE q[i + 1]
  <2>1. (a \o b)[i] = IF i <= k - 1 THEN a[i] ELSE b[i - (k - 1)]
    BY <1>1, <1>2, <1>3, <1>4
  <2>2. CASE i < k
    BY <1>1, <1>2, <2>1, <2>2
  <2>3. CASE ~(i < k)
    <3>1. i - (k - 1) \in 1..(Len(q) - k) /\ k + (i - (k - 1)) = i + 1
      BY <1>1, <2>3
    <3> QED BY <1>1, <1>3, <2>1, <2>3, <3>1
  <2> QED BY <2>2, <2>3
<1> QED BY <1>5, <1>6, <1>7

\* Linking x in as element k makes room for it and keeps the others in order.
LEMMA InsertAtProperties ==
  ASSUME NEW S, NEW q \in Seq(S), NEW k \in 1..(Len(q) + 1), NEW x \in S
  PROVE  /\ InsertAt(q, k, x) \in Seq(S)
         /\ Len(InsertAt(q, k, x)) = Len(q) + 1
         /\ \A i \in 1..(Len(q) + 1) :
              InsertAt(q, k, x)[i] =
                IF i < k THEN q[i] ELSE IF i = k THEN x ELSE q[i - 1]
<1> DEFINE a == SubSeq(q, 1, k - 1)
           b == SubSeq(q, k, Len(q))
           m == a \o <<x>>
<1>1. Len(q) \in Nat /\ k \in Int /\ \A i \in 1..Len(q) : q[i] \in S
  BY LenProperties, ElementOfSeq
<1>2. /\ a \in Seq(S) /\ Len(a) = k - 1
      /\ \A i \in 1..(k - 1) : a[i] = q[i]
  <2>1. \A i \in 1..(k - 1) : q[i] \in S
    BY <1>1
  <2>2. /\ a \in Seq(S)
        /\ Len(a) = IF 1 <= k - 1 THEN (k - 1) - 1 + 1 ELSE 0
        /\ \A i \in 1..((k - 1) - 1 + 1) : a[i] = q[1 + i - 1]
    BY <1>1, <2>1, SubSeqProperties, Z3
  <2> QED BY <1>1, <2>2
<1>3. /\ b \in Seq(S) /\ Len(b) = Len(q) - k + 1
      /\ \A i \in 1..(Len(q) - k + 1) : b[i] = q[k + i - 1]
  <2>1. \A i \in k..Len(q) : q[i] \in S
    BY <1>1
  <2>2. /\ b \in Seq(S)
        /\ Len(b) = IF k <= Len(q) THEN Len(q) - k + 1 ELSE 0
        /\ \A i \in 1..(Len(q) - k + 1) : b[i] = q[k + i - 1]
    BY <1>1, <2>1, SubSeqProperties, Z3
  <2> QED BY <1>1, <2>2
<1>4. <<x>> \in Seq(S) /\ Len(<<x>>) = 1 /\ <<x>>[1] = x
  OBVIOUS
<1>5. /\ m \in Seq(S) /\ Len(m) = Len(a) + 1
      /\ \A i \in 1..(Len(a) + 1) : m[i] = IF i <= Len(a) THEN a[i] ELSE x
  <2>1. /\ m \in Seq(S) /\ Len(m) = Len(a) + Len(<<x>>)
        /\ \A i \in 1..(Len(a) + Len(<<x>>)) :
             m[i] = IF i <= Len(a) THEN a[i] ELSE <<x>>[i - Len(a)]
    BY <1>2, <1>4, ConcatProperties
  <2> QED BY <1>1, <1>2, <1>4, <2>1
<1>6. /\ m \o b \in Seq(S)
      /\ Len(m \o b) = Len(m) + Len(b)
      /\ \A i \in 1..(Len(m) + Len(b)) :
           (m \o b)[i] = IF i <= Len(m) THEN m[i] ELSE b[i - Len(m)]
  <2> HIDE DEF a, b, m
  <2> QED BY <1>3, <1>5, ConcatProperties
<1>7. InsertAt(q, k, x) = m \o b
  BY DEF InsertAt
<1> HIDE DEF a, b, m
<1> QED BY <1>1, <1>2, <1>3, <1>5, <1>6, <1>7

\* r is q with x linked in as element k.
IsInsertion(r, q, k, x) ==
  /\ Len(r) = Len(q) + 1
  /\ \A i \in 1..(Len(q) + 1) :
       r[i] = IF i < k THEN q[i] ELSE IF i = k THEN x ELSE q[i - 1]

\* The same fact, with its parts folded into one operator.
LEMMA InsertAtIsInsertion ==
  ASSUME NEW S, NEW q \in Seq(S), NEW k \in 1..(Len(q) + 1), NEW x \in S
  PROVE  IsInsertion(InsertAt(q, k, x), q, k, x)
<1>1. /\ Len(InsertAt(q, k, x)) = Len(q) + 1
      /\ \A i \in 1..(Len(q) + 1) :
           InsertAt(q, k, x)[i] =
             IF i < k THEN q[i] ELSE IF i = k THEN x ELSE q[i - 1]
  BY InsertAtProperties
<1> QED BY <1>1, Zenon DEF IsInsertion

\* Every non-empty set of natural numbers has a least element.
LEMMA LeastNatural ==
  ASSUME NEW T, T \subseteq Nat, T # {}
  PROVE  \E n \in T : \A m \in T : n <= m
<1>1. PICK n \in T : \A m \in T : <<m, n>> \notin OpToRel(<, Nat)
  BY NatLessThanWellFounded, WFMin
<1>2. \A m \in T : ~(m < n)
  BY <1>1 DEF OpToRel
<1> QED BY <1>2

\* The elements of a non-empty sequence after its first one.
LEMMA TailElements ==
  ASSUME NEW S, NEW q \in Seq(S), q # <<>>
  PROVE  /\ Len(q) \in Nat \ {0}
         /\ Head(q) = q[1] /\ q[1] \in S
         /\ Tail(q) \in Seq(S)
         /\ Len(Tail(q)) = Len(q) - 1
         /\ \A i \in 1..(Len(q) - 1) : Tail(q)[i] = q[i + 1]
  BY HeadTailProperties, EmptySeq, LenProperties, ElementOfSeq
----------------------------------------------------------------------------
(* The same operations seen as sets: what is in the queue, and only once.  *)

\* list_add_tail of an element that is not in the list.
LEMMA AppendSet ==
  ASSUME NEW S, NEW q \in Seq(S), NEW x \in S,
         IsInjective(q), x \notin ToSet(q)
  PROVE  /\ Append(q, x) \in Seq(S)
         /\ ToSet(Append(q, x)) = ToSet(q) \cup {x}
         /\ IsInjective(Append(q, x))
<1> DEFINE r == Append(q, x)
<1>1. /\ Len(q) \in Nat /\ DOMAIN q = 1..Len(q)
      /\ \A i \in 1..Len(q) : q[i] \in S /\ q[i] # x
  BY LenProperties, ElementOfSeq DEF ToSet
<1>2. /\ r \in Seq(S) /\ DOMAIN r = 1..(Len(q) + 1)
      /\ \A i \in 1..Len(q) : r[i] = q[i]
      /\ r[Len(q) + 1] = x
  BY AppendProperties, LenProperties
<1> HIDE DEF r
<1>3. ToSet(r) = ToSet(q) \cup {x}
  BY <1>1, <1>2 DEF ToSet
<1>4. IsInjective(r)
  BY <1>1, <1>2 DEF IsInjective
<1> QED BY <1>2, <1>3, <1>4 DEF r

\* list_del_init or rb_erase of an element that is there.
LEMMA RemoveSet ==
  ASSUME NEW S, NEW q \in Seq(S), IsInjective(q), NEW k \in DOMAIN q
  PROVE  /\ RemoveAt(q, k) \in Seq(S)
         /\ ToSet(RemoveAt(q, k)) = ToSet(q) \ {q[k]}
         /\ IsInjective(RemoveAt(q, k))
<1> DEFINE r == RemoveAt(q, k)
<1>1. Len(q) \in Nat /\ DOMAIN q = 1..Len(q) /\ k \in 1..Len(q)
  BY LenProperties
<1>2. /\ r \in Seq(S) /\ Len(r) = Len(q) - 1
      /\ \A i \in 1..(Len(q) - 1) : r[i] = IF i < k THEN q[i] ELSE q[i + 1]
  BY <1>1, RemoveAtProperties
<1>3. DOMAIN r = 1..(Len(q) - 1)
  BY <1>2, LenProperties
<1> HIDE DEF r
<1>4. ToSet(r) \subseteq ToSet(q) \ {q[k]}
  <2> SUFFICES ASSUME NEW i \in 1..(Len(q) - 1)
               PROVE  r[i] \in ToSet(q) \ {q[k]}
    BY <1>3 DEF ToSet
  <2>1. CASE i < k
    BY <1>1, <1>2, <2>1 DEF ToSet, IsInjective
  <2>2. CASE ~(i < k)
    BY <1>1, <1>2, <2>2 DEF ToSet, IsInjective
  <2> QED BY <2>1, <2>2
<1>5. ToSet(q) \ {q[k]} \subseteq ToSet(r)
  <2> SUFFICES ASSUME NEW i \in 1..Len(q), q[i] # q[k]
               PROVE  q[i] \in ToSet(r)
    BY <1>1 DEF ToSet
  <2>1. CASE i < k
    <3>1. i \in 1..(Len(q) - 1) /\ r[i] = q[i]
      BY <1>1, <1>2, <2>1
    <3> QED BY <1>3, <3>1 DEF ToSet
  <2>2. CASE k < i
    <3>1. i - 1 \in 1..(Len(q) - 1) /\ r[i - 1] = q[i]
      BY <1>1, <1>2, <2>2
    <3> QED BY <1>3, <3>1 DEF ToSet
  <2> QED BY <1>1, <2>1, <2>2
<1>6. IsInjective(r)
  <2> SUFFICES ASSUME NEW i \in 1..(Len(q) - 1), NEW j \in 1..(Len(q) - 1),
                      r[i] = r[j]
               PROVE  i = j
    BY <1>3 DEF IsInjective
  <2> DEFINE old(n) == IF n < k THEN n ELSE n + 1
  <2>1. /\ old(i) \in 1..Len(q) /\ r[i] = q[old(i)]
        /\ old(j) \in 1..Len(q) /\ r[j] = q[old(j)]
    BY <1>1, <1>2
  <2>2. old(i) = old(j)
    <3> HIDE DEF old
    <3> QED BY <1>1, <2>1 DEF IsInjective
  <2> QED BY <1>1, <2>2
<1> QED BY <1>2, <1>4, <1>5, <1>6 DEF r

\* Insertion, anywhere, of an element that is not there.
LEMMA InsertSet ==
  ASSUME NEW S, NEW q \in Seq(S), NEW x \in S, NEW k \in 1..(Len(q) + 1),
         IsInjective(q), x \notin ToSet(q)
  PROVE  /\ InsertAt(q, k, x) \in Seq(S)
         /\ ToSet(InsertAt(q, k, x)) = ToSet(q) \cup {x}
         /\ IsInjective(InsertAt(q, k, x))
<1> DEFINE r == InsertAt(q, k, x)
<1>1. /\ Len(q) \in Nat /\ DOMAIN q = 1..Len(q)
      /\ \A i \in 1..Len(q) : q[i] \in S /\ q[i] # x
  BY LenProperties, ElementOfSeq DEF ToSet
<1>2. /\ r \in Seq(S) /\ Len(r) = Len(q) + 1
      /\ \A i \in 1..(Len(q) + 1) :
           r[i] = IF i < k THEN q[i] ELSE IF i = k THEN x ELSE q[i - 1]
  BY InsertAtProperties
<1>3. DOMAIN r = 1..(Len(q) + 1)
  BY <1>2, LenProperties
<1> HIDE DEF r
<1>4. ToSet(r) \subseteq ToSet(q) \cup {x}
  <2> SUFFICES ASSUME NEW i \in 1..(Len(q) + 1)
               PROVE  r[i] \in ToSet(q) \cup {x}
    BY <1>3 DEF ToSet
  <2>1. CASE i < k
    BY <1>1, <1>2, <2>1 DEF ToSet
  <2>2. CASE i = k
    BY <1>2, <2>2
  <2>3. CASE k < i
    BY <1>1, <1>2, <2>3 DEF ToSet
  <2> QED BY <1>1, <2>1, <2>2, <2>3
<1>5. ToSet(q) \subseteq ToSet(r)
  <2> SUFFICES ASSUME NEW i \in 1..Len(q)
               PROVE  q[i] \in ToSet(r)
    BY <1>1 DEF ToSet
  <2>1. CASE i < k
    <3>1. i \in 1..(Len(q) + 1) /\ r[i] = q[i]
      BY <1>1, <1>2, <2>1
    <3> QED BY <1>3, <3>1 DEF ToSet
  <2>2. CASE k <= i
    <3>1. i + 1 \in 1..(Len(q) + 1) /\ r[i + 1] = q[i]
      BY <1>1, <1>2, <2>2
    <3> QED BY <1>3, <3>1 DEF ToSet
  <2> QED BY <1>1, <2>1, <2>2
<1>6. x \in ToSet(r)
  <2>1. k \in 1..(Len(q) + 1) /\ r[k] = x
    BY <1>1, <1>2
  <2> QED BY <1>3, <2>1 DEF ToSet
<1>7. IsInjective(r)
  <2> SUFFICES ASSUME NEW i \in 1..(Len(q) + 1), NEW j \in 1..(Len(q) + 1),
                      r[i] = r[j]
               PROVE  i = j
    BY <1>3 DEF IsInjective
  <2> DEFINE old(n) == IF n < k THEN n ELSE n - 1
  <2>1. ASSUME NEW n \in 1..(Len(q) + 1), n # k
        PROVE  old(n) \in 1..Len(q) /\ r[n] = q[old(n)] /\ r[n] # x
    <3>1. old(n) \in 1..Len(q) /\ r[n] = q[old(n)]
      BY <1>1, <1>2, <2>1
    <3> HIDE DEF old
    <3> QED BY <1>1, <3>1
  <2>2. r[k] = x
    BY <1>1, <1>2
  <2>3. CASE i = k \/ j = k
    <3> HIDE DEF old
    <3> QED BY <2>1, <2>2, <2>3
  <2>4. CASE i # k /\ j # k
    <3>1. old(i) = old(j)
      <4> HIDE DEF old
      <4> QED BY <1>1, <2>1, <2>4 DEF IsInjective
    <3> QED BY <1>1, <2>4, <3>1
  <2> QED BY <2>3, <2>4
<1> QED BY <1>2, <1>4, <1>5, <1>6, <1>7 DEF r

\* Taking the first element off.
LEMMA TailSet ==
  ASSUME NEW S, NEW q \in Seq(S), IsInjective(q), q # <<>>
  PROVE  /\ Head(q) \in ToSet(q) /\ Head(q) \in S
         /\ Tail(q) \in Seq(S)
         /\ ToSet(Tail(q)) = ToSet(q) \ {Head(q)}
         /\ IsInjective(Tail(q))
<1> DEFINE r == Tail(q)
<1>1. DOMAIN q = 1..Len(q)
  BY LenProperties
<1>2. /\ Len(q) \in Nat \ {0}
      /\ Head(q) = q[1] /\ q[1] \in S
      /\ r \in Seq(S)
      /\ Len(r) = Len(q) - 1
      /\ \A i \in 1..(Len(q) - 1) : r[i] = q[i + 1]
  BY TailElements
<1>3. DOMAIN r = 1..(Len(q) - 1)
  BY <1>2, LenProperties
<1> HIDE DEF r
<1>4. Head(q) \in ToSet(q)
  BY <1>1, <1>2 DEF ToSet
<1>5. ToSet(r) \subseteq ToSet(q) \ {Head(q)}
  BY <1>1, <1>2, <1>3 DEF ToSet, IsInjective
<1>6. ToSet(q) \ {Head(q)} \subseteq ToSet(r)
  <2> SUFFICES ASSUME NEW i \in 1..Len(q), q[i] # q[1]
               PROVE  q[i] \in ToSet(r)
    BY <1>1, <1>2 DEF ToSet
  <2>1. i - 1 \in 1..(Len(q) - 1) /\ r[i - 1] = q[i]
    BY <1>2
  <2> QED BY <1>3, <2>1 DEF ToSet
<1>7. IsInjective(r)
  BY <1>1, <1>2, <1>3 DEF IsInjective
<1> QED BY <1>2, <1>4, <1>5, <1>6, <1>7 DEF r
----------------------------------------------------------------------------
(* Prefixes, and sequences without one of their elements.                   *)

\* A sequence falls into its first n elements and the rest.
LEMMA SplitAt ==
  ASSUME NEW S, NEW s \in Seq(S), NEW n \in 0..Len(s)
  PROVE  /\ SubSeq(s, 1, n) \in Seq(S) /\ Len(SubSeq(s, 1, n)) = n
         /\ \A i \in 1..n : SubSeq(s, 1, n)[i] = s[i]
         /\ SubSeq(s, n + 1, Len(s)) \in Seq(S) /\ Len(SubSeq(s, n + 1, Len(s))) = Len(s) - n
         /\ \A i \in 1..Len(s) - n : SubSeq(s, n + 1, Len(s))[i] = s[n + i]
         /\ SubSeq(s, 1, n) \o SubSeq(s, n + 1, Len(s)) = s
<1>1. Len(s) \in Nat /\ n \in Int /\ \A i \in 1..Len(s) : s[i] \in S
  BY LenProperties, ElementOfSeq
<1>2. /\ SubSeq(s, 1, n) \in Seq(S)
      /\ Len(SubSeq(s, 1, n)) = IF 1 <= n THEN n - 1 + 1 ELSE 0
      /\ \A i \in 1..(n - 1 + 1) : SubSeq(s, 1, n)[i] = s[1 + i - 1]
  <2>1. \A i \in 1..n : s[i] \in S
    BY <1>1
  <2> QED BY <1>1, <2>1, SubSeqProperties, Z3
<1>3. /\ SubSeq(s, n + 1, Len(s)) \in Seq(S)
      /\ Len(SubSeq(s, n + 1, Len(s))) = IF n + 1 <= Len(s) THEN Len(s) - (n + 1) + 1 ELSE 0
      /\ \A i \in 1..(Len(s) - (n + 1) + 1) : SubSeq(s, n + 1, Len(s))[i] = s[(n + 1) + i - 1]
  <2>1. \A i \in (n + 1)..Len(s) : s[i] \in S
    BY <1>1
  <2> QED BY <1>1, <2>1, SubSeqProperties, Z3
<1>4. SubSeq(s, 1, n) \o SubSeq(s, n + 1, Len(s)) = SubSeq(s, 1, Len(s))
  <2>1. 1 \in 1..(Len(s) + 1) /\ n \in (1 - 1)..Len(s) /\ Len(s) \in n..Len(s)
    BY <1>1
  <2> QED BY <2>1, ConcatAdjacentSubSeq
<1>5. SubSeq(s, 1, Len(s)) = s
  BY SubSeqFull
<1> DEFINE a == SubSeq(s, 1, n)
           b == SubSeq(s, n + 1, Len(s))
<1>6. a \in Seq(S) /\ Len(a) = n /\ \A i \in 1..n : a[i] = s[i]
  BY <1>1, <1>2
<1>7. b \in Seq(S) /\ Len(b) = Len(s) - n /\ \A i \in 1..Len(s) - n : b[i] = s[n + i]
  <2> HIDE DEF a
  <2>1. \A i \in 1..Len(s) - n : b[i] = s[n + i]
    BY <1>1, <1>3
  <2>2. Len(b) = Len(s) - n
    BY <1>1, <1>3
  <2>3. b \in Seq(S)
    BY <1>3
  <2> HIDE DEF b
  <2> QED BY <2>1, <2>2, <2>3
<1>8. a \o b = s
  BY <1>4, <1>5
<1> QED BY <1>6, <1>7, <1>8

\* Removing an element that is there once.
LEMMA RemoveFirstAt ==
  ASSUME NEW S, NEW q \in Seq(S), NEW k \in DOMAIN q, IsInjective(q)
  PROVE  RemoveFirst(q, q[k]) = RemoveAt(q, k)
<1>1. k \in 1..Len(q) /\ DOMAIN q = 1..Len(q)
  BY LenProperties
<1> DEFINE at == {i \in 1..Len(q) : q[i] = q[k]}
<1>2. at = {k}
  BY <1>1 DEF IsInjective
<1>3. Min(at) = k
  BY <1>1, <1>2 DEF Min
<1>4. SelectInSeq(q, LAMBDA v : v = q[k]) = k
  BY <1>1, <1>2, <1>3 DEF SelectInSeq
<1> QED BY <1>1, <1>4 DEF RemoveFirst

\* Where the elements that are left stood before element k was taken out.
Old(i, k) == IF i < k THEN i ELSE i + 1

\* r is q without its element k, the others in the same order.
Shortened(r, q, k) ==
  /\ DOMAIN r = 1..Len(q) - 1 /\ Len(r) = Len(q) - 1
  /\ \A i \in DOMAIN r : Old(i, k) \in DOMAIN q /\ Old(i, k) # k /\ r[i] = q[Old(i, k)]
  /\ \A i, j \in DOMAIN r : (i < j <=> Old(i, k) < Old(j, k))
  /\ \A m \in DOMAIN q : m # k => \E i \in DOMAIN r : m = Old(i, k)

\* RemoveAt takes out one element and keeps the order of the others.
LEMMA RemoveAtOld ==
  ASSUME NEW S, NEW q \in Seq(S), NEW k \in DOMAIN q
  PROVE  RemoveAt(q, k) \in Seq(S) /\ Shortened(RemoveAt(q, k), q, k)
<1>1. Len(q) \in Nat /\ DOMAIN q = 1..Len(q) /\ k \in 1..Len(q)
  BY LenProperties
<1> DEFINE r == RemoveAt(q, k)
<1>2. /\ r \in Seq(S) /\ Len(r) = Len(q) - 1
      /\ \A i \in 1..(Len(q) - 1) : r[i] = IF i < k THEN q[i] ELSE q[i + 1]
  BY <1>1, RemoveAtProperties
<1>3. DOMAIN r = 1..Len(q) - 1
  BY <1>2, LenProperties
<1> HIDE DEF r
<1>4. \A i \in DOMAIN r : Old(i, k) \in DOMAIN q /\ Old(i, k) # k /\ r[i] = q[Old(i, k)]
  BY <1>1, <1>2, <1>3 DEF Old
<1>5. \A i, j \in DOMAIN r : (i < j <=> Old(i, k) < Old(j, k))
  BY <1>1, <1>3 DEF Old
<1>6. ASSUME NEW m \in DOMAIN q, m # k
      PROVE  \E i \in DOMAIN r : m = Old(i, k)
  <2>1. CASE m < k
    <3>1. m \in DOMAIN r /\ m = Old(m, k)
      BY <1>1, <1>3, <2>1 DEF Old
    <3> QED BY <3>1
  <2>2. CASE m > k
    <3>1. m - 1 \in DOMAIN r /\ m = Old(m - 1, k)
      BY <1>1, <1>3, <2>2 DEF Old
    <3> QED BY <3>1
  <2> QED BY <1>1, <1>6, <2>1, <2>2
<1> QED BY <1>2, <1>3, <1>4, <1>5, <1>6 DEF r, Shortened
============================================================================
